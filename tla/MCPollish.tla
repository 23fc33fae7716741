----------------------------- MODULE MCPollish -----------------------------
(* Instances of Pollish for TLC: handles with descriptors of their own, and *)
(* handles that share one.                                                  *)
EXTENDS Pollish, TLC

CONSTANTS h1, h2, h3, r1, r2, r3, q1, f1, f2, f3

OwnFds == (h1 :> f1) @@ (h2 :> f2) @@ (h3 :> f3)
SharedFd == (h1 :> f1) @@ (h2 :> f1) @@ (h3 :> f3)
OneQueue == [r \in Reqs |-> q1]

\* Requests of one queue are interchangeable.
ReqSymmetry == Permutations(Reqs)
=============================================================================
