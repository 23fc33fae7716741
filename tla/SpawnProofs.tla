----------------------------- MODULE SpawnProofs -----------------------------
(***************************************************************************)
(* Proofs about Spawn for any number of overlapping calls.                 *)
(*                                                                         *)
(* The inductive invariant says, for each place in yo_proc_spawn, which of *)
(* the call's own descriptors are open (FdOk) and what its child may be    *)
(* doing (KidOk).  Calls meet only in the sets of descriptors, so most of  *)
(* the work is to show that a step of one call opens and closes nothing    *)
(* that belongs to another.                                                *)
(***************************************************************************)
EXTENDS Spawn, TLAPS

Dirs == {"r", "w"}

\* The end of call c's pipe p in direction x is open in the parent.
Open(c, p, x) == <<c, p, x>> \in fds

\* Only ends of status pipes are marked, so closing a stream needs no unmarking.
CloexecInv == \A e \in cloexec : e[2] = "status"

\* The descriptors of call c.  Streams are made in the order in, out, err,
\* both ends at once; after the fork only the caller's ends remain.
FdOk(c) ==
  /\ pc[c] \in {"idle", "failed"} => \A p \in Pipes, x \in Dirs : ~Open(c, p, x)
  /\ pc[c] \in {"fcntl_r", "fcntl_w"} =>
       \A p \in Pipes, x \in Dirs : Open(c, p, x) <=> p = "status"
  /\ pc[c] = "mkstd" =>
       /\ \A x \in Dirs : Open(c, "status", x)
       /\ \A s \in Std : Open(c, s, "r") <=> Open(c, s, "w")
       /\ \A s \in Std : Open(c, s, "r") => s \in want[c]
       /\ Open(c, "out", "r") => Made(c, "in")
       /\ Open(c, "err", "r") => Made(c, "in") /\ Made(c, "out")
  /\ pc[c] = "close" => \A s \in Std, x \in Dirs : Open(c, s, x) => s \in want[c]
  /\ pc[c] \in {"read", "reap", "ok", "done"} =>
       \A p \in Pipes, x \in Dirs : Open(c, p, x) =>
         \/ p \in want[c] /\ <<c, p, x>> = ParentEnd(c, p)
         \/ pc[c] = "read" /\ p = "status" /\ x = "r"

\* The child of call c.  There is one from the fork on; one that is still
\* setting up can report its failure, and one that failed has reported it.
KidOk(c) ==
  /\ pc[c] \in {"idle", "fcntl_r", "fcntl_w", "mkstd"} => kid[c] \in {"none", "reaped"}
  /\ pc[c] = "failed" /\ ~intr[c] => kid[c] \in {"none", "reaped"}
  /\ kid[c] = "setup" => Status(c, "w") \in kfds[c]
  /\ pc[c] \in {"close", "read"} /\ kid[c] = "failed" => msg[c]
  /\ pc[c] = "ok" => kid[c] \notin {"setup", "failed"}

SpawnInv ==
  /\ CTypeOK /\ CloexecInv
  /\ \A c \in Calls : FdOk(c) /\ KidOk(c)

(* What the cleanup labels close. *)
LEMMA ClosesFacts ==
  /\ Closes["err_fork"] = Pipes
  /\ Closes["err_mkstd_err"] = {"out", "in", "status"}
  /\ Closes["err_mkstd_out"] = {"in", "status"}
  /\ Closes["err_mkstd_in"] = {"status"}
  /\ Closes["err_pipe_status"] = {}
BY DEF Closes

Labels == {"err_fork", "err_mkstd_err", "err_mkstd_out", "err_mkstd_in", "err_pipe_status"}

(* The ends of a call's pipes. *)
LEMMA EndFacts ==
  ASSUME NEW c \in Calls, NEW d \in Calls, NEW p \in Pipes, NEW x \in Dirs, NEW ps
  PROVE  /\ <<d, p, x>> \in Ends
         /\ <<d, p, x>> \in EndsOf(c, ps) <=> d = c /\ p \in ps
BY DEF Ends, EndsOf, Dirs

(* Opening pipes of c opens nothing else. *)
LEMMA OpenAdd ==
  ASSUME NEW c \in Calls, NEW ps, fds' = fds \cup EndsOf(c, ps)
  PROVE  \A d \in Calls, p \in Pipes, x \in Dirs :
           Open(d, p, x)' <=> Open(d, p, x) \/ (d = c /\ p \in ps)
BY EndFacts DEF Open

(* Closing pipes of c closes nothing else. *)
LEMMA OpenSub ==
  ASSUME NEW c \in Calls, NEW ps, fds' = fds \ EndsOf(c, ps)
  PROVE  \A d \in Calls, p \in Pipes, x \in Dirs :
           Open(d, p, x)' <=> Open(d, p, x) /\ ~(d = c /\ p \in ps)
BY EndFacts DEF Open

(* The error path that starts at a label. *)
LEMMA FailFacts ==
  ASSUME CTypeOK, NEW c \in Calls, NEW l \in Labels, Fail(c, l)
  PROVE  /\ pc' = [pc EXCEPT ![c] = "failed"]
         /\ fds' \subseteq fds /\ cloexec' \subseteq fds' /\ cloexec' \subseteq cloexec
         /\ \A d \in Calls, p \in Pipes, x \in Dirs :
              Open(d, p, x)' <=> Open(d, p, x) /\ ~(d = c /\ p \in Closes[l])
BY OpenSub DEF Fail, GoTo

(* A single end that is closed. *)
LEMMA OpenOne ==
  ASSUME NEW c \in Calls, NEW q \in Pipes, NEW y \in Dirs,
         fds' = fds \ {<<c, q, y>>}
  PROVE  \A d \in Calls, p \in Pipes, x \in Dirs :
           Open(d, p, x)' <=> Open(d, p, x) /\ ~(d = c /\ p = q /\ x = y)
BY DEF Open

(* The parent's copies of the child's ends are closed after the fork. *)
LEMMA OpenClose ==
  ASSUME NEW c \in Calls,
         fds' = fds \ ({ChildEnd(c, s) : s \in Std} \cup {Status(c, "w")})
  PROVE  /\ \A d \in Calls \ {c}, p \in Pipes, x \in Dirs : Open(d, p, x)' <=> Open(d, p, x)
         /\ \A p \in Pipes, x \in Dirs : Open(c, p, x)' =>
              /\ Open(c, p, x)
              /\ <<c, p, x>> = ParentEnd(c, p) \/ (p = "status" /\ x = "r")
<1>1. {ChildEnd(c, s) : s \in Std} = {<<c, "in", "r">>, <<c, "out", "w">>, <<c, "err", "w">>}
  BY DEF ChildEnd, Std
<1> QED BY <1>1 DEF Open, ParentEnd, Status, Pipes, Std, Dirs

(* Another call is not disturbed. *)
LEMMA OtherFd ==
  ASSUME CTypeOK, NEW d \in Calls, FdOk(d), pc'[d] = pc[d], want'[d] = want[d],
         \A p \in Pipes, x \in Dirs : Open(d, p, x)' <=> Open(d, p, x)
  PROVE  FdOk(d)'
<1>1. \A s \in Std : Made(d, s)' <=> Made(d, s)
  BY DEF Made, Open, ParentEnd, Pipes, Dirs, Std
<1> QED BY <1>1 DEF FdOk, Pipes, Dirs, Std

(* Nor is its child. *)
LEMMA OtherKid ==
  ASSUME NEW d \in Calls, KidOk(d), pc'[d] = pc[d], intr'[d] = intr[d],
         kid'[d] = kid[d], kfds'[d] = kfds[d], msg'[d] = msg[d]
  PROVE  KidOk(d)'
BY DEF KidOk, Status

(* It is enough to look at the call that takes the step. *)
LEMMA Frame ==
  ASSUME SpawnInv, NEW c \in Calls, CTypeOK', CloexecInv', FdOk(c)', KidOk(c)',
         \A d \in Calls \ {c} :
           /\ pc'[d] = pc[d] /\ want'[d] = want[d] /\ intr'[d] = intr[d]
           /\ kid'[d] = kid[d] /\ kfds'[d] = kfds[d] /\ msg'[d] = msg[d],
         \A d \in Calls \ {c}, p \in Pipes, x \in Dirs : Open(d, p, x)' <=> Open(d, p, x)
  PROVE  SpawnInv'
<1>1. ASSUME NEW d \in Calls \ {c} PROVE FdOk(d)' /\ KidOk(d)'
  <2>1. FdOk(d)'
    BY OtherFd DEF SpawnInv
  <2>2. KidOk(d)'
    BY OtherKid DEF SpawnInv
  <2> QED BY <2>1, <2>2
<1> QED BY <1>1 DEF SpawnInv

(* An error path that closes every pipe the call still has open, run once the
   child is gone or the call was interrupted, restores the invariant. *)
LEMMA FailStep ==
  ASSUME SpawnInv, NEW c \in Calls, NEW l \in Labels, Fail(c, l),
         want' \in [Calls -> SUBSET Std], intr' \in [Calls -> BOOLEAN],
         msg' \in [Calls -> BOOLEAN], kfds' = kfds, keep' = keep,
         kid' \in [Calls -> {"none", "setup", "run", "failed", "dead", "reaped"}],
         \A d \in Calls \ {c} :
           /\ want'[d] = want[d] /\ intr'[d] = intr[d]
           /\ kid'[d] = kid[d] /\ msg'[d] = msg[d],
         \A p \in Pipes, x \in Dirs : Open(c, p, x) => p \in Closes[l],
         intr'[c] \/ kid'[c] \in {"none", "reaped"},
         kid'[c] = "setup" => kid[c] = "setup"
  PROVE  SpawnInv'
<1>1. /\ pc' = [pc EXCEPT ![c] = "failed"]
      /\ fds' \subseteq fds /\ cloexec' \subseteq fds' /\ cloexec' \subseteq cloexec
      /\ \A d \in Calls, p \in Pipes, x \in Dirs :
           Open(d, p, x)' <=> Open(d, p, x) /\ ~(d = c /\ p \in Closes[l])
  BY FailFacts DEF SpawnInv
<1>2. CTypeOK' /\ CloexecInv'
  BY <1>1 DEF SpawnInv, CTypeOK, CloexecInv
<1>3. pc'[c] = "failed" /\ \A d \in Calls \ {c} : pc'[d] = pc[d]
  BY <1>1 DEF SpawnInv, CTypeOK
<1>4. FdOk(c)'
  BY <1>1, <1>3 DEF FdOk
<1>5. KidOk(c)'
  BY <1>3 DEF SpawnInv, KidOk, Status
<1> QED BY <1>1, <1>2, <1>3, <1>4, <1>5, Frame

(* OpenStatus. *)
LEMMA OpenStatusStep ==
  ASSUME SpawnInv, NEW c \in Calls, NEW std \in StdSets, OpenStatus(c, std)
  PROVE  SpawnInv'
<1> USE StdAssumption
<1>1. /\ pc[c] \in {"idle", "failed"} /\ kid[c] \in {"none", "reaped"}
      /\ want' = [want EXCEPT ![c] = std] /\ intr' = [intr EXCEPT ![c] = FALSE]
      /\ msg' = [msg EXCEPT ![c] = FALSE]
      /\ kid' = kid /\ kfds' = kfds /\ keep' = keep
  BY DEF OpenStatus
<1>2. /\ want' \in [Calls -> SUBSET Std] /\ intr' \in [Calls -> BOOLEAN]
      /\ msg' \in [Calls -> BOOLEAN]
      /\ \A d \in Calls \ {c} : want'[d] = want[d] /\ intr'[d] = intr[d] /\ msg'[d] = msg[d]
  BY <1>1 DEF SpawnInv, CTypeOK
<1>3. \A p \in Pipes, x \in Dirs : ~Open(c, p, x)
  BY <1>1 DEF SpawnInv, FdOk
<1>4. CASE Fail(c, "err_pipe_status")
  BY <1>1, <1>2, <1>3, <1>4, FailStep DEF Labels, SpawnInv, CTypeOK
<1>5. CASE fds' = fds \cup EndsOf(c, {"status"}) /\ GoTo(c, "fcntl_r") /\ UNCHANGED cloexec
  <2>1. \A d \in Calls, p \in Pipes, x \in Dirs :
          Open(d, p, x)' <=> Open(d, p, x) \/ (d = c /\ p \in {"status"})
    BY <1>5, OpenAdd
  <2>2. pc'[c] = "fcntl_r" /\ \A d \in Calls \ {c} : pc'[d] = pc[d]
    BY <1>5 DEF SpawnInv, CTypeOK, GoTo
  <2>3. CTypeOK' /\ CloexecInv'
    BY <1>1, <1>2, <1>5 DEF SpawnInv, CTypeOK, CloexecInv, GoTo, EndsOf
  <2>4. FdOk(c)'
    BY <1>3, <2>1, <2>2 DEF FdOk
  <2>5. KidOk(c)'
    BY <1>1, <2>2 DEF KidOk
  <2> QED BY <1>1, <1>2, <2>1, <2>2, <2>3, <2>4, <2>5, Frame
<1> QED BY <1>4, <1>5 DEF OpenStatus

(* SetCloexec on either end of the status pipe. *)
LEMMA SetCloexecStep ==
  ASSUME SpawnInv, NEW c \in Calls, NEW here, NEW x0 \in Dirs, NEW next,
         <<here, next>> \in {<<"fcntl_r", "fcntl_w">>, <<"fcntl_w", "mkstd">>},
         SetCloexec(c, here, x0, next)
  PROVE  SpawnInv'
<1>1. /\ pc[c] \in {"fcntl_r", "fcntl_w"} /\ next \in {"fcntl_w", "mkstd"}
      /\ want' = want /\ intr' = intr
      /\ kid' = kid /\ kfds' = kfds /\ keep' = keep /\ msg' = msg
  BY DEF SetCloexec, child
<1>2. \A p \in Pipes, x \in Dirs : Open(c, p, x) <=> p = "status"
  BY <1>1 DEF SpawnInv, FdOk
<1>3. kid[c] \in {"none", "reaped"}
  BY <1>1 DEF SpawnInv, KidOk
<1>4. CASE Fail(c, "err_mkstd_in")
  <2>1. \A p \in Pipes, x \in Dirs : Open(c, p, x) => p \in Closes["err_mkstd_in"]
    BY <1>2, ClosesFacts
  <2> QED BY <1>1, <1>3, <1>4, <2>1, FailStep DEF Labels, SpawnInv, CTypeOK
<1>5. CASE cloexec' = cloexec \cup {Status(c, x0)} /\ GoTo(c, next) /\ UNCHANGED fds
  <2>1. \A d \in Calls, p \in Pipes, x \in Dirs : Open(d, p, x)' <=> Open(d, p, x)
    BY <1>5 DEF Open
  <2>2. pc'[c] = next /\ \A d \in Calls \ {c} : pc'[d] = pc[d]
    BY <1>5 DEF SpawnInv, CTypeOK, GoTo
  <2>3. Status(c, x0) \in fds /\ Status(c, x0)[2] = "status"
    BY <1>2 DEF Open, Status, Pipes
  <2>4. CTypeOK' /\ CloexecInv'
    BY <1>1, <1>5, <2>3 DEF SpawnInv, CTypeOK, CloexecInv, GoTo
  <2>5. FdOk(c)'
    BY <1>1, <1>2, <2>1, <2>2 DEF FdOk, Pipes, Std, Dirs
  <2>6. KidOk(c)'
    BY <1>1, <1>3, <2>2 DEF KidOk
  <2> QED BY <1>1, <2>1, <2>2, <2>4, <2>5, <2>6, Frame
<1> QED BY <1>4, <1>5 DEF SetCloexec

(* Mkstd: the ends that are open when making a stream fails are those of the
   streams before it. *)
LEMMA MkstdStep ==
  ASSUME SpawnInv, NEW c \in Calls, NEW s, NEW before, NEW l,
         <<s, before, l>> \in {<<"in", {}, "err_mkstd_in">>,
                               <<"out", {"in"}, "err_mkstd_out">>,
                               <<"err", {"in", "out"}, "err_mkstd_err">>},
         Mkstd(c, s, before, l)
  PROVE  SpawnInv'
<1>1. /\ pc[c] = "mkstd" /\ ~Made(c, s) /\ \A b \in before : Made(c, b)
      /\ want' = want /\ intr' = intr
      /\ kid' = kid /\ kfds' = kfds /\ keep' = keep /\ msg' = msg
      /\ s \in Std /\ l \in Labels
  BY DEF Mkstd, child, Std, Labels
<1>2. /\ \A x \in Dirs : Open(c, "status", x)
      /\ \A t \in Std : Open(c, t, "r") <=> Open(c, t, "w")
      /\ \A t \in Std : Open(c, t, "r") => t \in want[c]
      /\ Open(c, "out", "r") => Made(c, "in")
      /\ Open(c, "err", "r") => Made(c, "in") /\ Made(c, "out")
  BY <1>1 DEF SpawnInv, FdOk
<1>3. kid[c] \in {"none", "reaped"}
  BY <1>1 DEF SpawnInv, KidOk
<1>4. \A t \in Std : Made(c, t) <=> (t \in want[c] => Open(c, t, "r"))
  BY <1>2 DEF Made, ParentEnd, Open
<1>5. CASE Fail(c, l)
  <2>1. \A p \in Pipes, x \in Dirs : Open(c, p, x) => p \in Closes[l]
    BY <1>1, <1>2, <1>4, ClosesFacts DEF Pipes, Std, Dirs
  <2> QED BY <1>1, <1>3, <1>5, <2>1, FailStep DEF SpawnInv, CTypeOK
<1>6. CASE fds' = fds \cup EndsOf(c, {s}) /\ UNCHANGED <<pc, cloexec>>
  <2>1. \A d \in Calls, p \in Pipes, x \in Dirs :
          Open(d, p, x)' <=> Open(d, p, x) \/ (d = c /\ p \in {s})
    BY <1>6, OpenAdd
  <2>2. CTypeOK' /\ CloexecInv'
    BY <1>1, <1>6 DEF SpawnInv, CTypeOK, CloexecInv, EndsOf
  <2>3. \A t \in Std : Made(c, t)' <=> (t \in want[c] => Open(c, t, "r")')
    BY <1>1, <1>2, <2>1 DEF Made, ParentEnd, Open, Pipes, Dirs
  <2>4. s \in want[c]
    BY <1>1 DEF Made
  <2>5. FdOk(c)'
    BY <1>1, <1>2, <1>4, <1>6, <2>1, <2>3, <2>4 DEF FdOk, Pipes, Std, Dirs
  <2>6. KidOk(c)'
    BY <1>1, <1>3, <1>6 DEF KidOk
  <2> QED BY <1>1, <1>6, <2>1, <2>2, <2>5, <2>6, Frame
<1> QED BY <1>5, <1>6 DEF Mkstd

(* Fork: the write end of the status pipe is open, so the child has it. *)
LEMMA ForkStep ==
  ASSUME SpawnInv, NEW c \in Calls, Fork(c)
  PROVE  SpawnInv'
<1>1. pc[c] = "mkstd" /\ want' = want /\ intr' = intr
  BY DEF Fork
<1>2. /\ Open(c, "status", "w")
      /\ \A t \in Std, x \in Dirs : Open(c, t, x) => t \in want[c]
  BY <1>1 DEF SpawnInv, FdOk, Dirs
<1>3. kid[c] \in {"none", "reaped"}
  BY <1>1 DEF SpawnInv, KidOk
<1>4. CASE Fail(c, "err_fork") /\ UNCHANGED child
  <2>1. \A p \in Pipes, x \in Dirs : Open(c, p, x) => p \in Closes["err_fork"]
    BY ClosesFacts
  <2> QED BY <1>1, <1>3, <1>4, <2>1, FailStep DEF Labels, SpawnInv, CTypeOK, child
<1>5. CASE /\ kid' = [kid EXCEPT ![c] = "setup"]
           /\ kfds' = [kfds EXCEPT ![c] = fds \ {Status(c, "r")}]
           /\ keep' = [keep EXCEPT ![c] = fds \ cloexec]
           /\ GoTo(c, "close")
           /\ UNCHANGED <<fds, cloexec, msg>>
  <2>1. \A d \in Calls, p \in Pipes, x \in Dirs : Open(d, p, x)' <=> Open(d, p, x)
    BY <1>5 DEF Open
  <2>2. /\ pc'[c] = "close" /\ kid'[c] = "setup" /\ kfds'[c] = fds \ {Status(c, "r")}
        /\ \A d \in Calls \ {c} : pc'[d] = pc[d] /\ kid'[d] = kid[d] /\ kfds'[d] = kfds[d]
    BY <1>5 DEF SpawnInv, CTypeOK, GoTo
  <2>3. CTypeOK' /\ CloexecInv'
    BY <1>1, <1>5 DEF SpawnInv, CTypeOK, CloexecInv, GoTo
  <2>4. FdOk(c)'
    BY <1>1, <1>2, <2>1, <2>2 DEF FdOk, Pipes
  <2>5. KidOk(c)'
    BY <1>2, <2>2 DEF KidOk, Status, Open
  <2> QED BY <1>1, <1>5, <2>1, <2>2, <2>3, <2>4, <2>5, Frame
<1> QED BY <1>4, <1>5 DEF Fork

(* CloseChildEnds. *)
LEMMA CloseChildEndsStep ==
  ASSUME SpawnInv, NEW c \in Calls, CloseChildEnds(c)
  PROVE  SpawnInv'
<1>1. /\ pc[c] = "close" /\ want' = want /\ intr' = intr
      /\ kid' = kid /\ kfds' = kfds /\ keep' = keep /\ msg' = msg
  BY DEF CloseChildEnds, child
<1>2. \A s \in Std, x \in Dirs : Open(c, s, x) => s \in want[c]
  BY <1>1 DEF SpawnInv, FdOk
<1>3. /\ \A d \in Calls \ {c}, p \in Pipes, x \in Dirs : Open(d, p, x)' <=> Open(d, p, x)
      /\ \A p \in Pipes, x \in Dirs : Open(c, p, x)' =>
           /\ Open(c, p, x)
           /\ <<c, p, x>> = ParentEnd(c, p) \/ (p = "status" /\ x = "r")
  BY OpenClose DEF CloseChildEnds
<1>4. pc'[c] = "read" /\ \A d \in Calls \ {c} : pc'[d] = pc[d]
  BY DEF CloseChildEnds, GoTo, SpawnInv, CTypeOK
<1>5. CTypeOK' /\ CloexecInv'
  BY <1>1 DEF CloseChildEnds, GoTo, SpawnInv, CTypeOK, CloexecInv
<1>6. FdOk(c)'
  <2>1. \A p \in Pipes, x \in Dirs : Open(c, p, x)' =>
          \/ p \in want[c] /\ <<c, p, x>> = ParentEnd(c, p)
          \/ p = "status" /\ x = "r"
    BY <1>2, <1>3 DEF Pipes, ParentEnd, Std, Dirs
  <2> QED BY <1>1, <1>4, <2>1 DEF FdOk, ParentEnd
<1>7. KidOk(c)'
  BY <1>1, <1>4 DEF SpawnInv, KidOk, Status
<1> QED BY <1>1, <1>3, <1>4, <1>5, <1>6, <1>7, Frame

(* The end of a read of the status pipe. *)
LEMMA ReadFacts ==
  ASSUME SpawnInv, NEW c \in Calls, NEW next \in {"ok", "reap"}, Read(c, next),
         want' = want
  PROVE  /\ pc[c] = "read" /\ pc'[c] = next /\ \A d \in Calls \ {c} : pc'[d] = pc[d]
         /\ pc' \in [Calls -> {"idle", "fcntl_r", "fcntl_w", "mkstd", "close", "read",
                               "reap", "failed", "ok", "done"}]
         /\ fds' \subseteq Ends /\ cloexec' \subseteq fds' /\ CloexecInv'
         /\ \A d \in Calls \ {c}, p \in Pipes, x \in Dirs : Open(d, p, x)' <=> Open(d, p, x)
         /\ FdOk(c)'
<1>1. pc[c] = "read" /\ pc'[c] = next /\ \A d \in Calls \ {c} : pc'[d] = pc[d]
  BY DEF Read, GoTo, SpawnInv, CTypeOK
<1>2. \A d \in Calls, p \in Pipes, x \in Dirs :
        Open(d, p, x)' <=> Open(d, p, x) /\ ~(d = c /\ p = "status" /\ x = "r")
  BY OpenOne DEF Read, Status, Pipes, Dirs
<1>3. \A p \in Pipes, x \in Dirs : Open(c, p, x) =>
         \/ p \in want[c] /\ <<c, p, x>> = ParentEnd(c, p)
         \/ p = "status" /\ x = "r"
  BY <1>1 DEF SpawnInv, FdOk
<1>4. \A p \in Pipes, x \in Dirs : Open(c, p, x)' =>
         p \in want[c] /\ <<c, p, x>> = ParentEnd(c, p)
  BY <1>2, <1>3
<1>5. FdOk(c)'
  BY <1>1, <1>4 DEF FdOk, ParentEnd
<1>6. /\ fds' \subseteq Ends /\ cloexec' \subseteq fds' /\ CloexecInv'
      /\ pc' \in [Calls -> {"idle", "fcntl_r", "fcntl_w", "mkstd", "close", "read",
                            "reap", "failed", "ok", "done"}]
  BY DEF Read, GoTo, SpawnInv, CTypeOK, CloexecInv
<1> QED BY <1>1, <1>2, <1>5, <1>6

(* ReadEof: nobody has the write end, so the child is past its set-up, and
   had it failed its errno would have been read first. *)
LEMMA ReadEofStep ==
  ASSUME SpawnInv, NEW c \in Calls, ReadEof(c)
  PROVE  SpawnInv'
<1>1. /\ want' = want /\ intr' = intr
      /\ kid' = kid /\ kfds' = kfds /\ keep' = keep /\ msg' = msg
      /\ ~msg[c] /\ Status(c, "w") \notin kfds[c]
  BY DEF ReadEof, child, Writers
<1>2. Read(c, "ok")
  BY DEF ReadEof
<1>3. /\ pc[c] = "read" /\ pc'[c] = "ok" /\ FdOk(c)'
      /\ \A d \in Calls \ {c} : pc'[d] = pc[d]
      /\ \A d \in Calls \ {c}, p \in Pipes, x \in Dirs : Open(d, p, x)' <=> Open(d, p, x)
  BY <1>1, <1>2, ReadFacts
<1>4. CTypeOK' /\ CloexecInv'
  BY <1>1, <1>2, ReadFacts DEF SpawnInv, CTypeOK
<1>5. KidOk(c)'
  BY <1>1, <1>3 DEF SpawnInv, KidOk, Status
<1> QED BY <1>1, <1>3, <1>4, <1>5, Frame

(* ReadErrno and ReadInterrupted go on to wait for the child. *)
LEMMA ReadReapStep ==
  ASSUME SpawnInv, NEW c \in Calls, ReadErrno(c) \/ ReadInterrupted(c)
  PROVE  SpawnInv'
<1>1. /\ Read(c, "reap") /\ want' = want
      /\ kid' = kid /\ kfds' = kfds /\ keep' = keep
  BY DEF ReadErrno, ReadInterrupted, child
<1>2. /\ intr' \in [Calls -> BOOLEAN] /\ msg' \in [Calls -> BOOLEAN]
      /\ \A d \in Calls \ {c} : intr'[d] = intr[d] /\ msg'[d] = msg[d]
  BY DEF ReadErrno, ReadInterrupted, child, SpawnInv, CTypeOK
<1>3. /\ pc[c] = "read" /\ pc'[c] = "reap" /\ FdOk(c)'
      /\ \A d \in Calls \ {c} : pc'[d] = pc[d]
      /\ \A d \in Calls \ {c}, p \in Pipes, x \in Dirs : Open(d, p, x)' <=> Open(d, p, x)
  BY <1>1, ReadFacts
<1>4. CTypeOK' /\ CloexecInv'
  BY <1>1, <1>2, ReadFacts DEF SpawnInv, CTypeOK
<1>5. KidOk(c)'
  BY <1>1, <1>3 DEF SpawnInv, KidOk, Status
<1> QED BY <1>1, <1>2, <1>3, <1>4, <1>5, Frame

(* Reap and ReapInterrupted run the whole error path. *)
LEMMA ReapStep ==
  ASSUME SpawnInv, NEW c \in Calls, Reap(c) \/ ReapInterrupted(c)
  PROVE  SpawnInv'
<1>1. /\ Fail(c, "err_fork") /\ want' = want /\ kfds' = kfds /\ keep' = keep /\ msg' = msg
  BY DEF Reap, ReapInterrupted, child
<1>2. \A p \in Pipes, x \in Dirs : Open(c, p, x) => p \in Closes["err_fork"]
  BY ClosesFacts
<1>3. CASE Reap(c)
  <2>1. kid' = [kid EXCEPT ![c] = "reaped"] /\ intr' = intr
    BY <1>3 DEF Reap
  <2> QED BY <1>1, <1>2, <2>1, FailStep DEF Labels, SpawnInv, CTypeOK
<1>4. CASE ReapInterrupted(c)
  <2>1. kid' = kid /\ intr' = [intr EXCEPT ![c] = TRUE]
    BY <1>4 DEF ReapInterrupted, child
  <2> QED BY <1>1, <1>2, <2>1, FailStep DEF Labels, SpawnInv, CTypeOK
<1> QED BY <1>3, <1>4

(* The child: it touches nothing of the parent's. *)
LEMMA ChildStep ==
  ASSUME SpawnInv, NEW c \in Calls, ChildFails(c) \/ ChildExecs(c) \/ ChildEnds(c)
  PROVE  SpawnInv'
<1>1. /\ pc' = pc /\ want' = want /\ intr' = intr /\ fds' = fds /\ cloexec' = cloexec
      /\ kid[c] \in {"setup", "run"}
  BY DEF ChildFails, ChildExecs, ChildEnds, Exit
<1>2. \A d \in Calls, p \in Pipes, x \in Dirs : Open(d, p, x)' <=> Open(d, p, x)
  BY <1>1 DEF Open
<1>3. /\ kid'[c] = "failed" \/ kid'[c] = "run" \/ kid'[c] = "dead"
      /\ kid'[c] = "failed" => kid[c] = "setup" /\ msg'[c]
      /\ \A d \in Calls \ {c} : kid'[d] = kid[d] /\ kfds'[d] = kfds[d] /\ msg'[d] = msg[d]
  BY DEF ChildFails, ChildExecs, ChildEnds, Exit, SpawnInv, CTypeOK
<1>4. CTypeOK' /\ CloexecInv'
  <2>1. CTypeOK /\ CloexecInv
    BY DEF SpawnInv
  <2>2. kid' \in [Calls -> {"none", "setup", "run", "failed", "dead", "reaped"}]
    BY <2>1 DEF ChildFails, ChildExecs, ChildEnds, Exit, CTypeOK
  <2>3. kfds' \in [Calls -> SUBSET Ends] /\ keep' \in [Calls -> SUBSET Ends]
    BY <2>1 DEF ChildFails, ChildExecs, ChildEnds, Exit, CTypeOK
  <2>4. msg' \in [Calls -> BOOLEAN]
    BY <2>1 DEF ChildFails, ChildExecs, ChildEnds, CTypeOK
  <2> QED BY <1>1, <2>1, <2>2, <2>3, <2>4 DEF CTypeOK, CloexecInv
<1>5. FdOk(c)'
  BY <1>1, <1>2, OtherFd DEF SpawnInv
<1>6. KidOk(c)'
  BY <1>1, <1>3 DEF SpawnInv, KidOk
<1> QED BY <1>1, <1>2, <1>3, <1>4, <1>5, <1>6, Frame

(* The caller closes a stream. *)
LEMMA CloseStep ==
  ASSUME SpawnInv, NEW c \in Calls, NEW s \in Std, yo_fd_close(c, s)
  PROVE  SpawnInv'
<1>1. /\ pc[c] \in {"ok", "done"} /\ pc' = pc /\ want' = want /\ intr' = intr
      /\ kid' = kid /\ kfds' = kfds /\ keep' = keep /\ msg' = msg /\ cloexec' = cloexec
      /\ fds' = fds \ {ParentEnd(c, s)}
  BY DEF yo_fd_close, child
<1>2. PICK y \in Dirs : ParentEnd(c, s) = <<c, s, y>>
  BY DEF ParentEnd, Dirs
<1>3. \A d \in Calls, p \in Pipes, x \in Dirs :
        Open(d, p, x)' <=> Open(d, p, x) /\ ~(d = c /\ p = s /\ x = y)
  BY <1>1, <1>2, OpenOne DEF Pipes
<1>4. ParentEnd(c, s) \notin cloexec
  BY <1>2 DEF SpawnInv, CloexecInv, Std
<1>5. CTypeOK' /\ CloexecInv'
  BY <1>1, <1>4 DEF SpawnInv, CTypeOK, CloexecInv
<1>6. FdOk(c)'
  BY <1>1, <1>3 DEF SpawnInv, FdOk, ParentEnd
<1>7. KidOk(c)'
  BY <1>1, OtherKid DEF SpawnInv
<1> QED BY <1>1, <1>3, <1>5, <1>6, <1>7, Frame

(* The caller waits for the process or disowns it. *)
LEMMA CallerStep ==
  ASSUME SpawnInv, NEW c \in Calls, yo_proc_wait(c) \/ yo_proc_disown(c)
  PROVE  SpawnInv'
<1>1. /\ pc[c] = "ok" /\ want' = want /\ intr' = intr /\ fds' = fds /\ cloexec' = cloexec
      /\ kfds' = kfds /\ keep' = keep /\ msg' = msg
  BY DEF yo_proc_wait, yo_proc_disown, child
<1>2. \A d \in Calls, p \in Pipes, x \in Dirs : Open(d, p, x)' <=> Open(d, p, x)
  BY <1>1 DEF Open
<1>3. /\ pc'[c] = "done" /\ kid'[c] \in {kid[c], "reaped"}
      /\ \A d \in Calls \ {c} : pc'[d] = pc[d] /\ kid'[d] = kid[d]
  BY DEF yo_proc_wait, yo_proc_disown, child, GoTo, SpawnInv, CTypeOK
<1>4. CTypeOK' /\ CloexecInv'
  BY <1>1 DEF yo_proc_wait, yo_proc_disown, child, GoTo, SpawnInv, CTypeOK, CloexecInv
<1>5. FdOk(c)'
  BY <1>1, <1>2, <1>3 DEF SpawnInv, FdOk, ParentEnd
<1>6. KidOk(c)'
  BY <1>1, <1>3 DEF SpawnInv, KidOk, Status
<1> QED BY <1>1, <1>2, <1>3, <1>4, <1>5, <1>6, Frame

(* Every step preserves the invariant. *)
LEMMA SpawnStep ==
  ASSUME SpawnInv, [CNext]_cvars
  PROVE  SpawnInv'
<1>1. CASE UNCHANGED cvars
  <2>1. CTypeOK' /\ CloexecInv'
    BY <1>1 DEF cvars, SpawnInv, CTypeOK, CloexecInv
  <2>2. \A c \in Calls : FdOk(c)'
    BY <1>1, OtherFd DEF cvars, SpawnInv, Open
  <2>3. \A c \in Calls : KidOk(c)'
    BY <1>1, OtherKid DEF cvars, SpawnInv
  <2> QED BY <2>1, <2>2, <2>3 DEF SpawnInv
<1>2. ASSUME NEW c \in Calls, CallStep(c) PROVE SpawnInv'
  <2>1. CASE SetCloexec(c, "fcntl_r", "r", "fcntl_w") \/ SetCloexec(c, "fcntl_w", "w", "mkstd")
    BY <2>1, SetCloexecStep DEF Dirs
  <2>2. CASE \/ Mkstd(c, "in", {}, "err_mkstd_in")
             \/ Mkstd(c, "out", {"in"}, "err_mkstd_out")
             \/ Mkstd(c, "err", {"in", "out"}, "err_mkstd_err")
    BY <2>2, MkstdStep
  <2> QED BY <1>2, <2>1, <2>2, ForkStep, CloseChildEndsStep, ReadEofStep, ReadReapStep,
             ReapStep DEF CallStep
<1>3. CASE CNext
  <2>1. PICK c \in Calls :
          \/ \E std \in StdSets : OpenStatus(c, std)
          \/ CallStep(c) \/ ReadInterrupted(c) \/ ReapInterrupted(c)
          \/ SetupStep(c) \/ ChildEnds(c)
          \/ \E s \in Std : yo_fd_close(c, s)
          \/ yo_proc_wait(c) \/ yo_proc_disown(c)
    BY <1>3 DEF CNext
  <2> QED BY <1>2, <2>1, OpenStatusStep, ReadReapStep, ReapStep, ChildStep, CloseStep,
             CallerStep DEF SetupStep
<1> QED BY <1>1, <1>3

(* SpawnInv is an invariant of spawning. *)
THEOREM SpawnInductive == CSpec => []SpawnInv
<1>1. CInit => SpawnInv
  BY DEF CInit, SpawnInv, CTypeOK, CloexecInv, FdOk, KidOk, Open
<1> QED BY <1>1, SpawnStep, PTL DEF CSpec

(* Types: in particular only descriptors that are open are marked. *)
THEOREM SpawnTypeCorrect == CSpec => []CTypeOK
<1>1. SpawnInv => CTypeOK
  BY DEF SpawnInv
<1> QED BY <1>1, SpawnInductive, PTL

(* Whichever system call of yo_proc_spawn fails, and whatever other calls do
   meanwhile, the call leaves none of its descriptors behind; a call that
   succeeds leaves the caller's ends only (impl.c:946-963). *)
THEOREM NoDescriptorLeaks == CSpec => []NoDescriptorLeft
<1>1. SpawnInv => NoDescriptorLeft
  <2> SUFFICES ASSUME SpawnInv, NEW c \in Calls
               PROVE  /\ pc[c] \in {"idle", "failed"} => fds \cap EndsOf(c, Pipes) = {}
                      /\ pc[c] \in {"ok", "done"} =>
                           fds \cap EndsOf(c, Pipes) \subseteq {ParentEnd(c, s) : s \in want[c]}
    BY DEF NoDescriptorLeft
  <2>1. ASSUME NEW e \in fds \cap EndsOf(c, Pipes)
        PROVE  \E p \in Pipes, x \in Dirs : e = <<c, p, x>> /\ Open(c, p, x)
    BY <2>1 DEF EndsOf, Ends, Dirs, Open
  <2>2. ASSUME pc[c] \in {"idle", "failed"} PROVE fds \cap EndsOf(c, Pipes) = {}
    BY <2>1, <2>2 DEF SpawnInv, FdOk
  <2>3. ASSUME pc[c] \in {"ok", "done"}, NEW e \in fds \cap EndsOf(c, Pipes)
        PROVE  e \in {ParentEnd(c, s) : s \in want[c]}
    BY <2>1, <2>3 DEF SpawnInv, FdOk
  <2> QED BY <2>2, <2>3
<1> QED BY <1>1, SpawnInductive, PTL

(* A spawn that was not interrupted and returns an error has reaped its child
   (impl.c:947-948). *)
THEOREM NoZombies == CSpec => []NoZombie
<1>1. SpawnInv => NoZombie
  BY DEF SpawnInv, KidOk, NoZombie
<1> QED BY <1>1, SpawnInductive, PTL

(* A spawn that returns a process never takes a child that failed, or is
   still setting up, for one that started its program (impl.c:914-927). *)
THEOREM SuccessesAreReal == CSpec => []SuccessIsReal
<1>1. SpawnInv => SuccessIsReal
  BY DEF SpawnInv, KidOk, SuccessIsReal
<1> QED BY <1>1, SpawnInductive, PTL
==============================================================================
