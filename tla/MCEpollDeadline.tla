--------------------------- MODULE MCEpollDeadline ---------------------------
(* Instances of EpollDeadline for TLC: a second of four parts, two of them a *)
(* millisecond; deadlines of now, of a part of a second and of over a second.*)
EXTENDS EpollDeadline

Ahead == {T(0, 0), T(0, 3), T(1, 1)}
==============================================================================
