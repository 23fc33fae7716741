-------------------------------- MODULE YoTime --------------------------------
(***************************************************************************)
(* Time arithmetic (src/src/time.c).  A time is a number of seconds and a  *)
(* number of fractions; a second has PerSec fractions and a millisecond    *)
(* PerMs (10^9 and 10^6 in the code).                                      *)
(***************************************************************************)
EXTENDS Integers

CONSTANTS
  PerSec,   \* nanoseconds per second
  PerMs     \* nanoseconds per millisecond

ASSUME UnitAssumption ==
  /\ PerMs \in Nat \ {0} /\ PerSec \in Nat \ {0}
  /\ \E k \in 1 .. PerSec : PerSec = k * PerMs

T(s, n) == [sec |-> s, nsec |-> n]

\* The sum is carried only above PerSec, so PerSec itself remains.
yo_timeadd(a, b) ==
  LET n == a.nsec + b.nsec IN
  IF n > PerSec THEN T(a.sec + b.sec + 1, n - PerSec) ELSE T(a.sec + b.sec, n)

\* Mutant: the borrowed second is not taken from the seconds.
TimeSubNoBorrow(a, b) ==
  IF a.nsec < b.nsec THEN T(a.sec - b.sec, a.nsec + PerSec - b.nsec)
  ELSE T(a.sec - b.sec, a.nsec - b.nsec)

yo_timesub(a, b) ==
  LET s == IF a.nsec < b.nsec THEN a.sec - 1 ELSE a.sec
      m == IF a.nsec < b.nsec THEN a.nsec + PerSec ELSE a.nsec
      n == m - b.nsec
  IN IF n > PerSec THEN T(s - b.sec + 1, n - PerSec) ELSE T(s - b.sec, n)

yo_timecmp(a, b) ==
  IF a.sec # b.sec THEN (IF a.sec < b.sec THEN -1 ELSE 1)
  ELSE IF a.nsec # b.nsec THEN (IF a.nsec < b.nsec THEN -1 ELSE 1) ELSE 0

yo_timems(t) == t.sec * (PerSec \div PerMs) + (t.nsec + PerMs - 1) \div PerMs

------------------------------------------------------------------------------
(* The reference: a time as one number of fractions.                        *)

Value(t) == t.sec * PerSec + t.nsec
Normal(t) == t.nsec < PerSec
Sign(x) == IF x < 0 THEN -1 ELSE IF x > 0 THEN 1 ELSE 0
==============================================================================
