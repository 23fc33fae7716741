------------------------- MODULE EpollDeadlineProofs -------------------------
(***************************************************************************)
(* Proofs about the time arithmetic and about deadlines over epoll, for    *)
(* every number of fractions in a second and in a millisecond (10^9 and    *)
(* 10^6 are one instance), and for every set of deadlines.                 *)
(***************************************************************************)
EXTENDS EpollDeadline, TLAPS

------------------------------------------------------------------------------
(* Arithmetic.                                                              *)

(* Euclidean division. *)
LEMMA DivFacts ==
  ASSUME NEW a \in Int, NEW b \in Nat \ {0}
  PROVE  /\ a \div b \in Int
         /\ b * (a \div b) <= a /\ a < b * (a \div b) + b
OBVIOUS

(* The product distributes over a sum and a difference. *)
LEMMA Distribute ==
  ASSUME NEW a \in Int, NEW b \in Int, NEW c \in Int
  PROVE  (a + b) * c = a * c + b * c /\ (a - b) * c = a * c - b * c
OBVIOUS

(* A multiple of a positive number by a positive one is no smaller. *)
LEMMA MultGrows ==
  ASSUME NEW a \in Int, NEW b \in Nat, a >= 1
  PROVE  a * b >= b
OBVIOUS

(* The times the library computes with. *)
Raw == [sec : Int, nsec : 0 .. PerSec]

(* yo_timeadd is exact: the carry of time.c:7-15 moves a whole second, also
   when it leaves nsec at a full second. *)
LEMMA TimeAddExact ==
  ASSUME NEW a \in Raw, NEW b \in Raw
  PROVE  /\ yo_timeadd(a, b) \in [sec : {a.sec + b.sec, a.sec + b.sec + 1},
                                  nsec : Nat]
         /\ Value(yo_timeadd(a, b)) = Value(a) + Value(b)
<1> USE UnitAssumption DEF Raw, T, Value
<1>1. /\ a.sec \in Int /\ b.sec \in Int /\ a.nsec \in 0 .. PerSec /\ b.nsec \in 0 .. PerSec
  OBVIOUS
<1> DEFINE n == a.nsec + b.nsec
<1>2. CASE n > PerSec
  <2>1. yo_timeadd(a, b) = [sec |-> a.sec + b.sec + 1, nsec |-> n - PerSec]
    BY <1>2 DEF yo_timeadd
  <2>2. (a.sec + b.sec + 1) * PerSec = a.sec * PerSec + b.sec * PerSec + PerSec
    BY <1>1, Distribute
  <2> QED BY <1>1, <1>2, <2>1, <2>2
<1>3. CASE ~(n > PerSec)
  <2>1. yo_timeadd(a, b) = [sec |-> a.sec + b.sec, nsec |-> n]
    BY <1>3 DEF yo_timeadd
  <2>2. (a.sec + b.sec) * PerSec = a.sec * PerSec + b.sec * PerSec
    BY <1>1, Distribute
  <2> QED BY <1>1, <1>3, <2>1, <2>2
<1> QED BY <1>2, <1>3

(* yo_timesub is exact, and its fractions stay within a second: the borrow
   of time.c:16-26 is a whole second. *)
LEMMA TimeSubExact ==
  ASSUME NEW a \in Raw, NEW b \in Raw, Normal(b)
  PROVE  /\ yo_timesub(a, b) \in Raw
         /\ Value(yo_timesub(a, b)) = Value(a) - Value(b)
<1> USE UnitAssumption DEF Raw, T, Value
<1>1. /\ a.sec \in Int /\ b.sec \in Int /\ a.nsec \in 0 .. PerSec /\ b.nsec \in 0 .. PerSec - 1
  BY DEF Normal
<1>2. CASE a.nsec < b.nsec
  <2>1. yo_timesub(a, b) = [sec |-> a.sec - 1 - b.sec, nsec |-> a.nsec + PerSec - b.nsec]
    BY <1>1, <1>2 DEF yo_timesub
  <2>2. (a.sec - 1 - b.sec) * PerSec = a.sec * PerSec - PerSec - b.sec * PerSec
    BY <1>1, Distribute
  <2> QED BY <1>1, <1>2, <2>1, <2>2
<1>3. CASE ~(a.nsec < b.nsec)
  <2>1. yo_timesub(a, b) = [sec |-> a.sec - b.sec, nsec |-> a.nsec - b.nsec]
    BY <1>1, <1>3 DEF yo_timesub
  <2>2. (a.sec - b.sec) * PerSec = a.sec * PerSec - b.sec * PerSec
    BY <1>1, Distribute
  <2> QED BY <1>1, <1>3, <2>1, <2>2
<1> QED BY <1>2, <1>3

(* An earlier second is earlier whatever the fractions. *)
LEMMA SecondsDecide ==
  ASSUME NEW a \in Raw, NEW b \in Raw, Normal(a), a.sec < b.sec
  PROVE  Value(a) < Value(b)
<1> USE UnitAssumption DEF Raw
<1>1. a.sec \in Int /\ b.sec \in Int /\ a.nsec \in 0 .. PerSec - 1 /\ b.nsec \in 0 .. PerSec
  BY DEF Normal
<1>2. (b.sec - a.sec) * PerSec >= PerSec
  BY <1>1, MultGrows
<1>3. (b.sec - a.sec) * PerSec = b.sec * PerSec - a.sec * PerSec
  BY <1>1, Distribute
<1>4. a.sec * PerSec \in Int /\ b.sec * PerSec \in Int
  BY <1>1
<1> QED BY <1>1, <1>2, <1>3, <1>4 DEF Value

(* yo_timecmp compares normal times as the numbers they stand for
   (time.c:27-33). *)
LEMMA TimeCmpExact ==
  ASSUME NEW a \in Raw, NEW b \in Raw, Normal(a), Normal(b)
  PROVE  Sign(yo_timecmp(a, b)) = Sign(Value(a) - Value(b))
<1> USE UnitAssumption DEF Raw
<1>1. /\ a.sec \in Int /\ b.sec \in Int /\ a.nsec \in Int /\ b.nsec \in Int
      /\ Value(a) \in Int /\ Value(b) \in Int
  BY DEF Value
<1>2. CASE a.sec < b.sec
  BY <1>1, <1>2, SecondsDecide DEF Sign, yo_timecmp
<1>3. CASE b.sec < a.sec
  BY <1>1, <1>3, SecondsDecide DEF Sign, yo_timecmp
<1>4. CASE a.sec = b.sec
  <2>1. Value(a) - Value(b) = a.nsec - b.nsec
    BY <1>1, <1>4 DEF Value
  <2> QED BY <1>1, <1>4, <2>1 DEF Sign, yo_timecmp
<1> QED BY <1>1, <1>2, <1>3, <1>4

(* yo_timems rounds up to the next millisecond, by less than one
   (time.c:34-36). *)
LEMMA TimeMsExact ==
  ASSUME NEW t \in Raw
  PROVE  LET over == yo_timems(t) * PerMs - Value(t) IN over >= 0 /\ over < PerMs
<1> USE UnitAssumption DEF Raw
<1>1. PICK k \in 1 .. PerSec : PerSec = k * PerMs
  OBVIOUS
<1>2. PerSec \div PerMs = k
  <2>1. /\ PerSec \div PerMs \in Int
        /\ PerMs * (PerSec \div PerMs) <= PerSec /\ PerSec < PerMs * (PerSec \div PerMs) + PerMs
    BY DivFacts
  <2> DEFINE d == k - (PerSec \div PerMs)
  <2>2. d \in Int /\ d * PerMs = k * PerMs - (PerSec \div PerMs) * PerMs
    BY <2>1, Distribute
  <2>3. d * PerMs >= 0 /\ d * PerMs < PerMs
    BY <1>1, <2>1, <2>2
  <2>4. ~(d >= 1)
    BY <2>2, <2>3, MultGrows
  <2>5. ~(d <= -1)
    <3>1. ASSUME d <= -1 PROVE FALSE
      <4>1. 0 - d \in Int /\ 0 - d >= 1
        BY <2>2, <3>1
      <4>2. (0 - d) * PerMs >= PerMs
        BY <4>1, MultGrows
      <4>3. (0 - d) * PerMs = 0 * PerMs - d * PerMs
        BY <2>2, Distribute
      <4> QED BY <2>2, <2>3, <4>2, <4>3
    <3> QED BY <3>1
  <2> QED BY <2>1, <2>2, <2>4, <2>5
<1> DEFINE m == t.nsec + PerMs - 1
<1> DEFINE q == m \div PerMs
<1>3. t.sec \in Int /\ t.nsec \in Int /\ q \in Int /\ t.sec * k \in Int
  BY DivFacts
<1>4. PerMs * q <= t.nsec + PerMs - 1 /\ t.nsec + PerMs - 1 < PerMs * q + PerMs
  <2>1. m \in Int /\ m = t.nsec + PerMs - 1
    BY <1>3
  <2> HIDE DEF m
  <2>2. PerMs * q <= m /\ m < PerMs * q + PerMs
    BY <2>1, DivFacts
  <2> HIDE DEF q
  <2> QED BY <2>1, <2>2
<1>5. yo_timems(t) = t.sec * k + q
  BY <1>2 DEF yo_timems
<1> HIDE DEF q
<1>6. (t.sec * k + q) * PerMs = (t.sec * k) * PerMs + q * PerMs
  BY <1>3, Distribute
<1>7. (t.sec * k) * PerMs = t.sec * PerSec
  BY <1>1, <1>3
<1>8. Value(t) = t.sec * PerSec + t.nsec /\ t.sec * PerSec \in Int
  BY <1>3 DEF Value
<1> QED BY <1>3, <1>4, <1>5, <1>6, <1>7, <1>8

------------------------------------------------------------------------------
(* Deadlines.                                                               *)

\* While epoll_wait waits the timer is the call's own: disarmed without a
\* deadline, and set to the deadline when the kernel accepts it.
WaitInv ==
  pc = "wait" =>
    /\ dl = None => timer = None
    /\ dl # None /\ Normal(dl) => timer = dl

DeadlineInv == DTypeOK /\ WaitInv

(* A time is not "none", and is one the arithmetic lemmas are about. *)
LEMMA TimesFacts ==
  ASSUME NEW t \in TimeRange, t # None
  PROVE  /\ t \in Raw /\ t \in [sec : {-2, -1} \cup Nat, nsec : 0 .. PerSec]
         /\ t = T(t.sec, t.nsec)
BY DEF TimeRange, Raw, T

(* The clock is a normal time. *)
LEMMA NowFacts ==
  ASSUME DTypeOK
  PROVE  now \in Raw /\ Normal(now) /\ now.sec = 0 /\ now.nsec = phase
BY UnitAssumption DEF DTypeOK, now, T, Raw, Normal

(* The deadlines callers compute are times. *)
LEMMA DeadlineType ==
  ASSUME DTypeOK, NEW d \in Deltas
  PROVE  yo_timeadd(now, d) \in TimeRange
BY UnitAssumption, DeltaAssumption DEF DTypeOK, now, T, TimeRange, yo_timeadd

(* A second that passes keeps times times, none none, and equals equal. *)
LEMMA OlderFacts ==
  ASSUME NEW t \in TimeRange
  PROVE  /\ Older(t) \in TimeRange
         /\ Older(t) = None <=> t = None
         /\ t # None => (Normal(Older(t)) <=> Normal(t))
<1>1. CASE t = None
  BY <1>1 DEF Older
<1>2. CASE t # None
  <2>1. /\ t.sec \in {-2, -1} \cup Nat /\ t.nsec \in 0 .. PerSec /\ t = T(t.sec, t.nsec)
    BY <1>2, TimesFacts
  <2>2. CASE t.sec = -2
    BY <1>2, <2>2 DEF Older
  <2>3. CASE t.sec # -2
    <3>1. Older(t) = [sec |-> t.sec - 1, nsec |-> t.nsec]
      BY <1>2, <2>3 DEF Older, T
    <3>2. t.sec - 1 \in {-2, -1} \cup Nat
      BY <2>1, <2>3
    <3>3. Older(t) \in [sec : Int, nsec : Int] /\ Older(t) \in TimeRange
      BY UnitAssumption, <2>1, <3>1, <3>2 DEF TimeRange
    <3>4. Older(t).nsec = t.nsec
      BY <3>1
    <3> QED BY <1>2, <3>3, <3>4, NoneAssumption DEF Normal
  <2> QED BY <2>2, <2>3
<1> QED BY <1>1, <1>2

(* Every step preserves the invariant. *)
LEMMA DeadlineStep ==
  ASSUME DeadlineInv, [DNext]_dvars
  PROVE  DeadlineInv'
<1> USE UnitAssumption, ReadyAssumption DEF DeadlineInv, DTypeOK, WaitInv
<1>1. ASSUME yo_queue_poll PROVE DeadlineInv'
  <2>1. None \in TimeRange
    BY DEF TimeRange
  <2>2. dl' \in TimeRange
    BY <1>1, <2>1, DeadlineType DEF yo_queue_poll
  <2> QED BY <1>1, <2>2 DEF yo_queue_poll
<1>2. ASSUME Pop PROVE DeadlineInv'
  BY <1>2 DEF Pop, Return
<1>3. ASSUME Enter PROVE DeadlineInv'
  BY <1>3 DEF Enter, Return
<1>4. ASSUME Arm PROVE DeadlineInv'
  BY <1>4 DEF Arm, TimeRange
<1>5. ASSUME WaitTimer PROVE DeadlineInv'
  BY <1>5 DEF WaitTimer, Return, TimeRange
<1>6. ASSUME WaitFd PROVE DeadlineInv'
  BY <1>6 DEF WaitFd, Return
<1>7. ASSUME WaitNotify PROVE DeadlineInv'
  BY <1>7 DEF WaitNotify
<1>8. ASSUME Push PROVE DeadlineInv'
  BY <1>8 DEF Push
<1>9. ASSUME FdArrives PROVE DeadlineInv'
  BY <1>9 DEF FdArrives
<1>10. ASSUME Tick PROVE DeadlineInv'
  <2>1. phase' \in 0 .. PerSec - 1
    BY <1>10 DEF Tick
  <2>2. /\ dl' \in TimeRange /\ timer' \in TimeRange
        /\ dl' = None <=> dl = None
        /\ timer' = None <=> timer = None
        /\ dl # None => (Normal(dl') <=> Normal(dl))
        /\ timer = dl => timer' = dl'
    BY <1>10, OlderFacts DEF Tick
  <2>3. /\ pc' = pc /\ nready' = nready /\ notified' = notified
        /\ fdReady' = fdReady /\ out' = out
    BY <1>10 DEF Tick
  <2> QED BY <2>1, <2>2, <2>3
<1>11. CASE UNCHANGED dvars
  BY <1>11 DEF dvars
<1> QED
  BY <1>1, <1>2, <1>3, <1>4, <1>5, <1>6, <1>7, <1>8, <1>9, <1>10, <1>11 DEF DNext, Poll

(* DeadlineInv is an invariant of polling with deadlines. *)
THEOREM DeadlineInductive == DSpec => []DeadlineInv
<1>1. DInit => DeadlineInv
  <2> SUFFICES ASSUME DInit PROVE DeadlineInv
    OBVIOUS
  <2>1. notified \in BOOLEAN /\ fdReady \in BOOLEAN
    BY DEF DInit
  <2>2. dl \in TimeRange /\ timer \in TimeRange /\ WaitInv
    BY DEF DInit, TimeRange, WaitInv
  <2>3. nready \in 0 .. MaxReady
    BY ReadyAssumption DEF DInit
  <2> QED BY <2>1, <2>2, <2>3 DEF DInit, DeadlineInv, DTypeOK
<1> QED BY <1>1, DeadlineStep, PTL DEF DSpec

(* Types: in particular the times computed keep nsec within a second. *)
THEOREM DeadlineTypeCorrect == DSpec => []DTypeOK
<1>1. DeadlineInv => DTypeOK
  BY DEF DeadlineInv
<1> QED BY <1>1, DeadlineInductive, PTL

(* The assertion of epoll.c:81 holds: no call without a deadline is ended by
   a timer, whatever timers earlier calls left behind. *)
THEOREM TimerAsserted == DSpec => []TimerAssert
<1>1. DeadlineInv => TimerAssert
  BY DEF DeadlineInv, WaitInv, TimerAssert, Expired
<1> QED BY <1>1, DeadlineInductive, PTL

(* The arithmetic on deadlines is exact at every phase of the clock, and a
   wait in milliseconds is never short of the deadline (time.c:7-36). *)
THEOREM TimesExact == DSpec => []TimeExact
<1>1. DeadlineInv => TimeExact
  <2> SUFFICES ASSUME DTypeOK PROVE TimeExact
    BY DEF DeadlineInv
  <2>1. now \in Raw /\ Normal(now)
    BY NowFacts
  <2>2. ASSUME NEW d \in Deltas
        PROVE  Value(yo_timeadd(now, d)) = Value(now) + Value(d)
    <3>1. d \in Raw
      BY UnitAssumption, DeltaAssumption DEF Raw
    <3> QED BY <2>1, <3>1, TimeAddExact
  <2>3. ASSUME dl # None
        PROVE  /\ dl \in Raw /\ yo_timesub(dl, now) \in Raw
               /\ Value(yo_timesub(dl, now)) = Value(dl) - Value(now)
    <3>1. dl \in Raw
      BY <2>3, TimesFacts DEF DTypeOK
    <3> QED BY <2>1, <3>1, TimeSubExact
  <2>4. ASSUME dl # None, Normal(dl)
        PROVE  Sign(yo_timecmp(now, dl)) = Sign(Value(now) - Value(dl))
    BY <2>1, <2>3, <2>4, TimeCmpExact
  <2>5. ASSUME dl # None
        PROVE  LET left == yo_timesub(dl, now)
                   over == yo_timems(left) * PerMs - Value(left)
               IN  over >= 0 /\ over < PerMs
    BY <2>3, <2>5, TimeMsExact
  <2> QED BY <2>2, <2>3, <2>4, <2>5 DEF TimeExact
<1> QED BY <1>1, DeadlineInductive, PTL

(* YO_ETIMEOUT is never returned before the call's own deadline, although
   the timer is shared by all calls on the queue (epoll.c:60-90). *)
THEOREM NeverEarly == DSpec => NotEarly
<1>1. ASSUME DeadlineInv, [DNext]_dvars
      PROVE  [pc # "idle" /\ pc' = "idle" /\ out' = "etimeout" =>
                dl # None /\ (Normal(dl) => Value(dl) <= Value(now))]_dvars
  <2> SUFFICES ASSUME DNext, pc # "idle", pc' = "idle", out' = "etimeout"
               PROVE  dl # None /\ (Normal(dl) => Value(dl) <= Value(now))
    BY <1>1
  <2>1. CASE Enter
    <3>1. dl # None /\ yo_timecmp(now, dl) > 0
      BY <2>1 DEF Enter, Return
    <3>2. dl \in Raw /\ now \in Raw /\ Normal(now)
      BY <1>1, <3>1, TimesFacts, NowFacts DEF DeadlineInv, DTypeOK
    <3>3. ASSUME Normal(dl) PROVE Value(dl) <= Value(now)
      <4>1. Sign(yo_timecmp(now, dl)) = Sign(Value(now) - Value(dl))
        BY <3>2, <3>3, TimeCmpExact
      <4>2. Sign(yo_timecmp(now, dl)) = 1
        BY <3>1 DEF Sign, yo_timecmp
      <4>3. Value(now) \in Int /\ Value(dl) \in Int
        BY <3>2, UnitAssumption DEF Raw, Value
      <4> QED BY <4>1, <4>2, <4>3 DEF Sign
    <3> QED BY <3>1, <3>3
  <2>2. CASE WaitTimer
    BY <1>1, <2>2 DEF WaitTimer, Expired, DeadlineInv, WaitInv
  <2>3. CASE Pop \/ WaitFd
    BY <2>3 DEF Pop, WaitFd, Return
  <2>4. CASE yo_queue_poll \/ Arm \/ WaitNotify \/ Push \/ FdArrives \/ Tick
    BY <2>4 DEF yo_queue_poll, Arm, WaitNotify, Push, FdArrives, Tick
  <2> QED BY <2>1, <2>2, <2>3, <2>4 DEF DNext, Poll
<1> QED BY <1>1, DeadlineInductive, PTL DEF DSpec, NotEarly
==============================================================================
