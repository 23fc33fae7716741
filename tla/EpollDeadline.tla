---------------------------- MODULE EpollDeadline ----------------------------
(***************************************************************************)
(* The deadline of yo_queue_poll over epoll (src/src/unix/epoll.c): one    *)
(* caller polls again and again, each time with a deadline it computed     *)
(* from the clock with yo_timeadd, or without one, and one timerfd, kept   *)
(* by the queue from call to call, ends its waits.                         *)
(*                                                                         *)
(* Seconds are counted FROM the current one, so the clock reads T(0,phase) *)
(* and a second that passes lowers all the others; -2 stands for every     *)
(* second further back, all of which compare alike.                        *)
(*                                                                         *)
(* Which request is returned, and how the lists behave under threads, is   *)
(* the subject of EventQueue and Pollish; here results are only counted.   *)
(***************************************************************************)
EXTENDS YoTime

CONSTANTS
  Deltas,     \* how far ahead of the clock the deadlines given lie
  None,       \* no deadline, or a timer that is disarmed
  MaxReady    \* bound on the results waiting on the ready list

ASSUME DeltaAssumption == Deltas \subseteq [sec : Nat, nsec : 0 .. PerSec - 1]
ASSUME ReadyAssumption == MaxReady \in Nat
ASSUME NoneAssumption == None \notin [sec : Int, nsec : Int]

VARIABLES
  phase,    \* the nanoseconds the clock shows
  pc,       \* where yo_queue_poll is
  dl,       \* the deadline of the call
  timer,    \* the time set in timer_fd
  nready,   \* results on the ready list
  notified, \* bytes in the notify pipe
  fdReady,  \* a watched fd can be served
  out       \* what the last call returned

dvars == <<phase, pc, dl, timer, nready, notified, fdReady, out>>

now == T(0, phase)
Expired == timer # None /\ Value(timer) <= Value(now)

DInit ==
  /\ phase \in 0 .. PerSec - 1
  /\ pc = "idle" /\ dl = None /\ timer = None
  /\ nready = 0 /\ notified = FALSE /\ fdReady = FALSE
  /\ out = "none"

------------------------------------------------------------------------------
(* The caller and the poll.                                                 *)

Return(code) == pc' = "idle" /\ out' = code

yo_queue_poll ==
  /\ pc = "idle"
  /\ dl' \in {None} \cup {yo_timeadd(now, d) : d \in Deltas}
  /\ pc' = "pop"
  /\ UNCHANGED <<phase, timer, nready, notified, fdReady, out>>

\* Mutant: the list is not looked at before its head is taken.
PopUnchecked ==
  /\ pc = "pop"
  /\ nready' = nready - 1 /\ Return("ok")
  /\ UNCHANGED <<phase, dl, timer, notified, fdReady>>

\* A result on the ready list is returned before any deadline is looked at.
Pop ==
  /\ pc = "pop"
  /\ IF nready > 0
     THEN nready' = nready - 1 /\ Return("ok")
     ELSE pc' = "enter" /\ UNCHANGED <<nready, out>>
  /\ UNCHANGED <<phase, dl, timer, notified, fdReady>>

\* The clock is read: a deadline that has passed ends the call at once.
Enter ==
  /\ pc = "enter"
  /\ IF dl # None /\ yo_timecmp(now, dl) > 0
     THEN Return("etimeout")
     ELSE pc' = "arm" /\ UNCHANGED out
  /\ UNCHANGED <<phase, dl, timer, nready, notified, fdReady>>

\* Mutant: without a deadline the timer is left as the last call set it.
ArmOnlyDeadlines ==
  /\ pc = "arm" /\ pc' = "wait"
  /\ timer' = IF dl = None \/ ~Normal(dl) THEN timer ELSE dl
  /\ UNCHANGED <<phase, dl, nready, notified, fdReady, out>>

\* Mutant: a timer that is already set is not set again.
ArmOnce ==
  /\ pc = "arm" /\ pc' = "wait"
  /\ timer' = IF dl = None THEN None ELSE IF timer # None THEN timer ELSE dl
  /\ UNCHANGED <<phase, dl, nready, notified, fdReady, out>>

\* Mutant: the timer is set to what is left until the deadline, and nothing
\* left disarms it.
ArmRelative ==
  /\ pc = "arm" /\ pc' = "wait"
  /\ timer' = IF dl = None \/ yo_timecmp(now, dl) >= 0 THEN None
              ELSE IF ~Normal(dl) THEN timer ELSE dl
  /\ UNCHANGED <<phase, dl, nready, notified, fdReady, out>>

\* timerfd_settime sets or disarms the timer and forgets an expiration not
\* yet read; it rejects nsec out of range and then changes nothing, and its
\* result is not looked at.
Arm ==
  /\ pc = "arm" /\ pc' = "wait"
  /\ timer' = IF dl = None THEN None ELSE IF Normal(dl) THEN dl ELSE timer
  /\ UNCHANGED <<phase, dl, nready, notified, fdReady, out>>

\* epoll_wait reports the timer: it is read, which disarms it.
WaitTimer ==
  /\ pc = "wait" /\ Expired
  /\ timer' = None /\ Return("etimeout")
  /\ UNCHANGED <<phase, dl, nready, notified, fdReady>>

\* epoll_wait reports a watched fd: its request is done and returned.
WaitFd ==
  /\ pc = "wait" /\ fdReady
  /\ fdReady' = FALSE /\ Return("ok")
  /\ UNCHANGED <<phase, dl, timer, nready, notified>>

\* epoll_wait reports the notify pipe: it is drained and the loop goes on.
WaitNotify ==
  /\ pc = "wait" /\ notified
  /\ notified' = FALSE /\ pc' = "pop"
  /\ UNCHANGED <<phase, dl, timer, nready, fdReady, out>>

Poll == Pop \/ Enter \/ Arm \/ WaitTimer \/ WaitFd \/ WaitNotify

------------------------------------------------------------------------------
(* The environment: a worker's yoi_req_end, the kernel and the clock.       *)

Push ==
  /\ nready < MaxReady
  /\ nready' = nready + 1 /\ notified' = TRUE
  /\ UNCHANGED <<phase, pc, dl, timer, fdReady, out>>

FdArrives ==
  /\ ~fdReady /\ fdReady' = TRUE
  /\ UNCHANGED <<phase, pc, dl, timer, nready, notified, out>>

\* A time as it is counted one second later.
Older(t) == IF t = None \/ t.sec = -2 THEN t ELSE T(t.sec - 1, t.nsec)

Tick ==
  /\ phase' = (phase + 1) % PerSec
  /\ IF phase' = 0 THEN dl' = Older(dl) /\ timer' = Older(timer)
                   ELSE UNCHANGED <<dl, timer>>
  /\ UNCHANGED <<pc, nready, notified, fdReady, out>>

DNext == yo_queue_poll \/ Poll \/ Push \/ FdArrives \/ Tick

DSpec == DInit /\ [][DNext]_dvars

\* The polling thread runs, epoll_wait returns when something is ready, and
\* time passes.  The caller need not call again.
FairDSpec == DSpec /\ WF_dvars(Poll) /\ WF_dvars(Tick)

------------------------------------------------------------------------------
(* Properties.                                                              *)

TimeRange == [sec : {-2, -1} \cup Nat, nsec : 0 .. PerSec] \cup {None}

DTypeOK ==
  /\ phase \in 0 .. PerSec - 1
  /\ pc \in {"idle", "pop", "enter", "arm", "wait"}
  /\ dl \in TimeRange /\ timer \in TimeRange
  /\ nready \in 0 .. MaxReady
  /\ notified \in BOOLEAN /\ fdReady \in BOOLEAN
  /\ out \in {"none", "ok", "etimeout"}

\* The assertion of epoll.c:81: the timer never ends a wait that was given no
\* deadline, although the timer of an earlier call may still be running or
\* have expired unread.
TimerAssert == pc = "wait" /\ Expired => dl # None

\* The arithmetic callers and library do with deadlines is exact at every
\* phase of the clock: sums and differences with carry and borrow, and
\* comparisons of normal times (time.c:7-33).  A wait of yo_timems
\* milliseconds is never shorter than what is left until the deadline, and
\* less than a millisecond longer (time.c:34-36, as poll.c:92-101 and
\* multithread.h:39 use it): a shorter one would make the poll spin.
TimeExact ==
  /\ \A d \in Deltas : Value(yo_timeadd(now, d)) = Value(now) + Value(d)
  /\ dl # None => Value(yo_timesub(dl, now)) = Value(dl) - Value(now)
  /\ dl # None /\ Normal(dl) =>
       Sign(yo_timecmp(now, dl)) = Sign(Value(now) - Value(dl))
  /\ dl # None =>
       LET left == yo_timesub(dl, now)
           over == yo_timems(left) * PerMs - Value(left)
       IN over >= 0 /\ over < PerMs

\* A call with a deadline the kernel accepts that returns YO_ETIMEOUT does so
\* once its own deadline is reached, never at the deadline of an earlier call.
NotEarly ==
  [][pc # "idle" /\ pc' = "idle" /\ out' = "etimeout" =>
       dl # None /\ (Normal(dl) => Value(dl) <= Value(now))]_dvars

\* A call with a deadline the kernel accepts returns.
DeadlineHonoured == (pc # "idle" /\ dl # None /\ Normal(dl)) ~> pc = "idle"

\* A call with any deadline yo_timeadd computes returns (inc/yaooi/queue.h:23).
AnyDeadlineHonoured == (pc # "idle" /\ dl # None) ~> pc = "idle"
==============================================================================
