----------------------------- MODULE Completions -----------------------------
(***************************************************************************)
(* What a request queue promises its caller, with no threads, locks, lists *)
(* or pipes: a submitted request is completed once, with one code, and     *)
(* yo_queue_poll then hands the request back once, with that very code     *)
(* (inc/yaooi/queue.h:22-34).  EventQueue is shown to implement it.        *)
(***************************************************************************)
CONSTANTS Reqs, Codes, NoCode

VARIABLES
  status,   \* [Reqs -> {"idle", "running", "done"}]
  result,   \* the code each request was completed with
  ret       \* *preq and *pcode of the last successful yo_queue_poll

avars == <<status, result, ret>>

NoRet == <<>>

AInit ==
  /\ status = [r \in Reqs |-> "idle"]
  /\ result = [r \in Reqs |-> NoCode]
  /\ ret = NoRet

ASubmit(r) ==
  /\ status[r] = "idle"
  /\ status' = [status EXCEPT ![r] = "running"]
  /\ UNCHANGED <<result, ret>>

\* The operation ends; from here on its code is fixed.
AComplete(r, c) ==
  /\ status[r] = "running"
  /\ status' = [status EXCEPT ![r] = "done"]
  /\ result' = [result EXCEPT ![r] = c]
  /\ UNCHANGED ret

\* yo_queue_poll returns r through the ready list.
ADeliver(r) ==
  /\ status[r] = "done"
  /\ status' = [status EXCEPT ![r] = "idle"]
  /\ result' = [result EXCEPT ![r] = NoCode]
  /\ ret' = <<r, result[r]>>

\* A non-blocking operation ends inside yo_queue_poll, which returns it at
\* once, without going through the queue.
ADirect(r, c) ==
  /\ status[r] = "running"
  /\ status' = [status EXCEPT ![r] = "idle"]
  /\ ret' = <<r, c>>
  /\ UNCHANGED result

ANext ==
  \E r \in Reqs :
    \/ ASubmit(r)
    \/ ADeliver(r)
    \/ \E c \in Codes : AComplete(r, c) \/ ADirect(r, c)

ASpec == AInit /\ [][ANext]_avars
==============================================================================
