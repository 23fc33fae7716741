---------------------------- MODULE FallbackQueue ----------------------------
(***************************************************************************)
(* The request queue of the Win32 build: yo_queue_poll over a condition    *)
(* variable (src/src/fallback/queue.c), with yoi_req_end and yoi_queue_pop *)
(* of src/src/queue.c.  The ANSI build shares the file but has no threads  *)
(* (multithread.h:124-125 refuses them), and is not the subject here.      *)
(*                                                                         *)
(* Every section under queue->lock is short and calls nothing that blocks, *)
(* so each is one step; cond_wait releases the lock as it goes to sleep.   *)
(***************************************************************************)
EXTENDS Integers, Sequences, Functions

CONSTANTS
  Reqs, Codes, NoCode, NoReq,
  Deadline    \* TRUE if the caller passes a deadline to yo_queue_poll

ASSUME ConstAssumption ==
  /\ NoCode \notin Codes /\ NoReq \notin Reqs
  /\ Deadline \in BOOLEAN

VARIABLES
  st,      \* requests: "idle", "run", "end", "lib"
  head,    \* queue->head
  code,    \* ready.code
  lpc,     \* the poller: "user", "pop", "popped", "gap", "asleep"
  cur,     \* the popped request
  past,    \* the deadline of the current call has passed
  ret

fvars == <<st, head, code, lpc, cur, past, ret>>

FInit ==
  /\ st = [r \in Reqs |-> "idle"]
  /\ head = <<>>
  /\ code = [r \in Reqs |-> NoCode]
  /\ lpc = "user"
  /\ cur = NoReq
  /\ past = FALSE
  /\ ret = <<>>

yo_req_exec(r) ==
  /\ lpc = "user"
  /\ st[r] = "idle"
  /\ st' = [st EXCEPT ![r] = "run"]
  /\ UNCHANGED <<head, code, lpc, cur, past, ret>>

\* No memory, or no thread, which Win32 reports as it should
\* (multithread.h:25): an error, and the request stays the caller's.
ExecFails(r) ==
  /\ lpc = "user"
  /\ st[r] = "idle"
  /\ UNCHANGED fvars

\* The callback returns c and yoi_req_end stores it, before the lock.
Work(r, c) ==
  /\ st[r] = "run"
  /\ code' = [code EXCEPT ![r] = c]
  /\ st' = [st EXCEPT ![r] = "end"]
  /\ UNCHANGED <<head, lpc, cur, past, ret>>

\* The locked part: link, wake everyone who sleeps, unlock.
ReqEnd(r) ==
  /\ st[r] = "end"
  /\ head' = <<r>> \o head
  /\ st' = [st EXCEPT ![r] = "lib"]
  /\ lpc' = IF lpc = "asleep" THEN "pop" ELSE lpc
  /\ UNCHANGED <<code, cur, past, ret>>

PollCall ==
  /\ lpc = "user"
  /\ Deadline \/ \E r \in Reqs : st[r] \in {"run", "end", "lib"}
  /\ lpc' = "pop"
  /\ past' = FALSE
  /\ UNCHANGED <<st, head, code, cur, ret>>

\* Mutant: the popped request stays linked.
PopTakeKeeps ==
  /\ lpc = "pop"
  /\ head # <<>>
  /\ cur' = Head(head)
  /\ lpc' = "popped"
  /\ UNCHANGED <<st, head, code, past, ret>>

PopTake ==
  /\ lpc = "pop"
  /\ head # <<>>
  /\ cur' = Head(head)
  /\ head' = Tail(head)
  /\ lpc' = "popped"
  /\ UNCHANGED <<st, code, past, ret>>

\* Mutant: *pcode is not assigned.
PopReturnStale ==
  /\ lpc = "popped"
  /\ ret' = <<cur, NoCode>>
  /\ st' = [st EXCEPT ![cur] = "idle"]
  /\ cur' = NoReq
  /\ lpc' = "user"
  /\ UNCHANGED <<head, code, past>>

PopReturn ==
  /\ lpc = "popped"
  /\ ret' = <<cur, code[cur]>>
  /\ st' = [st EXCEPT ![cur] = "idle"]
  /\ cur' = NoReq
  /\ lpc' = "user"
  /\ UNCHANGED <<head, code, past>>

\* yoi_queue_pop finds nothing and drops the lock.
PopEmpty ==
  /\ lpc = "pop"
  /\ head = <<>>
  /\ lpc' = "gap"
  /\ UNCHANGED <<st, head, code, cur, past, ret>>

\* The lock is taken again and the poller goes to sleep without another look
\* at the list; a timed wait whose deadline has passed returns at once.
Wait ==
  /\ lpc = "gap"
  /\ lpc' = IF Deadline /\ past THEN "pop" ELSE "asleep"
  /\ UNCHANGED <<st, head, code, cur, past, ret>>

\* Mutant: an expired timed wait is waited on again.
TimedOutRetries ==
  /\ lpc = "asleep"
  /\ Deadline /\ past
  /\ lpc' = "asleep"
  /\ UNCHANGED <<st, head, code, cur, past, ret>>

\* The timed wait ends; its result is ignored and the loop goes round.
TimedOut ==
  /\ lpc = "asleep"
  /\ Deadline /\ past
  /\ lpc' = "pop"
  /\ UNCHANGED <<st, head, code, cur, past, ret>>

\* Condition variables may wake on their own.
Spurious ==
  /\ lpc = "asleep"
  /\ lpc' = "pop"
  /\ UNCHANGED <<st, head, code, cur, past, ret>>

\* The clock reaches the deadline.
DeadlinePasses ==
  /\ Deadline
  /\ lpc # "user"
  /\ ~past
  /\ past' = TRUE
  /\ UNCHANGED <<st, head, code, lpc, cur, ret>>

PollStep == PopTake \/ PopReturn \/ PopEmpty \/ Wait \/ TimedOut
ReqStep(r) == (\E c \in Codes : Work(r, c)) \/ ReqEnd(r)

FNext ==
  \/ PollCall \/ PollStep \/ Spurious \/ DeadlinePasses
  \/ \E r \in Reqs : yo_req_exec(r) \/ ExecFails(r) \/ ReqStep(r)

FSpec == FInit /\ [][FNext]_fvars

\* The loop keeps polling, threads are scheduled, callbacks return and the
\* clock runs; spurious wakeups are not promised.
FairFSpec ==
  /\ FSpec
  /\ WF_fvars(PollCall) /\ WF_fvars(PollStep) /\ WF_fvars(DeadlinePasses)
  /\ \A r \in Reqs : WF_fvars(ReqStep(r))

------------------------------------------------------------------------------
(* Properties.                                                              *)

\* The type invariant, with the places of a completed request: it is linked
\* once, or popped, and in no other state.
FTypeOK ==
  /\ st \in [Reqs -> {"idle", "run", "end", "lib"}]
  /\ head \in Seq(Reqs) /\ IsInjective(head)
  /\ code \in [Reqs -> Codes \cup {NoCode}]
  /\ lpc \in {"user", "pop", "popped", "gap", "asleep"}
  /\ cur \in Reqs \cup {NoReq} /\ (cur # NoReq <=> lpc = "popped")
  /\ past \in BOOLEAN
  /\ \A r \in Reqs : st[r] = "lib" <=> r \in Range(head) \/ cur = r
  /\ cur \notin Range(head)

Status(r) == CASE st[r] \in {"run", "end"} -> "running"
               [] st[r] = "lib" -> "done"
               [] OTHER -> "idle"

Abs == INSTANCE Completions WITH
  status <- [r \in Reqs |-> Status(r)],
  result <- [r \in Reqs |-> IF st[r] = "lib" THEN code[r] ELSE NoCode],
  ret <- ret

\* Like EventQueue, the fallback hands each request back once per submission
\* with the code it was completed with (inc/yaooi/queue.h:22-34).
ImplementsCompletions == Abs!ASpec

Submits == \E r \in Reqs : yo_req_exec(r)

\* If the caller stops submitting, every submitted request is eventually
\* returned: the poll "blocks until one is available" (inc/yaooi/queue.h:22).
AllDelivered ==
  <>[][~Submits]_fvars => \A r \in Reqs : st[r] = "run" ~> st[r] = "idle"
==============================================================================
