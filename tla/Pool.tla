--------------------------------- MODULE Pool ---------------------------------
(***************************************************************************)
(* The thread pool (src/src/pool.c) and the end of a queue's life          *)
(* (yo_queue_free in src/src/queue.c).                                     *)
(*                                                                         *)
(* The loop thread hands requests to workers, polls them back and may      *)
(* finally free the queue.  A section under a worker's own lock touches    *)
(* that worker only and is one step; queue->lock is explicit, because      *)
(* yo_queue_free keeps it while it joins the workers.  The queue itself is *)
(* EventQueue's business: here yoi_req_end just makes a request ready.     *)
(* A signal that interrupts a worker changes nothing of its own: the       *)
(* callback decides when it returns.                                       *)
(***************************************************************************)
EXTENDS Integers, Sequences

CONSTANTS
  Reqs,        \* the caller's requests, submitted again and again
  Workers,     \* addresses malloc can hand out for workers
  NoReq,       \* NULL
  NoWorker     \* NULL

ASSUME ConstAssumption == NoReq \notin Reqs /\ NoWorker \notin Workers

VARIABLES
  st,           \* each request: "user", "lib", "ready"
  worker_head,  \* the pool's list of workers
  slot,         \* worker->req (with worker->worker and worker->args)
  kys,          \* worker->kys
  wpc,          \* where the worker's thread is
  wreq,         \* the thread's own copy of the request
  lpc,          \* where the loop thread is
  ereq,         \* yo_req_exec's request
  pos,          \* the worker yo_req_exec looks at next
  joining,      \* the worker yoi_pool_free waits for
  qheld,        \* TRUE while yo_queue_free holds queue->lock
  handler       \* TRUE once the process handles SIGPWR

vars == <<st, worker_head, slot, kys, wpc, wreq, lpc, ereq, pos, joining, qheld, handler>>
loopvars == <<worker_head, lpc, ereq, pos, joining, qheld>>

Init ==
  /\ st = [r \in Reqs |-> "user"]
  /\ worker_head = <<>>
  /\ slot = [w \in Workers |-> NoReq]
  /\ kys = [w \in Workers |-> FALSE]
  /\ wpc = [w \in Workers |-> "none"]
  /\ wreq = [w \in Workers |-> NoReq]
  /\ lpc = "user"
  /\ ereq = NoReq
  /\ pos = 1
  /\ joining = NoWorker
  /\ qheld = FALSE
  /\ handler = FALSE

\* pthread_cond_signal on the worker's condition: lost unless it waits.
Signalled(w) == IF wpc[w] = "wait" THEN "check" ELSE wpc[w]

------------------------------------------------------------------------------
(* yo_req_exec.                                                             *)

yo_req_exec(r) ==
  /\ lpc = "user"
  /\ st[r] = "user"
  /\ lpc' = "exec"
  /\ ereq' = r
  /\ pos' = 1
  /\ UNCHANGED <<st, worker_head, slot, kys, wpc, wreq, joining, qheld, handler>>

It == worker_head[pos]

\* Mutant: the busy test is dropped.
ExecAssignBusy ==
  /\ lpc = "exec" /\ pos <= Len(worker_head)
  /\ ~kys[It]
  /\ slot' = [slot EXCEPT ![It] = ereq]
  /\ wpc' = [wpc EXCEPT ![It] = Signalled(It)]
  /\ st' = [st EXCEPT ![ereq] = "lib"]
  /\ lpc' = "user"
  /\ ereq' = NoReq
  /\ UNCHANGED <<worker_head, kys, wreq, pos, joining, qheld, handler>>

\* Mutant: the worker is given the task and not woken.
ExecAssignSilent ==
  /\ lpc = "exec" /\ pos <= Len(worker_head)
  /\ slot[It] = NoReq /\ ~kys[It]
  /\ slot' = [slot EXCEPT ![It] = ereq]
  /\ st' = [st EXCEPT ![ereq] = "lib"]
  /\ lpc' = "user"
  /\ ereq' = NoReq
  /\ UNCHANGED <<worker_head, kys, wpc, wreq, pos, joining, qheld, handler>>

\* A free worker takes the request.
ExecAssign ==
  /\ lpc = "exec" /\ pos <= Len(worker_head)
  /\ slot[It] = NoReq /\ ~kys[It]
  /\ slot' = [slot EXCEPT ![It] = ereq]
  /\ wpc' = [wpc EXCEPT ![It] = Signalled(It)]
  /\ st' = [st EXCEPT ![ereq] = "lib"]
  /\ lpc' = "user"
  /\ ereq' = NoReq
  /\ UNCHANGED <<worker_head, kys, wreq, pos, joining, qheld, handler>>

ExecSkip ==
  /\ lpc = "exec" /\ pos <= Len(worker_head)
  /\ ~(slot[It] = NoReq /\ ~kys[It])
  /\ pos' = pos + 1
  /\ UNCHANGED <<st, worker_head, slot, kys, wpc, wreq, lpc, ereq, joining, qheld, handler>>

\* Mutant: yo_req_exec returns ENOMEM and goes on.
ExecNoMemGoesOn ==
  /\ lpc = "exec" /\ pos > Len(worker_head)
  /\ ereq' = NoReq
  /\ UNCHANGED <<st, worker_head, slot, kys, wpc, wreq, lpc, pos, joining, qheld, handler>>

\* malloc fails: ENOMEM, the request stays with the caller.
ExecNoMem ==
  /\ lpc = "exec" /\ pos > Len(worker_head)
  /\ lpc' = "user"
  /\ ereq' = NoReq
  /\ UNCHANGED <<st, worker_head, slot, kys, wpc, wreq, pos, joining, qheld, handler>>

\* A new worker with the request already in its slot.  pthread_create
\* reports failure as a positive number, the code tests "< 0"
\* (pool.c:84, multithread.h:91): a worker without a thread is listed too.
ExecSpawn(w) ==
  /\ lpc = "exec" /\ pos > Len(worker_head)
  /\ wpc[w] = "none"
  /\ slot' = [slot EXCEPT ![w] = ereq]
  /\ kys' = [kys EXCEPT ![w] = FALSE]
  /\ \E s \in {"start", "dead"} : wpc' = [wpc EXCEPT ![w] = s]
  /\ worker_head' = <<w>> \o worker_head
  /\ st' = [st EXCEPT ![ereq] = "lib"]
  /\ lpc' = "user"
  /\ ereq' = NoReq
  /\ UNCHANGED <<wreq, pos, joining, qheld, handler>>

\* yo_queue_poll hands a completed request back.
Poll(r) ==
  /\ lpc = "user"
  /\ st[r] = "ready"
  /\ st' = [st EXCEPT ![r] = "user"]
  /\ UNCHANGED <<worker_head, slot, kys, wpc, wreq, lpc, ereq, pos, joining, qheld, handler>>

------------------------------------------------------------------------------
(* yoi_pool_worker_entry.                                                   *)

\* Mutant: the thread leaves SIGPWR to its default action.
WorkerStartUnhandled(w) ==
  /\ wpc[w] = "start"
  /\ wpc' = [wpc EXCEPT ![w] = "check"]
  /\ UNCHANGED <<st, slot, kys, wreq, loopvars, handler>>

\* yo_thread_entry: the thread installs the handler of SIGPWR, which the
\* whole process shares, and takes the worker's lock.
WorkerStart(w) ==
  /\ wpc[w] = "start"
  /\ handler' = TRUE
  /\ wpc' = [wpc EXCEPT ![w] = "check"]
  /\ UNCHANGED <<st, slot, kys, wreq, loopvars>>

\* The thread holds its lock and finds a task.
WorkerTake(w) ==
  /\ wpc[w] = "check"
  /\ slot[w] # NoReq /\ ~kys[w]
  /\ wreq' = [wreq EXCEPT ![w] = slot[w]]
  /\ wpc' = [wpc EXCEPT ![w] = "run"]
  /\ UNCHANGED <<st, slot, kys, loopvars, handler>>

\* It finds nothing and waits, releasing its lock atomically.
WorkerSleep(w) ==
  /\ wpc[w] = "check"
  /\ slot[w] = NoReq /\ ~kys[w]
  /\ wpc' = [wpc EXCEPT ![w] = "wait"]
  /\ UNCHANGED <<st, slot, kys, wreq, loopvars, handler>>

\* Mutant: a worker told to stop goes round its loop.
WorkerExitContinues(w) ==
  /\ wpc[w] = "check"
  /\ kys[w]
  /\ UNCHANGED vars

WorkerExit(w) ==
  /\ wpc[w] = "check"
  /\ kys[w]
  /\ wpc' = [wpc EXCEPT ![w] = "exited"]
  /\ UNCHANGED <<st, slot, kys, wreq, loopvars, handler>>

\* Mutant: the result is dropped and the task, still in its slot, taken again.
WorkerDoneRepeats(w) ==
  /\ wpc[w] = "run"
  /\ wpc' = [wpc EXCEPT ![w] = "check"]
  /\ UNCHANGED <<st, slot, kys, wreq, loopvars, handler>>

\* The callback returns.
WorkerDone(w) ==
  /\ wpc[w] = "run"
  /\ wpc' = [wpc EXCEPT ![w] = "end"]
  /\ UNCHANGED <<st, slot, kys, wreq, loopvars, handler>>

\* yoi_req_end needs queue->lock.
WorkerEnd(w) ==
  /\ wpc[w] = "end"
  /\ ~qheld
  /\ st' = [st EXCEPT ![wreq[w]] = "ready"]
  /\ wpc' = [wpc EXCEPT ![w] = "clear"]
  /\ UNCHANGED <<slot, kys, wreq, loopvars, handler>>

\* Back under its own lock: the slot is emptied, then exit or wait.
WorkerClear(w) ==
  /\ wpc[w] = "clear"
  /\ slot' = [slot EXCEPT ![w] = NoReq]
  /\ wreq' = [wreq EXCEPT ![w] = NoReq]
  /\ wpc' = [wpc EXCEPT ![w] = IF kys[w] THEN "exited" ELSE "wait"]
  /\ UNCHANGED <<st, kys, loopvars, handler>>

\* pthread_cond_wait may return on its own.
Spurious(w) ==
  /\ wpc[w] = "wait"
  /\ wpc' = [wpc EXCEPT ![w] = "check"]
  /\ UNCHANGED <<st, slot, kys, wreq, loopvars, handler>>

------------------------------------------------------------------------------
(* yo_queue_free.                                                           *)

\* Nothing keeps a caller from freeing a queue with requests outstanding.
FreeLock ==
  /\ lpc = "user"
  /\ qheld' = TRUE
  /\ lpc' = "free"
  /\ UNCHANGED <<st, worker_head, slot, kys, wpc, wreq, ereq, pos, joining, handler>>

\* pthread_kill(SIGPWR), then pthread_join.  On a thread that was never
\* created both are undefined behaviour; while no thread has installed the
\* handler, SIGPWR ends the process.
AfterStop(w) ==
  IF wpc[w] = "dead" THEN "undefined"
  ELSE IF ~handler THEN "killed"
  ELSE "join"

\* Mutant: the worker stays listed.
FreeStopListed ==
  /\ lpc = "free"
  /\ worker_head # <<>>
  /\ LET w == Head(worker_head) IN
       /\ kys' = [kys EXCEPT ![w] = TRUE]
       /\ wpc' = [wpc EXCEPT ![w] = Signalled(w)]
       /\ lpc' = AfterStop(w)
       /\ joining' = w
  /\ UNCHANGED <<st, worker_head, slot, wreq, ereq, pos, qheld, handler>>

\* yoi_pool_free stops the first worker.
FreeStop ==
  /\ lpc = "free"
  /\ worker_head # <<>>
  /\ worker_head' = Tail(worker_head)
  /\ LET w == Head(worker_head) IN
       /\ kys' = [kys EXCEPT ![w] = TRUE]
       /\ wpc' = [wpc EXCEPT ![w] = Signalled(w)]
       /\ lpc' = AfterStop(w)
       /\ joining' = w
  /\ UNCHANGED <<st, slot, wreq, ereq, pos, qheld, handler>>

\* pthread_join returns; the worker is freed.
FreeJoin ==
  /\ lpc = "join"
  /\ wpc[joining] = "exited"
  /\ wpc' = [wpc EXCEPT ![joining] = "none"]
  /\ joining' = NoWorker
  /\ lpc' = "free"
  /\ UNCHANGED <<st, worker_head, slot, kys, wreq, ereq, pos, qheld, handler>>

\* The list is empty: the queue's own resources go.
FreeDone ==
  /\ lpc = "free"
  /\ worker_head = <<>>
  /\ lpc' = "freed"
  /\ UNCHANGED <<st, worker_head, slot, kys, wpc, wreq, ereq, pos, joining, qheld, handler>>

------------------------------------------------------------------------------

ExecStep == ExecAssign \/ ExecSkip \/ ExecNoMem \/ \E w \in Workers : ExecSpawn(w)
FreeStep == FreeStop \/ FreeJoin \/ FreeDone
WorkerStep(w) ==
  WorkerStart(w) \/ WorkerTake(w) \/ WorkerSleep(w) \/ WorkerExit(w)
    \/ WorkerDone(w) \/ WorkerEnd(w) \/ WorkerClear(w)

Next ==
  \/ \E r \in Reqs : yo_req_exec(r) \/ Poll(r)
  \/ ExecStep
  \/ FreeLock
  \/ FreeStep
  \/ \E w \in Workers : WorkerStep(w) \/ Spurious(w)

Spec == Init /\ [][Next]_vars

\* Threads are scheduled and callbacks return; the caller need not submit,
\* poll or free anything.
FairSpec ==
  /\ Spec
  /\ WF_vars(ExecStep) /\ WF_vars(FreeStep)
  /\ \A w \in Workers : WF_vars(WorkerStep(w))

------------------------------------------------------------------------------
(* Properties.                                                              *)

TypeOK ==
  /\ st \in [Reqs -> {"user", "lib", "ready"}]
  /\ worker_head \in Seq(Workers)
  /\ slot \in [Workers -> Reqs \cup {NoReq}]
  /\ kys \in [Workers -> BOOLEAN]
  /\ wpc \in [Workers -> {"none", "start", "check", "run", "end", "clear",
                          "wait", "exited", "dead"}]
  /\ wreq \in [Workers -> Reqs \cup {NoReq}]
  /\ lpc \in {"user", "exec", "free", "join", "freed", "undefined", "killed"}
  /\ ereq \in Reqs \cup {NoReq} /\ (ereq # NoReq <=> lpc = "exec")
  /\ pos \in Nat \ {0}
  /\ joining \in Workers \cup {NoWorker}
  /\ qheld \in BOOLEAN /\ handler \in BOOLEAN

\* The worker that has request r to do: not started yet, or running it.
Holds(w, r) ==
  \/ wpc[w] \in {"start", "check", "wait", "dead"} /\ slot[w] = r
  \/ wpc[w] \in {"run", "end"} /\ wreq[w] = r

\* A request given to the pool is with exactly one worker until it is
\* completed, although workers finish, are reused and are spawned while
\* yo_req_exec walks the list, and a completed request may be submitted again
\* before its old worker has emptied its slot (pool.c:36-41, 53-66).  Only a
\* queue that is being freed drops requests.
TaskHeldOnce ==
  /\ \A r \in Reqs, v, w \in Workers : Holds(v, r) /\ Holds(w, r) => v = w
  /\ \A r \in Reqs, w \in Workers : Holds(w, r) => st[r] = "lib"
  /\ qheld \/ \A r \in Reqs : st[r] = "lib" => \E w \in Workers : Holds(w, r)

\* No worker sleeps with a task in its slot or after it was told to stop: the
\* single pthread_cond_signal of yo_req_exec and yoi_pool_free is never lost
\* (pool.c:31-44, 62, 106).
NoSleepOnTask ==
  \A w \in Workers : wpc[w] = "wait" => slot[w] = NoReq /\ ~kys[w]

\* A worker that is listed is still allocated, and is listed once.
ListedAlive ==
  /\ \A i \in DOMAIN worker_head : wpc[worker_head[i]] \notin {"none", "exited"}
  /\ \A i, j \in DOMAIN worker_head : worker_head[i] = worker_head[j] => i = j

\* A request given to the pool completes (queue.h:32), if its worker's thread
\* exists and the queue is not being freed.
TasksComplete ==
  \A r \in Reqs : st[r] = "lib" ~>
    \/ st[r] # "lib"
    \/ qheld
    \/ \E w \in Workers : wpc[w] = "dead" /\ slot[w] = r

Outstanding == \E r \in Reqs : st[r] = "lib"

\* yo_queue_free does not hang on the join of a worker (queue.h:20).
FreeReturns == lpc = "free" ~> lpc \notin {"free", "join"}

\* It does not when nothing is outstanding, although workers are anywhere
\* between completing their last request and going to sleep.
IdleFreeReturns == (lpc = "free" /\ ~Outstanding) ~> lpc \notin {"free", "join"}

\* Freeing a queue with nothing outstanding joins threads that exist, and the
\* SIGPWR it sends them finds its handler installed (multithread.h:64-81,
\* pool.c:105-109).
IdleFreeDefined == lpc \in {"killed", "undefined"} => Outstanding
==============================================================================
