------------------------------ MODULE EventQueue ------------------------------
(***************************************************************************)
(* The request queue over epoll: yoi_req_end and yoi_queue_pop             *)
(* (src/src/queue.c), yo_queue_poll, its notify pipe and the entry points  *)
(* that complete a request inline (src/src/unix/pollish.c).  The poll(2)   *)
(* backend shares the code but not the pipe: poll.c:145-151 never calls    *)
(* yoi_pl_init, so nothing here is said of it.                             *)
(*                                                                         *)
(* Threads.  One loop thread owns the queue: it allocates and submits      *)
(* requests, polls, and frees them.  A request given to the pool is        *)
(* completed by a worker thread, named here after the request it runs;     *)
(* which worker that is belongs to module Pool.                            *)
(*                                                                         *)
(* Frees says when the caller frees.  The loop of src/README.md:44-72      *)
(* frees what poll has returned; inc/yaooi/queue.h:38 offers yo_req_free   *)
(* for a request that is still outstanding as well, which the code does    *)
(* not support: it only calls free (queue.c:99-101).                       *)
(*                                                                         *)
(* Steps.  Every access to memory that two threads share is a step of its  *)
(* own, so taking the lock, linking the request, writing the pipe and      *)
(* releasing the lock interleave with the poller, which reads the pipe and *)
(* a popped request without the lock.                                      *)
(*                                                                         *)
(* Every I/O request has an fd of its own here (Pollish shares them), the  *)
(* poll has no deadline (EpollDeadline has one), and yo_req_cancel, which  *)
(* writes over the ready list, is left to ReqCancel.                       *)
(***************************************************************************)
EXTENDS Integers, Sequences, Functions

CONSTANTS
  Reqs,       \* addresses malloc can hand out for requests
  Codes,      \* result codes of operations
  ECANCELED,  \* the code yo_fd_close completes requests with
  NoCode,     \* a ready.code that was never written
  NoReq,      \* NULL
  Loop,       \* the loop thread
  Frees,      \* the owners, of those that mem names, whose requests are freed
  PipeCap,    \* bytes the notify pipe holds before a write would block
  Chunk       \* bytes one read() of the pipe takes at most

ASSUME ConstAssumption ==
  /\ ECANCELED \in Codes /\ NoCode \notin Codes
  /\ Loop \notin Reqs /\ NoReq \notin Reqs /\ NoReq # Loop
ASSUME PipeAssumption == PipeCap \in Nat \ {0} /\ Chunk \in Nat \ {0}

\* The caller keeps its hands off requests that are outstanding.
FreesOnlyOwn == "lib" \notin Frees

VARIABLES
  mem,    \* who owns each request: "none" (not allocated), "new", "lib", "ret"
  pc,     \* where each thread is
  lock,   \* queue->lock: {} or {the holder}
  head,   \* queue->head: the ready list, first element first
  code,   \* ready.code of each request
  pipe,   \* bytes in the notify pipe
  io,     \* requests armed on an fd
  rdy,    \* those whose fd is ready
  cur,    \* the request in the loop thread's hands
  ret     \* *preq and *pcode of the last successful yo_queue_poll

vars == <<mem, pc, lock, head, code, pipe, io, rdy, cur, ret>>

Threads == Reqs \cup {Loop}

\* The steps of yoi_req_end after ready.code is stored.
EndStages == {"end_lock", "end_push", "end_notify", "end_unlock"}
Stages == EndStages \cup
  {"idle", "run", "lost", "user", "pop", "popping", "popped", "wait", "drain"}

NoRet == <<>>

\* The request a thread passes to yoi_req_end.
Target(t) == IF t = Loop THEN cur ELSE t

GoTo(t, s) == pc' = [pc EXCEPT ![t] = s]

Init ==
  /\ mem = [r \in Reqs |-> "none"]
  /\ pc = [t \in Threads |-> IF t = Loop THEN "user" ELSE "idle"]
  /\ lock = {}
  /\ head = <<>>
  /\ code = [r \in Reqs |-> NoCode]
  /\ pipe = 0
  /\ io = {}
  /\ rdy = {}
  /\ cur = NoReq
  /\ ret = NoRet

------------------------------------------------------------------------------
(* The loop thread outside yo_queue_poll.                                   *)

yo_req_new(r) ==
  /\ pc[Loop] = "user"
  /\ mem[r] = "none"
  /\ mem' = [mem EXCEPT ![r] = "new"]
  /\ code' = [code EXCEPT ![r] = NoCode]
  /\ UNCHANGED <<pc, lock, head, pipe, io, rdy, cur, ret>>

\* free, whatever the library still does with the request; malloc may hand
\* the address out again.
yo_req_free(r) ==
  /\ pc[Loop] = "user"
  /\ mem[r] \in Frees \ {"none"}
  /\ mem' = [mem EXCEPT ![r] = "none"]
  /\ UNCHANGED <<pc, lock, head, code, pipe, io, rdy, cur, ret>>

\* A worker thread now has the request (the hand-over is module Pool's), or
\* its thread could not be started, which yo_req_exec takes for success
\* (pool.c:84), and nobody runs it.
yo_req_exec(r) ==
  /\ pc[Loop] = "user"
  /\ mem[r] = "new"
  /\ mem' = [mem EXCEPT ![r] = "lib"]
  /\ GoTo(r, "run") \/ GoTo(r, "lost")
  /\ UNCHANGED <<lock, head, code, pipe, io, rdy, cur, ret>>

\* No memory for a worker: YO_ENOMEM, and the request stays the caller's.
ExecNoMem(r) ==
  /\ pc[Loop] = "user"
  /\ mem[r] = "new"
  /\ UNCHANGED vars

\* yoa_read and its siblings: _yoi_pl_req_start on a pollable fd.
StartArmed(r) ==
  /\ pc[Loop] = "user"
  /\ mem[r] = "new"
  /\ mem' = [mem EXCEPT ![r] = "lib"]
  /\ io' = io \cup {r}
  /\ UNCHANGED <<pc, lock, head, code, pipe, rdy, cur, ret>>

\* The loop thread enters yoi_req_end(r, c).
LoopEnds(r, c) ==
  /\ code' = [code EXCEPT ![r] = c]
  /\ cur' = r
  /\ GoTo(Loop, "end_lock")

\* _yoi_pl_req_start when the fd cannot be polled (EPERM): the operation is
\* done on the spot and the request goes to the ready list.
StartSync(r, c) ==
  /\ pc[Loop] = "user"
  /\ mem[r] = "new"
  /\ mem' = [mem EXCEPT ![r] = "lib"]
  /\ LoopEnds(r, c)
  /\ UNCHANGED <<lock, head, pipe, io, rdy, ret>>

\* Mutant: the closed fd stays in the poll set.
CloseFdKeepsReady(r) ==
  /\ pc[Loop] = "user"
  /\ r \in io
  /\ io' = io \ {r}
  /\ LoopEnds(r, ECANCELED)
  /\ UNCHANGED <<mem, lock, head, pipe, rdy, ret>>

\* yo_fd_close -> yoi_unix_onclose: the request of the closed fd is ended.
CloseFd(r) ==
  /\ pc[Loop] = "user"
  /\ r \in io
  /\ io' = io \ {r}
  /\ rdy' = rdy \ {r}
  /\ LoopEnds(r, ECANCELED)
  /\ UNCHANGED <<mem, lock, head, pipe, ret>>

\* The loop polls only while something is outstanding (src/README.md:63-64).
PollCall ==
  /\ pc[Loop] = "user"
  /\ \E r \in Reqs : mem[r] = "lib"
  /\ GoTo(Loop, "pop")
  /\ UNCHANGED <<mem, lock, head, code, pipe, io, rdy, cur, ret>>

------------------------------------------------------------------------------
(* yoi_req_end, run by a worker or by the loop thread.                      *)

\* Mutant: the code of the callback is dropped.
WorkDropsCode(r, c) ==
  /\ pc[r] = "run"
  /\ GoTo(r, "end_lock")
  /\ UNCHANGED <<mem, lock, head, code, pipe, io, rdy, cur, ret>>

\* The worker's callback returns c; ready.code is written before the lock.
Work(r, c) ==
  /\ pc[r] = "run"
  /\ code' = [code EXCEPT ![r] = c]
  /\ GoTo(r, "end_lock")
  /\ UNCHANGED <<mem, lock, head, pipe, io, rdy, cur, ret>>

EndLock(t) ==
  /\ pc[t] = "end_lock"
  /\ lock = {}
  /\ lock' = {t}
  /\ GoTo(t, "end_push")
  /\ UNCHANGED <<mem, head, code, pipe, io, rdy, cur, ret>>

\* Mutant: the lock is released before the pipe is written.
EndPushUnlocks(t) ==
  /\ pc[t] = "end_push"
  /\ head' = <<Target(t)>> \o head
  /\ lock' = {}
  /\ GoTo(t, "end_notify")
  /\ UNCHANGED <<mem, code, pipe, io, rdy, cur, ret>>

\* yoi_list_add links the request in front of the list.
EndPush(t) ==
  /\ pc[t] = "end_push"
  /\ head' = <<Target(t)>> \o head
  /\ GoTo(t, "end_notify")
  /\ UNCHANGED <<mem, lock, code, pipe, io, rdy, cur, ret>>

\* yoi_queue_impl_notify: one byte, or EWOULDBLOCK on a full pipe, ignored.
EndNotify(t) ==
  /\ pc[t] = "end_notify"
  /\ pipe' = IF pipe < PipeCap THEN pipe + 1 ELSE pipe
  /\ GoTo(t, "end_unlock")
  /\ UNCHANGED <<mem, lock, head, code, io, rdy, cur, ret>>

\* After the unlock a worker no longer touches the request.
EndUnlock(t) ==
  /\ pc[t] = "end_unlock"
  /\ lock' = {}
  /\ GoTo(t, IF t = Loop THEN "user" ELSE "idle")
  /\ cur' = IF t = Loop THEN NoReq ELSE cur
  /\ UNCHANGED <<mem, head, code, pipe, io, rdy, ret>>

------------------------------------------------------------------------------
(* yo_queue_poll: yoi_queue_pop, then the wait, then the drain.             *)

PopLock ==
  /\ pc[Loop] = "pop"
  /\ lock = {}
  /\ lock' = {Loop}
  /\ GoTo(Loop, "popping")
  /\ UNCHANGED <<mem, head, code, pipe, io, rdy, cur, ret>>

\* Mutant: the popped request stays linked.
PopTakeKeeps ==
  /\ pc[Loop] = "popping"
  /\ head # <<>>
  /\ cur' = Head(head)
  /\ lock' = {}
  /\ GoTo(Loop, "popped")
  /\ UNCHANGED <<mem, head, code, pipe, io, rdy, ret>>

PopTake ==
  /\ pc[Loop] = "popping"
  /\ head # <<>>
  /\ cur' = Head(head)
  /\ head' = Tail(head)
  /\ lock' = {}
  /\ GoTo(Loop, "popped")
  /\ UNCHANGED <<mem, code, pipe, io, rdy, ret>>

PopEmpty ==
  /\ pc[Loop] = "popping"
  /\ head = <<>>
  /\ lock' = {}
  /\ GoTo(Loop, "wait")
  /\ UNCHANGED <<mem, head, code, pipe, io, rdy, cur, ret>>

\* *pcode = req->ready.code, read without the lock; poll returns the request.
PopReturn ==
  /\ pc[Loop] = "popped"
  /\ ret' = <<cur, code[cur]>>
  /\ mem' = [mem EXCEPT ![cur] = "ret"]
  /\ cur' = NoReq
  /\ GoTo(Loop, "user")
  /\ UNCHANGED <<lock, head, code, pipe, io, rdy>>

\* The wait ends on the notify pipe, which is level triggered.
WaitNotify ==
  /\ pc[Loop] = "wait"
  /\ pipe > 0
  /\ GoTo(Loop, "drain")
  /\ UNCHANGED <<mem, lock, head, code, pipe, io, rdy, cur, ret>>

\* The wait ends on an fd: the request is stopped, done and returned.
WaitIo(r, c) ==
  /\ pc[Loop] = "wait"
  /\ r \in rdy
  /\ io' = io \ {r}
  /\ rdy' = rdy \ {r}
  /\ ret' = <<r, c>>
  /\ mem' = [mem EXCEPT ![r] = "ret"]
  /\ GoTo(Loop, "user")
  /\ UNCHANGED <<lock, head, code, pipe, cur>>

\* Mutant: read() is asked for no bytes, and the drain never gets to EAGAIN.
DrainReadNothing ==
  /\ pc[Loop] = "drain"
  /\ pipe > 0
  /\ UNCHANGED vars

\* One read() of the drain loop.
DrainRead ==
  /\ pc[Loop] = "drain"
  /\ pipe > 0
  /\ pipe' = IF pipe > Chunk THEN pipe - Chunk ELSE 0
  /\ UNCHANGED <<mem, pc, lock, head, code, io, rdy, cur, ret>>

\* Mutant: after the drain the poller goes straight back to sleep.
DrainDoneWaits ==
  /\ pc[Loop] = "drain"
  /\ pipe = 0
  /\ GoTo(Loop, "wait")
  /\ UNCHANGED <<mem, lock, head, code, pipe, io, rdy, cur, ret>>

\* read() fails with EAGAIN: the drain is over and the list is looked at again.
DrainDone ==
  /\ pc[Loop] = "drain"
  /\ pipe = 0
  /\ GoTo(Loop, "pop")
  /\ UNCHANGED <<mem, lock, head, code, pipe, io, rdy, cur, ret>>

\* The kernel: the fd of an armed request becomes ready.
FdReady(r) ==
  /\ r \in io \ rdy
  /\ rdy' = rdy \cup {r}
  /\ UNCHANGED <<mem, pc, lock, head, code, pipe, io, cur, ret>>

------------------------------------------------------------------------------

EndStep(t) == EndLock(t) \/ EndPush(t) \/ EndNotify(t) \/ EndUnlock(t)

PollStep ==
  \/ PopLock \/ PopTake \/ PopEmpty \/ PopReturn
  \/ WaitNotify \/ DrainRead \/ DrainDone
  \/ \E r \in Reqs, c \in Codes : WaitIo(r, c)

UserStep ==
  \/ PollCall
  \/ \E r \in Reqs :
       \/ yo_req_new(r) \/ yo_req_free(r)
       \/ yo_req_exec(r) \/ ExecNoMem(r) \/ StartArmed(r) \/ CloseFd(r)
       \/ \E c \in Codes : StartSync(r, c)

WorkStep(r) == \E c \in Codes : Work(r, c)

Next ==
  \/ UserStep
  \/ PollStep
  \/ \E t \in Threads : EndStep(t)
  \/ \E r \in Reqs : WorkStep(r) \/ FdReady(r)

Spec == Init /\ [][Next]_vars

(***************************************************************************)
(* Fairness.  The OS schedules every thread and its mutex does not starve  *)
(* a waiter for ever (strong fairness on the two acquisitions); callbacks  *)
(* return and fds become ready (the operations themselves end); the loop   *)
(* keeps polling while requests are outstanding, as src/README.md:56-72    *)
(* does.  Nothing forces it to submit, free or close anything.             *)
(***************************************************************************)
Fairness ==
  /\ WF_vars(PollCall)
  /\ WF_vars(PollStep)
  /\ SF_vars(PopLock)
  /\ SF_vars(WaitNotify)
  /\ \A t \in Threads : WF_vars(EndStep(t)) /\ SF_vars(EndLock(t))
  /\ \A r \in Reqs : WF_vars(WorkStep(r)) /\ WF_vars(FdReady(r))

FairSpec == Spec /\ Fairness

------------------------------------------------------------------------------
(* Properties.                                                              *)

TypeOK ==
  /\ mem \in [Reqs -> {"none", "new", "lib", "ret"}]
  /\ pc \in [Threads -> Stages]
  /\ \A r \in Reqs : pc[r] \in EndStages \cup {"idle", "run", "lost"}
  /\ pc[Loop] \notin {"idle", "run", "lost"}
  /\ lock \in {{}} \cup {{t} : t \in Threads}
  /\ head \in Seq(Reqs)
  /\ code \in [Reqs -> Codes \cup {NoCode}]
  /\ pipe \in 0 .. PipeCap
  /\ io \subseteq Reqs /\ rdy \subseteq io
  /\ cur \in Reqs \cup {NoReq}

\* yo_queue_poll never sleeps on a non-empty ready list without a byte in the
\* notify pipe to wake it, however pushes, notifications, full-pipe writes and
\* the unlocked drain interleave (pollish.c:128-135 and 147-165): a thread that
\* has linked a request and not yet written its byte still will.
NoLostWakeup ==
  (pc[Loop] = "wait" /\ head # <<>>) =>
    \/ pipe > 0
    \/ \E r \in Reqs : pc[r] = "end_notify"

\* The places a submitted request can be in: with the thread that runs or
\* completes it (or was to run it and never started), armed on its fd, on the ready list, or popped.
Running(r) == pc[r] \in {"run", "lost", "end_lock", "end_push"}
LoopEnding(r) == cur = r /\ pc[Loop] \in {"end_lock", "end_push"}
Popped(r) == cur = r /\ pc[Loop] = "popped"
Listed(r) == r \in Range(head)

\* A request is owned by the library exactly while it is in one of those
\* places, it is never in two of them, and it is on the ready list at most
\* once: nothing is lost, nothing is delivered twice (queue.c:25-54).
OnePlace ==
  /\ \A r \in Reqs :
       /\ mem[r] = "lib" <=>
            (Running(r) \/ LoopEnding(r) \/ r \in io \/ Listed(r) \/ Popped(r))
       /\ Running(r) => ~(LoopEnding(r) \/ r \in io \/ Listed(r) \/ Popped(r))
       /\ LoopEnding(r) => ~(r \in io \/ Listed(r))
       /\ r \in io => ~(Listed(r) \/ Popped(r))
       /\ Listed(r) => ~Popped(r)
  /\ IsInjective(head)

\* From the store of the code to the unlock a worker dereferences the request
\* (queue.c:26-32).  The caller may free it as soon as poll has returned it,
\* so until then poll must not have returned it.  This is a promise to callers
\* that free only what poll returned, or what they never submitted; to one
\* that frees an outstanding request (queue.h:38) it is broken.
NoTouchAfterFree ==
  \A r \in Reqs : pc[r] \in EndStages => mem[r] = "lib"

Submits ==
  \E r \in Reqs : yo_req_exec(r) \/ StartArmed(r) \/ \E c \in Codes : StartSync(r, c)

\* Every submitted request is eventually returned by yo_queue_poll, if a
\* thread was there to run it and the caller does not go on submitting for
\* ever: the ready list is a stack, so operations that complete at once can
\* keep an older completion waiting.
AllDelivered ==
  <>[][~Submits]_vars =>
    \A r \in Reqs : mem[r] = "lib" ~> mem[r] = "ret" \/ pc[r] = "lost"

(***************************************************************************)
(* The inductive invariant.  LockInv: the critical sections are exactly    *)
(* the holders of the lock.  CurInv: the loop thread holds a request       *)
(* exactly inside yoi_req_end and between pop and return.  PlaceInv: a     *)
(* thread that has linked its request and not left the critical section    *)
(* keeps it listed, because popping needs the lock.  CodeInv: a request    *)
(* that is being linked, listed or popped carries its operation's code.    *)
(***************************************************************************)
InCS(t) == pc[t] \in {"end_push", "end_notify", "end_unlock", "popping"}
LockInv == \A t \in Threads : InCS(t) <=> lock = {t}
CurInv == pc[Loop] \in EndStages \cup {"popped"} <=> cur # NoReq
PlaceInv ==
  /\ \A r \in Reqs : pc[r] \in {"end_notify", "end_unlock"} => Listed(r)
  /\ pc[Loop] \in {"end_notify", "end_unlock"} => Listed(cur)
CodeInv ==
  \A r \in Reqs :
    (pc[r] \in {"end_lock", "end_push"} \/ LoopEnding(r) \/ Listed(r) \/ Popped(r))
      => code[r] \in Codes

IndInv ==
  /\ TypeOK /\ LockInv /\ CurInv /\ PlaceInv /\ CodeInv
  /\ OnePlace /\ NoTouchAfterFree /\ NoLostWakeup

(* The abstract queue: a request is done once it is on the ready list.      *)
Status(r) ==
  IF Listed(r) \/ Popped(r) THEN "done"
  ELSE IF mem[r] = "lib" THEN "running" ELSE "idle"

Abs == INSTANCE Completions WITH
  status <- [r \in Reqs |-> Status(r)],
  result <- [r \in Reqs |-> IF Status(r) = "done" THEN code[r] ELSE NoCode],
  ret <- ret

\* Every request is handed back exactly once per submission, with the code it
\* was completed with (inc/yaooi/queue.h:22-34).
ImplementsCompletions == Abs!ASpec
==============================================================================
