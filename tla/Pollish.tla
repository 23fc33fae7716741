------------------------------- MODULE Pollish -------------------------------
(***************************************************************************)
(* I/O requests of the polling backends: the per-handle request list and   *)
(* counters (src/src/unix/pollish.c), the kernel's interest set as         *)
(* yoi_pl_impl_setmask keeps it (src/src/unix/epoll.c:27-50), and          *)
(* yo_fd_close (src/src/unix/impl.c:423-446).                              *)
(*                                                                         *)
(* Everything here is run by the loop thread, so one call is one step.     *)
(*                                                                         *)
(* Hypothesis on the caller (Callers below): it leaves a request alone     *)
(* whose start has failed.  The code keeps such a request linked on its    *)
(* handle (pollish.c:82-83) and prevents nobody from starting it again or  *)
(* freeing it, which would tie the list in a loop or leave freed memory    *)
(* in it; nothing is said here of callers that do.                         *)
(***************************************************************************)
EXTENDS Integers, Sequences, FiniteSets

CONSTANTS
  Queues, Handles, Reqs,
  OsFds,      \* OS descriptors
  OsFd,       \* [Handles -> OsFds]
  QueueOf,    \* [Reqs -> Queues], fixed by yo_req_new
  Kinds,      \* the operations submitted
  Pollable,   \* descriptors epoll accepts; the others fail with EPERM
  Owned,      \* handles that close their descriptor
  CtlFail,    \* TRUE if epoll_ctl may fail for want of memory or watches
  MaxCount,   \* bound on the counters of an unpollable handle
  NoReg, NoReq, NoHandle

Dirs == {"R", "W"}   \* YOI_PL_READABLE, YOI_PL_WRITABLE

ASSUME ConstAssumption ==
  /\ OsFd \in [Handles -> OsFds] /\ QueueOf \in [Reqs -> Queues]
  /\ Kinds \subseteq {"READ", "PREAD", "ACCEPT", "WRITE", "PWRITE"} /\ Kinds # {}
  /\ Pollable \subseteq OsFds /\ Owned \subseteq Handles
  /\ \A g \in Owned, h \in Handles : OsFd[g] = OsFd[h] => g = h
  /\ CtlFail \in BOOLEAN /\ MaxCount \in Nat
  /\ NoReg \notin [udata : Handles, mask : SUBSET Dirs]
  /\ NoReq \notin Reqs /\ NoHandle \notin Handles

VARIABLES
  open,    \* handles that are allocated
  head,    \* fd->head: requests armed on each handle, newest first
  ioq,     \* fd->ioq: read_n and write_n of each handle
  reg,     \* interest set of each queue: descriptor -> udata and mask
  st,      \* requests: "user", "armed", "ready", "failed"
  kind,    \* running.ioq.kind
  fd,      \* running.ioq.fd
  ready    \* ready list of each queue

vars == <<open, head, ioq, reg, st, kind, fd, ready>>

Reg == [udata : Handles, mask : SUBSET Dirs]

Init ==
  /\ open = {}
  /\ head = [h \in Handles |-> <<>>]
  /\ ioq = [h \in Handles |-> [d \in Dirs |-> 0]]
  /\ reg = [q \in Queues |-> [o \in OsFds |-> NoReg]]
  /\ st = [r \in Reqs |-> "user"]
  /\ kind = [r \in Reqs |-> CHOOSE k \in Kinds : TRUE]
  /\ fd = [r \in Reqs |-> NoHandle]
  /\ ready = [q \in Queues |-> <<>>]

\* _yoi_pl_tomask.
ToMask(k) == IF k \in {"READ", "PREAD", "ACCEPT"} THEN "R" ELSE "W"

\* The mask _yoi_pl_req_start and _yoi_pl_req_stop derive from the counters.
MaskOf(n) == {d \in Dirs : n[d] # 0}

\* yoi_pl_impl_setmask: mask 0 deletes, anything else modifies or adds, and
\* attaches the handle either way.
SetMask(q, h, o, mask) ==
  [reg EXCEPT ![q][o] = IF mask = {} THEN NoReg
                        ELSE [udata |-> h, mask |-> mask]]

Push(q, r) == [ready EXCEPT ![q] = <<r>> \o @]

\* yoi_dlist_del: r is taken out of the list s.
Unlink(s, r) ==
  LET at == CHOOSE i \in DOMAIN s : s[i] = r
  IN [i \in 1 .. Len(s) - 1 |-> IF i < at THEN s[i] ELSE s[i + 1]]

\* The requests of the list s that are of queue q, as walking s and linking
\* each of them in front leaves them.
Ended(s, q) ==
  LET F[i \in 0 .. Len(s)] ==
        IF i = 0 THEN <<>>
        ELSE IF QueueOf[s[i]] = q THEN <<s[i]>> \o F[i - 1] ELSE F[i - 1]
  IN F[Len(s)]

------------------------------------------------------------------------------

yo_fd_new(h) ==
  /\ h \notin open
  /\ open' = open \cup {h}
  /\ head' = [head EXCEPT ![h] = <<>>]
  /\ ioq' = [ioq EXCEPT ![h] = [d \in Dirs |-> 0]]
  /\ UNCHANGED <<reg, st, kind, fd, ready>>

\* Callers start a request that is theirs: new, or returned by yo_queue_poll.
\* One whose start failed is not, though it was never accepted either.
Callers(r) == st[r] = "user"

\* yoa_read and its siblings fill the request in; _yoi_pl_req_start counts it
\* before it knows whether the descriptor can be watched.
Begin(r, h, k) ==
  /\ Callers(r)
  /\ h \in open
  /\ kind' = [kind EXCEPT ![r] = k]
  /\ fd' = [fd EXCEPT ![r] = h]
  /\ ioq' = [ioq EXCEPT ![h][ToMask(k)] = @ + 1]

\* Mutant: the mask is computed before the request is counted.
StartOkOldMask(r, h, k) ==
  /\ Begin(r, h, k)
  /\ OsFd[h] \in Pollable
  /\ reg' = SetMask(QueueOf[r], h, OsFd[h], MaskOf(ioq[h]))
  /\ head' = [head EXCEPT ![h] = <<r>> \o @]
  /\ st' = [st EXCEPT ![r] = "armed"]
  /\ UNCHANGED <<open, ready>>

StartOk(r, h, k) ==
  /\ Begin(r, h, k)
  /\ OsFd[h] \in Pollable
  /\ reg' = SetMask(QueueOf[r], h, OsFd[h], MaskOf(ioq'[h]))
  /\ head' = [head EXCEPT ![h] = <<r>> \o @]
  /\ st' = [st EXCEPT ![r] = "armed"]
  /\ UNCHANGED <<open, ready>>

\* EPERM: done at once and put on the ready list; the counter stays up.
StartSync(r, h, k) ==
  /\ Begin(r, h, k)
  /\ OsFd[h] \notin Pollable
  /\ ioq[h][ToMask(k)] < MaxCount
  /\ ready' = Push(QueueOf[r], r)
  /\ st' = [st EXCEPT ![r] = "ready"]
  /\ UNCHANGED <<open, head, reg>>

\* Any other error is returned to the caller, and the request is linked and
\* counted all the same.
StartFail(r, h, k) ==
  /\ CtlFail
  /\ Begin(r, h, k)
  /\ OsFd[h] \in Pollable
  /\ head' = [head EXCEPT ![h] = <<r>> \o @]
  /\ st' = [st EXCEPT ![r] = "failed"]
  /\ UNCHANGED <<open, reg, ready>>

------------------------------------------------------------------------------

\* Mutant: the counter is left alone.
StopUncounted(r) ==
  LET h == fd[r] IN
  /\ head' = [head EXCEPT ![h] = Unlink(@, r)]
  /\ ioq' = ioq
  /\ reg' = SetMask(QueueOf[r], h, OsFd[h], MaskOf(ioq'[h]))

\* Mutant: the request is counted down twice.
StopTwice(r) ==
  LET h == fd[r] IN
  /\ ioq' = [ioq EXCEPT ![h][ToMask(kind[r])] = @ - 2]
  /\ head' = [head EXCEPT ![h] = Unlink(@, r)]
  /\ reg' = SetMask(QueueOf[r], h, OsFd[h], MaskOf(ioq'[h]))

\* _yoi_pl_req_stop.
Stop(r) ==
  LET h == fd[r] IN
  /\ ioq' = [ioq EXCEPT ![h][ToMask(kind[r])] = @ - 1]
  /\ head' = [head EXCEPT ![h] = Unlink(@, r)]
  /\ reg' = SetMask(QueueOf[r], h, OsFd[h], MaskOf(ioq'[h]))

\* _yoi_pl_req_cancel, the callback of yo_req_cancel (whose own write to the
\* request afterwards is ReqCancel's subject).
PlReqCancel(r) ==
  /\ st[r] = "armed"
  /\ Stop(r)
  /\ ready' = Push(QueueOf[r], r)
  /\ st' = [st EXCEPT ![r] = "ready"]
  /\ UNCHANGED <<open, kind, fd>>

\* Mutant: closing an unowned handle leaves its descriptor watched.
FdCloseWatched(h) ==
  /\ h \in open
  /\ open' = open \ {h}
  /\ LET mine == {head[h][i] : i \in DOMAIN head[h]} IN
       /\ reg' = [q \in Queues |-> [o \in OsFds |->
            IF o = OsFd[h] /\ h \in Owned THEN NoReg ELSE reg[q][o]]]
       /\ st' = [r \in Reqs |-> IF r \in mine THEN "ready" ELSE st[r]]
  /\ ready' = [q \in Queues |-> Ended(head[h], q) \o ready[q]]
  /\ head' = [head EXCEPT ![h] = <<>>]
  /\ UNCHANGED <<ioq, kind, fd>>

\* yo_fd_close: yoi_unix_onclose walks the list, unregistering the descriptor
\* from each request's queue and ending the request; closing an owned
\* descriptor removes it from every interest set; the handle is freed.
yo_fd_close(h) ==
  /\ h \in open
  /\ open' = open \ {h}
  /\ LET mine == {head[h][i] : i \in DOMAIN head[h]} IN
       /\ reg' = [q \in Queues |-> [o \in OsFds |->
            IF o = OsFd[h] /\ (h \in Owned \/ \E r \in mine : QueueOf[r] = q)
            THEN NoReg ELSE reg[q][o]]]
       /\ st' = [r \in Reqs |-> IF r \in mine THEN "ready" ELSE st[r]]
  /\ ready' = [q \in Queues |-> Ended(head[h], q) \o ready[q]]
  /\ head' = [head EXCEPT ![h] = <<>>]
  /\ UNCHANGED <<ioq, kind, fd>>

------------------------------------------------------------------------------
(* yo_queue_poll.                                                           *)

PollPop(q) ==
  /\ ready[q] # <<>>
  /\ ready' = [ready EXCEPT ![q] = Tail(@)]
  /\ st' = [st EXCEPT ![Head(ready[q])] = "user"]
  /\ UNCHANGED <<open, head, ioq, reg, kind, fd>>

\* What epoll_wait can report for a watched descriptor: part of its mask, or
\* an error or hang-up, which counts as both (epoll.c:89-90).
Events(mask) == {e \in SUBSET mask : e # {}} \cup {Dirs}

\* _yoi_pl_get_req: the first request of the handle that the events serve.
GetReq(h, evs) ==
  LET fit == {i \in DOMAIN head[h] : ToMask(kind[head[h][i]]) \in evs} IN
  IF fit = {} THEN NoReq
  ELSE head[h][CHOOSE i \in fit : \A j \in fit : i <= j]

\* A descriptor is ready: its request is stopped, done and returned.  When
\* GetReq finds nothing the poll loops, which changes nothing.
PollEvent(q, o, evs) ==
  /\ ready[q] = <<>>
  /\ reg[q][o] # NoReg
  /\ evs \in Events(reg[q][o].mask)
  /\ reg[q][o].udata \in open
  /\ LET r == GetReq(reg[q][o].udata, evs) IN
       /\ r # NoReq
       /\ Stop(r)
       /\ st' = [st EXCEPT ![r] = "user"]
  /\ UNCHANGED <<open, kind, fd, ready>>

Next ==
  \/ \E h \in Handles : yo_fd_new(h) \/ yo_fd_close(h)
  \/ \E r \in Reqs, h \in Handles, k \in Kinds :
       StartOk(r, h, k) \/ StartSync(r, h, k) \/ StartFail(r, h, k)
  \/ \E r \in Reqs : PlReqCancel(r)
  \/ \E q \in Queues : PollPop(q)
  \/ \E q \in Queues, o \in OsFds, evs \in SUBSET Dirs : PollEvent(q, o, evs)

Spec == Init /\ [][Next]_vars

------------------------------------------------------------------------------
(* Properties.                                                              *)

\* The counters are unsigned: going below zero would wrap.
TypeOK ==
  /\ open \subseteq Handles
  /\ head \in [Handles -> Seq(Reqs)]
  /\ ioq \in [Handles -> [Dirs -> Nat]]
  /\ reg \in [Queues -> [OsFds -> Reg \cup {NoReg}]]
  /\ st \in [Reqs -> {"user", "armed", "ready", "failed"}]
  /\ kind \in [Reqs -> Kinds]
  /\ fd \in [Reqs -> Handles \cup {NoHandle}]
  /\ ready \in [Queues -> Seq(Reqs)]

Members(h) == {head[h][i] : i \in DOMAIN head[h]}

\* read_n and write_n of a watched handle count the requests linked on it,
\* and every request is linked exactly where its own record says, through any
\* sequence of starts, failed starts, cancellations, polls and closes in which
\* no request whose start failed is started or freed again.
CountsMatch ==
  /\ \A h \in open : OsFd[h] \in Pollable =>
       \A d \in Dirs :
         ioq[h][d] = Cardinality({i \in DOMAIN head[h] : ToMask(kind[head[h][i]]) = d})
  /\ \A h \in Handles :
       /\ Members(h) = {r \in Reqs : st[r] \in {"armed", "failed"} /\ fd[r] = h}
       /\ Len(head[h]) = Cardinality(Members(h))

\* Whatever epoll_wait reports, there is a request it serves, so yo_queue_poll
\* never spins on a descriptor nobody waits for (pollish.c:167-168), and never
\* follows a udata pointer to a handle that was freed.
NoSpin ==
  \A q \in Queues, o \in OsFds : reg[q][o] # NoReg =>
    /\ reg[q][o].udata \in open
    /\ \A evs \in Events(reg[q][o].mask) : GetReq(reg[q][o].udata, evs) # NoReq

\* A request that waits for its descriptor is watched for (queue.h:22-24):
\* its queue's interest set leads back to the handle it is linked on, whatever
\* other requests of the handle were started, failed, cancelled or done since.
ArmedWatched ==
  \A r \in Reqs : st[r] = "armed" =>
    LET e == reg[QueueOf[r]][OsFd[fd[r]]] IN
    e # NoReg /\ e.udata = fd[r] /\ ToMask(kind[r]) \in e.mask
==============================================================================
