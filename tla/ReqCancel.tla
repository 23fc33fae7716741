------------------------------ MODULE ReqCancel ------------------------------
(***************************************************************************)
(* yo_req_cancel (src/src/queue.c) and the memory it works on.  A request  *)
(* is a union (src/src/queue.h): while it runs its first two words hold    *)
(* `cancel` and `cancelled`, once it is complete they hold `ready.code`    *)
(* and the link `ready.next`.  So the flag is the lowest byte of the link, *)
(* and the code is the lower half of the callback.                         *)
(*                                                                         *)
(* word0 and word1 are those two words.  The loop thread submits, cancels  *)
(* and polls; a request given to the pool is ended by a worker thread at   *)
(* any time.  What follows undefined behaviour is not explored.            *)
(***************************************************************************)

CONSTANTS
  Reqs,      \* requests of one queue
  LowZero,   \* the requests whose address has a zero lowest byte
  NULL, Wild

VARIABLES
  state,     \* "idle", "running", "ready", "returned"
  kind,      \* what the request was submitted as: "io" or "task"
  word0,     \* the callback ("io", "task"), "code", or "junk" from malloc
  word1,     \* [ptr, low]: the link, and whether its lowest byte was overwritten
  head,      \* queue->head
  cancels    \* the call of yo_req_cancel under way: <<>> or <<request, step>>

vars == <<state, kind, word0, word1, head, cancels>>

\* A pointer as it is stored: whole, or with a lowest byte of 0 or 1.
Whole(p) == [ptr |-> p, low |-> "own"]

\* What *link dereferences: the pointer if its lowest byte is the right one.
LowByteZero(p) == p = NULL \/ p \in LowZero
Intact(link) == link.low = "own" \/ (link.low = "zero" /\ LowByteZero(link.ptr))
Deref(link) == IF Intact(link) THEN link.ptr ELSE Wild
Cancelled(link) == link.low = "one" \/ (link.low = "own" /\ ~LowByteZero(link.ptr))

\* yo_req_new leaves the union as malloc returned it.
Init ==
  /\ state = [r \in Reqs |-> "idle"]
  /\ kind = [r \in Reqs |-> "io"]
  /\ word0 = [r \in Reqs |-> "junk"]
  /\ word1 = [r \in Reqs |-> Whole(NULL)]
  /\ head = NULL /\ cancels = <<>>

\* Calls that return normally leave the loop thread free and memory intact.
Defined == head # Wild /\ \A r \in Reqs : cancels # <<r, "wild">>
LoopFree == cancels = <<>>

\* yoi_req_begin, called by both kinds of submission.
yoi_req_begin(r, callback) ==
  /\ word0' = [word0 EXCEPT ![r] = callback]
  /\ word1' = [word1 EXCEPT ![r].low = "zero"]

Submit(r, k) ==
  /\ Defined /\ LoopFree /\ state[r] \in {"idle", "returned"}
  /\ yoi_req_begin(r, k)
  /\ kind' = [kind EXCEPT ![r] = k]
  /\ state' = [state EXCEPT ![r] = "running"]
  /\ UNCHANGED <<head, cancels>>

\* yoi_req_end: the code over the callback, the head over the flag.
yoi_req_end(r) ==
  /\ word0' = [word0 EXCEPT ![r] = "code"]
  /\ word1' = [word1 EXCEPT ![r] = Whole(head)]
  /\ head' = r
  /\ state' = [state EXCEPT ![r] = "ready"]

\* A worker's function has returned.
TaskEnds(r) ==
  /\ Defined /\ state[r] = "running" /\ kind[r] = "task"
  /\ yoi_req_end(r)
  /\ UNCHANGED <<kind, cancels>>

\* An I/O request ends on the list (the fd cannot be watched, or is closed)
\* or is done and returned by yo_queue_poll itself.
IoEnds(r) ==
  /\ Defined /\ LoopFree /\ state[r] = "running" /\ kind[r] = "io"
  /\ \/ yoi_req_end(r)
     \/ /\ state' = [state EXCEPT ![r] = "returned"]
        /\ UNCHANGED <<word0, word1, head>>
  /\ UNCHANGED <<kind, cancels>>

\* yo_queue_poll pops the list.
yoi_queue_pop ==
  /\ Defined /\ LoopFree /\ head # NULL
  /\ head' = Deref(word1[head])
  /\ state' = [state EXCEPT ![head] = "returned"]
  /\ UNCHANGED <<kind, word0, word1, cancels>>

------------------------------------------------------------------------------
(* yo_req_cancel.                                                           *)

\* It reads the flag of a request that is in flight.
CancelBegin(r) ==
  /\ Defined /\ LoopFree /\ state[r] \in {"running", "ready"}
  /\ ~Cancelled(word1[r])
  /\ cancels' = <<r, "call">>
  /\ UNCHANGED <<state, kind, word0, word1, head>>

\* The callback of an I/O request unlinks it from its fd and ends it.
CancelIo ==
  /\ ~LoopFree /\ cancels[2] = "call" /\ word0[cancels[1]] = "io"
  /\ yoi_req_end(cancels[1])
  /\ cancels' = <<cancels[1], "flag">>
  /\ UNCHANGED kind

\* The callback of a task signals a thread, which leaves the request alone.
CancelTask ==
  /\ ~LoopFree /\ cancels[2] = "call" /\ word0[cancels[1]] = "task"
  /\ cancels' = <<cancels[1], "flag">>
  /\ UNCHANGED <<state, kind, word0, word1, head>>

\* The request completed: half of the callback is its code.
CancelJunk ==
  /\ ~LoopFree /\ cancels[2] = "call" /\ word0[cancels[1]] = "code"
  /\ cancels' = <<cancels[1], "wild">>
  /\ UNCHANGED <<state, kind, word0, word1, head>>

\* The flag is set, whatever the word holds by now.
CancelFlag ==
  /\ ~LoopFree /\ cancels[2] = "flag"
  /\ word1' = [word1 EXCEPT ![cancels[1]].low = "one"]
  /\ cancels' = <<>>
  /\ UNCHANGED <<state, kind, word0, head>>

yo_req_cancel ==
  (\E r \in Reqs : CancelBegin(r)) \/ CancelIo \/ CancelTask \/ CancelJunk \/ CancelFlag

Next ==
  \/ \E r \in Reqs, k \in {"io", "task"} : Submit(r, k)
  \/ \E r \in Reqs : TaskEnds(r) \/ IoEnds(r)
  \/ yoi_queue_pop
  \/ yo_req_cancel

Spec == Init /\ [][Next]_vars

------------------------------------------------------------------------------
(* Properties.                                                              *)

\* The ready list is never corrupted: a pop leaves a request or NULL at its
\* head, although begin and cancel write into the word that holds the links
\* (src/src/queue.h:24-47) and a caller may cancel what it submitted
\* (inc/yaooi/queue.h:36-37).
ListSound == head # Wild
==============================================================================
