--------------------------- MODULE EventQueueProofs ---------------------------
(***************************************************************************)
(* Proofs about EventQueue for every set of requests, every code set and   *)
(* every pipe capacity: the type invariant, and the three safety           *)
(* properties that make completions reliable.  FreesOnlyOwn is the         *)
(* hypothesis on the caller of those that speak of memory.                 *)
(***************************************************************************)
EXTENDS EventQueue, ListFacts, TLAPS

(* Types, with the fact that yoi_req_end is only run on a request. *)
LEMMA TypeStep ==
  ASSUME TypeOK, CurInv, [Next]_vars
  PROVE  TypeOK' /\ CurInv'
<1> USE ConstAssumption, PipeAssumption DEF TypeOK, CurInv, Threads, Stages, EndStages
<1>1. ASSUME PollCall PROVE TypeOK' /\ CurInv'
  BY <1>1 DEF PollCall, GoTo
<1>2. ASSUME PopLock PROVE TypeOK' /\ CurInv'
  BY <1>2 DEF PopLock, GoTo
<1>3. ASSUME PopTake PROVE TypeOK' /\ CurInv'
  BY <1>3, PopFacts DEF PopTake, GoTo
<1>4. ASSUME PopEmpty PROVE TypeOK' /\ CurInv'
  BY <1>4 DEF PopEmpty, GoTo
<1>5. ASSUME PopReturn PROVE TypeOK' /\ CurInv'
  BY <1>5 DEF PopReturn, GoTo
<1>6. ASSUME WaitNotify PROVE TypeOK' /\ CurInv'
  BY <1>6 DEF WaitNotify, GoTo
<1>7. ASSUME DrainRead PROVE TypeOK' /\ CurInv'
  BY <1>7 DEF DrainRead, GoTo
<1>8. ASSUME DrainDone PROVE TypeOK' /\ CurInv'
  BY <1>8 DEF DrainDone, GoTo
<1>9. ASSUME NEW r \in Reqs, yo_req_new(r) PROVE TypeOK' /\ CurInv'
  BY <1>9 DEF yo_req_new, GoTo
<1>10. ASSUME NEW r \in Reqs, yo_req_free(r) PROVE TypeOK' /\ CurInv'
  BY <1>10 DEF yo_req_free, GoTo
<1>11. ASSUME NEW r \in Reqs, yo_req_exec(r) PROVE TypeOK' /\ CurInv'
  BY <1>11 DEF yo_req_exec, GoTo
<1>12. ASSUME NEW r \in Reqs, StartArmed(r) PROVE TypeOK' /\ CurInv'
  BY <1>12 DEF StartArmed, GoTo
<1>13. ASSUME NEW r \in Reqs, CloseFd(r) PROVE TypeOK' /\ CurInv'
  BY <1>13 DEF CloseFd, GoTo, LoopEnds
<1>14. ASSUME NEW r \in Reqs, FdReady(r) PROVE TypeOK' /\ CurInv'
  BY <1>14 DEF FdReady, GoTo
<1>15. ASSUME NEW r \in Reqs, NEW c \in Codes, StartSync(r, c) PROVE TypeOK' /\ CurInv'
  BY <1>15 DEF StartSync, GoTo, LoopEnds
<1>16. ASSUME NEW r \in Reqs, NEW c \in Codes, WaitIo(r, c) PROVE TypeOK' /\ CurInv'
  BY <1>16 DEF WaitIo, GoTo
<1>17. ASSUME NEW r \in Reqs, NEW c \in Codes, Work(r, c) PROVE TypeOK' /\ CurInv'
  BY <1>17 DEF Work, GoTo
<1>18. ASSUME NEW t \in Threads, EndLock(t) PROVE TypeOK' /\ CurInv'
  BY <1>18 DEF EndLock, GoTo
<1>19. ASSUME NEW t \in Threads, EndPush(t) PROVE TypeOK' /\ CurInv'
  BY <1>19, PushFacts DEF EndPush, GoTo, Target
<1>20. ASSUME NEW t \in Threads, EndNotify(t) PROVE TypeOK' /\ CurInv'
  BY <1>20 DEF EndNotify, GoTo
<1>21. ASSUME NEW t \in Threads, EndUnlock(t) PROVE TypeOK' /\ CurInv'
  BY <1>21 DEF EndUnlock, GoTo
<1>22. CASE UNCHANGED vars
  BY <1>22 DEF vars
<1> QED
  BY <1>1, <1>2, <1>3, <1>4, <1>5, <1>6, <1>7, <1>8, <1>9, <1>10, <1>11, <1>12, <1>13, <1>14, <1>15, <1>16, <1>17, <1>18, <1>19, <1>20, <1>21, <1>22
     DEF Next, UserStep, ExecNoMem, PollStep, EndStep, WorkStep


(* queue->lock is exclusive. *)
LEMMA Exclusive ==
  ASSUME LockInv
  PROVE  \A t, u \in Threads : InCS(t) /\ InCS(u) => t = u
<1> TAKE t, u \in Threads
<1>1. InCS(t) /\ InCS(u) => {t} = {u}
  BY DEF LockInv
<1> QED BY <1>1

(* Critical sections stay exclusive.  A request that is handed to a worker
   needs NoTouchAfterFree: no other worker is still completing it. *)
LEMMA LockStep ==
  ASSUME TypeOK, LockInv, NoTouchAfterFree, [Next]_vars
  PROVE  LockInv'
<1> USE ConstAssumption, PipeAssumption DEF TypeOK, LockInv, NoTouchAfterFree, InCS, Threads, Stages, EndStages
<1>1. ASSUME PollCall PROVE LockInv'
  BY <1>1 DEF PollCall, GoTo
<1>2. ASSUME PopLock PROVE LockInv'
  BY <1>2 DEF PopLock, GoTo
<1>3. ASSUME PopTake PROVE LockInv'
  BY <1>3, Exclusive DEF PopTake, GoTo
<1>4. ASSUME PopEmpty PROVE LockInv'
  BY <1>4, Exclusive DEF PopEmpty, GoTo
<1>5. ASSUME PopReturn PROVE LockInv'
  BY <1>5 DEF PopReturn, GoTo
<1>6. ASSUME WaitNotify PROVE LockInv'
  BY <1>6 DEF WaitNotify, GoTo
<1>7. ASSUME DrainRead PROVE LockInv'
  BY <1>7 DEF DrainRead, GoTo
<1>8. ASSUME DrainDone PROVE LockInv'
  BY <1>8 DEF DrainDone, GoTo
<1>9. ASSUME NEW r \in Reqs, yo_req_new(r) PROVE LockInv'
  BY <1>9 DEF yo_req_new, GoTo
<1>10. ASSUME NEW r \in Reqs, yo_req_free(r) PROVE LockInv'
  BY <1>10 DEF yo_req_free, GoTo
<1>11. ASSUME NEW r \in Reqs, yo_req_exec(r) PROVE LockInv'
  BY <1>11 DEF yo_req_exec, GoTo
<1>12. ASSUME NEW r \in Reqs, StartArmed(r) PROVE LockInv'
  BY <1>12 DEF StartArmed, GoTo
<1>13. ASSUME NEW r \in Reqs, CloseFd(r) PROVE LockInv'
  BY <1>13 DEF CloseFd, GoTo, LoopEnds
<1>14. ASSUME NEW r \in Reqs, FdReady(r) PROVE LockInv'
  BY <1>14 DEF FdReady, GoTo
<1>15. ASSUME NEW r \in Reqs, NEW c \in Codes, StartSync(r, c) PROVE LockInv'
  BY <1>15 DEF StartSync, GoTo, LoopEnds
<1>16. ASSUME NEW r \in Reqs, NEW c \in Codes, WaitIo(r, c) PROVE LockInv'
  BY <1>16 DEF WaitIo, GoTo
<1>17. ASSUME NEW r \in Reqs, NEW c \in Codes, Work(r, c) PROVE LockInv'
  BY <1>17 DEF Work, GoTo
<1>18. ASSUME NEW t \in Threads, EndLock(t) PROVE LockInv'
  BY <1>18 DEF EndLock, GoTo
<1>19. ASSUME NEW t \in Threads, EndPush(t) PROVE LockInv'
  BY <1>19 DEF EndPush, GoTo, Target
<1>20. ASSUME NEW t \in Threads, EndNotify(t) PROVE LockInv'
  BY <1>20 DEF EndNotify, GoTo
<1>21. ASSUME NEW t \in Threads, EndUnlock(t) PROVE LockInv'
  BY <1>21, Exclusive DEF EndUnlock, GoTo
<1>22. CASE UNCHANGED vars
  BY <1>22 DEF vars
<1> QED
  BY <1>1, <1>2, <1>3, <1>4, <1>5, <1>6, <1>7, <1>8, <1>9, <1>10, <1>11, <1>12, <1>13, <1>14, <1>15, <1>16, <1>17, <1>18, <1>19, <1>20, <1>21, <1>22
     DEF Next, UserStep, ExecNoMem, PollStep, EndStep, WorkStep

(* A sleeping poller is always about to be woken: the pipe is drained only
   between two looks at the list, and every push is followed by a byte. *)
LEMMA WakeStep ==
  ASSUME TypeOK, CurInv, NoLostWakeup, [Next]_vars
  PROVE  NoLostWakeup'
<1> USE ConstAssumption, PipeAssumption DEF TypeOK, CurInv, NoLostWakeup, Threads, Stages, EndStages
<1>1. ASSUME PollCall PROVE NoLostWakeup'
  BY <1>1 DEF PollCall, GoTo
<1>2. ASSUME PopLock PROVE NoLostWakeup'
  BY <1>2 DEF PopLock, GoTo
<1>3. ASSUME PopTake PROVE NoLostWakeup'
  BY <1>3, PopFacts DEF PopTake, GoTo
<1>4. ASSUME PopEmpty PROVE NoLostWakeup'
  BY <1>4 DEF PopEmpty, GoTo
<1>5. ASSUME PopReturn PROVE NoLostWakeup'
  BY <1>5 DEF PopReturn, GoTo
<1>6. ASSUME WaitNotify PROVE NoLostWakeup'
  BY <1>6 DEF WaitNotify, GoTo
<1>7. ASSUME DrainRead PROVE NoLostWakeup'
  BY <1>7 DEF DrainRead, GoTo
<1>8. ASSUME DrainDone PROVE NoLostWakeup'
  BY <1>8 DEF DrainDone, GoTo
<1>9. ASSUME NEW r \in Reqs, yo_req_new(r) PROVE NoLostWakeup'
  BY <1>9 DEF yo_req_new, GoTo
<1>10. ASSUME NEW r \in Reqs, yo_req_free(r) PROVE NoLostWakeup'
  BY <1>10 DEF yo_req_free, GoTo
<1>11. ASSUME NEW r \in Reqs, yo_req_exec(r) PROVE NoLostWakeup'
  BY <1>11 DEF yo_req_exec, GoTo
<1>12. ASSUME NEW r \in Reqs, StartArmed(r) PROVE NoLostWakeup'
  BY <1>12 DEF StartArmed, GoTo
<1>13. ASSUME NEW r \in Reqs, CloseFd(r) PROVE NoLostWakeup'
  BY <1>13 DEF CloseFd, GoTo, LoopEnds
<1>14. ASSUME NEW r \in Reqs, FdReady(r) PROVE NoLostWakeup'
  BY <1>14 DEF FdReady, GoTo
<1>15. ASSUME NEW r \in Reqs, NEW c \in Codes, StartSync(r, c) PROVE NoLostWakeup'
  BY <1>15 DEF StartSync, GoTo, LoopEnds
<1>16. ASSUME NEW r \in Reqs, NEW c \in Codes, WaitIo(r, c) PROVE NoLostWakeup'
  BY <1>16 DEF WaitIo, GoTo
<1>17. ASSUME NEW r \in Reqs, NEW c \in Codes, Work(r, c) PROVE NoLostWakeup'
  BY <1>17 DEF Work, GoTo
<1>18. ASSUME NEW t \in Threads, EndLock(t) PROVE NoLostWakeup'
  BY <1>18 DEF EndLock, GoTo
<1>19. ASSUME NEW t \in Threads, EndPush(t) PROVE NoLostWakeup'
  BY <1>19, PushFacts DEF EndPush, GoTo, Target
<1>20. ASSUME NEW t \in Threads, EndNotify(t) PROVE NoLostWakeup'
  BY <1>20 DEF EndNotify, GoTo
<1>21. ASSUME NEW t \in Threads, EndUnlock(t) PROVE NoLostWakeup'
  BY <1>21 DEF EndUnlock, GoTo
<1>22. CASE UNCHANGED vars
  BY <1>22 DEF vars
<1> QED
  BY <1>1, <1>2, <1>3, <1>4, <1>5, <1>6, <1>7, <1>8, <1>9, <1>10, <1>11, <1>12, <1>13, <1>14, <1>15, <1>16, <1>17, <1>18, <1>19, <1>20, <1>21, <1>22
     DEF Next, UserStep, ExecNoMem, PollStep, EndStep, WorkStep

(* Requests stay in one place.  Popping takes a request off the list under
   the lock, so the thread that linked it has left its critical section. *)
LEMMA PlaceStep ==
  ASSUME FreesOnlyOwn,
         TypeOK, TypeOK', CurInv, LockInv, PlaceInv, OnePlace, NoTouchAfterFree, [Next]_vars
  PROVE  PlaceInv' /\ OnePlace' /\ NoTouchAfterFree'
<1> USE ConstAssumption, PipeAssumption DEF TypeOK, CurInv, LockInv, InCS, PlaceInv, OnePlace, NoTouchAfterFree, Running, LoopEnding, Popped, Listed, Threads, Stages, EndStages
<1>1. ASSUME PollCall PROVE PlaceInv' /\ OnePlace' /\ NoTouchAfterFree'
  BY <1>1 DEF PollCall, GoTo
<1>2. ASSUME PopLock PROVE PlaceInv' /\ OnePlace' /\ NoTouchAfterFree'
  BY <1>2 DEF PopLock, GoTo
<1>3. ASSUME PopTake PROVE PlaceInv' /\ OnePlace' /\ NoTouchAfterFree'
  <2> DEFINE h == Head(head)
  <2>1. /\ h \in Reqs /\ h \in Range(head)
        /\ Range(head') = Range(head) \ {h} /\ IsInjective(head')
    BY <1>3, PopFacts DEF PopTake
  <2>2. /\ cur' = h /\ pc'[Loop] = "popped" /\ pc[Loop] = "popping"
        /\ \A r \in Reqs : pc'[r] = pc[r]
        /\ mem' = mem /\ io' = io
    BY <1>3 DEF PopTake, GoTo
  <2>3. \A r \in Reqs : pc[r] \notin {"end_push", "end_notify", "end_unlock"}
    BY <2>2, Exclusive
  <2> HIDE DEF h
  <2>4. PlaceInv' /\ NoTouchAfterFree'
    BY <2>1, <2>2, <2>3
  <2>5. OnePlace'
    BY <2>1, <2>2, <2>3
  <2> QED BY <2>4, <2>5
<1>4. ASSUME PopEmpty PROVE PlaceInv' /\ OnePlace' /\ NoTouchAfterFree'
  BY <1>4 DEF PopEmpty, GoTo
<1>5. ASSUME PopReturn PROVE PlaceInv' /\ OnePlace' /\ NoTouchAfterFree'
  BY <1>5 DEF PopReturn, GoTo
<1>6. ASSUME WaitNotify PROVE PlaceInv' /\ OnePlace' /\ NoTouchAfterFree'
  BY <1>6 DEF WaitNotify, GoTo
<1>7. ASSUME DrainRead PROVE PlaceInv' /\ OnePlace' /\ NoTouchAfterFree'
  BY <1>7 DEF DrainRead, GoTo
<1>8. ASSUME DrainDone PROVE PlaceInv' /\ OnePlace' /\ NoTouchAfterFree'
  BY <1>8 DEF DrainDone, GoTo
<1>9. ASSUME NEW r \in Reqs, yo_req_new(r) PROVE PlaceInv' /\ OnePlace' /\ NoTouchAfterFree'
  BY <1>9 DEF yo_req_new, GoTo
<1>10. ASSUME NEW r \in Reqs, yo_req_free(r) PROVE PlaceInv' /\ OnePlace' /\ NoTouchAfterFree'
  BY <1>10 DEF yo_req_free, GoTo, FreesOnlyOwn
<1>11. ASSUME NEW r \in Reqs, yo_req_exec(r) PROVE PlaceInv' /\ OnePlace' /\ NoTouchAfterFree'
  BY <1>11 DEF yo_req_exec, GoTo
<1>12. ASSUME NEW r \in Reqs, StartArmed(r) PROVE PlaceInv' /\ OnePlace' /\ NoTouchAfterFree'
  BY <1>12 DEF StartArmed, GoTo
<1>13. ASSUME NEW r \in Reqs, CloseFd(r) PROVE PlaceInv' /\ OnePlace' /\ NoTouchAfterFree'
  BY <1>13 DEF CloseFd, GoTo, LoopEnds
<1>14. ASSUME NEW r \in Reqs, FdReady(r) PROVE PlaceInv' /\ OnePlace' /\ NoTouchAfterFree'
  BY <1>14 DEF FdReady, GoTo
<1>15. ASSUME NEW r \in Reqs, NEW c \in Codes, StartSync(r, c) PROVE PlaceInv' /\ OnePlace' /\ NoTouchAfterFree'
  BY <1>15 DEF StartSync, GoTo, LoopEnds
<1>16. ASSUME NEW r \in Reqs, NEW c \in Codes, WaitIo(r, c) PROVE PlaceInv' /\ OnePlace' /\ NoTouchAfterFree'
  BY <1>16 DEF WaitIo, GoTo
<1>17. ASSUME NEW r \in Reqs, NEW c \in Codes, Work(r, c) PROVE PlaceInv' /\ OnePlace' /\ NoTouchAfterFree'
  BY <1>17 DEF Work, GoTo
<1>18. ASSUME NEW t \in Threads, EndLock(t) PROVE PlaceInv' /\ OnePlace' /\ NoTouchAfterFree'
  BY <1>18 DEF EndLock, GoTo
<1>19. ASSUME NEW t \in Threads, EndPush(t) PROVE PlaceInv' /\ OnePlace' /\ NoTouchAfterFree'
  BY <1>19, PushFacts DEF EndPush, GoTo, Target
<1>20. ASSUME NEW t \in Threads, EndNotify(t) PROVE PlaceInv' /\ OnePlace' /\ NoTouchAfterFree'
  BY <1>20 DEF EndNotify, GoTo
<1>21. ASSUME NEW t \in Threads, EndUnlock(t) PROVE PlaceInv' /\ OnePlace' /\ NoTouchAfterFree'
  BY <1>21 DEF EndUnlock, GoTo
<1>22. CASE UNCHANGED vars
  BY <1>22 DEF vars
<1> QED
  BY <1>1, <1>2, <1>3, <1>4, <1>5, <1>6, <1>7, <1>8, <1>9, <1>10, <1>11, <1>12, <1>13, <1>14, <1>15, <1>16, <1>17, <1>18, <1>19, <1>20, <1>21, <1>22
     DEF Next, UserStep, ExecNoMem, PollStep, EndStep, WorkStep

(* A code is written before its request is linked, and stays. *)
LEMMA CodeStep ==
  ASSUME TypeOK, CurInv, OnePlace, CodeInv, [Next]_vars
  PROVE  CodeInv'
<1> USE ConstAssumption, PipeAssumption DEF TypeOK, CurInv, OnePlace, CodeInv, Running, LoopEnding, Popped, Listed, Threads, Stages, EndStages
<1>1. ASSUME PollCall PROVE CodeInv'
  BY <1>1 DEF PollCall, GoTo
<1>2. ASSUME PopLock PROVE CodeInv'
  BY <1>2 DEF PopLock, GoTo
<1>3. ASSUME PopTake PROVE CodeInv'
  BY <1>3, PopFacts DEF PopTake, GoTo
<1>4. ASSUME PopEmpty PROVE CodeInv'
  BY <1>4 DEF PopEmpty, GoTo
<1>5. ASSUME PopReturn PROVE CodeInv'
  BY <1>5 DEF PopReturn, GoTo
<1>6. ASSUME WaitNotify PROVE CodeInv'
  BY <1>6 DEF WaitNotify, GoTo
<1>7. ASSUME DrainRead PROVE CodeInv'
  BY <1>7 DEF DrainRead, GoTo
<1>8. ASSUME DrainDone PROVE CodeInv'
  BY <1>8 DEF DrainDone, GoTo
<1>9. ASSUME NEW r \in Reqs, yo_req_new(r) PROVE CodeInv'
  BY <1>9 DEF yo_req_new, GoTo
<1>10. ASSUME NEW r \in Reqs, yo_req_free(r) PROVE CodeInv'
  BY <1>10 DEF yo_req_free, GoTo
<1>11. ASSUME NEW r \in Reqs, yo_req_exec(r) PROVE CodeInv'
  BY <1>11 DEF yo_req_exec, GoTo
<1>12. ASSUME NEW r \in Reqs, StartArmed(r) PROVE CodeInv'
  BY <1>12 DEF StartArmed, GoTo
<1>13. ASSUME NEW r \in Reqs, CloseFd(r) PROVE CodeInv'
  BY <1>13 DEF CloseFd, GoTo, LoopEnds
<1>14. ASSUME NEW r \in Reqs, FdReady(r) PROVE CodeInv'
  BY <1>14 DEF FdReady, GoTo
<1>15. ASSUME NEW r \in Reqs, NEW c \in Codes, StartSync(r, c) PROVE CodeInv'
  BY <1>15 DEF StartSync, GoTo, LoopEnds
<1>16. ASSUME NEW r \in Reqs, NEW c \in Codes, WaitIo(r, c) PROVE CodeInv'
  BY <1>16 DEF WaitIo, GoTo
<1>17. ASSUME NEW r \in Reqs, NEW c \in Codes, Work(r, c) PROVE CodeInv'
  BY <1>17 DEF Work, GoTo
<1>18. ASSUME NEW t \in Threads, EndLock(t) PROVE CodeInv'
  BY <1>18 DEF EndLock, GoTo
<1>19. ASSUME NEW t \in Threads, EndPush(t) PROVE CodeInv'
  BY <1>19, PushFacts DEF EndPush, GoTo, Target
<1>20. ASSUME NEW t \in Threads, EndNotify(t) PROVE CodeInv'
  BY <1>20 DEF EndNotify, GoTo
<1>21. ASSUME NEW t \in Threads, EndUnlock(t) PROVE CodeInv'
  BY <1>21 DEF EndUnlock, GoTo
<1>22. CASE UNCHANGED vars
  BY <1>22 DEF vars
<1> QED
  BY <1>1, <1>2, <1>3, <1>4, <1>5, <1>6, <1>7, <1>8, <1>9, <1>10, <1>11, <1>12, <1>13, <1>14, <1>15, <1>16, <1>17, <1>18, <1>19, <1>20, <1>21, <1>22
     DEF Next, UserStep, ExecNoMem, PollStep, EndStep, WorkStep

(* The initial state satisfies the inductive invariant. *)
LEMMA InitInd == Init => IndInv
<1> SUFFICES ASSUME Init PROVE IndInv
  OBVIOUS
<1> USE ConstAssumption, PipeAssumption DEF Init, Threads, Stages, EndStages
<1>1. Range(head) = {} /\ IsInjective(head)
  BY DEF Range, IsInjective
<1>2. TypeOK /\ CurInv /\ NoLostWakeup
  BY DEF TypeOK, CurInv, NoLostWakeup
<1>3. LockInv
  BY DEF LockInv, InCS
<1>4. PlaceInv /\ OnePlace /\ NoTouchAfterFree
  BY <1>1 DEF PlaceInv, OnePlace, NoTouchAfterFree, Running, LoopEnding,
              Popped, Listed
<1>5. CodeInv
  BY <1>1 DEF CodeInv, LoopEnding, Popped, Listed
<1> QED BY <1>2, <1>3, <1>4, <1>5 DEF IndInv

(* Every step preserves it, if no outstanding request is freed. *)
LEMMA NextInd == FreesOnlyOwn /\ IndInv /\ [Next]_vars => IndInv'
<1> SUFFICES ASSUME FreesOnlyOwn, IndInv, [Next]_vars PROVE IndInv'
  OBVIOUS
<1> USE DEF IndInv
<1>1. TypeOK' /\ CurInv'
  BY TypeStep
<1>2. LockInv'
  BY LockStep
<1>3. PlaceInv' /\ OnePlace' /\ NoTouchAfterFree'
  BY <1>1, PlaceStep
<1>4. NoLostWakeup'
  BY WakeStep
<1>5. CodeInv'
  BY CodeStep
<1> QED BY <1>1, <1>2, <1>3, <1>4, <1>5

(* IndInv is an invariant of a queue whose caller frees only what is its own. *)
THEOREM Inductive == FreesOnlyOwn => (Spec => []IndInv)
<1> SUFFICES ASSUME FreesOnlyOwn PROVE Spec => []IndInv
  OBVIOUS
<1>1. IndInv /\ [Next]_vars => IndInv'
  BY NextInd
<1> QED BY InitInd, <1>1, PTL DEF Spec

(* The type invariant: in particular the notify pipe stays within its
   capacity and the ready list holds requests only. *)
THEOREM TypeCorrect == Spec => []TypeOK
<1>1. Init => TypeOK /\ CurInv
  BY InitInd DEF IndInv
<1>2. TypeOK /\ CurInv /\ [Next]_vars => (TypeOK /\ CurInv)'
  BY TypeStep
<1> QED BY <1>1, <1>2, PTL DEF Spec

(* yo_queue_poll never sleeps on a completed request (pollish.c:145-165):
   the notify pipe loses no wakeup, whatever its capacity. *)
THEOREM WakeupsKept == Spec => []NoLostWakeup
<1>1. Init => TypeOK /\ CurInv /\ NoLostWakeup
  BY InitInd DEF IndInv
<1>2. TypeOK /\ CurInv /\ NoLostWakeup /\ [Next]_vars
      => (TypeOK /\ CurInv /\ NoLostWakeup)'
  BY TypeStep, WakeStep
<1> QED BY <1>1, <1>2, PTL DEF Spec

(* No request is lost or listed twice between submission and delivery
   (queue.c:25-54), if the caller frees none in between. *)
THEOREM RequestsConserved == FreesOnlyOwn => (Spec => []OnePlace)
<1>1. IndInv => OnePlace
  BY DEF IndInv
<1> QED BY <1>1, Inductive, PTL

(* A worker inside yoi_req_end never dereferences a request that poll has
   already returned to its caller (queue.c:26-32), if the caller frees no
   request before; the run free_outstanding shows that this is needed. *)
THEOREM NoUseAfterReturn == FreesOnlyOwn => (Spec => []NoTouchAfterFree)
<1>1. IndInv => NoTouchAfterFree
  BY DEF IndInv
<1> QED BY <1>1, Inductive, PTL

------------------------------------------------------------------------------
(* EventQueue implements Completions.                                       *)

(* A step that moves no request between idle, running and done, and leaves
   the codes of done requests alone, is a stutter of the abstract queue. *)
LEMMA AbsStutter ==
  ASSUME \A r \in Reqs : Status(r)' = Status(r),
         \A r \in Reqs : Status(r) = "done" => code'[r] = code[r],
         ret' = ret
  PROVE  UNCHANGED Abs!avars
BY DEF Abs!avars

(* Two functions that agree but for one argument. *)
LEMMA FunUpdate ==
  ASSUME NEW S, NEW f, NEW g, NEW r \in S, NEW v,
         DOMAIN f = S, DOMAIN g = S,
         f = [x \in S |-> f[x]], g = [x \in S |-> g[x]],
         g[r] = v, \A x \in S \ {r} : g[x] = f[x]
  PROVE  g = [f EXCEPT ![r] = v]
OBVIOUS

(* A step that changes the status of one request only changes the abstract
   state there. *)
LEMMA AbsUpdate ==
  ASSUME NEW r \in Reqs, NEW s, NEW c,
         Status(r)' = s,
         s = "done" => code'[r] = c,
         s # "done" => c = NoCode,
         \A x \in Reqs \ {r} : Status(x)' = Status(x),
         \A x \in Reqs \ {r} : Status(x) = "done" => code'[x] = code[x]
  PROVE  /\ [x \in Reqs |-> Status(x)]' =
              [[x \in Reqs |-> Status(x)] EXCEPT ![r] = s]
         /\ [x \in Reqs |-> IF Status(x) = "done" THEN code[x] ELSE NoCode]' =
              [[x \in Reqs |-> IF Status(x) = "done" THEN code[x] ELSE NoCode]
                 EXCEPT ![r] = c]
<1>1. [x \in Reqs |-> Status(x)]' =
              [[x \in Reqs |-> Status(x)] EXCEPT ![r] = s]
  OBVIOUS
<1>2. [x \in Reqs |-> IF Status(x) = "done" THEN code[x] ELSE NoCode]' =
              [[x \in Reqs |-> IF Status(x) = "done" THEN code[x] ELSE NoCode]
                 EXCEPT ![r] = c]
  <2> DEFINE f == [x \in Reqs |-> IF Status(x) = "done" THEN code[x] ELSE NoCode]
  <2>1. \A x \in Reqs \ {r} : f'[x] = f[x]
    OBVIOUS
  <2>2. f'[r] = c
    OBVIOUS
  <2> QED BY <2>1, <2>2, FunUpdate
<1> QED BY <1>1, <1>2

(* Every step of the queue is a step of the abstract queue or a stutter. *)
LEMMA AbsStep ==
  ASSUME FreesOnlyOwn, IndInv, [Next]_vars
  PROVE  [Abs!ANext]_(Abs!avars)
<1> USE ConstAssumption
     DEF IndInv, TypeOK, CurInv, OnePlace, CodeInv, Status, Running, LoopEnding,
         Popped, Listed, Threads, Stages, EndStages
<1>1. ASSUME PollCall PROVE UNCHANGED Abs!avars
  BY <1>1, AbsStutter DEF PollCall, GoTo
<1>2. ASSUME PopLock PROVE UNCHANGED Abs!avars
  BY <1>2, AbsStutter DEF PopLock, GoTo
<1>3. ASSUME PopEmpty PROVE UNCHANGED Abs!avars
  BY <1>3, AbsStutter DEF PopEmpty, GoTo
<1>4. ASSUME WaitNotify PROVE UNCHANGED Abs!avars
  BY <1>4, AbsStutter DEF WaitNotify, GoTo
<1>5. ASSUME DrainRead PROVE UNCHANGED Abs!avars
  BY <1>5, AbsStutter DEF DrainRead, GoTo
<1>6. ASSUME DrainDone PROVE UNCHANGED Abs!avars
  BY <1>6, AbsStutter DEF DrainDone, GoTo
<1>7. ASSUME NEW r \in Reqs, yo_req_new(r) PROVE UNCHANGED Abs!avars
  BY <1>7, AbsStutter DEF yo_req_new, GoTo
<1>8. ASSUME NEW r \in Reqs, yo_req_free(r) PROVE UNCHANGED Abs!avars
  BY <1>8, AbsStutter DEF yo_req_free, GoTo, FreesOnlyOwn
<1>9. ASSUME NEW r \in Reqs, CloseFd(r) PROVE UNCHANGED Abs!avars
  BY <1>9, AbsStutter DEF CloseFd, LoopEnds, GoTo
<1>10. ASSUME NEW r \in Reqs, FdReady(r) PROVE UNCHANGED Abs!avars
  BY <1>10, AbsStutter DEF FdReady, GoTo
<1>11. ASSUME NEW r \in Reqs, NEW c \in Codes, Work(r, c)
       PROVE UNCHANGED Abs!avars
  BY <1>11, AbsStutter DEF Work, GoTo
<1>12. ASSUME NEW t \in Threads, EndLock(t) PROVE UNCHANGED Abs!avars
  BY <1>12, AbsStutter DEF EndLock, GoTo
<1>13. ASSUME NEW t \in Threads, EndNotify(t) PROVE UNCHANGED Abs!avars
  BY <1>13, AbsStutter DEF EndNotify, GoTo
<1>14. ASSUME NEW t \in Threads, EndUnlock(t) PROVE UNCHANGED Abs!avars
  BY <1>14, AbsStutter DEF EndUnlock, GoTo
<1>15. ASSUME PopTake PROVE UNCHANGED Abs!avars
  <2>1. /\ Head(head) \in Reqs /\ Head(head) \in Range(head)
        /\ Range(head') = Range(head) \ {Head(head)}
    BY <1>15, PopFacts DEF PopTake
  <2>2. /\ cur' = Head(head) /\ pc[Loop] = "popping" /\ pc'[Loop] = "popped"
        /\ mem' = mem /\ code' = code /\ ret' = ret
    BY <1>15 DEF PopTake, GoTo
  <2> QED BY <2>1, <2>2, AbsStutter
<1>16. ASSUME NEW r \in Reqs, yo_req_exec(r) PROVE Abs!ASubmit(r)
  BY <1>16, AbsUpdate DEF yo_req_exec, GoTo, Abs!ASubmit
<1>17. ASSUME NEW r \in Reqs, StartArmed(r) PROVE Abs!ASubmit(r)
  BY <1>17, AbsUpdate DEF StartArmed, GoTo, Abs!ASubmit
<1>18. ASSUME NEW r \in Reqs, NEW c \in Codes, StartSync(r, c)
       PROVE Abs!ASubmit(r)
  BY <1>18, AbsUpdate DEF StartSync, LoopEnds, GoTo, Abs!ASubmit
<1>19. ASSUME NEW r \in Reqs, NEW c \in Codes, WaitIo(r, c)
       PROVE Abs!ADirect(r, c)
  BY <1>19, AbsUpdate DEF WaitIo, GoTo, Abs!ADirect
<1>20. ASSUME PopReturn PROVE \E r \in Reqs : Abs!ADeliver(r)
  <2>1. PICK r \in Reqs : r = cur
    BY <1>20 DEF PopReturn
  <2>2. /\ pc[Loop] = "popped" /\ pc'[Loop] = "user" /\ cur' = NoReq
        /\ mem'[r] = "ret" /\ \A x \in Reqs \ {r} : mem'[x] = mem[x]
        /\ head' = head /\ code' = code /\ ret' = <<r, code[r]>>
    BY <1>20, <2>1 DEF PopReturn, GoTo
  <2>3. Status(r) = "done" /\ Status(r)' = "idle"
    BY <2>1, <2>2
  <2>4. \A x \in Reqs \ {r} : Status(x)' = Status(x)
    BY <2>1, <2>2
  <2> HIDE DEF IndInv, Status
  <2>5. Abs!ADeliver(r)
    BY <2>2, <2>3, <2>4, AbsUpdate DEF Abs!ADeliver
  <2> QED BY <2>5
<1>21. ASSUME NEW t \in Threads, EndPush(t)
       PROVE \E r \in Reqs, c \in Codes : Abs!AComplete(r, c)
  <2>1. PICK r \in Reqs : r = Target(t)
    BY <1>21 DEF EndPush, Target
  <2>2. /\ r \notin Range(head) /\ mem[r] = "lib" /\ code[r] \in Codes
        /\ pc[Loop] # "popped" \/ cur # r
    BY <1>21, <2>1 DEF EndPush, Target
  <2>3. Range(head') = {r} \cup Range(head)
    BY <1>21, <2>1, PushFacts DEF EndPush
  <2>4. /\ mem' = mem /\ code' = code /\ cur' = cur /\ ret' = ret
        /\ pc'[Loop] = "popped" <=> pc[Loop] = "popped"
    BY <1>21 DEF EndPush, GoTo
  <2> HIDE DEF IndInv
  <2>5. Status(r) = "running" /\ Status(r)' = "done"
    BY <2>2, <2>3, <2>4
  <2>6. \A x \in Reqs \ {r} : Status(x)' = Status(x)
    BY <2>2, <2>3, <2>4
  <2> HIDE DEF Status
  <2>7. PICK c \in Codes : c = code[r]
    BY <2>2
  <2>8. Abs!AComplete(r, c)
    BY <2>2, <2>4, <2>5, <2>6, <2>7, AbsUpdate DEF Abs!AComplete
  <2> QED BY <2>8
<1>22. CASE UNCHANGED vars
  BY <1>22, AbsStutter DEF vars
<1> HIDE DEF IndInv, TypeOK, CurInv, OnePlace, CodeInv, Status, Running,
         LoopEnding, Popped, Listed
<1>23. ASSUME UNCHANGED Abs!avars PROVE [Abs!ANext]_(Abs!avars)
  BY <1>23
<1>24. ASSUME NEW r \in Reqs, Abs!ASubmit(r) PROVE [Abs!ANext]_(Abs!avars)
  BY <1>24 DEF Abs!ANext
<1>25. ASSUME NEW r \in Reqs, NEW c \in Codes, Abs!ADirect(r, c) PROVE [Abs!ANext]_(Abs!avars)
  BY <1>25 DEF Abs!ANext
<1>26. ASSUME NEW r \in Reqs, Abs!ADeliver(r) PROVE [Abs!ANext]_(Abs!avars)
  BY <1>26 DEF Abs!ANext
<1>27. ASSUME NEW r \in Reqs, NEW c \in Codes, Abs!AComplete(r, c)
       PROVE [Abs!ANext]_(Abs!avars)
  BY <1>27 DEF Abs!ANext
<1>28. ASSUME PopReturn PROVE [Abs!ANext]_(Abs!avars)
  BY <1>28, <1>20, <1>26
<1>29. ASSUME NEW t \in Threads, EndPush(t) PROVE [Abs!ANext]_(Abs!avars)
  BY <1>29, <1>21, <1>27
<1>30. CASE UserStep
  BY <1>30, <1>1, <1>7, <1>8, <1>9, <1>16, <1>17, <1>18, <1>22, <1>23, <1>24
     DEF UserStep, ExecNoMem
<1>31. CASE PollStep
  BY <1>31, <1>2, <1>15, <1>3, <1>4, <1>5, <1>6, <1>19, <1>23, <1>25, <1>28
     DEF PollStep
<1>32. CASE \E t \in Threads : EndStep(t)
  BY <1>32, <1>12, <1>13, <1>14, <1>23, <1>29 DEF EndStep
<1>33. CASE \E r \in Reqs : WorkStep(r) \/ FdReady(r)
  BY <1>33, <1>10, <1>11, <1>23 DEF WorkStep
<1> QED
  BY <1>22, <1>23, <1>30, <1>31, <1>32, <1>33 DEF Next

(* Every request handed to the queue comes back exactly once, with the code
   its operation ended with, whichever thread completed it
   (inc/yaooi/queue.h:22-34). *)
THEOREM Implements == FreesOnlyOwn => (Spec => ImplementsCompletions)
<1> SUFFICES ASSUME FreesOnlyOwn PROVE Spec => ImplementsCompletions
  OBVIOUS
<1>1. Init => Abs!AInit
  BY ConstAssumption DEF Init, Abs!AInit, Status, Listed, Popped, Threads,
     Range, NoRet, Abs!NoRet
<1>2. IndInv /\ [Next]_vars => [Abs!ANext]_(Abs!avars)
  BY AbsStep
<1>3. Spec => []IndInv
  BY Inductive
<1> QED BY <1>1, <1>2, <1>3, PTL
     DEF Spec, ImplementsCompletions, Abs!ASpec
==============================================================================
