------------------------------ MODULE PoolProofs ------------------------------
(***************************************************************************)
(* Proofs about Pool for every set of requests and of workers.             *)
(*                                                                         *)
(* None of the pool's safety properties is inductive alone.  That a        *)
(* request has one worker needs the slot's contents while the callback     *)
(* runs (SlotInv), that yo_req_exec's request is still the caller's        *)
(* (LoopInv), and that a listed worker is allocated and not being stopped  *)
(* (ListedAlive, StopInv); that an idle queue is freed without undefined   *)
(* behaviour needs all of it.                                              *)
(***************************************************************************)
EXTENDS Pool, ListFacts, TLAPS

\* What yo_req_exec and yo_queue_free hold on to between their steps.
LoopInv ==
  /\ lpc = "exec" => st[ereq] = "user"
  /\ qheld <=> lpc \in {"free", "join", "freed", "undefined", "killed"}
  /\ lpc = "join" => joining \in Workers

\* A worker's slot by where its thread is: full from the assignment until
\* the worker empties it, and the thread's copy agrees with it.
SlotInv ==
  \A w \in Workers :
    /\ wpc[w] \in {"start", "dead"} => slot[w] # NoReq
    /\ wpc[w] \in {"run", "end", "clear"} => slot[w] # NoReq /\ wreq[w] = slot[w]
    /\ wpc[w] \in {"check", "run", "end", "clear", "wait"} => handler

\* Only yo_queue_free stops workers, and it unlinks them first.
StopInv ==
  /\ \A w \in Workers : kys[w] => qheld
  /\ \A w \in Range(worker_head) : ~kys[w]

PoolInv ==
  /\ TypeOK /\ LoopInv /\ SlotInv /\ StopInv
  /\ ListedAlive /\ NoSleepOnTask /\ TaskHeldOnce /\ IdleFreeDefined

(* ListedAlive in terms of the list's elements. *)
LEMMA ListedFacts ==
  ASSUME NEW q \in Seq(Workers), NEW f
  PROVE  (/\ \A i \in DOMAIN q : f[q[i]] \notin {"none", "exited"}
          /\ \A i, j \in DOMAIN q : q[i] = q[j] => i = j)
         <=> /\ \A w \in Range(q) : f[w] \notin {"none", "exited"}
             /\ IsInjective(q)
BY DEF Range, IsInjective

(* The worker yo_req_exec looks at is one of the list. *)
LEMMA ItListed ==
  ASSUME TypeOK, pos <= Len(worker_head)
  PROVE  It \in Workers /\ It \in Range(worker_head)
<1>1. pos \in 1 .. Len(worker_head) /\ DOMAIN worker_head = 1 .. Len(worker_head)
  BY DEF TypeOK
<1> QED BY <1>1 DEF TypeOK, It, Range

(* Types. *)
LEMMA TypeStep ==
  ASSUME TypeOK, LoopInv, [Next]_vars
  PROVE  TypeOK'
<1> USE ConstAssumption DEF TypeOK, LoopInv
<1>1. ASSUME NEW r \in Reqs, yo_req_exec(r) PROVE TypeOK'
  BY <1>1 DEF yo_req_exec
<1>2. ASSUME NEW r \in Reqs, Poll(r) PROVE TypeOK'
  BY <1>2 DEF Poll
<1>3. ASSUME ExecAssign PROVE TypeOK'
  BY <1>3, ItListed DEF ExecAssign, Signalled
<1>4. ASSUME ExecSkip PROVE TypeOK'
  BY <1>4 DEF ExecSkip
<1>5. ASSUME ExecNoMem PROVE TypeOK'
  BY <1>5 DEF ExecNoMem
<1>6. ASSUME NEW w \in Workers, ExecSpawn(w) PROVE TypeOK'
  BY <1>6, PushFacts DEF ExecSpawn
<1>7. ASSUME FreeLock PROVE TypeOK'
  BY <1>7 DEF FreeLock
<1>8. ASSUME FreeStop PROVE TypeOK'
  BY <1>8, PopFacts DEF FreeStop, Signalled, AfterStop
<1>9. ASSUME FreeJoin PROVE TypeOK'
  BY <1>9 DEF FreeJoin
<1>10. ASSUME FreeDone PROVE TypeOK'
  BY <1>10 DEF FreeDone
<1>11. ASSUME NEW w \in Workers, WorkerStart(w) PROVE TypeOK'
  BY <1>11 DEF WorkerStart, loopvars
<1>12. ASSUME NEW w \in Workers, WorkerTake(w) PROVE TypeOK'
  BY <1>12 DEF WorkerTake, loopvars
<1>13. ASSUME NEW w \in Workers, WorkerSleep(w) PROVE TypeOK'
  BY <1>13 DEF WorkerSleep, loopvars
<1>14. ASSUME NEW w \in Workers, WorkerExit(w) PROVE TypeOK'
  BY <1>14 DEF WorkerExit, loopvars
<1>15. ASSUME NEW w \in Workers, WorkerDone(w) PROVE TypeOK'
  BY <1>15 DEF WorkerDone, loopvars
<1>16. ASSUME NEW w \in Workers, WorkerEnd(w) PROVE TypeOK'
  BY <1>16 DEF WorkerEnd, loopvars
<1>17. ASSUME NEW w \in Workers, WorkerClear(w) PROVE TypeOK'
  BY <1>17 DEF WorkerClear, loopvars
<1>18. ASSUME NEW w \in Workers, Spurious(w) PROVE TypeOK'
  BY <1>18 DEF Spurious, loopvars
<1>19. CASE UNCHANGED vars
  BY <1>19 DEF vars
<1> QED
  BY <1>1, <1>2, <1>3, <1>4, <1>5, <1>6, <1>7, <1>8, <1>9, <1>10, <1>11, <1>12, <1>13, <1>14, <1>15, <1>16, <1>17, <1>18, <1>19
     DEF Next, ExecStep, FreeStep, WorkerStep

(* The loop thread keeps what it holds. *)
LEMMA LoopStep ==
  ASSUME TypeOK, LoopInv, SlotInv, TaskHeldOnce, [Next]_vars
  PROVE  LoopInv'
<1> USE ConstAssumption DEF TypeOK, LoopInv
<1>1. ASSUME NEW r \in Reqs, yo_req_exec(r) PROVE LoopInv'
  BY <1>1 DEF yo_req_exec
<1>2. ASSUME NEW r \in Reqs, Poll(r) PROVE LoopInv'
  BY <1>2 DEF Poll
<1>3. ASSUME ExecAssign PROVE LoopInv'
  BY <1>3 DEF ExecAssign
<1>4. ASSUME ExecSkip PROVE LoopInv'
  BY <1>4 DEF ExecSkip
<1>5. ASSUME ExecNoMem PROVE LoopInv'
  BY <1>5 DEF ExecNoMem
<1>6. ASSUME NEW w \in Workers, ExecSpawn(w) PROVE LoopInv'
  BY <1>6 DEF ExecSpawn
<1>7. ASSUME FreeLock PROVE LoopInv'
  BY <1>7 DEF FreeLock
<1>8. ASSUME FreeStop PROVE LoopInv'
  BY <1>8, PopFacts DEF FreeStop, Signalled, AfterStop
<1>9. ASSUME FreeJoin PROVE LoopInv'
  BY <1>9 DEF FreeJoin
<1>10. ASSUME FreeDone PROVE LoopInv'
  BY <1>10 DEF FreeDone
<1>11. ASSUME NEW w \in Workers, WorkerStart(w) PROVE LoopInv'
  BY <1>11 DEF WorkerStart, loopvars
<1>12. ASSUME NEW w \in Workers, WorkerTake(w) PROVE LoopInv'
  BY <1>12 DEF WorkerTake, loopvars
<1>13. ASSUME NEW w \in Workers, WorkerSleep(w) PROVE LoopInv'
  BY <1>13 DEF WorkerSleep, loopvars
<1>14. ASSUME NEW w \in Workers, WorkerExit(w) PROVE LoopInv'
  BY <1>14 DEF WorkerExit, loopvars
<1>15. ASSUME NEW w \in Workers, WorkerDone(w) PROVE LoopInv'
  BY <1>15 DEF WorkerDone, loopvars
<1>16. ASSUME NEW w \in Workers, WorkerEnd(w) PROVE LoopInv'
  BY <1>16 DEF WorkerEnd, loopvars, SlotInv, TaskHeldOnce, Holds
<1>17. ASSUME NEW w \in Workers, WorkerClear(w) PROVE LoopInv'
  BY <1>17 DEF WorkerClear, loopvars
<1>18. ASSUME NEW w \in Workers, Spurious(w) PROVE LoopInv'
  BY <1>18 DEF Spurious, loopvars
<1>19. CASE UNCHANGED vars
  BY <1>19 DEF vars
<1> QED
  BY <1>1, <1>2, <1>3, <1>4, <1>5, <1>6, <1>7, <1>8, <1>9, <1>10, <1>11, <1>12, <1>13, <1>14, <1>15, <1>16, <1>17, <1>18, <1>19
     DEF Next, ExecStep, FreeStep, WorkerStep

(* Slots and threads agree. *)
LEMMA SlotStep ==
  ASSUME TypeOK, LoopInv, SlotInv, ListedAlive, NoSleepOnTask, [Next]_vars
  PROVE  SlotInv' /\ NoSleepOnTask'
<1> USE ConstAssumption DEF TypeOK, LoopInv, SlotInv, NoSleepOnTask
<1>1. ASSUME NEW r \in Reqs, yo_req_exec(r) PROVE SlotInv' /\ NoSleepOnTask'
  BY <1>1 DEF yo_req_exec
<1>2. ASSUME NEW r \in Reqs, Poll(r) PROVE SlotInv' /\ NoSleepOnTask'
  BY <1>2 DEF Poll
<1>3. ASSUME ExecAssign PROVE SlotInv' /\ NoSleepOnTask'
  BY <1>3, ItListed, ListedFacts DEF ExecAssign, Signalled, ListedAlive
<1>4. ASSUME ExecSkip PROVE SlotInv' /\ NoSleepOnTask'
  BY <1>4 DEF ExecSkip
<1>5. ASSUME ExecNoMem PROVE SlotInv' /\ NoSleepOnTask'
  BY <1>5 DEF ExecNoMem
<1>6. ASSUME NEW w \in Workers, ExecSpawn(w) PROVE SlotInv' /\ NoSleepOnTask'
  BY <1>6 DEF ExecSpawn
<1>7. ASSUME FreeLock PROVE SlotInv' /\ NoSleepOnTask'
  BY <1>7 DEF FreeLock
<1>8. ASSUME FreeStop PROVE SlotInv' /\ NoSleepOnTask'
  BY <1>8, PopFacts DEF FreeStop, Signalled
<1>9. ASSUME FreeJoin PROVE SlotInv' /\ NoSleepOnTask'
  BY <1>9 DEF FreeJoin
<1>10. ASSUME FreeDone PROVE SlotInv' /\ NoSleepOnTask'
  BY <1>10 DEF FreeDone
<1>11. ASSUME NEW w \in Workers, WorkerStart(w) PROVE SlotInv' /\ NoSleepOnTask'
  BY <1>11 DEF WorkerStart, loopvars
<1>12. ASSUME NEW w \in Workers, WorkerTake(w) PROVE SlotInv' /\ NoSleepOnTask'
  BY <1>12 DEF WorkerTake, loopvars
<1>13. ASSUME NEW w \in Workers, WorkerSleep(w) PROVE SlotInv' /\ NoSleepOnTask'
  BY <1>13 DEF WorkerSleep, loopvars
<1>14. ASSUME NEW w \in Workers, WorkerExit(w) PROVE SlotInv' /\ NoSleepOnTask'
  BY <1>14 DEF WorkerExit, loopvars
<1>15. ASSUME NEW w \in Workers, WorkerDone(w) PROVE SlotInv' /\ NoSleepOnTask'
  BY <1>15 DEF WorkerDone, loopvars
<1>16. ASSUME NEW w \in Workers, WorkerEnd(w) PROVE SlotInv' /\ NoSleepOnTask'
  BY <1>16 DEF WorkerEnd, loopvars
<1>17. ASSUME NEW w \in Workers, WorkerClear(w) PROVE SlotInv' /\ NoSleepOnTask'
  BY <1>17 DEF WorkerClear, loopvars
<1>18. ASSUME NEW w \in Workers, Spurious(w) PROVE SlotInv' /\ NoSleepOnTask'
  BY <1>18 DEF Spurious, loopvars
<1>19. CASE UNCHANGED vars
  BY <1>19 DEF vars
<1> QED
  BY <1>1, <1>2, <1>3, <1>4, <1>5, <1>6, <1>7, <1>8, <1>9, <1>10, <1>11, <1>12, <1>13, <1>14, <1>15, <1>16, <1>17, <1>18, <1>19
     DEF Next, ExecStep, FreeStep, WorkerStep

(* Listed workers are allocated, listed once and not being stopped. *)
LEMMA ListStep ==
  ASSUME TypeOK, LoopInv, SlotInv, StopInv, ListedAlive, [Next]_vars
  PROVE  ListedAlive' /\ StopInv'
<1> USE ConstAssumption DEF TypeOK, LoopInv, StopInv, ListedAlive
<1>1. ASSUME NEW r \in Reqs, yo_req_exec(r) PROVE ListedAlive' /\ StopInv'
  BY <1>1 DEF yo_req_exec
<1>2. ASSUME NEW r \in Reqs, Poll(r) PROVE ListedAlive' /\ StopInv'
  BY <1>2 DEF Poll
<1>3. ASSUME ExecAssign PROVE ListedAlive' /\ StopInv'
  BY <1>3, ItListed, ListedFacts DEF ExecAssign, Signalled
<1>4. ASSUME ExecSkip PROVE ListedAlive' /\ StopInv'
  BY <1>4 DEF ExecSkip
<1>5. ASSUME ExecNoMem PROVE ListedAlive' /\ StopInv'
  BY <1>5 DEF ExecNoMem
<1>6. ASSUME NEW w \in Workers, ExecSpawn(w) PROVE ListedAlive' /\ StopInv'
  BY <1>6, PushFacts, ListedFacts DEF ExecSpawn
<1>7. ASSUME FreeLock PROVE ListedAlive' /\ StopInv'
  BY <1>7 DEF FreeLock
<1>8. ASSUME FreeStop PROVE ListedAlive' /\ StopInv'
  BY <1>8, PopFacts, ListedFacts, SMTT(40) DEF FreeStop, Signalled
<1>9. ASSUME FreeJoin PROVE ListedAlive' /\ StopInv'
  BY <1>9 DEF FreeJoin
<1>10. ASSUME FreeDone PROVE ListedAlive' /\ StopInv'
  BY <1>10 DEF FreeDone
<1>11. ASSUME NEW w \in Workers, WorkerStart(w) PROVE ListedAlive' /\ StopInv'
  BY <1>11 DEF WorkerStart, loopvars
<1>12. ASSUME NEW w \in Workers, WorkerTake(w) PROVE ListedAlive' /\ StopInv'
  BY <1>12 DEF WorkerTake, loopvars
<1>13. ASSUME NEW w \in Workers, WorkerSleep(w) PROVE ListedAlive' /\ StopInv'
  BY <1>13 DEF WorkerSleep, loopvars
<1>14. ASSUME NEW w \in Workers, WorkerExit(w) PROVE ListedAlive' /\ StopInv'
  <2>1. wpc'[w] = "exited" => \A i \in DOMAIN worker_head : worker_head[i] # w
    BY <1>14 DEF WorkerExit, Range
  <2>2. /\ \A v \in Workers \ {w} : wpc'[v] = wpc[v]
        /\ wpc'[w] \in {"wait", "exited"}
        /\ worker_head' = worker_head /\ kys' = kys /\ qheld' = qheld
    BY <1>14 DEF WorkerExit, loopvars
  <2> QED BY <2>1, <2>2
<1>15. ASSUME NEW w \in Workers, WorkerDone(w) PROVE ListedAlive' /\ StopInv'
  BY <1>15 DEF WorkerDone, loopvars
<1>16. ASSUME NEW w \in Workers, WorkerEnd(w) PROVE ListedAlive' /\ StopInv'
  BY <1>16 DEF WorkerEnd, loopvars
<1>17. ASSUME NEW w \in Workers, WorkerClear(w) PROVE ListedAlive' /\ StopInv'
  <2>1. wpc'[w] = "exited" => \A i \in DOMAIN worker_head : worker_head[i] # w
    BY <1>17 DEF WorkerClear, Range
  <2>2. /\ \A v \in Workers \ {w} : wpc'[v] = wpc[v]
        /\ wpc'[w] \in {"wait", "exited"}
        /\ worker_head' = worker_head /\ kys' = kys /\ qheld' = qheld
    BY <1>17 DEF WorkerClear, loopvars
  <2> QED BY <2>1, <2>2
<1>18. ASSUME NEW w \in Workers, Spurious(w) PROVE ListedAlive' /\ StopInv'
  BY <1>18 DEF Spurious, loopvars
<1>19. CASE UNCHANGED vars
  BY <1>19 DEF vars
<1> QED
  BY <1>1, <1>2, <1>3, <1>4, <1>5, <1>6, <1>7, <1>8, <1>9, <1>10, <1>11, <1>12, <1>13, <1>14, <1>15, <1>16, <1>17, <1>18, <1>19
     DEF Next, ExecStep, FreeStep, WorkerStep

(* A request has one worker. *)
LEMMA TaskStep ==
  ASSUME TypeOK, LoopInv, SlotInv, StopInv, ListedAlive, NoSleepOnTask, TaskHeldOnce, [Next]_vars
  PROVE  TaskHeldOnce'
<1> USE ConstAssumption DEF TypeOK, LoopInv, SlotInv, StopInv, TaskHeldOnce, Holds
<1>1. ASSUME NEW r \in Reqs, yo_req_exec(r) PROVE TaskHeldOnce'
  BY <1>1 DEF yo_req_exec
<1>2. ASSUME NEW r \in Reqs, Poll(r) PROVE TaskHeldOnce'
  BY <1>2 DEF Poll
<1>3. ASSUME ExecAssign PROVE TaskHeldOnce'
  BY <1>3, ItListed, ListedFacts DEF ExecAssign, Signalled, ListedAlive
<1>4. ASSUME ExecSkip PROVE TaskHeldOnce'
  BY <1>4 DEF ExecSkip
<1>5. ASSUME ExecNoMem PROVE TaskHeldOnce'
  BY <1>5 DEF ExecNoMem
<1>6. ASSUME NEW w \in Workers, ExecSpawn(w) PROVE TaskHeldOnce'
  BY <1>6 DEF ExecSpawn
<1>7. ASSUME FreeLock PROVE TaskHeldOnce'
  BY <1>7 DEF FreeLock
<1>8. ASSUME FreeStop PROVE TaskHeldOnce'
  BY <1>8, PopFacts, ListedFacts DEF FreeStop, Signalled, ListedAlive
<1>9. ASSUME FreeJoin PROVE TaskHeldOnce'
  BY <1>9 DEF FreeJoin
<1>10. ASSUME FreeDone PROVE TaskHeldOnce'
  BY <1>10 DEF FreeDone
<1>11. ASSUME NEW w \in Workers, WorkerStart(w) PROVE TaskHeldOnce'
  BY <1>11 DEF WorkerStart, loopvars
<1>12. ASSUME NEW w \in Workers, WorkerTake(w) PROVE TaskHeldOnce'
  BY <1>12 DEF WorkerTake, loopvars
<1>13. ASSUME NEW w \in Workers, WorkerSleep(w) PROVE TaskHeldOnce'
  BY <1>13 DEF WorkerSleep, loopvars
<1>14. ASSUME NEW w \in Workers, WorkerExit(w) PROVE TaskHeldOnce'
  BY <1>14 DEF WorkerExit, loopvars
<1>15. ASSUME NEW w \in Workers, WorkerDone(w) PROVE TaskHeldOnce'
  BY <1>15 DEF WorkerDone, loopvars
<1>16. ASSUME NEW w \in Workers, WorkerEnd(w) PROVE TaskHeldOnce'
  BY <1>16 DEF WorkerEnd, loopvars
<1>17. ASSUME NEW w \in Workers, WorkerClear(w) PROVE TaskHeldOnce'
  BY <1>17 DEF WorkerClear, loopvars
<1>18. ASSUME NEW w \in Workers, Spurious(w) PROVE TaskHeldOnce'
  BY <1>18 DEF Spurious, loopvars
<1>19. CASE UNCHANGED vars
  BY <1>19 DEF vars
<1> QED
  BY <1>1, <1>2, <1>3, <1>4, <1>5, <1>6, <1>7, <1>8, <1>9, <1>10, <1>11, <1>12, <1>13, <1>14, <1>15, <1>16, <1>17, <1>18, <1>19
     DEF Next, ExecStep, FreeStep, WorkerStep

(* Freeing an idle queue stays defined.  The worker being stopped is listed:
   if it has no thread its request is in its slot, and if no handler is
   installed its thread has not started, so its request is in its slot too. *)
LEMMA DefinedStep ==
  ASSUME TypeOK, LoopInv, SlotInv, ListedAlive, TaskHeldOnce, IdleFreeDefined, [Next]_vars
  PROVE  IdleFreeDefined'
<1> USE ConstAssumption DEF TypeOK, LoopInv, IdleFreeDefined, Outstanding
<1>1. ASSUME NEW r \in Reqs, yo_req_exec(r) PROVE IdleFreeDefined'
  BY <1>1 DEF yo_req_exec
<1>2. ASSUME NEW r \in Reqs, Poll(r) PROVE IdleFreeDefined'
  BY <1>2 DEF Poll
<1>3. ASSUME ExecAssign PROVE IdleFreeDefined'
  BY <1>3 DEF ExecAssign
<1>4. ASSUME ExecSkip PROVE IdleFreeDefined'
  BY <1>4 DEF ExecSkip
<1>5. ASSUME ExecNoMem PROVE IdleFreeDefined'
  BY <1>5 DEF ExecNoMem
<1>6. ASSUME NEW w \in Workers, ExecSpawn(w) PROVE IdleFreeDefined'
  BY <1>6 DEF ExecSpawn
<1>7. ASSUME FreeLock PROVE IdleFreeDefined'
  BY <1>7 DEF FreeLock
<1>8. ASSUME FreeStop PROVE IdleFreeDefined'
  <2> DEFINE w == Head(worker_head)
  <2>1. w \in Workers /\ wpc[w] \notin {"none", "exited"}
    BY <1>8, PopFacts, ListedFacts DEF FreeStop, ListedAlive
  <2>2. st' = st /\ lpc' = AfterStop(w)
    BY <1>8 DEF FreeStop
  <2> HIDE DEF w
  <2>3. CASE wpc[w] \in {"start", "dead"}
    <3>1. slot[w] \in Reqs /\ Holds(w, slot[w])
      BY <2>1, <2>3 DEF SlotInv, Holds
    <3>2. st[slot[w]] = "lib"
      BY <2>1, <3>1 DEF TaskHeldOnce
    <3> QED BY <2>2, <3>1, <3>2
  <2>4. CASE wpc[w] \notin {"start", "dead"}
    BY <2>1, <2>2, <2>4 DEF SlotInv, AfterStop
  <2> QED BY <2>3, <2>4
<1>9. ASSUME FreeJoin PROVE IdleFreeDefined'
  BY <1>9 DEF FreeJoin
<1>10. ASSUME FreeDone PROVE IdleFreeDefined'
  BY <1>10 DEF FreeDone
<1>11. ASSUME NEW w \in Workers, WorkerStart(w) PROVE IdleFreeDefined'
  BY <1>11 DEF WorkerStart, loopvars
<1>12. ASSUME NEW w \in Workers, WorkerTake(w) PROVE IdleFreeDefined'
  BY <1>12 DEF WorkerTake, loopvars
<1>13. ASSUME NEW w \in Workers, WorkerSleep(w) PROVE IdleFreeDefined'
  BY <1>13 DEF WorkerSleep, loopvars
<1>14. ASSUME NEW w \in Workers, WorkerExit(w) PROVE IdleFreeDefined'
  BY <1>14 DEF WorkerExit, loopvars
<1>15. ASSUME NEW w \in Workers, WorkerDone(w) PROVE IdleFreeDefined'
  BY <1>15 DEF WorkerDone, loopvars
<1>16. ASSUME NEW w \in Workers, WorkerEnd(w) PROVE IdleFreeDefined'
  BY <1>16 DEF WorkerEnd, loopvars
<1>17. ASSUME NEW w \in Workers, WorkerClear(w) PROVE IdleFreeDefined'
  BY <1>17 DEF WorkerClear, loopvars
<1>18. ASSUME NEW w \in Workers, Spurious(w) PROVE IdleFreeDefined'
  BY <1>18 DEF Spurious, loopvars
<1>19. CASE UNCHANGED vars
  BY <1>19 DEF vars
<1> QED
  BY <1>1, <1>2, <1>3, <1>4, <1>5, <1>6, <1>7, <1>8, <1>9, <1>10, <1>11, <1>12, <1>13, <1>14, <1>15, <1>16, <1>17, <1>18, <1>19
     DEF Next, ExecStep, FreeStep, WorkerStep

(* The initial state satisfies the inductive invariant. *)
LEMMA InitInd == Init => PoolInv
<1> SUFFICES ASSUME Init PROVE PoolInv
  OBVIOUS
<1>1. Range(worker_head) = {}
  BY DEF Init, Range
<1>2. TypeOK
  <2>1. kys \in [Workers -> BOOLEAN] /\ worker_head \in Seq(Workers)
    BY DEF Init
  <2>2. (ereq # NoReq <=> lpc = "exec") /\ qheld \in BOOLEAN /\ handler \in BOOLEAN
    BY DEF Init
  <2> QED BY <2>1, <2>2, ConstAssumption DEF Init, TypeOK
<1>3. ListedAlive
  <2>1. DOMAIN worker_head = {}
    BY DEF Init
  <2> QED BY <2>1 DEF ListedAlive
<1> QED BY <1>1, <1>2, <1>3, ConstAssumption
     DEF Init, PoolInv, LoopInv, SlotInv, StopInv, NoSleepOnTask, TaskHeldOnce, Holds,
         IdleFreeDefined

(* Every step preserves it. *)
LEMMA NextInd == PoolInv /\ [Next]_vars => PoolInv'
<1> SUFFICES ASSUME PoolInv, [Next]_vars PROVE PoolInv'
  OBVIOUS
<1> USE DEF PoolInv
<1>1. TypeOK' BY TypeStep
<1>2. LoopInv' BY LoopStep
<1>3. SlotInv' /\ NoSleepOnTask' BY SlotStep
<1>4. ListedAlive' /\ StopInv' BY ListStep
<1>5. TaskHeldOnce' BY TaskStep
<1>6. IdleFreeDefined' BY DefinedStep
<1> QED BY <1>1, <1>2, <1>3, <1>4, <1>5, <1>6

(* PoolInv is an invariant of the pool. *)
THEOREM PoolInductive == Spec => []PoolInv
  BY InitInd, NextInd, PTL DEF Spec

(* Types: in particular the list holds workers only, and yo_req_exec has a
   request exactly while it walks the list. *)
THEOREM PoolTypeCorrect == Spec => []TypeOK
<1>1. PoolInv => TypeOK
  BY DEF PoolInv
<1> QED BY <1>1, PoolInductive, PTL

(* A request given to the pool is with exactly one worker until it is
   completed, whatever the workers do while yo_req_exec walks the list
   (pool.c:36-41, 53-66). *)
THEOREM TasksHeldOnce == Spec => []TaskHeldOnce
<1>1. PoolInv => TaskHeldOnce
  BY DEF PoolInv
<1> QED BY <1>1, PoolInductive, PTL

(* The single pthread_cond_signal of yo_req_exec and of yoi_pool_free is
   never lost (pool.c:31-44, 62, 106). *)
THEOREM SignalsNotLost == Spec => []NoSleepOnTask
<1>1. PoolInv => NoSleepOnTask
  BY DEF PoolInv
<1> QED BY <1>1, PoolInductive, PTL

(* The pool's list never holds a freed worker, nor one twice, although
   yoi_pool_free unlinks and frees them one by one (pool.c:53-66, 99-112). *)
THEOREM ListedWorkersLive == Spec => []ListedAlive
<1>1. PoolInv => ListedAlive
  BY DEF PoolInv
<1> QED BY <1>1, PoolInductive, PTL

(* Freeing a queue with nothing outstanding never signals or joins a thread
   that does not exist, nor one without the handler (multithread.h:64-81,
   pool.c:105-109). *)
THEOREM IdleFreeIsDefined == Spec => []IdleFreeDefined
<1>1. PoolInv => IdleFreeDefined
  BY DEF PoolInv
<1> QED BY <1>1, PoolInductive, PTL
==============================================================================
