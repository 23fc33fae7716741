------------------------- MODULE FallbackQueueProofs -------------------------
(***************************************************************************)
(* Proofs about FallbackQueue for every set of requests and of codes, with *)
(* and without deadlines: its type invariant, and that it implements       *)
(* Completions just as EventQueue does.                                    *)
(***************************************************************************)
EXTENDS FallbackQueue, ListFacts, TLAPS

\* A request that is being linked, is linked or is popped has its code.
CodeInv == \A r \in Reqs : st[r] \in {"end", "lib"} => code[r] \in Codes

FallbackInv == FTypeOK /\ CodeInv

(* Linking and popping keep a completed request in one place. *)
LEMMA FallbackStep ==
  ASSUME FallbackInv, [FNext]_fvars
  PROVE  FallbackInv'
<1> USE ConstAssumption DEF FallbackInv, FTypeOK, CodeInv
<1>1. ASSUME PollCall PROVE FallbackInv'
  BY <1>1 DEF PollCall
<1>2. ASSUME PopTake PROVE FallbackInv'
  <2> DEFINE h == Head(head)
  <2>1. /\ h \in Reqs /\ h \in Range(head)
        /\ head' \in Seq(Reqs) /\ IsInjective(head') /\ Range(head') = Range(head) \ {h}
    BY <1>2, PopFacts DEF PopTake
  <2>2. /\ cur = NoReq /\ cur' = h /\ lpc' = "popped"
        /\ st' = st /\ code' = code /\ past' = past
    BY <1>2 DEF PopTake
  <2> HIDE DEF h
  <2> QED BY <2>1, <2>2
<1>3. ASSUME PopReturn PROVE FallbackInv'
  <2>1. NoReq \notin Range(head)
    BY DEF Range
  <2>2. cur \in Reqs /\ cur \notin Range(head) /\ head' = head
    BY <1>3 DEF PopReturn
  <2> QED BY <1>3, <2>1, <2>2 DEF PopReturn
<1>4. ASSUME PopEmpty PROVE FallbackInv'
  BY <1>4 DEF PopEmpty
<1>5. ASSUME Wait PROVE FallbackInv'
  BY <1>5 DEF Wait
<1>6. ASSUME TimedOut PROVE FallbackInv'
  BY <1>6 DEF TimedOut
<1>7. ASSUME Spurious PROVE FallbackInv'
  BY <1>7 DEF Spurious
<1>8. ASSUME DeadlinePasses PROVE FallbackInv'
  BY <1>8 DEF DeadlinePasses
<1>9. ASSUME NEW r \in Reqs, yo_req_exec(r) PROVE FallbackInv'
  BY <1>9 DEF yo_req_exec
<1>10. ASSUME NEW r \in Reqs, NEW c \in Codes, Work(r, c) PROVE FallbackInv'
  BY <1>10 DEF Work
<1>11. ASSUME NEW r \in Reqs, ReqEnd(r) PROVE FallbackInv'
  <2>1. r \notin Range(head)
    BY <1>11 DEF ReqEnd
  <2>2. /\ head' \in Seq(Reqs) /\ IsInjective(head')
        /\ Range(head') = {r} \cup Range(head)
    BY <1>11, <2>1, PushFacts DEF ReqEnd
  <2> QED BY <1>11, <2>1, <2>2 DEF ReqEnd
<1>12. CASE UNCHANGED fvars
  BY <1>12 DEF fvars
<1> QED
  BY <1>1, <1>2, <1>3, <1>4, <1>5, <1>6, <1>7, <1>8, <1>9, <1>10, <1>11, <1>12
     DEF FNext, ExecFails, PollStep, ReqStep

(* FallbackInv is an invariant of the queue. *)
THEOREM FallbackInductive == FSpec => []FallbackInv
<1>1. FInit => FallbackInv
  <2> SUFFICES ASSUME FInit PROVE FallbackInv
    OBVIOUS
  <2>1. head \in Seq(Reqs) /\ Range(head) = {} /\ IsInjective(head)
    BY DEF FInit, Range, IsInjective
  <2>2. cur = NoReq /\ lpc = "user" /\ past \in BOOLEAN
    BY DEF FInit
  <2> QED BY <2>1, <2>2, ConstAssumption DEF FInit, FallbackInv, FTypeOK, CodeInv
<1> QED BY <1>1, FallbackStep, PTL DEF FSpec

(* A completed request is linked once or popped, never both and never
   neither, whatever threads complete and however often poll wakes up
   (queue.c:25-54, fallback/queue.c). *)
THEOREM FallbackTypeCorrect == FSpec => []FTypeOK
<1>1. FallbackInv => FTypeOK
  BY DEF FallbackInv
<1> QED BY <1>1, FallbackInductive, PTL

------------------------------------------------------------------------------
(* FallbackQueue implements Completions.                                    *)

(* A step that leaves every status and the codes of done requests alone is a
   stutter of the abstract queue. *)
LEMMA FallbackStutter ==
  ASSUME \A r \in Reqs : Status(r)' = Status(r),
         \A r \in Reqs : st'[r] = "lib" <=> st[r] = "lib",
         \A r \in Reqs : st[r] = "lib" => code'[r] = code[r],
         ret' = ret
  PROVE  UNCHANGED Abs!avars
BY DEF Abs!avars

(* Every step is a step of the abstract queue or a stutter. *)
LEMMA FallbackAbsStep ==
  ASSUME FallbackInv, [FNext]_fvars
  PROVE  [Abs!ANext]_(Abs!avars)
<1> USE ConstAssumption DEF FallbackInv, FTypeOK, CodeInv, Status
<1>1. ASSUME PollCall PROVE UNCHANGED Abs!avars
  BY <1>1, FallbackStutter DEF PollCall
<1>2. ASSUME PopTake PROVE UNCHANGED Abs!avars
  BY <1>2, FallbackStutter DEF PopTake
<1>3. ASSUME PopReturn PROVE \E r \in Reqs : Abs!ADeliver(r)
  <2>1. PICK r \in Reqs : r = cur
    BY <1>3 DEF PopReturn
  <2>2. st[r] = "lib"
    BY <1>3, <2>1 DEF PopReturn
  <2>3. Abs!ADeliver(r)
    BY <1>3, <2>1, <2>2 DEF PopReturn, Abs!ADeliver
  <2> QED BY <2>3
<1>4. ASSUME PopEmpty PROVE UNCHANGED Abs!avars
  BY <1>4, FallbackStutter DEF PopEmpty
<1>5. ASSUME Wait PROVE UNCHANGED Abs!avars
  BY <1>5, FallbackStutter DEF Wait
<1>6. ASSUME TimedOut PROVE UNCHANGED Abs!avars
  BY <1>6, FallbackStutter DEF TimedOut
<1>7. ASSUME Spurious PROVE UNCHANGED Abs!avars
  BY <1>7, FallbackStutter DEF Spurious
<1>8. ASSUME DeadlinePasses PROVE UNCHANGED Abs!avars
  BY <1>8, FallbackStutter DEF DeadlinePasses
<1>9. ASSUME NEW r \in Reqs, yo_req_exec(r) PROVE Abs!ASubmit(r)
  BY <1>9 DEF yo_req_exec, Abs!ASubmit
<1>10. ASSUME NEW r \in Reqs, NEW c \in Codes, Work(r, c) PROVE UNCHANGED Abs!avars
  BY <1>10, FallbackStutter DEF Work
<1>11. ASSUME NEW r \in Reqs, ReqEnd(r)
       PROVE \E c \in Codes : Abs!AComplete(r, c)
  <2>1. PICK c \in Codes : c = code[r]
    BY <1>11 DEF ReqEnd
  <2>2. Abs!AComplete(r, c)
    BY <1>11, <2>1 DEF ReqEnd, Abs!AComplete
  <2> QED BY <2>2
<1>12. CASE UNCHANGED fvars
  BY <1>12, FallbackStutter DEF fvars
<1> HIDE DEF FallbackInv, FTypeOK, CodeInv, Status
<1> QED
  BY <1>1, <1>2, <1>3, <1>4, <1>5, <1>6, <1>7, <1>8, <1>9, <1>10, <1>11, <1>12
     DEF FNext, ExecFails, PollStep, ReqStep, Abs!ANext

(* Every request handed to the fallback queue comes back exactly once per
   submission, with the code its callback returned
   (inc/yaooi/queue.h:22-34). *)
THEOREM FallbackImplements == FSpec => ImplementsCompletions
<1>1. FInit => Abs!AInit
  BY ConstAssumption DEF FInit, Abs!AInit, Status, Abs!NoRet
<1> QED BY <1>1, FallbackAbsStep, FallbackInductive, PTL
     DEF FSpec, ImplementsCompletions, Abs!ASpec
==============================================================================
