---------------------------- MODULE PlatformProofs ----------------------------
(***************************************************************************)
(* Proofs about the parts beside the queue: Signals, for any threads and   *)
(* any use of the signals; PollTable, for any descriptors and any first    *)
(* capacity of the pollfd array; YoText, for command lines, lists and      *)
(* addresses of any length; and the composition of the parts.              *)
(*                                                                         *)
(* What is proved of the signals needs what the code needs: one            *)
(* application thread (pthread_sigmask reaches no other) and a first call  *)
(* that no other call overlaps (_yoi_sig_init tests its flag without a     *)
(* lock).                                                                  *)
(***************************************************************************)
EXTENDS MCPlatform, ListFacts, TLAPS

------------------------------------------------------------------------------
(* Signals.                                                                 *)

OneThread == \A t, u \in App : t = u
NoInitRace == ~InitRace

\* Where a thread may be.
SigPlaces == Absent \cup {"idle", "init", "reset", "body", "wait"}

\* What a thread's mask is outside sig_wait, once it has started.
OwnMask(t) == IF t \in Workers THEN WorkerMask ELSE sset

SigTypes ==
  /\ sinit \in BOOLEAN /\ sset \subseteq OsSigs
  /\ scount \in [YoSigs -> Nat] /\ sbal \in [YoSigs -> Nat]
  /\ smask \in [Threads -> SUBSET (OsSigs \cup {"SIGPWR"})]
  /\ sold \in [Threads -> SUBSET (OsSigs \cup {"SIGPWR"})]
  /\ spc \in [Threads -> SigPlaces]
  /\ DOMAIN sarg = Threads

\* Which calls may be under way: an off is matched by an on.
CallInv ==
  \A t \in Threads :
    IF spc[t] \in Absent \cup {"idle"} THEN sarg[t] = NoCall /\ (spc[t] \in Absent => t \in Workers)
    ELSE \/ sarg[t] = <<"wait", NoSig>>
         \/ /\ t \in App /\ spc[t] # "wait"
            /\ \E s \in SigUsed : \/ sarg[t] = <<"on", s>>
                                  \/ sarg[t] = <<"off", s>> /\ sbal[s] > 0

\* The shared state is reset once, before any call has got past it.
ResetInv ==
  /\ ~sinit => \A t \in Threads : spc[t] \in Absent \cup {"idle", "init"}
  /\ \A t \in Threads : spc[t] = "reset" =>
       \A u \in Threads : u # t => spc[u] \in Absent \cup {"idle", "init"}
  /\ (~sinit \/ \E t \in Threads : spc[t] = "reset") => \A s \in YoSigs : sbal[s] = 0

\* sig_wait keeps the mask that it will restore.
WaitInv ==
  \A t \in Threads : spc[t] = "wait" => sold[t] = OwnMask(t)

SigInv == SigTypes /\ CallInv /\ ResetInv /\ WaitInv /\ SignalsAgree /\ ActiveKillsOnlyAtStart

(* No OS signal has two names in the library, and every fatal one has a name. *)
LEMMA OsOfFacts ==
  /\ \A s \in YoSigs : OsOf[s] \subseteq OsSigs
  /\ \A a, b \in YoSigs : a # b => OsOf[a] \cap OsOf[b] = {}
  /\ \A o \in Fatal : \E s \in YoSigs : o \in OsOf[s]
<1>1. \A s \in YoSigs : OsOf[s] \subseteq OsSigs
  BY DEF OsSigs
<1>2. \A o \in Fatal : \E s \in YoSigs : o \in OsOf[s]
  <2> TAKE o \in Fatal
  <2> DEFINE U == UNION {OsOf[s] : s \in YoSigs}
  <2>1. o \in U
    <3>1. o \in OsSigs /\ o # "SIGCHLD"
      BY DEF Fatal
    <3>2. OsSigs = U \cup {"SIGCHLD"}
      BY Zenon DEF OsSigs
    <3> HIDE DEF U
    <3> QED BY <3>1, <3>2
  <2> QED BY <2>1, Zenon
<1>3. YoSigs = {"INT", "QUIT", "ABRT", "TERM", "BADMEM", "BADOP", "BADPIPE",
                "TSIZE", "TLOST", "USR1", "USR2"}
  BY DEF YoSigs, OsOf
<1>4. ASSUME NEW a \in YoSigs, NEW b \in YoSigs, a # b PROVE OsOf[a] \cap OsOf[b] = {}
  BY <1>3, <1>4 DEF OsOf
<1> QED BY <1>1, <1>2, <1>4

LEMMA SigInitial == SInit => SigInv
<1> SUFFICES ASSUME SInit PROVE SigInv
  OBVIOUS
<1>1. /\ sinit = FALSE /\ sset = {} /\ skilled = NoSig
      /\ \A s \in YoSigs : sbal[s] = 0 /\ scount = sbal
      /\ \A t \in Threads : /\ spc[t] = IF t \in Workers THEN "none" ELSE "idle"
                            /\ sarg[t] = NoCall /\ smask[t] = {}
  BY DEF SInit
<1>2. SigTypes
  <2> USE DEF SInit
  <2>1. scount \in [YoSigs -> Nat] /\ sbal \in [YoSigs -> Nat]
    OBVIOUS
  <2>2. smask \in [Threads -> SUBSET (OsSigs \cup {"SIGPWR"})]
    OBVIOUS
  <2>3. sold \in [Threads -> SUBSET (OsSigs \cup {"SIGPWR"})]
    OBVIOUS
  <2>4. spc \in [Threads -> SigPlaces]
    BY DEF SigPlaces, Absent
  <2>5. DOMAIN sarg = Threads
    OBVIOUS
  <2> QED BY <1>1, <2>1, <2>2, <2>3, <2>4, <2>5 DEF SigTypes
<1>3. CallInv /\ WaitInv
  BY <1>1 DEF CallInv, WaitInv, Absent
<1>4. ResetInv
  BY <1>1 DEF ResetInv, Absent
<1>5. SignalsAgree
  <2>1. {y \in YoSigs : sbal[y] > 0} = {}
    BY <1>1
  <2>2. sset = UNION {OsOf[s] : s \in {y \in YoSigs : sbal[y] > 0}}
    BY <1>1, <2>1
  <2>3. scount = sbal
    BY DEF SInit
  <2> QED BY <1>1, <2>2, <2>3 DEF SignalsAgree, Absent
<1> QED BY <1>1, <1>2, <1>3, <1>4, <1>5 DEF SigInv, ActiveKillsOnlyAtStart

\* The OS signals of the library's signals whose count in f is not zero.
OnSet(f) == UNION {OsOf[y] : y \in {z \in YoSigs : f[z] > 0}}

(* What one more or one less activation does to the set of signals that are on. *)
LEMMA SetFacts ==
  ASSUME NEW b \in [YoSigs -> Nat], NEW s \in YoSigs, NEW n \in Nat
  PROVE  /\ n > 0 => OnSet([b EXCEPT ![s] = n]) = OnSet(b) \cup OsOf[s]
         /\ n = 0 => OnSet([b EXCEPT ![s] = n]) = OnSet(b) \ OsOf[s]
         /\ b[s] > 0 => OsOf[s] \subseteq OnSet(b)
<1> DEFINE c == [b EXCEPT ![s] = n]
<1>1. c[s] = n /\ \A y \in YoSigs : y # s => c[y] = b[y]
  OBVIOUS
<1>2. \A f, o : o \in OnSet(f) <=> \E y \in YoSigs : f[y] > 0 /\ o \in OsOf[y]
  BY Zenon DEF OnSet
<1>3. \A y \in YoSigs : y # s => OsOf[y] \cap OsOf[s] = {}
  BY OsOfFacts
<1> HIDE DEF c
<1>4. ASSUME n > 0 PROVE OnSet(c) = OnSet(b) \cup OsOf[s]
  <2>1. \A o : o \in OnSet(c) <=> o \in OnSet(b) \cup OsOf[s]
    BY <1>1, <1>2, <1>4
  <2> QED BY <2>1
<1>5. ASSUME n = 0 PROVE OnSet(c) = OnSet(b) \ OsOf[s]
  <2>1. \A o : o \in OnSet(c) <=> o \in OnSet(b) \ OsOf[s]
    BY <1>1, <1>2, <1>3, <1>5
  <2> QED BY <2>1
<1>6. b[s] > 0 => OsOf[s] \subseteq OnSet(b)
  BY <1>2
<1> QED BY <1>4, <1>5, <1>6 DEF c

(* Turning a signal on or off, by the one thread that does. *)
LEMMA SigTurn ==
  ASSUME OneThread, SigInv, skilled = NoSig, NEW t \in Threads, NEW s \in SigUsed,
         SigOn(t, s) \/ SigOff(t, s)
  PROVE  SigInv'
<1> USE DEF Absent
<1>1. /\ spc[t] = "body" /\ s \in YoSigs
      /\ sarg[t] = <<"on", s>> \/ sarg[t] = <<"off", s>>
      /\ spc' = [spc EXCEPT ![t] = "idle"] /\ sarg' = [sarg EXCEPT ![t] = NoCall]
      /\ sinit' = sinit /\ sold' = sold /\ skilled' = skilled
  BY SigAssumption DEF SigOn, SigOff, SigReturn
<1>2. /\ SigTypes /\ CallInv /\ ResetInv /\ WaitInv /\ SignalsAgree
      /\ scount \in [YoSigs -> Nat] /\ sbal \in [YoSigs -> Nat] /\ scount = sbal
      /\ spc \in [Threads -> SigPlaces]
  BY DEF SigInv, SigTypes, SignalsAgree
<1>3. /\ t \in App /\ t \notin Workers /\ t \in Threads
      /\ sarg[t] = <<"off", s>> => sbal[s] > 0
  BY <1>1, <1>2, SigAssumption DEF CallInv
<1>4. \A u \in Threads : u # t => u \in Workers
  BY <1>3 DEF OneThread, Threads
<1>5. /\ spc'[t] = "idle" /\ sarg'[t] = NoCall
      /\ \A u \in Threads : u # t => spc'[u] = spc[u] /\ sarg'[u] = sarg[u]
  BY <1>1, <1>2 DEF SigTypes
<1>6. PICK n \in Nat :
        /\ sbal' = [sbal EXCEPT ![s] = n] /\ scount' = sbal'
        /\ sset' = OnSet(sbal')
        /\ smask' = [smask EXCEPT ![t] = sset']
  <2>0. /\ sset = OnSet(sbal)
        /\ smask[t] = sset /\ DOMAIN smask = Threads
    BY <1>1, <1>2, <1>3 DEF SignalsAgree, SigTypes, OnSet
  <2>9. [smask EXCEPT ![t] = sset] = smask
    BY <1>2, <2>0 DEF SigTypes
  <2>1. CASE SigOn(t, s)
    <3> DEFINE n == sbal[s] + 1
    <3>1. /\ sbal' = [sbal EXCEPT ![s] = n] /\ scount' = sbal'
          /\ n \in Nat /\ n > 0
          /\ sset' = IF sbal[s] = 0 THEN sset \cup OsOf[s] ELSE sset
          /\ smask' = IF sbal[s] = 0 THEN [smask EXCEPT ![t] = sset'] ELSE smask
      BY <1>1, <1>2, <2>1 DEF SigOn
    <3> HIDE DEF n
    <3>2. OnSet(sbal') = sset \cup OsOf[s]
      <4>1. OnSet([sbal EXCEPT ![s] = n]) = OnSet(sbal) \cup OsOf[s]
        BY <1>1, <1>2, <3>1, SetFacts
      <4> QED BY <2>0, <3>1, <4>1
    <3>3. sset' = sset \cup OsOf[s]
      <4>1. sbal[s] # 0 => OsOf[s] \subseteq sset
        BY <1>1, <1>2, <2>0, SetFacts
      <4> QED BY <3>1, <4>1
    <3> QED BY <2>9, <3>1, <3>2, <3>3
  <2>2. CASE SigOff(t, s)
    <3> DEFINE n == sbal[s] - 1
    <3>0. sbal[s] > 0
      BY <1>3, <2>2 DEF SigOff
    <3>1. /\ sbal' = [sbal EXCEPT ![s] = n] /\ scount' = sbal'
          /\ n \in Nat /\ (n = 0 <=> sbal[s] = 1)
          /\ sset' = IF sbal[s] = 1 THEN sset \ OsOf[s] ELSE sset
          /\ smask' = IF sbal[s] = 1 THEN [smask EXCEPT ![t] = sset'] ELSE smask
      BY <1>1, <1>2, <2>2, <3>0 DEF SigOff
    <3> HIDE DEF n
    <3>2. OnSet(sbal')
            = IF n = 0 THEN sset \ OsOf[s] ELSE sset \cup OsOf[s]
      <4>1. CASE n > 0
        <5>1. OnSet([sbal EXCEPT ![s] = n]) = OnSet(sbal) \cup OsOf[s]
          BY <1>1, <1>2, <3>1, <4>1, SetFacts
        <5>2. n # 0
          BY <3>1, <4>1
        <5> QED BY <2>0, <3>1, <5>1, <5>2
      <4>2. CASE n = 0
        <5>1. OnSet([sbal EXCEPT ![s] = n]) = OnSet(sbal) \ OsOf[s]
          BY <1>1, <1>2, <3>1, <4>2, SetFacts
        <5> QED BY <2>0, <3>1, <4>2, <5>1
      <4> QED BY <3>1, <4>1, <4>2
    <3>3. OsOf[s] \subseteq sset
      BY <1>1, <1>2, <2>0, <3>0, SetFacts
    <3> QED BY <2>9, <3>1, <3>2, <3>3
  <2> QED BY <2>1, <2>2
<1>7. sset' \subseteq OsSigs
  BY <1>6, OsOfFacts, Zenon DEF OnSet
<1>8. /\ smask'[t] = sset' /\ \A u \in Threads : u # t => smask'[u] = smask[u]
      /\ smask' \in [Threads -> SUBSET (OsSigs \cup {"SIGPWR"})]
  BY <1>2, <1>6, <1>7 DEF SigTypes
<1>9. SigTypes'
  <2>1. sbal' \in [YoSigs -> Nat] /\ scount' \in [YoSigs -> Nat]
    BY <1>2, <1>6
  <2>2. spc' \in [Threads -> SigPlaces]
    BY <1>1, <1>2 DEF SigPlaces
  <2>3. DOMAIN sarg' = Threads
    BY <1>1, <1>2 DEF SigTypes
  <2> QED BY <1>1, <1>2, <1>7, <1>8, <2>1, <2>2, <2>3 DEF SigTypes
<1>10. CallInv'
  BY <1>2, <1>4, <1>5, SigAssumption DEF CallInv
<1>11. ResetInv'
  BY <1>1, <1>2, <1>5 DEF ResetInv
<1>12. WaitInv'
  BY <1>1, <1>2, <1>4, <1>5 DEF WaitInv, OwnMask
<1>13. SignalsAgree'
  BY <1>2, <1>3, <1>4, <1>5, <1>6, <1>8 DEF SignalsAgree, WorkerMask, OnSet
<1>14. ActiveKillsOnlyAtStart'
  BY <1>1 DEF ActiveKillsOnlyAtStart
<1> QED BY <1>9, <1>10, <1>11, <1>12, <1>13, <1>14 DEF SigInv

(* A step that changes neither counts nor the shared set, kills nobody and
   leaves the masks outside sig_wait alone. *)
LEMMA SigQuiet ==
  ASSUME SigInv, SigTypes', CallInv', ResetInv', WaitInv',
         sset' = sset, scount' = scount, sbal' = sbal, skilled' = NoSig,
         \A t \in Threads : spc'[t] \notin Absent \cup {"wait"} => smask'[t] = OwnMask(t)
  PROVE  SigInv'
<1>1. SignalsAgree'
  BY DEF SigInv, SignalsAgree, OwnMask, WorkerMask
<1>2. ActiveKillsOnlyAtStart'
  BY DEF ActiveKillsOnlyAtStart
<1> QED BY <1>1, <1>2 DEF SigInv

LEMMA SigStep ==
  ASSUME OneThread, NoInitRace, SigInv, skilled = NoSig, SNext
  PROVE  SigInv'
<1> USE DEF Absent
<1>1. /\ SigTypes /\ CallInv /\ ResetInv /\ WaitInv /\ SignalsAgree
      /\ \A t \in Threads : spc[t] \notin Absent \cup {"wait"} => smask[t] = OwnMask(t)
  BY DEF SigInv, SignalsAgree, OwnMask
<1>2. /\ sbal \in [YoSigs -> Nat] /\ spc \in [Threads -> SigPlaces]
      /\ DOMAIN sarg = Threads /\ sinit \in BOOLEAN
      /\ smask \in [Threads -> SUBSET (OsSigs \cup {"SIGPWR"})]
      /\ sold \in [Threads -> SUBSET (OsSigs \cup {"SIGPWR"})]
      /\ App \subseteq Threads /\ Workers \subseteq Threads /\ SigUsed \subseteq YoSigs
  BY <1>1, SigAssumption DEF SigTypes, Threads
<1>3. ASSUME NEW t \in Threads, NEW f \in {"on", "off", "wait"},
             NEW s, f = "wait" \/ s \in SigUsed, SigCall(t, f, s)
      PROVE  SigInv'
  <2>1. /\ spc[t] = "idle"
        /\ f \in {"on", "off"} => t \in App
        /\ f = "off" => sbal[s] > Cardinality({u \in App : sarg[u] = <<"off", s>>})
        /\ f = "wait" => s = NoSig
        /\ spc' = [spc EXCEPT ![t] = "init"] /\ sarg' = [sarg EXCEPT ![t] = <<f, s>>]
        /\ sinit' = sinit /\ scount' = scount /\ sset' = sset /\ smask' = smask
        /\ sold' = sold /\ skilled' = skilled /\ sbal' = sbal
    BY <1>3 DEF SigCall
  <2>2. f = "off" => sbal[s] > 0
    <3> SUFFICES ASSUME f = "off" PROVE sbal[s] > 0
      OBVIOUS
    <3>1. {u \in App : sarg[u] = <<"off", s>>} = {}
      <4> SUFFICES ASSUME NEW u \in App, sarg[u] = <<"off", s>> PROVE FALSE
        OBVIOUS
      <4>1. u = t
        BY <2>1 DEF OneThread
      <4> QED BY <1>1, <2>1, <4>1 DEF CallInv, NoCall
    <3> QED BY <2>1, <3>1, FS_EmptySet
  <2>3. /\ spc'[t] = "init" /\ sarg'[t] = <<f, s>>
        /\ \A u \in Threads : u # t => spc'[u] = spc[u] /\ sarg'[u] = sarg[u]
        /\ spc' \in [Threads -> SigPlaces]
        /\ DOMAIN sarg' = Threads
    BY <1>2, <2>1 DEF SigPlaces
  <2>4. SigTypes'
    BY <1>1, <2>1, <2>3 DEF SigTypes
  <2>5. CallInv'
    <3> SUFFICES ASSUME NEW u \in Threads
                 PROVE  IF spc'[u] \in Absent \cup {"idle"}
                        THEN sarg'[u] = NoCall /\ (spc'[u] \in Absent => u \in Workers)
                        ELSE \/ sarg'[u] = <<"wait", NoSig>>
                             \/ /\ u \in App /\ spc'[u] # "wait"
                                /\ \E z \in SigUsed :
                                     \/ sarg'[u] = <<"on", z>>
                                     \/ sarg'[u] = <<"off", z>> /\ sbal[z] > 0
      BY <2>1 DEF CallInv
    <3>1. CASE u = t
      <4>1. CASE f = "wait"
        BY <2>1, <2>3, <3>1, <4>1
      <4>2. CASE f # "wait"
        <5>1. t \in App /\ s \in SigUsed /\ (f = "on" \/ (f = "off" /\ sbal[s] > 0))
          BY <1>3, <2>1, <2>2, <4>2
        <5>2. CASE f = "on"
          BY <2>3, <3>1, <5>1, <5>2
        <5>3. CASE f = "off" /\ sbal[s] > 0
          BY <2>3, <3>1, <5>1, <5>3
        <5> QED BY <5>1, <5>2, <5>3
      <4> QED BY <4>1, <4>2
    <3>2. CASE u # t
      <4>1. spc'[u] = spc[u] /\ sarg'[u] = sarg[u]
        BY <2>3, <3>2
      <4> QED BY <1>1, <4>1 DEF CallInv
    <3> QED BY <3>1, <3>2
  <2>6. ResetInv'
    BY <1>1, <2>1, <2>3 DEF ResetInv
  <2>7. WaitInv'
    BY <1>1, <2>1, <2>3 DEF WaitInv, OwnMask
  <2>8. \A u \in Threads : spc'[u] \notin Absent \cup {"wait"} => smask'[u] = OwnMask(u)
    BY <1>1, <2>1, <2>3
  <2> QED BY <2>1, <2>4, <2>5, <2>6, <2>7, <2>8, SigQuiet
<1>4. ASSUME NEW t \in Threads, SigInitTest(t) PROVE SigInv'
  <2>1. /\ spc[t] = "init" /\ \A u \in Threads : spc[u] # "reset"
        /\ spc' = [spc EXCEPT ![t] = IF sinit THEN "body" ELSE "reset"]
        /\ sinit' = TRUE /\ scount' = scount /\ sset' = sset /\ smask' = smask
        /\ sarg' = sarg /\ sold' = sold /\ skilled' = skilled /\ sbal' = sbal
    BY <1>4 DEF SigInitTest, NoInitRace
  <2>2. /\ spc'[t] = IF sinit THEN "body" ELSE "reset"
        /\ \A u \in Threads : u # t => spc'[u] = spc[u]
        /\ spc' \in [Threads -> SigPlaces]
    BY <1>2, <2>1 DEF SigPlaces
  <2>3. SigTypes'
    BY <1>1, <2>1, <2>2 DEF SigTypes
  <2>4. CallInv'
    BY <1>1, <2>1, <2>2 DEF CallInv
  <2>5. ResetInv'
    BY <1>1, <1>2, <2>1, <2>2 DEF ResetInv
  <2>6. WaitInv'
    BY <1>1, <2>1, <2>2 DEF WaitInv, OwnMask
  <2>7. \A u \in Threads : spc'[u] \notin Absent \cup {"wait"} => smask'[u] = OwnMask(u)
    BY <1>1, <2>1, <2>2
  <2> QED BY <2>1, <2>3, <2>4, <2>5, <2>6, <2>7, SigQuiet
<1>5. ASSUME NEW t \in Threads, SigInitReset(t) PROVE SigInv'
  <2>1. /\ spc[t] = "reset" /\ spc' = [spc EXCEPT ![t] = "body"]
        /\ scount' = [s \in YoSigs |-> 0] /\ sset' = {}
        /\ sinit' = sinit /\ smask' = smask
        /\ sarg' = sarg /\ sold' = sold /\ skilled' = skilled /\ sbal' = sbal
    BY <1>5 DEF SigInitReset
  <2>2. /\ spc'[t] = "body" /\ \A u \in Threads : u # t => spc'[u] = spc[u]
        /\ spc' \in [Threads -> SigPlaces]
    BY <1>2, <2>1 DEF SigPlaces
  <2>3. \A s \in YoSigs : sbal[s] = 0
    BY <1>1, <2>1 DEF ResetInv
  <2>4. sset = {} /\ scount = sbal /\ sbal = [s \in YoSigs |-> 0]
    <3>1. {y \in YoSigs : sbal[y] > 0} = {}
      BY <2>3
    <3>2. sset = {}
      BY <1>1, <3>1 DEF SignalsAgree
    <3> QED BY <1>1, <1>2, <2>3, <3>2 DEF SignalsAgree
  <2>5. scount' = scount /\ sset' = sset
    BY <2>1, <2>4
  <2>6. SigTypes'
    BY <1>1, <2>1, <2>2, <2>5 DEF SigTypes
  <2>7. CallInv'
    BY <1>1, <2>1, <2>2 DEF CallInv
  <2>8. ResetInv'
    BY <1>1, <2>1, <2>2, <2>3 DEF ResetInv
  <2>9. WaitInv'
    BY <1>1, <2>1, <2>2, <2>5 DEF WaitInv, OwnMask
  <2>10. \A u \in Threads : spc'[u] \notin Absent \cup {"wait"} => smask'[u] = OwnMask(u)
    BY <1>1, <2>1, <2>2
  <2> QED BY <2>1, <2>5, <2>6, <2>7, <2>8, <2>9, <2>10, SigQuiet
<1>6. ASSUME NEW t \in Threads, SigWaitBlock(t) PROVE SigInv'
  <2>1. /\ spc[t] = "body" /\ sarg[t] = <<"wait", NoSig>>
        /\ sold' = [sold EXCEPT ![t] = smask[t]]
        /\ smask' = [smask EXCEPT ![t] = @ \cup {"SIGPWR"}]
        /\ spc' = [spc EXCEPT ![t] = "wait"]
        /\ sinit' = sinit /\ scount' = scount /\ sset' = sset
        /\ sarg' = sarg /\ skilled' = skilled /\ sbal' = sbal
    BY <1>6 DEF SigWaitBlock
  <2>2. /\ spc'[t] = "wait" /\ sold'[t] = smask[t]
        /\ \A u \in Threads : u # t =>
             spc'[u] = spc[u] /\ sold'[u] = sold[u] /\ smask'[u] = smask[u]
        /\ spc' \in [Threads -> SigPlaces]
    BY <1>2, <2>1 DEF SigPlaces
  <2>3. /\ smask' \in [Threads -> SUBSET (OsSigs \cup {"SIGPWR"})]
        /\ sold' \in [Threads -> SUBSET (OsSigs \cup {"SIGPWR"})]
    BY <1>2, <2>1
  <2>4. SigTypes'
    BY <1>1, <2>1, <2>2, <2>3 DEF SigTypes
  <2>5. CallInv'
    BY <1>1, <2>1, <2>2 DEF CallInv
  <2>6. ResetInv'
    BY <1>1, <2>1, <2>2 DEF ResetInv
  <2>7. WaitInv'
    BY <1>1, <2>1, <2>2 DEF WaitInv, OwnMask
  <2>8. \A u \in Threads : spc'[u] \notin Absent \cup {"wait"} => smask'[u] = OwnMask(u)
    BY <1>1, <2>1, <2>2
  <2> QED BY <2>1, <2>4, <2>5, <2>6, <2>7, <2>8, SigQuiet
<1>7. ASSUME NEW t \in Threads, spc[t] = "wait", SigWaitReturn(t),
             UNCHANGED <<sinit, scount, sset, skilled, sbal>>
      PROVE  SigInv'
  <2>1. /\ smask' = [smask EXCEPT ![t] = sold[t]] /\ sold' = [sold EXCEPT ![t] = {}]
        /\ spc' = [spc EXCEPT ![t] = "idle"] /\ sarg' = [sarg EXCEPT ![t] = NoCall]
        /\ sinit' = sinit /\ scount' = scount /\ sset' = sset
        /\ skilled' = skilled /\ sbal' = sbal
    BY <1>7 DEF SigWaitReturn, SigReturn
  <2>2. /\ spc'[t] = "idle" /\ smask'[t] = sold[t] /\ sarg'[t] = NoCall
        /\ \A u \in Threads : u # t => /\ spc'[u] = spc[u] /\ sold'[u] = sold[u]
                                      /\ smask'[u] = smask[u] /\ sarg'[u] = sarg[u]
        /\ spc' \in [Threads -> SigPlaces]
        /\ DOMAIN sarg' = Threads
    BY <1>2, <2>1 DEF SigPlaces
  <2>3. /\ smask' \in [Threads -> SUBSET (OsSigs \cup {"SIGPWR"})]
        /\ sold' \in [Threads -> SUBSET (OsSigs \cup {"SIGPWR"})]
    BY <1>2, <2>1
  <2>4. SigTypes'
    BY <1>1, <2>1, <2>2, <2>3 DEF SigTypes
  <2>5. CallInv'
    BY <1>1, <2>1, <2>2 DEF CallInv
  <2>6. ResetInv'
    BY <1>1, <2>1, <2>2 DEF ResetInv
  <2>7. WaitInv'
    BY <1>1, <2>1, <2>2 DEF WaitInv, OwnMask
  <2>8. \A u \in Threads : spc'[u] \notin Absent \cup {"wait"} => smask'[u] = OwnMask(u)
    BY <1>1, <1>7, <2>2 DEF WaitInv
  <2> QED BY <2>1, <2>4, <2>5, <2>6, <2>7, <2>8, SigQuiet
<1>8. ASSUME UNCHANGED <<sinit, scount, sset, smask, spc, sarg, sold, skilled, sbal>>
      PROVE  SigInv'
  <2>1. SigTypes'
    BY <1>1, <1>8 DEF SigTypes
  <2>2. CallInv'
    BY <1>1, <1>8 DEF CallInv
  <2>3. ResetInv'
    BY <1>1, <1>8 DEF ResetInv
  <2>4. WaitInv'
    BY <1>1, <1>8 DEF WaitInv, OwnMask
  <2> QED BY <1>1, <1>8, <2>1, <2>2, <2>3, <2>4, SigQuiet
<1>9. ASSUME NEW t \in Threads, SigWaitPwr(t) PROVE SigInv'
  <2>1. spc[t] = "wait" /\ SigWaitReturn(t) /\ UNCHANGED <<sinit, scount, sset, skilled, sbal>>
    BY <1>9 DEF SigWaitPwr
  <2> QED BY <1>7, <2>1
<1>10. ASSUME NEW t \in Threads, NEW o \in RaiseSet, SigWaitTake(t, o) PROVE SigInv'
  <2>1. CASE ConvSignal(o) = NoSig
    BY <1>8, <1>10, <2>1 DEF SigWaitTake
  <2>2. CASE ConvSignal(o) # NoSig
    BY <1>7, <1>10, <2>2 DEF SigWaitTake
  <2> QED BY <2>1, <2>2
<1>11. ASSUME NEW t \in Threads, NEW o \in RaiseSet, SigDefault(t, o), skilled = NoSig
       PROVE  SigInv'
  <2>1. /\ o \notin smask[t] /\ spc[t] \notin {"none", "wait"} /\ o \in OsSigs
        /\ skilled' = IF o \in Fatal THEN o ELSE skilled
        /\ UNCHANGED <<sinit, scount, sset, smask, spc, sarg, sold, sbal>>
    BY <1>11, SigAssumption DEF SigDefault
  <2>2. CASE o \notin Fatal
    BY <1>8, <2>1, <2>2
  <2>3. CASE o \in Fatal
    <3>1. ConvSignal(o) \in YoSigs /\ o \in OsOf[ConvSignal(o)]
      BY <2>3, OsOfFacts DEF ConvSignal
    <3> DEFINE c == ConvSignal(o)
    <3>0. /\ skilled' = o /\ spc' = spc /\ smask' = smask /\ sbal' = sbal
          /\ ActiveKillsOnlyAtStart' =
               (o # NoSig => \/ sbal[c] = 0
                             \/ \E w \in Workers : spc[w] = "start" /\ o \notin smask[w])
      BY <2>1, <2>3 DEF ActiveKillsOnlyAtStart
    <3> HIDE DEF c
    <3>2. ASSUME spc[t] = "start" PROVE ActiveKillsOnlyAtStart'
      <4>1. t \in Workers
        BY <1>1, <3>2 DEF CallInv
      <4> QED BY <2>1, <3>0, <3>2, <4>1
    <3>3. ASSUME spc[t] # "start" PROVE ActiveKillsOnlyAtStart'
      <4>1. o \notin sset
        BY <1>1, <2>1, <3>3 DEF OwnMask, WorkerMask
      <4>2. ~(sbal[ConvSignal(o)] > 0)
        BY <1>1, <3>1, <4>1 DEF SignalsAgree
      <4>3. sbal[c] = 0
        BY <1>2, <3>1, <4>2 DEF c
      <4> QED BY <3>0, <4>3
    <3>5. ActiveKillsOnlyAtStart'
      BY <3>2, <3>3
    <3>6. SignalsAgree'
      BY <1>1, <2>1 DEF SignalsAgree
    <3>7. SigTypes' /\ CallInv'
      BY <1>1, <2>1 DEF SigTypes, CallInv
    <3>8. ResetInv' /\ WaitInv'
      BY <1>1, <2>1 DEF ResetInv, WaitInv, OwnMask
    <3> QED BY <3>5, <3>6, <3>7, <3>8 DEF SigInv
  <2> QED BY <2>2, <2>3
<1>12. ASSUME NEW t \in Threads, NEW w \in Threads,
              \/ SigCreate(t, w) \/ SigEntry(w) \/ SigExit(w)
       PROVE  SigInv'
  <2>1. /\ w \in Workers /\ spc[w] \in Absent \cup {"idle"}
        /\ sarg[w] = NoCall
        /\ \E p \in Absent \cup {"idle"}, k \in SUBSET (OsSigs \cup {"SIGPWR"}) :
             /\ p = "idle" => k = WorkerMask
             /\ spc' = [spc EXCEPT ![w] = p] /\ smask' = [smask EXCEPT ![w] = k]
        /\ sinit' = sinit /\ scount' = scount /\ sset' = sset
        /\ sarg' = sarg /\ sold' = sold /\ skilled' = skilled /\ sbal' = sbal
    <3>1. CASE SigCreate(t, w)
      <4>1. "start" \in Absent \cup {"idle"} /\ smask[t] \in SUBSET (OsSigs \cup {"SIGPWR"})
        BY <1>2 DEF Absent
      <4> QED BY <1>1, <3>1, <4>1 DEF SigCreate, CallInv
    <3>2. CASE SigEntry(w)
      <4>1. WorkerMask \in SUBSET (OsSigs \cup {"SIGPWR"})
        BY Zenon DEF WorkerMask
      <4> QED BY <1>1, <3>2, <4>1 DEF SigEntry, CallInv
    <3>3. CASE SigExit(w)
      BY <1>1, <3>3 DEF SigExit, CallInv
    <3> QED BY <1>12, <3>1, <3>2, <3>3
  <2>2. /\ spc'[w] \in Absent \cup {"idle"} /\ (spc'[w] = "idle" => smask'[w] = WorkerMask)
        /\ \A u \in Threads : u # w => spc'[u] = spc[u] /\ smask'[u] = smask[u]
        /\ spc' \in [Threads -> SigPlaces]
        /\ smask' \in [Threads -> SUBSET (OsSigs \cup {"SIGPWR"})]
    BY <1>2, <2>1 DEF SigPlaces
  <2>3. SigTypes'
    BY <1>1, <2>1, <2>2 DEF SigTypes
  <2>4. CallInv'
    BY <1>1, <2>1, <2>2 DEF CallInv
  <2>5. ResetInv'
    BY <1>1, <2>1, <2>2 DEF ResetInv
  <2>6. WaitInv'
    BY <1>1, <2>1, <2>2 DEF WaitInv, OwnMask
  <2>7. \A u \in Threads : spc'[u] \notin Absent \cup {"wait"} => smask'[u] = OwnMask(u)
    BY <1>1, <2>1, <2>2 DEF OwnMask
  <2> QED BY <2>1, <2>3, <2>4, <2>5, <2>6, <2>7, SigQuiet
<1>13. ASSUME NEW t \in Threads, NEW s \in SigUsed, SigOn(t, s) \/ SigOff(t, s)
       PROVE  SigInv'
  BY <1>13, SigTurn
<1>14. ASSUME NEW t \in Threads, SigCancel(t) PROVE SigInv'
  BY <1>8, <1>14 DEF SigCancel
<1>15. ASSUME NEW o \in RaiseSet, SigRaise(o) PROVE SigInv'
  BY <1>8, <1>15 DEF SigRaise
<1> QED BY <1>3, <1>4, <1>5, <1>6, <1>9, <1>10, <1>11, <1>12, <1>13, <1>14, <1>15 DEF SNext

LEMMA SigNext ==
  ASSUME OneThread, NoInitRace, SigInv, [SNext]_svars
  PROVE  SigInv'
<1>1. CASE SNext
  BY <1>1, SigStep DEF SNext
<1>2. CASE UNCHANGED svars
  <2>1. SigTypes' /\ CallInv'
    BY <1>2 DEF svars, SigInv, SigTypes, CallInv
  <2>2. ResetInv' /\ WaitInv'
    BY <1>2 DEF svars, SigInv, ResetInv, WaitInv, OwnMask
  <2>3. SignalsAgree' /\ ActiveKillsOnlyAtStart'
    BY <1>2 DEF svars, SigInv, SignalsAgree, ActiveKillsOnlyAtStart
  <2> QED BY <2>1, <2>2, <2>3 DEF SigInv
<1> QED BY <1>1, <1>2

(* The counters, the shared set and the threads' masks, with what calls under
   way may still do to them: inductive for one application thread and any
   number of pool threads. *)
THEOREM SignalsInductive ==
  ASSUME OneThread, NoInitRace
  PROVE  SSpec => []SigInv
<1>1. SigInv /\ [SNext]_svars => SigInv'
  BY SigNext
<1> QED BY <1>1, SigInitial, PTL DEF SSpec

(* yo_sig_on, yo_sig_off and yo_sig_wait keep counters, set and masks in step,
   in any order of calls, signals and cancellations (impl.c:988-1130). *)
THEOREM MasksAgree ==
  ASSUME OneThread, NoInitRace
  PROVE  SSpec => []SignalsAgree
<1>1. SigInv => SignalsAgree
  BY DEF SigInv
<1> QED BY <1>1, SignalsInductive, PTL

(* A signal that is on ends the process only through a pool thread that has not
   yet set its mask (inc/yaooi/io.h:203-209, multithread.h:64-73), as pool
   threads come, wait, are cancelled and go. *)
THEOREM ActiveSignalsAreHarmless ==
  ASSUME OneThread, NoInitRace
  PROVE  SSpec => []ActiveKillsOnlyAtStart
<1>1. SigInv => ActiveKillsOnlyAtStart
  BY DEF SigInv
<1> QED BY <1>1, SignalsInductive, PTL

------------------------------------------------------------------------------
(* The table of poll(2).                                                    *)

Node == [fd : PFds, evn : PMasks \ {{}}, udata : Udata, idx : Nat \cup {NoIdx}]
Cell == [fd : PFds, events : PMasks]

\* One node for each registered descriptor, with what was registered.
NodeInv ==
  /\ pnodes \in Seq(Node)
  /\ preg \in [PFds -> [evn : PMasks, udata : Udata \cup {NoUdata}]]
  /\ \A i, j \in DOMAIN pnodes : pnodes[i].fd = pnodes[j].fd => i = j
  /\ \A i \in DOMAIN pnodes :
       preg[pnodes[i].fd] = [evn |-> pnodes[i].evn, udata |-> pnodes[i].udata]
  /\ \A f \in PFds : preg[f] # Unregistered => \E i \in DOMAIN pnodes : pnodes[i].fd = f

\* The nodes that have been reached are told their cells, in order.
CellInv ==
  /\ pphase \in {"idle", "fill", "wait", "wild", "aborted"}
  /\ pfds \in Seq(Cell) /\ Len(pfds) <= Len(pnodes)
  /\ \A i \in 1 .. Len(pfds) :
       /\ pnodes[i].idx = i - 1
       /\ pfds[i] = [fd |-> pnodes[i].fd, events |-> pnodes[i].evn]
  /\ pphase = "idle" => pfds = <<>>
  /\ pphase = "wait" => Len(pfds) = Len(pnodes)

CapInv ==
  /\ pcap \in Nat /\ palloc \in 0 .. pcap /\ pbroken \in BOOLEAN /\ pwrote \in Nat
  /\ ~pbroken => pcap = palloc
  /\ pphase \in {"fill", "wait"} => Len(pfds) <= palloc /\ pwrote <= Len(pfds) + 1
  /\ pphase = "wild" => pbroken /\ Len(pfds) = palloc + 1

ResultInv == ReportsTruth /\ (pphase # "idle" => presult = NoResult)

TableInv == NodeInv /\ CellInv /\ CapInv /\ ResultInv

(* Min of the community modules, on what it is used for here. *)
LEMMA MinFacts ==
  ASSUME NEW A, A \subseteq Nat, A # {}
  PROVE  Min(A) \in A
<1>1. \E n \in A : \A m \in A : n <= m
  BY NatLeast
<1> QED BY <1>1 DEF Min

(* RemoveAt of the community modules, element by element. *)
LEMMA RemoveAtFacts ==
  ASSUME NEW S, NEW s \in Seq(S), NEW at \in 1 .. Len(s)
  PROVE  /\ RemoveAt(s, at) \in Seq(S) /\ Len(RemoveAt(s, at)) = Len(s) - 1
         /\ \A i \in 1 .. Len(s) - 1 :
              RemoveAt(s, at)[i] = IF i < at THEN s[i] ELSE s[i + 1]
<1> DEFINE a == SubSeq(s, 1, at - 1)
<1> DEFINE b == SubSeq(s, at + 1, Len(s))
<1>1. /\ a \in Seq(S) /\ Len(a) = at - 1 /\ \A i \in 1 .. at - 1 : a[i] = s[i]
      /\ Len(s) \in Nat
  OBVIOUS
<1>2. /\ b \in Seq(S) /\ Len(b) = Len(s) - at
      /\ \A i \in 1 .. Len(s) - at : b[i] = s[at + i]
  OBVIOUS
<1>3. RemoveAt(s, at) = a \o b
  BY DEF RemoveAt
<1> HIDE DEF a, b
<1>4. /\ a \o b \in Seq(S) /\ Len(a \o b) = Len(s) - 1
      /\ \A i \in 1 .. Len(s) - 1 :
           (a \o b)[i] = IF i <= Len(a) THEN a[i] ELSE b[i - Len(a)]
  <2>1. a \o b \in Seq(S) /\ Len(a \o b) = Len(a) + Len(b)
    <3>1. a \in Seq(S) /\ b \in Seq(S)
      BY <1>1, <1>2
    <3> QED BY <3>1
  <2>2. Len(a) + Len(b) = Len(s) - 1
    BY <1>1, <1>2
  <2>3. \A i \in 1 .. Len(a) + Len(b) :
          (a \o b)[i] = IF i <= Len(a) THEN a[i] ELSE b[i - Len(a)]
    BY <1>1, <1>2
  <2> QED BY <2>1, <2>2, <2>3
<1>5. ASSUME NEW i \in 1 .. Len(s) - 1
      PROVE  (a \o b)[i] = IF i < at THEN s[i] ELSE s[i + 1]
  <2>1. CASE i < at
    BY <1>1, <1>4, <2>1
  <2>2. CASE ~(i < at)
    <3>1. /\ i - (at - 1) \in 1 .. Len(s) - at /\ at + (i - (at - 1)) = i + 1
          /\ ~(i <= at - 1)
      BY <1>1, <2>2
    <3>2. b[i - (at - 1)] = s[i + 1]
      BY <1>2, <3>1
    <3> QED BY <1>1, <1>4, <2>2, <3>1, <3>2
  <2> QED BY <2>1, <2>2
<1> QED BY <1>3, <1>4, <1>5

LEMMA TableInitial == PInit => TableInv
<1> SUFFICES ASSUME PInit PROVE TableInv
  OBVIOUS
<1>1. /\ pnodes = <<>> /\ pcap = 0 /\ palloc = 0 /\ pfds = <<>> /\ pphase = "idle" /\ pwrote = 0
      /\ presult = NoResult /\ pbroken = FALSE /\ preg = [f \in PFds |-> Unregistered]
  BY DEF PInit
<1>2. NodeInv
  <2>1. preg \in [PFds -> [evn : PMasks, udata : Udata \cup {NoUdata}]]
    BY <1>1 DEF Unregistered, PMasks
  <2> QED BY <1>1, <2>1 DEF NodeInv
<1>3. CellInv
  BY <1>1 DEF CellInv
<1>4. CapInv
  <2>1. pbroken \in BOOLEAN
    BY <1>1
  <2>2. pcap \in Nat /\ palloc \in 0 .. pcap /\ pwrote \in Nat /\ pcap = palloc
    BY <1>1
  <2> QED BY <1>1, <2>1, <2>2 DEF CapInv
<1>5. ResultInv
  BY <1>1 DEF ResultInv, ReportsTruth, NoResult
<1> QED BY <1>2, <1>3, <1>4, <1>5 DEF TableInv

(* Between calls of poll the cells do not matter, and the last result is
   forgotten with the registration it was about. *)
LEMMA IdleStep ==
  ASSUME TableInv, NodeInv', pphase = "idle", presult' = NoResult,
         UNCHANGED <<pcap, palloc, pfds, pwrote, pphase, pbroken>>
  PROVE  TableInv'
<1>1. pfds = <<>>
  BY DEF TableInv, CellInv
<1>2. CellInv'
  <2>1. pnodes' \in Seq(Node)
    BY DEF NodeInv
  <2>2. Len(pnodes') \in Nat
    BY <2>1
  <2> QED BY <1>1, <2>2 DEF TableInv, CellInv
<1>3. CapInv'
  BY DEF TableInv, CapInv
<1>4. ResultInv'
  BY DEF ResultInv, ReportsTruth, NoResult
<1> QED BY <1>2, <1>3, <1>4 DEF TableInv

LEMMA UnsetStep ==
  ASSUME TableInv, NEW f \in PFds, PUnset(f)
  PROVE  TableInv'
<1>1. /\ pphase = "idle" /\ presult' = NoResult /\ UNCHANGED <<pcap, palloc, pfds, pwrote, pphase, pbroken>>
      /\ preg' = [preg EXCEPT ![f] = Unregistered]
      /\ pnodes' = IF IndexOf(f) = {} THEN pnodes ELSE RemoveAt(pnodes, Min(IndexOf(f)))
  BY DEF PUnset
<1>2. /\ pnodes \in Seq(Node)
      /\ preg \in [PFds -> [evn : PMasks, udata : Udata \cup {NoUdata}]]
      /\ \A i, j \in DOMAIN pnodes : pnodes[i].fd = pnodes[j].fd => i = j
      /\ \A i \in DOMAIN pnodes :
           preg[pnodes[i].fd] = [evn |-> pnodes[i].evn, udata |-> pnodes[i].udata]
      /\ \A g \in PFds : preg[g] # Unregistered => \E i \in DOMAIN pnodes : pnodes[i].fd = g
  BY DEF TableInv, NodeInv
<1>3. DOMAIN pnodes = 1 .. Len(pnodes) /\ Len(pnodes) \in Nat
  BY <1>2
<1>4. \A i \in DOMAIN pnodes : pnodes[i] \in Node /\ pnodes[i].fd \in PFds
  <2>1. \A i \in DOMAIN pnodes : pnodes[i] \in Node
    BY <1>2
  <2> QED BY <2>1 DEF Node
<1>5. /\ preg' \in [PFds -> [evn : PMasks, udata : Udata \cup {NoUdata}]]
      /\ preg'[f] = Unregistered /\ \A g \in PFds : g # f => preg'[g] = preg[g]
  <2>1. Unregistered \in [evn : PMasks, udata : Udata \cup {NoUdata}]
    BY DEF Unregistered, PMasks
  <2> QED BY <1>1, <1>2, <2>1
<1>6. CASE IndexOf(f) = {}
  <2>1. \A i \in DOMAIN pnodes : pnodes[i].fd # f
    BY <1>6 DEF IndexOf
  <2>2. NodeInv'
    BY <1>1, <1>2, <1>4, <1>5, <1>6, <2>1 DEF NodeInv
  <2> QED BY <1>1, <2>2, IdleStep
<1>7. CASE IndexOf(f) # {}
  <2> DEFINE at == Min(IndexOf(f))
  <2>1. at \in IndexOf(f)
    <3>1. IndexOf(f) \subseteq Nat
      BY <1>3 DEF IndexOf
    <3> QED BY <1>7, <3>1, MinFacts
  <2>2. at \in 1 .. Len(pnodes) /\ pnodes[at].fd = f
    BY <1>3, <2>1 DEF IndexOf
  <2>3. pnodes' = RemoveAt(pnodes, at)
    BY <1>1, <1>7
  <2> HIDE DEF at
  <2>4. /\ pnodes' \in Seq(Node) /\ Len(pnodes') = Len(pnodes) - 1
        /\ \A i \in 1 .. Len(pnodes) - 1 :
             pnodes'[i] = IF i < at THEN pnodes[i] ELSE pnodes[i + 1]
    <3> DEFINE s == RemoveAt(pnodes, at)
    <3>1. /\ s \in Seq(Node) /\ Len(s) = Len(pnodes) - 1
          /\ \A i \in 1 .. Len(pnodes) - 1 : s[i] = IF i < at THEN pnodes[i] ELSE pnodes[i + 1]
      <4>1. pnodes \in Seq(Node) /\ at \in 1 .. Len(pnodes)
        BY <1>2, <2>2
      <4> QED BY <4>1, RemoveAtFacts, Zenon
    <3>2. pnodes' = s
      BY <2>3
    <3> HIDE DEF s
    <3> QED BY <3>1, <3>2
  <2>5. DOMAIN pnodes' = 1 .. Len(pnodes) - 1
    BY <2>4
  <2>6. \A i, j \in DOMAIN pnodes' : pnodes'[i].fd = pnodes'[j].fd => i = j
    <3> SUFFICES ASSUME NEW i \in DOMAIN pnodes', NEW j \in DOMAIN pnodes',
                        pnodes'[i].fd = pnodes'[j].fd
                 PROVE  i = j
      OBVIOUS
    <3> DEFINE K(k) == IF k < at THEN k ELSE k + 1
    <3>1. \A k \in DOMAIN pnodes' : K(k) \in DOMAIN pnodes /\ pnodes'[k] = pnodes[K(k)]
      BY <1>3, <2>2, <2>4, <2>5
    <3>2. K(i) = K(j)
      <4> HIDE DEF K
      <4> QED BY <1>2, <3>1
    <3> QED BY <2>2, <2>5, <1>3, <3>2
  <2>7. ASSUME NEW i \in DOMAIN pnodes'
        PROVE  preg'[pnodes'[i].fd] = [evn |-> pnodes'[i].evn, udata |-> pnodes'[i].udata]
    <3>1. PICK k \in DOMAIN pnodes : k # at /\ pnodes'[i] = pnodes[k]
      <4>1. CASE i < at
        BY <1>3, <2>2, <2>4, <2>5, <4>1
      <4>2. CASE ~(i < at)
        <5>1. i + 1 \in DOMAIN pnodes /\ i + 1 # at /\ pnodes'[i] = pnodes[i + 1]
          BY <1>3, <2>2, <2>4, <2>5, <4>2
        <5> QED BY <5>1
      <4> QED BY <4>1, <4>2
    <3>2. pnodes[k].fd # f /\ pnodes[k].fd \in PFds
      BY <1>2, <1>3, <1>4, <2>2, <3>1
    <3> QED BY <1>2, <1>5, <3>1, <3>2
  <2>8. ASSUME NEW g \in PFds, preg'[g] # Unregistered
        PROVE  \E i \in DOMAIN pnodes' : pnodes'[i].fd = g
    <3>1. g # f /\ preg[g] # Unregistered
      BY <1>5, <2>8
    <3>2. PICK k \in DOMAIN pnodes : pnodes[k].fd = g
      BY <1>2, <3>1
    <3>3. k # at
      BY <2>2, <3>1, <3>2
    <3>4. CASE k < at
      <4>1. k \in DOMAIN pnodes' /\ pnodes'[k] = pnodes[k]
        BY <1>3, <2>2, <2>4, <2>5, <3>4
      <4> QED BY <3>2, <4>1
    <3>5. CASE k > at
      <4>1. k - 1 \in DOMAIN pnodes' /\ pnodes'[k - 1] = pnodes[k]
        BY <1>3, <2>2, <2>4, <2>5, <3>5
      <4> QED BY <3>2, <4>1
    <3> QED BY <1>3, <2>2, <3>3, <3>4, <3>5
  <2>9. NodeInv'
    BY <1>5, <2>4, <2>6, <2>7, <2>8 DEF NodeInv
  <2> QED BY <1>1, <2>9, IdleStep
<1> QED BY <1>6, <1>7

LEMMA SetStep ==
  ASSUME TableInv, NEW f \in PFds, NEW mask \in PMasks, NEW u \in Udata, PSet(f, mask, u)
  PROVE  TableInv'
<1>1. /\ pphase = "idle" /\ mask # {} /\ presult' = NoResult
      /\ UNCHANGED <<pcap, palloc, pfds, pwrote, pphase, pbroken>>
      /\ \/ /\ pnodes' = NodeAt(f, IndexOf(f), mask, u)
            /\ preg' = [preg EXCEPT ![f] = [evn |-> mask, udata |-> u]]
         \/ UNCHANGED <<pnodes, preg>>
  BY DEF PSet
<1>2. /\ pnodes \in Seq(Node)
      /\ preg \in [PFds -> [evn : PMasks, udata : Udata \cup {NoUdata}]]
      /\ \A i, j \in DOMAIN pnodes : pnodes[i].fd = pnodes[j].fd => i = j
      /\ \A i \in DOMAIN pnodes :
           preg[pnodes[i].fd] = [evn |-> pnodes[i].evn, udata |-> pnodes[i].udata]
      /\ \A g \in PFds : preg[g] # Unregistered => \E i \in DOMAIN pnodes : pnodes[i].fd = g
  BY DEF TableInv, NodeInv
<1>3. DOMAIN pnodes = 1 .. Len(pnodes) /\ Len(pnodes) \in Nat
  BY <1>2
<1>4. \A i \in DOMAIN pnodes : pnodes[i] \in Node /\ pnodes[i].fd \in PFds
  <2>1. \A i \in DOMAIN pnodes : pnodes[i] \in Node
    BY <1>2
  <2> QED BY <2>1 DEF Node
<1>5. CASE UNCHANGED <<pnodes, preg>>
  <2>1. NodeInv'
    BY <1>5 DEF TableInv, NodeInv
  <2> QED BY <1>1, <2>1, IdleStep
<1>6. CASE /\ pnodes' = NodeAt(f, IndexOf(f), mask, u)
           /\ preg' = [preg EXCEPT ![f] = [evn |-> mask, udata |-> u]]
  <2>1. /\ preg' \in [PFds -> [evn : PMasks, udata : Udata \cup {NoUdata}]]
        /\ preg'[f] = [evn |-> mask, udata |-> u]
        /\ \A g \in PFds : g # f => preg'[g] = preg[g]
    <3>1. [evn |-> mask, udata |-> u] \in [evn : PMasks, udata : Udata \cup {NoUdata}]
      OBVIOUS
    <3> QED BY <1>2, <1>6, <3>1
  <2>2. CASE IndexOf(f) = {}
    <3> DEFINE x == [fd |-> f, evn |-> mask, udata |-> u, idx |-> NoIdx]
    <3>1. x \in Node /\ x.fd = f /\ x.evn = mask /\ x.udata = u
      BY <1>1 DEF Node
    <3>2. pnodes' = <<x>> \o pnodes
      BY <1>6, <2>2 DEF NodeAt
    <3> HIDE DEF x
    <3>3. /\ pnodes' \in Seq(Node) /\ DOMAIN pnodes' = 1 .. Len(pnodes) + 1
          /\ pnodes'[1] = x /\ \A i \in 1 .. Len(pnodes) : pnodes'[i + 1] = pnodes[i]
      <4>1. pnodes \in Seq(Node) /\ x \in Node
        BY <1>2, <3>1
      <4> QED BY <3>2, <4>1
    <3>4. \A i \in DOMAIN pnodes' :
            \/ i = 1 /\ pnodes'[i] = x
            \/ i - 1 \in DOMAIN pnodes /\ pnodes'[i] = pnodes[i - 1]
      <4> TAKE i \in DOMAIN pnodes'
      <4>1. CASE i = 1
        BY <3>3, <4>1
      <4>2. CASE i # 1
        <5>1. i - 1 \in 1 .. Len(pnodes) /\ i = (i - 1) + 1
          BY <1>3, <3>3, <4>2
        <5> QED BY <1>3, <3>3, <5>1
      <4> QED BY <4>1, <4>2
    <3>5. \A i \in DOMAIN pnodes : pnodes[i].fd # f
      BY <2>2 DEF IndexOf
    <3>6. \A i, j \in DOMAIN pnodes' : pnodes'[i].fd = pnodes'[j].fd => i = j
      <4> SUFFICES ASSUME NEW i \in DOMAIN pnodes', NEW j \in DOMAIN pnodes',
                          pnodes'[i].fd = pnodes'[j].fd
                   PROVE  i = j
        OBVIOUS
      <4>1. CASE i = 1 \/ j = 1
        BY <1>3, <3>1, <3>3, <3>4, <3>5, <4>1
      <4>2. CASE i # 1 /\ j # 1
        <5>1. i - 1 = j - 1
          BY <1>2, <3>4, <4>2
        <5> QED BY <3>3, <1>3, <5>1
      <4> QED BY <4>1, <4>2
    <3>7. \A i \in DOMAIN pnodes' :
            preg'[pnodes'[i].fd] = [evn |-> pnodes'[i].evn, udata |-> pnodes'[i].udata]
      BY <1>2, <1>4, <2>1, <3>1, <3>4, <3>5
    <3>8. ASSUME NEW g \in PFds, preg'[g] # Unregistered
          PROVE  \E i \in DOMAIN pnodes' : pnodes'[i].fd = g
      <4>1. CASE g = f
        <5>1. 1 \in DOMAIN pnodes' /\ pnodes'[1].fd = f
          BY <1>3, <3>1, <3>3
        <5> QED BY <4>1, <5>1
      <4>2. CASE g # f
        <5>1. PICK k \in DOMAIN pnodes : pnodes[k].fd = g
          BY <1>2, <2>1, <3>8, <4>2
        <5>2. k + 1 \in DOMAIN pnodes' /\ pnodes'[k + 1] = pnodes[k]
          BY <1>3, <3>3
        <5> QED BY <5>1, <5>2
      <4> QED BY <4>1, <4>2
    <3>9. NodeInv'
      BY <2>1, <3>3, <3>6, <3>7, <3>8 DEF NodeInv
    <3> QED BY <1>1, <3>9, IdleStep
  <2>3. CASE IndexOf(f) # {}
    <3> DEFINE at == Min(IndexOf(f))
    <3>1. at \in IndexOf(f)
      <4>1. IndexOf(f) \subseteq Nat
        BY <1>3 DEF IndexOf
      <4> QED BY <2>3, <4>1, MinFacts
    <3>2. at \in DOMAIN pnodes /\ pnodes[at].fd = f
      BY <3>1 DEF IndexOf
    <3>3. pnodes' = [pnodes EXCEPT ![at].evn = mask, ![at].udata = u]
      BY <1>6, <2>3 DEF NodeAt
    <3> HIDE DEF at
    <3> DEFINE x == [pnodes[at] EXCEPT !.evn = mask, !.udata = u]
    <3>4. x \in Node /\ x.fd = f /\ x.evn = mask /\ x.udata = u
      <4>1. pnodes[at] \in Node
        BY <1>4, <3>2
      <4> QED BY <1>1, <3>2, <4>1 DEF Node
    <3>5. pnodes' = [pnodes EXCEPT ![at] = x]
      BY <3>2, <3>3
    <3> HIDE DEF x
    <3>6. /\ pnodes' \in Seq(Node) /\ DOMAIN pnodes' = DOMAIN pnodes /\ pnodes'[at] = x
          /\ \A i \in DOMAIN pnodes : i # at => pnodes'[i] = pnodes[i]
      BY <1>2, <3>2, <3>4, <3>5
    <3>7. \A i \in DOMAIN pnodes : pnodes'[i].fd = pnodes[i].fd
      BY <3>2, <3>4, <3>6
    <3>8. \A i, j \in DOMAIN pnodes' : pnodes'[i].fd = pnodes'[j].fd => i = j
      BY <1>2, <3>6, <3>7
    <3>9. \A i \in DOMAIN pnodes' :
            preg'[pnodes'[i].fd] = [evn |-> pnodes'[i].evn, udata |-> pnodes'[i].udata]
      <4> TAKE i \in DOMAIN pnodes'
      <4>1. CASE i = at
        BY <2>1, <3>4, <3>6, <4>1
      <4>2. CASE i # at
        <5>1. pnodes[i].fd # f /\ pnodes[i].fd \in PFds /\ pnodes'[i] = pnodes[i]
          BY <1>2, <1>4, <3>2, <3>6, <4>2
        <5> QED BY <1>2, <2>1, <3>6, <5>1
      <4> QED BY <4>1, <4>2
    <3>10. ASSUME NEW g \in PFds, preg'[g] # Unregistered
           PROVE  \E i \in DOMAIN pnodes' : pnodes'[i].fd = g
      <4>1. CASE g = f
        BY <3>2, <3>6, <3>7, <4>1
      <4>2. CASE g # f
        BY <1>2, <2>1, <3>6, <3>7, <3>10, <4>2
      <4> QED BY <4>1, <4>2
    <3>11. NodeInv'
      BY <2>1, <3>6, <3>8, <3>9, <3>10 DEF NodeInv
    <3> QED BY <1>1, <3>11, IdleStep
  <2> QED BY <2>2, <2>3
<1> QED BY <1>1, <1>5, <1>6

LEMMA AddStep ==
  ASSUME TableInv, PAddFd
  PROVE  TableInv'
<1> DEFINE n == Len(pfds)
<1> DEFINE c == [fd |-> pnodes[n + 1].fd, events |-> pnodes[n + 1].evn]
<1>1. /\ pphase = "fill" /\ n < Len(pnodes) /\ preg' = preg /\ presult = NoResult
      /\ pnodes \in Seq(Node) /\ pfds \in Seq(Cell) /\ n \in Nat /\ Len(pnodes) \in Nat
      /\ DOMAIN pnodes = 1 .. Len(pnodes) /\ n + 1 \in DOMAIN pnodes
  BY DEF PAddFd, TableInv, NodeInv, CellInv, ResultInv
<1>2. /\ pcap \in Nat /\ palloc \in 0 .. pcap /\ pbroken \in BOOLEAN
      /\ (~pbroken => pcap = palloc) /\ n <= palloc /\ pwrote \in Nat
  BY <1>1 DEF TableInv, CapInv
<1>3. PGrown \in Nat /\ (pcap = n => n + 1 <= PGrown) /\ pcap <= PGrown
  BY <1>1, <1>2, PollAssumption DEF PGrown
<1>4. ASSUME pfds' = Append(pfds, c), pnodes' = [pnodes EXCEPT ![n + 1].idx = n],
             pwrote' = n + 2, UNCHANGED <<presult, pbroken>>,
             \/ /\ n < pcap /\ UNCHANGED <<pcap, palloc>>
                /\ pphase' = IF n < palloc THEN "fill" ELSE "wild"
             \/ n >= pcap /\ pcap' = PGrown /\ palloc' = PGrown /\ pphase' = pphase
      PROVE  TableInv'
  <2> DEFINE x == [pnodes[n + 1] EXCEPT !.idx = n]
  <2>0. pnodes[n + 1] \in Node
    BY <1>1
  <2>1. /\ x \in Node /\ x.fd = pnodes[n + 1].fd /\ x.evn = pnodes[n + 1].evn
        /\ x.udata = pnodes[n + 1].udata /\ x.idx = n
    BY <1>1, <2>0 DEF Node
  <2>2. pnodes' = [pnodes EXCEPT ![n + 1] = x]
    BY <1>1, <1>4
  <2>3. c \in Cell
    BY <2>0 DEF Node, Cell
  <2> HIDE DEF x
  <2>4. /\ pnodes' \in Seq(Node) /\ DOMAIN pnodes' = DOMAIN pnodes
        /\ Len(pnodes') = Len(pnodes) /\ pnodes'[n + 1] = x
        /\ \A i \in DOMAIN pnodes : i # n + 1 => pnodes'[i] = pnodes[i]
    BY <1>1, <2>1, <2>2
  <2>5. \A i \in DOMAIN pnodes : /\ pnodes'[i].fd = pnodes[i].fd /\ pnodes'[i].evn = pnodes[i].evn
                                /\ pnodes'[i].udata = pnodes[i].udata
    BY <2>1, <2>4
  <2>6. NodeInv'
    <3>1. \A i, j \in DOMAIN pnodes' : pnodes'[i].fd = pnodes'[j].fd => i = j
      BY <2>4, <2>5 DEF TableInv, NodeInv
    <3>2. \A i \in DOMAIN pnodes' :
            preg'[pnodes'[i].fd] = [evn |-> pnodes'[i].evn, udata |-> pnodes'[i].udata]
      BY <1>1, <2>4, <2>5 DEF TableInv, NodeInv
    <3>3. \A f \in PFds : preg'[f] # Unregistered => \E i \in DOMAIN pnodes' : pnodes'[i].fd = f
      BY <1>1, <2>4, <2>5 DEF TableInv, NodeInv
    <3> QED BY <1>1, <2>4, <3>1, <3>2, <3>3 DEF TableInv, NodeInv
  <2>7. /\ pfds' \in Seq(Cell) /\ Len(pfds') = n + 1 /\ pfds'[n + 1] = c
        /\ \A i \in 1 .. n : pfds'[i] = pfds[i]
    <3> HIDE DEF c
    <3> QED BY <1>1, <1>4, <2>3
  <2>8. CellInv'
    <3>1. ASSUME NEW i \in 1 .. Len(pfds')
          PROVE  /\ pnodes'[i].idx = i - 1
                 /\ pfds'[i] = [fd |-> pnodes'[i].fd, events |-> pnodes'[i].evn]
      <4>1. CASE i = n + 1
        BY <1>1, <2>1, <2>4, <2>7, <4>1
      <4>2. CASE i \in 1 .. n
        <5>1. i \in DOMAIN pnodes /\ i # n + 1
          BY <1>1, <4>2
        <5>2. pnodes'[i] = pnodes[i] /\ pfds'[i] = pfds[i]
          BY <2>4, <2>7, <4>2, <5>1
        <5> QED BY <4>2, <5>2 DEF TableInv, CellInv
      <4> QED BY <1>1, <2>7, <4>1, <4>2
    <3>2. Len(pfds') <= Len(pnodes')
      BY <1>1, <2>4, <2>7
    <3> QED BY <1>1, <1>4, <2>7, <3>1, <3>2 DEF CellInv
  <2>9. CapInv'
    <3>1. CASE /\ n < pcap /\ UNCHANGED <<pcap, palloc>>
               /\ pphase' = IF n < palloc THEN "fill" ELSE "wild"
      BY <1>1, <1>2, <1>4, <2>7, <3>1 DEF CapInv
    <3>2. CASE n >= pcap /\ pcap' = PGrown /\ palloc' = PGrown /\ pphase' = pphase
      BY <1>1, <1>2, <1>3, <1>4, <2>7, <3>2 DEF CapInv
    <3> QED BY <1>4, <3>1, <3>2
  <2>10. ResultInv'
    BY <1>1, <1>4 DEF ResultInv, ReportsTruth, NoResult
  <2> QED BY <2>6, <2>8, <2>9, <2>10 DEF TableInv
<1>5. ASSUME pcap' = PGrown, pbroken' = TRUE, pphase' = "idle",
             presult' = [NoResult EXCEPT !.code = "ENOMEM"],
             pfds' = <<>>, UNCHANGED <<palloc, pwrote, pnodes>>
      PROVE  TableInv'
  <2>1. NodeInv'
    BY <1>1, <1>5 DEF TableInv, NodeInv
  <2>2. CellInv'
    BY <1>1, <1>5 DEF CellInv
  <2>3. CapInv'
    <3>1. pbroken' \in BOOLEAN /\ pbroken'
      BY <1>5
    <3>2. pcap' \in Nat /\ palloc' \in 0 .. pcap'
      BY <1>2, <1>3, <1>5
    <3> QED BY <1>2, <1>5, <3>1, <3>2 DEF CapInv
  <2>4. ResultInv'
    <3>1. presult'.code = "ENOMEM"
      BY <1>5 DEF NoResult
    <3> QED BY <1>5, <3>1 DEF ResultInv, ReportsTruth
  <2> QED BY <2>1, <2>2, <2>3, <2>4 DEF TableInv
<1>6. \/ /\ pfds' = Append(pfds, c) /\ pnodes' = [pnodes EXCEPT ![n + 1].idx = n]
         /\ pwrote' = n + 2 /\ UNCHANGED <<presult, pbroken>>
         /\ \/ /\ n < pcap /\ UNCHANGED <<pcap, palloc>>
               /\ pphase' = IF n < palloc THEN "fill" ELSE "wild"
            \/ n >= pcap /\ pcap' = PGrown /\ palloc' = PGrown /\ pphase' = pphase
      \/ /\ pcap' = PGrown /\ pbroken' = TRUE /\ pphase' = "idle"
         /\ presult' = [NoResult EXCEPT !.code = "ENOMEM"]
         /\ pfds' = <<>> /\ UNCHANGED <<palloc, pwrote, pnodes>>
  BY DEF PAddFd, PFill
<1> HIDE DEF c, n
<1> QED BY <1>4, <1>5, <1>6

(* poll(2) returns: the node that is reported, or the timeout, is what the
   descriptors really were. *)
LEMMA ReturnStep ==
  ASSUME TableInv, NEW now \in [PFds -> PStates], PReturn(now)
  PROVE  TableInv'
<1> DEFINE hits == {i \in DOMAIN pnodes : NodeReady(i, now) # {}}
<1>1. /\ pphase = "wait" /\ pphase' = "idle" /\ pfds' = <<>>
      /\ UNCHANGED <<pnodes, pcap, palloc, pwrote, pbroken, preg>>
      /\ presult' = IF hits = {} THEN [NoResult EXCEPT !.code = "ETIMEOUT", !.seen = now]
                    ELSE [code |-> "OK", udata |-> pnodes[Min(hits)].udata,
                          ready |-> NodeReady(Min(hits), now), seen |-> now]
  BY DEF PReturn
<1>2. /\ pnodes \in Seq(Node) /\ DOMAIN pnodes = 1 .. Len(pnodes) /\ Len(pnodes) \in Nat
      /\ Len(pfds) = Len(pnodes)
  BY <1>1 DEF TableInv, NodeInv, CellInv
<1>3. ASSUME NEW i \in DOMAIN pnodes
      PROVE  /\ pnodes[i] \in Node /\ pnodes[i].fd \in PFds /\ pnodes[i].evn # {}
             /\ preg[pnodes[i].fd] = [evn |-> pnodes[i].evn, udata |-> pnodes[i].udata]
             /\ NodeReady(i, now) =
                  ToReady(CellRevents([fd |-> pnodes[i].fd, events |-> pnodes[i].evn], now))
  <2>1. pnodes[i] \in Node
    BY <1>2
  <2>2. pnodes[i].fd \in PFds /\ pnodes[i].evn # {}
    BY <2>1 DEF Node
  <2>3. pnodes[i].idx = i - 1 /\ pfds[i] = [fd |-> pnodes[i].fd, events |-> pnodes[i].evn]
    BY <1>2 DEF TableInv, CellInv
  <2>4. pfds[pnodes[i].idx + 1] = pfds[i]
    <3>1. pnodes[i].idx + 1 = i
      BY <1>2, <2>3
    <3> QED BY <3>1
  <2> QED BY <2>1, <2>2, <2>3, <2>4 DEF NodeReady, TableInv, NodeInv
<1>4. NodeInv'
  BY <1>1 DEF TableInv, NodeInv
<1>5. CellInv'
  BY <1>1, <1>2 DEF CellInv
<1>6. CapInv'
  BY <1>1 DEF TableInv, CapInv
<1>7. ReportsTruth'
  <2>1. CASE hits = {}
    <3>1. presult'.code = "ETIMEOUT" /\ presult'.seen = now
      BY <1>1, <2>1 DEF NoResult
    <3>2. ASSUME NEW f \in PFds, NEW m \in preg[f].evn
          PROVE  now[f] \cap (IF m = "R" THEN {"IN", "ERR"} ELSE {"OUT", "ERR"}) = {}
      <4>1. preg[f] # Unregistered
        BY <3>2 DEF Unregistered
      <4>2. PICK i \in DOMAIN pnodes : pnodes[i].fd = f
        BY <4>1 DEF TableInv, NodeInv
      <4>3. /\ preg[f].evn = pnodes[i].evn /\ pnodes[i] \in Node
            /\ ToReady(CellRevents([fd |-> f, events |-> pnodes[i].evn], now)) = {}
        <5>1. NodeReady(i, now) = {}
          BY <2>1
        <5>2. preg[f] = [evn |-> pnodes[i].evn, udata |-> pnodes[i].udata] /\ pnodes[i] \in Node
          BY <1>3, <4>2
        <5>3. NodeReady(i, now) = ToReady(CellRevents([fd |-> f, events |-> pnodes[i].evn], now))
          BY <1>3, <4>2
        <5> QED BY <5>1, <5>2, <5>3
      <4>4. m \in {"R", "W"}
        BY <3>2, <4>3 DEF Node, PMasks
      <4> QED BY <3>2, <4>3, <4>4 DEF ToReady, CellRevents
    <3> QED BY <1>1, <3>1, <3>2 DEF ReportsTruth, Has
  <2>2. CASE hits # {}
    <3> DEFINE i == Min(hits)
    <3>1. i \in hits
      <4>1. hits \subseteq Nat
        BY <1>2
      <4> HIDE DEF hits
      <4> QED BY <2>2, <4>1, MinFacts
    <3>2. /\ presult'.code = "OK" /\ presult'.seen = now
          /\ presult'.udata = pnodes[i].udata /\ presult'.ready = NodeReady(i, now)
      BY <1>1, <2>2
    <3>3. i \in DOMAIN pnodes /\ NodeReady(i, now) # {}
      BY <3>1
    <3> HIDE DEF i, hits
    <3> DEFINE f == pnodes[i].fd
    <3>4. f \in PFds /\ preg[f] # Unregistered /\ preg[f].udata = presult'.udata
      <4>1. /\ f \in PFds /\ pnodes[i].evn # {}
            /\ preg[f] = [evn |-> pnodes[i].evn, udata |-> pnodes[i].udata]
        BY <1>3, <3>3
      <4> HIDE DEF f
      <4> QED BY <3>2, <4>1 DEF Unregistered
    <3>5. ASSUME NEW m \in NodeReady(i, now)
          PROVE  now[f] \cap (IF m = "R" THEN {"IN", "ERR"} ELSE {"OUT", "ERR"}) # {}
      <4>1. m \in ToReady(CellRevents([fd |-> f, events |-> pnodes[i].evn], now))
        BY <1>3, <3>3, <3>5
      <4>2. CellRevents([fd |-> f, events |-> pnodes[i].evn], now) \subseteq now[f]
        BY DEF CellRevents
      <4> QED BY <4>1, <4>2 DEF ToReady
    <3> QED BY <1>1, <3>2, <3>3, <3>4, <3>5 DEF ReportsTruth, Has
  <2> QED BY <2>1, <2>2
<1> QED BY <1>1, <1>4, <1>5, <1>6, <1>7 DEF TableInv, ResultInv

LEMMA TableNext == TableInv /\ [PNext]_pvars => TableInv'
<1> SUFFICES ASSUME TableInv, [PNext]_pvars PROVE TableInv'
  OBVIOUS
<1>1. ASSUME NEW f \in PFds, PUnset(f) PROVE TableInv'
  BY <1>1, UnsetStep
<1>2. ASSUME NEW h \in Handles, NEW mask \in PMasks, PSet(h[1], mask, h[2]) PROVE TableInv'
  BY <1>2, SetStep DEF PFds, Udata
<1>3. CASE PBegin \/ PFilled \/ PAbort \/ UNCHANGED pvars
  <2>1. /\ UNCHANGED <<pnodes, pcap, palloc, pfds, pbroken, preg>>
        /\ \/ pphase = "idle" /\ pphase' = "fill" /\ pwrote' = 0 /\ presult' = NoResult
           \/ /\ pphase = "fill" /\ Len(pfds) = Len(pnodes) /\ pphase' = "wait"
              /\ pwrote' = pwrote /\ presult' = presult
           \/ /\ pphase = "wait" /\ pphase' = "aborted"
              /\ pwrote' = pwrote /\ presult' = presult
           \/ pphase' = pphase /\ pwrote' = pwrote /\ presult' = presult
    BY <1>3 DEF PBegin, PFilled, PAbort, pvars
  <2>2. NodeInv'
    BY <2>1 DEF TableInv, NodeInv
  <2>3. CellInv'
    BY <2>1 DEF TableInv, CellInv
  <2>4. CapInv'
    <3>1. pphase = "idle" => pfds = <<>> /\ Len(pfds) = 0
      BY DEF TableInv, CellInv
    <3> QED BY <2>1, <3>1 DEF TableInv, CapInv
  <2>5. ResultInv'
    <3>1. CASE presult' = NoResult
      BY <3>1 DEF ResultInv, ReportsTruth, NoResult
    <3>2. CASE pphase' = pphase /\ presult' = presult
      BY <2>1, <3>2 DEF TableInv, ResultInv, ReportsTruth, Has
    <3>3. presult' = NoResult \/ (pphase' = pphase /\ presult' = presult)
      BY <2>1, Zenon DEF TableInv, ResultInv
    <3> QED BY <3>1, <3>2, <3>3
  <2> QED BY <2>2, <2>3, <2>4, <2>5 DEF TableInv
<1>4. CASE PAddFd
  BY <1>4, AddStep
<1>5. ASSUME NEW now \in [PFds -> PStates], PReturn(now) PROVE TableInv'
  BY <1>5, ReturnStep
<1> QED BY <1>1, <1>2, <1>3, <1>4, <1>5 DEF PNext

(* The list of the poll(2) backend, its cells, the capacity of its array and
   what it reports, for any descriptors and any first capacity. *)
THEOREM TableInductive == PSpec => []TableInv
BY TableInitial, TableNext, PTL DEF PSpec

(* The list is the interest set, whichever allocations failed
   (yoi_pl_impl_setmask of poll.c). *)
THEOREM TableIsInterest == PSpec => []ListIsInterest
<1>1. ASSUME TableInv PROVE ListIsInterest
  <2> SUFFICES ASSUME NEW f \in PFds
               PROVE  IF preg[f] = Unregistered THEN IndexOf(f) = {}
                      ELSE \E i \in DOMAIN pnodes :
                             /\ IndexOf(f) = {i}
                             /\ pnodes[i].evn = preg[f].evn /\ pnodes[i].udata = preg[f].udata
    BY DEF ListIsInterest
  <2>1. \A i \in DOMAIN pnodes : pnodes[i] \in Node
    BY <1>1 DEF TableInv, NodeInv
  <2>2. ASSUME NEW i \in DOMAIN pnodes, pnodes[i].fd = f
        PROVE  /\ preg[f] # Unregistered /\ IndexOf(f) = {i}
               /\ pnodes[i].evn = preg[f].evn /\ pnodes[i].udata = preg[f].udata
    <3>1. preg[f] = [evn |-> pnodes[i].evn, udata |-> pnodes[i].udata]
      BY <1>1, <2>2 DEF TableInv, NodeInv
    <3>2. pnodes[i].evn # {}
      BY <2>1 DEF Node
    <3>3. IndexOf(f) = {i}
      BY <1>1, <2>2 DEF TableInv, NodeInv, IndexOf
    <3> QED BY <3>1, <3>2, <3>3 DEF Unregistered
  <2>3. CASE preg[f] = Unregistered
    BY <2>2, <2>3 DEF IndexOf
  <2>4. CASE preg[f] # Unregistered
    <3>1. PICK i \in DOMAIN pnodes : pnodes[i].fd = f
      BY <1>1, <2>4 DEF TableInv, NodeInv
    <3> QED BY <2>2, <2>4, <3>1
  <2> QED BY <2>3, <2>4
<1> QED BY <1>1, TableInductive, PTL

(* Each node reads back the cell of the array that was filled for it
   (_yoi_poll_addfd). *)
THEOREM CellsAreTheNodes == PSpec => []CellsMatch
<1>1. ASSUME TableInv PROVE CellsMatch
  <2>1. /\ pnodes \in Seq(Node) /\ DOMAIN pnodes = 1 .. Len(pnodes) /\ Len(pnodes) \in Nat
    BY <1>1 DEF TableInv, NodeInv
  <2>2. ASSUME pphase = "wait", NEW i \in DOMAIN pnodes
        PROVE  /\ pnodes[i].idx \in 0 .. Len(pfds) - 1
               /\ pfds[pnodes[i].idx + 1] = [fd |-> pnodes[i].fd, events |-> pnodes[i].evn]
    <3>1. /\ i \in 1 .. Len(pfds) /\ Len(pfds) \in Nat /\ pnodes[i].idx = i - 1
          /\ pfds[i] = [fd |-> pnodes[i].fd, events |-> pnodes[i].evn]
      BY <1>1, <2>1, <2>2 DEF TableInv, CellInv
    <3>2. pnodes[i].idx + 1 = i /\ pnodes[i].idx \in 0 .. Len(pfds) - 1
      BY <3>1
    <3> QED BY <3>1, <3>2
  <2> QED BY <1>1, <2>2 DEF CellsMatch, TableInv, CapInv
<1> QED BY <1>1, TableInductive, PTL

(* How far the array is overrun, for any registrations and failed growths: by the
   cell cleared behind a full array (poll.c:75), and by one filled behind it only
   after a growth has failed (poll.c:61-65). *)
THEOREM OverrunIsBounded == PSpec => []OverrunBounded
<1>1. ASSUME TableInv PROVE OverrunBounded
  <2>1. Len(pfds) \in Nat
    BY <1>1 DEF TableInv, CellInv
  <2> QED BY <1>1, <2>1 DEF OverrunBounded, TableInv, CapInv
<1> QED BY <1>1, TableInductive, PTL

(* What yoi_pl_impl_poll reports is true at that moment, and a timeout leaves
   nobody ready (poll.c:96-143). *)
THEOREM ReportsAreTrue == PSpec => []ReportsTruth
<1>1. TableInv => ReportsTruth
  BY DEF TableInv, ResultInv
<1> QED BY <1>1, TableInductive, PTL

------------------------------------------------------------------------------
(* Command lines.                                                           *)

\* What a program that splits its command line keeps.
SplitStates == [args : Seq(Seq(CmdChars)), cur : Seq(CmdChars), back : Nat,
                quoted : BOOLEAN, some : BOOLEAN]

(* Times(c, n) is a list of n characters c. *)
LEMMA TimesFacts ==
  ASSUME NEW S, NEW c \in S, NEW n \in Nat
  PROVE  /\ Times(c, n) \in Seq(S) /\ Len(Times(c, n)) = n
         /\ Times(c, 0) = <<>>
         /\ Append(Times(c, n), c) = Times(c, n + 1)
<1>1. Times(c, n) \in Seq(S) /\ Len(Times(c, n)) = n
  BY DEF Times
<1>2. Times(c, 0) = <<>>
  BY DEF Times
<1>3. Append(Times(c, n), c) = Times(c, n + 1)
  BY DEF Times
<1> QED BY <1>1, <1>2, <1>3

(* SplitChar keeps its state in SplitStates. *)
LEMMA SplitCharType ==
  ASSUME NEW w \in SplitStates, NEW c \in CmdChars
  PROVE  SplitChar(w, c) \in SplitStates
<1>1. w.back \div 2 \in Nat /\ w.back \in Nat /\ w.cur \in Seq(CmdChars) /\ "back" \in CmdChars
  BY DEF SplitStates, CmdChars
<1> DEFINE name == w.args = <<>>
           cur == w.cur \o Times("back", IF c = "quote" /\ ~name THEN w.back \div 2 ELSE w.back)
<1>2. cur \in Seq(CmdChars) /\ Append(cur, c) \in Seq(CmdChars)
  <2>1. Times("back", w.back) \in Seq(CmdChars) /\ Times("back", w.back \div 2) \in Seq(CmdChars)
    BY <1>1, TimesFacts
  <2> HIDE DEF CmdChars
  <2> QED BY <1>1, <2>1
<1>3. Append(w.args, cur) \in Seq(Seq(CmdChars)) /\ w.args \in Seq(Seq(CmdChars))
  BY <1>2 DEF SplitStates
<1> HIDE DEF cur, name
<1>4. SplitChar(w, c) =
        IF c = "back" THEN [w EXCEPT !.back = @ + 1, !.some = TRUE]
        ELSE IF c = "quote" /\ (name \/ w.back % 2 = 0)
          THEN [w EXCEPT !.back = 0, !.cur = cur, !.quoted = ~@, !.some = TRUE]
        ELSE IF c = "space" /\ ~w.quoted
          THEN [w EXCEPT !.back = 0, !.cur = <<>>, !.some = FALSE,
                         !.args = IF w.some THEN Append(@, cur) ELSE @]
        ELSE [w EXCEPT !.back = 0, !.cur = Append(cur, c), !.some = TRUE]
  BY DEF SplitChar, cur, name
<1>5. [w EXCEPT !.back = @ + 1, !.some = TRUE] \in SplitStates
  <2>1. w.back + 1 \in Nat
    BY <1>1
  <2> HIDE DEF CmdChars
  <2> QED BY <2>1 DEF SplitStates
<1>6. [w EXCEPT !.back = 0, !.cur = cur, !.quoted = ~@, !.some = TRUE] \in SplitStates
  BY <1>1, <1>2 DEF SplitStates
<1>7. [w EXCEPT !.back = 0, !.cur = <<>>, !.some = FALSE,
                !.args = IF w.some THEN Append(@, cur) ELSE @] \in SplitStates
  <2>1. <<>> \in Seq(CmdChars)
    OBVIOUS
  <2> QED BY <1>1, <1>3, <2>1 DEF SplitStates
<1>8. [w EXCEPT !.back = 0, !.cur = Append(cur, c), !.some = TRUE] \in SplitStates
  BY <1>1, <1>2 DEF SplitStates
<1> QED BY <1>4, <1>5, <1>6, <1>7, <1>8

\* SplitChar as a function, for the fold.
SplitStep == [p \in SplitStates \X CmdChars |-> SplitChar(p[1], p[2])]

(* Split is the fold of SplitChar: it takes the characters one by one. *)
LEMMA SplitFacts ==
  ASSUME NEW w \in SplitStates
  PROVE  /\ Split(w, <<>>) = w
         /\ \A t \in Seq(CmdChars) : Split(w, t) \in SplitStates
         /\ \A t \in Seq(CmdChars), c \in CmdChars :
              Split(w, Append(t, c)) = SplitChar(Split(w, t), c)
<1>1. SplitStep \in [SplitStates \X CmdChars -> SplitStates]
      /\ \A d \in SplitStates, c \in CmdChars : SplitStep[<<d, c>>] = SplitChar(d, c)
  BY SplitCharType DEF SplitStep
<1>2. PICK h : IsFoldOf(h, SplitStep, w, CmdChars, SplitStates)
  BY <1>1, FoldOf
<1>3. ASSUME NEW t \in Seq(CmdChars) PROVE Split(w, t) = h[t]
  <2>0. \A i \in 1 .. Len(t) : t[i] \in CmdChars /\ i - 1 \in 0 .. Len(t)
    OBVIOUS
  <2>1. PICK g \in [0 .. Len(t) -> SplitStates] : IsListFold(g, SplitStep, w, t)
    BY <1>2 DEF IsFoldOf
  <2>2. g = [i \in 0 .. Len(t) |-> IF i = 0 THEN w ELSE SplitChar(g[i - 1], t[i])]
    <3>1. \A i \in 0 .. Len(t) : i # 0 => SplitStep[<<g[i - 1], t[i]>>] = SplitChar(g[i - 1], t[i])
      BY <1>1, <2>0
    <3>2. g = [i \in 0 .. Len(t) |-> IF i = 0 THEN w ELSE SplitStep[<<g[i - 1], t[i]>>]]
      BY <2>1 DEF IsListFold
    <3> QED BY <3>1, <3>2
  <2>3. PICK f : /\ f = [i \in 0 .. Len(t) |-> IF i = 0 THEN w ELSE SplitChar(f[i - 1], t[i])]
                 /\ Split(w, t) = f[Len(t)]
    BY <2>2, Zenon DEF Split
  <2>4. FoldSteps(f, SplitStep, w, t, Len(t), SplitStates)
    <3> DEFINE E(i) == IF i = 0 THEN w ELSE SplitChar(f[i - 1], t[i])
    <3>1. f = [i \in 0 .. Len(t) |-> E(i)]
      BY <2>3
    <3> HIDE DEF E
    <3>2. Len(t) \in Nat /\ \A i \in 0 .. Len(t) : f[i] = E(i)
      BY <3>1
    <3>3. f[0] = w
      BY <3>2 DEF E
    <3>4. \A i \in 1 .. Len(t) : i # 0 /\ f[i] = E(i)
      BY <3>2
    <3>5. \A i \in 1 .. Len(t) : f[i] = SplitChar(f[i - 1], t[i])
      BY <3>4 DEF E
    <3> QED BY <1>1, <2>0, <3>3, <3>5 DEF FoldSteps
  <2> QED BY <1>2, <2>3, <2>4 DEF IsFoldOf
<1>4. <<>> \in Seq(CmdChars) /\ \A t \in Seq(CmdChars), c \in CmdChars : Append(t, c) \in Seq(CmdChars)
  OBVIOUS
<1>5. Split(w, <<>>) = w
  BY <1>2, <1>3, <1>4 DEF IsFoldOf
<1>6. \A t \in Seq(CmdChars) : Split(w, t) \in SplitStates
  BY <1>2, <1>3 DEF IsFoldOf
<1>7. ASSUME NEW t \in Seq(CmdChars), NEW c \in CmdChars
      PROVE  Split(w, Append(t, c)) = SplitChar(Split(w, t), c)
  <2>1. h[Append(t, c)] = SplitStep[<<h[t], c>>] /\ h[t] \in SplitStates
    BY <1>2 DEF IsFoldOf
  <2> QED BY <1>1, <1>3, <1>4, <2>1
<1> QED BY <1>5, <1>6, <1>7

(* Splitting a text is splitting its front and then its rest. *)
LEMMA SplitJoin ==
  ASSUME NEW w \in SplitStates, NEW s \in Seq(CmdChars), NEW t \in Seq(CmdChars)
  PROVE  Split(w, s \o t) = Split(Split(w, s), t)
<1> DEFINE A == {u \in Seq(CmdChars) : Split(w, s \o u) = Split(Split(w, s), u)}
<1>1. Split(w, s) \in SplitStates
  BY SplitFacts
<1>2. <<>> \in A
  <2>1. s \o <<>> = s /\ <<>> \in Seq(CmdChars)
    OBVIOUS
  <2>2. Split(Split(w, s), <<>>) = Split(w, s)
    BY <1>1, SplitFacts
  <2> QED BY <2>1, <2>2
<1>3. ASSUME NEW u \in Seq(CmdChars), NEW c \in CmdChars, u \in A PROVE Append(u, c) \in A
  <2>1. /\ s \o Append(u, c) = Append(s \o u, c) /\ Append(u, c) \in Seq(CmdChars)
        /\ s \o u \in Seq(CmdChars)
    OBVIOUS
  <2>2. Split(w, Append(s \o u, c)) = SplitChar(Split(w, s \o u), c)
    BY <2>1, SplitFacts
  <2>3. Split(Split(w, s), Append(u, c)) = SplitChar(Split(Split(w, s), u), c)
    BY <1>1, SplitFacts
  <2> QED BY <1>3, <2>1, <2>2, <2>3
<1> HIDE DEF A
<1>4. t \in A
  BY <1>2, <1>3, SeqInduct
<1> QED BY <1>4 DEF A

\* What _yoi_win_argv_to_cmdline keeps of the argument it quotes.
QuoteStates == [back : Nat, out : Seq(CmdChars)]
\* The opening quote is written.
QuoteStart == [back |-> 0, out |-> <<"quote">>]
\* quote_char as a function, for the fold.
QuoteStep == [p \in QuoteStates \X CmdChars |-> quote_char(p[1], p[2])]

(* quote_char keeps its state in QuoteStates. *)
LEMMA QuoteCharType ==
  ASSUME NEW w \in QuoteStates, NEW c \in CmdChars
  PROVE  quote_char(w, c) \in QuoteStates
<1>1. w.back \in Nat /\ w.out \in Seq(CmdChars) /\ 2 * w.back + 1 \in Nat /\ "back" \in CmdChars
  BY DEF QuoteStates, CmdChars
<1>2. Times("back", w.back) \in Seq(CmdChars) /\ Times("back", 2 * w.back + 1) \in Seq(CmdChars)
  BY <1>1, TimesFacts
<1> DEFINE out == w.out \o (IF c = "quote" THEN Times("back", 2 * w.back + 1)
                                          ELSE Times("back", w.back)) \o <<c>>
<1>3. out \in Seq(CmdChars)
  <2>1. <<c>> \in Seq(CmdChars)
    OBVIOUS
  <2> QED BY <1>1, <1>2, <2>1
<1> HIDE DEF out
<1>4. quote_char(w, c) = IF c = "back" THEN [w EXCEPT !.back = @ + 1] ELSE [back |-> 0, out |-> out]
  BY DEF quote_char, out
<1>5. [w EXCEPT !.back = @ + 1] \in QuoteStates
  BY DEF QuoteStates
<1>6. [back |-> 0, out |-> out] \in QuoteStates
  BY <1>3 DEF QuoteStates
<1> QED BY <1>4, <1>5, <1>6

(* quote_chars is the fold of quote_char. *)
LEMMA QuoteFacts ==
  /\ quote_chars(<<>>) = QuoteStart
  /\ \A t \in Seq(CmdChars) : quote_chars(t) \in QuoteStates
  /\ \A t \in Seq(CmdChars), c \in CmdChars :
       quote_chars(Append(t, c)) = quote_char(quote_chars(t), c)
<1>0. QuoteStart \in QuoteStates
  <2>1. <<"quote">> \in Seq(CmdChars)
    BY DEF CmdChars
  <2> QED BY <2>1 DEF QuoteStates, QuoteStart
<1>1. QuoteStep \in [QuoteStates \X CmdChars -> QuoteStates]
      /\ \A d \in QuoteStates, c \in CmdChars : QuoteStep[<<d, c>>] = quote_char(d, c)
  BY QuoteCharType DEF QuoteStep
<1>2. PICK h : IsFoldOf(h, QuoteStep, QuoteStart, CmdChars, QuoteStates)
  BY <1>0, <1>1, FoldOf
<1>3. ASSUME NEW t \in Seq(CmdChars) PROVE quote_chars(t) = h[t]
  <2>0. \A i \in 1 .. Len(t) : t[i] \in CmdChars /\ i - 1 \in 0 .. Len(t)
    OBVIOUS
  <2>1. PICK g \in [0 .. Len(t) -> QuoteStates] : IsListFold(g, QuoteStep, QuoteStart, t)
    BY <1>2 DEF IsFoldOf
  <2>2. g = [i \in 0 .. Len(t) |-> IF i = 0 THEN QuoteStart ELSE quote_char(g[i - 1], t[i])]
    <3>1. \A i \in 0 .. Len(t) : i # 0 => QuoteStep[<<g[i - 1], t[i]>>] = quote_char(g[i - 1], t[i])
      BY <1>1, <2>0
    <3>2. g = [i \in 0 .. Len(t) |-> IF i = 0 THEN QuoteStart ELSE QuoteStep[<<g[i - 1], t[i]>>]]
      BY <2>1 DEF IsListFold
    <3> QED BY <3>1, <3>2
  <2>3. PICK f : /\ f = [i \in 0 .. Len(t) |-> IF i = 0 THEN QuoteStart ELSE quote_char(f[i - 1], t[i])]
                 /\ quote_chars(t) = f[Len(t)]
    BY <2>2, Zenon DEF quote_chars, QuoteStart
  <2>4. FoldSteps(f, QuoteStep, QuoteStart, t, Len(t), QuoteStates)
    <3> DEFINE E(i) == IF i = 0 THEN QuoteStart ELSE quote_char(f[i - 1], t[i])
    <3>1. f = [i \in 0 .. Len(t) |-> E(i)]
      BY <2>3
    <3> HIDE DEF E
    <3>2. Len(t) \in Nat /\ \A i \in 0 .. Len(t) : f[i] = E(i)
      BY <3>1
    <3>3. f[0] = QuoteStart
      BY <3>2 DEF E
    <3>4. \A i \in 1 .. Len(t) : i # 0 /\ f[i] = E(i)
      BY <3>2
    <3>5. \A i \in 1 .. Len(t) : f[i] = quote_char(f[i - 1], t[i])
      BY <3>4 DEF E
    <3> QED BY <1>1, <2>0, <3>3, <3>5 DEF FoldSteps
  <2> QED BY <1>2, <2>3, <2>4 DEF IsFoldOf
<1>4. <<>> \in Seq(CmdChars) /\ \A t \in Seq(CmdChars), c \in CmdChars : Append(t, c) \in Seq(CmdChars)
  OBVIOUS
<1>5. quote_chars(<<>>) = QuoteStart
  BY <1>2, <1>3, <1>4 DEF IsFoldOf
<1>6. \A t \in Seq(CmdChars) : quote_chars(t) \in QuoteStates
  BY <1>2, <1>3 DEF IsFoldOf
<1>7. ASSUME NEW t \in Seq(CmdChars), NEW c \in CmdChars
      PROVE  quote_chars(Append(t, c)) = quote_char(quote_chars(t), c)
  <2>1. h[Append(t, c)] = QuoteStep[<<h[t], c>>] /\ h[t] \in QuoteStates
    BY <1>2 DEF IsFoldOf
  <2> QED BY <1>1, <1>3, <1>4, <2>1
<1> QED BY <1>5, <1>6, <1>7

\* A state of the splitter, by its fields.
At(a, cur, back, quoted, some) ==
  [args |-> a, cur |-> cur, back |-> back, quoted |-> quoted, some |-> some]

(* Such a state is one of the splitter's. *)
LEMMA AtType ==
  ASSUME NEW a \in Seq(Seq(CmdChars)), NEW p \in Seq(CmdChars), NEW k \in Nat,
         NEW q \in BOOLEAN, NEW s \in BOOLEAN
  PROVE  At(a, p, k, q, s) \in SplitStates
BY DEF At, SplitStates

(* A state of the splitter is At if its fields are. *)
LEMMA AtFields ==
  ASSUME NEW v \in SplitStates
  PROVE  v = At(v.args, v.cur, v.back, v.quoted, v.some)
BY SMT DEF At, SplitStates

(* A step of the splitting, by its character. *)
LEMMA SplitCases ==
  ASSUME NEW v \in SplitStates, NEW c \in CmdChars
  PROVE  /\ SplitChar(v, "back") = At(v.args, v.cur, v.back + 1, v.quoted, TRUE)
         /\ c \notin {"quote", "back"} /\ v.quoted =>
              SplitChar(v, c) = At(v.args, Append(v.cur \o Times("back", v.back), c), 0, TRUE, TRUE)
         /\ v.args # <<>> /\ v.back % 2 # 0 =>
              SplitChar(v, "quote") = At(v.args, Append(v.cur \o Times("back", v.back \div 2), "quote"),
                                         0, v.quoted, TRUE)
         /\ v.back % 2 = 0 /\ (v.args # <<>> \/ v.back = 0) =>
              SplitChar(v, "quote") = At(v.args, v.cur \o Times("back", v.back \div 2),
                                         0, ~v.quoted, TRUE)
         /\ ~v.quoted =>
              SplitChar(v, "space") = At(IF v.some THEN Append(v.args, v.cur \o Times("back", v.back))
                                         ELSE v.args, <<>>, 0, FALSE, FALSE)
<1>0. "quote" \in CmdChars /\ "space" \in CmdChars /\ "back" \in CmdChars
  BY DEF CmdChars
<1>5. SplitChar(v, "back") = At(v.args, v.cur, v.back + 1, v.quoted, TRUE)
  <2> DEFINE u == SplitChar(v, "back")
  <2>1. u \in SplitStates
    BY <1>0, SplitCharType
  <2>2. /\ u.args = v.args /\ u.back = v.back + 1 /\ u.quoted = v.quoted /\ u.some = TRUE
        /\ u.cur = v.cur
    BY DEF SplitChar, SplitStates
  <2> HIDE DEF u
  <2>3. u = At(u.args, u.cur, u.back, u.quoted, u.some)
    BY <2>1, AtFields
  <2> QED BY <2>2, <2>3 DEF u
<1>1. ASSUME c \notin {"quote", "back"}, v.quoted
      PROVE  SplitChar(v, c) = At(v.args, Append(v.cur \o Times("back", v.back), c), 0, TRUE, TRUE)
  <2> DEFINE u == SplitChar(v, c)
  <2>1. u \in SplitStates
    BY SplitCharType
  <2>2. /\ u.args = v.args /\ u.back = 0 /\ u.quoted = TRUE /\ u.some = TRUE
        /\ u.cur = Append(v.cur \o Times("back", v.back), c)
    BY <1>1 DEF SplitChar, SplitStates
  <2> HIDE DEF u
  <2>3. u = At(u.args, u.cur, u.back, u.quoted, u.some)
    BY <2>1, AtFields
  <2> QED BY <2>2, <2>3 DEF u
<1>2. ASSUME v.args # <<>>, v.back % 2 # 0
      PROVE  SplitChar(v, "quote") = At(v.args, Append(v.cur \o Times("back", v.back \div 2), "quote"),
                                        0, v.quoted, TRUE)
  <2> DEFINE u == SplitChar(v, "quote")
  <2>1. u \in SplitStates
    BY <1>0, SplitCharType
  <2>2. /\ u.args = v.args /\ u.back = 0 /\ u.quoted = v.quoted /\ u.some = TRUE
        /\ u.cur = Append(v.cur \o Times("back", v.back \div 2), "quote")
    BY <1>2 DEF SplitChar, SplitStates
  <2> HIDE DEF u
  <2>3. u = At(u.args, u.cur, u.back, u.quoted, u.some)
    BY <2>1, AtFields
  <2> QED BY <2>2, <2>3 DEF u
<1>3. ASSUME v.back % 2 = 0, v.args # <<>> \/ v.back = 0
      PROVE  SplitChar(v, "quote") = At(v.args, v.cur \o Times("back", v.back \div 2),
                                        0, ~v.quoted, TRUE)
  <2> DEFINE u == SplitChar(v, "quote")
  <2>1. u \in SplitStates
    BY <1>0, SplitCharType
  <2>0. v.args = <<>> => v.back = v.back \div 2
    BY <1>3
  <2>2. /\ u.args = v.args /\ u.back = 0 /\ u.quoted = ~v.quoted /\ u.some = TRUE
        /\ u.cur = v.cur \o Times("back", v.back \div 2)
    BY <1>3, <2>0 DEF SplitChar, SplitStates
  <2> HIDE DEF u
  <2>3. u = At(u.args, u.cur, u.back, u.quoted, u.some)
    BY <2>1, AtFields
  <2> QED BY <2>2, <2>3 DEF u
<1>4. ASSUME ~v.quoted
      PROVE  SplitChar(v, "space") = At(IF v.some THEN Append(v.args, v.cur \o Times("back", v.back))
                                        ELSE v.args, <<>>, 0, FALSE, FALSE)
  <2> DEFINE u == SplitChar(v, "space")
  <2>1. u \in SplitStates
    BY <1>0, SplitCharType
  <2>2. /\ u.back = 0 /\ u.quoted = FALSE /\ u.some = FALSE /\ u.cur = <<>>
        /\ u.args = IF v.some THEN Append(v.args, v.cur \o Times("back", v.back)) ELSE v.args
    BY <1>4 DEF SplitChar, SplitStates
  <2> HIDE DEF u
  <2>3. u = At(u.args, u.cur, u.back, u.quoted, u.some)
    BY <2>1, AtFields
  <2> QED BY <2>2, <2>3 DEF u
<1> QED BY <1>1, <1>2, <1>3, <1>4, <1>5

(* Characters inside a quoted argument. *)
LEMMA SplitInside ==
  ASSUME NEW a \in Seq(Seq(CmdChars)), NEW p \in Seq(CmdChars), NEW k \in Nat
  PROVE  /\ Split(At(a, p, 0, TRUE, TRUE), Times("back", k)) = At(a, p, k, TRUE, TRUE)
         /\ \A c \in CmdChars : c \notin {"quote", "back"} =>
              SplitChar(At(a, p, k, TRUE, TRUE), c)
                = At(a, Append(p \o Times("back", k), c), 0, TRUE, TRUE)
         /\ a # <<>> => SplitChar(At(a, p, 2 * k + 1, TRUE, TRUE), "quote")
              = At(a, Append(p \o Times("back", k), "quote"), 0, TRUE, TRUE)
         /\ a # <<>> \/ k = 0 => SplitChar(At(a, p, 2 * k, TRUE, TRUE), "quote")
              = At(a, p \o Times("back", k), 0, FALSE, TRUE)
<1>0. ASSUME NEW m \in Nat
      PROVE  LET v == At(a, p, m, TRUE, TRUE) IN
             v \in SplitStates /\ v.args = a /\ v.cur = p /\ v.back = m /\ v.quoted = TRUE /\ v.some = TRUE
  <2>1. At(a, p, m, TRUE, TRUE) \in SplitStates
    BY AtType
  <2> QED BY <2>1 DEF At
<1>1. Split(At(a, p, 0, TRUE, TRUE), Times("back", k)) = At(a, p, k, TRUE, TRUE)
  <2> DEFINE v(i) == At(a, p, i, TRUE, TRUE)
             A == {i \in 0 .. k : Split(v(0), Times("back", i)) = v(i)}
  <2>0. "back" \in CmdChars
    BY DEF CmdChars
  <2>1. \A i \in Nat : /\ v(i) \in SplitStates /\ v(i).args = a /\ v(i).cur = p
                       /\ v(i).back = i /\ v(i).quoted = TRUE
    BY <1>0
  <2>2. \A i \in Nat : SplitChar(v(i), "back") = v(i + 1)
    <3> TAKE i \in Nat
    <3> DEFINE u == v(i)
    <3>1. u \in SplitStates /\ u.args = a /\ u.cur = p /\ u.back = i /\ u.quoted = TRUE
      BY <2>1
    <3> HIDE DEF u
    <3>2. SplitChar(u, "back") = At(u.args, u.cur, u.back + 1, u.quoted, TRUE)
      BY <2>0, <3>1, SplitCases
    <3> QED BY <3>1, <3>2 DEF u
  <2>3. \A i \in Nat : /\ Times("back", i) \in Seq(CmdChars)
                       /\ Append(Times("back", i), "back") = Times("back", i + 1)
    BY <2>0, TimesFacts
  <2> HIDE DEF v
  <2>4. 0 \in A
    <3>1. Times("back", 0) = <<>> /\ 0 \in 0 .. k
      BY <2>0, TimesFacts
    <3>2. Split(v(0), <<>>) = v(0)
      BY <2>1, SplitFacts
    <3> QED BY <3>1, <3>2
  <2>5. ASSUME NEW i \in 0 .. k - 1, i \in A PROVE i + 1 \in A
    <3>1. i \in Nat /\ i + 1 \in 0 .. k
      OBVIOUS
    <3>2. Split(v(0), Append(Times("back", i), "back")) = SplitChar(Split(v(0), Times("back", i)), "back")
      <4>1. v(0) \in SplitStates
        BY <2>1
      <4>2. \A t \in Seq(CmdChars), c \in CmdChars :
              Split(v(0), Append(t, c)) = SplitChar(Split(v(0), t), c)
        BY <4>1, SplitFacts
      <4> QED BY <2>0, <2>3, <3>1, <4>2
    <3> QED BY <2>2, <2>3, <2>5, <3>1, <3>2
  <2> HIDE DEF A
  <2>6. \A i \in 0 .. k : i \in A
    BY <2>4, <2>5, NatInduct
  <2>7. k \in A
    BY <2>6
  <2> QED BY <2>7 DEF A, v
<1>2. ASSUME NEW c \in CmdChars, c \notin {"quote", "back"}
      PROVE  SplitChar(At(a, p, k, TRUE, TRUE), c)
               = At(a, Append(p \o Times("back", k), c), 0, TRUE, TRUE)
  <2> DEFINE v == At(a, p, k, TRUE, TRUE)
  <2>1. v \in SplitStates /\ v.args = a /\ v.cur = p /\ v.back = k /\ v.quoted
    BY <1>0
  <2> HIDE DEF v
  <2>2. SplitChar(v, c) = At(v.args, Append(v.cur \o Times("back", v.back), c), 0, TRUE, TRUE)
    BY <1>2, <2>1, SplitCases
  <2> QED BY <2>1, <2>2 DEF v
<1>3. ASSUME a # <<>>
      PROVE  SplitChar(At(a, p, 2 * k + 1, TRUE, TRUE), "quote")
               = At(a, Append(p \o Times("back", k), "quote"), 0, TRUE, TRUE)
  <2>1. (2 * k + 1) % 2 # 0 /\ (2 * k + 1) \div 2 = k /\ 2 * k + 1 \in Nat /\ "quote" \in CmdChars
    BY DEF CmdChars
  <2> DEFINE v == At(a, p, 2 * k + 1, TRUE, TRUE)
  <2>2. v \in SplitStates /\ v.args = a /\ v.cur = p /\ v.back = 2 * k + 1 /\ v.quoted = TRUE
    BY <1>0, <2>1
  <2> HIDE DEF v
  <2>3. SplitChar(v, "quote") = At(v.args, Append(v.cur \o Times("back", v.back \div 2), "quote"),
                                   0, v.quoted, TRUE)
    BY <1>3, <2>1, <2>2, SplitCases
  <2> QED BY <2>1, <2>2, <2>3 DEF v
<1>4. ASSUME a # <<>> \/ k = 0
      PROVE  SplitChar(At(a, p, 2 * k, TRUE, TRUE), "quote")
               = At(a, p \o Times("back", k), 0, FALSE, TRUE)
  <2>1. (2 * k) % 2 = 0 /\ (2 * k) \div 2 = k /\ 2 * k \in Nat /\ "quote" \in CmdChars
    BY DEF CmdChars
  <2> DEFINE v == At(a, p, 2 * k, TRUE, TRUE)
  <2>2. v \in SplitStates /\ v.args = a /\ v.cur = p /\ v.back = 2 * k /\ v.quoted = TRUE
    BY <1>0, <2>1
  <2> HIDE DEF v
  <2>3. SplitChar(v, "quote") = At(v.args, v.cur \o Times("back", v.back \div 2), 0, ~v.quoted, TRUE)
    <3>1. v.back % 2 = 0 /\ (v.args # <<>> \/ v.back = 0)
      BY <1>4, <2>1, <2>2
    <3> QED BY <2>1, <2>2, <3>1, SplitCases
  <2> QED BY <2>1, <2>2, <2>3 DEF v
<1> QED BY <1>1, <1>2, <1>3, <1>4

(* A character behind two lists is one behind the second. *)
LEMMA AppendJoin ==
  ASSUME NEW p \in Seq(CmdChars), NEW u \in Seq(CmdChars), NEW c \in CmdChars
  PROVE  Append(p \o u, c) = p \o Append(u, c)
<1> DEFINE S == CmdChars
           x == Append(p \o u, c)
           y == p \o Append(u, c)
<1> HIDE DEF S
<1>0. p \in Seq(S) /\ u \in Seq(S) /\ c \in S
  BY DEF S
<1>1. /\ p \o u \in Seq(S) /\ Len(p \o u) = Len(p) + Len(u)
      /\ \A k \in 1 .. Len(p) + Len(u) : (p \o u)[k] = IF k <= Len(p) THEN p[k] ELSE u[k - Len(p)]
  BY <1>0
<1>2. /\ Append(u, c) \in Seq(S) /\ Len(Append(u, c)) = Len(u) + 1
      /\ \A k \in 1 .. Len(u) + 1 : Append(u, c)[k] = IF k <= Len(u) THEN u[k] ELSE c
  BY <1>0
<1>3. /\ x \in Seq(S) /\ Len(x) = Len(p) + Len(u) + 1
      /\ \A k \in 1 .. Len(x) : x[k] = IF k <= Len(p) + Len(u) THEN (p \o u)[k] ELSE c
  <2> DEFINE z == p \o u
  <2>1. z \in Seq(S)
    BY <1>1
  <2> HIDE DEF z
  <2> QED BY <1>0, <1>1, <2>1 DEF z
<1>4. /\ y \in Seq(S) /\ Len(y) = Len(p) + Len(u) + 1
      /\ \A k \in 1 .. Len(y) : y[k] = IF k <= Len(p) THEN p[k] ELSE Append(u, c)[k - Len(p)]
  <2> DEFINE z == Append(u, c)
  <2>1. z \in Seq(S) /\ Len(z) = Len(u) + 1
    BY <1>2
  <2> HIDE DEF z
  <2> QED BY <1>0, <2>1 DEF z
<1>5. Len(p) \in Nat /\ Len(u) \in Nat
  BY <1>0
<1> HIDE DEF x, y
<1>6. ASSUME NEW k \in 1 .. Len(x) PROVE x[k] = y[k]
  <2> DEFINE m == Len(p)
             n == Len(u)
  <2>0. m \in Nat /\ n \in Nat /\ k \in 1 .. m + n + 1
    BY <1>3, <1>5
  <2>1. CASE k <= m
    <3>1. k \in 1 .. m + n
      BY <2>0, <2>1
    <3> QED BY <1>1, <1>3, <1>4, <2>1, <3>1
  <2>2. CASE k > m /\ k <= m + n
    <3>1. k \in 1 .. m + n /\ ~(k <= m) /\ k - m \in 1 .. n + 1 /\ k - m <= n
      BY <2>0, <2>2
    <3>2. x[k] = u[k - m]
      <4>1. x[k] = (p \o u)[k]
        BY <1>3, <3>1
      <4>2. (p \o u)[k] = u[k - m]
        BY <1>1, <3>1
      <4> QED BY <4>1, <4>2
    <3>3. y[k] = u[k - m]
      BY <1>2, <1>3, <1>4, <3>1
    <3> QED BY <3>2, <3>3
  <2>3. CASE k = m + n + 1
    <3>1. ~(k <= m) /\ ~(k <= m + n) /\ k - m \in 1 .. n + 1 /\ ~(k - m <= n)
      BY <2>0, <2>3
    <3> QED BY <1>2, <1>3, <1>4, <3>1
  <2> QED BY <2>0, <2>1, <2>2, <2>3
<1>7. x = y
  BY <1>3, <1>4, <1>6, SeqEqual
<1> QED BY <1>7 DEF x, y

(* What the part of an argument that is written out is split into: all of it
   but the backslashes that are held back. *)
WrittenOf(arg, a) ==
  LET q == quote_chars(arg) IN
  \E p \in Seq(CmdChars) : /\ arg = p \o Times("back", q.back)
                           /\ Split(At(a, <<>>, 0, FALSE, FALSE), q.out)
                                = At(a, p, 0, TRUE, TRUE)

(* One more character of the argument: what quote_char writes for it, the
   splitter reads as that character, unless it is a quote in the name. *)
LEMMA WrittenStep ==
  ASSUME NEW a \in Seq(Seq(CmdChars)), NEW arg \in Seq(CmdChars), NEW c \in CmdChars,
         WrittenOf(arg, a), c = "quote" => a # <<>>
  PROVE  WrittenOf(Append(arg, c), a)
<1> DEFINE q == quote_chars(arg)
           w == At(a, <<>>, 0, FALSE, FALSE)
<1>1. PICK p \in Seq(CmdChars) : /\ arg = p \o Times("back", q.back)
                                /\ Split(w, q.out) = At(a, p, 0, TRUE, TRUE)
  BY DEF WrittenOf
<1>2. /\ q \in QuoteStates /\ quote_chars(Append(arg, c)) = quote_char(q, c)
      /\ q.back \in Nat /\ q.out \in Seq(CmdChars)
  BY QuoteFacts DEF QuoteStates
<1>3. w \in SplitStates
  <2>1. <<>> \in Seq(CmdChars)
    OBVIOUS
  <2> QED BY <2>1, AtType
<1> DEFINE k == q.back
<1>4. "back" \in CmdChars /\ "quote" \in CmdChars /\ 2 * k + 1 \in Nat /\ k + 1 \in Nat
  BY <1>2 DEF CmdChars
<1>5. /\ Times("back", k) \in Seq(CmdChars) /\ Times("back", 2 * k + 1) \in Seq(CmdChars)
      /\ Append(Times("back", k), "back") = Times("back", k + 1)
      /\ Times("back", 0) = <<>>
  BY <1>2, <1>4, TimesFacts
<1> HIDE DEF w, q
<1>6. CASE c = "back"
  <2>1. quote_char(q, c).back = k + 1 /\ quote_char(q, c).out = q.out
    BY <1>2, <1>6 DEF quote_char, QuoteStates
  <2>2. Append(arg, "back") = p \o Times("back", k + 1)
    <3>1. Append(p \o Times("back", k), "back") = p \o Append(Times("back", k), "back")
      <4> DEFINE u == Times("back", k)
      <4>1. u \in Seq(CmdChars)
        BY <1>5
      <4> HIDE DEF u
      <4>2. Append(p \o u, "back") = p \o Append(u, "back")
        BY <1>1, <1>4, <4>1, AppendJoin
      <4> QED BY <4>2 DEF u
    <3> QED BY <1>1, <1>5, <3>1
  <2> QED BY <1>1, <1>2, <1>6, <2>1, <2>2 DEF WrittenOf, w
<1>7. ASSUME NEW b \in Nat, c # "back",
             quote_char(q, c) = [back |-> 0, out |-> q.out \o Times("back", b) \o <<c>>],
             SplitChar(At(a, p, b, TRUE, TRUE), c)
               = At(a, Append(p \o Times("back", k), c), 0, TRUE, TRUE)
      PROVE  WrittenOf(Append(arg, c), a)
  <2> DEFINE r == q.out \o Times("back", b)
  <2>1. Times("back", b) \in Seq(CmdChars)
    BY <1>4, TimesFacts
  <2>2. r \in Seq(CmdChars) /\ r \o <<c>> = Append(r, c) /\ q.out \o Times("back", b) \o <<c>> = Append(r, c)
    <3>1. q.out \in Seq(CmdChars)
      BY <1>2
    <3>2. r \in Seq(CmdChars)
      BY <2>1, <3>1
    <3> HIDE DEF r
    <3>3. r \o <<c>> = Append(r, c)
      BY <3>2
    <3> QED BY <3>2, <3>3 DEF r
  <2>3. Split(w, r) = At(a, p, b, TRUE, TRUE)
    <3>1. Split(w, r) = Split(Split(w, q.out), Times("back", b))
      BY <1>2, <1>3, <2>1, SplitJoin
    <3>2. Split(At(a, p, 0, TRUE, TRUE), Times("back", b)) = At(a, p, b, TRUE, TRUE)
      BY SplitInside
    <3> QED BY <1>1, <3>1, <3>2
  <2> HIDE DEF r
  <2>4. Split(w, Append(r, c)) = SplitChar(Split(w, r), c)
    BY <1>3, <2>2, SplitFacts
  <2>5. Append(arg, c) \in Seq(CmdChars) /\ Append(arg, c) = Append(arg, c) \o Times("back", 0)
    BY <1>5
  <2>6. quote_char(q, c).back = 0 /\ quote_char(q, c).out = Append(r, c)
    <3>1. quote_char(q, c) = [back |-> 0, out |-> Append(r, c)]
      BY <1>7, <2>2
    <3> QED BY <3>1
  <2>7. Split(w, quote_char(q, c).out) = At(a, Append(arg, c), 0, TRUE, TRUE)
    BY <1>1, <1>7, <2>3, <2>4, <2>6
  <2> QED BY <1>2, <2>5, <2>6, <2>7 DEF WrittenOf, w
<1>8. CASE c = "quote"
  <2>1. quote_char(q, c) = [back |-> 0, out |-> q.out \o Times("back", 2 * k + 1) \o <<c>>]
    BY <1>8 DEF quote_char
  <2>2. SplitChar(At(a, p, 2 * k + 1, TRUE, TRUE), c)
               = At(a, Append(p \o Times("back", k), c), 0, TRUE, TRUE)
    BY <1>2, <1>8, SplitInside
  <2> QED BY <1>4, <1>7, <1>8, <2>1, <2>2
<1>9. CASE c \notin {"back", "quote"}
  <2>1. quote_char(q, c) = [back |-> 0, out |-> q.out \o Times("back", k) \o <<c>>]
    BY <1>9 DEF quote_char
  <2>2. SplitChar(At(a, p, k, TRUE, TRUE), c)
               = At(a, Append(p \o Times("back", k), c), 0, TRUE, TRUE)
    BY <1>2, <1>9, SplitInside
  <2> QED BY <1>2, <1>7, <1>9, <2>1, <2>2
<1> QED BY <1>6, <1>8, <1>9

\* There is no quote in the argument.
NoQuote(arg) == \A i \in DOMAIN arg : arg[i] # "quote"

(* An argument is split into itself, and so is a name without quotes that does
   not end in a backslash. *)
LEMMA QuotedIsSplit ==
  ASSUME NEW a \in Seq(Seq(CmdChars)), NEW arg \in Seq(CmdChars)
  PROVE  /\ quote_arg(arg) \in Seq(CmdChars)
         /\ a # <<>> \/ IsName(arg) =>
              Split(At(a, <<>>, 0, FALSE, FALSE), quote_arg(arg)) = At(a, arg, 0, FALSE, TRUE)
<1> DEFINE w == At(a, <<>>, 0, FALSE, FALSE)
           A == {s \in Seq(CmdChars) : a # <<>> \/ NoQuote(s) => WrittenOf(s, a)}
<1>0. /\ <<>> \in Seq(CmdChars) /\ "back" \in CmdChars /\ "quote" \in CmdChars
  BY DEF CmdChars
<1>1. /\ w \in SplitStates /\ w.args = a /\ w.cur = <<>> /\ w.back = 0 /\ w.quoted = FALSE
      /\ w.some = FALSE
  <2>1. w \in SplitStates
    BY <1>0, AtType
  <2> QED BY <2>1 DEF At
<1>2. <<>> \in A
  <2>1. Times("back", 0) = <<>> /\ <<>> = <<>> \o <<>>
    BY <1>0, TimesFacts
  <2>2. quote_chars(<<>>).back = 0 /\ quote_chars(<<>>).out = <<"quote">>
    BY QuoteFacts DEF QuoteStart
  <2>3. Split(w, <<"quote">>) = At(a, <<>>, 0, TRUE, TRUE)
    <3>1. <<"quote">> = Append(<<>>, "quote")
      OBVIOUS
    <3> HIDE DEF w
    <3>2. Split(w, Append(<<>>, "quote")) = SplitChar(Split(w, <<>>), "quote") /\ Split(w, <<>>) = w
      BY <1>0, <1>1, SplitFacts
    <3>3. SplitChar(w, "quote") = At(w.args, w.cur \o Times("back", w.back \div 2), 0, ~w.quoted, TRUE)
      <4>1. w.back % 2 = 0 /\ w.back = 0
        BY <1>1
      <4> QED BY <1>0, <1>1, <4>1, SplitCases
    <3>4. 0 \div 2 = 0
      OBVIOUS
    <3> QED BY <1>1, <2>1, <3>1, <3>2, <3>3, <3>4
  <2> HIDE DEF w
  <2> QED BY <1>0, <2>1, <2>2, <2>3 DEF WrittenOf, w
<1>3. \A s \in Seq(CmdChars), c \in CmdChars : s \in A => Append(s, c) \in A
  <2> SUFFICES ASSUME NEW s \in Seq(CmdChars), NEW c \in CmdChars, s \in A,
                      a # <<>> \/ NoQuote(Append(s, c))
               PROVE  Append(s, c) \in Seq(CmdChars) /\ WrittenOf(Append(s, c), a)
    OBVIOUS
  <2>1. Append(s, c) \in Seq(CmdChars)
    OBVIOUS
  <2>2. NoQuote(Append(s, c)) => NoQuote(s) /\ c # "quote"
    <3>1. /\ DOMAIN s \subseteq DOMAIN Append(s, c) /\ Len(s) + 1 \in DOMAIN Append(s, c)
          /\ Append(s, c)[Len(s) + 1] = c /\ \A i \in DOMAIN s : Append(s, c)[i] = s[i]
      OBVIOUS
    <3> QED BY <3>1 DEF NoQuote
  <2>3. WrittenOf(s, a) /\ (c = "quote" => a # <<>>)
    BY <2>2
  <2> QED BY <2>1, <2>3, WrittenStep
<1> HIDE DEF A
<1>4. arg \in A
  BY <1>2, <1>3, SeqInduct
<1> DEFINE q == quote_chars(arg)
           k == q.back
<1>6. k \in Nat /\ q.out \in Seq(CmdChars) /\ 2 * k \in Nat
  BY QuoteFacts DEF QuoteStates
<1> HIDE DEF w, q
<1> DEFINE r == q.out \o Times("back", 2 * k)
<1>7. Times("back", 2 * k) \in Seq(CmdChars)
  BY <1>0, <1>6, TimesFacts
<1>8. r \in Seq(CmdChars) /\ quote_arg(arg) = Append(r, "quote")
  <2>1. quote_arg(arg) = q.out \o Times("back", 2 * k) \o <<"quote">>
    BY DEF quote_arg, q
  <2> DEFINE u == Times("back", 2 * k)
             o == q.out
  <2>2. u \in Seq(CmdChars) /\ o \in Seq(CmdChars)
    BY <1>6, <1>7
  <2> HIDE DEF u, o
  <2>3. o \o u \in Seq(CmdChars) /\ (o \o u) \o <<"quote">> = Append(o \o u, "quote")
    BY <1>0, <2>2
  <2> QED BY <2>1, <2>3 DEF u, o
<1> SUFFICES ASSUME a # <<>> \/ IsName(arg)
             PROVE  Split(w, quote_arg(arg)) = At(a, arg, 0, FALSE, TRUE)
  <2>1. Append(r, "quote") \in Seq(CmdChars)
    BY <1>0, <1>8
  <2> QED BY <1>8, <2>1 DEF w
<1>5. PICK p \in Seq(CmdChars) : arg = p \o Times("back", k) /\ Split(w, q.out) = At(a, p, 0, TRUE, TRUE)
  <2>1. IsName(arg) => NoQuote(arg)
    BY DEF IsName, NoQuote
  <2> QED BY <1>4, <2>1 DEF A, WrittenOf, w, q
<1>13. a # <<>> \/ k = 0
  <2> SUFFICES ASSUME IsName(arg), k > 0 PROVE FALSE
    BY <1>6
  <2> DEFINE b == Times("back", k)
  <2>1. b \in Seq(CmdChars) /\ Len(b) = k /\ b[k] = "back"
    <3>1. b \in Seq(CmdChars) /\ Len(b) = k
      BY <1>0, <1>6, TimesFacts
    <3> QED BY <1>6, <3>1 DEF Times
  <2>2. arg = p \o b
    BY <1>5
  <2> HIDE DEF b
  <2>3. Len(arg) \in DOMAIN arg /\ arg[Len(arg)] = "back"
    BY <1>6, <2>1, <2>2
  <2> QED BY <2>3 DEF IsName
<1>9. Split(w, r) = At(a, p, 2 * k, TRUE, TRUE)
  <2>1. Split(w, r) = Split(Split(w, q.out), Times("back", 2 * k))
    BY <1>1, <1>6, <1>7, SplitJoin
  <2>2. Split(At(a, p, 0, TRUE, TRUE), Times("back", 2 * k)) = At(a, p, 2 * k, TRUE, TRUE)
    BY <1>6, SplitInside
  <2> QED BY <1>5, <2>1, <2>2
<1> HIDE DEF r
<1>10. Split(w, Append(r, "quote")) = SplitChar(Split(w, r), "quote")
  BY <1>0, <1>1, <1>8, SplitFacts
<1>11. SplitChar(At(a, p, 2 * k, TRUE, TRUE), "quote") = At(a, p \o Times("back", k), 0, FALSE, TRUE)
  BY <1>6, <1>13, SplitInside
<1>12. Append(r, "quote") \in Seq(CmdChars)
  BY <1>0, <1>8
<1> QED BY <1>5, <1>8, <1>9, <1>10, <1>11, <1>12 DEF w

(* Its length is at most twice that of the argument, and two quotes. *)
LEMMA QuotedLength ==
  ASSUME NEW arg \in Seq(CmdChars)
  PROVE  Len(quote_arg(arg)) \in Nat /\ Len(quote_arg(arg)) <= 2 * Len(arg) + 2
<1> DEFINE L(s) == Len(quote_chars(s).out) + 2 * quote_chars(s).back
           A == {s \in Seq(CmdChars) : L(s) <= 2 * Len(s) + 1}
<1>0. /\ <<>> \in Seq(CmdChars) /\ "back" \in CmdChars /\ "quote" \in CmdChars
  BY DEF CmdChars
<1>1. <<>> \in A
  <2>1. quote_chars(<<>>).back = 0 /\ quote_chars(<<>>).out = <<"quote">>
    BY QuoteFacts DEF QuoteStart
  <2>2. Len(<<"quote">>) = 1 /\ Len(<<>>) = 0
    OBVIOUS
  <2>4. Len(quote_chars(<<>>).out) = 1
    BY <2>1, <2>2, Zenon
  <2>5. L(<<>>) = 1 + 2 * 0 /\ 2 * Len(<<>>) + 1 = 2 * 0 + 1
    BY <2>1, <2>2, <2>4, Zenon
  <2> HIDE DEF L
  <2>3. L(<<>>) <= 2 * Len(<<>>) + 1
    BY <2>5
  <2> QED BY <1>0, <2>3
<1>2. ASSUME NEW s \in Seq(CmdChars), NEW c \in CmdChars, s \in A PROVE Append(s, c) \in A
  <2> DEFINE q == quote_chars(s)
             k == q.back
             o == q.out
  <2>1. q \in QuoteStates /\ k \in Nat /\ o \in Seq(CmdChars) /\ Len(o) \in Nat /\ Len(s) \in Nat
    BY QuoteFacts, SMTT(40) DEF QuoteStates
  <2>2. quote_chars(Append(s, c)) = quote_char(q, c)
    BY QuoteFacts
  <2>3. Append(s, c) \in Seq(CmdChars) /\ Len(Append(s, c)) = Len(s) + 1
    OBVIOUS
  <2>4. Len(o) + 2 * k <= 2 * Len(s) + 1
    BY <1>2
  <2> HIDE DEF q
  <2>5. CASE c = "back"
    <3>1. quote_char(q, c).back = k + 1 /\ quote_char(q, c).out = o
      BY <2>1, <2>5 DEF quote_char, QuoteStates
    <3> QED BY <2>1, <2>2, <2>3, <2>4, <3>1, SMTT(40)
  <2>6. ASSUME NEW b \in Nat, b <= 2 * k + 1,
               quote_char(q, c) = [back |-> 0, out |-> o \o Times("back", b) \o <<c>>]
        PROVE  Append(s, c) \in A
    <3>1. Times("back", b) \in Seq(CmdChars) /\ Len(Times("back", b)) = b
      BY <1>0, TimesFacts
    <3>2. Len(o \o Times("back", b) \o <<c>>) = Len(o) + b + 1
      <4> DEFINE u == Times("back", b)
      <4>1. u \in Seq(CmdChars) /\ Len(u) = b /\ o \in Seq(CmdChars)
        BY <2>1, <3>1
      <4> HIDE DEF u, o
      <4>2. Len(o \o u \o <<c>>) = Len(o) + Len(u) + 1
        <5>1. <<c>> \in Seq(CmdChars) /\ Len(<<c>>) = 1
          OBVIOUS
        <5>2. o \o u \in Seq(CmdChars) /\ Len(o \o u) = Len(o) + Len(u)
          BY <4>1
        <5> QED BY <5>1, <5>2
      <4> QED BY <4>1, <4>2 DEF u
    <3>3. quote_char(q, c).back = 0 /\ Len(quote_char(q, c).out) = Len(o) + b + 1
      BY <2>6, <3>2
    <3>4. L(Append(s, c)) = (Len(o) + b + 1) + 2 * 0
      BY <2>2, <3>3
    <3> DEFINE m == L(Append(s, c))
    <3> HIDE DEF m, L, o, k
    <3>5. m <= 2 * (Len(s) + 1) + 1
      <4>1. Len(o) \in Nat /\ k \in Nat /\ Len(s) \in Nat /\ m = (Len(o) + b + 1) + 2 * 0
        BY <2>1, <3>4 DEF m
      <4> QED BY <2>4, <2>6, <4>1
    <3> QED BY <2>3, <3>5 DEF m
  <2>7. CASE c = "quote"
    <3>1. quote_char(q, c) = [back |-> 0, out |-> o \o Times("back", 2 * k + 1) \o <<c>>]
      BY <2>7 DEF quote_char
    <3>2. 2 * k + 1 \in Nat /\ 2 * k + 1 <= 2 * k + 1
      BY <2>1
    <3> QED BY <2>6, <3>1, <3>2
  <2>8. CASE c \notin {"back", "quote"}
    <3>1. quote_char(q, c) = [back |-> 0, out |-> o \o Times("back", k) \o <<c>>]
      BY <2>8 DEF quote_char
    <3>2. k \in Nat /\ k <= 2 * k + 1
      BY <2>1
    <3> QED BY <2>6, <3>1, <3>2
  <2> QED BY <2>5, <2>7, <2>8
<1> HIDE DEF A
<1>3. arg \in A
  BY <1>1, <1>2, SeqInduct
<1> DEFINE q == quote_chars(arg)
           k == q.back
<1>4. k \in Nat /\ q.out \in Seq(CmdChars) /\ 2 * k \in Nat /\ Len(q.out) \in Nat /\ Len(arg) \in Nat
  BY QuoteFacts DEF QuoteStates
<1>5. Len(q.out) + 2 * k <= 2 * Len(arg) + 1
  BY <1>3 DEF A
<1> HIDE DEF q
<1>6. Times("back", 2 * k) \in Seq(CmdChars) /\ Len(Times("back", 2 * k)) = 2 * k
  BY <1>0, <1>4, TimesFacts
<1>7. Len(quote_arg(arg)) = Len(q.out) + 2 * k + 1
  <2>1. quote_arg(arg) = q.out \o Times("back", 2 * k) \o <<"quote">>
    BY DEF quote_arg, q
  <2> DEFINE u == Times("back", 2 * k)
             o == q.out
  <2>2. u \in Seq(CmdChars) /\ o \in Seq(CmdChars) /\ Len(u) = 2 * k
    BY <1>4, <1>6
  <2> HIDE DEF u, o
  <2>3. Len(o \o u \o <<"quote">>) = Len(o) + Len(u) + 1
    BY <1>0, <2>2
  <2> QED BY <2>1, <2>2, <2>3 DEF u, o
<1> QED BY <1>4, <1>5, <1>7

(* Sums of lists. *)
PlusStep == [p \in Nat \X Nat |-> p[1] + p[2]]

(* Total is the fold of addition. *)
LEMMA TotalFacts ==
  /\ Total(<<>>) = 0
  /\ \A t \in Seq(Nat) : Total(t) \in Nat
  /\ \A t \in Seq(Nat), c \in Nat : Total(Append(t, c)) = Total(t) + c
<1>1. PlusStep \in [Nat \X Nat -> Nat]
      /\ \A d \in Nat, c \in Nat : PlusStep[<<d, c>>] = d + c
  BY DEF PlusStep
<1>2. PICK h : IsFoldOf(h, PlusStep, 0, Nat, Nat)
  BY <1>1, FoldOf
<1>3. ASSUME NEW t \in Seq(Nat) PROVE Total(t) = h[t]
  <2>0. \A i \in 1 .. Len(t) : t[i] \in Nat /\ i - 1 \in 0 .. Len(t)
    OBVIOUS
  <2>1. PICK g \in [0 .. Len(t) -> Nat] : IsListFold(g, PlusStep, 0, t)
    BY <1>2 DEF IsFoldOf
  <2>2. g = [i \in 0 .. Len(t) |-> IF i = 0 THEN 0 ELSE g[i - 1] + t[i]]
    <3>1. \A i \in 0 .. Len(t) : i # 0 => PlusStep[<<g[i - 1], t[i]>>] = g[i - 1] + t[i]
      BY <1>1, <2>0
    <3>2. g = [i \in 0 .. Len(t) |-> IF i = 0 THEN 0 ELSE PlusStep[<<g[i - 1], t[i]>>]]
      BY <2>1 DEF IsListFold
    <3> QED BY <3>1, <3>2
  <2>3. PICK f : /\ f = [i \in 0 .. Len(t) |-> IF i = 0 THEN 0 ELSE f[i - 1] + t[i]]
                 /\ Total(t) = f[Len(t)]
    BY <2>2, Zenon DEF Total
  <2>4. FoldSteps(f, PlusStep, 0, t, Len(t), Nat)
    <3> DEFINE E(i) == IF i = 0 THEN 0 ELSE f[i - 1] + t[i]
    <3>1. f = [i \in 0 .. Len(t) |-> E(i)]
      BY <2>3
    <3> HIDE DEF E
    <3>2. Len(t) \in Nat /\ \A i \in 0 .. Len(t) : f[i] = E(i)
      BY <3>1
    <3>3. f[0] = 0
      BY <3>2 DEF E
    <3>4. \A i \in 1 .. Len(t) : i # 0 /\ f[i] = E(i)
      BY <3>2
    <3>5. \A i \in 1 .. Len(t) : f[i] = f[i - 1] + t[i]
      BY <3>4 DEF E
    <3> QED BY <1>1, <2>0, <3>3, <3>5 DEF FoldSteps
  <2> QED BY <1>2, <2>3, <2>4 DEF IsFoldOf
<1>4. <<>> \in Seq(Nat) /\ \A t \in Seq(Nat), c \in Nat : Append(t, c) \in Seq(Nat)
  OBVIOUS
<1>5. Total(<<>>) = 0
  BY <1>2, <1>3, <1>4 DEF IsFoldOf
<1>6. \A t \in Seq(Nat) : Total(t) \in Nat
  BY <1>2, <1>3 DEF IsFoldOf
<1>7. ASSUME NEW t \in Seq(Nat), NEW c \in Nat
      PROVE  Total(Append(t, c)) = Total(t) + c
  <2>1. h[Append(t, c)] = PlusStep[<<h[t], c>>] /\ h[t] \in Nat
    BY <1>2 DEF IsFoldOf
  <2> QED BY <1>1, <1>3, <1>4, <2>1
<1> QED BY <1>5, <1>6, <1>7

(* Parts, each with a separator in front. *)
LEMMA LedFacts ==
  ASSUME NEW S, NEW sep \in S
  PROVE  /\ Led(<<>>, sep) = <<>>
         /\ \A t \in Seq(Seq(S)) : Led(t, sep) \in Seq(S)
         /\ \A t \in Seq(Seq(S)), c \in Seq(S) :
              Led(Append(t, c), sep) = Led(t, sep) \o <<sep>> \o c
<1> DEFINE D == Seq(S)
           step == [p \in D \X D |-> p[1] \o <<sep>> \o p[2]]
<1>0. \A d, c \in D : d \o <<sep>> \o c \in D
  OBVIOUS
<1>1. step \in [D \X D -> D] /\ \A d, c \in D : step[<<d, c>>] = d \o <<sep>> \o c
  BY <1>0
<1>9. <<>> \in D
  OBVIOUS
<1> HIDE DEF D, step
<1>2. PICK h : IsFoldOf(h, step, <<>>, D, D)
  BY <1>1, <1>9, FoldOf
<1>3. ASSUME NEW t \in Seq(D) PROVE Led(t, sep) = h[t]
  <2>0. \A i \in 1 .. Len(t) : t[i] \in D /\ i - 1 \in 0 .. Len(t)
    OBVIOUS
  <2>1. PICK g \in [0 .. Len(t) -> D] : IsListFold(g, step, <<>>, t)
    BY <1>2 DEF IsFoldOf
  <2>2. g = [i \in 0 .. Len(t) |-> IF i = 0 THEN <<>> ELSE g[i - 1] \o <<sep>> \o t[i]]
    <3>1. \A i \in 0 .. Len(t) : i # 0 => step[<<g[i - 1], t[i]>>] = g[i - 1] \o <<sep>> \o t[i]
      <4>1. \A i \in 0 .. Len(t) : i # 0 => g[i - 1] \in D /\ t[i] \in D
        BY <2>0
      <4> QED BY <1>1, <4>1, Zenon
    <3>2. g = [i \in 0 .. Len(t) |-> IF i = 0 THEN <<>> ELSE step[<<g[i - 1], t[i]>>]]
      BY <2>1 DEF IsListFold
    <3> QED BY <3>1, <3>2
  <2>3. PICK f : /\ f = [i \in 0 .. Len(t) |-> IF i = 0 THEN <<>> ELSE f[i - 1] \o <<sep>> \o t[i]]
                 /\ Led(t, sep) = f[Len(t)]
    BY <2>2, Zenon DEF Led
  <2>4. FoldSteps(f, step, <<>>, t, Len(t), D)
    <3> DEFINE E(i) == IF i = 0 THEN <<>> ELSE f[i - 1] \o <<sep>> \o t[i]
    <3>1. f = [i \in 0 .. Len(t) |-> E(i)]
      BY <2>3
    <3> HIDE DEF E
    <3>2. Len(t) \in Nat /\ \A i \in 0 .. Len(t) : f[i] = E(i)
      BY <3>1
    <3>3. f[0] = <<>>
      BY <3>2 DEF E
    <3>4. \A i \in 1 .. Len(t) : i # 0 /\ f[i] = E(i)
      BY <3>2
    <3>5. \A i \in 1 .. Len(t) : f[i] = f[i - 1] \o <<sep>> \o t[i]
      BY <3>4 DEF E
    <3> QED BY <1>1, <2>0, <3>3, <3>5 DEF FoldSteps
  <2> QED BY <1>2, <2>3, <2>4 DEF IsFoldOf
<1>4. <<>> \in Seq(D) /\ \A t \in Seq(D), c \in D : Append(t, c) \in Seq(D)
  OBVIOUS
<1>5. Led(<<>>, sep) = <<>>
  BY <1>2, <1>3, <1>4 DEF IsFoldOf
<1>6. \A t \in Seq(D) : Led(t, sep) \in D
  BY <1>2, <1>3 DEF IsFoldOf
<1>7. ASSUME NEW t \in Seq(D), NEW c \in D
      PROVE  Led(Append(t, c), sep) = Led(t, sep) \o <<sep>> \o c
  <2>1. h[Append(t, c)] = step[<<h[t], c>>] /\ h[t] \in D
    BY <1>2 DEF IsFoldOf
  <2> QED BY <1>1, <1>3, <1>4, <2>1
<1> QED BY <1>5, <1>6, <1>7 DEF D

(* strlen counts at least one for each character. *)
LEMMA StrlenFacts ==
  ASSUME NEW arg \in Seq(CmdChars)
  PROVE  strlen(arg) \in Nat /\ Len(arg) <= strlen(arg)
<1> DEFINE W(s) == [i \in DOMAIN s |-> IF s[i] = "wide" THEN 2 ELSE 1]
           A == {s \in Seq(CmdChars) : Len(s) <= Total(W(s))}
<1>1. \A s \in Seq(CmdChars) : W(s) \in Seq(Nat)
  OBVIOUS
<1>2. <<>> \in A
  <2>1. W(<<>>) = <<>> /\ Len(<<>>) = 0 /\ <<>> \in Seq(CmdChars)
    OBVIOUS
  <2>2. Total(<<>>) = 0
    BY TotalFacts
  <2> HIDE DEF W
  <2> QED BY <2>1, <2>2
<1>3. ASSUME NEW s \in Seq(CmdChars), NEW c \in CmdChars, s \in A PROVE Append(s, c) \in A
  <2> DEFINE b == IF c = "wide" THEN 2 ELSE 1
  <2>1. W(Append(s, c)) = Append(W(s), b)
    OBVIOUS
  <2>2. b \in Nat /\ b >= 1 /\ Len(s) \in Nat /\ Len(Append(s, c)) = Len(s) + 1 /\ Append(s, c) \in Seq(CmdChars)
    OBVIOUS
  <2> HIDE DEF W, b
  <2>3. Total(W(Append(s, c))) = Total(W(s)) + b /\ Total(W(s)) \in Nat
    BY <1>1, <2>1, <2>2, TotalFacts
  <2> QED BY <1>3, <2>2, <2>3
<1> HIDE DEF A
<1>4. arg \in A
  BY <1>2, <1>3, SeqInduct
<1>5. strlen(arg) = Total(W(arg))
  BY DEF strlen
<1> HIDE DEF W
<1> QED BY <1>1, <1>4, <1>5, TotalFacts DEF A

(* Two lists joined and one element more. *)
LEMMA AppendTwice ==
  ASSUME NEW l \in Seq(CmdChars), NEW b \in Seq(CmdChars), NEW x \in CmdChars
  PROVE  Append(l \o <<x>> \o b, x) = Append(l, x) \o Append(b, x)
<1>1. Append(l, x) \in Seq(CmdChars) /\ l \o <<x>> = Append(l, x)
  OBVIOUS
<1> DEFINE m == Append(l, x)
<1>2. m \in Seq(CmdChars)
  BY <1>1
<1> HIDE DEF m
<1>3. Append(m \o b, x) = m \o Append(b, x)
  BY <1>2, AppendJoin
<1> QED BY <1>1, <1>3 DEF m

\* The arguments with their quotes, as argv_to_cmdline joins them.
Quoted(argv) == [i \in DOMAIN argv |-> quote_arg(argv[i])]

\* The program's name is one that can be quoted.
Named(argv) == argv = <<>> \/ IsName(argv[1])

(* The command line with a separator in front of every argument. *)
LEMMA CmdlineSplits ==
  ASSUME NEW argv \in Seq(Seq(CmdChars))
  PROVE  /\ Quoted(argv) \in Seq(Seq(CmdChars))
         /\ Named(argv) => Split(SplitStart, Append(Led(Quoted(argv), "space"), "space"))
              = At(argv, <<>>, 0, FALSE, FALSE)
<1> DEFINE C == Seq(CmdChars)
           T(s) == Append(Led(Quoted(s), "space"), "space")
           A == {s \in Seq(C) : Named(s) => Split(SplitStart, T(s)) = At(s, <<>>, 0, FALSE, FALSE)}
<1>0. "space" \in CmdChars /\ <<>> \in C /\ <<>> \in Seq(C)
  BY DEF CmdChars
<1>1. \A s \in Seq(C) : Quoted(s) \in Seq(C)
  <2> TAKE s \in Seq(C)
  <2>1. \A i \in DOMAIN s : quote_arg(s[i]) \in C
    <3>1. ASSUME NEW a \in C PROVE quote_arg(a) \in C
      BY <1>0, QuotedIsSplit
    <3>2. \A i \in DOMAIN s : s[i] \in C
      OBVIOUS
    <3> QED BY <3>1, <3>2
  <2> HIDE DEF C
  <2> QED BY <2>1 DEF Quoted
<1>2. SplitStart = At(<<>>, <<>>, 0, FALSE, FALSE)
  BY DEF SplitStart, At
<1>3. ASSUME NEW s \in Seq(C)
      PROVE  LET v == At(s, <<>>, 0, FALSE, FALSE) IN
             v \in SplitStates /\ v.quoted = FALSE /\ v.some = FALSE /\ v.args = s
  <2>1. At(s, <<>>, 0, FALSE, FALSE) \in SplitStates
    BY <1>0, AtType
  <2> QED BY <2>1 DEF At
<1>4. SplitStart \in SplitStates
  BY <1>0, <1>2, <1>3
<1>5. ASSUME NEW s \in Seq(C), NEW a \in C, s # <<>> \/ IsName(a)
      PROVE  Split(At(s, <<>>, 0, FALSE, FALSE), Append(quote_arg(a), "space"))
               = At(Append(s, a), <<>>, 0, FALSE, FALSE)
  <2> DEFINE w == At(s, <<>>, 0, FALSE, FALSE)
             v == At(s, a, 0, FALSE, TRUE)
  <2>1. Split(w, quote_arg(a)) = v /\ quote_arg(a) \in C /\ w \in SplitStates
    BY <1>3, <1>5, QuotedIsSplit
  <2>2. v \in SplitStates /\ v.args = s /\ v.cur = a /\ v.back = 0 /\ v.quoted = FALSE /\ v.some = TRUE
    <3>1. v \in SplitStates
      BY AtType
    <3> QED BY <3>1 DEF At
  <2> HIDE DEF w, v
  <2>3. Split(w, Append(quote_arg(a), "space")) = SplitChar(v, "space")
    BY <1>0, <2>1, SplitFacts
  <2>4. SplitChar(v, "space") = At(IF v.some THEN Append(v.args, v.cur \o Times("back", v.back))
                                   ELSE v.args, <<>>, 0, FALSE, FALSE)
    BY <1>0, <2>2, SplitCases
  <2>5. Times("back", 0) = <<>> /\ a \o <<>> = a
    <3>1. "back" \in CmdChars
      BY DEF CmdChars
    <3> QED BY <3>1, TimesFacts
  <2> QED BY <2>2, <2>3, <2>4, <2>5 DEF w
<1>6. <<>> \in A
  <2>1. Quoted(<<>>) = <<>>
    BY DEF Quoted
  <2>2. T(<<>>) = Append(<<>>, "space")
    BY <1>0, <2>1, LedFacts
  <2>3. Split(SplitStart, Append(<<>>, "space")) = SplitChar(SplitStart, "space")
    <3>1. <<>> \in Seq(CmdChars)
      OBVIOUS
    <3>2. Split(SplitStart, <<>>) = SplitStart
      BY <1>4, SplitFacts
    <3>3. Split(SplitStart, Append(<<>>, "space")) = SplitChar(Split(SplitStart, <<>>), "space")
      BY <1>0, <1>4, <3>1, SplitFacts
    <3> QED BY <3>2, <3>3
  <2>4. SplitChar(SplitStart, "space") = SplitStart
    <3> DEFINE v == SplitStart
    <3>1. v.some = FALSE /\ v.quoted = FALSE /\ v.args = <<>>
      BY DEF SplitStart
    <3> HIDE DEF v
    <3>2. SplitChar(v, "space") = At(IF v.some THEN Append(v.args, v.cur \o Times("back", v.back))
                                     ELSE v.args, <<>>, 0, FALSE, FALSE)
      BY <1>0, <1>4, <3>1, SplitCases DEF v
    <3> QED BY <1>2, <3>1, <3>2 DEF v
  <2> HIDE DEF T
  <2> QED BY <1>0, <1>2, <2>2, <2>3, <2>4
<1>7. ASSUME NEW s \in Seq(C), NEW a \in C, s \in A PROVE Append(s, a) \in A
  <2>1. Quoted(Append(s, a)) = Append(Quoted(s), quote_arg(a)) /\ quote_arg(a) \in C
    <3>1. quote_arg(a) \in C
      BY <1>0, QuotedIsSplit
    <3> HIDE DEF C
    <3>2. Quoted(Append(s, a)) = Append(Quoted(s), quote_arg(a))
      BY DEF Quoted
    <3> QED BY <3>1, <3>2
  <2>2. /\ Led(Append(Quoted(s), quote_arg(a)), "space")
             = Led(Quoted(s), "space") \o <<"space">> \o quote_arg(a)
        /\ Led(Quoted(s), "space") \in C
    <3>1. /\ \A t \in Seq(Seq(CmdChars)) : Led(t, "space") \in Seq(CmdChars)
          /\ \A t \in Seq(Seq(CmdChars)), c \in Seq(CmdChars) :
               Led(Append(t, c), "space") = Led(t, "space") \o <<"space">> \o c
      BY <1>0, LedFacts
    <3> QED BY <1>1, <2>1, <3>1
  <2>3. T(Append(s, a)) = T(s) \o Append(quote_arg(a), "space") /\ T(s) \in C
        /\ Append(quote_arg(a), "space") \in C
    <3> DEFINE l == Led(Quoted(s), "space")
               b == quote_arg(a)
    <3>1. l \in C /\ b \in C
      BY <2>1, <2>2
    <3>2. T(Append(s, a)) = Append(l \o <<"space">> \o b, "space")
      BY <2>1, <2>2
    <3> HIDE DEF l, b
    <3>3. /\ Append(l \o <<"space">> \o b, "space") = Append(l, "space") \o Append(b, "space")
          /\ Append(l, "space") \in C /\ Append(b, "space") \in C
      <4>2. l \in Seq(CmdChars) /\ b \in Seq(CmdChars) /\ "space" \in CmdChars
        BY <1>0, <3>1
      <4>3. Append(l, "space") \in C /\ Append(b, "space") \in C
        BY <4>2
      <4> QED BY <4>2, <4>3, AppendTwice
    <3> QED BY <3>2, <3>3 DEF l, b
  <2> HIDE DEF T
  <2>4. Split(SplitStart, T(s) \o Append(quote_arg(a), "space"))
          = Split(Split(SplitStart, T(s)), Append(quote_arg(a), "space"))
    BY <1>4, <2>3, SplitJoin
  <2>5. Append(s, a) \in Seq(C)
    OBVIOUS
  <2>6. Named(Append(s, a)) => Named(s) /\ (s # <<>> \/ IsName(a))
    <3> HIDE DEF C
    <3>1. /\ Len(Append(s, a)) = Len(s) + 1 /\ Len(s) \in Nat
          /\ \A i \in 1 .. Len(s) + 1 : Append(s, a)[i] = IF i = Len(s) + 1 THEN a ELSE s[i]
      OBVIOUS
    <3>2. CASE s = <<>>
      <4>1. Append(s, a)[1] = a /\ Append(s, a) # <<>>
        BY <3>1, <3>2
      <4> QED BY <3>2, <4>1 DEF Named
    <3>3. CASE s # <<>>
      <4>1. Append(s, a)[1] = s[1] /\ Append(s, a) # <<>>
        BY <3>1, <3>3
      <4> QED BY <3>3, <4>1 DEF Named
    <3> QED BY <3>2, <3>3
  <2>7. ASSUME Named(Append(s, a))
        PROVE  Split(SplitStart, T(Append(s, a))) = At(Append(s, a), <<>>, 0, FALSE, FALSE)
    BY <1>5, <1>7, <2>3, <2>4, <2>6, <2>7
  <2> QED BY <2>5, <2>7
<1> HIDE DEF A, C
<1>8. argv \in A
  <2>1. argv \in Seq(C)
    BY DEF C
  <2> QED BY <1>6, <1>7, <2>1, SeqInduct
<1> QED BY <1>1, <1>8 DEF A, C

(* How long the parts and their separators are. *)
LEMMA LedLength ==
  ASSUME NEW S, NEW sep \in S, NEW t \in Seq(Seq(S)), NEW c \in Seq(S)
  PROVE  /\ Len(Led(t, sep)) \in Nat /\ Len(c) \in Nat
         /\ Len(Led(Append(t, c), sep)) = Len(Led(t, sep)) + 1 + Len(c)
<1> DEFINE l == Led(t, sep)
<1>1. l \in Seq(S) /\ Led(Append(t, c), sep) = l \o <<sep>> \o c
  BY LedFacts
<1> HIDE DEF l
<1>2. Len(l \o <<sep>> \o c) = Len(l) + 1 + Len(c) /\ Len(l) \in Nat /\ Len(c) \in Nat
  BY <1>1
<1> QED BY <1>1, <1>2 DEF l

(* The buffer holds what is written into it, with escaping and without. *)
LEMMA CmdlineRoom ==
  ASSUME NEW argv \in Seq(Seq(CmdChars))
  PROVE  /\ Len(Led(Quoted(argv), "space"))
              <= Total([i \in DOMAIN argv |-> 1 + 2 * strlen(argv[i]) + 1 + 1])
         /\ Len(Led(argv, "space")) <= Total([i \in DOMAIN argv |-> strlen(argv[i]) + 1])
<1> DEFINE C == Seq(CmdChars)
           Q(s) == [i \in DOMAIN s |-> 1 + 2 * strlen(s[i]) + 1 + 1]
           R(s) == [i \in DOMAIN s |-> strlen(s[i]) + 1]
           A == {s \in Seq(C) : /\ Len(Led(Quoted(s), "space")) <= Total(Q(s))
                                /\ Len(Led(s, "space")) <= Total(R(s))}
<1>0. "space" \in CmdChars /\ <<>> \in Seq(C)
  BY DEF CmdChars
<1>1. \A a \in C : strlen(a) \in Nat /\ Len(a) <= strlen(a) /\ Len(a) \in Nat
  BY StrlenFacts
<1>2. \A s \in Seq(C) : Q(s) \in Seq(Nat) /\ R(s) \in Seq(Nat)
  <2> HIDE DEF C
  <2> TAKE s \in Seq(C)
  <2>1. \A i \in DOMAIN s : strlen(s[i]) \in Nat
    BY <1>1
  <2>2. \A i \in DOMAIN s : 1 + 2 * strlen(s[i]) + 1 + 1 \in Nat /\ strlen(s[i]) + 1 \in Nat
    BY <2>1
  <2>3. DOMAIN s = 1 .. Len(s) /\ Len(s) \in Nat
    OBVIOUS
  <2>4. Q(s) \in [1 .. Len(s) -> Nat] /\ R(s) \in [1 .. Len(s) -> Nat]
    BY <2>2, <2>3
  <2> HIDE DEF Q, R
  <2> QED BY <2>3, <2>4, FnIsSeq
<1>3. <<>> \in A
  <2>1. Q(<<>>) = <<>> /\ R(<<>>) = <<>> /\ Quoted(<<>>) = <<>>
    BY DEF Quoted
  <2>2. Led(<<>>, "space") = <<>> /\ Total(<<>>) = 0 /\ Len(<<>>) = 0
    BY <1>0, LedFacts, TotalFacts
  <2> HIDE DEF Q, R, C
  <2> QED BY <1>0, <2>1, <2>2
<1>4. ASSUME NEW s \in Seq(C), NEW a \in C, s \in A PROVE Append(s, a) \in A
  <2> DEFINE x == quote_arg(a)
             n == strlen(a)
             m == Len(a)
  <2>1. x \in C /\ Quoted(s) \in Seq(C)
    BY <1>0, QuotedIsSplit, CmdlineSplits
  <2>2. Quoted(Append(s, a)) = Append(Quoted(s), x)
    <3> HIDE DEF C
    <3> QED BY DEF Quoted
  <2>3. Q(Append(s, a)) = Append(Q(s), 1 + 2 * n + 1 + 1) /\ R(Append(s, a)) = Append(R(s), n + 1)
    <3> HIDE DEF C
    <3> QED OBVIOUS
  <2>4. n \in Nat /\ m \in Nat /\ m <= n /\ Len(x) \in Nat /\ Len(x) <= 2 * m + 2
    BY <1>1, QuotedLength
  <2> HIDE DEF x, n, m
  <2>5. /\ Len(Led(Quoted(Append(s, a)), "space")) = Len(Led(Quoted(s), "space")) + 1 + Len(x)
        /\ Len(Led(Quoted(s), "space")) \in Nat
    BY <1>0, <2>1, <2>2, LedLength
  <2>6. /\ Len(Led(Append(s, a), "space")) = Len(Led(s, "space")) + 1 + m
        /\ Len(Led(s, "space")) \in Nat
    BY <1>0, LedLength DEF m
  <2> HIDE DEF Q, R
  <2>7. 1 + 2 * n + 1 + 1 \in Nat /\ n + 1 \in Nat
    BY <2>4
  <2>8. /\ Total(Q(Append(s, a))) = Total(Q(s)) + (1 + 2 * n + 1 + 1) /\ Total(Q(s)) \in Nat
        /\ Total(R(Append(s, a))) = Total(R(s)) + (n + 1) /\ Total(R(s)) \in Nat
    BY <1>2, <2>3, <2>7, TotalFacts
  <2>9. Append(s, a) \in Seq(C)
    OBVIOUS
  <2>10. Len(Led(Quoted(s), "space")) <= Total(Q(s)) /\ Len(Led(s, "space")) <= Total(R(s))
    BY <1>4
  <2>11. Len(Led(Quoted(Append(s, a)), "space")) <= Total(Q(Append(s, a)))
    BY <2>4, <2>5, <2>8, <2>10
  <2>12. Len(Led(Append(s, a), "space")) <= Total(R(Append(s, a)))
    BY <2>4, <2>6, <2>8, <2>10
  <2> QED BY <2>9, <2>11, <2>12
<1> HIDE DEF A, C
<1>5. argv \in A
  <2>1. argv \in Seq(C)
    BY DEF C
  <2> QED BY <1>3, <1>4, <2>1, SeqInduct
<1> QED BY <1>5 DEF A

(* The first of the separators. *)
LEMMA LedFirst ==
  ASSUME NEW S, NEW sep \in S, NEW t \in Seq(Seq(S)), t # <<>>
  PROVE  /\ Led(t, sep) \in Seq(S) /\ Joined(t, sep) \in Seq(S)
         /\ Led(t, sep) = <<sep>> \o Joined(t, sep)
         /\ Len(Led(t, sep)) = Len(Joined(t, sep)) + 1
<1> DEFINE A == {s \in Seq(Seq(S)) : s # <<>> => Led(s, sep) # <<>> /\ Led(s, sep)[1] = sep}
<1>1. <<>> \in A
  <2>1. <<>> \in Seq(Seq(S))
    OBVIOUS
  <2> QED BY <2>1
<1>2. ASSUME NEW s \in Seq(Seq(S)), NEW c \in Seq(S), s \in A PROVE Append(s, c) \in A
  <2> DEFINE l == Led(s, sep)
  <2>1. l \in Seq(S) /\ Led(Append(s, c), sep) = l \o <<sep>> \o c
    BY LedFacts
  <2>2. s = <<>> => l = <<>>
    BY LedFacts
  <2>3. s # <<>> => l # <<>> /\ l[1] = sep
    BY <1>2
  <2> HIDE DEF l
  <2>4. l \o <<sep>> \o c # <<>> /\ (l = <<>> \/ l[1] = sep => (l \o <<sep>> \o c)[1] = sep)
    BY <2>1
  <2>5. Append(s, c) \in Seq(Seq(S))
    OBVIOUS
  <2> QED BY <2>1, <2>2, <2>3, <2>4, <2>5
<1> HIDE DEF A
<1>3. t \in A
  <2>1. \A s \in Seq(Seq(S)) : s \in A
    BY <1>1, <1>2, SeqInduct
  <2> QED BY <2>1
<1> DEFINE l == Led(t, sep)
<1>4. l \in Seq(S) /\ l # <<>> /\ l[1] = sep /\ Joined(t, sep) = Tail(l)
  BY <1>3, LedFacts DEF A, Joined
<1> HIDE DEF l
<1>5. Tail(l) \in Seq(S) /\ l = <<sep>> \o Tail(l) /\ Len(l) = Len(Tail(l)) + 1
  BY <1>4
<1> QED BY <1>4, <1>5 DEF l

(* A Windows program gets back the arguments yo_proc_spawn was given, and the
   buffers suffice: for every list of arguments. *)
THEOREM ArgumentsSurvive ==
  ASSUME NEW argv \in Seq(Seq(CmdChars)), argv # <<>>
  PROVE  ArgvExact(argv)
<1> DEFINE qs == Quoted(argv)
           l == Led(qs, "space")
           u == Joined(qs, "space")
<1>0. "space" \in CmdChars
  BY DEF CmdChars
<1>1. /\ qs \in Seq(Seq(CmdChars))
      /\ IsName(argv[1]) => Split(SplitStart, Append(l, "space")) = At(argv, <<>>, 0, FALSE, FALSE)
  BY CmdlineSplits DEF Named
<1>2. qs # <<>>
  BY DEF Quoted
<1>3. argv_to_cmdline_escaped(argv).text = u /\ argv_to_cmdline_raw(argv).text = Joined(argv, "space")
  BY DEF argv_to_cmdline_escaped, argv_to_cmdline_raw, Quoted
<1>4. /\ argv_to_cmdline_escaped(argv).room = Total([i \in DOMAIN argv |-> 1 + 2 * strlen(argv[i]) + 1 + 1])
      /\ argv_to_cmdline_raw(argv).room = Total([i \in DOMAIN argv |-> strlen(argv[i]) + 1])
  BY DEF argv_to_cmdline_escaped, argv_to_cmdline_raw
<1> HIDE DEF qs
<1>5. l \in Seq(CmdChars) /\ u \in Seq(CmdChars) /\ l = <<"space">> \o u /\ Len(l) = Len(u) + 1
  BY <1>0, <1>1, <1>2, LedFirst
<1>6. Len(Led(argv, "space")) = Len(Joined(argv, "space")) + 1
  BY <1>0, LedFirst
<1>7. ASSUME IsName(argv[1]) PROVE SplitCmdline(u) = argv
  <2> DEFINE e == <<"space">>
             r == Append(u, "space")
  <2> HIDE DEF l, u
  <2>1. Append(l, "space") = e \o r /\ e \in Seq(CmdChars) /\ r \in Seq(CmdChars)
    BY <1>0, <1>5
  <2>2. SplitStart = At(<<>>, <<>>, 0, FALSE, FALSE) /\ SplitStart \in SplitStates
    <3>1. SplitStart = At(<<>>, <<>>, 0, FALSE, FALSE)
      BY DEF SplitStart, At
    <3>2. <<>> \in Seq(CmdChars) /\ <<>> \in Seq(Seq(CmdChars))
      OBVIOUS
    <3> QED BY <3>1, <3>2, AtType
  <2>3. Split(SplitStart, e) = SplitStart
    <3>1. Quoted(<<>>) = <<>> /\ <<>> \in Seq(Seq(CmdChars)) /\ e = Append(<<>>, "space")
      BY DEF Quoted
    <3>2. Led(<<>>, "space") = <<>>
      BY <1>0, LedFacts
    <3>3. Split(SplitStart, Append(Led(Quoted(<<>>), "space"), "space")) = At(<<>>, <<>>, 0, FALSE, FALSE)
      BY <3>1, CmdlineSplits DEF Named
    <3> QED BY <2>2, <3>1, <3>2, <3>3
  <2> HIDE DEF e
  <2>4. Split(SplitStart, e \o r) = Split(Split(SplitStart, e), r)
    BY <2>1, <2>2, SplitJoin
  <2>5. Split(SplitStart, r).args = argv
    <3>1. At(argv, <<>>, 0, FALSE, FALSE).args = argv
      BY DEF At
    <3> QED BY <1>1, <1>7, <2>1, <2>3, <2>4, <3>1, Zenon
  <2> QED BY <2>5 DEF SplitCmdline
<1> HIDE DEF l, u
<1>8. Len(u) + 1 <= argv_to_cmdline_escaped(argv).room
  BY <1>4, <1>5, CmdlineRoom DEF l, qs
<1>9. Len(Joined(argv, "space")) + 1 <= argv_to_cmdline_raw(argv).room
  BY <1>4, <1>6, CmdlineRoom
<1>10. /\ argv_to_cmdline(argv, YO_SPAWN_NOESCAPE) = argv_to_cmdline_raw(argv)
       /\ argv_to_cmdline(argv, 1) = argv_to_cmdline_escaped(argv) /\ 1 # YO_SPAWN_NOESCAPE
  BY DEF argv_to_cmdline, YO_SPAWN_NOESCAPE
<1> QED BY <1>3, <1>7, <1>8, <1>9, <1>10 DEF ArgvExact

\* The arguments of every state are lists of characters.
TextInv == topic = "argv" => input \in Seq(Seq(CmdChars))

(* Every command line that is built of the arguments of a state is split into
   those arguments and fits its buffer, whatever the bounds on their number
   and length (_yoi_win_argv_to_cmdline and its raw form). *)
THEOREM CommandLines == TSpec => []CmdlineExact
<1>1. TInit => TextInv
  <2>1. <<>> \in Seq(Seq(CmdChars))
    OBVIOUS
  <2> QED BY <2>1 DEF TInit, TextInv
<1>2. Args \subseteq Seq(CmdChars)
  <2> SUFFICES ASSUME NEW a \in Args PROVE a \in Seq(CmdChars)
    OBVIOUS
  <2>1. PICK m \in 0 .. MaxChars : a \in [1 .. m -> CmdChars]
    BY Zenon DEF Args, BoundedSeq, SeqOf
  <2>2. m \in Nat
    OBVIOUS
  <2> QED BY <2>1, <2>2, FnIsSeq
<1>3. TextInv /\ [TNext]_tvars => TextInv'
  <2> SUFFICES ASSUME TextInv, [TNext]_tvars, topic' = "argv" PROVE input' \in Seq(Seq(CmdChars))
    BY DEF TextInv
  <2>1. topic = "argv" /\ (GrowArgs \/ input' = input)
    BY DEF TNext, tvars, GrowGroups, GrowArgs, GrowAddrs
  <2>2. input \in Seq(Seq(CmdChars))
    BY <2>1 DEF TextInv
  <2>3. CASE input' = input BY <2>2, <2>3
  <2>4. CASE GrowArgs
    <3>1. PICK a \in Args : input' = Append(input, a)
      BY <2>4 DEF GrowArgs
    <3>2. a \in Seq(CmdChars)
      BY <1>2
    <3> QED BY <2>2, <3>1, <3>2
  <2> QED BY <2>1, <2>3, <2>4
<1>4. TextInv => CmdlineExact
  BY ArgumentsSurvive DEF TextInv, CmdlineExact
<1> QED BY <1>1, <1>3, <1>4, PTL DEF TSpec

------------------------------------------------------------------------------
(* The list of addresses.                                                   *)

(* unix_addrs is the fold of unix_add. *)
LEMMA UnixAddrsFacts ==
  ASSUME NEW S
  PROVE  /\ unix_addrs(<<>>) = <<>>
         /\ \A t \in Seq(S) : unix_addrs(t) \in Seq(S)
         /\ \A t \in Seq(S), c \in S : unix_addrs(Append(t, c)) = unix_add(unix_addrs(t), c)
<1> DEFINE D == Seq(S)
           step == [p \in D \X S |-> unix_add(p[1], p[2])]
<1>0. \A d \in D, c \in S : unix_add(d, c) \in D
  BY DEF unix_add
<1>1. step \in [D \X S -> D] /\ \A d \in D, c \in S : step[<<d, c>>] = unix_add(d, c)
  BY <1>0
<1>9. <<>> \in D
  OBVIOUS
<1> HIDE DEF step
<1>2. PICK h : IsFoldOf(h, step, <<>>, S, D)
  <2> HIDE DEF D
  <2> QED BY <1>1, <1>9, FoldOf
<1>3. ASSUME NEW t \in Seq(S) PROVE unix_addrs(t) = h[t]
  <2>0. \A i \in 1 .. Len(t) : t[i] \in S /\ i - 1 \in 0 .. Len(t)
    OBVIOUS
  <2> HIDE DEF D
  <2>1. PICK g \in [0 .. Len(t) -> D] : IsListFold(g, step, <<>>, t)
    BY <1>2 DEF IsFoldOf
  <2>2. g = [i \in 0 .. Len(t) |-> IF i = 0 THEN <<>> ELSE unix_add(g[i - 1], t[i])]
    <3>1. \A i \in 0 .. Len(t) : i # 0 => step[<<g[i - 1], t[i]>>] = unix_add(g[i - 1], t[i])
      <4>1. \A i \in 0 .. Len(t) : i # 0 => g[i - 1] \in D /\ t[i] \in S
        BY <2>0
      <4> QED BY <1>1, <4>1, Zenon
    <3>2. g = [i \in 0 .. Len(t) |-> IF i = 0 THEN <<>> ELSE step[<<g[i - 1], t[i]>>]]
      BY <2>1 DEF IsListFold
    <3> QED BY <3>1, <3>2
  <2>3. PICK f : /\ f = [i \in 0 .. Len(t) |-> IF i = 0 THEN <<>> ELSE unix_add(f[i - 1], t[i])]
                 /\ unix_addrs(t) = f[Len(t)]
    BY <2>2, Zenon DEF unix_addrs
  <2>4. FoldSteps(f, step, <<>>, t, Len(t), D)
    <3> DEFINE E(i) == IF i = 0 THEN <<>> ELSE unix_add(f[i - 1], t[i])
    <3>1. f = [i \in 0 .. Len(t) |-> E(i)]
      BY <2>3
    <3> HIDE DEF E
    <3>2. Len(t) \in Nat /\ \A i \in 0 .. Len(t) : f[i] = E(i)
      BY <3>1
    <3>3. f[0] = <<>>
      BY <3>2 DEF E
    <3>4. \A i \in 1 .. Len(t) : i # 0 /\ f[i] = E(i)
      BY <3>2
    <3>5. \A i \in 1 .. Len(t) : f[i] = unix_add(f[i - 1], t[i])
      BY <3>4 DEF E
    <3> QED BY <1>1, <2>0, <3>3, <3>5 DEF FoldSteps
  <2> QED BY <1>2, <2>3, <2>4 DEF IsFoldOf
<1>4. <<>> \in Seq(S) /\ \A t \in Seq(S), c \in S : Append(t, c) \in Seq(S)
  OBVIOUS
<1> HIDE DEF D
<1>5. unix_addrs(<<>>) = <<>>
  BY <1>2, <1>3, <1>4 DEF IsFoldOf
<1>6. \A t \in Seq(S) : unix_addrs(t) \in D
  BY <1>2, <1>3 DEF IsFoldOf
<1>7. ASSUME NEW t \in Seq(S), NEW c \in S
      PROVE  unix_addrs(Append(t, c)) = unix_add(unix_addrs(t), c)
  <2>1. h[Append(t, c)] = step[<<h[t], c>>] /\ h[t] \in D
    BY <1>2 DEF IsFoldOf
  <2> QED BY <1>1, <1>3, <1>4, <2>1
<1> QED BY <1>5, <1>6, <1>7 DEF D

(* win_addrs is the fold of win_add. *)
LEMMA WinAddrsFacts ==
  ASSUME NEW S
  PROVE  /\ win_addrs(<<>>) = <<>>
         /\ \A t \in Seq(S) : win_addrs(t) \in Seq(S)
         /\ \A t \in Seq(S), c \in S : win_addrs(Append(t, c)) = win_add(win_addrs(t), c)
<1> DEFINE D == Seq(S)
           step == [p \in D \X S |-> win_add(p[1], p[2])]
<1>0. \A d \in D, c \in S : win_add(d, c) \in D
  BY DEF win_add
<1>1. step \in [D \X S -> D] /\ \A d \in D, c \in S : step[<<d, c>>] = win_add(d, c)
  BY <1>0
<1>9. <<>> \in D
  OBVIOUS
<1> HIDE DEF step
<1>2. PICK h : IsFoldOf(h, step, <<>>, S, D)
  <2> HIDE DEF D
  <2> QED BY <1>1, <1>9, FoldOf
<1>3. ASSUME NEW t \in Seq(S) PROVE win_addrs(t) = h[t]
  <2>0. \A i \in 1 .. Len(t) : t[i] \in S /\ i - 1 \in 0 .. Len(t)
    OBVIOUS
  <2> HIDE DEF D
  <2>1. PICK g \in [0 .. Len(t) -> D] : IsListFold(g, step, <<>>, t)
    BY <1>2 DEF IsFoldOf
  <2>2. g = [i \in 0 .. Len(t) |-> IF i = 0 THEN <<>> ELSE win_add(g[i - 1], t[i])]
    <3>1. \A i \in 0 .. Len(t) : i # 0 => step[<<g[i - 1], t[i]>>] = win_add(g[i - 1], t[i])
      <4>1. \A i \in 0 .. Len(t) : i # 0 => g[i - 1] \in D /\ t[i] \in S
        BY <2>0
      <4> QED BY <1>1, <4>1, Zenon
    <3>2. g = [i \in 0 .. Len(t) |-> IF i = 0 THEN <<>> ELSE step[<<g[i - 1], t[i]>>]]
      BY <2>1 DEF IsListFold
    <3> QED BY <3>1, <3>2
  <2>3. PICK f : /\ f = [i \in 0 .. Len(t) |-> IF i = 0 THEN <<>> ELSE win_add(f[i - 1], t[i])]
                 /\ win_addrs(t) = f[Len(t)]
    BY <2>2, Zenon DEF win_addrs
  <2>4. FoldSteps(f, step, <<>>, t, Len(t), D)
    <3> DEFINE E(i) == IF i = 0 THEN <<>> ELSE win_add(f[i - 1], t[i])
    <3>1. f = [i \in 0 .. Len(t) |-> E(i)]
      BY <2>3
    <3> HIDE DEF E
    <3>2. Len(t) \in Nat /\ \A i \in 0 .. Len(t) : f[i] = E(i)
      BY <3>1
    <3>3. f[0] = <<>>
      BY <3>2 DEF E
    <3>4. \A i \in 1 .. Len(t) : i # 0 /\ f[i] = E(i)
      BY <3>2
    <3>5. \A i \in 1 .. Len(t) : f[i] = win_add(f[i - 1], t[i])
      BY <3>4 DEF E
    <3> QED BY <1>1, <2>0, <3>3, <3>5 DEF FoldSteps
  <2> QED BY <1>2, <2>3, <2>4 DEF IsFoldOf
<1>4. <<>> \in Seq(S) /\ \A t \in Seq(S), c \in S : Append(t, c) \in Seq(S)
  OBVIOUS
<1> HIDE DEF D
<1>5. win_addrs(<<>>) = <<>>
  BY <1>2, <1>3, <1>4 DEF IsFoldOf
<1>6. \A t \in Seq(S) : win_addrs(t) \in D
  BY <1>2, <1>3 DEF IsFoldOf
<1>7. ASSUME NEW t \in Seq(S), NEW c \in S
      PROVE  win_addrs(Append(t, c)) = win_add(win_addrs(t), c)
  <2>1. h[Append(t, c)] = step[<<h[t], c>>] /\ h[t] \in D
    BY <1>2 DEF IsFoldOf
  <2> QED BY <1>1, <1>3, <1>4, <2>1
<1> QED BY <1>5, <1>6, <1>7 DEF D

(* Where an address is first met. *)
LEMMA FirstFacts ==
  ASSUME NEW S, NEW t \in Seq(S), NEW k \in Keys(t)
  PROVE  /\ FirstAt(t, k) \in 1 .. Len(t) /\ Key(t[FirstAt(t, k)]) = k
         /\ \A i \in 1 .. Len(t) : Key(t[i]) = k => FirstAt(t, k) <= i
<1> DEFINE A == {i \in DOMAIN t : Key(t[i]) = k}
<1>1. DOMAIN t = 1 .. Len(t) /\ Len(t) \in Nat
  OBVIOUS
<1>2. A \subseteq Nat /\ A # {}
  BY <1>1 DEF Keys
<1>3. FirstAt(t, k) = Min(A)
  BY DEF FirstAt
<1>4. A = {i \in 1 .. Len(t) : Key(t[i]) = k}
  BY <1>1
<1> HIDE DEF A
<1>5. Min(A) \in A /\ \A m \in A : Min(A) <= m
  <2>1. \E n \in A : \A m \in A : n <= m
    BY <1>2, NatLeast
  <2> QED BY <2>1 DEF Min
<1> QED BY <1>3, <1>4, <1>5

(* Another address does not move the ones before it. *)
LEMMA FirstAppend ==
  ASSUME NEW S, NEW t \in Seq(S), NEW c \in S
  PROVE  /\ Keys(Append(t, c)) = Keys(t) \cup {Key(c)}
         /\ \A k \in Keys(t) : FirstAt(Append(t, c), k) = FirstAt(t, k)
         /\ Key(c) \notin Keys(t) => FirstAt(Append(t, c), Key(c)) = Len(t) + 1
<1> DEFINE u == Append(t, c)
           n == Len(t)
<1>1. /\ u \in Seq(S) /\ n \in Nat /\ DOMAIN t = 1 .. n /\ DOMAIN u = 1 .. n + 1 /\ Len(u) = n + 1
      /\ u[n + 1] = c /\ \A i \in 1 .. n : u[i] = t[i]
  OBVIOUS
<1> HIDE DEF u
<1>2. Keys(u) = Keys(t) \cup {Key(c)}
  <2>1. Keys(u) \subseteq Keys(t) \cup {Key(c)}
    <3> SUFFICES ASSUME NEW i \in 1 .. n + 1 PROVE Key(u[i]) \in Keys(t) \cup {Key(c)}
      BY <1>1 DEF Keys
    <3>1. CASE i = n + 1 BY <1>1, <3>1
    <3>2. CASE i \in 1 .. n
      <4>1. i \in DOMAIN t /\ u[i] = t[i]
        BY <1>1, <3>2
      <4> QED BY <4>1 DEF Keys
    <3> QED BY <1>1, <3>1, <3>2
  <2>2. Key(c) \in Keys(u)
    <3>1. n + 1 \in DOMAIN u
      BY <1>1
    <3> QED BY <1>1, <3>1 DEF Keys
  <2>3. \A i \in 1 .. n : Key(t[i]) \in Keys(u)
    <3> TAKE i \in 1 .. n
    <3>1. i \in DOMAIN u /\ u[i] = t[i]
      BY <1>1
    <3> QED BY <3>1 DEF Keys
  <2>4. Keys(t) \subseteq Keys(u)
    BY <1>1, <2>3 DEF Keys
  <2> QED BY <2>1, <2>2, <2>4
<1>3. ASSUME NEW k \in Keys(t) PROVE FirstAt(u, k) = FirstAt(t, k)
  <2> DEFINE a == FirstAt(t, k)
             b == FirstAt(u, k)
  <2>1. a \in 1 .. n /\ Key(t[a]) = k /\ \A i \in 1 .. n : Key(t[i]) = k => a <= i
    BY FirstFacts
  <2>2. b \in 1 .. n + 1 /\ Key(u[b]) = k /\ \A i \in 1 .. n + 1 : Key(u[i]) = k => b <= i
    <3>1. k \in Keys(u)
      BY <1>2
    <3> QED BY <1>1, <3>1, FirstFacts
  <2> HIDE DEF a, b
  <2>3. b <= a
    BY <1>1, <2>1, <2>2
  <2>4. b \in 1 .. n /\ u[b] = t[b]
    BY <1>1, <2>1, <2>2, <2>3
  <2>5. a <= b
    BY <2>1, <2>2, <2>4
  <2> QED BY <1>1, <2>1, <2>2, <2>3, <2>5 DEF a, b
<1>4. ASSUME Key(c) \notin Keys(t) PROVE FirstAt(u, Key(c)) = n + 1
  <2> DEFINE b == FirstAt(u, Key(c))
  <2>1. b \in 1 .. n + 1 /\ Key(u[b]) = Key(c)
    <3>1. Key(c) \in Keys(u)
      BY <1>2
    <3> QED BY <1>1, <3>1, FirstFacts
  <2> HIDE DEF b
  <2>2. b \notin 1 .. n
    <3> SUFFICES ASSUME b \in 1 .. n PROVE FALSE
      OBVIOUS
    <3>1. b \in DOMAIN t /\ Key(t[b]) = Key(c)
      BY <1>1, <2>1
    <3> QED BY <1>4, <3>1 DEF Keys
  <2> QED BY <1>1, <2>1, <2>2 DEF b
<1> QED BY <1>2, <1>3, <1>4 DEF u

(* yo_dns_getaddrinfo, whatever list the system returns and however long: on
   Unix each address is in the result once, in the order of its first
   appearance, and on Windows none is lost. *)
THEOREM AddressesOnce ==
  ASSUME NEW S, NEW list \in Seq(S)
  PROVE  AddrsOnce(list)
<1> DEFINE A == {t \in Seq(S) : AddrsOnce(t)}
<1>1. <<>> \in A
  <2>1. unix_addrs(<<>>) = <<>> /\ win_addrs(<<>>) = <<>> /\ <<>> \in Seq(S) /\ DOMAIN <<>> = {}
    BY UnixAddrsFacts, WinAddrsFacts
  <2> QED BY <2>1 DEF AddrsOnce
<1>2. ASSUME NEW t \in Seq(S), NEW c \in S, t \in A PROVE Append(t, c) \in A
  <2> DEFINE u == Append(t, c)
             r == unix_addrs(t)
             w == win_addrs(t)
  <2>1. u \in Seq(S) /\ r \in Seq(S) /\ w \in Seq(S)
    BY UnixAddrsFacts, WinAddrsFacts
  <2>2. unix_addrs(u) = unix_add(r, c) /\ win_addrs(u) = win_add(w, c)
    BY UnixAddrsFacts, WinAddrsFacts
  <2>3. /\ Keys(r) = Keys(t) /\ Keys(w) = Keys(t)
        /\ \A i, j \in DOMAIN r : i < j => FirstAt(t, Key(r[i])) < FirstAt(t, Key(r[j]))
    BY <1>2 DEF AddrsOnce
  <2>4. /\ Keys(u) = Keys(t) \cup {Key(c)}
        /\ \A k \in Keys(t) : FirstAt(u, k) = FirstAt(t, k)
        /\ Key(c) \notin Keys(t) => FirstAt(u, Key(c)) = Len(t) + 1
    BY FirstAppend
  <2>5. \A k \in Keys(t) : FirstAt(t, k) \in 1 .. Len(t)
    BY FirstFacts
  <2>6. \A i \in DOMAIN r : Key(r[i]) \in Keys(t)
    BY <2>3 DEF Keys
  <2>7. Len(t) \in Nat
    OBVIOUS
  <2> HIDE DEF u, r, w
  <2>8. /\ Keys(Append(r, c)) = Keys(r) \cup {Key(c)}
        /\ Keys(Append(w, c)) = Keys(w) \cup {Key(c)}
    BY <2>1, FirstAppend
  <2>9. Keys(win_addrs(u)) = Keys(u)
    <3>1. CASE \E j \in DOMAIN w : c = w[j]
      <4>1. win_addrs(u) = w /\ Key(c) \in Keys(w)
        BY <2>2, <3>1 DEF win_add, Keys
      <4> QED BY <2>3, <2>4, <4>1
    <3>2. CASE ~ \E j \in DOMAIN w : c = w[j]
      <4>1. win_addrs(u) = Append(w, c)
        BY <2>2, <3>2 DEF win_add
      <4> QED BY <2>3, <2>4, <2>8, <4>1
    <3> QED BY <3>1, <3>2
  <2>10. CASE \E j \in DOMAIN r : yo_addrcmp(c, r[j])
    <3>1. unix_addrs(u) = r
      BY <2>2, <2>10 DEF unix_add
    <3>2. Key(c) \in Keys(r)
      BY <2>10 DEF yo_addrcmp, Keys, Key
    <3>3. Keys(unix_addrs(u)) = Keys(u)
      BY <2>3, <2>4, <3>1, <3>2
    <3>4. \A i, j \in DOMAIN r : i < j => FirstAt(u, Key(r[i])) < FirstAt(u, Key(r[j]))
      BY <2>3, <2>4, <2>6
    <3> QED BY <2>1, <2>9, <3>1, <3>3, <3>4 DEF AddrsOnce, u
  <2>11. CASE ~ \E j \in DOMAIN r : yo_addrcmp(c, r[j])
    <3> DEFINE v == Append(r, c)
               m == Len(r)
    <3>1. unix_addrs(u) = v
      BY <2>2, <2>11 DEF unix_add
    <3>2. Key(c) \notin Keys(t)
      <4>1. Key(c) \notin Keys(r)
        BY <2>11 DEF yo_addrcmp, Keys, Key
      <4> QED BY <2>3, <4>1
    <3>3. Keys(unix_addrs(u)) = Keys(u)
      BY <2>3, <2>4, <2>8, <3>1
    <3>4. /\ m \in Nat /\ DOMAIN r = 1 .. m /\ DOMAIN v = 1 .. m + 1 /\ v[m + 1] = c
          /\ \A i \in 1 .. m : v[i] = r[i]
      BY <2>1
    <3> HIDE DEF v, m
    <3>5. ASSUME NEW i \in DOMAIN v, NEW j \in DOMAIN v, i < j
          PROVE  FirstAt(u, Key(v[i])) < FirstAt(u, Key(v[j]))
      <4>1. i \in 1 .. m /\ v[i] = r[i] /\ Key(r[i]) \in Keys(t)
        BY <2>6, <3>4, <3>5
      <4>2. FirstAt(u, Key(v[i])) = FirstAt(t, Key(r[i])) /\ FirstAt(t, Key(r[i])) \in 1 .. Len(t)
        BY <2>4, <2>5, <4>1
      <4>3. CASE j = m + 1
        <5>1. FirstAt(u, Key(v[j])) = Len(t) + 1
          BY <2>4, <3>2, <3>4, <4>3
        <5> QED BY <2>7, <4>2, <5>1
      <4>4. CASE j \in 1 .. m
        <5>1. v[j] = r[j] /\ Key(r[j]) \in Keys(t) /\ FirstAt(t, Key(r[i])) < FirstAt(t, Key(r[j]))
          BY <2>3, <2>6, <3>4, <3>5, <4>1, <4>4
        <5>2. FirstAt(u, Key(v[j])) = FirstAt(t, Key(r[j]))
          BY <2>4, <5>1
        <5> QED BY <4>2, <5>1, <5>2
      <4> QED BY <3>4, <4>3, <4>4
    <3> QED BY <2>1, <2>9, <3>1, <3>3, <3>5 DEF AddrsOnce, u
  <2> QED BY <2>10, <2>11
<1> HIDE DEF A
<1>3. list \in A
  BY <1>1, <1>2, SeqInduct
<1> QED BY <1>3 DEF A

------------------------------------------------------------------------------
(* The text of an address: where its groups are, and what they are worth.   *)

(* A list, one element, and another list. *)
LEMMA Gap ==
  ASSUME NEW S, NEW l \in Seq(S), NEW c \in Seq(S), NEW x \in S
  PROVE  LET u == l \o <<x>> \o c IN
         /\ u \in Seq(S) /\ Len(u) = Len(l) + 1 + Len(c) /\ Len(l) \in Nat /\ Len(c) \in Nat
         /\ \A i \in 1 .. Len(l) : u[i] = l[i]
         /\ u[Len(l) + 1] = x
         /\ \A k \in 1 .. Len(c) : u[Len(l) + 1 + k] = c[k]
OBVIOUS

(* Where the groups of a text begin. *)
LedPlaces(l, gs, sep, q) ==
  /\ q \in [1 .. Len(gs) -> Nat]
  /\ gs # <<>> => q[1] = 2
  /\ \A j \in 1 .. Len(gs) :
       /\ q[j] >= 2 /\ l[q[j] - 1] = sep /\ q[j] + Len(gs[j]) - 1 <= Len(l)
       /\ \A k \in 1 .. Len(gs[j]) : l[q[j] + k - 1] = gs[j][k]
  /\ \A j \in 1 .. Len(gs) - 1 : q[j + 1] = q[j] + Len(gs[j]) + 1
  /\ gs # <<>> => q[Len(gs)] + Len(gs[Len(gs)]) = Len(l) + 1
  /\ gs = <<>> => l = <<>>

(* Led puts a separator before each group, and the group behind it. *)
LEMMA LedPlaced ==
  ASSUME NEW S, NEW sep \in S, NEW gs \in Seq(Seq(S))
  PROVE  \E q : LedPlaces(Led(gs, sep), gs, sep, q)
<1> DEFINE C == Seq(S)
           A == {s \in Seq(C) : \E q : LedPlaces(Led(s, sep), s, sep, q)}
<1>1. <<>> \in A
  <2>0. <<>> \in Seq(C) /\ Len(<<>>) = 0
    OBVIOUS
  <2>1. Led(<<>>, sep) = <<>> /\ <<>> \in Seq(C) /\ Len(<<>>) = 0
    BY <2>0, LedFacts
  <2> DEFINE q == [j \in 1 .. 0 |-> 2]
  <2>2. LedPlaces(<<>>, <<>>, sep, q)
    BY <2>1 DEF LedPlaces
  <2> HIDE DEF q
  <2> QED BY <2>1, <2>2
<1>2. ASSUME NEW s \in Seq(C), NEW c \in C, s \in A PROVE Append(s, c) \in A
  <2> DEFINE l == Led(s, sep)
             m == l \o <<sep>> \o c
             n == Len(s)
             t == Append(s, c)
  <2>1. PICK q : LedPlaces(l, s, sep, q)
    BY <1>2
  <2>2. l \in C /\ Led(t, sep) = m
    BY LedFacts
  <2> HIDE DEF l
  <2>3. /\ m \in C /\ Len(m) = Len(l) + 1 + Len(c) /\ Len(l) \in Nat /\ Len(c) \in Nat
        /\ \A i \in 1 .. Len(l) : m[i] = l[i]
        /\ m[Len(l) + 1] = sep
        /\ \A k \in 1 .. Len(c) : m[Len(l) + 1 + k] = c[k]
    BY <2>2, Gap
  <2> HIDE DEF m, C
  <2>4. /\ t \in Seq(C) /\ Len(t) = n + 1 /\ n \in Nat /\ t[n + 1] = c /\ t # <<>>
        /\ \A i \in 1 .. n : t[i] = s[i] /\ s[i] \in C
        /\ n = 0 <=> s = <<>>
    OBVIOUS
  <2>5. \A i \in 1 .. n : Len(s[i]) \in Nat
    BY <2>4 DEF C
  <2> HIDE DEF t, n
  <2> DEFINE r == [j \in 1 .. n + 1 |-> IF j = n + 1 THEN Len(l) + 2 ELSE q[j]]
  <2>6. /\ q \in [1 .. n -> Nat] /\ (s # <<>> => q[1] = 2)
        /\ \A j \in 1 .. n :
             /\ q[j] >= 2 /\ l[q[j] - 1] = sep /\ q[j] + Len(s[j]) - 1 <= Len(l)
             /\ \A k \in 1 .. Len(s[j]) : l[q[j] + k - 1] = s[j][k]
        /\ \A j \in 1 .. n - 1 : q[j + 1] = q[j] + Len(s[j]) + 1
        /\ s # <<>> => q[n] + Len(s[n]) = Len(l) + 1
        /\ s = <<>> => l = <<>>
    BY <2>1 DEF LedPlaces, n
  <2>7. r \in [1 .. n + 1 -> Nat] /\ r[n + 1] = Len(l) + 2 /\ \A j \in 1 .. n : r[j] = q[j] /\ q[j] \in Nat
    <3>1. \A j \in 1 .. n : q[j] \in Nat /\ j # n + 1 /\ j \in 1 .. n + 1
      BY <2>4, <2>6, SMTT(40)
    <3>2. n + 1 \in 1 .. n + 1 /\ Len(l) + 2 \in Nat /\ \A j \in 1 .. n + 1 : j = n + 1 \/ j \in 1 .. n
      BY <2>3, <2>4
    <3> QED BY <3>1, <3>2
  <2> HIDE DEF r
  <2>8. r[1] = 2
    <3>1. CASE n = 0
      <4>1. Len(l) = 0
        BY <2>4, <2>6, <3>1
      <4> QED BY <2>7, <3>1, <4>1
    <3>2. CASE n # 0
      BY <2>4, <2>6, <2>7, <3>2
    <3> QED BY <3>1, <3>2
  <2>9. ASSUME NEW j \in 1 .. n + 1
        PROVE  /\ r[j] >= 2 /\ m[r[j] - 1] = sep /\ r[j] + Len(t[j]) - 1 <= Len(m)
               /\ \A k \in 1 .. Len(t[j]) : m[r[j] + k - 1] = t[j][k]
    <3>1. CASE j = n + 1
      <4>1. t[j] = c /\ r[j] = Len(l) + 2
        BY <2>4, <2>7, <3>1
      <4>2. r[j] >= 2 /\ r[j] - 1 = Len(l) + 1 /\ r[j] + Len(c) - 1 <= Len(m)
        BY <2>3, <4>1
      <4>3. \A k \in 1 .. Len(c) : r[j] + k - 1 = Len(l) + 1 + k
        BY <2>3, <4>1
      <4> QED BY <2>3, <4>1, <4>2, <4>3
    <3>2. CASE j \in 1 .. n
      <4>1. t[j] = s[j] /\ r[j] = q[j] /\ Len(s[j]) \in Nat /\ q[j] \in Nat
        BY <2>4, <2>5, <2>7, <3>2
      <4>0. /\ q[j] >= 2 /\ l[q[j] - 1] = sep /\ q[j] + Len(s[j]) - 1 <= Len(l)
            /\ \A k \in 1 .. Len(s[j]) : l[q[j] + k - 1] = s[j][k]
        BY <2>6, <3>2
      <4>6. Len(l) \in Nat /\ Len(m) \in Nat /\ Len(l) <= Len(m)
        BY <2>3
      <4>2. q[j] >= 2 /\ q[j] - 1 \in 1 .. Len(l) /\ q[j] + Len(s[j]) - 1 <= Len(m)
        BY <4>0, <4>1, <4>6, SMTT(40)
      <4>3. \A k \in 1 .. Len(s[j]) : q[j] + k - 1 \in 1 .. Len(l)
        BY <4>0, <4>1, <4>6, SMTT(40)
      <4>4. m[q[j] - 1] = sep
        BY <2>3, <4>0, <4>2
      <4>5. \A k \in 1 .. Len(s[j]) : m[q[j] + k - 1] = s[j][k]
        BY <2>3, <4>0, <4>3
      <4> QED BY <4>1, <4>2, <4>4, <4>5
    <3> QED BY <2>4, <3>1, <3>2
  <2>10. ASSUME NEW j \in 1 .. n PROVE r[j + 1] = r[j] + Len(t[j]) + 1
    <3>0. t[j] = s[j] /\ r[j] = q[j] /\ Len(s[j]) \in Nat /\ q[j] \in Nat
      BY <2>4, <2>5, <2>7
    <3>1. CASE j = n
      <4>1. q[n] + Len(s[n]) = Len(l) + 1
        BY <2>4, <2>6, <3>1
      <4> QED BY <2>3, <2>7, <3>0, <3>1, <4>1
    <3>2. CASE j \in 1 .. n - 1
      <4>1. j + 1 \in 1 .. n
        BY <2>4, <3>2
      <4> QED BY <2>6, <2>7, <3>0, <3>2, <4>1
    <3> QED BY <2>4, <3>1, <3>2
  <2>11. r[n + 1] + Len(t[n + 1]) = Len(m) + 1
    BY <2>3, <2>4, <2>7
  <2>12. LedPlaces(m, t, sep, r)
    <3>1. n + 1 - 1 = n
      BY <2>4
    <3>2. r \in [1 .. Len(t) -> Nat] /\ r[1] = 2 /\ t # <<>>
      BY <2>4, <2>7, <2>8
    <3>3. \A j \in 1 .. Len(t) :
            /\ r[j] >= 2 /\ m[r[j] - 1] = sep /\ r[j] + Len(t[j]) - 1 <= Len(m)
            /\ \A k \in 1 .. Len(t[j]) : m[r[j] + k - 1] = t[j][k]
      BY <2>4, <2>9
    <3>4. \A j \in 1 .. Len(t) - 1 : r[j + 1] = r[j] + Len(t[j]) + 1
      BY <2>4, <2>10, <3>1
    <3>5. r[Len(t)] + Len(t[Len(t)]) = Len(m) + 1
      BY <2>4, <2>11
    <3> HIDE DEF t
    <3> QED BY <3>2, <3>3, <3>4, <3>5, Zenon DEF LedPlaces
  <2> QED BY <2>2, <2>4, <2>12 DEF t
<1> HIDE DEF A
<1>3. gs \in A
  <2> HIDE DEF C
  <2>1. gs \in Seq(C)
    BY DEF C
  <2> QED BY <1>1, <1>2, <2>1, SeqInduct
<1> QED BY <1>3 DEF A

(* Where the groups of a text are: in terms of CharAt. *)
Places(t, gs, sep, pos) ==
  /\ pos \in [1 .. Len(gs) -> Nat] /\ pos[1] = 1
  /\ \A j \in 1 .. Len(gs) :
       /\ pos[j] >= 1
       /\ \A k \in 1 .. Len(gs[j]) : CharAt(t, pos[j] + k - 1) = gs[j][k]
       /\ IF j < Len(gs)
          THEN /\ CharAt(t, pos[j] + Len(gs[j])) = sep
               /\ pos[j + 1] = pos[j] + Len(gs[j]) + 1
               /\ pos[j] + Len(gs[j]) <= Len(t)
          ELSE pos[j] + Len(gs[j]) = Len(t) + 1

(* Joined puts the groups of a text where Places says. *)
LEMMA JoinedPlaced ==
  ASSUME NEW S, NEW sep \in S, NEW gs \in Seq(Seq(S)), gs # <<>>
  PROVE  Joined(gs, sep) \in Seq(S) /\ \E pos : Places(Joined(gs, sep), gs, sep, pos)
<1> DEFINE l == Led(gs, sep)
           t == Joined(gs, sep)
           n == Len(gs)
<1>1. l \in Seq(S) /\ t \in Seq(S) /\ l = <<sep>> \o t /\ Len(l) = Len(t) + 1
  BY LedFirst
<1>2. PICK q : LedPlaces(l, gs, sep, q)
  BY LedPlaced
<1> HIDE DEF l, t
<1>3. /\ Len(t) \in Nat /\ DOMAIN t = 1 .. Len(t)
      /\ \A i \in 1 .. Len(t) : t[i] = l[i + 1]
  BY <1>1
<1>4. \A i \in 1 .. Len(t) : CharAt(t, i) = l[i + 1]
  BY <1>3 DEF CharAt
<1>5. n \in Nat /\ n >= 1 /\ \A j \in 1 .. n : Len(gs[j]) \in Nat
  OBVIOUS
<1> HIDE DEF n
<1>6. /\ q \in [1 .. n -> Nat] /\ q[1] = 2
      /\ \A j \in 1 .. n :
           /\ q[j] >= 2 /\ l[q[j] - 1] = sep /\ q[j] + Len(gs[j]) - 1 <= Len(l)
           /\ \A k \in 1 .. Len(gs[j]) : l[q[j] + k - 1] = gs[j][k]
      /\ \A j \in 1 .. n - 1 : q[j + 1] = q[j] + Len(gs[j]) + 1
      /\ q[n] + Len(gs[n]) = Len(l) + 1
  BY <1>2 DEF LedPlaces, n
<1> DEFINE pos == [j \in 1 .. n |-> q[j] - 1]
<1>7. /\ pos \in [1 .. n -> Nat] /\ pos[1] = 1
      /\ \A j \in 1 .. n : pos[j] = q[j] - 1 /\ q[j] \in Nat /\ q[j] >= 2
  BY <1>5, <1>6, SMTT(40)
<1> HIDE DEF pos
<1>8. ASSUME NEW j \in 1 .. n
      PROVE  /\ pos[j] >= 1
             /\ \A k \in 1 .. Len(gs[j]) : CharAt(t, pos[j] + k - 1) = gs[j][k]
             /\ IF j < n
                THEN /\ CharAt(t, pos[j] + Len(gs[j])) = sep
                     /\ pos[j + 1] = pos[j] + Len(gs[j]) + 1
                     /\ pos[j] + Len(gs[j]) <= Len(t)
                ELSE pos[j] + Len(gs[j]) = Len(t) + 1
  <2> DEFINE a == q[j]
             m == Len(gs[j])
  <2>1. /\ a \in Nat /\ m \in Nat /\ a >= 2 /\ pos[j] = a - 1
        /\ l[a - 1] = sep /\ a + m - 1 <= Len(l)
        /\ \A k \in 1 .. m : l[a + k - 1] = gs[j][k]
    BY <1>5, <1>6, <1>7
  <2>2. j < n => q[j + 1] = a + m + 1 /\ j + 1 \in 1 .. n
    <3>1. j < n => j \in 1 .. n - 1 /\ j + 1 \in 1 .. n
      BY <1>5
    <3> QED BY <1>6, <3>1
  <2>3. j = n => a + m = Len(l) + 1
    BY <1>6
  <2> HIDE DEF a, m
  <2>7. /\ a \in Nat /\ m \in Nat /\ a >= 2 /\ pos[j] = a - 1 /\ a + m - 1 <= Len(l)
        /\ Len(t) \in Nat /\ Len(l) = Len(t) + 1
    BY <1>1, <1>3, <2>1
  <2>4. ASSUME NEW k \in 1 .. m PROVE CharAt(t, pos[j] + k - 1) = gs[j][k]
    <3> DEFINE x == pos[j]
    <3>0. x = a - 1 /\ a \in Nat /\ m \in Nat /\ a >= 2 /\ a + m - 1 <= Len(t) + 1 /\ Len(t) \in Nat
      BY <2>7
    <3> HIDE DEF x, t
    <3>3. x + k - 1 \in 1 .. Len(t) /\ (x + k - 1) + 1 = a + k - 1
      BY <3>0
    <3>1. pos[j] + k - 1 \in 1 .. Len(t) /\ (pos[j] + k - 1) + 1 = a + k - 1
      BY <3>3 DEF x
    <3>2. CharAt(t, pos[j] + k - 1) = l[a + k - 1]
      BY <1>4, <3>1
    <3> QED BY <2>1, <3>2
  <2>5. CASE j < n
    <3>1. j + 1 \in 1 .. n /\ q[j + 1] = a + m + 1
      BY <2>2, <2>5
    <3> DEFINE b == q[j + 1]
               d == Len(gs[j + 1])
    <3>2. pos[j + 1] = b - 1 /\ l[b - 1] = sep /\ b + d - 1 <= Len(l) /\ d \in Nat
      BY <1>5, <1>6, <1>7, <3>1
    <3>3. b = a + m + 1
      BY <3>1
    <3> HIDE DEF b, d
    <3>4. /\ pos[j] + m \in 1 .. Len(t) /\ (pos[j] + m) + 1 = b - 1
          /\ pos[j + 1] = pos[j] + m + 1 /\ pos[j] + m <= Len(t)
      BY <2>7, <3>2, <3>3
    <3>5. CharAt(t, pos[j] + m) = l[(pos[j] + m) + 1]
      BY <1>4, <3>4
    <3>6. CharAt(t, pos[j] + m) = sep
      BY <3>2, <3>4, <3>5
    <3> QED BY <2>1, <2>4, <2>5, <3>4, <3>6 DEF m
  <2>6. CASE ~(j < n)
    <3>1. pos[j] + m = Len(t) + 1
      <4>1. j = n
        BY <1>5, <2>6
      <4>2. a + m = Len(l) + 1
        BY <2>3, <4>1
      <4> QED BY <2>7, <4>2
    <3> QED BY <2>1, <2>4, <2>6, <3>1 DEF m
  <2> QED BY <2>5, <2>6
<1>9. Places(t, gs, sep, pos)
  BY <1>7, <1>8 DEF Places, n
<1> QED BY <1>1, <1>9 DEF t

(* Span stops at its bound or at a character of another class. *)
LEMMA SpanFacts ==
  ASSUME NEW t, NEW p \in Nat, NEW c, NEW max \in Nat
  PROVE  LET n == Span(t, p, c, max) IN
         /\ n \in 0 .. max
         /\ \A j \in p .. p + n - 1 : CharAt(t, j) \in c
         /\ n = max \/ CharAt(t, p + n) \notin c
<1> DEFINE K == {k \in 0 .. max : \A j \in p .. p + k - 1 : CharAt(t, j) \in c}
           Stop == {k \in 0 .. max : k = max \/ CharAt(t, p + k) \notin c}
<1>1. max \in Stop /\ Stop \subseteq Nat
  OBVIOUS
<1>2. PICK n \in Stop : \A m \in Stop : n <= m
  <2> HIDE DEF Stop
  <2> QED BY <1>1, NatLeast
<1>3. n \in 0 .. max /\ (n = max \/ CharAt(t, p + n) \notin c)
  BY <1>2
<1>4. \A j \in p .. p + n - 1 : CharAt(t, j) \in c
  <2> TAKE j \in p .. p + n - 1
  <2>1. j - p \in 0 .. max /\ j - p < n /\ p + (j - p) = j /\ j - p # max
    BY <1>3
  <2>2. j - p \notin Stop
    BY <1>2, <2>1
  <2> QED BY <2>1, <2>2
<1>5. n \in K
  BY <1>3, <1>4
<1>6. \A k \in K : k <= n
  <2> SUFFICES ASSUME NEW k \in 0 .. max, n < k, \A j \in p .. p + k - 1 : CharAt(t, j) \in c
               PROVE  FALSE
    BY <1>3
  <2>1. p + n \in p .. p + k - 1 /\ n # max
    BY <1>3
  <2> QED BY <1>3, <2>1
<1>7. Span(t, p, c, max) = n
  <2>1. \A k \in K : k \in Int
    OBVIOUS
  <2>2. Span(t, p, c, max) = Max(K)
    BY DEF Span
  <2> HIDE DEF K
  <2>3. Max(K) = CHOOSE x \in K : \A y \in K : x >= y
    BY DEF Max
  <2>4. \A x \in K : (\A y \in K : x >= y) => x = n
    BY <1>3, <1>5, <1>6, <2>1
  <2>5. n \in K /\ \A y \in K : n >= y
    BY <1>3, <1>5, <1>6, <2>1
  <2> QED BY <2>2, <2>3, <2>4, <2>5
<1> QED BY <1>3, <1>4, <1>7

\* The characters of an address that the model tells apart.
TextChars == 0 .. Other
(* A run of characters of one class begins at a group and stays in it. *)
Run(t, gs, sep, pos, j, c, max, n) ==
  /\ n \in 0 .. Len(gs[j]) /\ n <= max
  /\ \A k \in 1 .. n : gs[j][k] \in c
  /\ n < Len(gs[j]) => n = max \/ gs[j][n + 1] \notin c
  /\ n < Len(gs[j]) => CharAt(t, pos[j] + n) = gs[j][n + 1]
  /\ n = Len(gs[j]) => CharAt(t, pos[j] + n) = IF j < Len(gs) THEN sep ELSE Nul
  /\ n = Len(gs[j]) => SubSeq(t, pos[j], pos[j] + n - 1) = gs[j]

(* What Span counts from the start of a group on ends with the group at the
   latest, and then a separator or the end of the text follows. *)
LEMMA GroupRun ==
  ASSUME NEW sep \in TextChars, NEW gs \in Seq(Seq(TextChars)), NEW t \in Seq(TextChars), NEW pos,
         Places(t, gs, sep, pos), NEW j \in 1 .. Len(gs),
         NEW c, sep \notin c, Nul \notin c, NEW max \in Nat
  PROVE  Run(t, gs, sep, pos, j, c, max, Span(t, pos[j], c, max))
<1> DEFINE S == TextChars
           p == pos[j]
           g == gs[j]
           m == Len(gs[j])
           n == Span(t, p, c, max)
<1>1. g \in Seq(S) /\ m \in Nat /\ Len(gs) \in Nat /\ t \in Seq(S)
  OBVIOUS
<1> HIDE DEF S
<1>2. /\ p \in Nat /\ p >= 1
      /\ \A k \in 1 .. m : CharAt(t, p + k - 1) = g[k]
      /\ j < Len(gs) => CharAt(t, p + m) = sep /\ p + m <= Len(t)
      /\ j = Len(gs) => p + m = Len(t) + 1
  <2>1. pos[j] \in Nat
    BY DEF Places
  <2>2. /\ pos[j] >= 1
        /\ \A k \in 1 .. Len(gs[j]) : CharAt(t, pos[j] + k - 1) = gs[j][k]
        /\ IF j < Len(gs)
           THEN /\ CharAt(t, pos[j] + Len(gs[j])) = sep
                /\ pos[j + 1] = pos[j] + Len(gs[j]) + 1
                /\ pos[j] + Len(gs[j]) <= Len(t)
           ELSE pos[j] + Len(gs[j]) = Len(t) + 1
    BY Zenon DEF Places
  <2>3. j = Len(gs) => ~(j < Len(gs))
    BY <1>1
  <2> QED BY <2>1, <2>2, <2>3
<1>3. n \in 0 .. max /\ (\A i \in p .. p + n - 1 : CharAt(t, i) \in c)
      /\ (n = max \/ CharAt(t, p + n) \notin c)
  BY <1>2, SpanFacts
<1>4. CharAt(t, p + m) = IF j < Len(gs) THEN sep ELSE Nul
  <2>1. CASE j < Len(gs) BY <1>2, <2>1
  <2>2. CASE j = Len(gs)
    <3>1. p + m \notin DOMAIN t
      BY <1>2, <2>2
    <3> QED BY <2>2, <3>1 DEF CharAt
  <2> QED BY <1>1, <2>1, <2>2
<1> HIDE DEF n, p, g, m
<1>5. n <= m
  <2> SUFFICES ASSUME n > m PROVE FALSE
    BY <1>1, <1>3
  <2>1. p + m \in p .. p + n - 1
    BY <1>1, <1>2, <1>3
  <2> QED BY <1>3, <1>4, <2>1
<1>6. \A k \in 1 .. n : g[k] \in c
  <2> TAKE k \in 1 .. n
  <2>1. p + k - 1 \in p .. p + n - 1 /\ k \in 1 .. m
    BY <1>1, <1>2, <1>3, <1>5
  <2> QED BY <1>2, <1>3, <2>1
<1>7. ASSUME n < m PROVE CharAt(t, p + n) = g[n + 1]
  <2>1. n + 1 \in 1 .. m /\ p + (n + 1) - 1 = p + n
    BY <1>1, <1>2, <1>3, <1>7
  <2> QED BY <1>2, <2>1
<1>8. ASSUME n = m PROVE SubSeq(t, p, p + n - 1) = g
  <2>1. Len(t) \in Nat /\ p + m <= Len(t) + 1 /\ DOMAIN t = 1 .. Len(t)
    BY <1>1, <1>2
  <2>2. \A k \in 1 .. m : g[k] = t[p + k - 1]
    <3> TAKE k \in 1 .. m
    <3>1. p + k - 1 \in DOMAIN t
      BY <1>1, <1>2, <2>1
    <3> QED BY <1>2, <3>1 DEF CharAt
  <2> DEFINE u == SubSeq(t, p, p + m - 1)
  <2>3. u \in Seq(S) /\ Len(u) = m /\ \A k \in 1 .. m : u[k] = t[p + k - 1]
    BY <1>1, <1>2, <2>1
  <2> HIDE DEF u
  <2>4. Len(g) = m
    BY DEF g, m
  <2>5. Len(u) = Len(g) /\ \A k \in 1 .. Len(u) : u[k] = g[k]
    BY <2>2, <2>3, <2>4
  <2>6. u = g
    BY <1>1, <2>3, <2>5, SeqEqual
  <2> QED BY <1>8, <2>6 DEF u
<1> QED BY <1>1, <1>2, <1>3, <1>4, <1>5, <1>6, <1>7, <1>8 DEF n, p, g, m, Run

(* The value of digits in a base. *)
LEMMA NumberFacts ==
  ASSUME NEW base \in Nat
  PROVE  /\ Number(base, <<>>) = 0
         /\ \A t \in Seq(Nat) : Number(base, t) \in Nat
         /\ \A t \in Seq(Nat), c \in Nat : Number(base, Append(t, c)) = base * Number(base, t) + c
<1> DEFINE step == [p \in Nat \X Nat |-> base * p[1] + p[2]]
<1>0. 0 \in Nat /\ \A d \in Nat, c \in Nat : base * d + c \in Nat
  OBVIOUS
<1>1. step \in [Nat \X Nat -> Nat] /\ \A d \in Nat, c \in Nat : step[<<d, c>>] = base * d + c
  BY <1>0
<1> HIDE DEF step
<1>2. PICK h : IsFoldOf(h, step, 0, Nat, Nat)
  BY <1>0, <1>1, FoldOf
<1>3. ASSUME NEW t \in Seq(Nat) PROVE Number(base, t) = h[t]
  <2>0. \A i \in 1 .. Len(t) : t[i] \in Nat /\ i - 1 \in 0 .. Len(t)
    OBVIOUS
  <2>1. PICK g \in [0 .. Len(t) -> Nat] : IsListFold(g, step, 0, t)
    BY <1>2 DEF IsFoldOf
  <2>2. g = [i \in 0 .. Len(t) |-> IF i = 0 THEN 0 ELSE base * g[i - 1] + t[i]]
    <3>1. \A i \in 0 .. Len(t) : i # 0 => g[i - 1] \in Nat /\ t[i] \in Nat
      <4>1. \A i \in 0 .. Len(t) : i # 0 => i \in 1 .. Len(t)
        OBVIOUS
      <4> QED BY <2>0, <4>1
    <3>2. \A i \in 0 .. Len(t) : i # 0 => step[<<g[i - 1], t[i]>>] = base * g[i - 1] + t[i]
      BY <1>1, <3>1, Zenon
    <3>3. g = [i \in 0 .. Len(t) |-> IF i = 0 THEN 0 ELSE step[<<g[i - 1], t[i]>>]]
      BY <2>1 DEF IsListFold
    <3> QED BY <3>2, <3>3
  <2>3. PICK f : /\ f = [i \in 0 .. Len(t) |-> IF i = 0 THEN 0 ELSE base * f[i - 1] + t[i]]
                 /\ Number(base, t) = f[Len(t)]
    BY <2>2, Zenon DEF Number
  <2>4. FoldSteps(f, step, 0, t, Len(t), Nat)
    <3> DEFINE E(i) == IF i = 0 THEN 0 ELSE base * f[i - 1] + t[i]
    <3>1. f = [i \in 0 .. Len(t) |-> E(i)]
      BY <2>3
    <3> HIDE DEF E
    <3>2. Len(t) \in Nat /\ \A i \in 0 .. Len(t) : f[i] = E(i)
      BY <3>1
    <3>3. f[0] = 0
      BY <3>2 DEF E
    <3>4. \A i \in 1 .. Len(t) : i # 0 /\ f[i] = E(i)
      BY <3>2
    <3>5. \A i \in 1 .. Len(t) : f[i] = base * f[i - 1] + t[i]
      BY <3>4 DEF E
    <3> QED BY <1>1, <2>0, <3>3, <3>5 DEF FoldSteps
  <2> QED BY <1>2, <2>3, <2>4 DEF IsFoldOf
<1>4. <<>> \in Seq(Nat) /\ \A t \in Seq(Nat), c \in Nat : Append(t, c) \in Seq(Nat)
  OBVIOUS
<1>5. Number(base, <<>>) = 0
  BY <1>2, <1>3, <1>4 DEF IsFoldOf
<1>6. \A t \in Seq(Nat) : Number(base, t) \in Nat
  BY <1>2, <1>3 DEF IsFoldOf
<1>7. ASSUME NEW t \in Seq(Nat), NEW c \in Nat
      PROVE  Number(base, Append(t, c)) = base * Number(base, t) + c
  <2>1. h[Append(t, c)] = step[<<h[t], c>>] /\ h[t] \in Nat
    BY <1>2 DEF IsFoldOf
  <2> QED BY <1>1, <1>3, <1>4, <2>1
<1> QED BY <1>5, <1>6, <1>7

(* The value that the loop of yo_parse_ipv4 reaches. *)
LEMMA Ipv4NumberFacts ==
  /\ ipv4_number(<<>>) = 0
  /\ \A t \in Seq(Nat) : ipv4_number(t) \in Nat
  /\ \A t \in Seq(Nat), c \in Nat : ipv4_number(Append(t, c)) = ipv4_digit(ipv4_number(t), c)
<1> DEFINE step == [p \in Nat \X Nat |-> ipv4_digit(p[1], p[2])]
<1>0. 0 \in Nat /\ \A d \in Nat, c \in Nat : ipv4_digit(d, c) \in Nat
  BY DEF ipv4_digit
<1>1. step \in [Nat \X Nat -> Nat] /\ \A d \in Nat, c \in Nat : step[<<d, c>>] = ipv4_digit(d, c)
  BY <1>0
<1> HIDE DEF step
<1>2. PICK h : IsFoldOf(h, step, 0, Nat, Nat)
  BY <1>0, <1>1, FoldOf
<1>3. ASSUME NEW t \in Seq(Nat) PROVE ipv4_number(t) = h[t]
  <2>0. \A i \in 1 .. Len(t) : t[i] \in Nat /\ i - 1 \in 0 .. Len(t)
    OBVIOUS
  <2>1. PICK g \in [0 .. Len(t) -> Nat] : IsListFold(g, step, 0, t)
    BY <1>2 DEF IsFoldOf
  <2>2. g = [i \in 0 .. Len(t) |-> IF i = 0 THEN 0 ELSE ipv4_digit(g[i - 1], t[i])]
    <3>1. \A i \in 0 .. Len(t) : i # 0 => g[i - 1] \in Nat /\ t[i] \in Nat
      <4>1. \A i \in 0 .. Len(t) : i # 0 => i \in 1 .. Len(t)
        OBVIOUS
      <4> QED BY <2>0, <4>1
    <3>2. \A i \in 0 .. Len(t) : i # 0 => step[<<g[i - 1], t[i]>>] = ipv4_digit(g[i - 1], t[i])
      BY <1>1, <3>1, Zenon
    <3>3. g = [i \in 0 .. Len(t) |-> IF i = 0 THEN 0 ELSE step[<<g[i - 1], t[i]>>]]
      BY <2>1 DEF IsListFold
    <3> QED BY <3>2, <3>3
  <2>3. PICK f : /\ f = [i \in 0 .. Len(t) |-> IF i = 0 THEN 0 ELSE ipv4_digit(f[i - 1], t[i])]
                 /\ ipv4_number(t) = f[Len(t)]
    BY <2>2, Zenon DEF ipv4_number
  <2>4. FoldSteps(f, step, 0, t, Len(t), Nat)
    <3> DEFINE E(i) == IF i = 0 THEN 0 ELSE ipv4_digit(f[i - 1], t[i])
    <3>1. f = [i \in 0 .. Len(t) |-> E(i)]
      BY <2>3
    <3> HIDE DEF E
    <3>2. Len(t) \in Nat /\ \A i \in 0 .. Len(t) : f[i] = E(i)
      BY <3>1
    <3>3. f[0] = 0
      BY <3>2 DEF E
    <3>4. \A i \in 1 .. Len(t) : i # 0 /\ f[i] = E(i)
      BY <3>2
    <3>5. \A i \in 1 .. Len(t) : f[i] = ipv4_digit(f[i - 1], t[i])
      BY <3>4 DEF E
    <3> QED BY <1>1, <2>0, <3>3, <3>5 DEF FoldSteps
  <2> QED BY <1>2, <2>3, <2>4 DEF IsFoldOf
<1>4. <<>> \in Seq(Nat) /\ \A t \in Seq(Nat), c \in Nat : Append(t, c) \in Seq(Nat)
  OBVIOUS
<1>5. ipv4_number(<<>>) = 0
  BY <1>2, <1>3, <1>4 DEF IsFoldOf
<1>6. \A t \in Seq(Nat) : ipv4_number(t) \in Nat
  BY <1>2, <1>3 DEF IsFoldOf
<1>7. ASSUME NEW t \in Seq(Nat), NEW c \in Nat
      PROVE  ipv4_number(Append(t, c)) = ipv4_digit(ipv4_number(t), c)
  <2>1. h[Append(t, c)] = step[<<h[t], c>>] /\ h[t] \in Nat
    BY <1>2 DEF IsFoldOf
  <2> QED BY <1>1, <1>3, <1>4, <2>1
<1> QED BY <1>5, <1>6, <1>7

(* The groups that are not empty. *)
LEMMA NonEmptyFacts ==
  ASSUME NEW C
  PROVE  /\ NonEmpty(<<>>) = <<>>
         /\ \A t \in Seq(C) : NonEmpty(t) \in Seq(C)
         /\ \A t \in Seq(C), c \in C : NonEmpty(Append(t, c)) = (IF c = <<>> THEN NonEmpty(t) ELSE Append(NonEmpty(t), c))
<1> DEFINE step == [p \in Seq(C) \X C |-> (IF p[2] = <<>> THEN p[1] ELSE Append(p[1], p[2]))]
<1>0. <<>> \in Seq(C) /\ \A d \in Seq(C), c \in C : (IF c = <<>> THEN d ELSE Append(d, c)) \in Seq(C)
  OBVIOUS
<1>1. step \in [Seq(C) \X C -> Seq(C)] /\ \A d \in Seq(C), c \in C : step[<<d, c>>] = (IF c = <<>> THEN d ELSE Append(d, c))
  BY <1>0
<1> HIDE DEF step
<1>2. PICK h : IsFoldOf(h, step, <<>>, C, Seq(C))
  BY <1>0, <1>1, FoldOf
<1>3. ASSUME NEW t \in Seq(C) PROVE NonEmpty(t) = h[t]
  <2>0. \A i \in 1 .. Len(t) : t[i] \in C /\ i - 1 \in 0 .. Len(t)
    OBVIOUS
  <2>1. PICK g \in [0 .. Len(t) -> Seq(C)] : IsListFold(g, step, <<>>, t)
    BY <1>2 DEF IsFoldOf
  <2>2. g = [i \in 0 .. Len(t) |-> IF i = 0 THEN <<>> ELSE (IF t[i] = <<>> THEN g[i - 1] ELSE Append(g[i - 1], t[i]))]
    <3>1. \A i \in 0 .. Len(t) : i # 0 => g[i - 1] \in Seq(C) /\ t[i] \in C
      <4>1. \A i \in 0 .. Len(t) : i # 0 => i \in 1 .. Len(t)
        OBVIOUS
      <4> QED BY <2>0, <4>1
    <3>2. \A i \in 0 .. Len(t) : i # 0 => step[<<g[i - 1], t[i]>>] = (IF t[i] = <<>> THEN g[i - 1] ELSE Append(g[i - 1], t[i]))
      BY <1>1, <3>1, Zenon
    <3>3. g = [i \in 0 .. Len(t) |-> IF i = 0 THEN <<>> ELSE step[<<g[i - 1], t[i]>>]]
      BY <2>1 DEF IsListFold
    <3> QED BY <3>2, <3>3
  <2>3. PICK f : /\ f = [i \in 0 .. Len(t) |-> IF i = 0 THEN <<>> ELSE (IF t[i] = <<>> THEN f[i - 1] ELSE Append(f[i - 1], t[i]))]
                 /\ NonEmpty(t) = f[Len(t)]
    BY <2>2, Zenon DEF NonEmpty
  <2>4. FoldSteps(f, step, <<>>, t, Len(t), Seq(C))
    <3> DEFINE E(i) == IF i = 0 THEN <<>> ELSE (IF t[i] = <<>> THEN f[i - 1] ELSE Append(f[i - 1], t[i]))
    <3>1. f = [i \in 0 .. Len(t) |-> E(i)]
      BY <2>3
    <3> HIDE DEF E
    <3>2. Len(t) \in Nat /\ \A i \in 0 .. Len(t) : f[i] = E(i)
      BY <3>1
    <3>3. f[0] = <<>>
      BY <3>2 DEF E
    <3>4. \A i \in 1 .. Len(t) : i # 0 /\ f[i] = E(i)
      BY <3>2
    <3>5. \A i \in 1 .. Len(t) : f[i] = (IF t[i] = <<>> THEN f[i - 1] ELSE Append(f[i - 1], t[i]))
      BY <3>4 DEF E
    <3> QED BY <1>1, <2>0, <3>3, <3>5 DEF FoldSteps
  <2> QED BY <1>2, <2>3, <2>4 DEF IsFoldOf
<1>4. <<>> \in Seq(C) /\ \A t \in Seq(C), c \in C : Append(t, c) \in Seq(C)
  OBVIOUS
<1>5. NonEmpty(<<>>) = <<>>
  BY <1>2, <1>3, <1>4 DEF IsFoldOf
<1>6. \A t \in Seq(C) : NonEmpty(t) \in Seq(C)
  BY <1>2, <1>3 DEF IsFoldOf
<1>7. ASSUME NEW t \in Seq(C), NEW c \in C
      PROVE  NonEmpty(Append(t, c)) = (IF c = <<>> THEN NonEmpty(t) ELSE Append(NonEmpty(t), c))
  <2>1. h[Append(t, c)] = step[<<h[t], c>>] /\ h[t] \in Seq(C)
    BY <1>2 DEF IsFoldOf
  <2> QED BY <1>1, <1>3, <1>4, <2>1
<1> QED BY <1>5, <1>6, <1>7

(* The saturated value is the value, up to 1000. *)
LEMMA Saturated ==
  ASSUME NEW ds \in Seq(Nat)
  PROVE  /\ Number(10, ds) \in Nat /\ ipv4_number(ds) \in Nat
         /\ ipv4_number(ds) = Number(10, ds) \/ (ipv4_number(ds) = 1000 /\ Number(10, ds) > 1000)
<1> DEFINE P(s) == \/ ipv4_number(s) = Number(10, s)
                   \/ ipv4_number(s) = 1000 /\ Number(10, s) > 1000
           A == {s \in Seq(Nat) : P(s)}
<1>0. \A s \in Seq(Nat) : Number(10, s) \in Nat /\ ipv4_number(s) \in Nat
  BY NumberFacts, Ipv4NumberFacts
<1>1. <<>> \in A
  <2>1. <<>> \in Seq(Nat)
    OBVIOUS
  <2>2. Number(10, <<>>) = 0
    BY NumberFacts
  <2>3. ipv4_number(<<>>) = 0
    BY Ipv4NumberFacts
  <2>4. ipv4_number(<<>>) = Number(10, <<>>)
    BY <2>2, <2>3
  <2>5. P(<<>>)
    BY <2>4
  <2> HIDE DEF P
  <2> QED BY <2>1, <2>5
<1>2. ASSUME NEW s \in Seq(Nat), NEW d \in Nat, s \in A PROVE Append(s, d) \in A
  <2> DEFINE v == ipv4_number(s)
             n == Number(10, s)
  <2>1. v \in Nat /\ n \in Nat /\ (v = n \/ (v = 1000 /\ n > 1000))
    BY <1>0, <1>2
  <2>2. ipv4_number(Append(s, d)) = IF v > 100 THEN 1000 ELSE 10 * v + d
    BY Ipv4NumberFacts DEF ipv4_digit
  <2>3. Number(10, Append(s, d)) = 10 * n + d
    BY NumberFacts
  <2> HIDE DEF v, n
  <2>4. Append(s, d) \in Seq(Nat) /\ (P(Append(s, d)) => Append(s, d) \in A)
    <3> HIDE DEF P
    <3> QED OBVIOUS
  <2>5. CASE v = n /\ v <= 100
    <3>1. ipv4_number(Append(s, d)) = 10 * v + d
      BY <2>1, <2>2, <2>5
    <3>2. ipv4_number(Append(s, d)) = Number(10, Append(s, d))
      BY <2>3, <2>5, <3>1
    <3> QED BY <2>4, <3>2
  <2>6. CASE v > 100
    <3>1. ipv4_number(Append(s, d)) = 1000
      BY <2>2, <2>6
    <3>2. 10 * n + d > 1000
      BY <2>1, <2>6
    <3> QED BY <2>3, <2>4, <3>1, <3>2
  <2> QED BY <2>1, <2>5, <2>6
<1> HIDE DEF A
<1>3. ds \in A
  <2>1. \A s \in Seq(Nat) : s \in A
    BY <1>1, <1>2, SeqInduct
  <2> QED BY <2>1
<1> QED BY <1>0, <1>3 DEF A

(* NonEmpty drops nothing exactly if no group is empty. *)
LEMMA NonEmptyAll ==
  ASSUME NEW C, NEW gs \in Seq(C)
  PROVE  /\ NonEmpty(gs) = gs <=> \A i \in DOMAIN gs : gs[i] # <<>>
<1> DEFINE P(s) == /\ \A i \in DOMAIN NonEmpty(s) : NonEmpty(s)[i] # <<>>
                   /\ (\A i \in DOMAIN s : s[i] # <<>>) => NonEmpty(s) = s
           A == {s \in Seq(C) : P(s)}
<1>1. <<>> \in A
  <2>1. NonEmpty(<<>>) = <<>> /\ <<>> \in Seq(C) /\ DOMAIN <<>> = {}
    BY NonEmptyFacts
  <2> QED BY <2>1
<1>2. ASSUME NEW s \in Seq(C), NEW c \in C, s \in A PROVE Append(s, c) \in A
  <2> DEFINE u == Append(s, c)
             r == NonEmpty(s)
  <2>1. r \in Seq(C) /\ NonEmpty(u) = IF c = <<>> THEN r ELSE Append(r, c)
    BY NonEmptyFacts
  <2>2. /\ \A i \in DOMAIN r : r[i] # <<>>
        /\ (\A i \in DOMAIN s : s[i] # <<>>) => r = s
    BY <1>2
  <2>3. /\ u \in Seq(C) /\ DOMAIN u = 1 .. Len(s) + 1 /\ DOMAIN s = 1 .. Len(s) /\ Len(s) \in Nat
        /\ u[Len(s) + 1] = c /\ \A i \in 1 .. Len(s) : u[i] = s[i]
    OBVIOUS
  <2> HIDE DEF u, r
  <2>4. \A i \in DOMAIN NonEmpty(u) : NonEmpty(u)[i] # <<>>
    <3>1. CASE c = <<>> BY <2>1, <2>2, <3>1
    <3>2. CASE c # <<>>
      <4> DEFINE v == Append(r, c)
      <4>1. NonEmpty(u) = v
        BY <2>1, <3>2
      <4>2. /\ DOMAIN v = 1 .. Len(r) + 1 /\ DOMAIN r = 1 .. Len(r) /\ Len(r) \in Nat
            /\ v[Len(r) + 1] = c /\ \A i \in 1 .. Len(r) : v[i] = r[i]
        BY <2>1
      <4> HIDE DEF v
      <4>3. \A i \in 1 .. Len(r) + 1 : v[i] # <<>>
        <5> TAKE i \in 1 .. Len(r) + 1
        <5>1. CASE i = Len(r) + 1 BY <3>2, <4>2, <5>1
        <5>2. CASE i \in 1 .. Len(r) BY <2>2, <4>2, <5>2
        <5> QED BY <4>2, <5>1, <5>2
      <4> QED BY <4>1, <4>2, <4>3
    <3> QED BY <3>1, <3>2
  <2>5. ASSUME \A i \in DOMAIN u : u[i] # <<>> PROVE NonEmpty(u) = u
    <3>1. c # <<>>
      <4>1. Len(s) + 1 \in DOMAIN u
        BY <2>3
      <4> QED BY <2>3, <2>5, <4>1
    <3>2. \A i \in DOMAIN s : s[i] # <<>>
      <4> TAKE i \in DOMAIN s
      <4>1. i \in DOMAIN u /\ u[i] = s[i]
        BY <2>3
      <4> QED BY <2>5, <4>1
    <3> QED BY <2>1, <2>2, <3>1, <3>2 DEF u
  <2> QED BY <2>3, <2>4, <2>5 DEF u
<1> HIDE DEF A
<1>3. gs \in A
  BY <1>1, <1>2, SeqInduct
<1> QED BY <1>3 DEF A

\* No group has the separator in it.
Free(gs, sep) == \A i \in DOMAIN gs : \A k \in DOMAIN gs[i] : gs[i][k] # sep

(* What the loops of the parsers keep. *)
Walks == [ok : BOOLEAN, it : Nat, parts : Seq(Nat), end : BOOLEAN]

(* A parser that failed keeps nothing. *)
LEMMA FailedFacts == Failed \in Walks /\ Failed.ok = FALSE
<1>1. <<>> \in Seq(Nat)
  OBVIOUS
<1> QED BY <1>1 DEF Failed, Start, Walks

(* The body of the loop of yo_parse_ipv4, by its variables. *)
LEMMA PartIs ==
  ASSUME NEW t, NEW w \in Walks, NEW i, NEW n \in Nat, NEW num \in Nat,
         n = Span(t, w.it, Digit, Len(t)),
         num = ipv4_number(SubSeq(t, w.it, w.it + n - 1))
  PROVE  LET dot == CharAt(t, w.it + n) = Dot
             it == w.it + n + (IF dot THEN 1 ELSE 0)
             u == ipv4_part(t, w, i)
         IN  /\ u \in Walks
             /\ n = 0 \/ num > 255 \/ (dot /\ i = 3) \/ (CharAt(t, it) = Nul /\ i # 3) => u = Failed
             /\ ~(n = 0 \/ num > 255 \/ (dot /\ i = 3) \/ (CharAt(t, it) = Nul /\ i # 3)) =>
                  u.ok = w.ok /\ u.it = it /\ u.parts = Append(w.parts, num)
             /\ u = Failed \/ u.it = it
<1> DEFINE dot == CharAt(t, w.it + n) = Dot
           it == w.it + n + (IF dot THEN 1 ELSE 0)
           u == ipv4_part(t, w, i)
           stop == n = 0 \/ num > 255 \/ (dot /\ i = 3) \/ (CharAt(t, it) = Nul /\ i # 3)
           v == [w EXCEPT !.it = it, !.parts = Append(@, num)]
<1>1. u = IF stop THEN Failed ELSE v
  BY DEF ipv4_part
<1>2. it \in Nat /\ w.parts \in Seq(Nat) /\ Append(w.parts, num) \in Seq(Nat)
  BY DEF Walks
<1> HIDE DEF it, stop, dot
<1>3. v \in Walks /\ v.ok = w.ok /\ v.it = it /\ v.parts = Append(w.parts, num)
  BY <1>2 DEF Walks
<1> HIDE DEF u, v
<1>4. /\ u \in Walks
      /\ stop => u = Failed
      /\ ~stop => u.ok = w.ok /\ u.it = it /\ u.parts = Append(w.parts, num)
      /\ u = Failed \/ u.it = it
  BY <1>1, <1>3, FailedFacts
<1> QED BY <1>4 DEF stop, u, it, dot

------------------------------------------------------------------------------
(* yo_parse_ipv4.                                                           *)

(* A text is a list of numbers, none of them the terminator. *)
LEMMA TextIsNat ==
  ASSUME NEW g \in Seq(TextChars)
  PROVE  g \in Seq(Nat) /\ Len(g) \in Nat /\ DOMAIN g = 1 .. Len(g) /\ \A k \in 1 .. Len(g) : g[k] \in TextChars /\ g[k] \in Nat /\ g[k] # Nul
<1>1. Len(g) \in Nat /\ DOMAIN g = 1 .. Len(g) /\ \A k \in 1 .. Len(g) : g[k] \in TextChars
  OBVIOUS
<1>2. \A k \in 1 .. Len(g) : g[k] \in Nat /\ g[k] # Nul
  BY <1>1, SMTT(40) DEF TextChars, Other, Nul
<1>3. g = [k \in 1 .. Len(g) |-> g[k]]
  OBVIOUS
<1> DEFINE m == Len(g)
           f == [k \in 1 .. m |-> g[k]]
<1>4. m \in Nat /\ f \in [1 .. m -> Nat]
  BY <1>1, <1>2
<1> HIDE DEF m, f
<1>5. f \in Seq(Nat)
  BY <1>4, FnIsSeq
<1> QED BY <1>1, <1>2, <1>3, <1>5 DEF f, m

\* All that Places and Free say of one group.
Place(t, gs, sep, pos, j) ==
      /\ j \in 1 .. Len(gs) /\ Len(gs) \in Nat /\ pos[j] \in Nat /\ pos[j] >= 1 
      /\ gs[j] \in Seq(TextChars) /\ Len(gs[j]) \in Nat
      /\ \A k \in 1 .. Len(gs[j]) : CharAt(t, pos[j] + k - 1) = gs[j][k] /\ gs[j][k] \in TextChars /\ gs[j][k] # sep /\ gs[j][k] # Nul
      /\ j < Len(gs) => CharAt(t, pos[j] + Len(gs[j])) = sep /\ pos[j + 1] = pos[j] + Len(gs[j]) + 1 /\ pos[j] + Len(gs[j]) <= Len(t)
      /\ ~(j < Len(gs)) => j = Len(gs) /\ pos[j] + Len(gs[j]) = Len(t) + 1

(* Every group is at its place. *)
LEMMA PlaceIs ==
  ASSUME NEW sep, NEW gs \in Seq(Seq(TextChars)), Free(gs, sep), NEW t, NEW pos,
         Places(t, gs, sep, pos), NEW j \in 1 .. Len(gs)
  PROVE  Place(t, gs, sep, pos, j)
<1>1. Len(gs) \in Nat /\ gs[j] \in Seq(TextChars) /\ Len(gs[j]) \in Nat /\ j \in DOMAIN gs /\ DOMAIN gs[j] = 1 .. Len(gs[j])
  OBVIOUS
<1>2. \A k \in 1 .. Len(gs[j]) : gs[j][k] \in TextChars /\ gs[j][k] # sep /\ gs[j][k] # Nul
  BY <1>1, TextIsNat DEF Free
<1>3. /\ pos[j] \in Nat /\ pos[j] >= 1
      /\ \A k \in 1 .. Len(gs[j]) : CharAt(t, pos[j] + k - 1) = gs[j][k]
      /\ j < Len(gs) => CharAt(t, pos[j] + Len(gs[j])) = sep /\ pos[j + 1] = pos[j] + Len(gs[j]) + 1 /\ pos[j] + Len(gs[j]) <= Len(t)
      /\ ~(j < Len(gs)) => pos[j] + Len(gs[j]) = Len(t) + 1
  BY DEF Places
<1>4. ~(j < Len(gs)) => j = Len(gs)
  BY <1>1
<1> QED BY <1>1, <1>2, <1>3, <1>4 DEF Place

\* The body of the loop of yo_parse_ipv4: n digits of value num are read from
\* state w, as part i, and the state is u then.
Part(t, w, i, n, num, u) ==
  LET dot == CharAt(t, w.it + n) = Dot
      it == w.it + n + (IF dot THEN 1 ELSE 0)
      stop == n = 0 \/ num > 255 \/ (dot /\ i = 3) \/ (CharAt(t, it) = Nul /\ i # 3)
  IN  /\ u \in Walks
      /\ stop => u = Failed
      /\ ~stop => u.ok = w.ok /\ u.it = it /\ u.parts = Append(w.parts, num)

(* ipv4_part does what Part says. *)
LEMMA IsPart ==
  ASSUME NEW t, NEW w \in Walks, NEW i, NEW n \in Nat, NEW num \in Nat,
         n = Span(t, w.it, Digit, Len(t)),
         num = ipv4_number(SubSeq(t, w.it, w.it + n - 1))
  PROVE  Part(t, w, i, n, num, ipv4_part(t, w, i))
BY PartIs DEF Part

\* A group that yo_parse_ipv4 takes.
GoodPart(g) == g # <<>> /\ (\A k \in DOMAIN g : g[k] \in Digit) /\ Number(10, g) <= 255
\* The groups read so far, and the cursor at the next one.
Reading(w, gs, pos, m) ==
  w.ok = TRUE /\ w.it = pos[m + 1] /\ w.parts = [k \in 1 .. m |-> Number(10, gs[k])]
\* No way on: another num fails, and the end is not reached.
Stuck(t, w) == w.ok = FALSE \/ CharAt(t, w.it) \notin Digit \cup {Nul}

(* A parser without a way on never finds one. *)
LEMMA StuckStays ==
  ASSUME NEW t, Len(t) \in Nat, NEW w \in Walks, Stuck(t, w), NEW i
  PROVE  ipv4_next(t, w, i) \in Walks /\ Stuck(t, ipv4_next(t, w, i))
<1>1. CASE w.ok = FALSE
  BY <1>1 DEF ipv4_next
<1>2. CASE w.ok # FALSE
  <2>1. w.ok = TRUE /\ w.it \in Nat /\ CharAt(t, w.it) \notin Digit
    BY <1>2 DEF Walks, Stuck
  <2> DEFINE n == Span(t, w.it, Digit, Len(t))
  <2>2. n \in 0 .. Len(t) /\ \A j \in w.it .. w.it + n - 1 : CharAt(t, j) \in Digit
    BY <2>1, SpanFacts
  <2> HIDE DEF n
  <2>3. n = 0
    <3> SUFFICES ASSUME n # 0 PROVE FALSE
      OBVIOUS
    <3>1. w.it \in w.it .. w.it + n - 1
      BY <2>1, <2>2
    <3> QED BY <2>1, <2>2, <3>1
  <2>4. ipv4_part(t, w, i) = Failed
    BY <2>3 DEF ipv4_part, n
  <2> QED BY <2>1, <2>4, FailedFacts DEF ipv4_next, Stuck
<1> QED BY <1>1, <1>2

\* Part i + 1 is read: the groups so far are good and the cursor is at the
\* next one, or the text is none of an address.
Stepped(t, gs, pos, i, u) ==
  /\ u \in Walks
  /\ i < 3 => \/ Stuck(t, u) /\ ~(GoodPart(gs[i + 1]) /\ i + 1 < Len(gs) /\ gs[i + 2] # <<>>)
              \/ Reading(u, gs, pos, i + 1) /\ GoodPart(gs[i + 1]) /\ i + 1 < Len(gs)
  /\ i = 3 => \/ Stuck(t, u) /\ ~(GoodPart(gs[i + 1]) /\ Len(gs) = 4)
              \/ /\ u.ok = TRUE /\ CharAt(t, u.it) = Nul /\ GoodPart(gs[i + 1]) /\ Len(gs) = 4
                 /\ u.parts = [k \in 1 .. 4 |-> Number(10, gs[k])]

(* One turn of the loop of yo_parse_ipv4 on a text of such groups. *)
LEMMA Ipv4Step ==
  ASSUME NEW gs \in Seq(Seq(TextChars)), Free(gs, Dot), NEW t \in Seq(TextChars), NEW pos,
         Places(t, gs, Dot, pos), NEW i \in 0 .. 3, i < Len(gs),
         NEW w \in Walks, Reading(w, gs, pos, i)
  PROVE  Stepped(t, gs, pos, i, ipv4_part(t, w, i))
<1> DEFINE j == i + 1
           g == gs[j]
           p == pos[j]
           L == Len(g)
           N == Len(gs)
           n == Span(t, p, Digit, Len(t))
           u == ipv4_part(t, w, i)
<1>0. Dot \in TextChars /\ Dot \notin Digit /\ Nul \notin Digit /\ Nul # Dot /\ Nul \notin TextChars
  BY DEF Dot, Digit, Nul, TextChars, Other
<1>1. N \in Nat /\ j \in 1 .. N /\ j \in Nat /\ Len(t) \in Nat
  OBVIOUS
<1>2. Place(t, gs, Dot, pos, j)
  <2> HIDE DEF j
  <2> QED BY <1>1, PlaceIs
<1>3. Run(t, gs, Dot, pos, j, Digit, Len(t), n)
  <2> HIDE DEF j
  <2> QED BY <1>0, <1>1, GroupRun
<1>4. w.it = p /\ w.ok = TRUE /\ w.parts = [k \in 1 .. i |-> Number(10, gs[k])]
  BY DEF Reading
<1> HIDE DEF n, u
<1>5. /\ p \in Nat /\ p >= 1 /\ g \in Seq(TextChars) /\ L \in Nat
      /\ \A k \in 1 .. L : CharAt(t, p + k - 1) = g[k] /\ g[k] # Dot /\ g[k] # Nul
      /\ j < N => CharAt(t, p + L) = Dot /\ pos[j + 1] = p + L + 1 /\ p + L <= Len(t)
      /\ ~(j < N) => j = N /\ p + L = Len(t) + 1
  BY <1>2 DEF Place
<1>6. /\ n \in 0 .. L /\ n <= Len(t)
      /\ \A k \in 1 .. n : g[k] \in Digit
      /\ n < L => n = Len(t) \/ g[n + 1] \notin Digit
      /\ n < L => CharAt(t, p + n) = g[n + 1]
      /\ n = L => CharAt(t, p + n) = IF j < N THEN Dot ELSE Nul
      /\ n = L => SubSeq(t, p, p + n - 1) = g
  BY <1>3 DEF Run
<1>7. g \in Seq(Nat) /\ DOMAIN g = 1 .. L
  BY <1>5, TextIsNat
<1>8. Number(10, g) \in Nat /\ ipv4_number(g) \in Nat
      /\ (ipv4_number(g) = Number(10, g) \/ (ipv4_number(g) = 1000 /\ Number(10, g) > 1000))
  BY <1>7, Saturated
<1> DEFINE sub == SubSeq(t, p, p + n - 1)
           num == ipv4_number(sub)
           c == CharAt(t, p + n)
           it == p + n + (IF c = Dot THEN 1 ELSE 0)
<1>9. num \in Nat
  <2>1. sub \in Seq(TextChars)
    <3>1. p + n - 1 <= Len(t)
      BY <1>1, <1>5, <1>6, SMTT(40)
    <3> HIDE DEF p
    <3> QED BY <1>1, <1>5, <1>6, <3>1, SMTT(40)
  <2>2. sub \in Seq(Nat)
    BY <2>1, TextIsNat
  <2> HIDE DEF sub
  <2> QED BY <2>2, Saturated
<1>10. Part(t, w, i, n, num, u)
  <2>1. n \in Nat
    BY <1>6
  <2>2. n = Span(t, w.it, Digit, Len(t)) /\ num = ipv4_number(SubSeq(t, w.it, w.it + n - 1))
    BY <1>4 DEF n
  <2> HIDE DEF num
  <2> QED BY <1>9, <2>1, <2>2, IsPart DEF u
<1>11. /\ u \in Walks
       /\ n = 0 \/ num > 255 \/ (c = Dot /\ i = 3) \/ (CharAt(t, it) = Nul /\ i # 3) => u = Failed
       /\ ~(n = 0 \/ num > 255 \/ (c = Dot /\ i = 3) \/ (CharAt(t, it) = Nul /\ i # 3)) =>
            u.ok = TRUE /\ u.it = it /\ u.parts = Append(w.parts, num)
  BY <1>4, <1>10 DEF Part
<1>12. u = Failed => Stuck(t, u)
  BY FailedFacts DEF Stuck
<1>13. i < 3 => i # 3
  OBVIOUS
<1>14. i = 3 => j = 4 
  OBVIOUS
<1>15. i + 1 = j /\ i + 2 = j + 1
  OBVIOUS
<1> DEFINE G == GoodPart(g)
           R == Reading(u, gs, pos, j)
           K == Stuck(t, u)
<1>16. ASSUME /\ i # 3 => (K /\ ~(G /\ j < N /\ gs[j + 1] # <<>>)) \/ (R /\ G /\ j < N)
              /\ i = 3 => (K /\ ~(G /\ N = 4)) \/ (u.ok = TRUE /\ CharAt(t, u.it) = Nul /\ G /\ N = 4
                                                 /\ u.parts = [k \in 1 .. 4 |-> Number(10, gs[k])])
       PROVE  Stepped(t, gs, pos, i, ipv4_part(t, w, i))
  <2>1. Stepped(t, gs, pos, i, u)
    <3> HIDE DEF G, R, K
    <3>1. G = GoodPart(gs[i + 1]) /\ R = Reading(u, gs, pos, i + 1) /\ K = Stuck(t, u)
      BY DEF G, R, K
    <3> HIDE DEF j, N, g, p
    <3>2. N = Len(gs)
      BY DEF N
    <3> QED BY <1>11, <1>13, <1>15, <1>16, <3>1, <3>2 DEF Stepped
  <2> QED BY <2>1 DEF u
<1> HIDE DEF j, g, p, L, N, num, sub, c, it
<1>17. CASE n < L
  <2>1. n # Len(t)
    BY <1>1, <1>5, <1>6, <1>17
  <2>2. n + 1 \in 1 .. L /\ n + 1 \in DOMAIN g
    BY <1>5, <1>6, <1>7, <1>17
  <2>3. c = g[n + 1] /\ g[n + 1] \notin Digit /\ g[n + 1] # Dot /\ g[n + 1] # Nul
    BY <1>5, <1>6, <1>17, <2>1, <2>2 DEF c
  <2>4. it = p + n /\ CharAt(t, it) = c
    <3>1. it = p + n
      BY <1>5, <1>6, <2>3 DEF it
    <3> QED BY <3>1 DEF c
  <2>5. K
    BY <1>11, <1>12, <2>3, <2>4 DEF Stuck
  <2>6. ~G
    BY <2>2, <2>3 DEF GoodPart
  <2> QED BY <1>16, <2>5, <2>6
<1>18. CASE n = L /\ L = 0
  <2>1. K
    BY <1>11, <1>12, <1>18
  <2>2. ~G
    BY <1>5, <1>18 DEF GoodPart, L
  <2> QED BY <1>16, <2>1, <2>2
<1>19. CASE n = L /\ L # 0 /\ Number(10, g) > 255
  <2>1. num > 255
    <3>1. sub = g
      BY <1>6, <1>19 DEF sub
    <3>2. num = ipv4_number(g)
      BY <3>1 DEF num
    <3> QED BY <1>8, <1>19, <3>2
  <2>2. K
    BY <1>11, <1>12, <2>1
  <2>3. ~G
    BY <1>8, <1>19 DEF GoodPart
  <2> QED BY <1>16, <2>2, <2>3
<1>20. CASE n = L /\ L # 0 /\ ~(Number(10, g) > 255)
  <2>1. num = Number(10, g) /\ ~(num > 255) /\ n # 0
    <3>1. sub = g
      BY <1>6, <1>20 DEF sub
    <3>2. num = ipv4_number(g)
      BY <3>1 DEF num
    <3> QED BY <1>8, <1>20, <3>2
  <2>2. G
    <3>1. g # <<>> /\ Number(10, g) <= 255
      BY <1>5, <1>8, <1>20 DEF L
    <3> QED BY <1>6, <1>7, <1>20, <3>1 DEF GoodPart
  <2>3. u.parts = Append(w.parts, num) => u.parts = [k \in 1 .. j |-> Number(10, gs[k])]
    <3>1. Append(w.parts, num) = [k \in 1 .. i + 1 |-> Number(10, gs[k])]
      BY <1>4, <1>15, <2>1 DEF g
    <3> QED BY <1>15, <3>1
  <2>4. CASE j < N
    <3>1. c = Dot /\ it = pos[j + 1]
      <4>1. c = Dot
        BY <1>6, <1>20, <2>4 DEF c
      <4> QED BY <1>5, <1>20, <2>4, <4>1 DEF it
    <3>2. CASE i = 3
      <4>1. u = Failed
        BY <1>11, <3>1, <3>2
      <4>2. N # 4
        BY <1>1, <1>14, <2>4, <3>2
      <4> QED BY <1>12, <1>16, <3>2, <4>1, <4>2
    <3>3. CASE i # 3 /\ CharAt(t, it) = Nul
      <4>1. u = Failed
        BY <1>11, <3>3
      <4>2. gs[j + 1] = <<>>
        <5>1. j + 1 \in 1 .. N
          BY <1>1, <2>4
        <5>2. Place(t, gs, Dot, pos, j + 1)
          <6> DEFINE y == j + 1
          <6>1. y \in 1 .. Len(gs)
            BY <5>1 DEF N
          <6> HIDE DEF y
          <6>2. Place(t, gs, Dot, pos, y)
            BY <6>1, PlaceIs
          <6> QED BY <6>2 DEF y
        <5> DEFINE h == gs[j + 1]
                   q == pos[j + 1]
        <5>3. q \in Nat /\ h \in Seq(TextChars) /\ \A k \in 1 .. Len(h) : CharAt(t, q + k - 1) = h[k] /\ h[k] # Nul
          BY <5>2 DEF Place
        <5>4. CharAt(t, q) = Nul
          BY <3>1, <3>3
        <5> HIDE DEF h, q
        <5>5. h = <<>>
          <6> SUFFICES ASSUME h # <<>> PROVE FALSE
            OBVIOUS
          <6>1. 1 \in 1 .. Len(h) /\ q + 1 - 1 = q
            BY <5>3
          <6> QED BY <5>3, <5>4, <6>1
        <5> QED BY <5>5 DEF h
      <4> QED BY <1>12, <1>16, <3>3, <4>1, <4>2
    <3>4. CASE i # 3 /\ CharAt(t, it) # Nul
      <4>1. u.ok = TRUE /\ u.it = it /\ u.parts = Append(w.parts, num)
        BY <1>11, <2>1, <3>4
      <4>2. R
        BY <2>3, <3>1, <4>1 DEF Reading
      <4> QED BY <1>16, <2>2, <2>4, <3>4, <4>2
    <3> QED BY <3>2, <3>3, <3>4
  <2>5. CASE ~(j < N)
    <3>1. c = Nul /\ c # Dot
      BY <1>0, <1>6, <1>20, <2>5 DEF c
    <3>2. it = p + n /\ CharAt(t, it) = Nul
      <4>1. it = p + n
        BY <1>5, <1>6, <3>1 DEF it
      <4> QED BY <3>1, <4>1 DEF c
    <3>3. CASE i # 3
      <4>1. u = Failed
        BY <1>11, <3>2, <3>3
      <4> QED BY <1>12, <1>16, <2>5, <3>3, <4>1
    <3>4. CASE i = 3
      <4>1. u.ok = TRUE /\ u.it = it /\ u.parts = Append(w.parts, num)
        BY <1>11, <2>1, <3>1, <3>4
      <4>2. N = 4 /\ j = 4
        BY <1>5, <1>14, <2>5, <3>4
      <4> QED BY <1>16, <2>2, <2>3, <3>2, <3>4, <4>1, <4>2
    <3> QED BY <3>3, <3>4
  <2> QED BY <2>4, <2>5
<1> QED BY <1>5, <1>6, <1>17, <1>18, <1>19, <1>20

\* Four good groups.
Well4(gs) == Len(gs) = 4 /\ \A k \in 1 .. 4 : GoodPart(gs[k])
\* Before turn i of the loop.
Read4(t, gs, pos, i, w) ==
  /\ w \in Walks
  /\ \/ Stuck(t, w) /\ ~Well4(gs)
     \/ Reading(w, gs, pos, i) /\ i < Len(gs) /\ \A k \in 1 .. i : GoodPart(gs[k])
\* After the last turn.
Done4(t, gs, w) ==
  \/ Stuck(t, w) /\ ~Well4(gs)
  \/ /\ w.ok = TRUE /\ CharAt(t, w.it) = Nul /\ Well4(gs)
     /\ w.parts = [k \in 1 .. 4 |-> Number(10, gs[k])]

(* Each turn leads from Read4 to the next Read4, the last one to Done4. *)
LEMMA Ipv4Read ==
  ASSUME NEW gs \in Seq(Seq(TextChars)), Free(gs, Dot), NEW t \in Seq(TextChars), NEW pos,
         Places(t, gs, Dot, pos), NEW i \in 0 .. 3, NEW w, Read4(t, gs, pos, i, w)
  PROVE  /\ i < 3 => Read4(t, gs, pos, i + 1, ipv4_next(t, w, i))
         /\ i = 3 => Done4(t, gs, ipv4_next(t, w, i))
<1> DEFINE u == ipv4_next(t, w, i)
<1>0. w \in Walks /\ Len(t) \in Nat /\ Len(gs) \in Nat
  BY DEF Read4
<1>1. CASE Stuck(t, w) /\ ~Well4(gs)
  <2>1. u \in Walks /\ Stuck(t, u)
    BY <1>0, <1>1, StuckStays
  <2> QED BY <1>1, <2>1 DEF Read4, Done4
<1>2. CASE Reading(w, gs, pos, i) /\ i < Len(gs) /\ \A k \in 1 .. i : GoodPart(gs[k])
  <2>1. u = ipv4_part(t, w, i)
    BY <1>2 DEF ipv4_next, Reading
  <2>2. Stepped(t, gs, pos, i, u)
    BY <1>0, <1>2, <2>1, Ipv4Step
  <2> HIDE DEF u
  <2>3. i < 3 => Read4(t, gs, pos, i + 1, u)
    <3> HAVE i < 3
    <3>1. u \in Walks
      BY <2>2 DEF Stepped
    <3>2. CASE Stuck(t, u) /\ ~(GoodPart(gs[i + 1]) /\ i + 1 < Len(gs) /\ gs[i + 2] # <<>>)
      <4>1. ~Well4(gs)
        <5> SUFFICES ASSUME Well4(gs) PROVE FALSE
          OBVIOUS
        <5>1. i + 1 \in 1 .. 4 /\ i + 2 \in 1 .. 4 /\ i + 1 < Len(gs)
          BY DEF Well4
        <5>2. GoodPart(gs[i + 1]) /\ GoodPart(gs[i + 2])
          BY <5>1 DEF Well4
        <5> QED BY <3>2, <5>1, <5>2 DEF GoodPart
      <4> QED BY <3>1, <3>2, <4>1 DEF Read4
    <3>3. CASE Reading(u, gs, pos, i + 1) /\ GoodPart(gs[i + 1]) /\ i + 1 < Len(gs)
      <4>1. \A k \in 1 .. i + 1 : GoodPart(gs[k])
        <5> TAKE k \in 1 .. i + 1
        <5>1. k \in 1 .. i \/ k = i + 1
          OBVIOUS
        <5> QED BY <1>2, <3>3, <5>1
      <4> QED BY <3>1, <3>3, <4>1 DEF Read4
    <3> QED BY <2>2, <3>2, <3>3 DEF Stepped
  <2>4. i = 3 => Done4(t, gs, u)
    <3> HAVE i = 3
    <3>1. GoodPart(gs[i + 1]) /\ Len(gs) = 4 <=> Well4(gs)
      <4>1. i + 1 = 4 /\ \A k \in 1 .. 4 : k \in 1 .. i \/ k = 4
        OBVIOUS
      <4>2. 4 \in 1 .. 4
        OBVIOUS
      <4> QED BY <1>2, <4>1, <4>2 DEF Well4
    <3> QED BY <2>2, <3>1 DEF Stepped, Done4
  <2> QED BY <2>3, <2>4 DEF u
<1> QED BY <1>1, <1>2 DEF Read4

(* The four turns together. *)
LEMMA Ipv4Walk ==
  ASSUME NEW gs \in Seq(Seq(TextChars)), gs # <<>>, Free(gs, Dot), NEW t \in Seq(TextChars), NEW pos,
         Places(t, gs, Dot, pos)
  PROVE  Done4(t, gs, ipv4_next(t, ipv4_next(t, ipv4_next(t, ipv4_part(t, Start(1), 0), 1), 2), 3))
<1> DEFINE a == Start(1)
           b == ipv4_part(t, a, 0)
           c == ipv4_next(t, b, 1)
           d == ipv4_next(t, c, 2)
<1>1. Read4(t, gs, pos, 0, a)
  <2>1. a \in Walks /\ a.ok = TRUE /\ a.it = 1 /\ a.parts = <<>>
    BY DEF Start, Walks
  <2>2. pos[0 + 1] = 1 /\ 0 < Len(gs)
    BY DEF Places
  <2>3. [k \in 1 .. 0 |-> Number(10, gs[k])] = <<>>
    OBVIOUS
  <2> QED BY <2>1, <2>2, <2>3 DEF Read4, Reading
<1>2. b = ipv4_next(t, a, 0)
  BY DEF Start, ipv4_next
<1> HIDE DEF a, b, c, d
<1>3. 0 \in 0 .. 3 /\ 1 \in 0 .. 3 /\ 2 \in 0 .. 3 /\ 3 \in 0 .. 3 /\ 0 < 3 /\ 1 < 3 /\ 2 < 3
      /\ 0 + 1 = 1 /\ 1 + 1 = 2 /\ 2 + 1 = 3
  OBVIOUS
<1>4. Read4(t, gs, pos, 1, b)
  BY <1>1, <1>2, <1>3, Ipv4Read
<1>5. Read4(t, gs, pos, 2, c)
  BY <1>3, <1>4, Ipv4Read DEF c
<1>6. Read4(t, gs, pos, 3, d)
  BY <1>3, <1>5, Ipv4Read DEF d
<1>7. Done4(t, gs, ipv4_next(t, d, 3))
  BY <1>3, <1>6, Ipv4Read
<1> QED BY <1>7 DEF a, b, c, d

(* yo_parse_ipv4 accepts a text exactly if it is four numbers up to 255 with
   dots between them, and returns those numbers; whatever the length of the
   groups, the check before each digit keeps them from overflowing. *)
THEOREM Ipv4Parsed ==
  ASSUME NEW gs \in Seq(Seq(TextChars)), gs # <<>>, Free(gs, Dot)
  PROVE  /\ Joined(gs, Dot) \in Seq(TextChars)
         /\ yo_parse_ipv4(Joined(gs, Dot)) = IF Well4(gs) THEN [type |-> "ipv4", parts |-> Values(gs, 10)]
                                                         ELSE NoAddr
<1> DEFINE t == Joined(gs, Dot)
           w == ipv4_next(t, ipv4_next(t, ipv4_next(t, ipv4_part(t, Start(1), 0), 1), 2), 3)
           S == TextChars
<1>1. Dot \in S /\ gs \in Seq(Seq(S))
  BY DEF Dot, TextChars, Other
<1> HIDE DEF S
<1>2. t \in Seq(S) /\ \E pos : Places(t, gs, Dot, pos)
  BY <1>1, JoinedPlaced
<1>3. t \in Seq(TextChars)
  BY <1>2 DEF S
<1> HIDE DEF t
<1>4. Done4(t, gs, w)
  BY <1>2, <1>3, Ipv4Walk
<1>5. yo_parse_ipv4(t) = IF w.ok /\ CharAt(t, w.it) = Nul THEN [type |-> "ipv4", parts |-> w.parts] ELSE NoAddr
  BY DEF yo_parse_ipv4
<1> HIDE DEF w
<1>6. CASE Stuck(t, w) /\ ~Well4(gs)
  <2>1. ~(w.ok /\ CharAt(t, w.it) = Nul)
    BY <1>6 DEF Stuck
  <2> QED BY <1>3, <1>5, <1>6, <2>1 DEF t
<1>7. CASE /\ w.ok = TRUE /\ CharAt(t, w.it) = Nul /\ Well4(gs)
           /\ w.parts = [k \in 1 .. 4 |-> Number(10, gs[k])]
  <2>1. Values(gs, 10) = [k \in 1 .. 4 |-> Number(10, gs[k])]
    <3>1. DOMAIN gs = 1 .. 4
      BY <1>7 DEF Well4
    <3> QED BY <3>1 DEF Values
  <2> QED BY <1>3, <1>5, <1>7, <2>1 DEF t
<1> QED BY <1>4, <1>6, <1>7 DEF Done4

------------------------------------------------------------------------------
(* yo_parse_ipv6.                                                           *)

\* The groups that are read when n more digits are.
SixParts(t, w, n) == Append(w.parts, Number(16, SubSeq(t, w.it, (w.it + n) - 1)))
\* The character behind them.
SixChar(t, w, n) == CharAt(t, w.it + n)
\* The body of the loop of yo_parse_ipv6: n digits are read from state w.
Six(t, w, n, u) ==
  /\ u \in Walks
  /\ n = 0 => u = Failed
  /\ n # 0 => /\ u.ok = w.ok
              /\ u.it = (IF SixChar(t, w, n) = Colon THEN w.it + n + 1 ELSE w.it + n)
              /\ SixChar(t, w, n) = Nul => u.end = TRUE
              /\ SixChar(t, w, n) # Nul => u.end = FALSE
              /\ u.parts = SixParts(t, w, n)

(* ipv6_group does what Six says. *)
LEMMA IsSix ==
  ASSUME NEW t \in Seq(TextChars), NEW w \in Walks
  PROVE  Six(t, w, Span(t, w.it, XDigit, 4), ipv6_group(t, w))
<1> DEFINE n == Span(t, w.it, XDigit, 4)
           it == w.it + n
           c == CharAt(t, it)
           num == Number(16, SubSeq(t, w.it, it - 1))
           to == IF c = Colon THEN it + 1 ELSE it
           end == (c = Nul)
           v == [w EXCEPT !.it = to, !.end = end, !.parts = Append(@, num)]
           u == ipv6_group(t, w)
<1>1. u = IF n = 0 THEN Failed ELSE v
  BY DEF ipv6_group
<1>2. w.it \in Nat /\ w.parts \in Seq(Nat)
  BY DEF Walks
<1>3. n \in 0 .. 4 /\ \A j \in w.it .. w.it + n - 1 : CharAt(t, j) \in XDigit
  BY <1>2, SpanFacts
<1> HIDE DEF n
<1>4. it \in Nat /\ to \in Nat /\ end \in BOOLEAN
  BY <1>2, <1>3, SMTT(40)
<1>5. n # 0 => num \in Nat
  <2> HAVE n # 0
  <2>1. w.it \in w.it .. w.it + n - 1 /\ w.it + n - 1 \in w.it .. w.it + n - 1
    BY <1>2, <1>3
  <2>2. Nul \notin XDigit
    BY DEF Nul, XDigit
  <2>3. w.it \in DOMAIN t /\ w.it + n - 1 \in DOMAIN t
    BY <1>3, <2>1, <2>2 DEF CharAt
  <2> DEFINE a == w.it
             b == it - 1
  <2>4. b = w.it + n - 1 /\ a \in DOMAIN t /\ b \in DOMAIN t
    BY <1>2, <1>3, <2>3
  <2> HIDE DEF a, b
  <2>5. SubSeq(t, a, b) \in Seq(TextChars)
    BY <2>4
  <2>6. SubSeq(t, a, b) \in Seq(Nat)
    BY <2>5, TextIsNat
  <2>7. Number(16, SubSeq(t, a, b)) \in Nat
    BY <2>6, NumberFacts
  <2> QED BY <2>7 DEF a, b
<1> HIDE DEF it, to, end, num
<1>6. n # 0 => v \in Walks /\ v.ok = w.ok /\ v.it = to /\ v.end = end /\ v.parts = Append(w.parts, num)
  <2> HAVE n # 0
  <2>1. Append(w.parts, num) \in Seq(Nat)
    BY <1>2, <1>5
  <2> QED BY <1>4, <2>1 DEF Walks
<1>8. (c = Nul => end = TRUE) /\ (c # Nul => end = FALSE)
  BY DEF end
<1>9. n # 0 => (c = Nul => v.end = TRUE) /\ (c # Nul => v.end = FALSE)
  <2> HIDE DEF v, c
  <2> QED BY <1>6, <1>8
<1> HIDE DEF v, u
<1>7. Six(t, w, n, u)
  <2>1. SixChar(t, w, n) = c
    BY DEF SixChar, it
  <2>2. SixParts(t, w, n) = Append(w.parts, num)
    BY DEF SixParts, it, num
  <2>3. to = (IF c = Colon THEN w.it + n + 1 ELSE w.it + n)
    BY DEF it, to
  <2> HIDE DEF c
  <2> QED BY <1>1, <1>6, <1>9, <2>1, <2>2, <2>3, FailedFacts DEF Six
<1> QED BY <1>7 DEF n, u

(* A turn of the loop keeps its state in Walks. *)
LEMMA SixNext ==
  ASSUME NEW t \in Seq(TextChars), NEW w \in Walks
  PROVE  ipv6_next(t, w) \in Walks
<1>1. ipv6_group(t, w) \in Walks
  BY IsSix DEF Six
<1> QED BY <1>1 DEF ipv6_next

(* What holds of the start and of each further group holds after the eight. *)
LEMMA SixGroups ==
  ASSUME NEW t \in Seq(TextChars), NEW p \in Nat, NEW A, <<0, Start(p)>> \in A,
         \A m \in 0 .. 7, w \in Walks : <<m, w>> \in A => <<m + 1, ipv6_next(t, w)>> \in A
  PROVE  ipv6_groups(t, p) \in Walks /\ <<8, ipv6_groups(t, p)>> \in A
<1> DEFINE b == Start(p)
           step == [x \in Walks \X {0} |-> ipv6_next(t, x[1])]
           s == [i \in 1 .. 8 |-> 0]
<1>1. b \in Walks
  BY DEF Start, Walks
<1>2. s \in Seq({0}) /\ Len(s) = 8 /\ \A i \in 1 .. 8 : s[i] = 0
  <2>1. s \in [1 .. 8 -> {0}] /\ 8 \in Nat /\ DOMAIN s = 1 .. 8
    OBVIOUS
  <2>2. s \in Seq({0})
    <3> HIDE DEF s
    <3> QED BY <2>1, FnIsSeq
  <2> QED BY <2>1, <2>2
<1>3. step \in [Walks \X {0} -> Walks] /\ \A w \in Walks : step[<<w, 0>>] = ipv6_next(t, w)
  <2>1. \A w \in Walks : ipv6_next(t, w) \in Walks
    BY SixNext
  <2> QED BY <2>1
<1> HIDE DEF b, step, s
<1>4. PICK g \in [0 .. 8 -> Walks] : IsListFold(g, step, b, s)
  <2> DEFINE S == {0}
             D == Walks
  <2>1. s \in Seq(S) /\ b \in D /\ step \in [D \X S -> D]
    BY <1>1, <1>2, <1>3
  <2> HIDE DEF S, D
  <2>2. \E f \in [0 .. Len(s) -> D] : IsListFold(f, step, b, s)
    BY <2>1, FoldExists
  <2> QED BY <1>2, <2>2 DEF D
<1>5. g = [i \in 0 .. 8 |-> IF i = 0 THEN b ELSE ipv6_next(t, g[i - 1])]
  <2>1. \A i \in 0 .. 8 : i # 0 => i \in 1 .. 8 /\ i - 1 \in 0 .. 8
    OBVIOUS
  <2>2. \A i \in 0 .. 8 : i # 0 => g[i - 1] \in Walks /\ s[i] = 0
    BY <1>2, <2>1
  <2>3. \A i \in 0 .. 8 : i # 0 => step[<<g[i - 1], s[i]>>] = ipv6_next(t, g[i - 1])
    BY <1>3, <2>2, Zenon
  <2>4. g = [i \in 0 .. 8 |-> IF i = 0 THEN b ELSE step[<<g[i - 1], s[i]>>]]
    BY <1>2, <1>4 DEF IsListFold
  <2> QED BY <2>3, <2>4
<1>6. PICK f : /\ f = [i \in 0 .. 8 |-> IF i = 0 THEN b ELSE ipv6_next(t, f[i - 1])]
               /\ ipv6_groups(t, p) = f[8]
  BY <1>5, Zenon DEF ipv6_groups, b
<1>7. f[0] = b /\ \A i \in 1 .. 8 : f[i] = ipv6_next(t, f[i - 1])
  <2> DEFINE E(i) == IF i = 0 THEN b ELSE ipv6_next(t, f[i - 1])
  <2>1. f = [i \in 0 .. 8 |-> E(i)]
    BY <1>6
  <2> HIDE DEF E
  <2>2. \A i \in 0 .. 8 : f[i] = E(i)
    BY <2>1
  <2>3. 0 \in 0 .. 8 /\ \A i \in 1 .. 8 : i \in 0 .. 8 /\ i # 0
    OBVIOUS
  <2> QED BY <2>2, <2>3 DEF E
<1> DEFINE B == {i \in 0 .. 8 : f[i] \in Walks /\ <<i, f[i]>> \in A}
<1>8. 0 \in B
  BY <1>1, <1>7 DEF b
<1>9. ASSUME NEW i \in 0 .. 7, i \in B PROVE i + 1 \in B
  <2>1. i + 1 \in 1 .. 8 /\ (i + 1) - 1 = i /\ i + 1 \in 0 .. 8
    OBVIOUS
  <2>2. f[i + 1] = ipv6_next(t, f[i])
    BY <1>7, <2>1
  <2>3. f[i + 1] \in Walks
    BY <1>9, <2>2, SixNext
  <2> QED BY <1>9, <2>1, <2>2, <2>3
<1>10. 8 \in B
  <2> HIDE DEF B
  <2>1. 8 \in Nat /\ \A i \in 0 .. 8 - 1 : i \in B => i + 1 \in B
    BY <1>9
  <2>2. \A i \in 0 .. 8 : i \in B
    BY <1>8, <2>1, NatInduct
  <2> QED BY <2>2
<1> QED BY <1>6, <1>10

(* A cursor never passes a character that is neither a digit nor a separator. *)
LEMMA SpanStops ==
  ASSUME NEW t \in Seq(TextChars), NEW x \in 1 .. Len(t), NEW sep, t[x] # sep,
         NEW c, t[x] \notin c, NEW p \in Nat, p <= x, NEW max \in Nat
  PROVE  LET n == Span(t, p, c, max) IN
         n \in Nat /\ p + n <= x /\ (CharAt(t, p + n) = sep => p + n + 1 <= x)
<1> DEFINE n == Span(t, p, c, max)
<1>1. n \in 0 .. max /\ \A j \in p .. p + n - 1 : CharAt(t, j) \in c
  BY SpanFacts
<1>2. CharAt(t, x) = t[x] /\ x \in Nat
  BY DEF CharAt
<1> HIDE DEF n
<1>3. n \in Nat
  BY <1>1
<1>4. p + n <= x
  <2> SUFFICES ASSUME ~(p + n <= x) PROVE FALSE
    OBVIOUS
  <2>1. x \in p .. p + n - 1
    BY <1>2, <1>3
  <2> QED BY <1>1, <1>2, <2>1
<1>5. ASSUME CharAt(t, p + n) = sep PROVE p + n + 1 <= x
  <2>1. p + n # x
    BY <1>2, <1>5
  <2> QED BY <1>2, <1>3, <1>4, <2>1
<1> QED BY <1>3, <1>4, <1>5 DEF n

(* There is no terminator before the end of a text. *)
LEMMA NotNul ==
  ASSUME NEW t \in Seq(TextChars), NEW x \in 1 .. Len(t), NEW p \in Nat, 1 <= p, p <= x
  PROVE  CharAt(t, p) # Nul
<1>1. p \in 1 .. Len(t) /\ DOMAIN t = 1 .. Len(t)
  OBVIOUS
<1>2. t[p] # Nul
  BY <1>1, TextIsNat
<1> QED BY <1>1, <1>2 DEF CharAt

\* The cursor has not passed place x.
Before(w, x) == w.ok = TRUE => 1 <= w.it /\ w.it <= x

(* A turn of yo_parse_ipv4 does not pass a character it cannot read. *)
LEMMA Bad4Step ==
  ASSUME NEW t \in Seq(TextChars), NEW x \in 1 .. Len(t), t[x] # Dot, t[x] \notin Digit,
         NEW w \in Walks, Before(w, x), NEW i
  PROVE  ipv4_next(t, w, i) \in Walks /\ Before(ipv4_next(t, w, i), x)
<1>1. CASE w.ok = FALSE
  BY <1>1 DEF ipv4_next
<1>2. CASE w.ok = TRUE
  <2> DEFINE n == Span(t, w.it, Digit, Len(t))
             p == w.it
             u == ipv4_part(t, w, i)
             sub == SubSeq(t, p, p + n - 1)
             num == ipv4_number(sub)
  <2>1. p \in Nat /\ 1 <= p /\ p <= x /\ x \in Nat /\ Len(t) \in Nat /\ x <= Len(t)
    BY <1>2 DEF Walks, Before
  <2>2. n \in Nat /\ p + n <= x /\ (CharAt(t, p + n) = Dot => p + n + 1 <= x)
    <3> HIDE DEF p
    <3>1. w.it = p
      BY DEF p
    <3> QED BY <2>1, <3>1, SpanStops
  <2> HIDE DEF n, p, u
  <2>3. num \in Nat
    <3>1. sub \in Seq(TextChars)
      BY <2>1, <2>2
    <3>2. sub \in Seq(Nat)
      BY <3>1, TextIsNat
    <3> HIDE DEF sub
    <3> QED BY <3>2, Saturated
  <2>4. Part(t, w, i, n, num, u)
    <3>1. n = Span(t, w.it, Digit, Len(t)) /\ num = ipv4_number(SubSeq(t, w.it, w.it + n - 1))
      BY DEF n, p
    <3> HIDE DEF num
    <3> QED BY <2>2, <2>3, <3>1, IsPart DEF u
  <2>5. u \in Walks /\ (u = Failed \/ u.it = p + n + (IF CharAt(t, p + n) = Dot THEN 1 ELSE 0))
    BY <2>4 DEF Part, p
  <2>6. Before(u, x)
    <3>1. CASE u = Failed BY <3>1, FailedFacts DEF Before
    <3>2. CASE u.it = p + n + (IF CharAt(t, p + n) = Dot THEN 1 ELSE 0)
      BY <2>1, <2>2, <3>2 DEF Before
    <3> QED BY <2>5, <3>1, <3>2
  <2> QED BY <1>2, <2>5, <2>6 DEF ipv4_next, u
<1> QED BY <1>1, <1>2 DEF Walks

(* yo_parse_ipv4 refuses a text with a character that is neither a digit nor a
   dot, wherever it is. *)
LEMMA Bad4 ==
  ASSUME NEW t \in Seq(TextChars), NEW x \in 1 .. Len(t), t[x] # Dot, t[x] \notin Digit
  PROVE  yo_parse_ipv4(t) = NoAddr
<1> DEFINE a == Start(1)
           b == ipv4_part(t, a, 0)
           c == ipv4_next(t, b, 1)
           d == ipv4_next(t, c, 2)
           w == ipv4_next(t, d, 3)
<1>1. a \in Walks /\ Before(a, x)
  BY DEF Start, Walks, Before
<1>2. b = ipv4_next(t, a, 0)
  BY DEF Start, ipv4_next
<1>3. yo_parse_ipv4(t) = IF w.ok /\ CharAt(t, w.it) = Nul THEN [type |-> "ipv4", parts |-> w.parts] ELSE NoAddr
  BY DEF yo_parse_ipv4
<1> HIDE DEF a, b
<1>4. b \in Walks /\ Before(b, x)
  BY <1>1, <1>2, Bad4Step
<1> HIDE DEF c
<1>5. c \in Walks /\ Before(c, x)
  BY <1>4, Bad4Step DEF c
<1> HIDE DEF d
<1>6. d \in Walks /\ Before(d, x)
  BY <1>5, Bad4Step DEF d
<1> HIDE DEF w
<1>7. w \in Walks /\ Before(w, x)
  BY <1>6, Bad4Step DEF w
<1>8. ~(w.ok = TRUE /\ CharAt(t, w.it) = Nul)
  <2> SUFFICES ASSUME w.ok = TRUE PROVE CharAt(t, w.it) # Nul
    OBVIOUS
  <2> DEFINE p == w.it
  <2>1. p \in Nat /\ 1 <= p /\ p <= x
    BY <1>7 DEF Walks, Before
  <2> HIDE DEF p
  <2>2. CharAt(t, p) # Nul
    BY <2>1, NotNul
  <2> QED BY <2>2 DEF p
<1> QED BY <1>3, <1>7, <1>8 DEF Walks

(* A turn of yo_parse_ipv6 does not pass a character it cannot read. *)
LEMMA Bad6Step ==
  ASSUME NEW t \in Seq(TextChars), NEW x \in 1 .. Len(t), t[x] # Colon, t[x] \notin XDigit,
         NEW w \in Walks, Before(w, x)
  PROVE  Before(ipv6_next(t, w), x)
<1>1. CASE w.ok = FALSE \/ w.end = TRUE
  BY <1>1 DEF ipv6_next
<1>2. CASE w.ok = TRUE /\ w.end = FALSE
  <2> DEFINE n == Span(t, w.it, XDigit, 4)
             p == w.it
             u == ipv6_group(t, w)
  <2>1. p \in Nat /\ 1 <= p /\ p <= x /\ x \in Nat
    BY <1>2 DEF Walks, Before
  <2>2. n \in Nat /\ p + n <= x /\ (CharAt(t, p + n) = Colon => p + n + 1 <= x)
    <3> HIDE DEF p
    <3>1. w.it = p /\ 4 \in Nat
      BY DEF p
    <3> DEFINE max == 4
    <3>2. max \in Nat
      OBVIOUS
    <3> HIDE DEF max
    <3>3. Span(t, p, XDigit, max) \in Nat /\ p + Span(t, p, XDigit, max) <= x
          /\ (CharAt(t, p + Span(t, p, XDigit, max)) = Colon => p + Span(t, p, XDigit, max) + 1 <= x)
      BY <2>1, <3>2, SpanStops
    <3> QED BY <3>1, <3>3 DEF max
  <2>3. Six(t, w, n, u)
    BY IsSix
  <2> HIDE DEF n, p, u
  <2>4. u = Failed \/ u.it = (IF CharAt(t, p + n) = Colon THEN p + n + 1 ELSE p + n)
    BY <2>3 DEF Six, SixChar, p
  <2>5. Before(u, x)
    <3>1. CASE u = Failed BY <3>1, FailedFacts DEF Before
    <3>2. CASE u.it = (IF CharAt(t, p + n) = Colon THEN p + n + 1 ELSE p + n)
      BY <2>1, <2>2, <3>2 DEF Before
    <3> QED BY <2>4, <3>1, <3>2
  <2> QED BY <1>2, <2>5 DEF ipv6_next, u
<1> QED BY <1>1, <1>2 DEF Walks

(* yo_parse_ipv6 refuses a text with a character that is neither a digit nor a
   colon, wherever it is. *)
LEMMA Bad6 ==
  ASSUME NEW t \in Seq(TextChars), NEW x \in 1 .. Len(t), t[x] # Colon, t[x] \notin XDigit
  PROVE  yo_parse_ipv6(t) = NoAddr
<1> DEFINE zeroes == CharAt(t, 1) = Colon /\ CharAt(t, 2) = Colon
           p == IF zeroes THEN 3 ELSE 1
           w == ipv6_groups(t, p)
           A == {y \in (0 .. 8) \X Walks : Before(y[2], x)}
<1>1. yo_parse_ipv6(t) = IF zeroes /\ Len(t) = 2 THEN [type |-> "ipv6", parts |-> Padded(<<>>)]
      ELSE IF w.ok /\ CharAt(t, w.it) = Nul
      THEN [type |-> "ipv6", parts |-> Padded(w.parts)] ELSE NoAddr
  BY DEF yo_parse_ipv6
<1>2. x \in Nat /\ x >= 1 /\ x <= Len(t) /\ CharAt(t, x) = t[x]
  BY DEF CharAt
<1>3. zeroes => x >= 3
  BY <1>2
<1>4. p \in Nat /\ 1 <= p /\ p <= x
  BY <1>2, <1>3
<1> HIDE DEF p, zeroes, w
<1>5. <<0, Start(p)>> \in A
  <2>1. Start(p) \in Walks /\ Before(Start(p), x)
    BY <1>4 DEF Start, Walks, Before
  <2> QED BY <2>1
<1>6. \A m \in 0 .. 7, v \in Walks : <<m, v>> \in A => <<m + 1, ipv6_next(t, v)>> \in A
  <2> SUFFICES ASSUME NEW m \in 0 .. 7, NEW v \in Walks, Before(v, x)
               PROVE  <<m + 1, ipv6_next(t, v)>> \in A
    OBVIOUS
  <2>1. ipv6_next(t, v) \in Walks /\ Before(ipv6_next(t, v), x) /\ m + 1 \in 0 .. 8
    BY Bad6Step, SixNext
  <2> QED BY <2>1
<1>7. w \in Walks /\ Before(w, x)
  <2> HIDE DEF A
  <2>1. ipv6_groups(t, p) \in Walks /\ <<8, ipv6_groups(t, p)>> \in A
    BY <1>4, <1>5, <1>6, SixGroups
  <2> QED BY <2>1 DEF A, w
<1>8. ~(w.ok = TRUE /\ CharAt(t, w.it) = Nul)
  <2> SUFFICES ASSUME w.ok = TRUE PROVE CharAt(t, w.it) # Nul
    OBVIOUS
  <2> DEFINE q == w.it
  <2>1. q \in Nat /\ 1 <= q /\ q <= x
    BY <1>7 DEF Walks, Before
  <2> HIDE DEF q
  <2>2. CharAt(t, q) # Nul
    BY <2>1, NotNul
  <2> QED BY <2>2 DEF q
<1>9. ~(zeroes /\ Len(t) = 2)
  BY <1>2, <1>3
<1> QED BY <1>1, <1>7, <1>8, <1>9 DEF Walks

(* yo_parse_ipv6 returns an IPv6 address or none. *)
LEMMA Type6 ==
  ASSUME NEW t
  PROVE  yo_parse_ipv6(t).type \in {"ipv6", "none"} /\ NoAddr.type = "none"
BY DEF yo_parse_ipv6, NoAddr

(* Four good groups, in the words of Ipv4Exact. *)
LEMMA IsWell4 ==
  ASSUME NEW gs \in Seq(Seq(TextChars))
  PROVE  Well4(gs) <=> /\ Len(gs) = 4 /\ AllIn(gs, Digit) /\ NonEmpty(gs) = gs
                       /\ \A i \in 1 .. 4 : Number(10, gs[i]) <= 255
<1> DEFINE C == Seq(TextChars)
<1>1. DOMAIN gs = 1 .. Len(gs) /\ gs \in Seq(C)
  OBVIOUS
<1> HIDE DEF C
<1>2. NonEmpty(gs) = gs <=> \A i \in DOMAIN gs : gs[i] # <<>>
  BY <1>1, NonEmptyAll
<1>3. CASE Len(gs) = 4
  <2>1. DOMAIN gs = 1 .. 4
    BY <1>1, <1>3
  <2> QED BY <1>2, <1>3, <2>1 DEF Well4, GoodPart, AllIn
<1>4. CASE Len(gs) # 4
  BY <1>4 DEF Well4
<1> QED BY <1>3, <1>4

(* yo_addrparse reads every text with dots in it, of any number of groups of
   any length, as an IPv4 address exactly if it is four numbers up to 255; it
   then returns those numbers, and yo_parse_ipv6 refuses the text. *)
THEOREM Ipv4Texts ==
  ASSUME NEW gs \in Seq(Seq(TextChars)), gs # <<>>, Free(gs, Dot)
  PROVE  Ipv4Exact(gs)
<1> DEFINE t == Joined(gs, Dot)
           r == yo_addrparse(t)
<1>1. /\ t \in Seq(TextChars)
      /\ yo_parse_ipv4(t) = IF Well4(gs) THEN [type |-> "ipv4", parts |-> Values(gs, 10)] ELSE NoAddr
  BY Ipv4Parsed
<1>2. r = IF yo_parse_ipv4(t) # NoAddr THEN yo_parse_ipv4(t) ELSE yo_parse_ipv6(t)
  BY DEF yo_addrparse
<1>3. yo_parse_ipv6(t).type \in {"ipv6", "none"} /\ NoAddr.type = "none"
  BY Type6
<1>4. ASSUME Well4(gs) PROVE yo_parse_ipv6(t) = NoAddr
  <2> DEFINE S == TextChars
  <2>1. Dot \in S /\ gs \in Seq(Seq(S))
    BY DEF Dot, TextChars, Other
  <2> HIDE DEF S
  <2>2. PICK pos : Places(t, gs, Dot, pos)
    BY <2>1, JoinedPlaced
  <2>3. 1 \in 1 .. Len(gs) /\ 1 < Len(gs)
    BY <1>4 DEF Well4
  <2>4. Place(t, gs, Dot, pos, 1)
    BY <2>2, <2>3, PlaceIs
  <2> DEFINE x == pos[1] + Len(gs[1])
  <2>5. x \in Nat /\ 1 <= x /\ x <= Len(t) /\ CharAt(t, x) = Dot
    BY <2>3, <2>4 DEF Place
  <2> HIDE DEF x, t
  <2>6. x \in 1 .. Len(t) /\ x \in DOMAIN t
    BY <1>1, <2>5
  <2>7. t[x] = Dot
    BY <2>5, <2>6 DEF CharAt
  <2>8. Dot # Colon /\ Dot \notin XDigit
    BY DEF Dot, Colon, XDigit
  <2> QED BY <1>1, <2>6, <2>7, <2>8, Bad6
<1> HIDE DEF t, r
<1>5. Well4(gs) => r = [type |-> "ipv4", parts |-> Values(gs, 10)]
  <2>1. [type |-> "ipv4", parts |-> Values(gs, 10)] # NoAddr
    BY DEF NoAddr
  <2> QED BY <1>1, <1>2, <2>1
<1>6. (r.type = "ipv4") <=> Well4(gs)
  <2>1. ~Well4(gs) => r = yo_parse_ipv6(t)
    BY <1>1, <1>2
  <2> QED BY <1>3, <1>5, <2>1
<1>7. Well4(gs) => r.parts = Values(gs, 10) /\ yo_parse_ipv6(t) = NoAddr
  BY <1>4, <1>5
<1> QED BY <1>6, <1>7, IsWell4 DEF Ipv4Exact, t, r

\* The values of the groups that are not empty.
Vals(gs) == Values(NonEmpty(gs), 16)

(* Vals takes the groups one by one. *)
LEMMA ValsFacts ==
  /\ Vals(<<>>) = <<>>
  /\ \A s \in Seq(Seq(TextChars)) : Vals(s) \in Seq(Nat)
  /\ \A s \in Seq(Seq(TextChars)), g \in Seq(TextChars) :
       Vals(Append(s, g)) = IF g = <<>> THEN Vals(s) ELSE Append(Vals(s), Number(16, g))
<1> DEFINE C == Seq(TextChars)
<1>0. \A g \in C : Number(16, g) \in Nat
  <2> TAKE g \in C
  <2>1. g \in Seq(Nat) /\ 16 \in Nat
    BY TextIsNat
  <2> QED BY <2>1, NumberFacts
<1> HIDE DEF C
<1>1. /\ NonEmpty(<<>>) = <<>>
      /\ \A s \in Seq(C) : NonEmpty(s) \in Seq(C)
      /\ \A s \in Seq(C), c \in C : NonEmpty(Append(s, c)) = (IF c = <<>> THEN NonEmpty(s) ELSE Append(NonEmpty(s), c))
  BY NonEmptyFacts
<1>2. Vals(<<>>) = <<>>
  BY <1>1 DEF Vals, Values
<1>3. ASSUME NEW s \in Seq(C) PROVE Vals(s) \in Seq(Nat)
  <2> DEFINE e == NonEmpty(s)
  <2>1. e \in Seq(C) /\ Vals(s) = [i \in DOMAIN e |-> Number(16, e[i])]
    BY <1>1 DEF Vals, Values
  <2> HIDE DEF e
  <2>2. Len(e) \in Nat /\ DOMAIN e = 1 .. Len(e) /\ \A i \in 1 .. Len(e) : e[i] \in C
    BY <2>1
  <2>3. Vals(s) \in [1 .. Len(e) -> Nat]
    BY <1>0, <2>1, <2>2
  <2> QED BY <2>2, <2>3, FnIsSeq
<1>4. ASSUME NEW s \in Seq(C), NEW g \in C
      PROVE  Vals(Append(s, g)) = IF g = <<>> THEN Vals(s) ELSE Append(Vals(s), Number(16, g))
  <2> DEFINE e == NonEmpty(s)
             d == Append(e, g)
             V(q) == [i \in DOMAIN q |-> Number(16, q[i])]
  <2>1. e \in Seq(C) /\ Vals(s) = V(e)
    BY <1>1 DEF Vals, Values
  <2>2. CASE g = <<>>
    <3>1. NonEmpty(Append(s, g)) = NonEmpty(s)
      BY <1>1, <2>2
    <3> QED BY <2>2, <3>1 DEF Vals
  <2>3. CASE g # <<>>
    <3>1. NonEmpty(Append(s, g)) = d
      BY <1>1, <2>3
    <3>2. Vals(Append(s, g)) = V(d)
      BY <3>1 DEF Vals, Values
    <3> HIDE DEF e
    <3>3. Len(e) \in Nat /\ DOMAIN e = 1 .. Len(e) /\ DOMAIN d = 1 .. Len(e) + 1 /\ d[Len(e) + 1] = g
          /\ (\A i \in 1 .. Len(e) : d[i] = e[i])
      BY <2>1
    <3> HIDE DEF d
    <3>4. V(d) = [i \in 1 .. Len(e) + 1 |-> IF i = Len(e) + 1 THEN Number(16, g) ELSE Number(16, e[i])]
      <4>1. \A i \in 1 .. Len(e) + 1 : Number(16, d[i]) = IF i = Len(e) + 1 THEN Number(16, g) ELSE Number(16, e[i])
        <5> TAKE i \in 1 .. Len(e) + 1
        <5>1. i = Len(e) + 1 \/ i \in 1 .. Len(e)
          BY <3>3
        <5>2. \A k \in 1 .. Len(e) : k # Len(e) + 1
          BY <3>3
        <5> QED BY <3>3, <5>1, <5>2
      <4> QED BY <3>3, <4>1
    <3>5. V(e) = [i \in 1 .. Len(e) |-> Number(16, e[i])]
      BY <3>3
    <3> DEFINE m == Len(e)
               z == Number(16, g)
               H == [i \in 1 .. m |-> Number(16, e[i])]
    <3>6. H \in Seq(Nat) /\ Len(H) = m /\ m \in Nat
      <4>1. m \in Nat /\ H = Vals(s)
        BY <2>1, <3>3, <3>5
      <4>2. H \in Seq(Nat)
        BY <1>3, <4>1
      <4>3. DOMAIN H = 1 .. m
        OBVIOUS
      <4> HIDE DEF H, m
      <4> QED BY <4>1, <4>2, <4>3
    <3>7. Append(H, z) = [i \in 1 .. m + 1 |-> IF i = m + 1 THEN z ELSE Number(16, e[i])]
      <4>1. Append(H, z) = [i \in 1 .. m + 1 |-> IF i = m + 1 THEN z ELSE H[i]]
        <5> DEFINE a == Append(H, z)
        <5> HIDE DEF H, m, z
        <5>1. a = [i \in DOMAIN a |-> a[i]] /\ DOMAIN a = 1 .. m + 1 /\ a[m + 1] = z
              /\ \A i \in 1 .. m : a[i] = H[i]
          <6>1. z \in Nat
            BY <1>0 DEF z
          <6>2. a \in Seq(Nat) /\ Len(a) = m + 1 /\ a[m + 1] = z
            BY <3>6, <6>1
          <6>3. \A i \in 1 .. m : a[i] = H[i]
            BY <3>6, <6>1
          <6> HIDE DEF a
          <6> QED BY <6>2, <6>3
        <5>2. \A i \in 1 .. m + 1 : i = m + 1 \/ i \in 1 .. m
          BY <3>6
        <5> HIDE DEF a
        <5>3. \A i \in 1 .. m + 1 : a[i] = IF i = m + 1 THEN z ELSE H[i]
          BY <5>1, <5>2
        <5>4. a = [i \in 1 .. m + 1 |-> IF i = m + 1 THEN z ELSE H[i]]
          BY <5>1, <5>3
        <5> QED BY <5>4 DEF a
      <4>2. \A i \in 1 .. m + 1 : i # m + 1 => H[i] = Number(16, e[i])
        <5>1. \A i \in 1 .. m + 1 : i # m + 1 => i \in 1 .. m
          BY <3>6
        <5> QED BY <5>1
      <4> HIDE DEF H
      <4> QED BY <4>1, <4>2
    <3> QED BY <2>1, <2>3, <3>2, <3>4, <3>5, <3>7
  <2> QED BY <2>2, <2>3
<1> QED BY <1>2, <1>3, <1>4 DEF C

\* No group has more than four digits.
Short(gs) == \A i \in DOMAIN gs : Len(gs[i]) <= 4
\* The cursor is at group j, and the groups before it are read.
Read6(gs, pos, j, w) ==
  /\ w.ok = TRUE /\ w.end = FALSE /\ j \in 1 .. Len(gs) /\ w.it = pos[j]
  /\ w.parts = Vals(SubSeq(gs, 1, j - 1))
\* The text is read to its end.
Over6(t, gs, w) ==
  w.ok = TRUE /\ w.end = TRUE /\ CharAt(t, w.it) = Nul /\ w.parts = Vals(gs)

\* Group j is read: it is empty and the parser fails, or its value is kept and
\* the cursor is at the next group or at the end.
Stepped6(t, gs, pos, j, w, u) ==
  \/ u = Failed /\ gs[j] = <<>>
  \/ /\ u.parts = Append(w.parts, Number(16, gs[j]))
     /\ Read6(gs, pos, j + 1, u) \/ Over6(t, gs, u)

(* One turn of the loop of yo_parse_ipv6 on a text of such groups. *)
LEMMA Ipv6Step ==
  ASSUME NEW gs \in Seq(Seq(TextChars)), Free(gs, Colon), NEW t \in Seq(TextChars), NEW pos,
         Places(t, gs, Colon, pos), AllIn(gs, XDigit), Short(gs),
         NEW w \in Walks, NEW j, Read6(gs, pos, j, w)
  PROVE  Stepped6(t, gs, pos, j, w, ipv6_next(t, w))
<1> DEFINE g == gs[j]
           p == pos[j]
           L == Len(g)
           N == Len(gs)
           n == Span(t, p, XDigit, 4)
           u == ipv6_group(t, w)
           c == CharAt(t, p + n)
<1>0. Colon \in TextChars /\ Colon \notin XDigit /\ Nul \notin XDigit /\ Nul # Colon
  BY DEF Colon, XDigit, Nul, TextChars, Other
<1>1. /\ j \in 1 .. N /\ N \in Nat /\ w.it = p /\ w.parts = Vals(SubSeq(gs, 1, j - 1))
      /\ ipv6_next(t, w) = u /\ j \in DOMAIN gs /\ w.ok = TRUE
  BY DEF Read6, ipv6_next
<1>2. Place(t, gs, Colon, pos, j)
  BY <1>1, PlaceIs
<1>3. Run(t, gs, Colon, pos, j, XDigit, 4, n)
  <2> DEFINE max == 4
  <2>1. max \in Nat
    OBVIOUS
  <2> HIDE DEF max
  <2>2. Run(t, gs, Colon, pos, j, XDigit, max, Span(t, pos[j], XDigit, max))
    BY <1>0, <1>1, <2>1, GroupRun
  <2> QED BY <2>2 DEF max
<1>4. Six(t, w, n, u)
  BY <1>1, IsSix
<1> HIDE DEF n, u
<1>5. /\ p \in Nat /\ p >= 1 /\ g \in Seq(TextChars) /\ L \in Nat
      /\ j < N => pos[j + 1] = p + L + 1
      /\ ~(j < N) => j = N
  BY <1>2 DEF Place
<1>6. /\ n \in 0 .. L /\ n <= 4
      /\ n < L => n = 4 \/ g[n + 1] \notin XDigit
      /\ n = L => c = IF j < N THEN Colon ELSE Nul
      /\ n = L => SubSeq(t, p, p + n - 1) = g
  BY <1>3 DEF Run
<1>7. L <= 4 /\ DOMAIN g = 1 .. L /\ \A k \in DOMAIN g : g[k] \in XDigit
  BY <1>1, <1>5 DEF AllIn, Short
<1>8. /\ n = 0 => u = Failed
      /\ n # 0 => /\ u.ok = TRUE /\ u.it = (IF c = Colon THEN p + n + 1 ELSE p + n)
                  /\ (c = Nul => u.end = TRUE) /\ (c # Nul => u.end = FALSE)
                  /\ u.parts = Append(w.parts, Number(16, SubSeq(t, p, p + n - 1)))
  <2> DEFINE it == w.it
             e == CharAt(t, it + n)
  <2>0. e = SixChar(t, w, n) /\ SixParts(t, w, n) = Append(w.parts, Number(16, SubSeq(t, it, (it + n) - 1)))
    BY DEF SixChar, SixParts
  <2> HIDE DEF e
  <2>1. /\ n = 0 => u = Failed
        /\ n # 0 => u.ok = w.ok /\ u.it = (IF e = Colon THEN it + n + 1 ELSE it + n)
    BY <1>4, <2>0 DEF Six
  <2>2. n # 0 => (e = Nul => u.end = TRUE) /\ (e # Nul => u.end = FALSE)
    BY <1>4, <2>0 DEF Six
  <2>3. n # 0 => u.parts = Append(w.parts, Number(16, SubSeq(t, it, (it + n) - 1)))
    BY <1>4, <2>0 DEF Six
  <2>4. it = p /\ w.ok = TRUE
    BY <1>1
  <2> HIDE DEF it, p
  <2>5. e = c
    BY <2>4 DEF e
  <2>6. (p + n) - 1 = p + n - 1
    BY <1>5, <1>6
  <2> HIDE DEF c
  <2> QED BY <2>1, <2>2, <2>3, <2>4, <2>5, <2>6
<1> HIDE DEF c
<1>9. n = L
  <2> SUFFICES ASSUME n # L PROVE FALSE
    OBVIOUS
  <2>1. n < L /\ n + 1 \in 1 .. L
    BY <1>5, <1>6
  <2>2. g[n + 1] \in XDigit
    BY <1>7, <2>1
  <2>3. n # 4
    BY <1>5, <1>6, <1>7, <2>1
  <2> QED BY <1>6, <2>1, <2>2, <2>3
<1>10. CASE L = 0
  <2>1. g = <<>>
    BY <1>5, <1>10
  <2> QED BY <1>1, <1>8, <1>9, <1>10, <2>1 DEF Stepped6
<1>11. CASE L # 0
  <2> DEFINE z == Number(16, g)
             pre == SubSeq(gs, 1, j - 1)
             all == SubSeq(gs, 1, j)
  <2>0. g # <<>>
    BY <1>11
  <2>1. u.parts = Append(w.parts, z)
    <3>1. SubSeq(t, p, p + n - 1) = g
      BY <1>6, <1>9
    <3> QED BY <1>8, <1>9, <1>11, <3>1
  <2>2. Vals(all) = u.parts
    <3>1. pre \in Seq(Seq(TextChars)) /\ all = Append(pre, g)
      BY <1>1, SMTT(40)
    <3> HIDE DEF pre, all
    <3>2. Vals(Append(pre, g)) = Append(Vals(pre), Number(16, g))
      BY <1>5, <2>0, <3>1, ValsFacts
    <3>3. w.parts = Vals(pre)
      BY <1>1 DEF pre
    <3> QED BY <2>1, <3>1, <3>2, <3>3
  <2>3. CASE j < N
    <3>1. c = Colon /\ u.it = pos[j + 1] /\ u.end = FALSE
      <4>1. c = Colon
        BY <1>6, <1>9, <2>3
      <4>2. u.it = p + n + 1
        BY <1>8, <1>9, <1>11, <4>1
      <4>3. p + n + 1 = pos[j + 1]
        BY <1>5, <1>9, <2>3
      <4> QED BY <1>0, <1>8, <1>9, <1>11, <4>1, <4>2, <4>3
    <3>2. Read6(gs, pos, j + 1, u)
      <4>1. j + 1 \in 1 .. N /\ (j + 1) - 1 = j
        BY <1>1, <2>3
      <4>2. u.ok = TRUE
        BY <1>8, <1>9, <1>11
      <4> QED BY <2>2, <3>1, <4>1, <4>2 DEF Read6
    <3> QED BY <1>1, <2>1, <3>2 DEF Stepped6
  <2>4. CASE ~(j < N)
    <3>1. c = Nul /\ u.end = TRUE /\ u.it = p + n /\ CharAt(t, p + n) = Nul
      <4>1. c = Nul
        BY <1>6, <1>9, <2>4
      <4> QED BY <1>0, <1>8, <1>9, <1>11, <4>1 DEF c
    <3>2. all = gs
      BY <1>1, <1>5, <2>4
    <3>3. Over6(t, gs, u)
      <4>1. u.ok = TRUE
        BY <1>8, <1>9, <1>11
      <4> QED BY <2>2, <3>1, <3>2, <4>1 DEF Over6
    <3> QED BY <1>1, <2>1, <3>3 DEF Stepped6
  <2> QED BY <2>3, <2>4
<1> QED BY <1>10, <1>11

\* After m turns that began at group j.
State6(t, gs, pos, j, m, w) ==
  /\ Len(w.parts) <= m
  /\ \/ w.ok = FALSE /\ \E k \in 1 .. Len(gs) : gs[k] = <<>>
     \/ Read6(gs, pos, j + m, w)
     \/ Over6(t, gs, w)

(* Each turn keeps it. *)
LEMMA Ipv6Keeps ==
  ASSUME NEW gs \in Seq(Seq(TextChars)), Free(gs, Colon), NEW t \in Seq(TextChars), NEW pos,
         Places(t, gs, Colon, pos), AllIn(gs, XDigit), Short(gs),
         NEW w \in Walks, NEW j \in Nat, NEW m \in Nat, State6(t, gs, pos, j, m, w)
  PROVE  State6(t, gs, pos, j, m + 1, ipv6_next(t, w))
<1>0. Len(w.parts) \in Nat /\ Len(w.parts) <= m /\ Len(w.parts) <= m + 1 /\ w.parts \in Seq(Nat)
  BY DEF Walks, State6
<1>1. CASE w.ok = FALSE \/ w.end = TRUE
  <2>1. ipv6_next(t, w) = w
    BY <1>1 DEF ipv6_next
  <2>2. ~Read6(gs, pos, j + m, w)
    BY <1>1 DEF Read6
  <2> QED BY <1>0, <2>1, <2>2 DEF State6
<1>2. CASE w.ok = TRUE /\ w.end = FALSE
  <2> DEFINE u == ipv6_next(t, w)
             i == j + m
  <2>1. Read6(gs, pos, i, w)
    BY <1>2 DEF State6, Over6
  <2> HIDE DEF i
  <2>2. Stepped6(t, gs, pos, i, w, u)
    BY <2>1, Ipv6Step
  <2>3. i \in 1 .. Len(gs) /\ i + 1 = j + (m + 1)
    BY <2>1 DEF Read6, i
  <2> HIDE DEF u
  <2>4. CASE u = Failed /\ gs[i] = <<>>
    <3>1. Failed.parts = <<>> /\ Failed.ok = FALSE
      BY FailedFacts DEF Failed, Start
    <3>2. Len(u.parts) <= m + 1
      BY <2>4, <3>1
    <3> QED BY <2>3, <2>4, <3>1, <3>2 DEF State6, u
  <2>5. CASE /\ u.parts = Append(w.parts, Number(16, gs[i]))
             /\ Read6(gs, pos, i + 1, u) \/ Over6(t, gs, u)
    <3>1. Len(u.parts) = Len(w.parts) + 1
      BY <1>0, <2>5
    <3>2. Len(u.parts) <= m + 1
      BY <1>0, <3>1
    <3> QED BY <2>3, <2>5, <3>2 DEF State6, u
  <2> QED BY <2>2, <2>4, <2>5 DEF Stepped6
<1> QED BY <1>1, <1>2 DEF Walks

(* Where a group begins with its separator, it is empty and another follows. *)
LEMMA Hollow ==
  ASSUME NEW gs, NEW t, NEW pos, NEW sep, NEW j, Place(t, gs, sep, pos, j),
         t \in Seq(TextChars), CharAt(t, pos[j]) \in {sep, Nul}
  PROVE  /\ gs[j] = <<>>
         /\ CharAt(t, pos[j]) = sep /\ sep # Nul => j < Len(gs) /\ pos[j + 1] = pos[j] + 1
<1> DEFINE g == gs[j]
           p == pos[j]
<1>1. /\ g \in Seq(TextChars) /\ p \in Nat /\ p >= 1 /\ Len(gs) \in Nat
      /\ \A k \in 1 .. Len(g) : CharAt(t, p + k - 1) = g[k] /\ g[k] # sep /\ g[k] # Nul
      /\ j < Len(gs) => pos[j + 1] = p + Len(g) + 1
      /\ ~(j < Len(gs)) => p + Len(g) = Len(t) + 1
  BY DEF Place
<1>2. CharAt(t, p) \in {sep, Nul}
  OBVIOUS
<1> HIDE DEF g, p
<1>3. g = <<>>
  <2> SUFFICES ASSUME g # <<>> PROVE FALSE
    OBVIOUS
  <2>1. 1 \in 1 .. Len(g) /\ p + 1 - 1 = p
    BY <1>1
  <2> QED BY <1>1, <1>2, <2>1
<1>4. ASSUME CharAt(t, p) = sep, sep # Nul PROVE j < Len(gs) /\ pos[j + 1] = p + 1
  <2>1. Len(g) = 0
    BY <1>3
  <2>2. j < Len(gs)
    <3> SUFFICES ASSUME ~(j < Len(gs)) PROVE FALSE
      OBVIOUS
    <3>1. p = Len(t) + 1
      BY <1>1, <2>1
    <3>2. p \notin DOMAIN t
      BY <3>1
    <3> QED BY <1>4, <3>2 DEF CharAt
  <2>3. pos[j + 1] = p + 1
    BY <1>1, <2>1, <2>2
  <2> QED BY <2>2, <2>3
<1> QED BY <1>3, <1>4 DEF g, p

\* The text begins with two colons.
Zeroes(t) == CharAt(t, 1) = Colon /\ CharAt(t, 2) = Colon

(* Then its first two groups are empty, and the loop begins at the third. *)
LEMMA LeadingZeroes ==
  ASSUME NEW gs \in Seq(Seq(TextChars)), gs # <<>>, Free(gs, Colon), NEW t \in Seq(TextChars), NEW pos,
         Places(t, gs, Colon, pos), Zeroes(t)
  PROVE  /\ 3 \in 1 .. Len(gs) /\ pos[3] = 3 /\ gs[1] = <<>> /\ gs[2] = <<>>
         /\ Vals(SubSeq(gs, 1, 2)) = <<>>
         /\ Len(t) = 2 => Vals(gs) = <<>>
<1>0. Colon # Nul /\ CharAt(t, 1) = Colon /\ CharAt(t, 2) = Colon /\ Len(gs) \in Nat
  BY DEF Colon, Nul, Zeroes
<1>1. 1 \in 1 .. Len(gs) /\ pos[1] = 1
  BY DEF Places
<1>2. Place(t, gs, Colon, pos, 1)
  BY <1>1, PlaceIs
<1>3. gs[1] = <<>> /\ 1 < Len(gs) /\ pos[1 + 1] = pos[1] + 1
  <2> DEFINE one == 1
  <2>1. Place(t, gs, Colon, pos, one) /\ CharAt(t, pos[one]) = Colon
    BY <1>0, <1>1, <1>2
  <2> HIDE DEF one
  <2>2. gs[one] = <<>> /\ one < Len(gs) /\ pos[one + 1] = pos[one] + 1
    BY <1>0, <2>1, Hollow
  <2> QED BY <2>2 DEF one
<1>4. 2 \in 1 .. Len(gs) /\ pos[2] = 2
  BY <1>0, <1>1, <1>3
<1>5. Place(t, gs, Colon, pos, 2)
  BY <1>4, PlaceIs
<1>6. gs[2] = <<>> /\ 2 < Len(gs) /\ pos[2 + 1] = pos[2] + 1
  <2> DEFINE two == 2
  <2>1. Place(t, gs, Colon, pos, two) /\ CharAt(t, pos[two]) = Colon
    BY <1>0, <1>4, <1>5
  <2> HIDE DEF two
  <2>2. gs[two] = <<>> /\ two < Len(gs) /\ pos[two + 1] = pos[two] + 1
    BY <1>0, <2>1, Hollow
  <2> QED BY <2>2 DEF two
<1>7. 3 \in 1 .. Len(gs) /\ pos[3] = 3
  BY <1>0, <1>4, <1>6
<1> DEFINE e == << >>
           a == SubSeq(gs, 1, 1)
           b == SubSeq(gs, 1, 2)
           c == SubSeq(gs, 1, 3)
<1>8. e \in Seq(Seq(TextChars)) /\ a = Append(e, gs[1]) /\ a \in Seq(Seq(TextChars)) /\ gs[1] \in Seq(TextChars)
  <2>1. e \in Seq(Seq(TextChars)) /\ a \in Seq(Seq(TextChars)) /\ gs[1] \in Seq(TextChars)
    BY <1>1
  <2>2. Len(a) = 1 /\ a[1] = gs[1]
    BY <1>1
  <2>3. Append(e, gs[1]) = <<gs[1]>>
    OBVIOUS
  <2> HIDE DEF a
  <2>4. a = <<gs[1]>>
    BY <2>1, <2>2
  <2> QED BY <2>1, <2>3, <2>4
<1>9. b = Append(a, gs[2]) /\ b \in Seq(Seq(TextChars)) /\ gs[2] \in Seq(TextChars)
  BY <1>4
<1>10. c = Append(b, gs[3]) /\ gs[3] \in Seq(TextChars)
  BY <1>7
<1> HIDE DEF a, b, c
<1>11. Vals(e) = <<>> /\ Vals(a) = Vals(e)
  BY <1>3, <1>8, ValsFacts
<1>12. Vals(b) = Vals(a)
  BY <1>6, <1>8, <1>9, ValsFacts
<1>13. ASSUME Len(t) = 2 PROVE Vals(gs) = <<>>
  <2>1. Place(t, gs, Colon, pos, 3)
    BY <1>7, PlaceIs
  <2>2. 3 \notin DOMAIN t
    BY <1>13
  <2>3. CharAt(t, pos[3]) = Nul
    BY <1>7, <2>2 DEF CharAt
  <2>4. gs[3] = <<>>
    BY <2>1, <2>3, Hollow
  <2>5. Len(gs) = 3
    <3>1. 3 < Len(gs) => pos[3] + Len(gs[3]) <= Len(t)
      BY <2>1 DEF Place
    <3>2. Len(gs[3]) = 0
      BY <2>4
    <3>3. ~(3 < Len(gs))
      BY <1>7, <1>13, <3>1, <3>2
    <3> DEFINE N == Len(gs)
    <3>4. N \in Nat /\ 3 <= N /\ ~(3 < N)
      BY <1>0, <1>7, <3>3
    <3> HIDE DEF N
    <3>5. N = 3
      BY <3>4
    <3> QED BY <3>5 DEF N
  <2>6. c = gs
    BY <2>5 DEF c
  <2>7. Vals(c) = Vals(b)
    BY <1>9, <1>10, <2>4, ValsFacts
  <2> QED BY <1>11, <1>12, <2>6, <2>7
<1> QED BY <1>3, <1>6, <1>7, <1>11, <1>12, <1>13 DEF b

(* It holds before the first turn. *)
LEMMA Ipv6Start ==
  ASSUME NEW gs \in Seq(Seq(TextChars)), gs # <<>>, NEW t, NEW pos, NEW j \in 1 .. Len(gs),
         NEW p \in Nat, pos[j] = p, Vals(SubSeq(gs, 1, j - 1)) = <<>>
  PROVE  State6(t, gs, pos, j, 0, Start(p)) /\ Start(p) \in Walks
<1>1. /\ Start(p).ok = TRUE /\ Start(p).end = FALSE /\ Start(p).it = p /\ Start(p).parts = <<>>
      /\ Start(p) \in Walks /\ j + 0 = j
  BY DEF Start, Walks
<1>2. Read6(gs, pos, j, Start(p))
  BY <1>1 DEF Read6
<1>3. Len(<<>>) <= 0
  OBVIOUS
<1> QED BY <1>1, <1>2, <1>3 DEF State6

(* It holds after the eight turns. *)
LEMMA Ipv6Walk ==
  ASSUME NEW gs \in Seq(Seq(TextChars)), gs # <<>>, Free(gs, Colon), NEW t \in Seq(TextChars), NEW pos,
         Places(t, gs, Colon, pos), AllIn(gs, XDigit), Short(gs), NEW j \in 1 .. Len(gs),
         NEW p \in Nat, pos[j] = p, Vals(SubSeq(gs, 1, j - 1)) = <<>>
  PROVE  ipv6_groups(t, p) \in Walks /\ State6(t, gs, pos, j, 8, ipv6_groups(t, p))
<1> DEFINE A == {y \in (0 .. 8) \X Walks : State6(t, gs, pos, j, y[1], y[2])}
<1>1. <<0, Start(p)>> \in A
  <2>1. State6(t, gs, pos, j, 0, Start(p)) /\ Start(p) \in Walks
    BY Ipv6Start
  <2> QED BY <2>1
<1>2. \A m \in 0 .. 7, w \in Walks : <<m, w>> \in A => <<m + 1, ipv6_next(t, w)>> \in A
  <2> SUFFICES ASSUME NEW m \in 0 .. 7, NEW w \in Walks, State6(t, gs, pos, j, m, w)
               PROVE  <<m + 1, ipv6_next(t, w)>> \in A
    OBVIOUS
  <2>1. m + 1 \in 0 .. 8 /\ ipv6_next(t, w) \in Walks /\ m \in Nat /\ j \in Nat
    BY SixNext
  <2>2. State6(t, gs, pos, j, m + 1, ipv6_next(t, w))
    BY <2>1, Ipv6Keeps
  <2> QED BY <2>1, <2>2
<1>3. ipv6_groups(t, p) \in Walks /\ <<8, ipv6_groups(t, p)>> \in A
  <2> HIDE DEF A
  <2> QED BY <1>1, <1>2, SixGroups
<1> QED BY <1>3

(* At the end of a text all its groups are read. *)
LEMMA Ipv6Ended ==
  ASSUME NEW gs \in Seq(Seq(TextChars)), Free(gs, Colon), NEW t \in Seq(TextChars), NEW pos,
         Places(t, gs, Colon, pos), NEW j, NEW w \in Walks, State6(t, gs, pos, j, 8, w),
         w.ok = TRUE, CharAt(t, w.it) = Nul
  PROVE  w.parts = Vals(gs) /\ Vals(gs) \in Seq(Nat) /\ Len(Vals(gs)) <= 8
<1>0. Vals(gs) \in Seq(Nat) /\ Len(w.parts) <= 8
  BY ValsFacts DEF State6
<1>1. CASE Over6(t, gs, w)
  BY <1>0, <1>1 DEF Over6
<1>2. CASE Read6(gs, pos, j + 8, w)
  <2> DEFINE i == j + 8
             pre == SubSeq(gs, 1, i - 1)
  <2>1. Read6(gs, pos, i, w)
    BY <1>2
  <2> HIDE DEF i
  <2>2. i \in 1 .. Len(gs) /\ w.it = pos[i] /\ w.parts = Vals(pre)
    BY <2>1 DEF Read6
  <2>3. Place(t, gs, Colon, pos, i)
    BY <2>2, PlaceIs
  <2>4. gs[i] = <<>>
    BY <2>2, <2>3, Hollow
  <2>5. i = Len(gs)
    <3>1. i < Len(gs) => CharAt(t, pos[i] + Len(gs[i])) = Colon
      BY <2>3 DEF Place
    <3>2. pos[i] \in Nat /\ Len(gs[i]) = 0 /\ Len(gs) \in Nat
      BY <2>3, <2>4 DEF Place
    <3>3. pos[i] + Len(gs[i]) = pos[i]
      BY <3>2
    <3>4. Colon # Nul
      BY DEF Colon, Nul
    <3>5. ~(i < Len(gs))
      BY <2>2, <3>1, <3>3, <3>4
    <3> QED BY <2>2, <3>2, <3>5
  <2>6. gs = Append(pre, gs[i]) /\ pre \in Seq(Seq(TextChars)) /\ gs[i] \in Seq(TextChars)
    BY <2>2, <2>5
  <2> HIDE DEF pre
  <2>7. Vals(Append(pre, gs[i])) = Vals(pre)
    BY <2>4, <2>6, ValsFacts
  <2> QED BY <1>0, <2>2, <2>6, <2>7
<1> QED BY <1>1, <1>2 DEF State6

(* The groups are a prefix of the address that is padded with zeroes. *)
LEMMA PaddedFacts ==
  ASSUME NEW s \in Seq(Nat), Len(s) <= 8
  PROVE  SubSeq(Padded(s), 1, Len(s)) = s /\ (Len(s) = 8 => Padded(s) = s)
<1> DEFINE d == Padded(s)
           n == Len(s)
<1>1. n \in Nat /\ n <= 8 /\ DOMAIN s = 1 .. n
  OBVIOUS
<1>2. \A i \in 1 .. 8 : d[i] = IF i \in 1 .. n THEN s[i] ELSE 0
  BY <1>1 DEF Padded
<1>3. d \in [1 .. 8 -> Nat]
  <2>1. d = [i \in 1 .. 8 |-> d[i]]
    BY DEF Padded
  <2>2. \A i \in 1 .. 8 : d[i] \in Nat
    <3>1. \A i \in 1 .. n : s[i] \in Nat
      OBVIOUS
    <3> HIDE DEF d, n
    <3> TAKE i \in 1 .. 8
    <3>2. CASE i \in 1 .. n BY <1>2, <3>1, <3>2
    <3>3. CASE i \notin 1 .. n
      <4>1. d[i] = 0
        BY <1>2, <3>3
      <4>2. 0 \in Nat
        OBVIOUS
      <4> QED BY <4>1, <4>2
    <3> QED BY <3>2, <3>3
  <2> QED BY <2>1, <2>2
<1> HIDE DEF d
<1>4. d \in Seq(Nat) /\ Len(d) = 8
  <2>1. 8 \in Nat
    OBVIOUS
  <2>2. d \in Seq(Nat)
    BY <1>3, <2>1, FnIsSeq
  <2>3. DOMAIN d = 1 .. 8
    BY <1>3
  <2> QED BY <2>2, <2>3
<1> HIDE DEF n
<1> DEFINE e == SubSeq(d, 1, n)
<1>5. e \in Seq(Nat) /\ Len(e) = n /\ \A i \in 1 .. n : e[i] = d[i]
  <2>1. n \in Nat /\ n <= Len(d)
    BY <1>1, <1>4
  <2>2. n \in 0 .. Len(d)
    BY <1>4, <2>1
  <2> QED BY <1>4, <2>2, PrefixSeq
<1> HIDE DEF e
<1>6. \A i \in 1 .. n : e[i] = s[i]
  <2>1. \A i \in 1 .. n : i \in 1 .. 8
    BY <1>1
  <2> QED BY <1>2, <1>5, <2>1
<1>7. e = s
  BY <1>5, <1>6, SeqEqual DEF n
<1>8. n = 8 => d = s
  <2> HAVE n = 8
  <2>1. Len(d) = Len(s) /\ \A i \in 1 .. Len(d) : d[i] = s[i]
    BY <1>2, <1>4 DEF n
  <2> QED BY <1>4, <2>1, SeqEqual
<1> QED BY <1>7, <1>8 DEF e, n, d

(* yo_addrparse reads every text with colons in it that yo_parse_ipv4 refuses,
   of any number of groups of any length: it refuses one with another
   character, returns the eight groups of a full address, and where no group
   is empty it reads what it accepts as the first of the eight. *)
THEOREM Ipv6Texts ==
  ASSUME NEW gs \in Seq(Seq(TextChars)), gs # <<>>, Free(gs, Colon),
         yo_parse_ipv4(Joined(gs, Colon)) = NoAddr
  PROVE  Ipv6Exact(gs)
<1> DEFINE t == Joined(gs, Colon)
           r == yo_addrparse(t)
           p == IF Zeroes(t) THEN 3 ELSE 1
           w == ipv6_groups(t, p)
           S == TextChars
           vs == Values(NonEmpty(gs), 16)
<1>0. Colon \in S /\ gs \in Seq(Seq(S))
  BY DEF Colon, TextChars, Other
<1>1. r = yo_parse_ipv6(t)
  BY DEF yo_addrparse
<1>2. yo_parse_ipv6(t) = IF Zeroes(t) /\ Len(t) = 2 THEN [type |-> "ipv6", parts |-> Padded(<<>>)]
      ELSE IF w.ok /\ CharAt(t, w.it) = Nul
      THEN [type |-> "ipv6", parts |-> Padded(w.parts)] ELSE NoAddr
  BY DEF yo_parse_ipv6, Zeroes
<1> HIDE DEF S
<1>3. t \in Seq(S) /\ \E pos : Places(t, gs, Colon, pos)
  BY <1>0, JoinedPlaced
<1>4. t \in Seq(TextChars)
  BY <1>3 DEF S
<1> HIDE DEF t, r
<1>5. PICK pos : Places(t, gs, Colon, pos)
  BY <1>3
<1>6. vs = Vals(gs)
  BY DEF Vals
<1> HIDE DEF vs
<1>7. ASSUME ~AllIn(gs, XDigit) PROVE r = NoAddr
  <2>1. PICK i \in DOMAIN gs : \E k \in DOMAIN gs[i] : gs[i][k] \notin XDigit
    BY <1>7 DEF AllIn
  <2>2. PICK k \in DOMAIN gs[i] : gs[i][k] \notin XDigit
    BY <2>1
  <2>3. i \in 1 .. Len(gs) /\ gs[i] \in Seq(TextChars)
    OBVIOUS
  <2>4. k \in 1 .. Len(gs[i])
    BY <2>3
  <2>5. Place(t, gs, Colon, pos, i)
    BY <1>5, <2>3, PlaceIs
  <2> DEFINE x == pos[i] + k - 1
             ch == gs[i][k]
  <2>6. CharAt(t, x) = ch /\ ch # Colon /\ ch # Nul
    BY <2>4, <2>5 DEF Place
  <2> HIDE DEF x, ch
  <2>7. x \in DOMAIN t /\ t[x] = ch
    BY <2>6 DEF CharAt
  <2>8. x \in 1 .. Len(t) /\ t[x] # Colon /\ t[x] \notin XDigit
    BY <1>4, <2>2, <2>6, <2>7 DEF ch
  <2>9. yo_parse_ipv6(t) = NoAddr
    BY <1>4, <2>8, Bad6
  <2> QED BY <1>1, <2>9
<1> HIDE DEF w
<1>8. ASSUME AllIn(gs, XDigit), Short(gs)
      PROVE  /\ r.type = "ipv6" => SubSeq(r.parts, 1, Len(vs)) = vs
             /\ Len(gs) = 8 /\ NonEmpty(gs) = gs => r = [type |-> "ipv6", parts |-> vs]
  <2> DEFINE j == p
  <2>1. j \in 1 .. Len(gs) /\ pos[j] = p /\ p \in Nat /\ Vals(SubSeq(gs, 1, j - 1)) = <<>>
    <3>1. CASE Zeroes(t)
      <4>1. 3 \in 1 .. Len(gs) /\ pos[3] = 3 /\ Vals(SubSeq(gs, 1, 2)) = <<>>
        BY <1>4, <1>5, <3>1, LeadingZeroes
      <4> QED BY <3>1, <4>1
    <3>2. CASE ~Zeroes(t)
      <4>1. SubSeq(gs, 1, 0) = <<>>
        OBVIOUS
      <4>2. Vals(<<>>) = <<>>
        BY ValsFacts
      <4>3. 1 \in 1 .. Len(gs) /\ pos[1] = 1
        BY <1>5 DEF Places
      <4>4. j = 1 /\ p = 1 /\ 1 - 1 = 0
        BY <3>2
      <4> HIDE DEF j, p
      <4> QED BY <4>1, <4>2, <4>3, <4>4
    <3> QED BY <3>1, <3>2
  <2> HIDE DEF j, p
  <2>2. w \in Walks /\ State6(t, gs, pos, j, 8, w)
    BY <1>4, <1>5, <1>8, <2>1, Ipv6Walk DEF w
  <2>3. ASSUME w.ok = TRUE, CharAt(t, w.it) = Nul
        PROVE  w.parts = vs /\ SubSeq(Padded(vs), 1, Len(vs)) = vs /\ (Len(vs) = 8 => Padded(vs) = vs)
    <3>1. w.parts = vs /\ vs \in Seq(Nat) /\ Len(vs) <= 8
      BY <1>4, <1>5, <1>6, <2>2, <2>3, Ipv6Ended
    <3> QED BY <3>1, PaddedFacts
  <2>4. ASSUME r.type = "ipv6" PROVE SubSeq(r.parts, 1, Len(vs)) = vs
    <3>1. CASE Zeroes(t) /\ Len(t) = 2
      <4>1. vs = <<>>
        BY <1>4, <1>5, <1>6, <3>1, LeadingZeroes
      <4>2. <<>> \in Seq(Nat) /\ Len(<<>>) <= 8
        OBVIOUS
      <4>3. SubSeq(Padded(<<>>), 1, Len(<<>>)) = <<>>
        BY <4>2, PaddedFacts
      <4>4. r.parts = Padded(<<>>)
        BY <1>1, <1>2, <3>1
      <4> QED BY <4>1, <4>3, <4>4
    <3>2. CASE ~(Zeroes(t) /\ Len(t) = 2)
      <4>1. NoAddr.type # "ipv6"
        BY DEF NoAddr
      <4>2. w.ok /\ CharAt(t, w.it) = Nul
        BY <1>1, <1>2, <2>4, <3>2, <4>1
      <4>3. w.ok = TRUE
        BY <2>2, <4>2 DEF Walks
      <4>4. r.parts = Padded(w.parts)
        BY <1>1, <1>2, <3>2, <4>2
      <4> QED BY <2>3, <4>2, <4>3, <4>4
    <3> QED BY <3>1, <3>2
  <2>5. ASSUME Len(gs) = 8, NonEmpty(gs) = gs PROVE r = [type |-> "ipv6", parts |-> vs]
    <3>1. \A k \in 1 .. Len(gs) : gs[k] # <<>>
      <4> DEFINE C == Seq(TextChars)
      <4>1. gs \in Seq(C) /\ DOMAIN gs = 1 .. Len(gs)
        OBVIOUS
      <4> HIDE DEF C
      <4>2. NonEmpty(gs) = gs <=> \A k \in DOMAIN gs : gs[k] # <<>>
        BY <4>1, NonEmptyAll
      <4> QED BY <2>5, <4>1, <4>2
    <3>2. ~Zeroes(t) /\ 1 \in 1 .. Len(gs)
      <4>1. 1 \in 1 .. Len(gs)
        BY <2>5
      <4>2. Zeroes(t) => gs[1] = <<>>
        BY <1>4, <1>5, LeadingZeroes
      <4> QED BY <3>1, <4>1, <4>2
    <3>3. Over6(t, gs, w)
      <4>1. ~(w.ok = FALSE /\ \E k \in 1 .. Len(gs) : gs[k] = <<>>)
        BY <3>1
      <4>2. j = 1
        BY <3>2 DEF j, p
      <4>3. ~Read6(gs, pos, j + 8, w)
        BY <2>5, <4>2 DEF Read6
      <4> QED BY <2>2, <4>1, <4>3 DEF State6
    <3>4. w.ok = TRUE /\ CharAt(t, w.it) = Nul
      BY <3>3 DEF Over6
    <3>5. Len(vs) = 8
      <4>1. vs = [k \in DOMAIN gs |-> Number(16, gs[k])] /\ DOMAIN gs = 1 .. 8
        BY <2>5 DEF vs, Values
      <4>2. vs \in Seq(Nat)
        BY <1>6, ValsFacts
      <4> QED BY <4>1, <4>2
    <3>6. w.parts = vs /\ Padded(vs) = vs
      BY <2>3, <3>4, <3>5
    <3> QED BY <1>1, <1>2, <3>2, <3>4, <3>6
  <2> QED BY <2>4, <2>5
<1>9. /\ ~AllIn(gs, XDigit) => r = NoAddr
      /\ Len(gs) = 8 /\ AllIn(gs, XDigit) /\ NonEmpty(gs) = gs /\ Short(gs) => r = [type |-> "ipv6", parts |-> vs]
      /\ Short(gs) /\ r.type = "ipv6" => SubSeq(r.parts, 1, Len(vs)) = vs
  <2>1. NoAddr.type # "ipv6"
    BY DEF NoAddr
  <2> QED BY <1>7, <1>8, <2>1
<1> QED BY <1>9 DEF Ipv6Exact, Short, r, t, vs

(* A group of its own is the text, with whatever separator. *)
LEMMA JoinedOne ==
  ASSUME NEW gs \in Seq(Seq(TextChars)), Len(gs) = 1, NEW sep \in TextChars
  PROVE  Joined(gs, sep) = gs[1]
<1> DEFINE t == Joined(gs, sep)
           S == TextChars
           g == gs[1]
<1>0. sep \in S /\ gs \in Seq(Seq(S)) /\ gs # <<>>
  OBVIOUS
<1> HIDE DEF S
<1>1. t \in Seq(S) /\ \E pos : Places(t, gs, sep, pos)
  BY <1>0, JoinedPlaced
<1> HIDE DEF t
<1>2. PICK pos : Places(t, gs, sep, pos)
  BY <1>1
<1>3. 1 \in 1 .. Len(gs) /\ ~(1 < Len(gs)) /\ g \in Seq(S)
  BY <1>0
<1>4. pos[1] = 1 /\ (\A k \in 1 .. Len(g) : CharAt(t, pos[1] + k - 1) = g[k]) /\ pos[1] + Len(g) = Len(t) + 1
  BY <1>2, <1>3 DEF Places
<1> HIDE DEF g
<1>5. Len(t) \in Nat /\ Len(g) \in Nat /\ DOMAIN t = 1 .. Len(t)
  BY <1>1, <1>3
<1>6. Len(t) = Len(g)
  BY <1>4, <1>5
<1>7. \A k \in 1 .. Len(t) : t[k] = g[k]
  <2> TAKE k \in 1 .. Len(t)
  <2>1. pos[1] + k - 1 = k /\ k \in 1 .. Len(g) /\ k \in DOMAIN t
    BY <1>4, <1>5, <1>6
  <2> QED BY <1>4, <2>1 DEF CharAt
<1>8. t = g
  BY <1>1, <1>3, <1>6, <1>7, SeqEqual
<1> QED BY <1>8 DEF t, g

(* yo_parse_ipv4 refuses a text that does not begin with a digit. *)
LEMMA StuckText ==
  ASSUME NEW t \in Seq(TextChars), CharAt(t, 1) \notin Digit \cup {Nul}
  PROVE  yo_parse_ipv4(t) = NoAddr
<1> DEFINE a == Start(1)
           b == ipv4_part(t, a, 0)
           c == ipv4_next(t, b, 1)
           d == ipv4_next(t, c, 2)
           w == ipv4_next(t, d, 3)
<1>0. Len(t) \in Nat
  OBVIOUS
<1>1. a \in Walks /\ Stuck(t, a)
  BY DEF Start, Walks, Stuck
<1>2. b = ipv4_next(t, a, 0)
  BY DEF Start, ipv4_next
<1>3. yo_parse_ipv4(t) = IF w.ok /\ CharAt(t, w.it) = Nul THEN [type |-> "ipv4", parts |-> w.parts] ELSE NoAddr
  BY DEF yo_parse_ipv4
<1> HIDE DEF a, b
<1>4. b \in Walks /\ Stuck(t, b)
  BY <1>0, <1>1, <1>2, StuckStays
<1> HIDE DEF c
<1>5. c \in Walks /\ Stuck(t, c)
  BY <1>0, <1>4, StuckStays DEF c
<1> HIDE DEF d
<1>6. d \in Walks /\ Stuck(t, d)
  BY <1>0, <1>5, StuckStays DEF d
<1> HIDE DEF w
<1>7. w \in Walks /\ Stuck(t, w)
  BY <1>0, <1>6, StuckStays DEF w
<1> QED BY <1>3, <1>7 DEF Stuck

(* Groups with colons between them are an IPv4 text only if there is one of
   them, with a dot in it and not at its front. *)
Ipv4Groups == {g \in Seq(TextChars) : \A k \in DOMAIN g : g[k] # Dot}
\* The groups of the IPv6 texts: a dot in one of them is its first character,
\* so that the text is no IPv4 address.
Ipv6Groups == {g \in Seq(TextChars) : \A k \in DOMAIN g : g[k] # Colon /\ (g[k] = Dot => g[1] = Dot)}

(* yo_parse_ipv4 refuses what such groups make with colons between them. *)
LEMMA NotIpv4 ==
  ASSUME NEW gs \in Seq(Ipv6Groups), gs # <<>>
  PROVE  /\ gs \in Seq(Seq(TextChars)) /\ Free(gs, Colon)
         /\ yo_parse_ipv4(Joined(gs, Colon)) = NoAddr
<1>0. Colon \in TextChars /\ Dot \in TextChars /\ Colon # Dot /\ Colon \notin Digit /\ Dot \notin Digit \cup {Nul}
  BY DEF Colon, Dot, TextChars, Other, Digit, Nul
<1>1. Len(gs) \in Nat /\ DOMAIN gs = 1 .. Len(gs) /\ \A i \in 1 .. Len(gs) : gs[i] \in Ipv6Groups
  OBVIOUS
<1>2. gs \in Seq(Seq(TextChars))
  <2>1. gs \in [1 .. Len(gs) -> Seq(TextChars)]
    <3>1. \A i \in 1 .. Len(gs) : gs[i] \in Seq(TextChars)
      BY <1>1 DEF Ipv6Groups
    <3>2. gs = [i \in 1 .. Len(gs) |-> gs[i]]
      OBVIOUS
    <3> DEFINE n == Len(gs)
    <3> HIDE DEF n
    <3> QED BY <3>1, <3>2
  <2> QED BY <1>1, <2>1, FnIsSeq
<1>3. Free(gs, Colon)
  BY <1>1 DEF Free, Ipv6Groups
<1> DEFINE t == Joined(gs, Colon)
           S == TextChars
<1>4. Colon \in S /\ gs \in Seq(Seq(S))
  BY <1>0, <1>2
<1> HIDE DEF S
<1>5. t \in Seq(S) /\ \E pos : Places(t, gs, Colon, pos)
  BY <1>4, JoinedPlaced
<1>6. t \in Seq(TextChars)
  BY <1>5 DEF S
<1>7. CASE Len(gs) > 1
  <2>1. PICK pos : Places(t, gs, Colon, pos)
    BY <1>5
  <2>2. 1 \in 1 .. Len(gs) /\ 1 < Len(gs)
    BY <1>1, <1>7
  <2>3. Place(t, gs, Colon, pos, 1)
    BY <1>2, <1>3, <2>1, <2>2, PlaceIs
  <2> DEFINE x == pos[1] + Len(gs[1])
  <2>4. x \in Nat /\ 1 <= x /\ x <= Len(t) /\ CharAt(t, x) = Colon
    BY <2>2, <2>3 DEF Place
  <2> HIDE DEF x, t
  <2>5. x \in 1 .. Len(t) /\ x \in DOMAIN t
    BY <1>6, <2>4
  <2>6. t[x] = Colon
    BY <2>4, <2>5 DEF CharAt
  <2>7. yo_parse_ipv4(t) = NoAddr
    BY <1>0, <1>6, <2>5, <2>6, Bad4
  <2> QED BY <1>2, <1>3, <2>7 DEF t
<1>8. CASE Len(gs) = 1
  <2>1. t = gs[1] /\ Joined(gs, Dot) = gs[1] /\ gs[1] \in Ipv6Groups /\ gs[1] \in Seq(TextChars)
    BY <1>0, <1>1, <1>2, <1>8, JoinedOne
  <2>2. CASE \E k \in DOMAIN gs[1] : gs[1][k] = Dot
    <3>1. gs[1][1] = Dot /\ DOMAIN gs[1] # {}
      BY <2>1, <2>2 DEF Ipv6Groups
    <3>2. 1 \in DOMAIN gs[1]
      BY <2>1, <3>1
    <3>3. CharAt(t, 1) = Dot
      BY <2>1, <3>1, <3>2 DEF CharAt
    <3> HIDE DEF t
    <3>4. yo_parse_ipv4(t) = NoAddr
      BY <1>0, <1>6, <3>3, StuckText
    <3> QED BY <1>2, <1>3, <3>4 DEF t
  <2>3. CASE \A k \in DOMAIN gs[1] : gs[1][k] # Dot
    <3>1. Free(gs, Dot)
      <4>1. \A i \in DOMAIN gs : i = 1
        BY <1>1, <1>8
      <4> QED BY <2>3, <4>1 DEF Free
    <3>2. ~Well4(gs)
      BY <1>8 DEF Well4
    <3>3. yo_parse_ipv4(Joined(gs, Dot)) = NoAddr
      BY <1>2, <3>1, <3>2, Ipv4Parsed
    <3> QED BY <1>2, <1>3, <2>1, <3>3
  <2> QED BY <2>2, <2>3
<1>9. Len(gs) > 1 \/ Len(gs) = 1
  BY <1>1
<1> QED BY <1>7, <1>8, <1>9

\* The inputs of every state are such groups, or the system's addresses.
AddrInv ==
  /\ topic \in Topics
  /\ topic = "ipv4" => input \in Seq(Ipv4Groups)
  /\ topic = "ipv6" => input \in Seq(Ipv6Groups)
  /\ topic = "addrs" => input \in Seq(SysAddrs)

(* The groups that are added are such groups. *)
LEMMA GroupsGrow ==
  /\ OddGroups["ipv4"] \subseteq Ipv4Groups /\ OddGroups["ipv6"] \subseteq Ipv6Groups
  /\ \A d \in 0 .. 15 : <<d>> \in Ipv4Groups /\ <<d>> \in Ipv6Groups
<1>0. <<>> \in Seq(TextChars) /\ DOMAIN <<>> = {}
  OBVIOUS
<1>1. \A d \in 0 .. 15 : <<d>> \in Ipv4Groups /\ <<d>> \in Ipv6Groups
  BY DEF Ipv4Groups, Ipv6Groups, TextChars, Dot, Colon, Other
<1>2. OddGroups["ipv4"] = {<<>>, <<2, 5, 5>>, <<2, 5, 6>>, <<1, 0, 0, 0>>, <<1, 0, 1, 0>>, <<0, 0, 7>>, <<10>>, <<Other>>, <<Colon>>}
  BY DEF OddGroups
<1>3. OddGroups["ipv6"] = {<<>>, <<15, 15, 15, 15>>, <<0, 1, 2, 3, 4>>, <<Other>>, <<Dot>>}
  BY DEF OddGroups
<1>4. <<>> \in Ipv4Groups /\ <<>> \in Ipv6Groups
  BY <1>0 DEF Ipv4Groups, Ipv6Groups
<1>7. <<0, 1, 2, 3, 4>> \in Ipv6Groups
  BY DEF Ipv6Groups, TextChars, Dot, Colon, Other
<1>8. <<Other>> \in Ipv4Groups /\ <<Colon>> \in Ipv4Groups /\ <<Other>> \in Ipv6Groups /\ <<Dot>> \in Ipv6Groups
  BY DEF Ipv4Groups, Ipv6Groups, TextChars, Dot, Colon, Other
<1>9. OddGroups["ipv4"] \subseteq Ipv4Groups
  <2>1. <<2, 5, 5>> \in Ipv4Groups /\ <<2, 5, 6>> \in Ipv4Groups /\ <<0, 0, 7>> \in Ipv4Groups
    BY DEF Ipv4Groups, TextChars, Dot, Other
  <2>2. <<1, 0, 0, 0>> \in Ipv4Groups /\ <<1, 0, 1, 0>> \in Ipv4Groups /\ <<10>> \in Ipv4Groups
    BY DEF Ipv4Groups, TextChars, Dot, Other
  <2> QED BY <1>2, <1>4, <1>8, <2>1, <2>2
<1>10. OddGroups["ipv6"] \subseteq Ipv6Groups
  <2>1. <<15, 15, 15, 15>> \in Ipv6Groups
    BY DEF Ipv6Groups, TextChars, Dot, Colon, Other
  <2> QED BY <1>3, <1>4, <1>7, <1>8, <2>1
<1> QED BY <1>1, <1>9, <1>10

(* No dot is in the groups of an IPv4 text. *)
LEMMA FreeGroups ==
  ASSUME NEW gs \in Seq(Ipv4Groups)
  PROVE  gs \in Seq(Seq(TextChars)) /\ Free(gs, Dot)
<1>1. Len(gs) \in Nat /\ DOMAIN gs = 1 .. Len(gs) /\ \A i \in 1 .. Len(gs) : gs[i] \in Ipv4Groups
  OBVIOUS
<1>2. gs \in [1 .. Len(gs) -> Seq(TextChars)]
  <2>1. \A i \in 1 .. Len(gs) : gs[i] \in Seq(TextChars)
    BY <1>1 DEF Ipv4Groups
  <2>2. gs = [i \in 1 .. Len(gs) |-> gs[i]]
    OBVIOUS
  <2> QED BY <2>1, <2>2
<1>3. gs \in Seq(Seq(TextChars))
  BY <1>1, <1>2, FnIsSeq
<1>4. Free(gs, Dot)
  BY <1>1 DEF Free, Ipv4Groups
<1> QED BY <1>3, <1>4

(* The parser and the list of addresses are exact on every input, whatever the
   bounds (yo_addrparse, yo_addrcmp and yo_dns_getaddrinfo). *)
THEOREM Addresses == TSpec => []AddrExact
<1>1. TInit => AddrInv
  BY DEF TInit, AddrInv
<1>2. AddrInv /\ [TNext]_tvars => AddrInv'
  <2> SUFFICES ASSUME AddrInv, [TNext]_tvars PROVE AddrInv'
    OBVIOUS
  <2>1. CASE UNCHANGED tvars
    BY <2>1 DEF AddrInv, tvars
  <2>2. CASE GrowGroups
    <3>1. topic' = topic /\ topic \in {"ipv4", "ipv6"} /\ Len(input) < MaxGroups[topic] /\ MaxGroups[topic] \in 0 .. 15
      BY <2>2, GroupAssumption DEF GrowGroups
    <3>2. PICK g \in OddGroups[topic] \cup {<<Len(input) + 1>>} : input' = Append(input, g)
      BY <2>2 DEF GrowGroups
    <3>3. Len(input) \in Nat
      BY <3>1 DEF AddrInv
    <3>4. Len(input) + 1 \in 0 .. 15
      BY <3>1, <3>3
    <3>5. CASE topic = "ipv4"
      <4>1. g \in Ipv4Groups
        BY <3>2, <3>4, <3>5, GroupsGrow
      <4>2. input' \in Seq(Ipv4Groups)
        BY <3>2, <3>5, <4>1 DEF AddrInv
      <4> QED BY <3>1, <3>5, <4>2 DEF AddrInv
    <3>6. CASE topic = "ipv6"
      <4>1. g \in Ipv6Groups
        BY <3>2, <3>4, <3>6, GroupsGrow
      <4>2. input' \in Seq(Ipv6Groups)
        BY <3>2, <3>6, <4>1 DEF AddrInv
      <4> QED BY <3>1, <3>6, <4>2 DEF AddrInv
    <3> QED BY <3>1, <3>5, <3>6
  <2>3. CASE GrowArgs
    BY <2>3 DEF AddrInv, GrowArgs
  <2>4. CASE GrowAddrs
    <3>1. topic' = topic /\ topic = "addrs" /\ input \in Seq(SysAddrs)
      BY <2>4 DEF AddrInv, GrowAddrs
    <3>2. PICK a \in SysAddrs : input' = Append(input, a)
      BY <2>4 DEF GrowAddrs
    <3>3. input' \in Seq(SysAddrs)
      BY <3>1, <3>2
    <3> QED BY <3>1, <3>3 DEF AddrInv
  <2> QED BY <2>1, <2>2, <2>3, <2>4 DEF TNext
<1>3. AddrInv => AddrExact
  <2> SUFFICES ASSUME AddrInv PROVE AddrExact
    OBVIOUS
  <2>1. ASSUME topic = "ipv4", input # <<>> PROVE Ipv4Exact(input)
    <3>1. input \in Seq(Ipv4Groups)
      BY <2>1 DEF AddrInv
    <3>2. input \in Seq(Seq(TextChars)) /\ Free(input, Dot)
      BY <3>1, FreeGroups
    <3> QED BY <2>1, <3>2, Ipv4Texts
  <2>2. ASSUME topic = "ipv6", input # <<>> PROVE Ipv6Exact(input)
    <3>1. input \in Seq(Ipv6Groups)
      BY <2>2 DEF AddrInv
    <3>2. input \in Seq(Seq(TextChars)) /\ Free(input, Colon) /\ yo_parse_ipv4(Joined(input, Colon)) = NoAddr
      BY <2>2, <3>1, NotIpv4
    <3> QED BY <2>2, <3>2, Ipv6Texts
  <2>3. ASSUME topic = "addrs" PROVE AddrsOnce(input)
    <3>1. input \in Seq(SysAddrs)
      BY <2>3 DEF AddrInv
    <3> QED BY <3>1, AddressesOnce
  <2> QED BY <2>1, <2>2, <2>3 DEF AddrExact
<1> QED BY <1>1, <1>2, <1>3, PTL DEF TSpec

------------------------------------------------------------------------------
(* The parts beside the queue, together.                                    *)

(* A step of one part leaves the state of the others alone, so that whatever
   is proved of a part's own specification holds of the composition. *)
THEOREM PartsRun == Spec => SSpec /\ PSpec /\ TSpec /\ RInit /\ [][RNext]_rvars
<1>1. Init => SInit /\ PInit /\ TInit /\ RInit
  BY DEF Init, PartsInit
<1>2. [Next]_vars => [SNext]_svars /\ [PNext]_pvars /\ [TNext]_tvars /\ [RNext]_rvars
  <2>1. ResourcesNext => RNext /\ UNCHANGED svars /\ UNCHANGED pvars /\ UNCHANGED tvars
    BY Zenon DEF ResourcesNext
  <2>2. SignalsNext => SNext /\ UNCHANGED rvars /\ UNCHANGED pvars /\ UNCHANGED tvars
    BY Zenon DEF SignalsNext
  <2>3. PollTableNext => PNext /\ UNCHANGED rvars /\ UNCHANGED svars /\ UNCHANGED tvars
    BY Zenon DEF PollTableNext
  <2>4. TextNext => TNext /\ UNCHANGED rvars /\ UNCHANGED svars /\ UNCHANGED pvars
    BY Zenon DEF TextNext
  <2>5. UNCHANGED vars => UNCHANGED rvars /\ UNCHANGED svars /\ UNCHANGED pvars /\ UNCHANGED tvars
    BY Zenon DEF vars
  <2> QED BY <2>1, <2>2, <2>3, <2>4, <2>5, Zenon DEF Next
<1> QED BY <1>1, <1>2, PTL DEF Spec, SSpec, PSpec, TSpec

\* An activation under way has room to count.
RoomInv ==
  /\ \A s \in YoSigs : sbal[s] <= MaxOn
  /\ \A t \in App, s \in SigUsed : sarg[t] = <<"on", s>> => sbal[s] < MaxOn
  /\ spend \subseteq OsSigs /\ spwr \subseteq Workers

(* No activation has been asked for at the start. *)
LEMMA RoomInitial == SInit => RoomInv
<1> SUFFICES ASSUME SInit PROVE RoomInv
  OBVIOUS
<1>1. \A s \in YoSigs : sbal[s] <= MaxOn
  BY SigAssumption DEF SInit
<1>2. \A t \in App, s \in SigUsed : sarg[t] # <<"on", s>>
  <2>1. \A t \in App : sarg[t] = <<"none", NoSig>>
    BY DEF SInit, Threads, NoCall
  <2> QED BY <2>1
<1> QED BY <1>1, <1>2 DEF SInit, RoomInv

(* The guard of a call counts the activations it finds under way; with one
   application thread there are none. *)
LEMMA RoomNext ==
  ASSUME OneThread, SigInv, RoomInv, [SNext]_svars
  PROVE  RoomInv'
<1>1. /\ sbal \in [YoSigs -> Nat] /\ DOMAIN sarg = Threads /\ scount = sbal
      /\ App \subseteq Threads /\ SigUsed \subseteq YoSigs /\ RaiseSet \subseteq OsSigs
      /\ MaxOn \in Nat
  BY SigAssumption DEF SigInv, SigTypes, SignalsAgree, Threads
<1>2. /\ \A s \in YoSigs : sbal[s] <= MaxOn
      /\ \A t \in App, s \in SigUsed : sarg[t] = <<"on", s>> => sbal[s] < MaxOn
      /\ spend \subseteq OsSigs /\ spwr \subseteq Workers
  BY DEF RoomInv
<1>3. ASSUME sarg' = sarg, sbal' = sbal, spend' \subseteq OsSigs, spwr' \subseteq Workers
      PROVE  RoomInv'
  BY <1>2, <1>3 DEF RoomInv
<1>4. ASSUME NEW t \in Threads, NEW f \in {"on", "off", "wait"},
             NEW s, f = "wait" \/ s \in SigUsed, SigCall(t, f, s)
      PROVE  RoomInv'
  <2>1. /\ spc[t] = "idle" /\ (f \in {"on", "off"} => t \in App)
        /\ f = "on" => sbal[s] + Cardinality({u \in App : sarg[u] = <<"on", s>>}) < MaxOn
        /\ sarg' = [sarg EXCEPT ![t] = <<f, s>>]
        /\ sbal' = sbal /\ spend' = spend /\ spwr' = spwr
    BY <1>4 DEF SigCall
  <2>2. ASSUME f = "on" PROVE sbal[s] < MaxOn
    <3>1. {u \in App : sarg[u] = <<"on", s>>} = {}
      <4> SUFFICES ASSUME NEW u \in App, sarg[u] = <<"on", s>> PROVE FALSE
        OBVIOUS
      <4>1. u = t
        BY <2>1, <2>2 DEF OneThread
      <4>2. sarg[t] = NoCall
        BY <2>1 DEF SigInv, CallInv
      <4> QED BY <4>1, <4>2 DEF NoCall
    <3>2. s \in YoSigs /\ sbal[s] \in Nat
      BY <1>1, <1>4, <2>2
    <3>3. Cardinality({u \in App : sarg[u] = <<"on", s>>}) = 0
      BY <3>1, FS_EmptySet
    <3>4. sbal[s] + Cardinality({u \in App : sarg[u] = <<"on", s>>}) < MaxOn
      BY <2>1, <2>2
    <3> QED BY <3>2, <3>3, <3>4
  <2>3. ASSUME NEW u \in App, NEW z \in SigUsed, sarg'[u] = <<"on", z>>
        PROVE  sbal[z] < MaxOn
    <3>1. CASE u = t
      <4>1. f = "on" /\ s = z
        BY <1>1, <2>1, <2>3, <3>1
      <4> QED BY <2>2, <4>1
    <3>2. CASE u # t
      BY <1>1, <1>2, <2>1, <2>3, <3>2
    <3> QED BY <3>1, <3>2
  <2> QED BY <1>2, <2>1, <2>3 DEF RoomInv
<1>5. ASSUME NEW t \in Threads, NEW s \in SigUsed, SigOn(t, s) \/ SigOff(t, s)
      PROVE  RoomInv'
  <2>1. /\ spc[t] = "body" /\ sarg' = [sarg EXCEPT ![t] = NoCall]
        /\ spend' = spend /\ spwr' = spwr /\ s \in YoSigs
    BY <1>1, <1>5 DEF SigOn, SigOff, SigReturn
  <2>2. t \in App /\ (SigOff(t, s) => sbal[s] > 0)
    <3>1. spc[t] \notin Absent \cup {"idle"} /\ (sarg[t] = <<"on", s>> \/ sarg[t] = <<"off", s>>)
      BY <1>5, <2>1 DEF SigOn, SigOff, Absent
    <3>2. SigOff(t, s) => sarg[t] = <<"off", s>>
      BY DEF SigOff
    <3>3. CallInv
      BY DEF SigInv
    <3> QED BY <3>1, <3>2, <3>3 DEF CallInv
  <2>3. /\ sbal'[s] <= MaxOn /\ \A z \in YoSigs : z # s => sbal'[z] = sbal[z]
    <3>1. CASE SigOn(t, s)
      <4>1. sbal[s] < MaxOn /\ sbal' = [sbal EXCEPT ![s] = @ + 1]
        BY <1>2, <2>2, <3>1 DEF SigOn
      <4> QED BY <1>1, <2>1, <4>1
    <3>2. CASE SigOff(t, s)
      <4>1. sbal[s] > 0 /\ sbal' = [sbal EXCEPT ![s] = @ - 1]
        BY <2>2, <3>2 DEF SigOff
      <4> QED BY <1>1, <1>2, <2>1, <4>1
    <3> QED BY <1>5, <3>1, <3>2
  <2>4. \A u \in App, z \in SigUsed : sarg'[u] # <<"on", z>>
    <3> SUFFICES ASSUME NEW u \in App, NEW z \in SigUsed PROVE sarg'[u] # <<"on", z>>
      OBVIOUS
    <3>1. u = t
      BY <2>2 DEF OneThread
    <3> QED BY <1>1, <2>1, <3>1 DEF NoCall
  <2> QED BY <1>2, <2>1, <2>3, <2>4 DEF RoomInv
<1>6. ASSUME NEW t \in Threads, SigWaitReturn(t), sbal' = sbal, spend' \subseteq OsSigs
      PROVE  RoomInv'
  <2>1. spwr' = spwr \ {t} /\ sarg' = [sarg EXCEPT ![t] = NoCall]
    BY <1>6 DEF SigWaitReturn, SigReturn
  <2>2. \A u \in App, z \in SigUsed : sarg'[u] = <<"on", z>> => sarg[u] = <<"on", z>>
    BY <1>1, <2>1 DEF NoCall
  <2> QED BY <1>2, <1>6, <2>1, <2>2 DEF RoomInv
<1>7. ASSUME NEW t \in Threads,
             SigInitTest(t) \/ SigInitReset(t) \/ SigWaitBlock(t) \/ SigCancel(t)
      PROVE  RoomInv'
  <2>1. /\ sarg' = sarg /\ sbal' = sbal /\ spend' = spend
        /\ spwr' = spwr \/ (t \in Workers /\ spwr' = spwr \cup {t})
    BY <1>7 DEF SigInitTest, SigInitReset, SigWaitBlock, SigCancel
  <2> QED BY <1>2, <1>3, <2>1
<1>8. ASSUME NEW t \in Threads, SigWaitPwr(t) PROVE RoomInv'
  BY <1>2, <1>6, <1>8 DEF SigWaitPwr
<1>9. ASSUME NEW t \in Threads, NEW o \in RaiseSet, SigWaitTake(t, o) PROVE RoomInv'
  <2>1. spend' \subseteq OsSigs /\ sbal' = sbal
    BY <1>2, <1>9 DEF SigWaitTake
  <2>2. CASE ConvSignal(o) = NoSig
    <3>1. sarg' = sarg /\ spwr' = spwr
      BY <1>9, <2>2 DEF SigWaitTake
    <3> QED BY <1>2, <1>3, <2>1, <3>1
  <2>3. CASE ConvSignal(o) # NoSig
    BY <1>6, <1>9, <2>1, <2>3 DEF SigWaitTake
  <2> QED BY <2>2, <2>3
<1>10. ASSUME NEW t \in Threads, NEW o \in RaiseSet, SigDefault(t, o) PROVE RoomInv'
  BY <1>2, <1>3, <1>10 DEF SigDefault
<1>11. ASSUME NEW o \in RaiseSet, SigRaise(o) PROVE RoomInv'
  BY <1>1, <1>2, <1>3, <1>11 DEF SigRaise
<1>12. ASSUME NEW t \in Threads, NEW w \in Threads, SigCreate(t, w) \/ SigEntry(w) \/ SigExit(w)
       PROVE  RoomInv'
  <2>1. sarg' = sarg /\ sbal' = sbal /\ spend' = spend /\ spwr' = spwr
    BY <1>12 DEF SigCreate, SigEntry, SigExit
  <2> QED BY <1>2, <1>3, <2>1
<1>13. CASE UNCHANGED svars
  BY <1>2, <1>3, <1>13 DEF svars
<1> QED BY <1>4, <1>5, <1>7, <1>8, <1>9, <1>10, <1>11, <1>12, <1>13, Zenon DEF SNext

(* The types of the three parts: a call of the backend that is built, counters
   within the bound of the activations, and the array of the poll table. *)
THEOREM TypesKept ==
  ASSUME OneThread, NoInitRace
  PROVE  Spec => []TypeOK
<1>1. RInit => RTypeOK
  <2> SUFFICES ASSUME RInit PROVE RTypeOK
    OBVIOUS
  <2>1. platform \in {"unix", "win", "ansi"}
    BY DEF RInit, Ops
  <2>2. "fd_new" \in DOMAIN Common
    BY DEF Common
  <2>3. \A own : "fd_new" \in DOMAIN WithCommon(own)
    BY <2>2 DEF WithCommon
  <2>4. "fd_new" \in DOMAIN Ops[platform]
    BY <2>1, <2>3 DEF Ops
  <2> QED BY <2>4 DEF RInit, RTypeOK
<1>2. RTypeOK /\ [RNext]_rvars => RTypeOK'
  <2> SUFFICES ASSUME RTypeOK, [RNext]_rvars PROVE RTypeOK'
    OBVIOUS
  <2>1. ASSUME NEW n \in DOMAIN Ops[platform], NEW p \in Ops[platform][n].paths, RCall(n, p)
        PROVE  RTypeOK'
    BY <2>1 DEF RTypeOK, RCall
  <2>2. CASE RStep
    BY <2>2 DEF RTypeOK, RStep
  <2>3. CASE RFail
    BY <2>3 DEF RTypeOK, RFail
  <2>4. CASE RReturn
    BY <2>4 DEF RTypeOK, RReturn
  <2>5. CASE UNCHANGED rvars
    BY <2>5 DEF RTypeOK, rvars
  <2> QED BY <2>1, <2>2, <2>3, <2>4, <2>5 DEF RNext
<1>3. SInit => RoomInv
  BY RoomInitial
<1>4. SigInv /\ RoomInv /\ [SNext]_svars => RoomInv'
  BY RoomNext
<1>5. SigInv /\ RoomInv => STypeOK
  <2> SUFFICES ASSUME SigInv, RoomInv PROVE STypeOK
    OBVIOUS
  <2>1. sbal \in [YoSigs -> 0 .. MaxOn]
    BY SigAssumption DEF SigInv, SigTypes, RoomInv
  <2>2. /\ SigTypes /\ scount = sbal
        /\ spend \subseteq OsSigs /\ spwr \subseteq Workers
    BY DEF SigInv, SignalsAgree, RoomInv
  <2>3. scount \in [YoSigs -> 0 .. MaxOn]
    BY <2>1, <2>2
  <2>4. /\ sinit \in BOOLEAN /\ sset \subseteq OsSigs
        /\ smask \in [Threads -> SUBSET (OsSigs \cup {"SIGPWR"})] /\ spc \in [Threads -> SigPlaces]
    BY <2>2, Zenon DEF SigTypes
  <2>5. SigPlaces = Absent \cup {"idle", "init", "reset", "body", "wait"}
    BY DEF SigPlaces
  <2>6. spc \in [Threads -> Absent \cup {"idle", "init", "reset", "body", "wait"}]
    BY <2>4, <2>5
  <2> QED BY <2>1, <2>2, <2>3, <2>4, <2>6 DEF STypeOK
<1>6. TableInv => PTypeOK
  BY DEF TableInv, NodeInv, CellInv, CapInv, PTypeOK
<1>7. RTypeOK /\ STypeOK /\ PTypeOK => TypeOK
  BY DEF TypeOK
<1>8. SSpec => []SigInv
  BY SignalsInductive
<1> QED BY <1>1, <1>2, <1>3, <1>4, <1>5, <1>6, <1>7, <1>8, PartsRun, TableInductive, PTL DEF SSpec
===============================================================================
