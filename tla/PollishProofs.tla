---------------------------- MODULE PollishProofs ----------------------------
(***************************************************************************)
(* Proofs about Pollish for every set of handles, requests, descriptors    *)
(* and queues.                                                             *)
(*                                                                         *)
(* The lists and counters of the handles need nothing of the kernel's      *)
(* interest sets, so they are proved first, for any number of queues and   *)
(* for handles that share descriptors.  That the interest sets agree with  *)
(* them takes a program that never has requests of two handles or of two   *)
(* queues on one descriptor at the same time (Exclusive): the run of       *)
(* PollishSharedFd.cfg shows what happens otherwise.                       *)
(***************************************************************************)
EXTENDS Pollish, ListFacts, TLAPS

\* Handles are linked and counted as their requests say.
Linked(r) == st[r] \in {"armed", "failed"}

LinkInv ==
  /\ \A r \in Reqs : Linked(r) => fd[r] \in Handles
  /\ \A h \in Handles :
       /\ IsInjective(head[h])
       /\ \A r \in Reqs : r \in Range(head[h]) <=> Linked(r) /\ fd[r] = h
       /\ head[h] # <<>> => h \in open /\ OsFd[h] \in Pollable

\* The requests of handle h in direction d.
Waiting(h, d) == Range(head[h]) \cap {r \in Reqs : ToMask(kind[r]) = d}

CountInv ==
  \A h \in open : OsFd[h] \in Pollable =>
    \A d \in Dirs : ioq[h][d] = Cardinality(Waiting(h, d))

\* A completed request is on its queue's list once.
ReadyInv ==
  \A q \in Queues :
    /\ IsInjective(ready[q])
    /\ \A r \in Range(ready[q]) : st[r] = "ready" /\ QueueOf[r] = q

\* A handle that an interest set leads to is open, and is watched for no
\* direction that nobody waits in.
RegOk(e, o) ==
  /\ e.udata \in open /\ OsFd[e.udata] = o /\ o \in Pollable
  /\ e.mask # {} /\ e.mask \subseteq MaskOf(ioq[e.udata])

\* Whoever waits for descriptor o does so on handle h and queue q.
UsedBy(o, h, q) ==
  \A r \in Reqs : Linked(r) /\ OsFd[fd[r]] = o => fd[r] = h /\ QueueOf[r] = q

RegInv ==
  \A q \in Queues, o \in OsFds : reg[q][o] # NoReg =>
    RegOk(reg[q][o], o) /\ UsedBy(o, reg[q][o].udata, q)

\* At any moment, the requests on a descriptor are of one handle and one queue.
Exclusive == \A r \in Reqs : Linked(r) => UsedBy(OsFd[fd[r]], fd[r], QueueOf[r])

\* The simplest programs of that kind: two handles never wrap one descriptor,
\* and there is one queue.
OwnDescriptors == \A g, h \in Handles : OsFd[g] = OsFd[h] => g = h
OneQueueOnly == \A p, q \in Queues : p = q

ListInv == TypeOK /\ LinkInv /\ CountInv /\ ReadyInv

------------------------------------------------------------------------------
(* Lists.                                                                   *)

(* Taking a request out of a list leaves the others, each once. *)
LEMMA UnlinkFacts ==
  ASSUME NEW S, NEW s \in Seq(S), IsInjective(s), NEW r \in Range(s)
  PROVE  /\ Unlink(s, r) \in Seq(S)
         /\ IsInjective(Unlink(s, r))
         /\ Range(Unlink(s, r)) = Range(s) \ {r}
<1> DEFINE at == CHOOSE i \in DOMAIN s : s[i] = r
<1>1. /\ DOMAIN s = 1 .. Len(s) /\ Len(s) \in Nat
      /\ \A i, j \in 1 .. Len(s) : s[i] = s[j] => i = j
      /\ \A i \in 1 .. Len(s) : s[i] \in S
  BY DEF IsInjective
<1>2. at \in 1 .. Len(s) /\ s[at] = r
  <2>1. \E i \in DOMAIN s : s[i] = r
    BY DEF Range
  <2> QED BY <1>1, <2>1
<1> DEFINE u == [i \in 1 .. Len(s) - 1 |-> IF i < at THEN s[i] ELSE s[i + 1]]
<1>3. Unlink(s, r) = u
  BY DEF Unlink
<1> HIDE DEF at
<1>4. \A i \in 1 .. Len(s) - 1 : u[i] \in S
  BY <1>1, <1>2
<1>5. u \in Seq(S) /\ DOMAIN u = 1 .. Len(s) - 1
  <2>1. u \in [1 .. Len(s) - 1 -> S] /\ Len(s) - 1 \in Nat
    BY <1>1, <1>2, <1>4
  <2> QED BY <2>1
<1>6. \A i \in 1 .. Len(s) - 1 : u[i] = IF i < at THEN s[i] ELSE s[i + 1]
  OBVIOUS
<1> HIDE DEF u
<1>7. IsInjective(u)
  <2> SUFFICES ASSUME NEW a \in 1 .. Len(s) - 1, NEW b \in 1 .. Len(s) - 1, u[a] = u[b]
               PROVE  a = b
    BY <1>5 DEF IsInjective
  <2> QED BY <1>1, <1>2, <1>6
<1>8. Range(u) = Range(s) \ {r}
  <2>1. ASSUME NEW i \in 1 .. Len(s) - 1 PROVE u[i] \in Range(s) \ {r}
    <3>1. PICK j \in 1 .. Len(s) : u[i] = s[j] /\ j # at
      <4>1. CASE i < at
        BY <1>1, <1>2, <1>6, <4>1
      <4>2. CASE ~(i < at)
        <5>1. i + 1 \in 1 .. Len(s) /\ i + 1 # at
          BY <1>1, <1>2, <4>2
        <5> QED BY <1>6, <4>2, <5>1
      <4> QED BY <4>1, <4>2
    <3> QED BY <1>1, <1>2, <3>1 DEF Range
  <2>2. ASSUME NEW x \in Range(s) \ {r} PROVE x \in Range(u)
    <3>1. PICK j \in 1 .. Len(s) : x = s[j]
      BY <1>1 DEF Range
    <3>2. j # at
      BY <1>2, <3>1
    <3>3. CASE j < at
      <4>1. j \in DOMAIN u /\ u[j] = x
        BY <1>1, <1>2, <1>5, <1>6, <3>1, <3>3
      <4> QED BY <4>1 DEF Range
    <3>4. CASE j > at
      <4>1. j - 1 \in DOMAIN u /\ u[j - 1] = x
        BY <1>1, <1>2, <1>5, <1>6, <3>1, <3>4
      <4> QED BY <4>1 DEF Range
    <3> QED BY <1>1, <1>2, <3>2, <3>3, <3>4
  <2> QED BY <1>5, <2>1, <2>2 DEF Range
<1> QED BY <1>3, <1>5, <1>7, <1>8

(* What the walk of yoi_unix_onclose puts on the ready list of queue q: the
   requests of q, each once.  By induction on the length of the walk. *)
LEMMA EndedFacts ==
  ASSUME NEW s \in Seq(Reqs), IsInjective(s), NEW q \in Queues
  PROVE  /\ Ended(s, q) \in Seq(Reqs)
         /\ IsInjective(Ended(s, q))
         /\ Range(Ended(s, q)) = {r \in Range(s) : QueueOf[r] = q}
<1> DEFINE n == Len(s)
<1>1. /\ DOMAIN s = 1 .. n /\ n \in Nat
      /\ \A i \in 1 .. n : s[i] \in Reqs
      /\ \A i, j \in 1 .. n : s[i] = s[j] => i = j
  BY DEF IsInjective
<1> DEFINE Step(f, i) == IF QueueOf[s[i]] = q THEN <<s[i]>> \o f[i - 1] ELSE f[i - 1]
<1> DEFINE IsWalk(f, k) == f = [i \in 0 .. k |-> IF i = 0 THEN <<>> ELSE Step(f, i)]
<1>2. \A k \in 0 .. n : \E f : IsWalk(f, k)
  <2> DEFINE A == {k \in 0 .. n : \E f : IsWalk(f, k)}
  <2>1. 0 \in A
    <3> DEFINE g == [i \in 0 .. 0 |-> <<>>]
    <3>1. IsWalk(g, 0)
      OBVIOUS
    <3>2. 0 \in 0 .. n
      BY <1>1
    <3> HIDE DEF g, IsWalk, n
    <3> QED BY <3>1, <3>2
  <2>2. ASSUME NEW k \in 0 .. n - 1, k \in A PROVE k + 1 \in A
    <3>1. PICK f : IsWalk(f, k)
      BY <2>2
    <3> DEFINE g == [i \in 0 .. k + 1 |-> IF i = k + 1 THEN Step(f, k + 1) ELSE f[i]]
    <3>2. \A i \in 0 .. k : g[i] = f[i]
      BY <1>1
    <3>3. \A i \in 1 .. k + 1 : Step(g, i) = Step(f, i)
      <4> TAKE i \in 1 .. k + 1
      <4>1. i - 1 \in 0 .. k
        BY <1>1
      <4> QED BY <3>2, <4>1
    <3>4. \A i \in 0 .. k + 1 : g[i] = IF i = 0 THEN <<>> ELSE Step(g, i)
      <4> TAKE i \in 0 .. k + 1
      <4>1. CASE i = k + 1
        BY <1>1, <3>3, <4>1
      <4>2. CASE i \in 0 .. k
        <5>1. g[i] = f[i] /\ f[i] = IF i = 0 THEN <<>> ELSE Step(f, i)
          BY <3>1, <3>2, <4>2
        <5> QED BY <1>1, <3>3, <4>2, <5>1
      <4> QED BY <1>1, <4>1, <4>2
    <3>5. IsWalk(g, k + 1)
      BY <3>4
    <3>6. k + 1 \in 0 .. n
      BY <1>1
    <3> QED BY <3>5, <3>6
  <2> HIDE DEF A
  <2>3. \A k \in 0 .. n : k \in A
    BY <1>1, <2>1, <2>2, NatInduct
  <2> QED BY <2>3 DEF A
<1>3. PICK f : IsWalk(f, n) /\ Ended(s, q) = f[n]
  <2>1. \E f : f = [i \in 0 .. Len(s) |-> IF i = 0 THEN <<>>
              ELSE IF QueueOf[s[i]] = q THEN <<s[i]>> \o f[i - 1] ELSE f[i - 1]]
    <3>1. n \in 0 .. n
      BY <1>1
    <3>2. PICK f : IsWalk(f, n)
      BY <1>2, <3>1
    <3> QED BY <3>2, Zenon
  <2> QED BY <2>1, Zenon DEF Ended
<1>W. \A i \in 0 .. n : f[i] = IF i = 0 THEN <<>> ELSE Step(f, i)
  <2>1. f = [i \in 0 .. n |-> IF i = 0 THEN <<>> ELSE Step(f, i)]
    BY <1>3
  <2> DEFINE E(i) == IF i = 0 THEN <<>> ELSE Step(f, i)
  <2>2. f = [i \in 0 .. n |-> E(i)]
    BY <2>1
  <2> HIDE DEF E
  <2>3. \A i \in 0 .. n : f[i] = E(i)
    BY <2>2
  <2> QED BY <2>3 DEF E
<1> DEFINE Up(i) == {r \in Reqs : \E j \in 1 .. i : r = s[j] /\ QueueOf[r] = q}
<1> DEFINE A == {i \in 0 .. n : f[i] \in Seq(Reqs) /\ IsInjective(f[i]) /\ Range(f[i]) = Up(i)}
<1>4. 0 \in A
  <2>0. 0 \in 0 .. n
    BY <1>1
  <2>1. f[0] = <<>>
    <3> HIDE DEF Step, n
    <3> QED BY <1>W, <2>0
  <2>2. <<>> \in Seq(Reqs) /\ IsInjective(<<>>) /\ Range(<<>>) = {}
    BY DEF IsInjective, Range
  <2>3. Up(0) = {}
    OBVIOUS
  <2> HIDE DEF Up, n
  <2> QED BY <2>0, <2>1, <2>2, <2>3
<1>5. ASSUME NEW i \in 0 .. n - 1, i \in A PROVE i + 1 \in A
  <2>1. i + 1 \in 0 .. n /\ i + 1 \in 1 .. n /\ (i + 1) - 1 = i
    BY <1>1
  <2>2. f[i + 1] = Step(f, i + 1)
    <3>1. i + 1 # 0
      BY <2>1
    <3> QED BY <1>W, <2>1, <3>1
  <2>3. s[i + 1] \in Reqs /\ \A j \in 1 .. i : s[j] # s[i + 1]
    BY <1>1, <2>1
  <2>4. f[i] \in Seq(Reqs) /\ IsInjective(f[i]) /\ Range(f[i]) = Up(i)
    BY <1>5
  <2>5. CASE QueueOf[s[i + 1]] = q
    <3>1. f[i + 1] = <<s[i + 1]>> \o f[i]
      BY <2>1, <2>2, <2>5
    <3>2. s[i + 1] \notin Up(i) /\ Up(i + 1) = {s[i + 1]} \cup Up(i)
      BY <1>1, <2>3, <2>5
    <3> HIDE DEF Up
    <3>3. /\ f[i + 1] \in Seq(Reqs) /\ IsInjective(f[i + 1])
          /\ Range(f[i + 1]) = Up(i + 1)
      <4> DEFINE g == f[i]
      <4> DEFINE x == s[i + 1]
      <4>1. g \in Seq(Reqs) /\ IsInjective(g) /\ x \in Reqs /\ x \notin Range(g)
        BY <2>3, <2>4, <3>2
      <4> HIDE DEF g, x
      <4>2. /\ <<x>> \o g \in Seq(Reqs) /\ IsInjective(<<x>> \o g)
            /\ Range(<<x>> \o g) = {x} \cup Range(g)
        BY <4>1, PushFacts
      <4> QED BY <2>4, <3>1, <3>2, <4>2 DEF g, x
    <3> QED BY <2>1, <3>3
  <2>6. CASE QueueOf[s[i + 1]] # q
    <3>1. f[i + 1] = f[i]
      BY <2>1, <2>2, <2>6
    <3>2. Up(i + 1) = Up(i)
      BY <1>1, <2>3, <2>6
    <3> HIDE DEF Up
    <3> QED BY <2>1, <2>4, <3>1, <3>2
  <2> QED BY <2>5, <2>6
<1>6. n \in A
  <2> HIDE DEF A
  <2>1. \A i \in 0 .. n : i \in A
    BY <1>1, <1>4, <1>5, NatInduct
  <2> QED BY <1>1, <2>1
<1>7. Up(n) = {r \in Range(s) : QueueOf[r] = q}
  BY <1>1 DEF Range
<1> QED BY <1>3, <1>6, <1>7

------------------------------------------------------------------------------
(* Lists and counters.                                                      *)

(* What yoi_pl_impl_setmask leaves of the interest sets. *)
LEMMA SetMaskFacts ==
  ASSUME TypeOK, NEW q \in Queues, NEW h \in Handles, NEW mask \in SUBSET Dirs
  PROVE  LET new == SetMask(q, h, OsFd[h], mask) IN
         /\ new \in [Queues -> [OsFds -> Reg \cup {NoReg}]]
         /\ \A p \in Queues, o \in OsFds : new[p][o] =
              IF p = q /\ o = OsFd[h]
              THEN IF mask = {} THEN NoReg ELSE [udata |-> h, mask |-> mask]
              ELSE reg[p][o]
<1> DEFINE e == IF mask = {} THEN NoReg ELSE [udata |-> h, mask |-> mask]
<1>1. e \in Reg \cup {NoReg} /\ OsFd[h] \in OsFds
  BY ConstAssumption DEF Reg
<1>2. SetMask(q, h, OsFd[h], mask) = [reg EXCEPT ![q][OsFd[h]] = e]
  BY DEF SetMask
<1>3. reg \in [Queues -> [OsFds -> Reg \cup {NoReg}]]
  BY DEF TypeOK
<1> HIDE DEF e
<1>4. /\ [reg EXCEPT ![q][OsFd[h]] = e] \in [Queues -> [OsFds -> Reg \cup {NoReg}]]
      /\ \A p \in Queues, o \in OsFds : [reg EXCEPT ![q][OsFd[h]] = e][p][o] =
           IF p = q /\ o = OsFd[h] THEN e ELSE reg[p][o]
  BY <1>1, <1>3
<1> QED BY <1>2, <1>4 DEF e

(* The requests that wait on a handle are finitely many. *)
LEMMA WaitingFinite ==
  ASSUME TypeOK, LinkInv, NEW h \in Handles, NEW d \in Dirs
  PROVE  IsFiniteSet(Waiting(h, d)) /\ Cardinality(Waiting(h, d)) \in Nat
<1>1. head[h] \in Seq(Reqs) /\ IsInjective(head[h])
  BY DEF TypeOK, LinkInv
<1>2. IsFiniteSet(Range(head[h]))
  BY <1>1, CountFacts
<1>3. IsFiniteSet(Waiting(h, d))
  BY <1>2, FS_Subset DEF Waiting
<1> QED BY <1>3, FS_CardinalityType

(* Starting a request links it on its handle and counts it there, whether or
   not the descriptor could be watched. *)
LEMMA LinkStep ==
  ASSUME ListInv, NEW r \in Reqs, NEW h \in Handles, NEW k \in Kinds,
         Begin(r, h, k), OsFd[h] \in Pollable,
         head' = [head EXCEPT ![h] = <<r>> \o @],
         NEW x \in {"armed", "failed"}, st' = [st EXCEPT ![r] = x],
         UNCHANGED <<open, ready>>,
         reg' \in [Queues -> [OsFds -> Reg \cup {NoReg}]]
  PROVE  ListInv'
<1> USE DEF Dirs
<1>1. /\ head \in [Handles -> Seq(Reqs)] /\ ioq \in [Handles -> [Dirs -> Nat]]
      /\ st \in [Reqs -> {"user", "armed", "ready", "failed"}]
      /\ kind \in [Reqs -> Kinds] /\ fd \in [Reqs -> Handles \cup {NoHandle}]
      /\ open \subseteq Handles /\ ready \in [Queues -> Seq(Reqs)]
  BY DEF ListInv, TypeOK
<1>2. /\ st[r] = "user" /\ h \in open
      /\ kind' = [kind EXCEPT ![r] = k] /\ fd' = [fd EXCEPT ![r] = h]
      /\ ioq' = [ioq EXCEPT ![h][ToMask(k)] = @ + 1]
      /\ ToMask(k) \in Dirs
  BY DEF Begin, Callers, ToMask
<1>3. r \notin Range(head[h]) /\ IsInjective(head[h]) /\ head[h] \in Seq(Reqs)
  BY <1>1, <1>2 DEF ListInv, LinkInv, Linked
<1>4. /\ <<r>> \o head[h] \in Seq(Reqs)
      /\ Range(<<r>> \o head[h]) = {r} \cup Range(head[h])
      /\ IsInjective(<<r>> \o head[h])
  BY <1>3, PushFacts
<1>5. /\ head' \in [Handles -> Seq(Reqs)] /\ head'[h] = <<r>> \o head[h]
      /\ \A g \in Handles : g # h => head'[g] = head[g]
  BY <1>1, <1>4
<1>6. TypeOK'
  <2>1. ioq' \in [Handles -> [Dirs -> Nat]]
    BY <1>1, <1>2
  <2>2. st' \in [Reqs -> {"user", "armed", "ready", "failed"}]
    BY <1>1
  <2>3. kind' \in [Reqs -> Kinds] /\ fd' \in [Reqs -> Handles \cup {NoHandle}]
    BY <1>1, <1>2
  <2> QED BY <1>1, <1>5, <2>1, <2>2, <2>3 DEF TypeOK
<1>7. /\ st'[r] \in {"armed", "failed"} /\ fd'[r] = h
      /\ \A z \in Reqs : z # r => st'[z] = st[z] /\ fd'[z] = fd[z] /\ kind'[z] = kind[z]
      /\ kind'[r] = k
  BY <1>1, <1>2
<1>8. LinkInv'
  <2>1. \A z \in Reqs : Linked(z)' => fd'[z] \in Handles
    BY <1>7 DEF ListInv, LinkInv, Linked
  <2>2. ASSUME NEW g \in Handles
        PROVE  /\ IsInjective(head'[g])
               /\ \A z \in Reqs : z \in Range(head'[g]) <=> Linked(z)' /\ fd'[z] = g
               /\ head'[g] # <<>> => g \in open' /\ OsFd[g] \in Pollable
    <3>1. CASE g = h
      BY <1>2, <1>4, <1>5, <1>7, <3>1 DEF ListInv, LinkInv, Linked
    <3>2. CASE g # h
      BY <1>2, <1>5, <1>7, <3>2 DEF ListInv, LinkInv, Linked
    <3> QED BY <3>1, <3>2
  <2> QED BY <2>1, <2>2 DEF LinkInv
<1>9. CountInv'
  <2> SUFFICES ASSUME NEW g \in open, OsFd[g] \in Pollable, NEW d \in Dirs
               PROVE  ioq'[g][d] = Cardinality(Waiting(g, d)')
    BY DEF CountInv
  <2>1. g \in Handles /\ ioq[g][d] = Cardinality(Waiting(g, d))
    BY <1>1 DEF ListInv, CountInv
  <2>2. IsFiniteSet(Waiting(g, d)) /\ Cardinality(Waiting(g, d)) \in Nat
    BY <2>1, WaitingFinite DEF ListInv
  <2>3. r \notin Range(head[g]) /\ Range(head[g]) \subseteq Reqs
    <3>1. r \notin Range(head[g])
      BY <1>2, <2>1 DEF ListInv, LinkInv, Linked
    <3>2. head[g] \in Seq(Reqs)
      BY <1>1, <2>1
    <3>3. Range(head[g]) \subseteq Reqs
      BY <3>2 DEF Range
    <3> QED BY <3>1, <3>3
  <2>4. CASE g = h /\ d = ToMask(k)
    <3>1. Waiting(g, d)' = Waiting(g, d) \cup {r} /\ r \notin Waiting(g, d)
      BY <1>4, <1>5, <1>7, <2>3, <2>4 DEF Waiting
    <3>2. ioq'[g][d] = ioq[g][d] + 1
      BY <1>1, <1>2, <2>1, <2>4
    <3> QED BY <2>1, <2>2, <3>1, <3>2, FS_AddElement
  <2>5. CASE ~(g = h /\ d = ToMask(k))
    <3>1. Waiting(g, d)' = Waiting(g, d)
      BY <1>4, <1>5, <1>7, <2>1, <2>3, <2>5 DEF Waiting
    <3>2. ioq'[g][d] = ioq[g][d]
      BY <1>1, <1>2, <2>1, <2>5
    <3> QED BY <2>1, <3>1, <3>2
  <2> QED BY <2>4, <2>5
<1>10. ReadyInv'
  <2> SUFFICES ASSUME NEW q \in Queues
               PROVE  /\ IsInjective(ready[q])
                      /\ \A z \in Range(ready[q]) : st'[z] = "ready" /\ QueueOf[z] = q
    BY DEF ReadyInv
  <2>1. Range(ready[q]) \subseteq Reqs
    BY <1>1 DEF Range
  <2> QED BY <1>2, <1>7, <2>1 DEF ListInv, ReadyInv
<1> QED BY <1>6, <1>8, <1>9, <1>10 DEF ListInv

(* Stopping a linked request unlinks it and counts it down. *)
LEMMA StopStep ==
  ASSUME ListInv, NEW r \in Reqs, Linked(r), Stop(r),
         NEW x \in {"user", "ready"}, st' = [st EXCEPT ![r] = x],
         UNCHANGED <<open, kind, fd>>
  PROVE  /\ fd[r] \in open /\ OsFd[fd[r]] \in Pollable
         /\ reg' = SetMask(QueueOf[r], fd[r], OsFd[fd[r]], MaskOf(ioq'[fd[r]]))
         /\ ready' \in [Queues -> Seq(Reqs)] => TypeOK'
         /\ LinkInv' /\ CountInv'
         /\ \A g \in Handles : g # fd[r] => ioq'[g] = ioq[g]
<1> USE DEF Dirs
<1> DEFINE h == fd[r]
<1>1. /\ head \in [Handles -> Seq(Reqs)] /\ ioq \in [Handles -> [Dirs -> Nat]]
      /\ st \in [Reqs -> {"user", "armed", "ready", "failed"}]
      /\ kind \in [Reqs -> Kinds] /\ fd \in [Reqs -> Handles \cup {NoHandle}]
      /\ open \subseteq Handles
  BY DEF ListInv, TypeOK
<1>2. /\ ioq' = [ioq EXCEPT ![h][ToMask(kind[r])] = @ - 1]
      /\ head' = [head EXCEPT ![h] = Unlink(@, r)]
      /\ reg' = SetMask(QueueOf[r], h, OsFd[h], MaskOf(ioq'[h]))
      /\ ToMask(kind[r]) \in Dirs
  BY DEF Stop, ToMask
<1>3. /\ h \in Handles /\ r \in Range(head[h]) /\ IsInjective(head[h])
      /\ head[h] \in Seq(Reqs)
  BY <1>1 DEF ListInv, LinkInv
<1>4. h \in open /\ OsFd[h] \in Pollable
  <2>1. head[h] # <<>>
    BY <1>3 DEF Range
  <2> QED BY <1>3, <2>1 DEF ListInv, LinkInv
<1> HIDE DEF h
<1>5. /\ Unlink(head[h], r) \in Seq(Reqs) /\ IsInjective(Unlink(head[h], r))
      /\ Range(Unlink(head[h], r)) = Range(head[h]) \ {r}
  BY <1>3, UnlinkFacts
<1>6. /\ head' \in [Handles -> Seq(Reqs)] /\ head'[h] = Unlink(head[h], r)
      /\ \A g \in Handles : g # h => head'[g] = head[g]
  BY <1>1, <1>2, <1>3, <1>5
<1>7. /\ st'[r] \notin {"armed", "failed"} /\ st' \in [Reqs -> {"user", "armed", "ready", "failed"}]
      /\ \A z \in Reqs : z # r => st'[z] = st[z]
  BY <1>1
<1>8. LinkInv'
  <2>1. \A z \in Reqs : Linked(z)' => fd'[z] \in Handles
    BY <1>7 DEF ListInv, LinkInv, Linked
  <2>2. ASSUME NEW g \in Handles
        PROVE  /\ IsInjective(head'[g])
               /\ \A z \in Reqs : z \in Range(head'[g]) <=> Linked(z)' /\ fd'[z] = g
               /\ head'[g] # <<>> => g \in open' /\ OsFd[g] \in Pollable
    <3>1. CASE g = h
      BY <1>4, <1>5, <1>6, <1>7, <3>1 DEF ListInv, LinkInv, Linked
    <3>2. CASE g # h
      BY <1>6, <1>7, <3>2 DEF ListInv, LinkInv, Linked, h
    <3> QED BY <3>1, <3>2
  <2> QED BY <2>1, <2>2 DEF LinkInv
<1>9. ASSUME NEW g \in open, OsFd[g] \in Pollable, NEW d \in Dirs
      PROVE  ioq'[g][d] = Cardinality(Waiting(g, d)') /\ ioq'[g][d] \in Nat
  <2>1. g \in Handles /\ ioq[g][d] = Cardinality(Waiting(g, d))
    BY <1>1, <1>9 DEF ListInv, CountInv
  <2>2. IsFiniteSet(Waiting(g, d)) /\ Cardinality(Waiting(g, d)) \in Nat
    BY <2>1, WaitingFinite DEF ListInv
  <2>3. CASE g = h /\ d = ToMask(kind[r])
    <3>1. Waiting(g, d)' = Waiting(g, d) \ {r} /\ r \in Waiting(g, d)
      BY <1>3, <1>5, <1>6, <2>3 DEF Waiting
    <3>2. ioq'[g][d] = ioq[g][d] - 1
      BY <1>1, <1>2, <2>1, <2>3
    <3>3. /\ Cardinality(Waiting(g, d)') = Cardinality(Waiting(g, d)) - 1
          /\ Cardinality(Waiting(g, d)') \in Nat
      BY <2>2, <3>1, FS_RemoveElement, FS_CardinalityType
    <3> QED BY <2>1, <3>2, <3>3
  <2>4. CASE ~(g = h /\ d = ToMask(kind[r]))
    <3>1. Waiting(g, d)' = Waiting(g, d)
      BY <1>5, <1>6, <2>1, <2>4 DEF Waiting
    <3>2. ioq'[g][d] = ioq[g][d]
      BY <1>1, <1>2, <2>1, <2>4
    <3> QED BY <2>1, <2>2, <3>1, <3>2
  <2> QED BY <2>3, <2>4
<1>10. CountInv'
  BY <1>9 DEF CountInv
<1>11. ioq' \in [Handles -> [Dirs -> Nat]]
  <2>1. \A d \in Dirs : ioq'[h][d] \in Nat
    BY <1>4, <1>9
  <2>2. /\ DOMAIN ioq' = Handles /\ ioq' = [g \in Handles |-> ioq'[g]]
        /\ \A g \in Handles : g # h => ioq'[g] = ioq[g]
    BY <1>1, <1>2
  <2>3. ioq'[h] \in [Dirs -> Nat]
    <3>1. ioq'[h] = [ioq[h] EXCEPT ![ToMask(kind[r])] = @ - 1]
      BY <1>1, <1>2, <1>3
    <3>2. ioq[h] \in [Dirs -> Nat]
      BY <1>1, <1>3
    <3>3. ioq'[h] = [d \in Dirs |-> ioq'[h][d]]
      BY <3>1, <3>2
    <3> QED BY <2>1, <3>3
  <2>4. \A g \in Handles : ioq'[g] \in [Dirs -> Nat]
    BY <1>1, <2>2, <2>3
  <2> QED BY <2>2, <2>4
<1>12. reg' \in [Queues -> [OsFds -> Reg \cup {NoReg}]]
  <2>1. MaskOf(ioq'[h]) \in SUBSET Dirs /\ QueueOf[r] \in Queues
    BY ConstAssumption DEF MaskOf
  <2> QED BY <1>2, <1>3, <2>1, SetMaskFacts DEF ListInv
<1>13. ready' \in [Queues -> Seq(Reqs)] => TypeOK'
  BY <1>1, <1>6, <1>7, <1>11, <1>12 DEF TypeOK
<1>14. \A g \in Handles : g # h => ioq'[g] = ioq[g]
  BY <1>1, <1>2
<1> QED BY <1>2, <1>4, <1>8, <1>10, <1>13, <1>14 DEF h

(* _yoi_pl_get_req returns a request of the handle that the events serve, and
   gives up only when there is none. *)
LEMMA GetReqFacts ==
  ASSUME TypeOK, NEW h \in Handles, NEW evs
  PROVE  \/ /\ GetReq(h, evs) \in Range(head[h])
            /\ GetReq(h, evs) \in Reqs
            /\ ToMask(kind[GetReq(h, evs)]) \in evs
         \/ /\ GetReq(h, evs) = NoReq
            /\ \A r \in Range(head[h]) : ToMask(kind[r]) \notin evs
<1> DEFINE s == head[h]
<1> DEFINE fit == {i \in DOMAIN s : ToMask(kind[s[i]]) \in evs}
<1>1. s \in Seq(Reqs)
  BY DEF TypeOK
<1>2. DOMAIN s \subseteq Nat /\ \A i \in DOMAIN s : s[i] \in Reqs
  BY <1>1
<1>3. GetReq(h, evs) = IF fit = {} THEN NoReq
                       ELSE s[CHOOSE i \in fit : \A j \in fit : i <= j]
  BY DEF GetReq
<1>4. CASE fit = {}
  <2>1. \A i \in DOMAIN s : ToMask(kind[s[i]]) \notin evs
    BY <1>4
  <2> QED BY <1>3, <1>4, <2>1 DEF Range
<1>5. CASE fit # {}
  <2> DEFINE m == CHOOSE i \in fit : \A j \in fit : i <= j
  <2>1. fit \subseteq Nat
    BY <1>2
  <2>2. m \in fit
    <3> HIDE DEF fit
    <3>1. \E i \in fit : \A j \in fit : i <= j
      BY <1>5, <2>1, NatLeast
    <3> QED BY <3>1
  <2>3. GetReq(h, evs) = s[m]
    BY <1>3, <1>5
  <2> HIDE DEF m
  <2>4. m \in DOMAIN s /\ ToMask(kind[s[m]]) \in evs
    BY <2>2
  <2> QED BY <1>2, <2>3, <2>4 DEF Range
<1> QED BY <1>4, <1>5

(* yo_fd_new allocates a handle with nothing linked or counted. *)
LEMMA NewStep ==
  ASSUME ListInv, NEW h \in Handles, yo_fd_new(h)
  PROVE  ListInv'
<1> USE DEF Dirs
<1>1. /\ h \notin open /\ open' = open \cup {h}
      /\ head' = [head EXCEPT ![h] = <<>>]
      /\ ioq' = [ioq EXCEPT ![h] = [d \in Dirs |-> 0]]
      /\ reg' = reg /\ st' = st /\ kind' = kind /\ fd' = fd /\ ready' = ready
  BY DEF yo_fd_new
<1>2. /\ head \in [Handles -> Seq(Reqs)] /\ ioq \in [Handles -> [Dirs -> Nat]]
      /\ open \subseteq Handles
  BY DEF ListInv, TypeOK
<1>3. head[h] = <<>>
  BY <1>1 DEF ListInv, LinkInv
<1>4. head' = head
  BY <1>1, <1>2, <1>3
<1>5. TypeOK'
  <2>1. ioq' \in [Handles -> [Dirs -> Nat]]
    BY <1>1, <1>2
  <2> QED BY <1>1, <1>4, <2>1 DEF ListInv, TypeOK
<1>6. LinkInv'
  BY <1>1, <1>4 DEF ListInv, LinkInv, Linked
<1>7. CountInv'
  <2> SUFFICES ASSUME NEW g \in open', OsFd[g] \in Pollable, NEW d \in Dirs
               PROVE  ioq'[g][d] = Cardinality(Waiting(g, d)')
    BY DEF CountInv
  <2>1. Waiting(g, d)' = Waiting(g, d)
    BY <1>1, <1>4 DEF Waiting
  <2>2. CASE g = h
    <3>1. Waiting(g, d) = {}
      BY <1>3, <2>2 DEF Waiting, Range
    <3>2. ioq'[g][d] = 0
      BY <1>1, <1>2, <2>2
    <3> QED BY <2>1, <3>1, <3>2, FS_EmptySet
  <2>3. CASE g # h
    <3>1. g \in open /\ ioq'[g] = ioq[g]
      BY <1>1, <1>2, <2>3
    <3> QED BY <2>1, <3>1 DEF ListInv, CountInv
  <2> QED BY <2>2, <2>3
<1>8. ReadyInv'
  BY <1>1 DEF ListInv, ReadyInv
<1> QED BY <1>5, <1>6, <1>7, <1>8 DEF ListInv

(* yo_fd_close moves every request of the handle to its queue's list. *)
LEMMA CloseStep ==
  ASSUME ListInv, NEW h \in Handles, yo_fd_close(h)
  PROVE  ListInv'
<1> DEFINE mine == Range(head[h])
<1>1. /\ h \in open /\ open' = open \ {h}
      /\ reg' = [q \in Queues |-> [o \in OsFds |->
           IF o = OsFd[h] /\ (h \in Owned \/ \E r \in mine : QueueOf[r] = q)
           THEN NoReg ELSE reg[q][o]]]
      /\ st' = [r \in Reqs |-> IF r \in mine THEN "ready" ELSE st[r]]
      /\ ready' = [q \in Queues |-> Ended(head[h], q) \o ready[q]]
      /\ head' = [head EXCEPT ![h] = <<>>]
      /\ ioq' = ioq /\ kind' = kind /\ fd' = fd
  BY DEF yo_fd_close, Range
<1>2. /\ head \in [Handles -> Seq(Reqs)] /\ open \subseteq Handles
      /\ st \in [Reqs -> {"user", "armed", "ready", "failed"}]
      /\ ready \in [Queues -> Seq(Reqs)]
      /\ reg \in [Queues -> [OsFds -> Reg \cup {NoReg}]]
  BY DEF ListInv, TypeOK
<1>3. head[h] \in Seq(Reqs) /\ IsInjective(head[h])
  BY <1>2 DEF ListInv, LinkInv
<1>4. mine \subseteq Reqs /\ \A r \in Reqs : r \in mine <=> Linked(r) /\ fd[r] = h
  <2>1. mine \subseteq Reqs
    BY <1>3 DEF Range
  <2> QED BY <2>1 DEF ListInv, LinkInv
<1> HIDE DEF mine
<1>5. ASSUME NEW q \in Queues
      PROVE  /\ ready'[q] \in Seq(Reqs) /\ IsInjective(ready'[q])
             /\ \A r \in Range(ready'[q]) : st'[r] = "ready" /\ QueueOf[r] = q
  <2> DEFINE e == Ended(head[h], q)
  <2>1. /\ e \in Seq(Reqs) /\ IsInjective(e)
        /\ Range(e) = {r \in mine : QueueOf[r] = q}
    BY <1>3, EndedFacts DEF mine
  <2>2. /\ ready[q] \in Seq(Reqs) /\ IsInjective(ready[q])
        /\ \A r \in Range(ready[q]) : st[r] = "ready" /\ QueueOf[r] = q
    BY <1>2 DEF ListInv, ReadyInv
  <2>3. ready'[q] = e \o ready[q]
    BY <1>1
  <2> HIDE DEF e
  <2>4. Range(ready[q]) \subseteq Reqs
    BY <2>2 DEF Range
  <2>5. Range(e) \cap Range(ready[q]) = {}
    BY <1>4, <2>1, <2>2, <2>4 DEF Linked
  <2>6. /\ ready'[q] \in Seq(Reqs) /\ IsInjective(ready'[q])
        /\ Range(ready'[q]) = Range(e) \cup Range(ready[q])
    BY <2>1, <2>2, <2>3, <2>5, JoinFacts
  <2> QED BY <1>1, <1>4, <2>1, <2>2, <2>4, <2>6
<1>6. TypeOK'
  <2>1. reg' \in [Queues -> [OsFds -> Reg \cup {NoReg}]]
    BY <1>1, <1>2
  <2>2. st' \in [Reqs -> {"user", "armed", "ready", "failed"}]
    BY <1>1, <1>2
  <2>3. head' \in [Handles -> Seq(Reqs)]
    <3>1. <<>> \in Seq(Reqs)
      OBVIOUS
    <3> QED BY <1>1, <1>2, <3>1
  <2>4. ready' \in [Queues -> Seq(Reqs)]
    BY <1>1, <1>5
  <2> QED BY <1>1, <1>2, <2>1, <2>2, <2>3, <2>4 DEF ListInv, TypeOK
<1>7. /\ \A z \in Reqs : Linked(z)' <=> Linked(z) /\ fd[z] # h
      /\ \A g \in Handles : head'[g] = IF g = h THEN <<>> ELSE head[g]
  BY <1>1, <1>2, <1>4 DEF Linked
<1>8. LinkInv'
  <2>1. \A z \in Reqs : Linked(z)' => fd'[z] \in Handles
    BY <1>1, <1>7 DEF ListInv, LinkInv
  <2>2. ASSUME NEW g \in Handles
        PROVE  /\ IsInjective(head'[g])
               /\ \A z \in Reqs : z \in Range(head'[g]) <=> Linked(z)' /\ fd'[z] = g
               /\ head'[g] # <<>> => g \in open' /\ OsFd[g] \in Pollable
    <3>1. CASE g = h
      <4>1. head'[g] = <<>> /\ IsInjective(<<>>) /\ Range(<<>>) = {}
        BY <1>7, <3>1 DEF IsInjective, Range
      <4> QED BY <1>1, <1>7, <3>1, <4>1
    <3>2. CASE g # h
      BY <1>1, <1>7, <3>2 DEF ListInv, LinkInv
    <3> QED BY <3>1, <3>2
  <2> QED BY <2>1, <2>2 DEF LinkInv
<1>9. CountInv'
  <2> SUFFICES ASSUME NEW g \in open', OsFd[g] \in Pollable, NEW d \in Dirs
               PROVE  ioq'[g][d] = Cardinality(Waiting(g, d)')
    BY DEF CountInv
  <2>1. g \in open /\ g \in Handles /\ g # h
    BY <1>1, <1>2
  <2>2. Waiting(g, d)' = Waiting(g, d)
    BY <1>1, <1>7, <2>1 DEF Waiting
  <2> QED BY <1>1, <2>1, <2>2 DEF ListInv, CountInv
<1>10. ReadyInv'
  BY <1>5 DEF ReadyInv
<1> QED BY <1>6, <1>8, <1>9, <1>10 DEF ListInv

(* A request that ends is linked in front of its queue's ready list. *)
LEMMA PushStep ==
  ASSUME TypeOK, ReadyInv, NEW r \in Reqs, st[r] # "ready",
         ready' = Push(QueueOf[r], r), st' = [st EXCEPT ![r] = "ready"]
  PROVE  ready' \in [Queues -> Seq(Reqs)] /\ ReadyInv'
<1> DEFINE q == QueueOf[r]
<1>1. /\ q \in Queues /\ ready \in [Queues -> Seq(Reqs)]
      /\ st \in [Reqs -> {"user", "armed", "ready", "failed"}]
  BY ConstAssumption DEF TypeOK
<1>2. ready' = [ready EXCEPT ![q] = <<r>> \o @]
  BY DEF Push
<1>3. \A p \in Queues : Range(ready[p]) \subseteq Reqs
  BY <1>1 DEF Range
<1>4. r \notin Range(ready[q]) /\ IsInjective(ready[q]) /\ ready[q] \in Seq(Reqs)
  BY <1>1 DEF ReadyInv
<1>5. /\ <<r>> \o ready[q] \in Seq(Reqs) /\ IsInjective(<<r>> \o ready[q])
      /\ Range(<<r>> \o ready[q]) = {r} \cup Range(ready[q])
  BY <1>4, PushFacts
<1>6. /\ ready' \in [Queues -> Seq(Reqs)] /\ ready'[q] = <<r>> \o ready[q]
      /\ \A p \in Queues : p # q => ready'[p] = ready[p]
  BY <1>1, <1>2, <1>5
<1>0. st'[r] = "ready" /\ \A z \in Reqs : z # r => st'[z] = st[z]
  BY <1>1
<1>7. ASSUME NEW p \in Queues
      PROVE  /\ IsInjective(ready'[p])
             /\ \A z \in Range(ready'[p]) : st'[z] = "ready" /\ QueueOf[z] = p
  <2>0. /\ IsInjective(ready[p])
        /\ \A z \in Range(ready[p]) : z \in Reqs /\ st'[z] = "ready" /\ QueueOf[z] = p
    BY <1>3, <1>0 DEF ReadyInv
  <2>1. CASE p = q
    BY <1>5, <1>6, <1>0, <2>0, <2>1
  <2>2. CASE p # q
    BY <1>6, <2>0, <2>2
  <2> QED BY <2>1, <2>2
<1> QED BY <1>6, <1>7 DEF ReadyInv

(* A request that epoll refuses to watch is done at once: nothing is linked. *)
LEMMA SyncStep ==
  ASSUME ListInv, NEW r \in Reqs, NEW h \in Handles, NEW k \in Kinds, StartSync(r, h, k)
  PROVE  ListInv'
<1> USE DEF Dirs
<1>1. /\ st[r] = "user" /\ h \in open /\ OsFd[h] \notin Pollable
      /\ kind' = [kind EXCEPT ![r] = k] /\ fd' = [fd EXCEPT ![r] = h]
      /\ ioq' = [ioq EXCEPT ![h][ToMask(k)] = @ + 1] /\ ToMask(k) \in Dirs
      /\ ready' = Push(QueueOf[r], r) /\ st' = [st EXCEPT ![r] = "ready"]
      /\ open' = open /\ head' = head /\ reg' = reg
  BY DEF StartSync, Begin, Callers, ToMask
<1>2. /\ head \in [Handles -> Seq(Reqs)] /\ ioq \in [Handles -> [Dirs -> Nat]]
      /\ st \in [Reqs -> {"user", "armed", "ready", "failed"}]
      /\ kind \in [Reqs -> Kinds] /\ fd \in [Reqs -> Handles \cup {NoHandle}]
      /\ open \subseteq Handles
  BY DEF ListInv, TypeOK
<1>3. ready' \in [Queues -> Seq(Reqs)] /\ ReadyInv'
  <2>1. TypeOK /\ ReadyInv /\ st[r] # "ready"
    BY <1>1 DEF ListInv
  <2> QED BY <1>1, <2>1, PushStep
<1>4. TypeOK'
  <2>1. ioq' \in [Handles -> [Dirs -> Nat]]
    BY <1>1, <1>2
  <2>2. st' \in [Reqs -> {"user", "armed", "ready", "failed"}]
    BY <1>1, <1>2
  <2>3. kind' \in [Reqs -> Kinds] /\ fd' \in [Reqs -> Handles \cup {NoHandle}]
    BY <1>1, <1>2
  <2> QED BY <1>1, <1>3, <2>1, <2>2, <2>3 DEF ListInv, TypeOK
<1>5. /\ ~Linked(r) /\ ~Linked(r)'
      /\ \A z \in Reqs : z # r => st'[z] = st[z] /\ fd'[z] = fd[z] /\ kind'[z] = kind[z]
  BY <1>1, <1>2 DEF Linked
<1>6. LinkInv'
  BY <1>1, <1>5 DEF ListInv, LinkInv, Linked
<1>7. CountInv'
  <2> SUFFICES ASSUME NEW g \in open, OsFd[g] \in Pollable, NEW d \in Dirs
               PROVE  ioq'[g][d] = Cardinality(Waiting(g, d)')
    BY <1>1 DEF CountInv
  <2>1. g \in Handles /\ g # h
    BY <1>1, <1>2
  <2>2. r \notin Range(head[g])
    BY <1>5, <2>1 DEF ListInv, LinkInv
  <2>3. Waiting(g, d)' = Waiting(g, d)
    BY <1>1, <1>5, <2>2 DEF Waiting
  <2>4. ioq'[g] = ioq[g]
    BY <1>1, <1>2, <2>1
  <2> QED BY <2>3, <2>4 DEF ListInv, CountInv
<1> QED BY <1>3, <1>4, <1>6, <1>7 DEF ListInv

(* Returning a finished request takes it off its queue's ready list. *)
LEMMA PopStep ==
  ASSUME ListInv, NEW q \in Queues, PollPop(q)
  PROVE  ListInv'
<1> DEFINE r == Head(ready[q])
<1>1. /\ ready[q] # <<>> /\ ready' = [ready EXCEPT ![q] = Tail(@)]
      /\ st' = [st EXCEPT ![r] = "user"]
      /\ open' = open /\ head' = head /\ ioq' = ioq /\ reg' = reg
      /\ kind' = kind /\ fd' = fd
  BY DEF PollPop
<1>2. /\ ready \in [Queues -> Seq(Reqs)]
      /\ st \in [Reqs -> {"user", "armed", "ready", "failed"}]
  BY DEF ListInv, TypeOK
<1>3. ready[q] \in Seq(Reqs) /\ IsInjective(ready[q])
  BY <1>2 DEF ListInv, ReadyInv
<1>4. /\ r \in Reqs /\ r \in Range(ready[q]) /\ Tail(ready[q]) \in Seq(Reqs)
      /\ Range(Tail(ready[q])) = Range(ready[q]) \ {r} /\ IsInjective(Tail(ready[q]))
  BY <1>1, <1>3, PopFacts
<1> HIDE DEF r
<1>5. /\ ready' \in [Queues -> Seq(Reqs)] /\ ready'[q] = Tail(ready[q])
      /\ \A p \in Queues : p # q => ready'[p] = ready[p]
  BY <1>1, <1>2, <1>4
<1>6. \A p \in Queues : Range(ready[p]) \subseteq Reqs
  BY <1>2 DEF Range
<1>7. st[r] = "ready" /\ QueueOf[r] = q
  BY <1>4 DEF ListInv, ReadyInv
<1>8. st'[r] = "user" /\ \A z \in Reqs : z # r => st'[z] = st[z]
  BY <1>1, <1>2, <1>4
<1>9. TypeOK'
  <2>1. st' \in [Reqs -> {"user", "armed", "ready", "failed"}]
    BY <1>1, <1>2
  <2> QED BY <1>1, <1>5, <2>1 DEF ListInv, TypeOK
<1>10. \A z \in Reqs : Linked(z)' <=> Linked(z)
  BY <1>7, <1>8 DEF Linked
<1>11. LinkInv'
  BY <1>1, <1>10 DEF ListInv, LinkInv
<1>12. CountInv'
  BY <1>1 DEF ListInv, CountInv, Waiting
<1>13. ReadyInv'
  <2> SUFFICES ASSUME NEW p \in Queues
               PROVE  /\ IsInjective(ready'[p])
                      /\ \A z \in Range(ready'[p]) : st'[z] = "ready" /\ QueueOf[z] = p
    BY DEF ReadyInv
  <2>1. CASE p = q
    BY <1>4, <1>5, <1>6, <1>8, <2>1 DEF ListInv, ReadyInv
  <2>2. CASE p # q
    <3>1. /\ IsInjective(ready[p])
          /\ \A z \in Range(ready[p]) : st[z] = "ready" /\ QueueOf[z] = p
      BY DEF ListInv, ReadyInv
    <3>2. \A z \in Range(ready[p]) : z \in Reqs /\ z # r
      BY <1>6, <1>7, <2>2, <3>1
    <3> QED BY <1>5, <1>8, <2>2, <3>1, <3>2
  <2> QED BY <2>1, <2>2
<1> QED BY <1>9, <1>11, <1>12, <1>13 DEF ListInv

(* Cancelling an armed request. *)
LEMMA CancelStep ==
  ASSUME ListInv, NEW r \in Reqs, PlReqCancel(r)
  PROVE  ListInv'
<1>1. /\ Linked(r) /\ Stop(r) /\ st[r] # "ready" /\ ready' = Push(QueueOf[r], r)
      /\ st' = [st EXCEPT ![r] = "ready"] /\ UNCHANGED <<open, kind, fd>>
  BY DEF PlReqCancel, Linked
<1>2. ready' \in [Queues -> Seq(Reqs)] /\ ReadyInv'
  BY <1>1, PushStep DEF ListInv
<1> QED BY <1>1, <1>2, StopStep DEF ListInv

(* An event on a watched descriptor. *)
LEMMA EventStep ==
  ASSUME ListInv, NEW q \in Queues, NEW o \in OsFds, NEW evs \in SUBSET Dirs,
         PollEvent(q, o, evs)
  PROVE  ListInv'
<1> DEFINE h == reg[q][o].udata
<1> DEFINE r == GetReq(h, evs)
<1>1. /\ h \in open /\ r # NoReq /\ Stop(r) /\ st' = [st EXCEPT ![r] = "user"]
      /\ UNCHANGED <<open, kind, fd>> /\ ready' = ready
  BY DEF PollEvent
<1>2. h \in Handles
  BY <1>1 DEF ListInv, TypeOK
<1>3. r \in Reqs /\ r \in Range(head[h])
  BY <1>1, <1>2, GetReqFacts DEF ListInv
<1>4. Linked(r)
  BY <1>2, <1>3 DEF ListInv, LinkInv
<1> HIDE DEF h, r
<1>5. ready \in [Queues -> Seq(Reqs)] /\ st \in [Reqs -> {"user", "armed", "ready", "failed"}]
  BY DEF ListInv, TypeOK
<1>6. ReadyInv'
  <2>1. \A p \in Queues : Range(ready[p]) \subseteq Reqs
    BY <1>5 DEF Range
  <2>2. st[r] # "ready" /\ \A z \in Reqs : z # r => st'[z] = st[z]
    BY <1>1, <1>4, <1>5 DEF Linked
  <2> QED BY <1>1, <2>1, <2>2 DEF ListInv, ReadyInv
<1>7. TypeOK' /\ LinkInv' /\ CountInv'
  BY <1>1, <1>3, <1>4, <1>5, StopStep
<1> QED BY <1>6, <1>7 DEF ListInv

(* At the start nothing is open. *)
LEMMA ListInit == Init => ListInv
<1> SUFFICES ASSUME Init PROVE ListInv
  OBVIOUS
<1> USE DEF Init
<1>1. <<>> \in Seq(Reqs) /\ IsInjective(<<>>) /\ Range(<<>>) = {}
  BY DEF IsInjective, Range
<1>2. TypeOK
  <2>1. \A r \in Reqs : kind[r] \in Kinds
    BY ConstAssumption
  <2>2. kind \in [Reqs -> Kinds]
    BY <2>1
  <2>3. st \in [Reqs -> {"user", "armed", "ready", "failed"}]
    OBVIOUS
  <2>4. ioq \in [Handles -> [Dirs -> Nat]]
    BY DEF Dirs
  <2>5. head \in [Handles -> Seq(Reqs)] /\ ready \in [Queues -> Seq(Reqs)]
    BY <1>1
  <2>6. reg \in [Queues -> [OsFds -> Reg \cup {NoReg}]]
    OBVIOUS
  <2>7. fd \in [Reqs -> Handles \cup {NoHandle}]
    OBVIOUS
  <2>8. open \subseteq Handles
    OBVIOUS
  <2> HIDE DEF Init
  <2> QED BY <2>2, <2>3, <2>4, <2>5, <2>6, <2>7, <2>8 DEF TypeOK
<1>3. \A r \in Reqs : ~Linked(r)
  BY DEF Linked
<1>4. LinkInv
  BY <1>1, <1>3 DEF LinkInv
<1>5. CountInv
  BY DEF CountInv
<1>6. ReadyInv
  BY <1>1 DEF ReadyInv
<1> QED BY <1>2, <1>4, <1>5, <1>6 DEF ListInv

LEMMA ListNext == ListInv /\ [Next]_vars => ListInv'
<1> SUFFICES ASSUME ListInv, [Next]_vars PROVE ListInv'
  OBVIOUS
<1>1. ASSUME NEW h \in Handles, yo_fd_new(h) PROVE ListInv'
  BY <1>1, NewStep
<1>2. ASSUME NEW h \in Handles, yo_fd_close(h) PROVE ListInv'
  BY <1>2, CloseStep
<1>3. ASSUME NEW r \in Reqs, NEW h \in Handles, NEW k \in Kinds, StartOk(r, h, k)
      PROVE  ListInv'
  <2>1. /\ Begin(r, h, k) /\ OsFd[h] \in Pollable
        /\ head' = [head EXCEPT ![h] = <<r>> \o @]
        /\ st' = [st EXCEPT ![r] = "armed"] /\ UNCHANGED <<open, ready>>
        /\ reg' = SetMask(QueueOf[r], h, OsFd[h], MaskOf(ioq'[h]))
    BY <1>3 DEF StartOk
  <2>2. MaskOf(ioq'[h]) \in SUBSET Dirs /\ QueueOf[r] \in Queues
    BY ConstAssumption DEF MaskOf
  <2>3. reg' \in [Queues -> [OsFds -> Reg \cup {NoReg}]]
    BY <2>1, <2>2, SetMaskFacts DEF ListInv
  <2> QED BY <2>1, <2>3, LinkStep
<1>4. ASSUME NEW r \in Reqs, NEW h \in Handles, NEW k \in Kinds, StartSync(r, h, k)
      PROVE  ListInv'
  BY <1>4, SyncStep
<1>5. ASSUME NEW r \in Reqs, NEW h \in Handles, NEW k \in Kinds, StartFail(r, h, k)
      PROVE  ListInv'
  <2>1. /\ Begin(r, h, k) /\ OsFd[h] \in Pollable
        /\ head' = [head EXCEPT ![h] = <<r>> \o @]
        /\ st' = [st EXCEPT ![r] = "failed"] /\ UNCHANGED <<open, ready>>
        /\ reg' = reg
    BY <1>5 DEF StartFail
  <2>2. reg' \in [Queues -> [OsFds -> Reg \cup {NoReg}]]
    BY <2>1 DEF ListInv, TypeOK
  <2> QED BY <2>1, <2>2, LinkStep
<1>6. ASSUME NEW r \in Reqs, PlReqCancel(r) PROVE ListInv'
  BY <1>6, CancelStep
<1>7. ASSUME NEW q \in Queues, PollPop(q) PROVE ListInv'
  BY <1>7, PopStep
<1>8. ASSUME NEW q \in Queues, NEW o \in OsFds, NEW evs \in SUBSET Dirs,
             PollEvent(q, o, evs)
      PROVE  ListInv'
  BY <1>8, EventStep
<1>9. CASE UNCHANGED vars
  <2> USE <1>9 DEF vars
  <2>1. TypeOK'
    BY DEF ListInv, TypeOK
  <2>2. LinkInv'
    BY DEF ListInv, LinkInv, Linked
  <2>3. CountInv'
    BY DEF ListInv, CountInv, Waiting
  <2>4. ReadyInv'
    BY DEF ListInv, ReadyInv
  <2> QED BY <2>1, <2>2, <2>3, <2>4 DEF ListInv
<1> QED BY <1>1, <1>2, <1>3, <1>4, <1>5, <1>6, <1>7, <1>8, <1>9 DEF Next

(* The lists and counters of every handle stay in step with the requests
   (pollish.c): an inductive invariant for any queues, any descriptors shared
   or not, and any failures of epoll_ctl. *)
THEOREM ListInductive == Spec => []ListInv
BY ListInit, ListNext, PTL DEF Spec

(* Type correctness: in particular read_n and write_n, which are unsigned,
   never go below zero (_yoi_pl_req_stop). *)
THEOREM PollishTypeCorrect == Spec => []TypeOK
<1>1. ListInv => TypeOK
  BY DEF ListInv
<1> QED BY <1>1, ListInductive, PTL

(* read_n and write_n count the linked requests of a watched handle, and a
   request is linked exactly where its own record says, whatever starts,
   failed starts, cancellations, polls and closes came before. *)
THEOREM CountersMatch == Spec => []CountsMatch
<1>1. ASSUME ListInv PROVE CountsMatch
  <2>1. ASSUME NEW h \in Handles
        PROVE  /\ head[h] \in Seq(Reqs) /\ IsInjective(head[h])
               /\ Members(h) = Range(head[h]) /\ Range(head[h]) \subseteq Reqs
    BY <1>1 DEF ListInv, TypeOK, LinkInv, Members, Range
  <2>2. ASSUME NEW h \in open, OsFd[h] \in Pollable, NEW d \in Dirs
        PROVE  ioq[h][d] = Cardinality({i \in DOMAIN head[h] : ToMask(kind[head[h][i]]) = d})
    <3> DEFINE A == {r \in Reqs : ToMask(kind[r]) = d}
    <3>1. h \in Handles
      BY <1>1 DEF ListInv, TypeOK
    <3>2. Cardinality({i \in DOMAIN head[h] : head[h][i] \in A})
            = Cardinality(Range(head[h]) \cap A)
      <4> HIDE DEF A
      <4> QED BY <2>1, <3>1, CountFacts
    <3>3. {i \in DOMAIN head[h] : head[h][i] \in A}
            = {i \in DOMAIN head[h] : ToMask(kind[head[h][i]]) = d}
      BY <2>1, <3>1
    <3> QED BY <1>1, <2>2, <3>2, <3>3 DEF ListInv, CountInv, Waiting
  <2>3. ASSUME NEW h \in Handles
        PROVE  /\ Members(h) = {r \in Reqs : st[r] \in {"armed", "failed"} /\ fd[r] = h}
               /\ Len(head[h]) = Cardinality(Members(h))
    <3>1. Members(h) = {r \in Reqs : st[r] \in {"armed", "failed"} /\ fd[r] = h}
      BY <1>1, <2>1 DEF ListInv, LinkInv, Linked
    <3>2. Len(head[h]) = Cardinality(Members(h))
      BY <2>1, CountFacts
    <3> QED BY <3>1, <3>2
  <2> QED BY <2>2, <2>3 DEF CountsMatch
<1> QED BY <1>1, ListInductive, PTL

------------------------------------------------------------------------------
(* The interest sets.                                                       *)

WatchInv == ListInv /\ RegInv /\ ArmedWatched

(* The mask of the counters is the directions somebody waits in. *)
LEMMA MaskFacts ==
  ASSUME ListInv, NEW h \in open, OsFd[h] \in Pollable
  PROVE  /\ MaskOf(ioq[h]) \subseteq Dirs
         /\ \A d \in Dirs : d \in MaskOf(ioq[h]) <=> \E r \in Range(head[h]) : ToMask(kind[r]) = d
<1>1. h \in Handles /\ head[h] \in Seq(Reqs)
  BY DEF ListInv, TypeOK
<1>2. Range(head[h]) \subseteq Reqs
  BY <1>1 DEF Range
<1>3. ASSUME NEW d \in Dirs
      PROVE  d \in MaskOf(ioq[h]) <=> \E r \in Range(head[h]) : ToMask(kind[r]) = d
  <2>1. IsFiniteSet(Waiting(h, d)) /\ ioq[h][d] = Cardinality(Waiting(h, d))
    BY <1>1, <1>3, WaitingFinite DEF ListInv, CountInv
  <2>2. ioq[h][d] # 0 <=> Waiting(h, d) # {}
    BY <2>1, FS_EmptySet
  <2> QED BY <1>2, <2>2 DEF MaskOf, Waiting
<1> QED BY <1>3 DEF MaskOf

MaskInv ==
  \A h \in open : OsFd[h] \in Pollable =>
    \A d \in Dirs : d \in MaskOf(ioq[h]) <=> \E r \in Range(head[h]) : ToMask(kind[r]) = d

LEMMA MaskFactsNext == ListInv' => MaskInv'
<1>1. ListInv => MaskInv
  BY MaskFacts DEF MaskInv
<1> QED BY <1>1, PTL

(* A registration has somebody who waits behind it. *)
LEMMA RegHasUser ==
  ASSUME ListInv, NEW o, NEW e, RegOk(e, o)
  PROVE  \E w \in Reqs : Linked(w) /\ fd[w] = e.udata /\ OsFd[fd[w]] = o
<1> DEFINE h == e.udata
<1>1. /\ h \in open /\ h \in Handles /\ OsFd[h] = o /\ OsFd[h] \in Pollable
      /\ \E d \in Dirs : d \in MaskOf(ioq[h])
  BY DEF RegOk, ListInv, TypeOK, MaskOf
<1> HIDE DEF h
<1>2. PICK w \in Range(head[h]) : TRUE
  BY <1>1, MaskFacts
<1>3. w \in Reqs
  BY <1>1, <1>2 DEF ListInv, TypeOK, Range
<1>4. Linked(w) /\ fd[w] = h
  BY <1>1, <1>2, <1>3 DEF ListInv, LinkInv
<1> QED BY <1>1, <1>3, <1>4 DEF h

(* A step that recomputes the mask of one handle from its new counters. *)
LEMMA MaskStep ==
  ASSUME WatchInv, ListInv',
         NEW q \in Queues, NEW h \in open, OsFd[h] \in Pollable,
         reg' = SetMask(q, h, OsFd[h], MaskOf(ioq'[h])),
         \A g \in Handles : g # h => ioq'[g] = ioq[g],
         open' = open,
         \A z \in Reqs : Linked(z)' /\ fd'[z] # h =>
           st'[z] = st[z] /\ fd'[z] = fd[z] /\ kind'[z] = kind[z],
         UsedBy(OsFd[h], h, q)',
         \A p \in Queues : p # q => reg[p][OsFd[h]] = NoReg
  PROVE  WatchInv'
<1> DEFINE mask == MaskOf(ioq'[h])
<1>1. /\ TypeOK /\ h \in Handles /\ mask \in SUBSET Dirs /\ OsFd[h] \in OsFds
      /\ open \subseteq Handles /\ \A g \in Handles : OsFd[g] \in OsFds
  BY ConstAssumption DEF WatchInv, ListInv, TypeOK, MaskOf
<1>2. \A z \in Reqs : Linked(z)' /\ OsFd[fd'[z]] = OsFd[h] => fd'[z] = h /\ QueueOf[z] = q
  BY DEF UsedBy
<1>3. \A z \in Reqs : Linked(z)' /\ OsFd[fd'[z]] # OsFd[h] =>
        Linked(z) /\ st'[z] = st[z] /\ fd'[z] = fd[z] /\ kind'[z] = kind[z]
  BY DEF Linked
<1> HIDE DEF mask
<1>4. \A p \in Queues, o \in OsFds : reg'[p][o] =
        IF p = q /\ o = OsFd[h]
        THEN IF mask = {} THEN NoReg ELSE [udata |-> h, mask |-> mask]
        ELSE reg[p][o]
  BY <1>1, SetMaskFacts DEF mask
<1>5. RegInv'
  <2> SUFFICES ASSUME NEW p \in Queues, NEW o \in OsFds, reg'[p][o] # NoReg
               PROVE  /\ reg'[p][o].udata \in open' /\ OsFd[reg'[p][o].udata] = o /\ o \in Pollable
                      /\ reg'[p][o].mask # {}
                      /\ reg'[p][o].mask \subseteq MaskOf(ioq'[reg'[p][o].udata])
                      /\ \A z \in Reqs : Linked(z)' /\ OsFd[fd'[z]] = o =>
                           fd'[z] = reg'[p][o].udata /\ QueueOf[z] = p
    <3> SUFFICES ASSUME NEW p \in Queues, NEW o \in OsFds, reg'[p][o] # NoReg
                 PROVE  RegOk(reg[p][o], o)' /\ UsedBy(o, reg[p][o].udata, p)'
      BY Zenon DEF RegInv
    <3>1. /\ reg'[p][o].udata \in open' /\ OsFd[reg'[p][o].udata] = o /\ o \in Pollable
          /\ reg'[p][o].mask # {}
          /\ reg'[p][o].mask \subseteq MaskOf(ioq'[reg'[p][o].udata])
          /\ \A z \in Reqs : Linked(z)' /\ OsFd[fd'[z]] = o =>
               fd'[z] = reg'[p][o].udata /\ QueueOf[z] = p
      BY Zenon
    <3>2. RegOk(reg[p][o], o)'
      BY <3>1, Zenon DEF RegOk, MaskOf
    <3>3. UsedBy(o, reg[p][o].udata, p)'
      BY <3>1, Zenon DEF UsedBy
    <3> QED BY <3>2, <3>3
  <2>1. CASE o = OsFd[h]
    <3>1. p = q /\ reg'[p][o] = [udata |-> h, mask |-> mask] /\ mask # {}
      BY <1>4, <2>1
    <3> QED BY <1>2, <2>1, <3>1 DEF mask
  <2>2. CASE o # OsFd[h]
    <3>1. reg'[p][o] = reg[p][o]
      BY <1>4, <2>2
    <3> DEFINE e == reg[p][o]
    <3>2. RegOk(e, o) /\ UsedBy(o, e.udata, p)
      BY <3>1 DEF WatchInv, RegInv
    <3> HIDE DEF e
    <3>3. /\ e.udata \in open /\ OsFd[e.udata] = o /\ o \in Pollable /\ e.mask # {}
          /\ e.mask \subseteq MaskOf(ioq[e.udata]) /\ ioq'[e.udata] = ioq[e.udata]
      BY <1>1, <2>2, <3>2 DEF RegOk
    <3>4. \A z \in Reqs : Linked(z)' /\ OsFd[fd'[z]] = o => fd'[z] = e.udata /\ QueueOf[z] = p
      BY <1>3, <2>2, <3>2 DEF UsedBy
    <3>5. reg'[p][o] = e
      BY <3>1 DEF e
    <3> QED BY <3>3, <3>4, <3>5
  <2> QED BY <2>1, <2>2
<1>6. ArmedWatched'
  <2> SUFFICES ASSUME NEW z \in Reqs, st'[z] = "armed"
               PROVE  LET e == reg'[QueueOf[z]][OsFd[fd'[z]]] IN
                      e # NoReg /\ e.udata = fd'[z] /\ ToMask(kind'[z]) \in e.mask
    BY DEF ArmedWatched
  <2>1. /\ Linked(z)' /\ fd'[z] \in Handles /\ z \in Range(head'[fd'[z]])
        /\ QueueOf[z] \in Queues
    BY ConstAssumption DEF ListInv, LinkInv, Linked
  <2>2. CASE OsFd[fd'[z]] = OsFd[h]
    <3>0. fd'[z] = h /\ QueueOf[z] = q
      BY <1>2, <2>1, <2>2
    <3>1. \A d \in Dirs : d \in mask <=> \E r \in Range(head'[h]) : ToMask(kind'[r]) = d
      BY MaskFactsNext DEF MaskInv, mask
    <3>2. ToMask(kind'[z]) \in Dirs
      BY DEF ToMask, Dirs
    <3>3. ToMask(kind'[z]) \in mask
      BY <2>1, <3>0, <3>1, <3>2
    <3>4. reg'[QueueOf[z]][OsFd[fd'[z]]] = [udata |-> h, mask |-> mask]
      BY <1>1, <1>4, <3>0, <3>3
    <3>5. [udata |-> h, mask |-> mask] # NoReg
      BY <1>1, ConstAssumption
    <3> QED BY <3>0, <3>3, <3>4, <3>5
  <2>3. CASE OsFd[fd'[z]] # OsFd[h]
    <3>1. st[z] = "armed" /\ fd'[z] = fd[z] /\ kind'[z] = kind[z]
      BY <1>3, <2>1, <2>3
    <3>2. reg'[QueueOf[z]][OsFd[fd'[z]]] = reg[QueueOf[z]][OsFd[fd[z]]]
      BY <1>1, <1>4, <2>1, <2>3, <3>1
    <3> QED BY <3>1, <3>2 DEF WatchInv, ArmedWatched
  <2> QED BY <2>2, <2>3
<1> QED BY <1>5, <1>6 DEF WatchInv

LEMMA WatchNext ==
  ASSUME WatchInv, Exclusive, Exclusive', [Next]_vars
  PROVE  WatchInv'
<1>1. ListInv /\ TypeOK /\ RegInv /\ ArmedWatched /\ ListInv'
  BY ListNext DEF WatchInv, ListInv
<1>2. /\ open \subseteq Handles /\ ioq \in [Handles -> [Dirs -> Nat]]
      /\ \A g \in Handles : OsFd[g] \in OsFds
      /\ \A r \in Reqs : QueueOf[r] \in Queues /\ (Linked(r) => fd[r] \in Handles)
  BY <1>1, ConstAssumption DEF TypeOK, ListInv, LinkInv
<1>3. ASSUME NEW h \in Handles, yo_fd_new(h) PROVE WatchInv'
  <2>1. /\ h \notin open /\ open' = open \cup {h}
        /\ ioq' = [ioq EXCEPT ![h] = [d \in Dirs |-> 0]]
        /\ reg' = reg /\ st' = st /\ kind' = kind /\ fd' = fd
    BY <1>3 DEF yo_fd_new
  <2>2. RegInv'
    <3>1. \A g \in open : ioq'[g] = ioq[g]
      BY <1>2, <2>1
    <3> QED BY <1>1, <2>1, <3>1 DEF RegInv, RegOk, UsedBy, Linked
  <2> QED BY <1>1, <2>1, <2>2 DEF WatchInv, ArmedWatched
<1>4. ASSUME NEW h \in Handles, yo_fd_close(h) PROVE WatchInv'
  <2> DEFINE mine == Range(head[h])
  <2>1. /\ h \in open /\ open' = open \ {h}
        /\ reg' = [q \in Queues |-> [o \in OsFds |->
             IF o = OsFd[h] /\ (h \in Owned \/ \E r \in mine : QueueOf[r] = q)
             THEN NoReg ELSE reg[q][o]]]
        /\ st' = [r \in Reqs |-> IF r \in mine THEN "ready" ELSE st[r]]
        /\ ioq' = ioq /\ kind' = kind /\ fd' = fd
    BY <1>4 DEF yo_fd_close, Range
  <2>2. /\ mine \subseteq Reqs
        /\ \A r \in Reqs : r \in mine <=> Linked(r) /\ fd[r] = h
    <3>1. head[h] \in Seq(Reqs)
      BY <1>1 DEF TypeOK
    <3>2. mine \subseteq Reqs
      BY <3>1 DEF Range
    <3> QED BY <1>1, <3>2 DEF ListInv, LinkInv
  <2> HIDE DEF mine
  <2>3. \A r \in Reqs : Linked(r)' => Linked(r) /\ st'[r] = st[r] /\ fd[r] # h
    BY <2>1, <2>2 DEF Linked
  <2>4. \A p \in Queues, o \in OsFds : reg'[p][o] =
          IF o = OsFd[h] /\ (h \in Owned \/ \E r \in mine : QueueOf[r] = p)
          THEN NoReg ELSE reg[p][o]
    BY <2>1
  <2>5. RegInv'
    <3> SUFFICES ASSUME NEW p \in Queues, NEW o \in OsFds, reg'[p][o] # NoReg
                 PROVE  /\ reg'[p][o].udata \in open' /\ OsFd[reg'[p][o].udata] = o /\ o \in Pollable
                        /\ reg'[p][o].mask # {}
                        /\ reg'[p][o].mask \subseteq MaskOf(ioq'[reg'[p][o].udata])
                        /\ \A z \in Reqs : Linked(z)' /\ OsFd[fd'[z]] = o =>
                             fd'[z] = reg'[p][o].udata /\ QueueOf[z] = p
      BY DEF RegInv, RegOk, UsedBy, MaskOf
    <3> DEFINE e == reg[p][o]
    <3>1. reg'[p][o] = e /\ ~(o = OsFd[h] /\ \E r \in mine : QueueOf[r] = p)
      BY <2>4
    <3>2. RegOk(e, o) /\ UsedBy(o, e.udata, p)
      BY <1>1, <3>1 DEF RegInv
    <3> HIDE DEF e
    <3>3. e.udata # h
      <4> SUFFICES ASSUME e.udata = h PROVE FALSE
        OBVIOUS
      <4>1. PICK w \in Reqs : Linked(w) /\ fd[w] = h /\ OsFd[fd[w]] = o
        BY <1>1, <3>2, RegHasUser
      <4> QED BY <2>2, <3>1, <3>2, <4>1 DEF UsedBy
    <3>4. /\ e.udata \in open' /\ OsFd[e.udata] = o /\ o \in Pollable /\ e.mask # {}
          /\ e.mask \subseteq MaskOf(ioq'[e.udata])
      BY <2>1, <3>2, <3>3 DEF RegOk
    <3>5. \A z \in Reqs : Linked(z)' /\ OsFd[fd'[z]] = o => fd'[z] = e.udata /\ QueueOf[z] = p
      BY <2>1, <2>3, <3>2 DEF UsedBy
    <3> QED BY <3>1, <3>4, <3>5
  <2>6. ArmedWatched'
    <3> SUFFICES ASSUME NEW z \in Reqs, st'[z] = "armed"
                 PROVE  LET e == reg'[QueueOf[z]][OsFd[fd[z]]] IN
                        e # NoReg /\ e.udata = fd[z] /\ ToMask(kind[z]) \in e.mask
      BY <2>1 DEF ArmedWatched
    <3>1. Linked(z) /\ st[z] = "armed" /\ fd[z] \in Handles /\ fd[z] # h
      BY <1>2, <2>3 DEF Linked
    <3>2. ~(OsFd[fd[z]] = OsFd[h] /\ (h \in Owned \/ \E r \in mine : QueueOf[r] = QueueOf[z]))
      <4>1. OsFd[fd[z]] = OsFd[h] => h \notin Owned
        BY <3>1, ConstAssumption
      <4>2. OsFd[fd[z]] = OsFd[h] => mine = {}
        BY <2>2, <3>1 DEF Exclusive, UsedBy
      <4> QED BY <4>1, <4>2
    <3>3. reg'[QueueOf[z]][OsFd[fd[z]]] = reg[QueueOf[z]][OsFd[fd[z]]]
      BY <1>2, <2>4, <3>1, <3>2
    <3> QED BY <1>1, <3>1, <3>3 DEF ArmedWatched
  <2> QED BY <1>1, <2>5, <2>6 DEF WatchInv
<1>5. ASSUME NEW r \in Reqs, NEW h \in Handles, NEW k \in Kinds, StartOk(r, h, k)
      PROVE  WatchInv'
  <2>1. /\ h \in open /\ OsFd[h] \in Pollable /\ open' = open /\ st[r] = "user"
        /\ reg' = SetMask(QueueOf[r], h, OsFd[h], MaskOf(ioq'[h]))
        /\ st' = [st EXCEPT ![r] = "armed"] /\ fd' = [fd EXCEPT ![r] = h]
        /\ kind' = [kind EXCEPT ![r] = k]
        /\ ioq' = [ioq EXCEPT ![h][ToMask(k)] = @ + 1]
    BY <1>5 DEF StartOk, Begin, Callers
  <2>2. /\ QueueOf[r] \in Queues /\ \A g \in Handles : g # h => ioq'[g] = ioq[g]
        /\ Linked(r)' /\ fd'[r] = h
    BY <1>1, <1>2, <2>1 DEF Linked, TypeOK
  <2>3. \A z \in Reqs : z # r => st'[z] = st[z] /\ fd'[z] = fd[z] /\ kind'[z] = kind[z]
    BY <1>1, <2>1 DEF TypeOK
  <2>4. UsedBy(OsFd[h], h, QueueOf[r])'
    BY <2>2 DEF Exclusive, UsedBy
  <2>5. \A p \in Queues : p # QueueOf[r] => reg[p][OsFd[h]] = NoReg
    <3> SUFFICES ASSUME NEW p \in Queues, reg[p][OsFd[h]] # NoReg PROVE p = QueueOf[r]
      OBVIOUS
    <3> DEFINE e == reg[p][OsFd[h]]
    <3>1. RegOk(e, OsFd[h]) /\ UsedBy(OsFd[h], e.udata, p)
      BY <1>1, <1>2 DEF RegInv
    <3> HIDE DEF e
    <3>2. PICK w \in Reqs : Linked(w) /\ OsFd[fd[w]] = OsFd[h]
      BY <1>1, <3>1, RegHasUser
    <3>3. Linked(w)' /\ fd'[w] = fd[w] /\ QueueOf[w] = p
      BY <2>1, <2>3, <3>1, <3>2 DEF UsedBy, Linked
    <3> QED BY <2>4, <3>2, <3>3 DEF UsedBy
  <2>6. \A z \in Reqs : Linked(z)' /\ fd'[z] # h =>
          st'[z] = st[z] /\ fd'[z] = fd[z] /\ kind'[z] = kind[z]
    BY <2>2, <2>3
  <2> DEFINE q == QueueOf[r]
  <2>7. /\ q \in Queues /\ reg' = SetMask(q, h, OsFd[h], MaskOf(ioq'[h]))
        /\ UsedBy(OsFd[h], h, q)' /\ \A p \in Queues : p # q => reg[p][OsFd[h]] = NoReg
    BY <2>1, <2>2, <2>4, <2>5 DEF UsedBy
  <2> HIDE DEF q
  <2> QED BY <1>1, <2>1, <2>2, <2>6, <2>7, MaskStep
<1>6. ASSUME NEW r \in Reqs, NEW h \in Handles, NEW k \in Kinds,
             StartSync(r, h, k) \/ StartFail(r, h, k)
      PROVE  WatchInv'
  <2>1. /\ st[r] = "user" /\ h \in open /\ open' = open /\ reg' = reg
        /\ fd' = [fd EXCEPT ![r] = h] /\ kind' = [kind EXCEPT ![r] = k]
        /\ ioq' = [ioq EXCEPT ![h][ToMask(k)] = @ + 1] /\ ToMask(k) \in Dirs
        /\ st' = [st EXCEPT ![r] = "ready"] \/ st' = [st EXCEPT ![r] = "failed"]
    BY <1>6 DEF StartSync, StartFail, Begin, Callers, ToMask, Dirs
  <2>2. \A g \in Handles : MaskOf(ioq[g]) \subseteq MaskOf(ioq'[g])
    <3> TAKE g \in Handles
    <3>1. \A d \in Dirs : ioq[g][d] \in Nat /\ ioq'[g][d] \in {ioq[g][d], ioq[g][d] + 1}
      BY <1>2, <2>1
    <3>2. \A d \in Dirs : ioq[g][d] # 0 => ioq'[g][d] # 0
      BY <3>1
    <3> QED BY <3>2 DEF MaskOf
  <2>3. /\ \A z \in Reqs : z # r => st'[z] = st[z] /\ fd'[z] = fd[z] /\ kind'[z] = kind[z]
        /\ st'[r] # "armed" /\ ~Linked(r)
    BY <1>1, <2>1 DEF TypeOK, Linked
  <2>4. RegInv'
    <3> SUFFICES ASSUME NEW p \in Queues, NEW o \in OsFds, reg[p][o] # NoReg
                 PROVE  /\ reg'[p][o].udata \in open' /\ OsFd[reg'[p][o].udata] = o /\ o \in Pollable
                        /\ reg'[p][o].mask # {}
                        /\ reg'[p][o].mask \subseteq MaskOf(ioq'[reg'[p][o].udata])
                        /\ \A z \in Reqs : Linked(z)' /\ OsFd[fd'[z]] = o =>
                             fd'[z] = reg'[p][o].udata /\ QueueOf[z] = p
      BY <2>1 DEF RegInv, RegOk, UsedBy, MaskOf
    <3> DEFINE e == reg[p][o]
    <3>1. RegOk(e, o) /\ UsedBy(o, e.udata, p) /\ reg'[p][o] = e
      BY <1>1, <2>1 DEF RegInv
    <3> HIDE DEF e
    <3>2. e.udata \in Handles
      BY <1>2, <3>1 DEF RegOk
    <3>3. /\ e.udata \in open' /\ OsFd[e.udata] = o /\ o \in Pollable /\ e.mask # {}
          /\ e.mask \subseteq MaskOf(ioq'[e.udata])
      BY <2>1, <2>2, <3>1, <3>2 DEF RegOk
    <3>4. PICK w \in Reqs : Linked(w) /\ fd[w] = e.udata /\ OsFd[fd[w]] = o
      BY <1>1, <3>1, RegHasUser
    <3>5. Linked(w)' /\ fd'[w] = e.udata /\ OsFd[fd'[w]] = o /\ QueueOf[w] = p
      BY <2>3, <3>1, <3>4 DEF UsedBy, Linked
    <3>6. \A z \in Reqs : Linked(z)' /\ OsFd[fd'[z]] = o => fd'[z] = e.udata /\ QueueOf[z] = p
      BY <3>5 DEF Exclusive, UsedBy
    <3> QED BY <3>1, <3>3, <3>6
  <2>5. ArmedWatched'
    BY <1>1, <2>1, <2>3 DEF ArmedWatched
  <2> QED BY <1>1, <2>4, <2>5 DEF WatchInv
<1>7. ASSUME NEW r \in Reqs, Linked(r), Stop(r), NEW x \in {"user", "ready"},
             st' = [st EXCEPT ![r] = x], UNCHANGED <<open, kind, fd>>
      PROVE  WatchInv'
  <2> DEFINE h == fd[r]
  <2> DEFINE q == QueueOf[r]
  <2>1. /\ h \in open /\ OsFd[h] \in Pollable /\ q \in Queues
        /\ reg' = SetMask(q, h, OsFd[h], MaskOf(ioq'[h]))
        /\ \A g \in Handles : g # h => ioq'[g] = ioq[g]
    BY <1>1, <1>2, <1>7, StopStep
  <2>2. /\ open' = open /\ fd' = fd /\ kind' = kind
        /\ \A z \in Reqs : Linked(z)' => Linked(z) /\ st'[z] = st[z]
    BY <1>1, <1>7 DEF TypeOK, Linked
  <2>3. UsedBy(OsFd[h], h, q)
    BY <1>7 DEF Exclusive
  <2>4. \A p \in Queues : p # q => reg[p][OsFd[h]] = NoReg
    <3> SUFFICES ASSUME NEW p \in Queues, reg[p][OsFd[h]] # NoReg PROVE p = q
      OBVIOUS
    <3>1. UsedBy(OsFd[h], reg[p][OsFd[h]].udata, p)
      BY <1>1, <1>2, <2>1 DEF RegInv
    <3> QED BY <1>7, <3>1 DEF UsedBy
  <2>5. h' = h /\ q' = q
    BY <2>2
  <2>6. /\ fd[r] = h /\ QueueOf[r] = q
        /\ \A z \in Reqs : Linked(z) /\ OsFd[fd[z]] = OsFd[h] => fd[z] = h /\ QueueOf[z] = q
    BY <2>3 DEF UsedBy
  <2>7. \A z \in Reqs : Linked(z)' /\ OsFd[fd'[z]] = OsFd[h] => fd'[z] = h /\ QueueOf[z] = q
    BY <2>2, <2>6
  <2>8. UsedBy(OsFd[h], h, q)'
    BY <2>5, <2>7 DEF UsedBy
  <2> HIDE DEF h, q
  <2>9. \A z \in Reqs : Linked(z)' /\ fd'[z] # h =>
          st'[z] = st[z] /\ fd'[z] = fd[z] /\ kind'[z] = kind[z]
    BY <2>2
  <2> QED BY <1>1, <2>1, <2>2, <2>4, <2>7, <2>8, <2>9, MaskStep DEF UsedBy
<1>8. ASSUME NEW r \in Reqs, PlReqCancel(r) PROVE WatchInv'
  <2>1. /\ Linked(r) /\ Stop(r) /\ st' = [st EXCEPT ![r] = "ready"]
        /\ UNCHANGED <<open, kind, fd>>
    BY <1>8 DEF PlReqCancel, Linked
  <2> QED BY <1>7, <2>1
<1>9. ASSUME NEW q \in Queues, PollPop(q) PROVE WatchInv'
  <2>1. /\ st' = [st EXCEPT ![Head(ready[q])] = "user"]
        /\ open' = open /\ ioq' = ioq /\ reg' = reg /\ kind' = kind /\ fd' = fd
    BY <1>9 DEF PollPop
  <2>2. \A z \in Reqs : Linked(z)' => Linked(z) /\ st'[z] = st[z]
    BY <1>1, <2>1 DEF TypeOK, Linked
  <2>3. RegInv'
    BY <1>1, <2>1, <2>2 DEF RegInv, RegOk, UsedBy
  <2>4. ArmedWatched'
    BY <1>1, <2>1, <2>2 DEF ArmedWatched, Linked
  <2> QED BY <1>1, <2>3, <2>4 DEF WatchInv
<1>10. ASSUME NEW q \in Queues, NEW o \in OsFds, NEW evs \in SUBSET Dirs,
              PollEvent(q, o, evs)
       PROVE  WatchInv'
  <2> DEFINE h == reg[q][o].udata
  <2> DEFINE r == GetReq(h, evs)
  <2>1. /\ h \in open /\ r # NoReq /\ Stop(r) /\ st' = [st EXCEPT ![r] = "user"]
        /\ UNCHANGED <<open, kind, fd>>
    BY <1>10 DEF PollEvent
  <2>2. h \in Handles
    BY <1>2, <2>1
  <2>3. r \in Reqs /\ r \in Range(head[h])
    BY <1>1, <2>1, <2>2, GetReqFacts
  <2>4. Linked(r)
    BY <1>1, <2>2, <2>3 DEF ListInv, LinkInv
  <2> HIDE DEF h, r
  <2> QED BY <1>7, <2>1, <2>3, <2>4
<1>11. CASE UNCHANGED vars
  <2>1. RegInv' /\ ArmedWatched'
    BY <1>1, <1>11 DEF RegInv, RegOk, UsedBy, Linked, ArmedWatched, vars
  <2> QED BY <1>1, <2>1 DEF WatchInv
<1> QED BY <1>3, <1>4, <1>5, <1>6, <1>8, <1>9, <1>10, <1>11 DEF Next

(* As long as the requests on a descriptor are of one handle and one queue,
   the interest sets agree with the lists and the counters after every step. *)
THEOREM WatchInductive == Spec /\ []Exclusive => []WatchInv
<1>1. Init => WatchInv
  <2>1. Init => RegInv /\ ArmedWatched
    BY DEF Init, RegInv, ArmedWatched
  <2> QED BY <2>1, ListInit DEF WatchInv
<1>2. WatchInv /\ Exclusive /\ Exclusive' /\ [Next]_vars => WatchInv'
  BY WatchNext
<1> QED BY <1>1, <1>2, PTL DEF Spec

LEMMA WatchedNoSpin == WatchInv => NoSpin
<1>1. ASSUME WatchInv PROVE NoSpin
  <2> SUFFICES ASSUME NEW q \in Queues, NEW o \in OsFds, reg[q][o] # NoReg
               PROVE  /\ reg[q][o].udata \in open
                      /\ \A evs \in Events(reg[q][o].mask) :
                           GetReq(reg[q][o].udata, evs) # NoReq
    BY DEF NoSpin
  <2> DEFINE h == reg[q][o].udata
  <2> DEFINE mask == reg[q][o].mask
  <2>1. /\ h \in open /\ h \in Handles /\ OsFd[h] \in Pollable
        /\ mask # {} /\ mask \subseteq MaskOf(ioq[h]) /\ MaskOf(ioq[h]) \subseteq Dirs
    BY <1>1 DEF WatchInv, ListInv, TypeOK, RegInv, RegOk, MaskOf
  <2> HIDE DEF h, mask
  <2>2. ASSUME NEW evs \in Events(mask) PROVE GetReq(h, evs) # NoReq
    <3>1. PICK d \in Dirs : d \in evs /\ d \in MaskOf(ioq[h])
      BY <2>1 DEF Events
    <3>2. PICK r \in Range(head[h]) : ToMask(kind[r]) = d
      BY <1>1, <2>1, <3>1, MaskFacts DEF WatchInv
    <3>3. NoReq \notin Reqs /\ TypeOK
      BY <1>1, ConstAssumption DEF WatchInv, ListInv
    <3> QED BY <2>1, <3>1, <3>2, <3>3, GetReqFacts
  <2> QED BY <2>1, <2>2 DEF h, mask
<1> QED BY <1>1

(* yo_queue_poll never spins on a descriptor that nobody waits for
   (pollish.c:167-168) and never follows a udata pointer to a freed handle,
   for any number of handles, requests, operations and queues: handles may
   share a descriptor, and queues a handle, as long as they take turns. *)
THEOREM PollNeverSpins == Spec /\ []Exclusive => []NoSpin
BY WatchInductive, WatchedNoSpin, PTL

(* A request that waits for its descriptor is watched for (queue.h:22-24):
   no start, failed start, cancellation, completion or close of another
   request makes the kernel forget it, as long as handles and queues take
   turns on a descriptor. *)
THEOREM ArmedAreWatched == Spec /\ []Exclusive => []ArmedWatched
<1>1. WatchInv => ArmedWatched
  BY DEF WatchInv
<1> QED BY <1>1, WatchInductive, PTL

(* Programs with one queue that wrap each descriptor once always take turns,
   so for them the interest set of yoi_pl_impl_setmask is right without
   further ado. *)
THEOREM OwnHandlesAreWatched ==
  ASSUME OwnDescriptors, OneQueueOnly
  PROVE  Spec => [](NoSpin /\ ArmedWatched)
<1>1. ListInv => Exclusive
  BY ConstAssumption DEF ListInv, LinkInv, Exclusive, UsedBy, OwnDescriptors, OneQueueOnly
<1> QED BY <1>1, ListInductive, PollNeverSpins, ArmedAreWatched, PTL
==============================================================================
