------------------------------- MODULE ListFacts -------------------------------
(***************************************************************************)
(* The linked lists of the library (ready requests, workers, handles) are  *)
(* pushed and popped at their front, joined and counted.  What that does   *)
(* to the list as a set, and to its having no element twice, is proved     *)
(* here once.  The library's induction theorems take an operator, which    *)
(* the provers here cannot instantiate; NatInduct and SeqInduct take a set *)
(* instead.  The second half is about functions that walk a list or a      *)
(* text from its front: FoldOf gives the function on lists that takes one  *)
(* step for each element, and how a recursive definition is seen to be it. *)
(***************************************************************************)
EXTENDS Integers, Sequences, Functions, FiniteSetTheorems, WellFoundedInduction, TLAPS

(* What linking an element in front of a list does to it.                  *)
LEMMA PushFacts ==
  ASSUME NEW S, NEW q \in Seq(S), NEW r \in S
  PROVE  /\ <<r>> \o q \in Seq(S)
         /\ <<r>> \o q # <<>>
         /\ Range(<<r>> \o q) = {r} \cup Range(q)
         /\ IsInjective(q) /\ r \notin Range(q) => IsInjective(<<r>> \o q)
<1> DEFINE p == <<r>> \o q
<1>1. /\ p \in Seq(S) /\ Len(p) = Len(q) + 1
      /\ DOMAIN p = 1 .. Len(q) + 1 /\ DOMAIN q = 1 .. Len(q)
      /\ Len(q) \in Nat
  OBVIOUS
<1>2. p[1] = r /\ \A i \in 1 .. Len(q) : p[i + 1] = q[i]
  OBVIOUS
<1>3. \A i \in 2 .. Len(q) + 1 : i - 1 \in 1 .. Len(q) /\ p[i] = q[i - 1]
  BY <1>1, <1>2
<1> HIDE DEF p
<1>4. Range(p) = {r} \cup Range(q)
  <2>1. Range(p) \subseteq {r} \cup Range(q)
    BY <1>1, <1>2, <1>3 DEF Range
  <2>2. r \in Range(p)
    BY <1>1, <1>2 DEF Range
  <2>3. ASSUME NEW x \in Range(q) PROVE x \in Range(p)
    <3>1. PICK i \in 1 .. Len(q) : x = q[i]
      BY <1>1 DEF Range
    <3>2. i + 1 \in DOMAIN p /\ p[i + 1] = x
      BY <3>1, <1>1, <1>2
    <3> QED BY <3>2 DEF Range
  <2> QED BY <2>1, <2>2, <2>3
<1>5. ASSUME IsInjective(q), r \notin Range(q) PROVE IsInjective(p)
  <2> SUFFICES ASSUME NEW a \in 1 .. Len(q) + 1, NEW b \in 1 .. Len(q) + 1,
                      p[a] = p[b]
               PROVE a = b
    BY <1>1 DEF IsInjective
  <2>1. \A i \in 1 .. Len(q) : q[i] # r
    BY <1>5, <1>1 DEF Range
  <2>2. \A i, j \in 1 .. Len(q) : q[i] = q[j] => i = j
    BY <1>5, <1>1 DEF IsInjective
  <2>3. CASE a = 1 BY <2>3, <2>1, <1>1, <1>2, <1>3
  <2>4. CASE b = 1 BY <2>4, <2>1, <1>1, <1>2, <1>3
  <2>5. CASE a # 1 /\ b # 1 BY <2>5, <2>2, <1>1, <1>3
  <2> QED BY <2>3, <2>4, <2>5
<1>6. p # <<>>
  BY <1>1
<1> QED BY <1>1, <1>4, <1>5, <1>6 DEF p

(* What unlinking the first element of a list does to it.                  *)
LEMMA PopFacts ==
  ASSUME NEW S, NEW q \in Seq(S), q # <<>>
  PROVE  /\ Head(q) \in S /\ Head(q) \in Range(q)
         /\ Tail(q) \in Seq(S)
         /\ IsInjective(q) => /\ Range(Tail(q)) = Range(q) \ {Head(q)}
                              /\ IsInjective(Tail(q))
<1> DEFINE p == Tail(q)
<1>1. /\ p \in Seq(S) /\ Len(q) \in Nat \ {0} /\ Len(p) = Len(q) - 1
      /\ DOMAIN p = 1 .. Len(q) - 1 /\ DOMAIN q = 1 .. Len(q)
  OBVIOUS
<1>2. Head(q) = q[1] /\ \A i \in 1 .. Len(q) - 1 : p[i] = q[i + 1]
  OBVIOUS
<1>3. \A i \in 2 .. Len(q) : i - 1 \in 1 .. Len(q) - 1 /\ p[i - 1] = q[i]
  BY <1>1, <1>2
<1>4. Head(q) \in S /\ Head(q) \in Range(q)
  <2>1. 1 \in DOMAIN q BY <1>1
  <2> QED BY <2>1, <1>2 DEF Range
<1> HIDE DEF p
<1>5. ASSUME IsInjective(q)
      PROVE  Range(p) = Range(q) \ {Head(q)} /\ IsInjective(p)
  <2>1. \A i, j \in 1 .. Len(q) : q[i] = q[j] => i = j
    BY <1>5, <1>1 DEF IsInjective
  <2>2. Range(p) \subseteq Range(q) \ {Head(q)}
    <3> SUFFICES ASSUME NEW i \in 1 .. Len(q) - 1
                 PROVE p[i] \in Range(q) \ {Head(q)}
      BY <1>1 DEF Range
    <3>1. i + 1 \in 1 .. Len(q) /\ i + 1 # 1 /\ 1 \in 1 .. Len(q)
      BY <1>1
    <3>2. q[i + 1] # q[1]
      BY <3>1, <2>1
    <3> QED BY <3>1, <3>2, <1>1, <1>2 DEF Range
  <2>3. ASSUME NEW x \in Range(q) \ {Head(q)} PROVE x \in Range(p)
    <3>1. PICK i \in 1 .. Len(q) : x = q[i]
      BY <1>1 DEF Range
    <3>2. i \in 2 .. Len(q)
      BY <3>1, <1>1, <1>2
    <3>3. i - 1 \in DOMAIN p /\ p[i - 1] = x
      BY <3>1, <3>2, <1>1, <1>3
    <3> QED BY <3>3 DEF Range
  <2>4. IsInjective(p)
    <3> SUFFICES ASSUME NEW a \in 1 .. Len(q) - 1, NEW b \in 1 .. Len(q) - 1,
                        p[a] = p[b]
                 PROVE a = b
      BY <1>1 DEF IsInjective
    <3>1. a + 1 \in 1 .. Len(q) /\ b + 1 \in 1 .. Len(q)
      BY <1>1
    <3>2. q[a + 1] = q[b + 1]
      BY <1>2
    <3>3. a + 1 = b + 1
      BY <3>1, <3>2, <2>1
    <3> QED BY <3>3, <1>1
  <2> QED BY <2>2, <2>3, <2>4
<1> QED BY <1>1, <1>4, <1>5 DEF p

(* What joining two lists does to them. *)
LEMMA JoinFacts ==
  ASSUME NEW S, NEW p \in Seq(S), NEW q \in Seq(S)
  PROVE  /\ p \o q \in Seq(S)
         /\ Range(p \o q) = Range(p) \cup Range(q)
         /\ IsInjective(p) /\ IsInjective(q) /\ Range(p) \cap Range(q) = {}
              => IsInjective(p \o q)
<1> DEFINE c == p \o q
<1>1. /\ c \in Seq(S) /\ DOMAIN c = 1 .. Len(p) + Len(q)
      /\ DOMAIN p = 1 .. Len(p) /\ DOMAIN q = 1 .. Len(q)
      /\ Len(p) \in Nat /\ Len(q) \in Nat
  OBVIOUS
<1>2. /\ \A i \in 1 .. Len(p) : c[i] = p[i]
      /\ \A i \in 1 .. Len(q) : c[i + Len(p)] = q[i]
  OBVIOUS
<1> HIDE DEF c
<1>3. \A i \in DOMAIN c :
        \/ i \in 1 .. Len(p) /\ c[i] = p[i]
        \/ i - Len(p) \in 1 .. Len(q) /\ c[i] = q[i - Len(p)]
  <2> TAKE i \in DOMAIN c
  <2>1. CASE i <= Len(p)
    BY <1>1, <1>2, <2>1
  <2>2. CASE i > Len(p)
    <3>1. i - Len(p) \in 1 .. Len(q) /\ i = (i - Len(p)) + Len(p)
      BY <1>1, <2>2
    <3> QED BY <1>2, <3>1
  <2> QED BY <1>1, <2>1, <2>2
<1>4. Range(c) = Range(p) \cup Range(q)
  <2>1. Range(c) \subseteq Range(p) \cup Range(q)
    BY <1>1, <1>3 DEF Range
  <2>2. ASSUME NEW x \in Range(p) PROVE x \in Range(c)
    <3>1. PICK i \in 1 .. Len(p) : x = p[i]
      BY <1>1 DEF Range
    <3>2. i \in DOMAIN c /\ c[i] = x
      BY <1>1, <1>2, <3>1
    <3> QED BY <3>2 DEF Range
  <2>3. ASSUME NEW x \in Range(q) PROVE x \in Range(c)
    <3>1. PICK i \in 1 .. Len(q) : x = q[i]
      BY <1>1 DEF Range
    <3>2. i + Len(p) \in DOMAIN c /\ c[i + Len(p)] = x
      BY <1>1, <1>2, <3>1
    <3> QED BY <3>2 DEF Range
  <2> QED BY <2>1, <2>2, <2>3
<1>5. ASSUME IsInjective(p), IsInjective(q), Range(p) \cap Range(q) = {}
      PROVE  IsInjective(c)
  <2> SUFFICES ASSUME NEW a \in DOMAIN c, NEW b \in DOMAIN c, c[a] = c[b] PROVE a = b
    BY DEF IsInjective
  <2>1. \A i \in 1 .. Len(p), j \in 1 .. Len(q) : p[i] # q[j]
    BY <1>1, <1>5 DEF Range
  <2>2. /\ \A i, j \in 1 .. Len(p) : p[i] = p[j] => i = j
        /\ \A i, j \in 1 .. Len(q) : q[i] = q[j] => i = j
    BY <1>1, <1>5 DEF IsInjective
  <2> QED BY <1>1, <1>3, <2>1, <2>2
<1> QED BY <1>1, <1>4, <1>5 DEF c

(* A list without repetitions has as many elements as positions. *)
LEMMA CountFacts ==
  ASSUME NEW S, NEW q \in Seq(S), IsInjective(q), NEW A
  PROVE  /\ IsFiniteSet(Range(q)) /\ Cardinality(Range(q)) = Len(q)
         /\ Cardinality({i \in DOMAIN q : q[i] \in A}) = Cardinality(Range(q) \cap A)
<1>1. DOMAIN q = 1 .. Len(q) /\ Len(q) \in Nat /\ IsFiniteSet(1 .. Len(q))
  BY FS_Interval
<1>2. q \in [1 .. Len(q) -> Range(q)]
  BY <1>1 DEF Range
<1>3. \A i, j \in 1 .. Len(q) : q[i] = q[j] => i = j
  BY <1>1 DEF IsInjective
<1>4. q \in Bijection(1 .. Len(q), Range(q))
  <2>1. q \in Injection(1 .. Len(q), Range(q))
    BY <1>2, <1>3 DEF Injection, IsInjective
  <2>2. q \in Surjection(1 .. Len(q), Range(q))
    BY <1>1, <1>2 DEF Surjection, Range
  <2> QED BY <2>1, <2>2 DEF Bijection
<1>5. IsFiniteSet(Range(q)) /\ Cardinality(Range(q)) = Len(q)
  <2>1. ExistsBijection(1 .. Len(q), Range(q))
    BY <1>4 DEF ExistsBijection
  <2> QED BY <1>1, <2>1, FS_Bijection, FS_CountingElements
<1>6. Cardinality({i \in DOMAIN q : q[i] \in A}) = Cardinality(Range(q) \cap A)
  <2> DEFINE I == {i \in DOMAIN q : q[i] \in A}
  <2> DEFINE R == Range(q) \cap A
  <2> DEFINE f == [i \in I |-> q[i]]
  <2>1. IsFiniteSet(I)
    BY <1>1, FS_Subset
  <2>2. f \in [I -> R]
    BY DEF Range
  <2>3. f \in Injection(I, R)
    BY <1>1, <1>3, <2>2 DEF Injection, IsInjective
  <2>4. \A x \in R : \E i \in I : f[i] = x
    BY DEF Range
  <2>5. f \in Surjection(I, R)
    BY <2>2, <2>4 DEF Surjection
  <2>6. ExistsBijection(I, R)
    BY <2>3, <2>5 DEF ExistsBijection, Bijection
  <2> QED BY <2>1, <2>6, FS_Bijection
<1> QED BY <1>5, <1>6

(* A set of natural numbers that is not empty has a least element. *)
LEMMA NatLeast ==
  ASSUME NEW A, A \subseteq Nat, A # {}
  PROVE  \E n \in A : \A m \in A : n <= m
<1> DEFINE R == {ss \in Nat \X Nat : ss[1] < ss[2]}
<1>1. IsWellFoundedOn(R, Nat)
  BY NatLessThanWellFounded, Zenon DEF OpToRel
<1>2. R = {ss \in Nat \X Nat : ss[1] < ss[2]}
  OBVIOUS
<1> HIDE DEF R
<1>3. PICK n \in A : \A m \in A : ~(<<m, n>> \in R)
  BY <1>1, WFMin
<1>4. \A m \in A : ~(m < n)
  BY <1>2, <1>3
<1> QED BY <1>4

(* Induction up to a bound: otherwise there is a least counterexample. *)
LEMMA NatInduct ==
  ASSUME NEW n \in Nat, NEW A, 0 \in A,
         \A i \in 0 .. n - 1 : i \in A => i + 1 \in A
  PROVE  \A i \in 0 .. n : i \in A
<1> DEFINE B == {i \in 0 .. n : i \notin A}
<1> SUFFICES ASSUME B # {} PROVE FALSE
  OBVIOUS
<1>1. PICK k \in B : \A m \in B : k <= m
  <2>1. B \subseteq Nat
    OBVIOUS
  <2> HIDE DEF B
  <2> QED BY <2>1, NatLeast
<1>2. k # 0 /\ k - 1 \in 0 .. n - 1
  BY <1>1
<1>3. k - 1 \in A
  BY <1>1, <1>2
<1>4. (k - 1) + 1 \in A
  BY <1>2, <1>3
<1> QED BY <1>1, <1>2, <1>4

(* A function on 1 .. n is a sequence. *)
LEMMA FnIsSeq ==
  ASSUME NEW S, NEW n \in Nat, NEW f \in [1 .. n -> S]
  PROVE  f \in Seq(S)
OBVIOUS

(* Two lists with the same elements are the same. *)
LEMMA SeqEqual ==
  ASSUME NEW S, NEW u \in Seq(S), NEW v \in Seq(S), Len(u) = Len(v),
         \A k \in 1 .. Len(u) : u[k] = v[k]
  PROVE  u = v
OBVIOUS

(* A prefix of a list. *)
LEMMA PrefixSeq ==
  ASSUME NEW S, NEW d \in Seq(S), NEW n \in 0 .. Len(d)
  PROVE  SubSeq(d, 1, n) \in Seq(S) /\ Len(SubSeq(d, 1, n)) = n
         /\ \A i \in 1 .. n : SubSeq(d, 1, n)[i] = d[i]
OBVIOUS

(* Induction over the length of a sequence. *)
LEMMA SeqInduct ==
  ASSUME NEW S, NEW A, <<>> \in A,
         \A s \in Seq(S), c \in S : s \in A => Append(s, c) \in A
  PROVE  \A s \in Seq(S) : s \in A
<1> TAKE s \in Seq(S)
<1> DEFINE n == Len(s)
           B == {i \in 0 .. n : SubSeq(s, 1, i) \in A}
<1>1. n \in Nat /\ SubSeq(s, 1, 0) = <<>> /\ SubSeq(s, 1, n) = s
  OBVIOUS
<1>2. 0 \in B
  <2>1. 0 \in 0 .. n
    BY <1>1
  <2> QED BY <1>1, <2>1
<1>3. ASSUME NEW i \in 0 .. n - 1, i \in B PROVE i + 1 \in B
  <2>1. SubSeq(s, 1, i) \in Seq(S) /\ s[i + 1] \in S /\ i + 1 \in 0 .. n
    BY <1>1
  <2>2. SubSeq(s, 1, i + 1) = Append(SubSeq(s, 1, i), s[i + 1])
    BY <1>1
  <2>3. Append(SubSeq(s, 1, i), s[i + 1]) \in A
    BY <1>3, <2>1
  <2> QED BY <2>1, <2>2, <2>3
<1>4. n \in B
  <2> HIDE DEF B
  <2>1. \A i \in 0 .. n : i \in B
    <3> HIDE DEF n
    <3> QED BY <1>1, <1>2, <1>3, NatInduct
  <2> QED BY <1>1, <2>1
<1> QED BY <1>1, <1>4

(* The recursive functions over a list take its elements one by one: what
   step makes of b and of the elements of s. *)
IsListFold(f, step, b, s) ==
  f = [i \in 0 .. Len(s) |-> IF i = 0 THEN b ELSE step[<<f[i - 1], s[i]>>]]

(* There is such a function for every list. *)
LEMMA FoldExists ==
  ASSUME NEW S, NEW D, NEW b \in D, NEW step \in [D \X S -> D], NEW s \in Seq(S)
  PROVE  \E f \in [0 .. Len(s) -> D] : IsListFold(f, step, b, s)
<1> DEFINE A == {t \in Seq(S) : \E f \in [0 .. Len(t) -> D] : IsListFold(f, step, b, t)}
<1>1. <<>> \in A
  <2> DEFINE g == [i \in 0 .. 0 |-> b]
  <2>1. g \in [0 .. 0 -> D] /\ g = [i \in 0 .. 0 |-> IF i = 0 THEN b ELSE step[<<g[i - 1], <<>>[i]>>]]
    OBVIOUS
  <2> HIDE DEF g
  <2> QED BY <2>1 DEF IsListFold
<1>2. ASSUME NEW t \in Seq(S), NEW c \in S, t \in A PROVE Append(t, c) \in A
  <2>1. PICK f \in [0 .. Len(t) -> D] : IsListFold(f, step, b, t)
    BY <1>2
  <2> DEFINE n == Len(t)
             u == Append(t, c)
             g == [i \in 0 .. n + 1 |-> IF i = n + 1 THEN step[<<f[n], c>>] ELSE f[i]]
  <2>2. /\ u \in Seq(S) /\ Len(u) = n + 1 /\ n \in Nat /\ u[n + 1] = c
        /\ \A i \in 1 .. n : u[i] = t[i] /\ t[i] \in S
    OBVIOUS
  <2>3. \A i \in 0 .. n : f[i] = IF i = 0 THEN b ELSE step[<<f[i - 1], t[i]>>]
    <3> DEFINE E(i) == IF i = 0 THEN b ELSE step[<<f[i - 1], t[i]>>]
    <3>1. f = [i \in 0 .. n |-> E(i)]
      BY <2>1 DEF IsListFold
    <3> HIDE DEF E
    <3>2. \A i \in 0 .. n : f[i] = E(i)
      BY <3>1
    <3> QED BY <3>2 DEF E
  <2>4. f[n] \in D /\ step[<<f[n], c>>] \in D
    BY <2>2
  <2>5. g \in [0 .. n + 1 -> D]
    BY <2>2, <2>4
  <2>6. \A i \in 0 .. n + 1 : g[i] = IF i = 0 THEN b ELSE step[<<g[i - 1], u[i]>>]
    <3> TAKE i \in 0 .. n + 1
    <3>1. CASE i = 0
      <4>1. 0 \in 0 .. n /\ 0 \in 0 .. n + 1 /\ 0 # n + 1
        BY <2>2
      <4>2. g[0] = f[0] /\ f[0] = b
        BY <4>1, <2>3
      <4> QED BY <3>1, <4>2
    <3>2. CASE i = n + 1
      <4>1. n + 1 \in 0 .. n + 1 /\ n \in 0 .. n + 1 /\ n # n + 1 /\ (n + 1) - 1 = n
            /\ n + 1 # 0
        BY <2>2
      <4>2. g[n + 1] = step[<<f[n], c>>] /\ g[n] = f[n]
        BY <4>1
      <4> HIDE DEF g, n
      <4> QED BY <3>2, <4>1, <4>2, <2>2
    <3>3. CASE i \in 1 .. n
      <4>1. g[i] = f[i] /\ g[i - 1] = f[i - 1] /\ u[i] = t[i]
        BY <3>3, <2>2
      <4> QED BY <3>3, <4>1, <2>2, <2>3
    <3>4. i = 0 \/ i = n + 1 \/ i \in 1 .. n
      BY <2>2
    <3> QED BY <3>1, <3>2, <3>3, <3>4
  <2>7. IsListFold(g, step, b, u)
    <3>1. DOMAIN g = 0 .. Len(u) /\ g = [i \in 0 .. Len(u) |-> g[i]]
      BY <2>2
    <3> HIDE DEF g, u, n
    <3>2. \A i \in 0 .. Len(u) : g[i] = IF i = 0 THEN b ELSE step[<<g[i - 1], u[i]>>]
      BY <2>2, <2>6
    <3> QED BY <3>1, <3>2 DEF IsListFold
  <2> HIDE DEF g, u, n
  <2> QED BY <2>2, <2>5, <2>7 DEF u
<1> HIDE DEF A
<1>3. s \in A
  BY <1>1, <1>2, SeqInduct
<1> QED BY <1>3 DEF A

\* f takes the first n steps, as far as it stays in D.
FoldSteps(f, step, b, s, n, D) ==
  /\ f[0] = b
  /\ \A i \in 1 .. n : f[i - 1] \in D => f[i] = step[<<f[i - 1], s[i]>>]

(* A function that takes the same steps as far as it stays in D is the fold. *)
LEMMA FoldUnique ==
  ASSUME NEW S, NEW D, NEW b \in D, NEW step \in [D \X S -> D], NEW s \in Seq(S),
         NEW n \in 0 .. Len(s), NEW f, FoldSteps(f, step, b, s, n, D),
         NEW g, IsListFold(g, step, b, s)
  PROVE  \A i \in 0 .. n : f[i] = g[i] /\ f[i] \in D
<1>0. n \in Nat /\ Len(s) \in Nat /\ \A i \in 1 .. n : s[i] \in S
  OBVIOUS
<1>1. \A i \in 0 .. Len(s) : g[i] = IF i = 0 THEN b ELSE step[<<g[i - 1], s[i]>>]
  <2> DEFINE E(i) == IF i = 0 THEN b ELSE step[<<g[i - 1], s[i]>>]
  <2>1. g = [i \in 0 .. Len(s) |-> E(i)]
    BY DEF IsListFold
  <2> HIDE DEF E
  <2>2. \A i \in 0 .. Len(s) : g[i] = E(i)
    BY <2>1
  <2> QED BY <2>2 DEF E
<1> DEFINE A == {i \in 0 .. n : f[i] = g[i] /\ f[i] \in D}
<1>2. 0 \in A
  <2>1. 0 \in 0 .. n /\ 0 \in 0 .. Len(s)
    BY <1>0
  <2> QED BY <1>1, <2>1 DEF FoldSteps
<1>3. ASSUME NEW i \in 0 .. n - 1, i \in A PROVE i + 1 \in A
  <2>1. f[i] = g[i] /\ f[i] \in D /\ s[i + 1] \in S
    BY <1>0, <1>3
  <2>2. f[i + 1] = step[<<f[i], s[i + 1]>>]
    <3>1. i + 1 \in 1 .. n /\ (i + 1) - 1 = i
      BY <1>0
    <3> QED BY <3>1, <2>1 DEF FoldSteps
  <2>3. g[i + 1] = step[<<g[i], s[i + 1]>>]
    <3>1. i + 1 \in 0 .. Len(s) /\ (i + 1) - 1 = i /\ i + 1 # 0
      BY <1>0
    <3> QED BY <3>1, <1>1
  <2>4. f[i + 1] \in D
    BY <2>1, <2>2
  <2> QED BY <1>0, <2>1, <2>2, <2>3, <2>4
<1> HIDE DEF A
<1>4. \A i \in 0 .. n : i \in A
  BY <1>0, <1>2, <1>3, NatInduct
<1> QED BY <1>4 DEF A

(* The fold as a function h of the list, and how a recursive function is seen
   to be it: some f satisfies its equation, so the one it chooses does, and no
   other value comes of taking the same steps. *)
IsFoldOf(h, step, b, S, D) ==
  /\ h[<<>>] = b
  /\ \A s \in Seq(S) : h[s] \in D
  /\ \A s \in Seq(S), c \in S : h[Append(s, c)] = step[<<h[s], c>>]
  /\ \A s \in Seq(S) : \E f \in [0 .. Len(s) -> D] : IsListFold(f, step, b, s)
  /\ \A s \in Seq(S) : \A f : FoldSteps(f, step, b, s, Len(s), D) => f[Len(s)] = h[s]

(* There is a fold of every step function that stays in its domain. *)
LEMMA FoldOf ==
  ASSUME NEW S, NEW D, NEW b \in D, NEW step \in [D \X S -> D]
  PROVE  \E h : IsFoldOf(h, step, b, S, D)
<1> DEFINE F(s) == CHOOSE f : IsListFold(f, step, b, s)
           h == [s \in Seq(S) |-> F(s)[Len(s)]]
<1>1. \A s \in Seq(S) : \E f \in [0 .. Len(s) -> D] : IsListFold(f, step, b, s)
  BY FoldExists
<1>2. \A s \in Seq(S) : IsListFold(F(s), step, b, s)
  <2> TAKE s \in Seq(S)
  <2>1. \E f : IsListFold(f, step, b, s)
    BY <1>1
  <2> QED BY <2>1, Zenon
<1> HIDE DEF F
<1>3. ASSUME NEW s \in Seq(S)
      PROVE  /\ F(s)[0] = b
             /\ \A i \in 1 .. Len(s) : F(s)[i] = step[<<F(s)[i - 1], s[i]>>]
  <2> DEFINE E(i) == IF i = 0 THEN b ELSE step[<<F(s)[i - 1], s[i]>>]
  <2>1. F(s) = [i \in 0 .. Len(s) |-> E(i)]
    BY <1>2 DEF IsListFold
  <2> HIDE DEF E
  <2>2. \A i \in 0 .. Len(s) : F(s)[i] = E(i)
    BY <2>1
  <2>3. Len(s) \in Nat
    OBVIOUS
  <2>4. 0 \in 0 .. Len(s) /\ F(s)[0] = E(0)
    BY <2>2, <2>3
  <2>5. \A i \in 1 .. Len(s) : i # 0 /\ F(s)[i] = E(i)
    BY <2>2, <2>3
  <2> QED BY <2>4, <2>5 DEF E
<1>4. ASSUME NEW s \in Seq(S), NEW f, FoldSteps(f, step, b, s, Len(s), D)
      PROVE  f[Len(s)] = h[s] /\ h[s] \in D
  <2>1. Len(s) \in 0 .. Len(s)
    OBVIOUS
  <2>2. \A i \in 0 .. Len(s) : f[i] = F(s)[i] /\ f[i] \in D
    BY <1>2, <1>4, <2>1, FoldUnique, Zenon
  <2> QED BY <2>1, <2>2
<1>5. \A s \in Seq(S) : h[s] \in D
  <2> TAKE s \in Seq(S)
  <2>1. FoldSteps(F(s), step, b, s, Len(s), D)
    BY <1>3 DEF FoldSteps
  <2> HIDE DEF h
  <2> QED BY <1>4, <2>1
<1>6. h[<<>>] = b
  <2>1. <<>> \in Seq(S) /\ Len(<<>>) = 0
    OBVIOUS
  <2> QED BY <1>3, <2>1
<1>7. ASSUME NEW s \in Seq(S), NEW c \in S
      PROVE  h[Append(s, c)] = step[<<h[s], c>>]
  <2> DEFINE u == Append(s, c)
             n == Len(s)
  <2>1. /\ u \in Seq(S) /\ Len(u) = n + 1 /\ n \in Nat /\ u[n + 1] = c
        /\ \A i \in 1 .. n : u[i] = s[i]
    OBVIOUS
  <2>2. h[u] = F(u)[n + 1] /\ h[s] = F(s)[n]
    BY <2>1
  <2> HIDE DEF u, n
  <2>3. F(u)[n] = F(s)[n]
    <3>1. n \in 0 .. Len(s)
      BY <2>1 DEF n
    <3>2. F(u)[0] = b /\ \A i \in 1 .. n : F(u)[i] = step[<<F(u)[i - 1], s[i]>>]
      BY <1>3, <2>1
    <3>3. IsListFold(F(s), step, b, s) /\ FoldSteps(F(u), step, b, s, n, D)
      BY <1>2, <3>2 DEF FoldSteps
    <3>4. \A i \in 0 .. n : F(u)[i] = F(s)[i] /\ F(u)[i] \in D
      BY <3>1, <3>3, FoldUnique, Zenon
    <3> QED BY <2>1, <3>4
  <2>4. F(u)[n + 1] = step[<<F(u)[(n + 1) - 1], u[n + 1]>>] /\ (n + 1) - 1 = n
    BY <1>3, <2>1, SMTT(40)
  <2> QED BY <2>1, <2>2, <2>3, <2>4 DEF u
<1> HIDE DEF h
<1>8. IsFoldOf(h, step, b, S, D)
  BY <1>1, <1>4, <1>5, <1>6, <1>7 DEF IsFoldOf
<1> QED BY <1>8
================================================================================
