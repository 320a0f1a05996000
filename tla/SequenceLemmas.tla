--------------------------- MODULE SequenceLemmas ---------------------------
(***************************************************************************)
(* Facts about numbers and sequences that the proofs of several components *)
(* use.                                                                    *)
(***************************************************************************)
EXTENDS Integers, Sequences, SequencesExt, FiniteSetTheorems, TLAPS

(* Every nonempty set of naturals has a least member: 1 .. x is a finite   *)
(* set, and strict inclusion of finite sets is well founded.               *)
LEMMA LeastExists ==
  ASSUME NEW S \in SUBSET Nat, S # {}
  PROVE  /\ Min(S) \in S
         /\ \A y \in S : Min(S) <= y
<1> DEFINE R == StrictSubsetOrdering(Nat)
           T == {1 .. x : x \in S}
<1>1. IsWellFoundedOn(R, FiniteSubsetsOf(Nat))
  BY FS_StrictSubsetOrderingWellFounded
<1>2. T \subseteq FiniteSubsetsOf(Nat) /\ T # {}
  <2>1. ASSUME NEW x \in S PROVE 1 .. x \in FiniteSubsetsOf(Nat)
    <3>1. 1 \in Int /\ x \in Int /\ 1 .. x \subseteq Nat
      OBVIOUS
    <3>2. IsFiniteSet(1 .. x)
      BY <3>1, FS_Interval
    <3> QED
      BY <3>1, <3>2 DEF FiniteSubsetsOf
  <2> QED
    BY <2>1
<1>3. PICK t \in T : \A u \in T : <<u, t>> \notin R
  BY <1>1, <1>2, WFMin, Zenon
<1>4. PICK x \in S : t = 1 .. x
  OBVIOUS
<1>5. ASSUME NEW y \in S, y < x PROVE FALSE
  <2>1. 1 .. y \in SUBSET Nat /\ 1 .. x \in SUBSET Nat
    OBVIOUS
  <2>2. 1 .. y \subseteq 1 .. x /\ x \notin 1 .. y /\ x \in 1 .. x
    BY <1>5
  <2>3. <<1 .. y, 1 .. x>> \in R
    BY <2>1, <2>2 DEF StrictSubsetOrdering
  <2> QED
    BY <2>3, <1>3, <1>4
<1>6. \A y \in S : x <= y
  BY <1>5
<1> QED
  BY <1>6 DEF Min

(* So does every bounded one have a greatest member.                       *)
LEMMA GreatestExists ==
  ASSUME NEW n \in Nat, NEW S \in SUBSET (0 .. n), S # {}
  PROVE  \E i \in S : \A j \in S : j <= i
<1> DEFINE T == {k \in 0 .. n : n - k \in S}
<1>1. T \in SUBSET Nat /\ \A i \in S : n - i \in T
  OBVIOUS
<1>2. T # {}
  BY <1>1
<1>3. Min(T) \in T /\ \A y \in T : Min(T) <= y
  <2> HIDE DEF T
  <2> QED
    BY <1>1, <1>2, LeastExists
<1> DEFINE m == Min(T)
<1>4. m \in T /\ \A y \in T : m <= y
  BY <1>3
<1> HIDE DEF m
<1>5. n - m \in S /\ m \in 0 .. n
  BY <1>4
<1>6. ASSUME NEW j \in S PROVE j <= n - m
  <2>1. m <= n - j /\ j \in 0 .. n
    BY <1>1, <1>4
  <2> QED
    BY <1>5, <2>1
<1> QED
  BY <1>5, <1>6

(* Induction up to n, said of the set of numbers that satisfy a formula.   *)
LEMMA UpTo ==
  ASSUME NEW n \in Nat, NEW S, 0 \in S,
         \A i \in 0 .. n : i \in S /\ i < n => i + 1 \in S
  PROVE  \A i \in 0 .. n : i \in S
<1> DEFINE Rest == {i \in Nat : i <= n /\ i \notin S}
<1> SUFFICES ASSUME Rest # {} PROVE FALSE
  OBVIOUS
<1>1. Min(Rest) \in Rest /\ \A y \in Rest : Min(Rest) <= y
  <2> HIDE DEF Rest
  <2>1. Rest \in SUBSET Nat
    BY DEF Rest
  <2> QED
    BY <2>1, LeastExists
<1>2. PICK m \in Rest : \A y \in Rest : m <= y
  <2> HIDE DEF Rest
  <2> QED
    BY <1>1
<1>3. m # 0 /\ m \in Nat /\ m <= n /\ m \notin S
  OBVIOUS
<1>4. m - 1 \in 0 .. n /\ m - 1 < n /\ m - 1 \in Nat
  BY <1>3
<1>5. m - 1 \in S
  BY <1>2, <1>3, <1>4
<1>6. m \in S
  BY <1>4, <1>5
<1> QED
  BY <1>3, <1>6

(* step[i] makes the value at i of the one before.                         *)
Steps(L, n) == [1 .. n -> [L -> L]]
Iterates(g, e, step, n) == g[0] = e /\ \A i \in 1 .. n : g[i] = step[i][g[i - 1]]
Iterable(L, e, step, n) == \E g \in [0 .. n -> L] : Iterates(g, e, step, n)

(* A recursive function exists.                                            *)
LEMMA RecursionExists ==
  ASSUME NEW n \in Nat, NEW L, NEW e \in L, NEW step \in Steps(L, n)
  PROVE  Iterable(L, e, step, n)
<1> USE DEF Steps, Iterates, Iterable
<1> DEFINE Upto(g, k) == g[0] = e /\ \A i \in 1 .. k : g[i] = step[i][g[i - 1]]
           S == {k \in 0 .. n : \E g \in [0 .. n -> L] : Upto(g, k)}
<1>1. 0 \in S
  <2> DEFINE g == [i \in 0 .. n |-> e]
  <2>1. g \in [0 .. n -> L] /\ Upto(g, 0)
    OBVIOUS
  <2>2. 0 \in 0 .. n
    OBVIOUS
  <2> HIDE DEF g, Upto
  <2> QED
    BY <2>1, <2>2
<1>2. ASSUME NEW k \in 0 .. n, k \in S, k < n PROVE k + 1 \in S
  <2>1. PICK g \in [0 .. n -> L] : Upto(g, k)
    BY <1>2
  <2> DEFINE h == [g EXCEPT ![k + 1] = step[k + 1][g[k]]]
  <2>2. k + 1 \in 1 .. n /\ k + 1 \in 0 .. n /\ (k + 1) - 1 = k
    BY <1>2
  <2>3. step[k + 1][g[k]] \in L
    BY <2>2
  <2>4. h \in [0 .. n -> L] /\ h[k + 1] = step[k + 1][g[k]]
    BY <2>2, <2>3
  <2>5. \A i \in 0 .. k : h[i] = g[i]
    BY <1>2
  <2> HIDE DEF h
  <2>6. h[0] = e
    BY <2>1, <2>5
  <2>7. \A i \in 1 .. k : h[i] = step[i][h[i - 1]]
    BY <2>1, <2>5
  <2>8. h[k + 1] = step[k + 1][h[(k + 1) - 1]]
    BY <2>2, <2>4, <2>5
  <2>9. \A i \in 1 .. k + 1 : i \in 1 .. k \/ i = k + 1
    OBVIOUS
  <2>10. \A i \in 1 .. k + 1 : h[i] = step[i][h[i - 1]]
    BY <2>7, <2>8, <2>9
  <2> QED
    BY <2>2, <2>4, <2>6, <2>10
<1>3. n \in S
  <2> HIDE DEF S
  <2>1. \A k \in 0 .. n : k \in S /\ k < n => k + 1 \in S
    BY <1>2
  <2>2. \A k \in 0 .. n : k \in S
    BY <1>1, <2>1, UpTo
  <2> QED
    BY <2>2
<1> QED
  BY <1>3

LEMMA ElementsOf ==
  ASSUME NEW T, NEW U, NEW q \in Seq(T), \A i \in 1 .. Len(q) : q[i] \in U
  PROVE  q \in Seq(U)
OBVIOUS

LEMMA ThreeElements ==
  ASSUME NEW T, NEW a \in T, NEW b \in T, NEW c \in T
  PROVE  <<a, b, c>> \in Seq(T) /\ Len(<<a, b, c>>) = 3
OBVIOUS

LEMMA EmptyLength ==
  ASSUME NEW T, NEW q \in Seq(T) PROVE q = <<>> <=> Len(q) = 0
OBVIOUS

(* A list without its first element.                                       *)
LEMMA TailFacts ==
  ASSUME NEW T, NEW q \in Seq(T), q # <<>>
  PROVE  /\ Len(q) \in Nat \ {0}
         /\ Head(q) = q[1] /\ Head(q) \in T
         /\ Tail(q) \in Seq(T) /\ Len(Tail(q)) = Len(q) - 1
         /\ \A i \in 1 .. Len(q) - 1 : Tail(q)[i] = q[i + 1]
         /\ DOMAIN Tail(q) = 1 .. Len(q) - 1
         /\ DOMAIN q = 1 .. Len(q)
OBVIOUS

LEMMA TailRange ==
  ASSUME NEW T, NEW q \in Seq(T), q # <<>>
  PROVE  Range(q) = {Head(q)} \cup Range(Tail(q))
<1>1. Range(q) \subseteq {Head(q)} \cup Range(Tail(q))
  <2> SUFFICES ASSUME NEW i \in 1 .. Len(q), i # 1
               PROVE  q[i] \in Range(Tail(q))
    BY TailFacts DEF Range
  <2>1. i - 1 \in 1 .. Len(q) - 1 /\ q[i] = Tail(q)[i - 1]
    BY TailFacts
  <2> QED
    BY <2>1, TailFacts DEF Range
<1>2. {Head(q)} \cup Range(Tail(q)) \subseteq Range(q)
  <2>1. \A i \in 1 .. Len(q) - 1 : i + 1 \in 1 .. Len(q)
    BY TailFacts
  <2> QED
    BY <2>1, TailFacts DEF Range
<1> QED
  BY <1>1, <1>2

(* A list without its first k - 1 elements.                                *)
Rest(q, k) == SubSeq(q, k, Len(q))

LEMMA RestFacts ==
  ASSUME NEW T, NEW q \in Seq(T), NEW k \in 1 .. Len(q) + 1
  PROVE  /\ Rest(q, k) \in Seq(T)
         /\ Len(Rest(q, k)) = Len(q) - k + 1
         /\ Len(q) \in Nat
         /\ \A i \in 1 .. Len(q) - k + 1 : Rest(q, k)[i] = q[k + i - 1]
         /\ k = Len(q) + 1 => Rest(q, k) = <<>>
         /\ k # Len(q) + 1 => Rest(q, k) # <<>>
<1>1. Len(q) \in Nat /\ DOMAIN q = 1 .. Len(q)
  OBVIOUS
<1>2. \A i \in 1 .. Len(q) - k + 1 : k + i - 1 \in 1 .. Len(q)
  BY <1>1
<1>3. /\ Rest(q, k) \in Seq(T)
      /\ Len(Rest(q, k)) = Len(q) - k + 1
      /\ \A i \in 1 .. Len(q) - k + 1 : Rest(q, k)[i] = q[k + i - 1]
  BY <1>1, <1>2 DEF Rest
<1>4. \A r \in Seq(T) : r = <<>> <=> Len(r) = 0
  OBVIOUS
<1> QED
  BY <1>1, <1>3, <1>4

(* Its first element is none of the others if it has no element twice.     *)
LEMMA TailInjective ==
  ASSUME NEW T, NEW q \in Seq(T), q # <<>>, IsInjective(q)
  PROVE  IsInjective(Tail(q)) /\ Head(q) \notin Range(Tail(q))
<1>1. \A i, j \in 1 .. Len(q) : q[i] = q[j] => i = j
  BY TailFacts DEF IsInjective
<1>2. \A i \in 1 .. Len(q) - 1 : i + 1 \in 1 .. Len(q) /\ i + 1 # 1
  BY TailFacts
<1>3. Head(q) \notin Range(Tail(q))
  BY <1>1, <1>2, TailFacts DEF Range
<1>4. \A i, j \in 1 .. Len(q) - 1 : Tail(q)[i] = Tail(q)[j] => i = j
  <2> SUFFICES ASSUME NEW i \in 1 .. Len(q) - 1, NEW j \in 1 .. Len(q) - 1,
                      Tail(q)[i] = Tail(q)[j]
               PROVE  i = j
    OBVIOUS
  <2>1. i + 1 = j + 1
    BY <1>1, <1>2, TailFacts
  <2> QED
    BY <2>1
<1> QED
  BY <1>3, <1>4, TailFacts DEF IsInjective

-----------------------------------------------------------------------------
(* q stands in r, after the first o elements.                              *)
Block(q, o, r) ==
  /\ o + Len(q) <= Len(r)
  /\ \A m \in 1 .. Len(q) : r[o + m] = q[m]

LEMMA BlockOfConcat ==
  ASSUME NEW T, NEW p \in Seq(T), NEW q \in Seq(T)
  PROVE  /\ p \o q \in Seq(T)
         /\ Len(p \o q) = Len(p) + Len(q)
         /\ Len(p) \in Nat /\ Len(q) \in Nat
         /\ Block(q, Len(p), p \o q)
         /\ \A x \in Seq(T), o \in Nat : Block(x, o, p) => Block(x, o, p \o q)
<1> DEFINE r == p \o q
<1>1. /\ r \in Seq(T) /\ Len(r) = Len(p) + Len(q)
      /\ Len(p) \in Nat /\ Len(q) \in Nat
      /\ \A i \in 1 .. Len(p) : r[i] = p[i]
      /\ \A i \in 1 .. Len(q) : r[Len(p) + i] = q[i]
  OBVIOUS
<1> HIDE DEF r
<1>2. Block(q, Len(p), r)
  BY <1>1 DEF Block
<1>3. ASSUME NEW x \in Seq(T), NEW o \in Nat, Block(x, o, p)
      PROVE  Block(x, o, r)
  <2>1. Len(x) \in Nat /\ o + Len(x) <= Len(p)
    BY <1>3 DEF Block
  <2>2. \A m \in 1 .. Len(x) : o + m \in 1 .. Len(p)
    BY <2>1, <1>1
  <2> QED
    BY <2>1, <2>2, <1>1, <1>3 DEF Block
<1> QED
  BY <1>1, <1>2, <1>3 DEF r

(* FlattenSeq puts the sequences one after the other, nothing else.        *)
LEMMA FlattenFacts ==
  ASSUME NEW T, NEW ss \in Seq(Seq(T))
  PROVE  LET r == FlattenSeq(ss)
         IN  /\ r \in Seq(T)
             /\ \A i \in 1 .. Len(ss) : \E o \in Nat : Block(ss[i], o, r)
             /\ \A k \in 1 .. Len(r) :
                  \E i \in 1 .. Len(ss), o \in Nat :
                    o < k /\ k <= o + Len(ss[i]) /\ Block(ss[i], o, r)
<1> DEFINE n == Len(ss)
           Spells(f) == f = [i \in 1 .. n |-> IF i = 1 THEN ss[i] ELSE f[i - 1] \o ss[i]]
           flatten == CHOOSE f : Spells(f)
<1>1. n \in Nat /\ \A i \in 1 .. n : ss[i] \in Seq(T)
  OBVIOUS
<1>2. CASE n = 0
  <2>1. ss = <<>> /\ FlattenSeq(ss) = ss
    BY <1>2 DEF FlattenSeq
  <2>2. <<>> \in Seq(T) /\ Len(<<>>) = 0
    OBVIOUS
  <2>3. FlattenSeq(ss) = <<>>
    BY <2>1, Zenon
  <2> QED
    BY <2>2, <2>3, <1>2
<1>3. CASE n # 0
  <2>1. \E f : Spells(f)
    <3> DEFINE Right(g, i) == g[i] = IF i = 1 THEN ss[i] ELSE g[i - 1] \o ss[i]
               S == {k \in 0 .. n : \E g \in [1 .. n -> Seq(T)] :
                                      \A i \in 1 .. k : Right(g, i)}
    <3>1. 0 \in S
      <4>1. [i \in 1 .. n |-> <<>>] \in [1 .. n -> Seq(T)]
        OBVIOUS
      <4> QED
        BY <4>1, <1>1
    <3>2. ASSUME NEW k \in 0 .. n, k \in S, k < n PROVE k + 1 \in S
      <4>1. PICK g \in [1 .. n -> Seq(T)] : \A i \in 1 .. k : Right(g, i)
        BY <3>2
      <4> DEFINE next == IF k = 0 THEN ss[1] ELSE g[k] \o ss[k + 1]
                 h == [g EXCEPT ![k + 1] = next]
      <4>2. next \in Seq(T)
        <5>1. CASE k = 0
          BY <5>1, <1>1, <3>2
        <5>2. CASE k # 0
          <6>1. g[k] \in Seq(T) /\ ss[k + 1] \in Seq(T)
            BY <5>2, <1>1, <3>2
          <6> QED
            BY <5>2, <6>1, BlockOfConcat
        <5> QED
          BY <5>1, <5>2
      <4>3. h \in [1 .. n -> Seq(T)]
        BY <4>2
      <4>4. k + 1 \in 1 .. n /\ h[k + 1] = next
        BY <1>1, <3>2
      <4>5. \A i \in 1 .. k : i \in 1 .. n /\ h[i] = g[i] /\ (i # 1 => i - 1 \in 1 .. n /\ h[i - 1] = g[i - 1])
        BY <1>1, <3>2, SMTT(20)
      <4> HIDE DEF h
      <4>6. ASSUME NEW i \in 1 .. k PROVE Right(h, i)
        BY <4>1, <4>5
      <4>7. Right(h, k + 1)
        <5>1. CASE k = 0
          BY <5>1, <4>4
        <5>2. CASE k # 0
          <6>1. (k + 1) - 1 = k /\ k + 1 # 1 /\ h[k] = g[k]
            BY <5>2, <4>5, <1>1
          <6> QED
            BY <5>2, <6>1, <4>4
        <5> QED
          BY <5>1, <5>2
      <4>8. \A i \in 1 .. k + 1 : Right(h, i)
        <5>1. \A i \in 1 .. k + 1 : i \in 1 .. k \/ i = k + 1
          BY <1>1, <3>2
        <5> HIDE DEF Right
        <5> QED
          BY <5>1, <4>6, <4>7
      <4>9. k + 1 \in 0 .. n
        BY <1>1, <3>2
      <4> QED
        BY <4>3, <4>8, <4>9
    <3>3. n \in S
      <4> HIDE DEF S
      <4>1. \A k \in 0 .. n : k \in S /\ k < n => k + 1 \in S
        BY <3>2
      <4>2. \A k \in 0 .. n : k \in S
        BY <1>1, <3>1, <4>1, UpTo
      <4> QED
        BY <1>1, <4>2
    <3>4. PICK g \in [1 .. n -> Seq(T)] : \A i \in 1 .. n : Right(g, i)
      BY <3>3
    <3>5. Spells(g)
      BY <3>4, Zenon
    <3> QED
      BY <3>5
  <2>2. Spells(flatten)
    BY <2>1, Zenon
  <2>3. FlattenSeq(ss) = flatten[n]
    BY <1>3 DEF FlattenSeq
  <2> HIDE DEF flatten
  <2>4. flatten[1] = ss[1] /\ 1 \in 1 .. n
    BY <2>2, <1>1, <1>3
  <2>5. \A i \in 1 .. n : i # 1 => flatten[i] = flatten[i - 1] \o ss[i]
    BY <2>2
  <2> DEFINE Good(k, r) ==
               /\ r \in Seq(T)
               /\ \A i \in 1 .. k : \E o \in Nat : Block(ss[i], o, r)
               /\ \A j \in 1 .. Len(r) :
                    \E i \in 1 .. k, o \in Nat :
                      o < j /\ j <= o + Len(ss[i]) /\ Block(ss[i], o, r)
             S == {k \in 0 .. n : k # 0 => Good(k, flatten[k])}
  <2>6. 0 \in S
    BY <1>1
  <2>7. ASSUME NEW k \in 0 .. n, k \in S, k < n PROVE k + 1 \in S
    <3>1. CASE k = 0
      <4>1. Block(ss[1], 0, ss[1]) /\ ss[1] \in Seq(T) /\ Len(ss[1]) \in Nat
        BY <1>1, <2>4 DEF Block
      <4> QED
        BY <4>1, <3>1, <2>4
    <3>2. CASE k # 0
      <4> DEFINE p == flatten[k]
                 q == ss[k + 1]
                 r == flatten[k + 1]
      <4>1. Good(k, p) /\ q \in Seq(T) /\ k + 1 \in 1 .. n /\ k \in Nat
        BY <2>7, <3>2, <1>1
      <4>2. r = p \o q
        <5>1. (k + 1) - 1 = k /\ k + 1 # 1
          BY <4>1, <3>2
        <5> QED
          BY <2>5, <4>1, <5>1
      <4> HIDE DEF p, q, r
      <4>3. /\ r \in Seq(T) /\ Len(r) = Len(p) + Len(q)
            /\ Len(p) \in Nat /\ Len(q) \in Nat
            /\ Block(q, Len(p), r)
            /\ \A x \in Seq(T), o \in Nat : Block(x, o, p) => Block(x, o, r)
        BY <4>1, <4>2, BlockOfConcat
      <4>4. \A i \in 1 .. k : i \in 1 .. n /\ ss[i] \in Seq(T)
        BY <4>1, <1>1
      <4>5. ASSUME NEW i \in 1 .. k + 1
            PROVE  \E o \in Nat : Block(ss[i], o, r)
        <5>1. CASE i = k + 1
          BY <5>1, <4>3 DEF q
        <5>2. CASE i # k + 1
          <6>1. i \in 1 .. k
            BY <5>2, <4>1
          <6> QED
            BY <6>1, <4>1, <4>3, <4>4
        <5> QED
          BY <5>1, <5>2
      <4>6. ASSUME NEW j \in 1 .. Len(r)
            PROVE  \E i \in 1 .. k + 1, o \in Nat :
                     o < j /\ j <= o + Len(ss[i]) /\ Block(ss[i], o, r)
        <5>1. CASE j <= Len(p)
          <6>1. j \in 1 .. Len(p)
            BY <5>1, <4>3
          <6>2. PICK i \in 1 .. k, o \in Nat :
                  o < j /\ j <= o + Len(ss[i]) /\ Block(ss[i], o, p)
            BY <6>1, <4>1
          <6>3. i \in 1 .. k + 1 /\ Block(ss[i], o, r)
            BY <6>2, <4>1, <4>3, <4>4, SMTT(20)
          <6> QED
            BY <6>2, <6>3
        <5>2. CASE j > Len(p)
          <6>1. Len(p) < j /\ j <= Len(p) + Len(ss[k + 1])
            BY <5>2, <4>3 DEF q
          <6>2. Block(ss[k + 1], Len(p), r) /\ k + 1 \in 1 .. k + 1
            BY <4>3, <4>1 DEF q
          <6> QED
            BY <6>1, <6>2, <4>3
        <5> QED
          BY <5>1, <5>2, <4>3
      <4>7. Good(k + 1, r)
        BY <4>3, <4>5, <4>6
      <4> QED
        BY <4>1, <4>7 DEF r
    <3> QED
      BY <3>1, <3>2
  <2>8. n \in S
    <3> HIDE DEF S
    <3>1. \A k \in 0 .. n : k \in S /\ k < n => k + 1 \in S
      BY <2>7
    <3>2. \A k \in 0 .. n : k \in S
      BY <1>1, <2>6, <3>1, UpTo
    <3> QED
      BY <1>1, <3>2
  <2>9. Good(n, flatten[n])
    BY <2>8, <1>3
  <2> QED
    BY <2>9, <2>3
<1> QED
  BY <1>2, <1>3
-----------------------------------------------------------------------------
(* Sequences whose elements have no common type.                           *)
IsSeq(s) == s \in Seq(ToSet(s))

LEMMA IsSeqFacts ==
  ASSUME NEW s, IsSeq(s)
  PROVE  Len(s) \in Nat /\ DOMAIN s = 1 .. Len(s)
  <1> DEFINE T == ToSet(s)
  <1>1. s \in Seq(T)
    BY DEF IsSeq
  <1> HIDE DEF T
  <1>2. QED
    BY <1>1

LEMMA IsSeqOf ==
  ASSUME NEW n \in Nat, NEW s, DOMAIN s = 1 .. n, s = [i \in 1 .. n |-> s[i]]
  PROVE  IsSeq(s) /\ Len(s) = n
  <1> DEFINE T == ToSet(s)
  <1>1. \A i \in 1 .. n : s[i] \in T
    BY DEF ToSet
  <1> HIDE DEF T
  <1>2. s \in Seq(T) /\ Len(s) = n
    BY <1>1
  <1>3. QED
    BY <1>2 DEF IsSeq, T

\* r is s and then t.
Joined(r, s, t) ==
  /\ IsSeq(r) /\ Len(r) = Len(s) + Len(t)
  /\ \A i \in 1 .. Len(s) : r[i] = s[i]
  /\ \A i \in 1 .. Len(t) : r[Len(s) + i] = t[i]

LEMMA ConcatIsSeq ==
  ASSUME NEW s, NEW t, IsSeq(s), IsSeq(t)
  PROVE  Joined(s \o t, s, t)
  <1> DEFINE T == ToSet(s) \cup ToSet(t)
             r == s \o t
  <1>1. \A i \in 1 .. Len(s) : s[i] \in T
    BY IsSeqFacts DEF ToSet
  <1>2. \A i \in 1 .. Len(t) : t[i] \in T
    BY IsSeqFacts DEF ToSet
  <1>3. s \in Seq(ToSet(s)) /\ t \in Seq(ToSet(t))
    BY DEF IsSeq
  <1>4. s \in Seq(T) /\ t \in Seq(T)
    BY <1>3
  <1> HIDE DEF T
  <1>5. /\ r \in Seq(T) /\ Len(r) = Len(s) + Len(t)
        /\ \A i \in 1 .. Len(s) : r[i] = s[i]
        /\ \A i \in 1 .. Len(t) : r[Len(s) + i] = t[i]
    BY <1>4
  <1> HIDE DEF r
  <1>6. Len(r) \in Nat /\ DOMAIN r = 1 .. Len(r) /\ r = [i \in 1 .. Len(r) |-> r[i]]
    BY <1>5
  <1>7. IsSeq(r)
    BY <1>6, IsSeqOf
  <1>8. QED
    BY <1>5, <1>7 DEF r, Joined

LEMMA SingleIsSeq ==
  ASSUME NEW e
  PROVE  IsSeq(<<e>>) /\ Len(<<e>>) = 1 /\ <<e>>[1] = e
  BY DEF IsSeq, ToSet

\* r is e and then s.
Headed(r, e, s) ==
  /\ IsSeq(r) /\ Len(r) = Len(s) + 1 /\ r[1] = e
  /\ \A i \in 2 .. Len(s) + 1 : r[i] = s[i - 1]

LEMMA PrependIsSeq ==
  ASSUME NEW e, NEW s, IsSeq(s)
  PROVE  Headed(<<e>> \o s, e, s)
  <1> DEFINE t == <<e>>
             r == t \o s
  <1>1. IsSeq(t) /\ Len(t) = 1 /\ t[1] = e
    BY SingleIsSeq, Zenon
  <1>2. Len(s) \in Nat
    BY IsSeqFacts
  <1> HIDE DEF t
  <1>3. Joined(r, t, s)
    BY <1>1, ConcatIsSeq, Zenon
  <1> HIDE DEF r
  <1>4. Len(r) = Len(s) + 1 /\ r[1] = e
    BY <1>1, <1>2, <1>3 DEF Joined
  <1>5. ASSUME NEW i \in 2 .. Len(s) + 1 PROVE r[i] = s[i - 1]
    <2>1. i - 1 \in 1 .. Len(s) /\ 1 + (i - 1) = i
      BY <1>2
    <2>2. QED
      BY <1>1, <1>3, <2>1 DEF Joined
  <1>6. QED
    BY <1>3, <1>4, <1>5, Zenon DEF Headed, Joined, r, t

=============================================================================
