----------------------------- MODULE DataLemmas -----------------------------
(***************************************************************************)
(* What the proofs need to know of the data of the models: least elements, *)
(* induction stated of a set of numbers, lists that lose elements (Keep)   *)
(* or gain one (InsertAt), and sums over finite sets.                      *)
(***************************************************************************)
EXTENDS Integers, Sequences, FiniteSets, FiniteSetsExt, Functions, SequencesExt, Keeping,
        TLAPS, SequenceTheorems, FiniteSetTheorems, WellFoundedInduction

(* The least element of a set of numbers.                                  *)
LEMMA LeastElement ==
  ASSUME NEW S, S \subseteq Nat, S # {}
  PROVE  \E x \in S : \A y \in S : x <= y
<1>1. IsWellFoundedOn(OpToRel(<, Nat), Nat)
    BY NatLessThanWellFounded
<1>2. PICK x \in S : \A y \in S : ~(<<y, x>> \in OpToRel(<, Nat))
    BY <1>1, WFMin
<1>3. \A y \in S : ~(y < x)
    BY <1>2 DEF OpToRel
<1> QED BY <1>3

LEMMA MinIsLeast ==
  ASSUME NEW S, S \subseteq Nat, S # {}
  PROVE  Min(S) \in S /\ \A y \in S : Min(S) <= y
<1> QED BY LeastElement DEF Min

LEMMA MinMaxOfTwo ==
  ASSUME NEW a \in Int, NEW b \in Int
  PROVE  /\ Min({a, b}) = IF a <= b THEN a ELSE b
         /\ Max({a, b}) = IF a <= b THEN b ELSE a
BY DEF Min, Max

(* Induction, for the set of the numbers that have a property. *)
LEMMA Induction ==
  ASSUME NEW A, 0 \in A, \A n \in Nat : n \in A => n + 1 \in A
  PROVE  Nat \subseteq A
<1> SUFFICES ASSUME Nat \ A # {} PROVE FALSE
    OBVIOUS
<1>1. PICK n \in Nat \ A : \A m \in Nat \ A : n <= m
    BY LeastElement
<1>2. n # 0 /\ n - 1 \in Nat /\ ~(n <= n - 1) /\ (n - 1) + 1 = n
    BY <1>1
<1> QED BY <1>1, <1>2

-----------------------------------------------------------------------------
(* The function that Keep computes. *)
Upto(s, K, f) ==
  f = [i \in 0..Len(s) |->
         IF i = 0 THEN <<>>
         ELSE IF s[i] \in K THEN Append(f[i - 1], s[i]) ELSE f[i - 1]]

LEMMA UptoExists ==
  ASSUME NEW S, NEW s \in Seq(S), NEW K
  PROVE  \E f : Upto(s, K, f)
<1> DEFINE step(f, i) == f[i] = IF s[i] \in K THEN Append(f[i - 1], s[i]) ELSE f[i - 1]
           computes(n, f) == f[0] = <<>> /\ \A i \in 1..n : step(f, i)
           A == {n \in Nat : n <= Len(s) => \E f \in [0..n -> Seq(S)] : computes(n, f)}
<1>0. Len(s) \in Nat
    BY LenProperties
<1>1. 0 \in A
    <2> DEFINE f == [i \in 0..0 |-> <<>>]
    <2>1. f \in [0..0 -> Seq(S)] /\ f[0] = <<>> /\ 1..0 = {}
        BY EmptySeq
    <2>2. computes(0, f)
        BY <2>1
    <2> HIDE DEF f, computes
    <2> QED BY <2>1, <2>2
<1>2. ASSUME NEW n \in Nat, n \in A PROVE n + 1 \in A
    <2> HIDE DEF computes
    <2> SUFFICES ASSUME n + 1 <= Len(s)
                 PROVE  \E f \in [0..(n + 1) -> Seq(S)] : computes(n + 1, f)
        OBVIOUS
    <2>1. PICK f \in [0..n -> Seq(S)] : computes(n, f)
        BY <1>0, <1>2
    <2> USE DEF computes
    <2> DEFINE e == IF s[n + 1] \in K THEN Append(f[n], s[n + 1]) ELSE f[n]
               g == [i \in 0..(n + 1) |-> IF i = n + 1 THEN e ELSE f[i]]
    <2>2. s[n + 1] \in S
        BY <1>0, ElementOfSeq
    <2>3. e \in Seq(S)
        BY <2>2, AppendProperties
    <2>4. g \in [0..(n + 1) -> Seq(S)]
        BY <2>3
    <2>5. g[n + 1] = e /\ \A i \in 0..n : g[i] = f[i]
        OBVIOUS
    <2> HIDE DEF g
    <2>6. step(g, n + 1)
        BY <2>5
    <2>7. ASSUME NEW i \in 1..n PROVE step(g, i)
        <3>1. i \in 0..n /\ i - 1 \in 0..n
            OBVIOUS
        <3> QED BY <2>1, <2>5, <3>1
    <2>8. 1..(n + 1) = 1..n \union {n + 1} /\ 0 \in 0..n
        OBVIOUS
    <2> HIDE DEF step
    <2>9. computes(n + 1, g)
        BY <2>1, <2>5, <2>6, <2>7, <2>8
    <2> HIDE DEF computes
    <2> QED BY <2>4, <2>9
<1>3. Len(s) \in A
    <2> HIDE DEF A
    <2> QED BY <1>0, <1>1, <1>2, Induction
<1>4. PICK f \in [0..Len(s) -> Seq(S)] : computes(Len(s), f)
    BY <1>0, <1>3
<1>5. ASSUME NEW i \in 0..Len(s)
      PROVE  f[i] = IF i = 0 THEN <<>>
                    ELSE IF s[i] \in K THEN Append(f[i - 1], s[i]) ELSE f[i - 1]
    <2>1. i = 0 \/ i \in 1..Len(s)
        BY <1>0
    <2> QED BY <1>4, <2>1
<1> QED BY <1>5 DEF Upto

LEMMA KeepIsUpto ==
  ASSUME NEW S, NEW s \in Seq(S), NEW K
  PROVE  \E f : Upto(s, K, f) /\ Keep(s, K) = f[Len(s)]
<1>1. Keep(s, K) = (CHOOSE f : Upto(s, K, f))[Len(s)]
    BY DEF Keep, Upto
<1>2. Upto(s, K, CHOOSE f : Upto(s, K, f))
    BY UptoExists
<1> QED BY <1>1, <1>2

(* t is what is left of s: h says where each of its elements was. *)
Embeds(s, K, t, h) ==
  /\ h \in [1..Len(t) -> 1..Len(s)]
  /\ \A j, k \in 1..Len(t) : j < k => h[j] < h[k]
  /\ \A j \in 1..Len(t) : t[j] = s[h[j]] /\ s[h[j]] \in K
  /\ \A i \in 1..Len(s) : s[i] \in K => \E j \in 1..Len(t) : h[j] = i

LEMMA KeepEmbeds ==
  ASSUME NEW S, NEW s \in Seq(S), NEW K
  PROVE  Keep(s, K) \in Seq(S) /\ \E h : Embeds(s, K, Keep(s, K), h)
<1>1. PICK f : Upto(s, K, f) /\ Keep(s, K) = f[Len(s)]
    BY KeepIsUpto
<1>0. Len(s) \in Nat
    BY LenProperties
<1>2. /\ f[0] = <<>>
      /\ \A i \in 1..Len(s) : f[i] = IF s[i] \in K THEN Append(f[i - 1], s[i]) ELSE f[i - 1]
    <2>1. f = [i \in 0..Len(s) |->
                 IF i = 0 THEN <<>>
                 ELSE IF s[i] \in K THEN Append(f[i - 1], s[i]) ELSE f[i - 1]]
        BY <1>1 DEF Upto
    <2>2. 0 \in 0..Len(s) /\ \A i \in 1..Len(s) : i \in 0..Len(s) /\ i # 0
        BY <1>0
    <2> QED BY <2>1, <2>2
<1> DEFINE embeds(t, n, h) ==
      /\ \A j, k \in 1..Len(t) : j < k => h[j] < h[k]
      /\ \A j \in 1..Len(t) : t[j] = s[h[j]] /\ s[h[j]] \in K
      /\ \A i \in 1..n : s[i] \in K => \E j \in 1..Len(t) : h[j] = i
<1> DEFINE A == {n \in Nat : n <= Len(s) =>
                   f[n] \in Seq(S) /\ \E h \in [1..Len(f[n]) -> 1..n] : embeds(f[n], n, h)}
<1>3. 0 \in A
    <2>1. <<>> \in Seq(S) /\ Len(<<>>) = 0 /\ 1..0 = {}
        BY EmptySeq
    <2>2. [i \in 1..0 |-> 0] \in [1..0 -> 1..0]
        BY <2>1
    <2>3. embeds(<<>>, 0, [i \in 1..0 |-> 0])
        BY <2>1
    <2> QED BY <1>2, <2>1, <2>2, <2>3
<1>4. ASSUME NEW n \in Nat, n \in A PROVE n + 1 \in A
    <2> DEFINE goal == f[n + 1] \in Seq(S)
                       /\ \E h \in [1..Len(f[n + 1]) -> 1..(n + 1)] : embeds(f[n + 1], n + 1, h)
    <2> SUFFICES ASSUME n + 1 <= Len(s) PROVE goal
        <3> HIDE DEF embeds
        <3> QED OBVIOUS
    <2>1. f[n] \in Seq(S) /\ \E h \in [1..Len(f[n]) -> 1..n] : embeds(f[n], n, h)
        BY <1>0, <1>4
    <2>2. PICK h \in [1..Len(f[n]) -> 1..n] : embeds(f[n], n, h)
        BY <2>1
    <2>3. n + 1 \in 1..Len(s) /\ (n + 1) - 1 = n
        BY <1>0
    <2>4. CASE s[n + 1] \notin K
        <3>1. f[n + 1] = f[n]
            BY <1>2, <2>3, <2>4
        <3>2. h \in [1..Len(f[n]) -> 1..(n + 1)]
            OBVIOUS
        <3>3. ASSUME NEW i \in 1..(n + 1), s[i] \in K PROVE i \in 1..n
            BY <2>4, <3>3
        <3>4. embeds(f[n], n + 1, h)
            BY <2>2, <3>3
        <3> HIDE DEF embeds
        <3> QED BY <2>1, <3>1, <3>2, <3>4
    <2>5. CASE s[n + 1] \in K
        <3> DEFINE t == f[n]
                   m == Len(f[n])
                   g == [j \in 1..(m + 1) |-> IF j = m + 1 THEN n + 1 ELSE h[j]]
        <3>1. f[n + 1] = Append(t, s[n + 1])
            BY <1>2, <2>3, <2>5
        <3>2. m \in Nat
            BY <2>1, LenProperties
        <3>3. /\ f[n + 1] \in Seq(S) /\ Len(f[n + 1]) = m + 1
              /\ \A j \in 1..m : f[n + 1][j] = t[j]
              /\ f[n + 1][m + 1] = s[n + 1]
            BY <2>1, <2>3, <3>1, AppendProperties, ElementOfSeq
        <3>4. g \in [1..(m + 1) -> 1..(n + 1)]
            BY <3>2
        <3>11. \A j \in 1..m : h[j] \in 1..n /\ j \in 1..(m + 1) /\ j # m + 1
            BY <2>2, <3>2
        <3>9. g[m + 1] = n + 1 /\ \A j \in 1..m : g[j] = h[j] /\ h[j] \in 1..n
            BY <3>2, <3>11
        <3>10. \A j \in 1..(m + 1) : j \in 1..m \/ j = m + 1
            BY <3>2
        <3> HIDE DEF g
        <3>5. ASSUME NEW j \in 1..(m + 1), NEW k \in 1..(m + 1), j < k PROVE g[j] < g[k]
            <4>1. j \in 1..m /\ g[j] = h[j] /\ h[j] \in 1..n
                BY <3>2, <3>5, <3>9
            <4>2. CASE k = m + 1
                BY <3>9, <4>1, <4>2
            <4>3. CASE k \in 1..m
                BY <2>2, <3>5, <3>9, <4>1, <4>3
            <4> QED BY <3>10, <4>2, <4>3
        <3>6. ASSUME NEW j \in 1..(m + 1) PROVE f[n + 1][j] = s[g[j]] /\ s[g[j]] \in K
            BY <2>2, <2>5, <3>3, <3>9, <3>10
        <3>7. ASSUME NEW i \in 1..(n + 1), s[i] \in K PROVE \E j \in 1..(m + 1) : g[j] = i
            <4>1. CASE i = n + 1
                BY <4>1, <3>2, <3>9
            <4>2. CASE i \in 1..n
                <5>1. PICK j \in 1..m : h[j] = i
                    BY <2>2, <3>7, <4>2
                <5>2. j \in 1..(m + 1) /\ g[j] = i
                    BY <3>2, <3>9, <5>1
                <5> QED BY <5>2
            <4> QED BY <4>1, <4>2
        <3>8. embeds(f[n + 1], n + 1, g)
            BY <3>3, <3>5, <3>6, <3>7
        <3> HIDE DEF embeds
        <3> QED BY <3>3, <3>4, <3>8
    <2> QED BY <2>4, <2>5
<1>5. Len(s) \in A
    <2> HIDE DEF A
    <2> QED BY <1>0, <1>3, <1>4, Induction
<1>6. Keep(s, K) \in Seq(S)
      /\ \E h \in [1..Len(Keep(s, K)) -> 1..Len(s)] : embeds(Keep(s, K), Len(s), h)
    BY <1>0, <1>1, <1>5
<1> QED BY <1>6 DEF Embeds

(* A list that lost elements keeps the others, in their order. *)
LEMMA KeepProperties ==
  ASSUME NEW S, NEW s \in Seq(S), NEW K
  PROVE  /\ Keep(s, K) \in Seq(S) /\ Len(Keep(s, K)) <= Len(s)
         /\ Range(Keep(s, K)) = Range(s) \intersect K
         /\ \A i, j \in 1..Len(Keep(s, K)) :
              i < j => \E k, l \in 1..Len(s) :
                         k < l /\ Keep(s, K)[i] = s[k] /\ Keep(s, K)[j] = s[l]
<1> DEFINE t == Keep(s, K)
<1>0. t \in Seq(S) /\ \E h : Embeds(s, K, t, h)
    BY KeepEmbeds
<1>1. Len(t) \in Nat /\ Len(s) \in Nat
    BY <1>0, LenProperties
<1> HIDE DEF t
<1>2. PICK h : Embeds(s, K, t, h)
    BY <1>0
<1>3. Range(t) = {t[i] : i \in 1..Len(t)} /\ Range(s) = {s[i] : i \in 1..Len(s)}
    BY <1>0, RangeEquality
<1>4. Range(t) = Range(s) \intersect K
    <2>1. ASSUME NEW x \in Range(t) PROVE x \in Range(s) \intersect K
        <3>1. PICK j \in 1..Len(t) : x = t[j]
            BY <1>3
        <3>2. h[j] \in 1..Len(s) /\ x = s[h[j]] /\ x \in K
            BY <1>2, <3>1 DEF Embeds
        <3> QED BY <1>3, <3>2
    <2>2. ASSUME NEW x \in Range(s) \intersect K PROVE x \in Range(t)
        <3>1. PICK i \in 1..Len(s) : x = s[i]
            BY <1>3
        <3>2. PICK j \in 1..Len(t) : h[j] = i
            BY <1>2, <2>2, <3>1 DEF Embeds
        <3> QED BY <1>2, <1>3, <3>1, <3>2 DEF Embeds
    <2> QED BY <2>1, <2>2
<1>5. ASSUME NEW i \in 1..Len(t), NEW j \in 1..Len(t), i < j
      PROVE  \E k, l \in 1..Len(s) : k < l /\ t[i] = s[k] /\ t[j] = s[l]
    BY <1>2, <1>5 DEF Embeds
<1>6. Len(t) <= Len(s)
    <2>1. h \in Injection(1..Len(t), 1..Len(s))
        <3>1. \A j, k \in 1..Len(t) : j # k => j < k \/ k < j
            BY <1>1
        <3>2. \A j, k \in 1..Len(t) : h[j] = h[k] => j = k
            BY <1>2, <3>1 DEF Embeds
        <3> QED BY <1>2, <3>2 DEF Embeds, Injection, IsInjective
    <2>2. /\ IsFiniteSet(1..Len(t)) /\ Cardinality(1..Len(t)) = Len(t)
          /\ IsFiniteSet(1..Len(s)) /\ Cardinality(1..Len(s)) = Len(s)
        <3>1. \A n \in Nat : IsFiniteSet(1..n) /\ Cardinality(1..n) = n
            BY FS_Interval
        <3> QED BY <1>1, <3>1
    <2>3. Cardinality(1..Len(t)) <= Cardinality(1..Len(s))
        BY <2>1, <2>2, FS_Injection
    <2> QED BY <2>2, <2>3
<1> QED BY <1>0, <1>4, <1>5, <1>6 DEF t

(* A list that gains an element. *)
LEMMA InsertAtProperties ==
  ASSUME NEW S, NEW s \in Seq(S), NEW i \in 1..(Len(s) + 1), NEW e \in S
  PROVE  /\ InsertAt(s, i, e) \in Seq(S) /\ Len(InsertAt(s, i, e)) = Len(s) + 1
         /\ \A j \in 1..(Len(s) + 1) :
              InsertAt(s, i, e)[j] = IF j < i THEN s[j] ELSE IF j = i THEN e ELSE s[j - 1]
         /\ Range(InsertAt(s, i, e)) = Range(s) \union {e}
<1> DEFINE a == SubSeq(s, 1, i - 1)
           b == SubSeq(s, i, Len(s))
           t == InsertAt(s, i, e)
<1>1. Len(s) \in Nat /\ i \in Nat /\ 1 <= i /\ i <= Len(s) + 1
    BY LenProperties
<1>2. \A j \in 1..Len(s) : s[j] \in S
    BY ElementOfSeq
<1>3. /\ a \in Seq(S) /\ Len(a) = i - 1
      /\ \A j \in 1..(i - 1) : a[j] = s[j]
    <2>1. /\ a \in Seq(S) /\ Len(a) = IF 1 <= i - 1 THEN (i - 1) - 1 + 1 ELSE 0
          /\ \A j \in 1..((i - 1) - 1 + 1) : a[j] = s[1 + j - 1]
        BY <1>1, <1>2, SubSeqProperties
    <2> QED BY <1>1, <2>1
<1>4. /\ b \in Seq(S) /\ Len(b) = Len(s) - i + 1
      /\ \A j \in 1..(Len(s) - i + 1) : b[j] = s[i + j - 1]
    <2>1. /\ b \in Seq(S) /\ Len(b) = IF i <= Len(s) THEN Len(s) - i + 1 ELSE 0
          /\ \A j \in 1..(Len(s) - i + 1) : b[j] = s[i + j - 1]
        BY <1>1, <1>2, SubSeqProperties
    <2> QED BY <1>1, <2>1
<1>5. <<e>> \in Seq(S) /\ Len(<<e>>) = 1 /\ <<e>>[1] = e
    OBVIOUS
<1> HIDE DEF a, b
<1>6. /\ a \o <<e>> \in Seq(S) /\ Len(a \o <<e>>) = i
      /\ \A j \in 1..i : (a \o <<e>>)[j] = IF j < i THEN s[j] ELSE e
    <2>1. /\ a \o <<e>> \in Seq(S) /\ Len(a \o <<e>>) = (i - 1) + 1
          /\ \A j \in 1..((i - 1) + 1) : (a \o <<e>>)[j] = IF j <= i - 1 THEN a[j] ELSE <<e>>[j - (i - 1)]
        BY <1>3, <1>5, ConcatProperties
    <2>2. ASSUME NEW j \in 1..i PROVE (a \o <<e>>)[j] = IF j < i THEN s[j] ELSE e
        <3>1. CASE j < i
            BY <1>1, <1>3, <2>1, <3>1
        <3>2. CASE j = i
            <4>1. j \in 1..((i - 1) + 1) /\ ~(j <= i - 1) /\ j - (i - 1) = 1 /\ ~(j < i)
                BY <1>1, <3>2
            <4>2. (a \o <<e>>)[j] = <<e>>[1]
                BY <2>1, <4>1
            <4> QED BY <1>5, <4>1, <4>2
        <3>3. j < i \/ j = i
            BY <1>1
        <3> QED BY <3>1, <3>2, <3>3
    <2> QED BY <1>1, <2>1, <2>2
<1>7. t = (a \o <<e>>) \o b
    BY DEF InsertAt, a, b
<1>8. /\ t \in Seq(S) /\ Len(t) = i + (Len(s) - i + 1)
      /\ \A j \in 1..(i + (Len(s) - i + 1)) : t[j] = IF j <= i THEN (a \o <<e>>)[j] ELSE b[j - i]
    <2> DEFINE c == a \o <<e>>
    <2>1. c \in Seq(S) /\ Len(c) = i /\ t = c \o b
        BY <1>6, <1>7
    <2> HIDE DEF c, t, b
    <2>2. /\ c \o b \in Seq(S) /\ Len(c \o b) = i + (Len(s) - i + 1)
          /\ \A j \in 1..(i + (Len(s) - i + 1)) : (c \o b)[j] = IF j <= i THEN c[j] ELSE b[j - i]
        <3>1. /\ c \o b \in Seq(S) /\ Len(c \o b) = Len(c) + Len(b)
              /\ \A j \in 1..(Len(c) + Len(b)) : (c \o b)[j] = IF j <= Len(c) THEN c[j] ELSE b[j - Len(c)]
            BY <1>4, <2>1, ConcatProperties
        <3>2. Len(c) = i /\ Len(b) = Len(s) - i + 1
            BY <1>4, <2>1
        <3> QED BY <3>1, <3>2
    <2> QED BY <2>1, <2>2 DEF c
<1> HIDE DEF t
<1>9. ASSUME NEW j \in 1..(Len(s) + 1)
      PROVE  t[j] = IF j < i THEN s[j] ELSE IF j = i THEN e ELSE s[j - 1]
    <2>1. CASE j <= i
        BY <1>1, <1>6, <1>8, <2>1
    <2>2. CASE i < j
        <3>1. t[j] = b[j - i] /\ j - i \in 1..(Len(s) - i + 1) /\ i + (j - i) - 1 = j - 1
            BY <1>1, <1>8, <2>2
        <3> QED BY <1>1, <1>4, <2>2, <3>1
    <2> QED BY <1>1, <2>1, <2>2
<1>10. t \in Seq(S) /\ Len(t) = Len(s) + 1
    BY <1>1, <1>8
<1>11. Range(t) = {t[j] : j \in 1..(Len(s) + 1)} /\ Range(s) = {s[j] : j \in 1..Len(s)}
    BY <1>10, RangeEquality
<1>12. \A j \in 1..(Len(s) + 1) : t[j] \in Range(s) \union {e}
    <2>1. \A j \in 1..(Len(s) + 1) : j < i \/ j = i \/ (i < j /\ j - 1 \in 1..Len(s))
        BY <1>1
    <2>2. \A j \in 1..(Len(s) + 1) : j < i => j \in 1..Len(s)
        BY <1>1
    <2> QED BY <1>1, <1>9, <1>11, <2>1, <2>2
<1>13. \A j \in 1..Len(s) : s[j] \in Range(t)
    <2> SUFFICES ASSUME NEW j \in 1..Len(s) PROVE s[j] \in Range(t)
        OBVIOUS
    <2>1. CASE j < i
        <3>1. j \in 1..(Len(s) + 1) /\ t[j] = s[j]
            BY <1>1, <1>9, <2>1
        <3> QED BY <1>11, <3>1
    <2>2. CASE ~(j < i)
        <3>1. j + 1 \in 1..(Len(s) + 1) /\ ~(j + 1 < i) /\ j + 1 # i /\ (j + 1) - 1 = j
            BY <1>1, <2>2
        <3>2. t[j + 1] = s[j]
            BY <1>9, <3>1
        <3> QED BY <1>11, <3>1, <3>2
    <2> QED BY <2>1, <2>2
<1>14. e \in Range(t)
    BY <1>1, <1>9, <1>11
<1>15. Range(t) = Range(s) \union {e}
    BY <1>11, <1>12, <1>13, <1>14
<1> QED BY <1>9, <1>10, <1>15 DEF t

(* A list that gains an element at its end. *)
LEMMA RangeAppend ==
  ASSUME NEW S, NEW s \in Seq(S), NEW x \in S
  PROVE  Append(s, x) \in Seq(S) /\ Range(Append(s, x)) = Range(s) \union {x}
<1>1. /\ Append(s, x) \in Seq(S) /\ Len(s) \in Nat /\ Len(Append(s, x)) = Len(s) + 1
      /\ \A i \in 1..Len(s) : Append(s, x)[i] = s[i]
      /\ Append(s, x)[Len(s) + 1] = x
    BY AppendProperties, LenProperties
<1>2. Range(s) = {s[i] : i \in 1..Len(s)}
    BY RangeEquality
<1>3. Range(Append(s, x)) = {Append(s, x)[i] : i \in 1..Len(s) + 1}
    BY <1>1, RangeEquality
<1>4. 1..Len(s) + 1 = 1..Len(s) \union {Len(s) + 1}
    BY <1>1
<1> QED BY <1>1, <1>2, <1>3, <1>4

(* A list that loses its head. *)
LEMMA HeadTailRange ==
  ASSUME NEW S, NEW s \in Seq(S), s # <<>>
  PROVE  /\ Head(s) \in S /\ Head(s) = s[1] /\ Tail(s) \in Seq(S)
         /\ Len(s) \in Nat /\ Len(s) >= 1 /\ Len(Tail(s)) = Len(s) - 1
         /\ \A i \in 1..Len(Tail(s)) : Tail(s)[i] = s[i + 1]
         /\ Range(s) = Range(Tail(s)) \union {Head(s)}
<1>1. Len(s) \in Nat /\ Len(s) >= 1
    BY LenProperties, EmptySeq
<1>2. /\ Head(s) \in S /\ Tail(s) \in Seq(S) /\ Len(Tail(s)) = Len(s) - 1
      /\ \A i \in 1..Len(Tail(s)) : Tail(s)[i] = s[i + 1]
    BY HeadTailProperties
<1>3. Head(s) = s[1]
    BY <1>1
<1>4. Range(s) = {s[i] : i \in 1..Len(s)} /\ Range(Tail(s)) = {Tail(s)[i] : i \in 1..Len(Tail(s))}
    BY <1>2, RangeEquality
<1>5. \A i \in 1..Len(s) : i = 1 \/ (i - 1 \in 1..Len(Tail(s)) /\ (i - 1) + 1 = i)
    BY <1>1, <1>2
<1>6. \A i \in 1..Len(Tail(s)) : i + 1 \in 1..Len(s)
    BY <1>1, <1>2
<1>7. \A i \in 1..Len(s) : s[i] \in Range(Tail(s)) \union {Head(s)}
    BY <1>2, <1>3, <1>4, <1>5
<1>8. \A i \in 1..Len(Tail(s)) : Tail(s)[i] \in Range(s)
    BY <1>2, <1>4, <1>6
<1>9. Head(s) \in Range(s)
    BY <1>1, <1>3, <1>4
<1>10. Range(s) = Range(Tail(s)) \union {Head(s)}
    BY <1>4, <1>7, <1>8, <1>9
<1> QED BY <1>1, <1>2, <1>3, <1>10

(* As many values as arguments, if no two have the same. *)
LEMMA CountDistinct ==
  ASSUME NEW n \in Nat, NEW T, NEW f \in [1..n -> T],
         \A i, j \in 1..n : f[i] = f[j] => i = j,
         \A y \in T : \E i \in 1..n : f[i] = y
  PROVE  IsFiniteSet(T) /\ Cardinality(T) = n
<1>1. IsFiniteSet(1..n) /\ Cardinality(1..n) = n
    <2>1. \A m \in Nat : IsFiniteSet(1..m) /\ Cardinality(1..m) = m
        BY FS_Interval
    <2> QED BY <2>1
<1>3. f \in Bijection(1..n, T)
    BY DEF Bijection, Injection, Surjection, IsInjective
<1>4. ExistsBijection(1..n, T)
    BY <1>3 DEF ExistsBijection
<1> QED BY <1>1, <1>4, FS_Bijection

-----------------------------------------------------------------------------
(* Names for the two ways in which lists grow. *)
Join(s, t) == s \o t
Extend(s, e) == Append(s, e)

LEMMA ExtendJoined ==
  ASSUME NEW S, NEW s \in Seq(S), NEW t \in Seq(S), NEW e \in S
  PROVE  Extend(Join(s, t), e) = Join(s, Extend(t, e))
<1>1. s \o t \in Seq(S) /\ <<e>> \in Seq(S)
    BY ConcatProperties
<1>2. Append(s \o t, e) = (s \o t) \o <<e>>
    BY <1>1, AppendIsConcat
<1>3. Append(t, e) = t \o <<e>>
    BY AppendIsConcat
<1>4. (s \o t) \o <<e>> = s \o (t \o <<e>>)
    BY <1>1, ConcatAssociative
<1> QED BY <1>2, <1>3, <1>4 DEF Join, Extend

(* What Upto says of each element. *)
LEMMA UptoStep ==
  ASSUME NEW S, NEW s \in Seq(S), NEW K, NEW f, Upto(s, K, f)
  PROVE  /\ f[0] = <<>>
         /\ \A i \in 1..Len(s) : f[i] = IF s[i] \in K THEN Append(f[i - 1], s[i]) ELSE f[i - 1]
         /\ \A i \in 0..Len(s) : f[i] \in Seq(S)
<1>0. Len(s) \in Nat
    BY LenProperties
<1>1. /\ f[0] = <<>>
      /\ \A i \in 1..Len(s) : f[i] = IF s[i] \in K THEN Append(f[i - 1], s[i]) ELSE f[i - 1]
    <2>1. f = [i \in 0..Len(s) |->
                 IF i = 0 THEN <<>>
                 ELSE IF s[i] \in K THEN Append(f[i - 1], s[i]) ELSE f[i - 1]]
        BY DEF Upto
    <2>2. 0 \in 0..Len(s) /\ \A i \in 1..Len(s) : i \in 0..Len(s) /\ i # 0
        BY <1>0
    <2> QED BY <2>1, <2>2
<1> DEFINE A == {n \in Nat : n <= Len(s) => f[n] \in Seq(S)}
<1>2. 0 \in A
    BY <1>1, EmptySeq
<1>3. ASSUME NEW n \in Nat, n \in A PROVE n + 1 \in A
    <2> SUFFICES ASSUME n + 1 <= Len(s) PROVE f[n + 1] \in Seq(S)
        OBVIOUS
    <2>1. n + 1 \in 1..Len(s) /\ (n + 1) - 1 = n /\ f[n] \in Seq(S)
        BY <1>0, <1>3
    <2>2. s[n + 1] \in S
        BY <2>1, ElementOfSeq
    <2>3. Append(f[n], s[n + 1]) \in Seq(S)
        BY <2>1, <2>2, AppendProperties
    <2> QED BY <1>1, <2>1, <2>3
<1>4. Nat \subseteq A
    <2> HIDE DEF A
    <2> QED BY <1>2, <1>3, Induction
<1>5. \A i \in 0..Len(s) : i \in A /\ i <= Len(s)
    BY <1>0, <1>4
<1> QED BY <1>1, <1>5

(* The parts of a list lose what the list does. *)
LEMMA KeepConcat ==
  ASSUME NEW S, NEW s \in Seq(S), NEW t \in Seq(S), NEW K
  PROVE  Keep(s \o t, K) = Keep(s, K) \o Keep(t, K)
<1> DEFINE u == s \o t
           m == Len(s)
           n == Len(t)
<1>0. /\ m \in Nat /\ n \in Nat /\ u \in Seq(S) /\ Len(u) = m + n
      /\ \A i \in 1..m : u[i] = s[i]
      /\ \A i \in 1..n : u[m + i] = t[i]
    <2>1. m \in Nat /\ n \in Nat
        BY LenProperties
    <2>2. /\ u \in Seq(S) /\ Len(u) = m + n
          /\ \A i \in 1..(m + n) : u[i] = IF i <= m THEN s[i] ELSE t[i - m]
        BY ConcatProperties
    <2>3. \A i \in 1..m : i \in 1..(m + n) /\ i <= m
        BY <2>1
    <2>4. \A i \in 1..n : m + i \in 1..(m + n) /\ ~(m + i <= m) /\ (m + i) - m = i
        BY <2>1
    <2> HIDE DEF u, m, n
    <2> QED BY <2>1, <2>2, <2>3, <2>4
<1> HIDE DEF u
<1>1. PICK f : Upto(s, K, f) /\ Keep(s, K) = f[m]
    BY KeepIsUpto
<1>2. PICK g : Upto(t, K, g) /\ Keep(t, K) = g[n]
    BY KeepIsUpto
<1>3. PICK h : Upto(u, K, h) /\ Keep(u, K) = h[m + n]
    BY <1>0, KeepIsUpto
<1>4. /\ f[0] = <<>> /\ \A i \in 0..m : f[i] \in Seq(S)
      /\ \A i \in 1..m : f[i] = IF s[i] \in K THEN Append(f[i - 1], s[i]) ELSE f[i - 1]
    BY <1>1, UptoStep
<1>5. /\ g[0] = <<>> /\ \A i \in 0..n : g[i] \in Seq(S)
      /\ \A i \in 1..n : g[i] = IF t[i] \in K THEN Append(g[i - 1], t[i]) ELSE g[i - 1]
    BY <1>2, UptoStep
<1>6. /\ h[0] = <<>>
      /\ \A i \in 1..(m + n) : h[i] = IF u[i] \in K THEN Append(h[i - 1], u[i]) ELSE h[i - 1]
    <2>1. u \in Seq(S) /\ Upto(u, K, h)
        BY <1>0, <1>3
    <2>2. /\ h[0] = <<>>
          /\ \A i \in 1..Len(u) : h[i] = IF u[i] \in K THEN Append(h[i - 1], u[i]) ELSE h[i - 1]
        BY <2>1, UptoStep
    <2> QED BY <1>0, <2>2
<1>9. \A i \in 1..m : s[i] \in S
    BY ElementOfSeq
<1>10. \A i \in 1..n : t[i] \in S
    BY ElementOfSeq
<1> HIDE DEF m, n
<1>7. h[m] = f[m]
    <2> DEFINE A == {i \in Nat : i <= m => h[i] = f[i]}
    <2>1. 0 \in A
        BY <1>4, <1>6
    <2>2. ASSUME NEW i \in Nat, i \in A PROVE i + 1 \in A
        <3> SUFFICES ASSUME i + 1 <= m PROVE h[i + 1] = f[i + 1]
            OBVIOUS
        <3>1. i + 1 \in 1..m /\ i + 1 \in 1..(m + n) /\ (i + 1) - 1 = i /\ h[i] = f[i]
            BY <1>0, <2>2
        <3>2. h[i + 1] = IF u[i + 1] \in K THEN Append(h[i], u[i + 1]) ELSE h[i]
            BY <1>6, <3>1
        <3>3. f[i + 1] = IF s[i + 1] \in K THEN Append(f[i], s[i + 1]) ELSE f[i]
            BY <1>4, <3>1
        <3>4. u[i + 1] = s[i + 1]
            BY <1>0, <3>1
        <3> QED BY <3>1, <3>2, <3>3, <3>4
    <2>3. Nat \subseteq A
        <3> HIDE DEF A
        <3> QED BY <2>1, <2>2, Induction
    <2> QED BY <1>0, <2>3
<1>8. h[m + n] = f[m] \o g[n]
    <2> DEFINE both == [i \in 0..n |-> f[m] \o g[i]]
               A == {i \in Nat : i <= n => h[m + i] = both[i]}
    <2>4. \A i \in 0..n : both[i] = f[m] \o g[i]
        BY Zenon
    <2>5. 0 \in 0..n /\ n \in 0..n /\ m \in 0..m
        BY <1>0
    <2> HIDE DEF both
    <2>6. f[m] \in Seq(S)
        BY <1>4, <2>5
    <2>0. both[n] = f[m] \o g[n] /\ both[0] = f[m] \o g[0]
        BY <2>4, <2>5
    <2>1. 0 \in A
        <3>1. f[m] \o <<>> = f[m]
            BY <2>6, ConcatEmptySeq
        <3> QED BY <1>0, <1>5, <1>7, <2>0, <3>1
    <2>2. ASSUME NEW i \in Nat, i \in A PROVE i + 1 \in A
        <3> SUFFICES ASSUME i + 1 <= n PROVE h[m + (i + 1)] = both[i + 1]
            OBVIOUS
        <3>1. /\ i + 1 \in 1..n /\ m + (i + 1) \in 1..(m + n) /\ (i + 1) - 1 = i
              /\ (m + (i + 1)) - 1 = m + i /\ i \in 0..n /\ i + 1 \in 0..n
            BY <1>0
        <3>2. h[m + i] = both[i]
            BY <2>2, <3>1
        <3>3. u[m + (i + 1)] = t[i + 1] /\ t[i + 1] \in S /\ g[i] \in Seq(S)
            BY <1>0, <1>5, <1>10, <3>1
        <3>6. both[i] = f[m] \o g[i] /\ both[i + 1] = f[m] \o g[i + 1]
            BY <2>4, <3>1
        <3>4. CASE t[i + 1] \in K
            <4>1. h[m + (i + 1)] = Extend(both[i], t[i + 1])
                BY <1>6, <3>1, <3>2, <3>3, <3>4 DEF Extend
            <4>2. g[i + 1] = Extend(g[i], t[i + 1])
                BY <1>5, <3>1, <3>4 DEF Extend
            <4>3. both[i] = Join(f[m], g[i]) /\ both[i + 1] = Join(f[m], g[i + 1])
                BY <3>6 DEF Join
            <4>4. Extend(Join(f[m], g[i]), t[i + 1]) = Join(f[m], Extend(g[i], t[i + 1]))
                BY <2>6, <3>3, ExtendJoined
            <4> QED BY <4>1, <4>2, <4>3, <4>4
        <3>5. CASE t[i + 1] \notin K
            BY <1>5, <1>6, <3>1, <3>2, <3>3, <3>5, <3>6
        <3> QED BY <3>4, <3>5
    <2>3. Nat \subseteq A
        <3> HIDE DEF A
        <3> QED BY <2>1, <2>2, Induction
    <2>7. n \in A
        <3> HIDE DEF A
        <3> QED BY <1>0, <2>3
    <2>8. h[m + n] = both[n]
        BY <1>0, <2>7
    <2> QED BY <2>0, <2>8
<1> QED BY <1>1, <1>2, <1>3, <1>8 DEF u

(* Nothing is lost, or everything. *)
LEMMA KeepAllOrNone ==
  ASSUME NEW S, NEW s \in Seq(S), NEW K
  PROVE  /\ (\A i \in 1..Len(s) : s[i] \in K) => Keep(s, K) = s
         /\ (\A i \in 1..Len(s) : s[i] \notin K) => Keep(s, K) = <<>>
<1>0. Len(s) \in Nat
    BY LenProperties
<1>1. PICK f : Upto(s, K, f) /\ Keep(s, K) = f[Len(s)]
    BY KeepIsUpto
<1>2. /\ f[0] = <<>> /\ \A i \in 0..Len(s) : f[i] \in Seq(S)
      /\ \A i \in 1..Len(s) : f[i] = IF s[i] \in K THEN Append(f[i - 1], s[i]) ELSE f[i - 1]
    BY <1>1, UptoStep
<1>3. ASSUME \A i \in 1..Len(s) : s[i] \in K PROVE Keep(s, K) = s
    <2> DEFINE first(i) == Len(f[i]) = i /\ \A j \in 1..i : f[i][j] = s[j]
               A == {i \in Nat : i <= Len(s) => first(i)}
    <2>1. 0 \in A
        BY <1>2
    <2>2. ASSUME NEW i \in Nat, i \in A PROVE i + 1 \in A
        <3> SUFFICES ASSUME i + 1 <= Len(s) PROVE first(i + 1)
            OBVIOUS
        <3>1. i + 1 \in 1..Len(s) /\ i \in 0..Len(s) /\ (i + 1) - 1 = i /\ first(i)
            BY <1>0, <2>2
        <3>2. f[i + 1] = Append(f[i], s[i + 1]) /\ f[i] \in Seq(S) /\ s[i + 1] \in S
            BY <1>2, <1>3, <3>1, ElementOfSeq
        <3>3. /\ Len(f[i + 1]) = i + 1 /\ f[i + 1][i + 1] = s[i + 1]
              /\ \A j \in 1..i : f[i + 1][j] = f[i][j]
            BY <3>1, <3>2, AppendProperties
        <3>4. \A j \in 1..(i + 1) : j \in 1..i \/ j = i + 1
            OBVIOUS
        <3> QED BY <3>1, <3>3, <3>4
    <2>3. Nat \subseteq A
        <3> HIDE DEF A
        <3> QED BY <2>1, <2>2, Induction
    <2>4. first(Len(s)) /\ f[Len(s)] \in Seq(S)
        BY <1>0, <1>2, <2>3
    <2> QED BY <1>1, <2>4, SeqEqual
<1>4. ASSUME \A i \in 1..Len(s) : s[i] \notin K PROVE Keep(s, K) = <<>>
    <2> DEFINE A == {i \in Nat : i <= Len(s) => f[i] = <<>>}
    <2>1. 0 \in A
        BY <1>2
    <2>2. ASSUME NEW i \in Nat, i \in A PROVE i + 1 \in A
        <3> SUFFICES ASSUME i + 1 <= Len(s) PROVE f[i + 1] = <<>>
            OBVIOUS
        <3>1. i + 1 \in 1..Len(s) /\ (i + 1) - 1 = i /\ f[i] = <<>>
            BY <1>0, <2>2
        <3> QED BY <1>2, <1>4, <3>1
    <2>3. Nat \subseteq A
        <3> HIDE DEF A
        <3> QED BY <2>1, <2>2, Induction
    <2> QED BY <1>0, <1>1, <2>3
<1> QED BY <1>3, <1>4

(* A list cut in two, and put together again. *)
LEMMA CutInTwo ==
  ASSUME NEW S, NEW s \in Seq(S), NEW t \in 0..Len(s)
  PROVE  /\ SubSeq(s, 1, t) \in Seq(S) /\ SubSeq(s, t + 1, Len(s)) \in Seq(S)
         /\ SubSeq(s, 1, t) \o SubSeq(s, t + 1, Len(s)) = s
<1>0. Len(s) \in Nat
    BY LenProperties
<1>1. 1 \in 1..(Len(s) + 1) /\ t \in (1 - 1)..Len(s) /\ Len(s) \in t..Len(s)
    BY <1>0
<1>2. SubSeq(s, 1, t) \o SubSeq(s, t + 1, Len(s)) = SubSeq(s, 1, Len(s))
    BY <1>1, ConcatAdjacentSubSeq
<1>3. \A i \in 1..t : s[i] \in S
    BY <1>0, ElementOfSeq
<1>4. \A i \in (t + 1)..Len(s) : s[i] \in S
    BY <1>0, ElementOfSeq
<1>5. SubSeq(s, 1, t) \in Seq(S)
    BY <1>3, SubSeqProperties
<1>6. SubSeq(s, t + 1, Len(s)) \in Seq(S)
    BY <1>0, <1>4, SubSeqProperties
<1> QED BY <1>2, <1>5, <1>6, SubSeqFull

(* A part of a list. *)
LEMMA Slice ==
  ASSUME NEW S, NEW s \in Seq(S), NEW b \in Nat, NEW e \in Nat, b <= e, e <= Len(s)
  PROVE  /\ SubSeq(s, b + 1, e) \in Seq(S) /\ Len(SubSeq(s, b + 1, e)) = e - b
         /\ \A i \in 1..(e - b) : SubSeq(s, b + 1, e)[i] = s[b + i]
<1>0. Len(s) \in Nat
    BY LenProperties
<1> DEFINE part == SubSeq(s, b + 1, e)
           m == b + 1
<1>1. m \in Int /\ e \in Int /\ \A i \in m..e : i \in 1..Len(s)
    BY <1>0
<1>2. \A i \in m..e : s[i] \in S
    BY <1>1, ElementOfSeq
<1> HIDE DEF m
<1>3. /\ SubSeq(s, m, e) \in Seq(S)
      /\ Len(SubSeq(s, m, e)) = IF m <= e THEN e - m + 1 ELSE 0
      /\ \A i \in 1..(e - m + 1) : SubSeq(s, m, e)[i] = s[m + i - 1]
    BY <1>1, <1>2, SubSeqProperties
<1> DEFINE t == SubSeq(s, m, e)
<1>5. t = part
    BY DEF m
<1> HIDE DEF t, part
<1>4. t \in Seq(S) /\ Len(t) = e - b /\ \A i \in 1..(e - b) : t[i] = s[b + i]
    <2>1. t \in Seq(S) /\ Len(t) = IF m <= e THEN e - m + 1 ELSE 0
        BY <1>3 DEF t
    <2>2. \A i \in 1..(e - m + 1) : t[i] = s[m + i - 1]
        BY <1>3 DEF t
    <2>3. ASSUME NEW i \in 1..(e - b) PROVE i \in 1..(e - m + 1) /\ m + i - 1 = b + i
        BY DEF m
    <2>4. \A i \in 1..(e - b) : t[i] = s[b + i]
        BY <2>2, <2>3
    <2> QED BY <2>1, <2>4 DEF m
<1> QED BY <1>4, <1>5 DEF part

(* What begins a list begins it still when the list has grown. *)
LEMMA PrefixOfConcat ==
  ASSUME NEW S, NEW s \in Seq(S), NEW t \in Seq(S)
  PROVE  /\ IsPrefix(s, s \o t)
         /\ \A p \in Seq(S) : IsPrefix(p, s) => IsPrefix(p, s \o t)
<1>1. ASSUME NEW p \in Seq(S), IsPrefix(p, s) PROVE IsPrefix(p, s \o t)
    <2>1. Len(p) \in Nat /\ Len(s) \in Nat /\ Len(t) \in Nat /\ Len(s \o t) = Len(s) + Len(t)
        BY LenProperties, ConcatProperties
    <2>2. Len(p) <= Len(s) /\ SubSeq(p, 1, Len(p)) = SubSeq(s, 1, Len(p))
        BY <1>1 DEF IsPrefix
    <2>3. CASE Len(p) = 0
        <3>1. SubSeq(p, 1, 0) = <<>> /\ SubSeq(s \o t, 1, 0) = <<>>
            BY SubSeqEmpty
        <3> QED BY <2>1, <2>3, <3>1 DEF IsPrefix
    <2>4. CASE Len(p) # 0
        <3>1. 1 \in 1..Len(s) /\ Len(p) \in 1..Len(s)
            BY <2>1, <2>2, <2>4
        <3>2. SubSeq(s \o t, 1, Len(p)) = SubSeq(s, 1, Len(p))
            BY <3>1, SubSeqOfConcat1
        <3> QED BY <2>1, <2>2, <3>2 DEF IsPrefix
    <2> QED BY <2>3, <2>4
<1>2. IsPrefix(s, s)
    <2>1. Len(s) \in Nat
        BY LenProperties
    <2> QED BY <2>1 DEF IsPrefix
<1> QED BY <1>1, <1>2

-----------------------------------------------------------------------------
(* The function that SumFunctionOnSet computes over the subsets of S. *)
SumStep(f, it, s) ==
  it[s] = IF s = {} THEN 0 ELSE f[CHOOSE x \in s : TRUE] + it[s \ {CHOOSE x \in s : TRUE}]
Sums(f, S, it) ==
  it = [s \in SUBSET S |->
          IF s = {} THEN 0 ELSE LET x == CHOOSE x \in s : TRUE IN f[x] + it[s \ {x}]]

LEMMA SumsStep ==
  ASSUME NEW f, NEW S, NEW it, Sums(f, S, it), NEW s \in SUBSET S
  PROVE  SumStep(f, it, s)
BY DEF Sums, SumStep

(* Taking out the chosen element. *)
LEMMA ChosenSmaller ==
  ASSUME NEW s, IsFiniteSet(s), s # {}, NEW n \in Nat, Cardinality(s) <= n + 1
  PROVE  /\ (CHOOSE x \in s : TRUE) \in s
         /\ Cardinality(s \ {CHOOSE x \in s : TRUE}) <= n
         /\ IsFiniteSet(s \ {CHOOSE x \in s : TRUE})
<1> DEFINE c == CHOOSE x \in s : TRUE
<1>1. c \in s
    OBVIOUS
<1> HIDE DEF c
<1>2. IsFiniteSet(s \ {c}) /\ Cardinality(s \ {c}) = Cardinality(s) - 1
    BY <1>1, FS_RemoveElement
<1>3. Cardinality(s) \in Nat
    BY FS_CardinalityType
<1> QED BY <1>1, <1>2, <1>3 DEF c

LEMMA SumsExists ==
  ASSUME NEW S, IsFiniteSet(S), NEW f, \A x \in S : f[x] \in Int
  PROVE  \E it \in [SUBSET S -> Int] : Sums(f, S, it)
<1> DEFINE sums(n, it) == \A s \in SUBSET S : Cardinality(s) <= n => SumStep(f, it, s)
           A == {n \in Nat : \E it \in [SUBSET S -> Int] : sums(n, it)}
<1>0. \A s \in SUBSET S : IsFiniteSet(s) /\ Cardinality(s) \in Nat
                          /\ Cardinality(s) <= Cardinality(S) /\ Cardinality(S) \in Nat
    BY FS_Subset, FS_CardinalityType
<1>1. 0 \in A
    <2> DEFINE it == [s \in SUBSET S |-> 0]
    <2>1. it \in [SUBSET S -> Int] /\ it[{}] = 0
        OBVIOUS
    <2>2. \A s \in SUBSET S : Cardinality(s) <= 0 => s = {}
        BY <1>0, FS_EmptySet
    <2> HIDE DEF it
    <2>3. sums(0, it)
        BY <2>1, <2>2 DEF SumStep
    <2> HIDE DEF sums
    <2> QED BY <2>1, <2>3
<1>2. ASSUME NEW n \in Nat, n \in A PROVE n + 1 \in A
    <2> HIDE DEF sums
    <2>1. PICK it \in [SUBSET S -> Int] : sums(n, it)
        BY <1>2
    <2> DEFINE more(s) == IF s = {} THEN 0
                          ELSE f[CHOOSE x \in s : TRUE] + it[s \ {CHOOSE x \in s : TRUE}]
               jt == [s \in SUBSET S |-> IF Cardinality(s) <= n THEN it[s] ELSE more(s)]
    <2>2. \A s \in SUBSET S : it[s] \in Int /\ more(s) \in Int
        OBVIOUS
    <2> HIDE DEF more
    <2>3. jt \in [SUBSET S -> Int]
        BY <2>2
    <2>4. \A s \in SUBSET S : jt[s] = IF Cardinality(s) <= n THEN it[s] ELSE more(s)
        OBVIOUS
    <2> HIDE DEF jt
    <2>5. ASSUME NEW s \in SUBSET S, Cardinality(s) <= n + 1 PROVE SumStep(f, jt, s)
        <3> DEFINE c == CHOOSE x \in s : TRUE
        <3>1. CASE s = {}
            <4>1. Cardinality(s) <= n
                BY <3>1, FS_EmptySet
            <4>2. jt[s] = it[s] /\ SumStep(f, it, s)
                BY <2>1, <2>4, <4>1 DEF sums
            <4> QED BY <3>1, <4>2 DEF SumStep
        <3>2. CASE s # {}
            <4>1. c \in s /\ Cardinality(s \ {c}) <= n
                BY <1>0, <2>5, <3>2, ChosenSmaller
            <4> HIDE DEF c
            <4>2. s \ {c} \in SUBSET S /\ jt[s \ {c}] = it[s \ {c}]
                BY <2>4, <4>1
            <4>3. jt[s] = f[c] + it[s \ {c}]
                <5>1. CASE Cardinality(s) <= n
                    BY <2>1, <2>4, <3>2, <5>1 DEF sums, SumStep, c
                <5>2. CASE ~(Cardinality(s) <= n)
                    BY <2>4, <3>2, <5>2 DEF more, c
                <5> QED BY <5>1, <5>2
            <4> QED BY <3>2, <4>2, <4>3 DEF SumStep, c
        <3> QED BY <3>1, <3>2
    <2>6. sums(n + 1, jt)
        BY <2>5 DEF sums
    <2> QED BY <2>3, <2>6
<1>3. Cardinality(S) \in A
    <2> HIDE DEF A
    <2> QED BY <1>0, <1>1, <1>2, Induction
<1>4. PICK it \in [SUBSET S -> Int] : sums(Cardinality(S), it)
    <2> HIDE DEF sums
    <2> QED BY <1>3
<1>5. \A s \in SUBSET S : SumStep(f, it, s)
    BY <1>0, <1>4
<1>6. Sums(f, S, it)
    <2>1. \A s \in SUBSET S :
            it[s] = IF s = {} THEN 0 ELSE LET x == CHOOSE x \in s : TRUE IN f[x] + it[s \ {x}]
        BY <1>5 DEF SumStep
    <2> QED BY <2>1 DEF Sums
<1> QED BY <1>6

LEMMA SumIsSums ==
  ASSUME NEW S, IsFiniteSet(S), NEW f, \A x \in S : f[x] \in Int
  PROVE  \E it : Sums(f, S, it) /\ SumFunctionOnSet(f, S) = it[S]
<1>1. SumFunctionOnSet(f, S) = (CHOOSE it : Sums(f, S, it))[S]
    BY DEF SumFunctionOnSet, FoldFunctionOnSet, MapThenFoldSet, Sums
<1>2. Sums(f, S, CHOOSE it : Sums(f, S, it))
    BY SumsExists
<1> QED BY <1>1, <1>2

(* The sum over a set does not depend on the set it is taken within. *)
LEMMA SumsAgree ==
  ASSUME NEW S, IsFiniteSet(S), NEW T \in SUBSET S, NEW f, NEW g,
         NEW is, Sums(f, S, is), NEW it, Sums(g, T, it), \A x \in T : f[x] = g[x]
  PROVE  is[T] = it[T]
<1> DEFINE A == {n \in Nat : \A s \in SUBSET T : Cardinality(s) <= n => is[s] = it[s]}
<1>0. \A s \in SUBSET T : IsFiniteSet(s) /\ Cardinality(s) \in Nat /\ s \in SUBSET S
    BY FS_Subset, FS_CardinalityType
<1>1. 0 \in A
    <2> SUFFICES ASSUME NEW s \in SUBSET T, Cardinality(s) <= 0 PROVE is[s] = it[s]
        OBVIOUS
    <2>1. s = {}
        BY <1>0, FS_EmptySet
    <2> QED BY <1>0, <2>1, SumsStep DEF SumStep
<1>2. ASSUME NEW n \in Nat, n \in A PROVE n + 1 \in A
    <2> SUFFICES ASSUME NEW s \in SUBSET T, Cardinality(s) <= n + 1 PROVE is[s] = it[s]
        OBVIOUS
    <2>0. SumStep(f, is, s) /\ SumStep(g, it, s)
        BY <1>0, SumsStep
    <2>1. CASE s = {}
        BY <2>0, <2>1 DEF SumStep
    <2>2. CASE s # {}
        <3> DEFINE c == CHOOSE x \in s : TRUE
        <3>1. c \in s /\ Cardinality(s \ {c}) <= n
            BY <1>0, <2>2, ChosenSmaller
        <3>2. is[s] = f[c] + is[s \ {c}] /\ it[s] = g[c] + it[s \ {c}]
            BY <2>0, <2>2 DEF SumStep
        <3> HIDE DEF c
        <3>3. is[s \ {c}] = it[s \ {c}] /\ f[c] = g[c]
            BY <1>2, <3>1
        <3> QED BY <3>2, <3>3
    <2> QED BY <2>1, <2>2
<1>3. Cardinality(T) \in A
    <2> HIDE DEF A
    <2> QED BY <1>0, <1>1, <1>2, Induction
<1> QED BY <1>0, <1>3

(* SumFunctionOnSet, by the element that it takes out first. *)
LEMMA SumChosen ==
  ASSUME NEW f, NEW S, IsFiniteSet(S), \A x \in S : f[x] \in Int
  PROVE  /\ SumFunctionOnSet(f, {}) = 0
         /\ SumFunctionOnSet(f, S) \in Int
         /\ S # {} => SumFunctionOnSet(f, S) =
              f[CHOOSE x \in S : TRUE] + SumFunctionOnSet(f, S \ {CHOOSE x \in S : TRUE})
<1>1. SumFunctionOnSet(f, {}) = 0
    <2>1. PICK it : Sums(f, {}, it) /\ SumFunctionOnSet(f, {}) = it[{}]
        BY FS_EmptySet, SumIsSums
    <2> QED BY <2>1, SumsStep DEF SumStep
<1>2. PICK it \in [SUBSET S -> Int] : Sums(f, S, it)
    BY SumsExists
<1>3. ASSUME NEW T \in SUBSET S PROVE SumFunctionOnSet(f, T) = it[T]
    <2>1. PICK jt : Sums(f, T, jt) /\ SumFunctionOnSet(f, T) = jt[T]
        BY FS_Subset, SumIsSums
    <2> QED BY <1>2, <2>1, SumsAgree
<1>4. SumStep(f, it, S)
    BY <1>2, SumsStep
<1> QED BY <1>1, <1>2, <1>3, <1>4 DEF SumStep

(* Only what f says of the elements of S counts. *)
LEMMA SumSame ==
  ASSUME NEW f, NEW g, NEW S, IsFiniteSet(S),
         \A x \in S : f[x] \in Int /\ g[x] = f[x]
  PROVE  SumFunctionOnSet(g, S) = SumFunctionOnSet(f, S)
<1>1. \A x \in S : g[x] \in Int
    OBVIOUS
<1>2. PICK it : Sums(f, S, it) /\ SumFunctionOnSet(f, S) = it[S]
    BY SumIsSums
<1>3. PICK jt : Sums(g, S, jt) /\ SumFunctionOnSet(g, S) = jt[S]
    BY <1>1, SumIsSums
<1> QED BY <1>2, <1>3, SumsAgree

(* A sum with one element more. *)
LEMMA SumAdd ==
  ASSUME NEW f, NEW D, IsFiniteSet(D), \A y \in D : f[y] \in Int,
         NEW S \in SUBSET D, NEW x \in D, x \notin S
  PROVE  SumFunctionOnSet(f, S \union {x}) = SumFunctionOnSet(f, S) + f[x]
<1> DEFINE sum(T) == SumFunctionOnSet(f, T)
           adds(T) == \A y \in D \ T : sum(T \union {y}) = sum(T) + f[y]
           A == {n \in Nat : \A T \in SUBSET D : Cardinality(T) <= n => adds(T)}
<1>0. /\ \A T \in SUBSET D : IsFiniteSet(T) /\ Cardinality(T) \in Nat
      /\ \A T \in SUBSET D : sum(T) \in Int
      /\ sum({}) = 0
      /\ \A T \in SUBSET D : T # {} =>
           /\ (CHOOSE z \in T : TRUE) \in T
           /\ sum(T) = f[CHOOSE z \in T : TRUE] + sum(T \ {CHOOSE z \in T : TRUE})
    BY FS_Subset, FS_CardinalityType, SumChosen
<1> HIDE DEF sum
<1>1. 0 \in A
    <2> SUFFICES ASSUME NEW T \in SUBSET D, Cardinality(T) <= 0 PROVE adds(T)
        OBVIOUS
    <2>1. T = {}
        BY <1>0, FS_EmptySet
    <2>2. ASSUME NEW y \in D \ T PROVE sum(T \union {y}) = sum(T) + f[y]
        <3>1. T \union {y} = {y} /\ (CHOOSE z \in {y} : TRUE) = y /\ {y} \ {y} = {}
            BY <2>1
        <3>2. {y} \in SUBSET D /\ {y} # {}
            OBVIOUS
        <3>3. sum({y}) = f[y] + 0 /\ f[y] \in Int
            BY <1>0, <3>1, <3>2
        <3> QED BY <1>0, <2>1, <3>1, <3>3
    <2> QED BY <2>2
<1>2. ASSUME NEW n \in Nat, n \in A PROVE n + 1 \in A
    <2> SUFFICES ASSUME NEW T \in SUBSET D, Cardinality(T) <= n + 1 PROVE adds(T)
        OBVIOUS
    <2> SUFFICES ASSUME NEW y \in D \ T PROVE sum(T \union {y}) = sum(T) + f[y]
        OBVIOUS
    <2> DEFINE c == CHOOSE z \in T \union {y} : TRUE
    <2>1. /\ c \in T \union {y} /\ T \union {y} \in SUBSET D
          /\ sum(T \union {y}) = f[c] + sum((T \union {y}) \ {c})
        BY <1>0
    <2> HIDE DEF c
    <2>2. CASE c = y
        <3>1. (T \union {y}) \ {c} = T /\ f[y] \in Int /\ sum(T) \in Int
            BY <1>0, <2>2
        <3>2. sum(T \union {y}) = f[y] + sum(T)
            BY <2>1, <2>2, <3>1, Zenon
        <3> QED BY <3>1, <3>2
    <2>3. CASE c # y
        <3> DEFINE R == T \ {c}
        <3>1. /\ c \in T /\ (T \union {y}) \ {c} = R \union {y} /\ T = R \union {c}
              /\ R \in SUBSET D /\ y \in D \ R /\ c \in D \ R
            BY <2>1, <2>3
        <3>2. Cardinality(R) <= n
            <4>1. Cardinality(R) = Cardinality(T) - 1
                BY <1>0, <3>1, FS_RemoveElement
            <4> QED BY <1>0, <4>1
        <3> HIDE DEF R
        <3>3. sum(R \union {y}) = sum(R) + f[y] /\ sum(R \union {c}) = sum(R) + f[c]
            BY <1>2, <3>1, <3>2
        <3>4. f[y] \in Int /\ f[c] \in Int /\ sum(R) \in Int
            BY <1>0, <3>1
        <3>5. sum(T \union {y}) = f[c] + sum(R \union {y})
            BY <2>1, <3>1, Zenon
        <3>6. sum(T) = sum(R \union {c})
            BY <3>1, Zenon
        <3> QED BY <3>3, <3>4, <3>5, <3>6
    <2> QED BY <2>2, <2>3
<1>3. Cardinality(S) \in A
    <2> HIDE DEF A
    <2> QED BY <1>0, <1>1, <1>2, Induction
<1>4. adds(S)
    BY <1>0, <1>3
<1> QED BY <1>4 DEF sum

(* Sums of numbers are numbers. *)
LEMMA SumNat ==
  ASSUME NEW f, NEW S, IsFiniteSet(S), \A x \in S : f[x] \in Nat
  PROVE  SumFunctionOnSet(f, S) \in Nat
<1> DEFINE sum(T) == SumFunctionOnSet(f, T)
           A == {n \in Nat : \A T \in SUBSET S : Cardinality(T) <= n => sum(T) \in Nat}
<1>0. /\ \A T \in SUBSET S : IsFiniteSet(T) /\ Cardinality(T) \in Nat
      /\ sum({}) = 0
      /\ \A T \in SUBSET S : T # {} =>
           sum(T) = f[CHOOSE z \in T : TRUE] + sum(T \ {CHOOSE z \in T : TRUE})
    <2>1. \A T \in SUBSET S : /\ IsFiniteSet(T) /\ Cardinality(T) \in Nat
                             /\ \A x \in T : f[x] \in Int
        BY FS_Subset, FS_CardinalityType
    <2>2. sum({}) = 0
        BY SumChosen, FS_EmptySet
    <2> QED BY <2>1, <2>2, SumChosen
<1> HIDE DEF sum
<1>1. 0 \in A
    <2> SUFFICES ASSUME NEW T \in SUBSET S, Cardinality(T) <= 0
                 PROVE  sum(T) \in Nat
        OBVIOUS
    <2>1. T = {}
        BY <1>0, FS_EmptySet
    <2> QED BY <1>0, <2>1
<1>2. ASSUME NEW n \in Nat, n \in A PROVE n + 1 \in A
    <2> SUFFICES ASSUME NEW T \in SUBSET S, Cardinality(T) <= n + 1
                 PROVE  sum(T) \in Nat
        OBVIOUS
    <2>1. CASE T = {}
        BY <1>0, <2>1
    <2>2. CASE T # {}
        <3> DEFINE c == CHOOSE z \in T : TRUE
        <3>1. c \in T /\ Cardinality(T \ {c}) <= n
            BY <1>0, <2>2, ChosenSmaller
        <3>2. sum(T) = f[c] + sum(T \ {c})
            BY <1>0, <2>2
        <3> HIDE DEF c
        <3>3. f[c] \in Nat /\ sum(T \ {c}) \in Nat
            BY <1>2, <3>1
        <3> QED BY <3>2, <3>3
    <2> QED BY <2>1, <2>2
<1>3. Cardinality(S) \in A
    <2> HIDE DEF A
    <2> QED BY <1>0, <1>1, <1>2, Induction
<1> QED BY <1>0, <1>3 DEF sum
-----------------------------------------------------------------------------
(* How many elements a list has in a set: the length of what Keep leaves.  *)
LEMMA KeepCounts ==
  ASSUME NEW S, NEW s \in Seq(S), NEW K
  PROVE  \E c \in [0..Len(s) -> Nat] :
           /\ c[0] = 0 /\ Len(Keep(s, K)) = c[Len(s)]
           /\ \A i \in 1..Len(s) : c[i] = IF s[i] \in K THEN c[i - 1] + 1 ELSE c[i - 1]
<1>0. Len(s) \in Nat
    BY LenProperties
<1>1. PICK f : Upto(s, K, f) /\ Keep(s, K) = f[Len(s)]
    BY KeepIsUpto
<1>2. /\ f[0] = <<>> /\ \A i \in 0..Len(s) : f[i] \in Seq(S)
      /\ \A i \in 1..Len(s) : f[i] = IF s[i] \in K THEN Append(f[i - 1], s[i]) ELSE f[i - 1]
    BY <1>1, UptoStep
<1> DEFINE c == [i \in 0..Len(s) |-> Len(f[i])]
<1>3. c \in [0..Len(s) -> Nat]
    BY <1>2, LenProperties
<1>4. c[0] = 0 /\ Len(Keep(s, K)) = c[Len(s)]
    <2>1. 0 \in 0..Len(s) /\ Len(s) \in 0..Len(s)
        BY <1>0
    <2> QED BY <1>1, <1>2, <2>1, EmptySeq
<1>5. ASSUME NEW i \in 1..Len(s)
      PROVE  c[i] = IF s[i] \in K THEN c[i - 1] + 1 ELSE c[i - 1]
    <2>1. i \in 0..Len(s) /\ i - 1 \in 0..Len(s) /\ s[i] \in S
        BY <1>0, ElementOfSeq
    <2>2. c[i] = Len(f[i]) /\ c[i - 1] = Len(f[i - 1]) /\ f[i - 1] \in Seq(S)
        BY <1>2, <2>1
    <2>3. Len(Append(f[i - 1], s[i])) = Len(f[i - 1]) + 1
        BY <2>1, <2>2, AppendProperties
    <2> HIDE DEF c
    <2> QED BY <1>2, <2>2, <2>3
<1> HIDE DEF c
<1> QED BY <1>3, <1>4, <1>5

(* Two lists with the elements that count in the same places. *)
LEMMA KeepSame ==
  ASSUME NEW S, NEW s \in Seq(S), NEW t \in Seq(S), NEW K, NEW M,
         Len(t) = Len(s), \A i \in 1..Len(s) : s[i] \in K <=> t[i] \in M
  PROVE  Len(Keep(s, K)) = Len(Keep(t, M))
<1>0. Len(s) \in Nat
    BY LenProperties
<1>1. PICK c \in [0..Len(s) -> Nat] :
           /\ c[0] = 0 /\ Len(Keep(s, K)) = c[Len(s)]
           /\ \A i \in 1..Len(s) : c[i] = IF s[i] \in K THEN c[i - 1] + 1 ELSE c[i - 1]
    BY KeepCounts
<1>2. \E d \in [0..Len(t) -> Nat] :
           /\ d[0] = 0 /\ Len(Keep(t, M)) = d[Len(t)]
           /\ \A i \in 1..Len(t) : d[i] = IF t[i] \in M THEN d[i - 1] + 1 ELSE d[i - 1]
    BY KeepCounts
<1>3. PICK d : /\ d[0] = 0 /\ Len(Keep(t, M)) = d[Len(s)]
               /\ \A i \in 1..Len(s) : d[i] = IF t[i] \in M THEN d[i - 1] + 1 ELSE d[i - 1]
    BY <1>2
<1> DEFINE A == {i \in Nat : i <= Len(s) => c[i] = d[i]}
<1>4. 0 \in A
    BY <1>1, <1>3
<1>5. ASSUME NEW i \in Nat, i \in A PROVE i + 1 \in A
    <2> SUFFICES ASSUME i + 1 <= Len(s) PROVE c[i + 1] = d[i + 1]
        OBVIOUS
    <2>1. i + 1 \in 1..Len(s) /\ (i + 1) - 1 = i /\ c[i] = d[i]
        BY <1>0, <1>5
    <2>2. c[i + 1] = IF s[i + 1] \in K THEN c[i] + 1 ELSE c[i]
        BY <1>1, <2>1
    <2>3. d[i + 1] = IF t[i + 1] \in M THEN d[i] + 1 ELSE d[i]
        BY <1>3, <2>1
    <2> QED BY <2>1, <2>2, <2>3
<1>6. Nat \subseteq A
    <2> HIDE DEF A
    <2> QED BY <1>4, <1>5, Induction
<1> QED BY <1>0, <1>1, <1>3, <1>6

(* The elements that count are of two kinds. *)
LEMMA KeepParts ==
  ASSUME NEW S, NEW s \in Seq(S), NEW K, NEW L, NEW M,
         \A i \in 1..Len(s) : /\ s[i] \in K <=> (s[i] \in L \/ s[i] \in M)
                              /\ ~(s[i] \in L /\ s[i] \in M)
  PROVE  Len(Keep(s, K)) = Len(Keep(s, L)) + Len(Keep(s, M))
<1>0. Len(s) \in Nat
    BY LenProperties
<1>1. PICK c \in [0..Len(s) -> Nat] :
           /\ c[0] = 0 /\ Len(Keep(s, K)) = c[Len(s)]
           /\ \A i \in 1..Len(s) : c[i] = IF s[i] \in K THEN c[i - 1] + 1 ELSE c[i - 1]
    BY KeepCounts
<1>2. PICK d \in [0..Len(s) -> Nat] :
           /\ d[0] = 0 /\ Len(Keep(s, L)) = d[Len(s)]
           /\ \A i \in 1..Len(s) : d[i] = IF s[i] \in L THEN d[i - 1] + 1 ELSE d[i - 1]
    BY KeepCounts
<1>3. PICK e \in [0..Len(s) -> Nat] :
           /\ e[0] = 0 /\ Len(Keep(s, M)) = e[Len(s)]
           /\ \A i \in 1..Len(s) : e[i] = IF s[i] \in M THEN e[i - 1] + 1 ELSE e[i - 1]
    BY KeepCounts
<1> DEFINE A == {i \in Nat : i <= Len(s) => c[i] = d[i] + e[i]}
<1>4. 0 \in A
    BY <1>1, <1>2, <1>3
<1>5. ASSUME NEW i \in Nat, i \in A PROVE i + 1 \in A
    <2> SUFFICES ASSUME i + 1 <= Len(s) PROVE c[i + 1] = d[i + 1] + e[i + 1]
        OBVIOUS
    <2>1. /\ i + 1 \in 1..Len(s) /\ (i + 1) - 1 = i /\ i \in 0..Len(s)
          /\ c[i] = d[i] + e[i]
        BY <1>0, <1>5
    <2>2. c[i + 1] = IF s[i + 1] \in K THEN c[i] + 1 ELSE c[i]
        BY <1>1, <2>1
    <2>3. d[i + 1] = IF s[i + 1] \in L THEN d[i] + 1 ELSE d[i]
        BY <1>2, <2>1
    <2>4. e[i + 1] = IF s[i + 1] \in M THEN e[i] + 1 ELSE e[i]
        BY <1>3, <2>1
    <2>5. c[i] \in Nat /\ d[i] \in Nat /\ e[i] \in Nat
        BY <1>1, <1>2, <1>3, <2>1
    <2> QED BY <2>1, <2>2, <2>3, <2>4, <2>5
<1>6. Nat \subseteq A
    <2> HIDE DEF A
    <2> QED BY <1>4, <1>5, Induction
<1> QED BY <1>0, <1>1, <1>2, <1>3, <1>6

(* One element more. *)
LEMMA KeepAppended ==
  ASSUME NEW S, NEW s \in Seq(S), NEW e \in S, NEW K
  PROVE  Keep(Append(s, e), K) = IF e \in K THEN Append(Keep(s, K), e) ELSE Keep(s, K)
<1> DEFINE one == <<e>>
<1>1. one \in Seq(S) /\ Len(one) = 1 /\ \A i \in 1..Len(one) : one[i] = e
    OBVIOUS
<1>2. /\ \A r \in Seq(S) : Append(r, e) = r \o one
      /\ Keep(s, K) \in Seq(S)
    BY AppendIsConcat, KeepProperties
<1>3. /\ (\A i \in 1..Len(one) : one[i] \in K) => Keep(one, K) = one
      /\ (\A i \in 1..Len(one) : one[i] \notin K) => Keep(one, K) = <<>>
    BY <1>1, KeepAllOrNone
<1>4. Keep(one, K) = IF e \in K THEN one ELSE <<>>
    BY <1>1, <1>3
<1>5. \A t \in Seq(S) : Keep(s \o t, K) = Keep(s, K) \o Keep(t, K)
    BY KeepConcat
<1>6. Keep(s, K) \o <<>> = Keep(s, K)
    BY <1>2, ConcatEmptySeq
<1> HIDE DEF one
<1>7. Keep(s \o one, K) = Keep(s, K) \o Keep(one, K)
    BY <1>1, <1>5
<1> QED BY <1>2, <1>4, <1>6, <1>7

(* What two walks leave. *)
LEMMA KeepTwice ==
  ASSUME NEW S, NEW s \in Seq(S), NEW J, NEW K
  PROVE  Keep(Keep(s, J), K) = Keep(s, J \intersect K)
<1> DEFINE B == J \intersect K
<1>b. \A x : x \in B <=> (x \in J /\ x \in K)
    OBVIOUS
<1> HIDE DEF B
<1>0. Len(s) \in Nat
    BY LenProperties
<1>1. PICK f : Upto(s, J, f) /\ Keep(s, J) = f[Len(s)]
    BY KeepIsUpto
<1>2. /\ f[0] = <<>> /\ \A i \in 0..Len(s) : f[i] \in Seq(S)
      /\ \A i \in 1..Len(s) : f[i] = IF s[i] \in J THEN Append(f[i - 1], s[i]) ELSE f[i - 1]
    BY <1>1, UptoStep
<1>3. PICK g : Upto(s, B, g) /\ Keep(s, B) = g[Len(s)]
    BY KeepIsUpto
<1>4. /\ g[0] = <<>> /\ \A i \in 0..Len(s) : g[i] \in Seq(S)
      /\ \A i \in 1..Len(s) : g[i] = IF s[i] \in B THEN Append(g[i - 1], s[i]) ELSE g[i - 1]
    BY <1>3, UptoStep
<1> DEFINE A == {i \in Nat : i <= Len(s) => Keep(f[i], K) = g[i]}
<1>5. 0 \in A
    <2>1. <<>> \in Seq(S) /\ Len(<<>>) = 0 /\ \A i \in 1..Len(<<>>) : FALSE
        BY EmptySeq
    <2>2. Keep(<<>>, K) = <<>>
        BY <2>1, KeepAllOrNone
    <2> QED BY <1>2, <1>4, <2>2
<1>6. ASSUME NEW i \in Nat, i \in A PROVE i + 1 \in A
    <2> SUFFICES ASSUME i + 1 <= Len(s) PROVE Keep(f[i + 1], K) = g[i + 1]
        OBVIOUS
    <2>1. i + 1 \in 1..Len(s) /\ (i + 1) - 1 = i /\ i \in 0..Len(s) /\ Keep(f[i], K) = g[i]
        BY <1>0, <1>6
    <2>2. f[i] \in Seq(S) /\ s[i + 1] \in S
        BY <1>2, <2>1, ElementOfSeq
    <2>3. Keep(Append(f[i], s[i + 1]), K)
            = IF s[i + 1] \in K THEN Append(Keep(f[i], K), s[i + 1]) ELSE Keep(f[i], K)
        <3>1. \A r \in Seq(S), x \in S :
                Keep(Append(r, x), K) = IF x \in K THEN Append(Keep(r, K), x) ELSE Keep(r, K)
            BY KeepAppended
        <3> QED BY <2>2, <3>1
    <2>4. f[i + 1] = IF s[i + 1] \in J THEN Append(f[i], s[i + 1]) ELSE f[i]
        BY <1>2, <2>1
    <2>5. g[i + 1] = IF s[i + 1] \in B THEN Append(g[i], s[i + 1]) ELSE g[i]
        BY <1>4, <2>1
    <2>6. s[i + 1] \in B <=> (s[i + 1] \in J /\ s[i + 1] \in K)
        BY <1>b
    <2> QED BY <2>1, <2>3, <2>4, <2>5, <2>6
<1>7. Nat \subseteq A
    <2> HIDE DEF A
    <2> QED BY <1>5, <1>6, Induction
<1> QED BY <1>0, <1>1, <1>3, <1>7 DEF B

(* An element put in. *)
LEMMA KeepInserted ==
  ASSUME NEW S, NEW s \in Seq(S), NEW i \in 1..(Len(s) + 1), NEW e \in S, NEW K
  PROVE  Len(Keep(InsertAt(s, i, e), K)) = Len(Keep(s, K)) + (IF e \in K THEN 1 ELSE 0)
<1>0. Len(s) \in Nat
    BY LenProperties
<1> DEFINE t == i - 1
           a == SubSeq(s, 1, t)
           b == SubSeq(s, t + 1, Len(s))
<1>1. t \in 0..Len(s) /\ t + 1 = i
    BY <1>0
<1>2. a \in Seq(S) /\ b \in Seq(S) /\ a \o b = s
    <2> HIDE DEF t
    <2> QED BY <1>1, CutInTwo
<1>3. InsertAt(s, i, e) = Append(a, e) \o b
    <2>1. Append(a, e) = a \o <<e>>
        BY <1>2, AppendIsConcat
    <2> QED BY <1>1, <2>1 DEF InsertAt
<1> HIDE DEF a, b, t
<1>4. Append(a, e) \in Seq(S)
    BY <1>2, AppendProperties
<1>5. /\ Keep(Append(a, e) \o b, K) = Keep(Append(a, e), K) \o Keep(b, K)
      /\ Keep(a \o b, K) = Keep(a, K) \o Keep(b, K)
    <2>1. \A r, u \in Seq(S) : Keep(r \o u, K) = Keep(r, K) \o Keep(u, K)
        BY KeepConcat
    <2> QED BY <1>2, <1>4, <2>1
<1>6. Keep(a, K) \in Seq(S) /\ Keep(b, K) \in Seq(S) /\ Keep(Append(a, e), K) \in Seq(S)
    BY <1>2, <1>4, KeepProperties
<1>7. /\ Len(Keep(Append(a, e), K) \o Keep(b, K)) = Len(Keep(Append(a, e), K)) + Len(Keep(b, K))
      /\ Len(Keep(a, K) \o Keep(b, K)) = Len(Keep(a, K)) + Len(Keep(b, K))
    BY <1>6, ConcatProperties
<1>8. Len(Keep(Append(a, e), K)) = Len(Keep(a, K)) + (IF e \in K THEN 1 ELSE 0)
    <2>1. Keep(Append(a, e), K) = IF e \in K THEN Append(Keep(a, K), e) ELSE Keep(a, K)
        BY <1>2, KeepAppended
    <2>2. Len(Append(Keep(a, K), e)) = Len(Keep(a, K)) + 1 /\ Len(Keep(a, K)) \in Nat
        BY <1>6, AppendProperties, LenProperties
    <2> QED BY <2>1, <2>2
<1>9. Len(Keep(a, K)) \in Nat /\ Len(Keep(b, K)) \in Nat
    BY <1>6, LenProperties
<1>10. /\ Len(Keep(InsertAt(s, i, e), K)) = Len(Keep(Append(a, e), K)) + Len(Keep(b, K))
       /\ Len(Keep(s, K)) = Len(Keep(a, K)) + Len(Keep(b, K))
    BY <1>2, <1>3, <1>5, <1>7
<1> QED BY <1>8, <1>9, <1>10
=============================================================================
