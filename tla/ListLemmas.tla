----------------------------- MODULE ListLemmas -----------------------------
(***************************************************************************)
(* Facts about the operators on sequences and numbers that the components' *)
(* proofs share.  Induction is over sets: the natural numbers for which a  *)
(* statement fails would have a least element.                             *)
(***************************************************************************)
EXTENDS Sums, SequencesExt, SequenceTheorems, WellFoundedInduction, TLAPS

(* A set of natural numbers that is not empty has a least element.         *)
LEMMA Minimum ==
    ASSUME NEW T \in SUBSET Nat, T # {}
    PROVE  \E n \in T : \A m \in T : n <= m
<1> DEFINE R == OpToRel(<, Nat)
<1>1. IsWellFoundedOn(R, Nat)
  BY NatLessThanWellFounded
<1>2. \A m, n \in Nat : m < n => <<m, n>> \in R
  BY DEF OpToRel
<1> HIDE DEF R
<1>3. \E n \in T : \A m \in T : ~ (<<m, n>> \in R)
  BY <1>1, WFMin
<1>4. PICK n \in T : \A m \in T : ~ (<<m, n>> \in R)
  BY <1>3
<1>5. \A m \in T : ~ (m < n)
  BY <1>2, <1>4
<1>6. \A m \in T : n <= m
  BY <1>5
<1> QED
  BY <1>6

(* Induction, for a set instead of a predicate.                            *)
LEMMA NatInductive ==
    ASSUME NEW T, 0 \in T, \A n \in Nat : n \in T => n + 1 \in T
    PROVE  Nat \subseteq T
<1> SUFFICES ASSUME ~(Nat \subseteq T) PROVE FALSE
  OBVIOUS
<1>1. PICK n \in Nat \ T : \A m \in Nat \ T : n <= m
  <2> DEFINE U == Nat \ T
  <2>1. U \in SUBSET Nat /\ U # {}
    OBVIOUS
  <2> HIDE DEF U
  <2>2. \E n \in U : \A m \in U : n <= m
    BY <2>1, Minimum
  <2> QED
    BY <2>2 DEF U
<1>2. n # 0 /\ n - 1 \in Nat
  BY <1>1
<1>3. n - 1 \in T
  BY <1>1, <1>2
<1> QED
  BY <1>1, <1>2, <1>3

(* RemoveAt, with which the compaction loops of the rule arrays are        *)
(* modelled, element by element.                                           *)
LEMMA RemoveAtFacts ==
    ASSUME NEW S, NEW s \in Seq(S), NEW i \in 1..Len(s)
    PROVE  /\ RemoveAt(s, i) \in Seq(S)
           /\ Len(RemoveAt(s, i)) = Len(s) - 1
           /\ \A j \in 1..(Len(s) - 1) : RemoveAt(s, i)[j] = IF j < i THEN s[j] ELSE s[j + 1]
<1> DEFINE a == SubSeq(s, 1, i - 1)
           b == SubSeq(s, i + 1, Len(s))
<1>1. /\ a \in Seq(S) /\ Len(a) = i - 1
      /\ \A j \in 1..(i - 1) : a[j] = s[j]
  OBVIOUS
<1>2. /\ b \in Seq(S) /\ Len(b) = Len(s) - i
      /\ \A j \in 1..(Len(s) - i) : b[j] = s[i + j]
  OBVIOUS
<1>3. RemoveAt(s, i) = a \o b
  BY DEF RemoveAt
<1> HIDE DEF a, b
<1>4. /\ a \o b \in Seq(S) /\ Len(a \o b) = Len(a) + Len(b)
      /\ \A j \in 1..(Len(a) + Len(b)) : (a \o b)[j] = IF j <= Len(a) THEN a[j] ELSE b[j - Len(a)]
  BY <1>1, <1>2, ConcatProperties
<1>5. Len(s) \in Nat /\ Len(a) + Len(b) = Len(s) - 1
  BY <1>1, <1>2
<1>6. ASSUME NEW j \in 1..(Len(s) - 1), j < i PROVE (a \o b)[j] = s[j]
  BY <1>1, <1>4, <1>5, <1>6
<1>7. ASSUME NEW j \in 1..(Len(s) - 1), ~(j < i) PROVE (a \o b)[j] = s[j + 1]
  <2>1. (a \o b)[j] = b[j - (i - 1)]
    BY <1>1, <1>4, <1>5, <1>7
  <2>2. j - (i - 1) \in 1..(Len(s) - i) /\ i + (j - (i - 1)) = j + 1
    BY <1>5, <1>7
  <2>3. b[j - (i - 1)] = s[i + (j - (i - 1))]
    BY <1>2, <2>2
  <2> QED
    BY <2>1, <2>2, <2>3
<1> QED
  BY <1>3, <1>4, <1>5, <1>6, <1>7

(* f[n] is the sum of the first n elements of s.                           *)
PrefixSums(f, s) ==
    /\ f[0] = 0
    /\ \A i \in 1..Len(s) : f[i] = f[i - 1] + s[i]

(* A sequence has one function of prefix sums...                           *)
LEMMA PrefixUnique ==
    ASSUME NEW s \in Seq(Int), NEW f, NEW g, PrefixSums(f, s), PrefixSums(g, s)
    PROVE  \A n \in 0..Len(s) : f[n] = g[n]
<1> DEFINE T == {n \in Nat : n \in 0..Len(s) => f[n] = g[n]}
<1>1. 0 \in T
  BY DEF PrefixSums
<1>2. ASSUME NEW n \in Nat, n \in T PROVE n + 1 \in T
  BY <1>2 DEF PrefixSums
<1> HIDE DEF T
<1>3. Nat \subseteq T
  BY <1>1, <1>2, NatInductive
<1> QED
  BY <1>3 DEF T

(* ... which exists, although it is defined by recursion...                *)
LEMMA PrefixExists ==
    ASSUME NEW s \in Seq(Int)
    PROVE  \E f : f = [i \in 0..Len(s) |-> IF i = 0 THEN 0 ELSE f[i - 1] + s[i]]
<1> DEFINE Sum(f, n) == f = [i \in 0..n |-> IF i = 0 THEN 0 ELSE f[i - 1] + s[i]]
           T == {n \in Nat : \E f : Sum(f, n)}
<1>1. 0 \in T
  <2>1. Sum([i \in 0..0 |-> 0], 0)
    OBVIOUS
  <2> QED
    BY <2>1
<1>2. ASSUME NEW n \in Nat, n \in T PROVE n + 1 \in T
  <2>1. PICK f : Sum(f, n)
    BY <1>2
  <2> DEFINE g == [i \in 0..(n + 1) |-> IF i = n + 1 THEN f[n] + s[n + 1] ELSE f[i]]
  <2>2. Sum(g, n + 1)
    BY <2>1
  <2> HIDE DEF g, Sum
  <2> QED
    BY <2>2
<1> HIDE DEF T
<1>3. Nat \subseteq T
  BY <1>1, <1>2, NatInductive
<1>4. Len(s) \in T
  BY <1>3
<1> QED
  BY <1>4 DEF T

(* ... and Total is its last value.                                        *)
LEMMA TotalPrefix ==
    ASSUME NEW s \in Seq(Int)
    PROVE  \E f : PrefixSums(f, s) /\ Total(s) = f[Len(s)]
<1> DEFINE P(g) == g = [i \in 0..Len(s) |-> IF i = 0 THEN 0 ELSE g[i - 1] + s[i]]
           h == CHOOSE g : P(g)
<1>1. P(h)
  <2>1. \E g : P(g)
    BY PrefixExists
  <2> HIDE DEF P
  <2> QED
    BY <2>1
<1>2. Total(s) = h[Len(s)]
  BY DEF Total
<1> HIDE DEF h
<1>3. PrefixSums(h, s)
  <2>1. Len(s) \in Nat
    OBVIOUS
  <2>2. 0 \in 0..Len(s) /\ \A i \in 1..Len(s) : i \in 0..Len(s) /\ i # 0
    BY <2>1
  <2> QED
    BY <1>1, <2>2 DEF PrefixSums
<1> QED
  BY <1>2, <1>3

(* Total is the last value of whatever satisfies PrefixSums.               *)
LEMMA TotalIs ==
    ASSUME NEW s \in Seq(Int), NEW f, PrefixSums(f, s)
    PROVE  Total(s) = f[Len(s)]
<1>1. PICK h : PrefixSums(h, s) /\ Total(s) = h[Len(s)]
  BY TotalPrefix
<1>2. h[Len(s)] = f[Len(s)]
  BY <1>1, PrefixUnique
<1> QED
  BY <1>1, <1>2

(* Prefix sums are integers.                                               *)
LEMMA PrefixInt ==
    ASSUME NEW s \in Seq(Int), NEW f, PrefixSums(f, s)
    PROVE  \A n \in 0..Len(s) : f[n] \in Int
<1> DEFINE T == {n \in Nat : n \in 0..Len(s) => f[n] \in Int}
<1>1. 0 \in T
  BY DEF PrefixSums
<1>2. ASSUME NEW n \in Nat, n \in T PROVE n + 1 \in T
  BY <1>2 DEF PrefixSums
<1> HIDE DEF T
<1>3. Nat \subseteq T
  BY <1>1, <1>2, NatInductive
<1> QED
  BY <1>3 DEF T

(* The sum of integers is an integer.                                      *)
LEMMA TotalType ==
    ASSUME NEW s \in Seq(Int)
    PROVE  Total(s) \in Int
BY TotalPrefix, PrefixInt

(* Nothing sums to zero.                                                   *)
LEMMA TotalEmpty ==
    Total(<< >>) = 0
<1>1. << >> \in Seq(Int) /\ Len(<< >>) = 0
  OBVIOUS
<1> QED
  BY <1>1, TotalPrefix DEF PrefixSums

(* What is appended is added.                                              *)
LEMMA TotalAppend ==
    ASSUME NEW s \in Seq(Int), NEW x \in Int
    PROVE  Total(Append(s, x)) = Total(s) + x
<1>1. PICK f : PrefixSums(f, s) /\ Total(s) = f[Len(s)]
  BY TotalPrefix
<1> DEFINE t == Append(s, x)
           g == [n \in 0..(Len(s) + 1) |-> IF n = Len(s) + 1 THEN f[Len(s)] + x ELSE f[n]]
<1>2. /\ t \in Seq(Int) /\ Len(t) = Len(s) + 1 /\ t[Len(s) + 1] = x
      /\ \A j \in 1..Len(s) : t[j] = s[j]
  OBVIOUS
<1>3. Len(s) \in Nat
  OBVIOUS
<1> HIDE DEF t
<1>4. PrefixSums(g, t)
  <2>1. g[0] = 0
    BY <1>1, <1>3 DEF PrefixSums
  <2>2. ASSUME NEW i \in 1..Len(s) PROVE g[i] = g[i - 1] + t[i]
    BY <1>1, <1>2, <1>3 DEF PrefixSums
  <2>3. g[Len(s) + 1] = g[Len(s)] + t[Len(s) + 1]
    BY <1>2, <1>3
  <2> HIDE DEF g
  <2>4. \A i \in 1..Len(t) : i \in 1..Len(s) \/ i = Len(s) + 1
    BY <1>2, <1>3
  <2>5. ASSUME NEW i \in 1..Len(t) PROVE g[i] = g[i - 1] + t[i]
    <3>1. CASE i = Len(s) + 1
      <4>1. i - 1 = Len(s)
        BY <1>3, <3>1
      <4> QED
        BY <2>3, <3>1, <4>1
    <3> QED
      BY <2>2, <2>4, <3>1
  <2> QED
    BY <2>1, <2>5 DEF PrefixSums
<1>5. Total(t) = g[Len(s) + 1]
  <2> HIDE DEF g
  <2> QED
    BY <1>2, <1>4, TotalIs
<1> QED
  BY <1>1, <1>3, <1>5 DEF t

(* What is removed is subtracted.                                          *)
LEMMA TotalRemoveAt ==
    ASSUME NEW s \in Seq(Int), NEW i \in 1..Len(s)
    PROVE  Total(RemoveAt(s, i)) = Total(s) - s[i]
<1>1. PICK f : PrefixSums(f, s) /\ Total(s) = f[Len(s)]
  BY TotalPrefix
<1> DEFINE t == RemoveAt(s, i)
           g == [n \in 0..(Len(s) - 1) |-> IF n < i THEN f[n] ELSE f[n + 1] - s[i]]
<1>2. /\ t \in Seq(Int) /\ Len(t) = Len(s) - 1
      /\ \A j \in 1..(Len(s) - 1) : t[j] = IF j < i THEN s[j] ELSE s[j + 1]
  BY RemoveAtFacts
<1>3. Len(s) \in Nat /\ i \in Nat /\ 1 <= i /\ i <= Len(s) /\ s[i] \in Int
  OBVIOUS
<1>4. \A n \in 0..Len(s) : f[n] \in Int
  BY <1>1, PrefixInt
<1> HIDE DEF t
<1>5. f[i] = f[i - 1] + s[i]
  BY <1>1, <1>3 DEF PrefixSums
<1>6. PrefixSums(g, t)
  <2>1. g[0] = 0
    BY <1>1, <1>3 DEF PrefixSums
  <2>2. ASSUME NEW j \in 1..(Len(s) - 1), j < i PROVE g[j] = g[j - 1] + t[j]
    BY <1>1, <1>2, <1>3, <2>2 DEF PrefixSums
  <2>3. ASSUME NEW j \in 1..(Len(s) - 1), j = i PROVE g[j] = g[j - 1] + t[j]
    <3>1. f[i + 1] = f[i] + s[i + 1]
      BY <1>1, <1>3, <2>3 DEF PrefixSums
    <3>2. s[i + 1] \in Int /\ f[i - 1] \in Int
      BY <1>3, <1>4, <2>3
    <3>3. g[j] = f[i + 1] - s[i]
      BY <1>3, <2>3
    <3>4. g[j - 1] = f[i - 1]
      BY <1>3, <2>3
    <3>5. t[j] = s[i + 1]
      <4>1. ~ (j < i) /\ j + 1 = i + 1
        BY <1>3, <2>3
      <4>2. t[j] = IF j < i THEN s[j] ELSE s[j + 1]
        BY <1>2
      <4> HIDE DEF g
      <4> QED
        BY ONLY <4>1, <4>2
    <3> HIDE DEF g
    <3> QED
      <4>1. s[i] \in Int
        BY <1>3
      <4> QED
        BY ONLY <4>1, <1>5, <3>1, <3>2, <3>3, <3>4, <3>5
  <2>4. ASSUME NEW j \in 1..(Len(s) - 1), j > i PROVE g[j] = g[j - 1] + t[j]
    <3>1. f[j + 1] = f[j] + s[j + 1]
      BY <1>1, <1>3, <2>4 DEF PrefixSums
    <3>2. s[j + 1] \in Int /\ f[j] \in Int
      BY <1>3, <1>4, <2>4
    <3>3. j - 1 \in 0..(Len(s) - 1) /\ ~ (j - 1 < i)
      BY <1>3, <2>4
    <3>7. (j - 1) + 1 = j
      OBVIOUS
    <3>4. g[j] = f[j + 1] - s[i]
      BY <1>3, <2>4
    <3>6. t[j] = s[j + 1]
      <4>1. ~ (j < i)
        BY <1>3, <2>4
      <4>2. t[j] = IF j < i THEN s[j] ELSE s[j + 1]
        BY <1>2
      <4> HIDE DEF g
      <4> QED
        BY ONLY <4>1, <4>2
    <3>5. g[j - 1] = f[j] - s[i]
      <4> DEFINE p == j - 1
      <4>1. p \in 0..(Len(s) - 1) /\ ~ (p < i) /\ p + 1 = j
        BY <3>3, <3>7
      <4> HIDE DEF p
      <4>2. g[p] = f[p + 1] - s[i]
        BY <4>1
      <4> HIDE DEF g
      <4> QED
        BY <4>1, <4>2 DEF p
    <3> HIDE DEF g
    <3> QED
      BY <1>3, <3>1, <3>2, <3>4, <3>5, <3>6
  <2> HIDE DEF g
  <2>5. ASSUME NEW j \in 1..Len(t) PROVE g[j] = g[j - 1] + t[j]
    <3>1. j \in 1..(Len(s) - 1) /\ (j < i \/ j = i \/ j > i)
      BY <1>2, <1>3
    <3> QED
      BY <2>2, <2>3, <2>4, <3>1
  <2> QED
    BY <2>1, <2>5 DEF PrefixSums
<1>7. Total(t) = g[Len(s) - 1]
  <2> HIDE DEF g
  <2> QED
    BY <1>2, <1>6, TotalIs
<1>8. CASE i = Len(s)
  <2>1. g[Len(s) - 1] = f[i - 1]
    BY <1>3, <1>8
  <2>2. f[i - 1] \in Int /\ f[i] \in Int
    BY <1>3, <1>4
  <2> HIDE DEF g
  <2> QED
    BY <1>1, <1>3, <1>5, <1>7, <1>8, <2>1, <2>2 DEF t
<1>9. CASE i < Len(s)
  <2>1. g[Len(s) - 1] = f[Len(s)] - s[i]
    BY <1>3, <1>9
  <2> HIDE DEF g
  <2> QED
    BY <1>1, <1>7, <2>1 DEF t
<1> QED
  BY <1>3, <1>8, <1>9

(* Natural numbers sum to a natural number.                                *)
LEMMA TotalNat ==
    ASSUME NEW s \in Seq(Nat)
    PROVE  Total(s) \in Nat
<1>1. s \in Seq(Int) /\ Len(s) \in Nat /\ \A n \in 1..Len(s) : s[n] \in Nat
  OBVIOUS
<1>2. PICK f : PrefixSums(f, s) /\ Total(s) = f[Len(s)]
  BY <1>1, TotalPrefix
<1> DEFINE T == {n \in Nat : n \in 0..Len(s) => f[n] \in Nat}
<1>3. 0 \in T
  BY <1>2 DEF PrefixSums
<1>4. ASSUME NEW n \in Nat, n \in T PROVE n + 1 \in T
  <2>1. SUFFICES ASSUME n + 1 \in 1..Len(s) PROVE f[n + 1] \in Nat
    OBVIOUS
  <2>2. f[n + 1] = f[n] + s[n + 1]
    BY <1>2, <2>1 DEF PrefixSums
  <2>3. f[n] \in Nat /\ s[n + 1] \in Nat
    BY <1>1, <1>4, <2>1
  <2> HIDE DEF T
  <2> QED
    BY <2>2, <2>3
<1> HIDE DEF T
<1>5. Nat \subseteq T
  BY <1>3, <1>4, NatInductive
<1> QED
  BY <1>1, <1>2, <1>5 DEF T

(* Sums are taken term by term.                                            *)
LEMMA TotalPlus ==
    ASSUME NEW s \in Seq(Int), NEW t \in Seq(Int), NEW r \in Seq(Int),
           Len(t) = Len(s), Len(r) = Len(s),
           \A i \in 1..Len(s) : r[i] = s[i] + t[i]
    PROVE  Total(r) = Total(s) + Total(t)
<1>1. PICK f : PrefixSums(f, s) /\ Total(s) = f[Len(s)]
  BY TotalPrefix
<1>2. PICK g : PrefixSums(g, t) /\ Total(t) = g[Len(s)]
  BY TotalPrefix
<1>3. PICK h : PrefixSums(h, r) /\ Total(r) = h[Len(s)]
  BY TotalPrefix
<1> DEFINE T == {n \in Nat : n \in 0..Len(s) => h[n] = f[n] + g[n]}
<1>4. 0 \in T
  BY <1>1, <1>2, <1>3 DEF PrefixSums
<1>5. ASSUME NEW n \in Nat, n \in T PROVE n + 1 \in T
  <2>1. SUFFICES ASSUME n + 1 \in 0..Len(s) PROVE h[n + 1] = f[n + 1] + g[n + 1]
    OBVIOUS
  <2>2. n \in 0..Len(s) /\ n + 1 \in 1..Len(s) /\ (n + 1) - 1 = n
    BY <2>1
  <2>3. h[n] = f[n] + g[n]
    BY <1>5, <2>2
  <2>4. h[n + 1] = h[n] + r[n + 1] /\ f[n + 1] = f[n] + s[n + 1] /\ g[n + 1] = g[n] + t[n + 1]
    BY <1>1, <1>2, <1>3, <2>2 DEF PrefixSums
  <2>5. f[n] \in Int /\ g[n] \in Int
    BY <1>1, <1>2, <2>2, PrefixInt
  <2>6. s[n + 1] \in Int /\ t[n + 1] \in Int /\ r[n + 1] = s[n + 1] + t[n + 1]
    BY <2>2
  <2> QED
    BY <2>3, <2>4, <2>5, <2>6
<1> HIDE DEF T
<1>6. Nat \subseteq T
  BY <1>4, <1>5, NatInductive
<1>7. h[Len(s)] = f[Len(s)] + g[Len(s)]
  BY <1>6 DEF T
<1> QED
  BY <1>1, <1>2, <1>3, <1>7

(* A sum of zeros.                                                         *)
LEMMA TotalZero ==
    ASSUME NEW s \in Seq(Int), \A i \in 1..Len(s) : s[i] = 0
    PROVE  Total(s) = 0
<1>1. \A i \in 1..Len(s) : s[i] = s[i] + s[i]
  OBVIOUS
<1>2. Total(s) = Total(s) + Total(s)
  BY <1>1, TotalPlus
<1> QED
  BY <1>2, TotalType

(* A sum of zeros, but for one term, is that term.                         *)
LEMMA TotalOne ==
    ASSUME NEW s \in Seq(Int), NEW k \in 1..Len(s),
           \A i \in 1..Len(s) : i # k => s[i] = 0
    PROVE  Total(s) = s[k]
<1> DEFINE f == [i \in 0..Len(s) |-> IF i < k THEN 0 ELSE s[k]]
<1>1. s[k] \in Int /\ Len(s) \in Nat
  OBVIOUS
<1>2. PrefixSums(f, s)
  <2>1. f[0] = 0
    BY <1>1
  <2>2. ASSUME NEW i \in 1..Len(s) PROVE f[i] = f[i - 1] + s[i]
    <3>1. CASE i < k
      BY <1>1, <3>1
    <3>2. CASE i = k
      BY <1>1, <3>2
    <3>3. CASE i > k
      BY <1>1, <3>3
    <3> QED
      BY <3>1, <3>2, <3>3
  <2> HIDE DEF f
  <2> QED
    BY <2>1, <2>2 DEF PrefixSums
<1>3. f[Len(s)] = s[k]
  BY <1>1
<1> HIDE DEF f
<1> QED
  BY <1>2, <1>3, TotalIs

(* When one term changes, the sum changes by as much.                      *)
LEMMA TotalChanged ==
    ASSUME NEW s \in Seq(Int), NEW t \in Seq(Int), Len(t) = Len(s), NEW k \in 1..Len(s),
           \A i \in 1..Len(s) : i # k => t[i] = s[i]
    PROVE  Total(t) = Total(s) + (t[k] - s[k])
<1> DEFINE d == [i \in 1..Len(s) |-> IF i = k THEN t[k] - s[k] ELSE 0]
<1>1. s[k] \in Int /\ t[k] \in Int /\ Len(s) \in Nat /\ \A i \in 1..Len(s) : s[i] \in Int
  OBVIOUS
<1>2. d \in Seq(Int) /\ Len(d) = Len(s)
  BY <1>1
<1>3. \A i \in 1..Len(s) : t[i] = s[i] + d[i]
  BY <1>1
<1>4. \A i \in 1..Len(s) : i # k => d[i] = 0
  OBVIOUS
<1>5. d[k] = t[k] - s[k]
  OBVIOUS
<1> HIDE DEF d
<1>6. Total(t) = Total(s) + Total(d)
  BY <1>2, <1>3, TotalPlus
<1>7. Total(d) = d[k]
  BY <1>2, <1>4, TotalOne
<1> QED
  BY <1>5, <1>6, <1>7

-----------------------------------------------------------------------------
(* Sums in another order.                                                  *)
(* A sequence with one element more, element by element.                   *)
LEMMA AppendElements ==
    ASSUME NEW S, NEW s \in Seq(S), NEW x \in S
    PROVE  /\ Append(s, x) \in Seq(S) /\ Len(Append(s, x)) = Len(s) + 1
           /\ Append(s, x)[Len(s) + 1] = x
           /\ \A i \in 1..Len(s) : Append(s, x)[i] = s[i]
OBVIOUS

Taken(u, q) == [i \in DOMAIN q |-> u[q[i]]]

OrderFree(n) ==
    \A u \in Seq(Int) : \A q \in [1..n -> 1..n] :
        Len(u) = n /\ IsInjective(q) => Total(Taken(u, q)) = Total(u)

(* Taking elements by their numbers.                                       *)
LEMMA TakenFacts ==
    ASSUME NEW n \in Nat, NEW u \in Seq(Int), NEW q \in [1..n -> 1..Len(u)]
    PROVE  /\ Taken(u, q) \in Seq(Int) /\ Len(Taken(u, q)) = n
           /\ \A i \in 1..n : Taken(u, q)[i] = u[q[i]]
<1>1. \A i \in 1..n : u[q[i]] \in Int
  <2>1. \A i \in 1..n : q[i] \in 1..Len(u)
    OBVIOUS
  <2> QED
    BY <2>1
<1>2. Taken(u, q) = [i \in 1..n |-> u[q[i]]]
  BY DEF Taken
<1> QED
  BY <1>1, <1>2

(* The numbers but the last, those behind it moved up by one.              *)
Closed(q, n, j) == [i \in 1..n |-> IF q[i] < j THEN q[i] ELSE q[i] - 1]

(* They number the rest of the sequence, each once.                        *)
LEMMA ClosedFacts ==
    ASSUME NEW n \in Nat, NEW q \in [1..(n + 1) -> 1..(n + 1)], IsInjective(q),
           NEW j, j = q[n + 1]
    PROVE  /\ Closed(q, n, j) \in [1..n -> 1..n] /\ IsInjective(Closed(q, n, j))
           /\ \A i \in 1..n : IF q[i] < j THEN Closed(q, n, j)[i] = q[i] /\ Closed(q, n, j)[i] < j
                              ELSE Closed(q, n, j)[i] + 1 = q[i] /\ ~ (Closed(q, n, j)[i] < j)
<1> DEFINE r == Closed(q, n, j)
<1>1. j \in 1..(n + 1)
  OBVIOUS
<1>2. \A i \in 1..n : q[i] \in 1..(n + 1) /\ q[i] # j
  BY DEF IsInjective
<1>3. ASSUME NEW i \in 1..n
      PROVE  /\ r[i] \in 1..n
             /\ IF q[i] < j THEN r[i] = q[i] /\ r[i] < j ELSE r[i] + 1 = q[i] /\ ~ (r[i] < j)
  <2>1. r[i] = IF q[i] < j THEN q[i] ELSE q[i] - 1
    BY DEF Closed
  <2>2. q[i] \in 1..(n + 1) /\ q[i] # j
    BY <1>2
  <2> HIDE DEF r
  <2>3. CASE q[i] < j
    <3>1. r[i] = q[i]
      BY <2>1, <2>3
    <3>2. q[i] \in 1..n
      BY <1>1, <2>2, <2>3
    <3> QED
      BY <2>3, <3>1, <3>2
  <2>4. CASE ~ (q[i] < j)
    <3>1. r[i] = q[i] - 1
      BY <2>1, <2>4
    <3>2. q[i] \in 1..(n + 1) /\ q[i] - 1 >= j /\ j >= 1 /\ j \in Int
      BY <1>1, <2>2, <2>4
    <3>3. r[i] \in 1..n
      <4> DEFINE x == q[i]
                 y == r[i]
      <4>1. x \in Int /\ x <= n + 1 /\ x - 1 >= j /\ j >= 1 /\ j \in Int /\ y = x - 1
        BY <3>1, <3>2
      <4> HIDE DEF x, y
      <4>2. y \in 1..n
        BY <4>1
      <4> QED
        BY <4>2 DEF y
    <3>4. r[i] + 1 = q[i]
      <4>1. q[i] \in Int
        BY <3>2
      <4> QED
        BY ONLY <3>1, <4>1
    <3>5. ~ (r[i] < j)
      BY <3>1, <3>2
    <3> QED
      BY <2>4, <3>3, <3>4, <3>5
  <2> QED
    BY <2>3, <2>4
<1>4. r = [i \in 1..n |-> r[i]] /\ DOMAIN r = 1..n
  BY DEF Closed
<1> HIDE DEF r
<1>5. r \in [1..n -> 1..n]
  BY <1>3, <1>4
<1>6. ASSUME NEW i \in 1..n, NEW k \in 1..n, r[i] = r[k] PROVE i = k
  <2>1. q[i] = q[k]
    <3>1. /\ r[i] \in 1..n /\ q[i] \in 1..(n + 1) /\ q[k] \in 1..(n + 1)
          /\ IF q[i] < j THEN r[i] = q[i] /\ r[i] < j ELSE r[i] + 1 = q[i] /\ ~ (r[i] < j)
          /\ IF q[k] < j THEN r[k] = q[k] /\ r[k] < j ELSE r[k] + 1 = q[k] /\ ~ (r[k] < j)
      BY <1>2, <1>3
    <3> QED
      BY <1>6, <3>1
  <2> QED
    BY <2>1 DEF IsInjective
<1> QED
  BY <1>3, <1>4, <1>5, <1>6 DEF IsInjective, r

(* The last of the numbers taken away, and the element it stands for.      *)
LEMMA OrderFreeStep ==
    ASSUME NEW n \in Nat, OrderFree(n)
    PROVE  OrderFree(n + 1)
<1> SUFFICES ASSUME NEW u \in Seq(Int), NEW q \in [1..(n + 1) -> 1..(n + 1)],
                    Len(u) = n + 1, IsInjective(q)
             PROVE  Total(Taken(u, q)) = Total(u)
  BY DEF OrderFree
<1> DEFINE j == q[n + 1]
           v == RemoveAt(u, j)
           r == Closed(q, n, j)
           w == Taken(v, r)
<1>1. j \in 1..Len(u) /\ u[j] \in Int /\ Len(u) - 1 = n
  OBVIOUS
<1>2. /\ r \in [1..n -> 1..n] /\ IsInjective(r)
      /\ \A i \in 1..n : IF q[i] < j THEN r[i] = q[i] /\ r[i] < j
                         ELSE r[i] + 1 = q[i] /\ ~ (r[i] < j)
  BY ClosedFacts
<1>3. j = q[n + 1]
  OBVIOUS
<1> HIDE DEF j, r
<1>4. /\ v \in Seq(Int) /\ Len(v) = n /\ Total(v) = Total(u) - u[j]
      /\ \A i \in 1..n : v[i] = IF i < j THEN u[i] ELSE u[i + 1]
  BY <1>1, RemoveAtFacts, TotalRemoveAt
<1> HIDE DEF v
<1>5. Total(w) = Total(v)
  BY <1>2, <1>4 DEF OrderFree
<1>6. w \in Seq(Int) /\ Len(w) = n /\ \A i \in 1..n : w[i] = v[r[i]]
  <2>1. r \in [1..n -> 1..Len(v)]
    BY <1>2, <1>4
  <2> QED
    BY <1>4, <2>1, TakenFacts
<1>7. ASSUME NEW i \in 1..n PROVE v[r[i]] = u[q[i]]
  <2>1. r[i] \in 1..n
    BY <1>2
  <2> QED
    BY <1>2, <1>4, <2>1
<1> DEFINE x == Taken(u, q)
<1>8. x \in Seq(Int) /\ Len(x) = n + 1 /\ \A i \in 1..(n + 1) : x[i] = u[q[i]]
  <2> DEFINE k == n + 1
  <2>1. k \in Nat /\ u \in Seq(Int) /\ q \in [1..k -> 1..Len(u)]
    OBVIOUS
  <2> HIDE DEF k
  <2>2. x \in Seq(Int) /\ Len(x) = k /\ \A i \in 1..k : x[i] = u[q[i]]
    BY ONLY <2>1, TakenFacts
  <2> QED
    BY <2>2 DEF k
<1> HIDE DEF w, x
<1>9. x = Append(w, u[j])
  <2>1. /\ Append(w, u[j]) \in Seq(Int) /\ Len(Append(w, u[j])) = n + 1
        /\ Append(w, u[j])[n + 1] = u[j] /\ \A i \in 1..n : Append(w, u[j])[i] = w[i]
    <3>1. w \in Seq(Int) /\ u[j] \in Int /\ Len(w) = n
      BY <1>1, <1>6
    <3> QED
      BY ONLY <3>1, AppendElements
  <2>2. ASSUME NEW i \in 1..(n + 1) PROVE x[i] = Append(w, u[j])[i]
    <3>1. CASE i = n + 1
      BY <1>3, <1>8, <2>1, <3>1
    <3>2. CASE i # n + 1
      <4>1. i \in 1..n
        BY <3>2
      <4> QED
        BY <1>6, <1>7, <1>8, <2>1, <4>1
    <3> QED
      BY <3>1, <3>2
  <2> QED
    BY <1>8, <2>1, <2>2, SeqEqual
<1>10. Total(x) = Total(w) + u[j]
  BY <1>1, <1>6, <1>9, TotalAppend
<1>11. Total(x) = Total(u)
  BY <1>1, <1>4, <1>5, <1>10, TotalType
<1> QED
  BY <1>11 DEF x

(* A sum does not depend on the order of its terms.                        *)
LEMMA TotalPermuted ==
    ASSUME NEW s \in Seq(Int), NEW p \in [1..Len(s) -> 1..Len(s)], IsInjective(p)
    PROVE  Total(Taken(s, p)) = Total(s)
<1> DEFINE T == {n \in Nat : OrderFree(n)}
<1>1. OrderFree(0)
  <2> SUFFICES ASSUME NEW u \in Seq(Int), NEW q \in [1..0 -> 1..0], Len(u) = 0
               PROVE  Total(Taken(u, q)) = Total(u)
    BY DEF OrderFree
  <2>1. u = << >> /\ Taken(u, q) = << >>
    BY DEF Taken
  <2> QED
    BY <2>1
<1>2. \A n \in Nat : n \in T => n + 1 \in T
  BY OrderFreeStep
<1>3. 0 \in T
  BY <1>1
<1> HIDE DEF T
<1>4. Nat \subseteq T
  BY <1>2, <1>3, NatInductive
<1>5. Len(s) \in T
  BY <1>4
<1> QED
  BY <1>5 DEF T, OrderFree

-----------------------------------------------------------------------------
(* A sum over two lists, one behind the other.                             *)
LEMMA TotalConcat ==
    ASSUME NEW s \in Seq(Int), NEW t \in Seq(Int)
    PROVE  Total(s \o t) = Total(s) + Total(t)
<1>1. PICK f : PrefixSums(f, s) /\ Total(s) = f[Len(s)]
  BY TotalPrefix
<1>2. PICK h : PrefixSums(h, t) /\ Total(t) = h[Len(t)]
  BY TotalPrefix
<1> DEFINE u == s \o t
           m == Len(s)
           n == Len(t)
           g == [i \in 0..(m + n) |-> IF i <= m THEN f[i] ELSE f[m] + h[i - m]]
<1>3. /\ u \in Seq(Int) /\ Len(u) = m + n /\ m \in Nat /\ n \in Nat
      /\ \A i \in 1..(m + n) : u[i] = IF i <= m THEN s[i] ELSE t[i - m]
  OBVIOUS
<1>4. /\ \A i \in 0..m : f[i] \in Int
      /\ \A i \in 0..n : h[i] \in Int
  BY <1>1, <1>2, PrefixInt
<1>5. /\ f[0] = 0 /\ \A i \in 1..m : f[i] = f[i - 1] + s[i]
      /\ h[0] = 0 /\ \A i \in 1..n : h[i] = h[i - 1] + t[i]
  BY <1>1, <1>2 DEF PrefixSums
<1>6. /\ \A i \in 1..m : s[i] \in Int
      /\ \A i \in 1..n : t[i] \in Int
  OBVIOUS
<1> HIDE DEF u, m, n
<1>7. ASSUME NEW i \in 1..(m + n) PROVE g[i] = g[i - 1] + u[i]
  <2>1. CASE i <= m
    <3>1. g[i] = f[i] /\ g[i - 1] = f[i - 1] /\ i \in 1..m
      BY <1>3, <2>1
    <3>2. u[i] = s[i]
      BY <1>3, <2>1
    <3> HIDE DEF g
    <3> QED
      BY <1>5, <3>1, <3>2
  <2>2. CASE i = m + 1
    <3>1. g[i] = f[m] + h[i - m]
      BY <1>3, <2>2
    <3>2. g[i - 1] = f[m] /\ 1 \in 1..n /\ i - m = 1
      BY <1>3, <2>2
    <3>3. u[i] = t[i - m]
      BY <1>3, <2>2
    <3>4. h[1] = h[0] + t[1]
      <4>1. h[1] = h[1 - 1] + t[1]
        BY <1>5, <3>2
      <4> QED
        BY <4>1
    <3>5. f[m] \in Int /\ t[1] \in Int
      BY <1>3, <1>4, <1>6, <3>2
    <3> HIDE DEF g
    <3> QED
      BY <1>5, <3>1, <3>2, <3>3, <3>4, <3>5
  <2>3. CASE i > m + 1
    <3> DEFINE k == i - m
    <3>1. /\ k \in 1..n /\ k - 1 \in 0..n /\ ~ (i <= m) /\ ~ (i - 1 <= m)
          /\ i - 1 \in 0..(m + n) /\ (i - 1) - m = k - 1 /\ i \in 0..(m + n)
      BY <1>3, <2>3
    <3>2. g[i] = f[m] + h[k] /\ g[i - 1] = f[m] + h[k - 1]
      BY <3>1
    <3>3. u[i] = t[k]
      BY <1>3, <3>1
    <3> HIDE DEF g, k
    <3>4. h[k] = h[k - 1] + t[k]
      BY <1>5, <3>1
    <3>5. f[m] \in Int /\ h[k - 1] \in Int /\ t[k] \in Int
      BY <1>3, <1>4, <1>6, <3>1
    <3> QED
      BY <3>2, <3>3, <3>4, <3>5
  <2> QED
    BY <1>3, <2>1, <2>2, <2>3
<1>8. g[0] = 0
  BY <1>3, <1>5
<1>9. g[m + n] = f[m] + h[n]
  <2>1. CASE n = 0
    <3>1. g[m + n] = f[m] /\ m \in 0..m
      BY <1>3, <2>1
    <3>2. f[m] \in Int
      BY <1>4, <3>1
    <3> HIDE DEF g
    <3> QED
      BY <1>5, <2>1, <3>1, <3>2
  <2>2. CASE n # 0
    <3>1. ~ (m + n <= m) /\ (m + n) - m = n /\ m + n \in 0..(m + n)
      BY <1>3, <2>2
    <3> QED
      BY <3>1
  <2> QED
    BY <2>1, <2>2
<1> HIDE DEF g
<1>10. PrefixSums(g, u)
  BY <1>3, <1>7, <1>8 DEF PrefixSums
<1>11. Total(u) = g[m + n]
  BY <1>3, <1>10, TotalIs
<1> QED
  BY <1>1, <1>2, <1>9, <1>11 DEF u, m, n

-----------------------------------------------------------------------------
(* FlattenSeq.                                                             *)
Flattens(f, seqs) ==
    f = [i \in 1..Len(seqs) |-> IF i = 1 THEN seqs[i] ELSE f[i - 1] \o seqs[i]]

(* FlattenSeq is what its recursion computes.                              *)
LEMMA FlattenExists ==
    ASSUME NEW S, NEW seqs \in Seq(S), Len(seqs) # 0
    PROVE  \E f : Flattens(f, seqs) /\ FlattenSeq(seqs) = f[Len(seqs)]
<1> DEFINE P(f, n) == f = [i \in 1..n |-> IF i = 1 THEN seqs[i] ELSE f[i - 1] \o seqs[i]]
           T == {n \in Nat : \E f : P(f, n)}
<1>1. 0 \in T
  <2>1. P([i \in 1..0 |-> 0], 0)
    OBVIOUS
  <2> QED
    BY <2>1
<1>2. ASSUME NEW n \in Nat, n \in T PROVE n + 1 \in T
  <2>1. PICK f : P(f, n)
    BY <1>2
  <2> DEFINE last == IF n = 0 THEN seqs[1] ELSE f[n] \o seqs[n + 1]
             g == [i \in 1..(n + 1) |-> IF i = n + 1 THEN last ELSE f[i]]
  <2>2. P(g, n + 1)
    <3> SUFFICES ASSUME NEW i \in 1..(n + 1)
                 PROVE  g[i] = IF i = 1 THEN seqs[i] ELSE g[i - 1] \o seqs[i]
      OBVIOUS
    <3>1. CASE i = n + 1
      BY <3>1
    <3>2. CASE i # n + 1
      <4>1. i \in 1..n /\ i - 1 # n + 1 /\ (i # 1 => i - 1 \in 1..(n + 1))
        BY <3>2
      <4>2. g[i] = f[i] /\ (i # 1 => g[i - 1] = f[i - 1])
        BY <3>2, <4>1
      <4>3. f[i] = IF i = 1 THEN seqs[i] ELSE f[i - 1] \o seqs[i]
        BY <2>1, <4>1
      <4> HIDE DEF g
      <4> QED
        BY <4>2, <4>3
    <3> QED
      BY <3>1, <3>2
  <2> HIDE DEF g, P
  <2> QED
    BY <2>2
<1> HIDE DEF T
<1>3. Nat \subseteq T
  BY <1>1, <1>2, NatInductive
<1>4. Len(seqs) \in T
  BY <1>3
<1>5. \E f : Flattens(f, seqs)
  BY <1>4 DEF T, Flattens
<1> DEFINE Q(f) == f = [i \in 1..Len(seqs) |-> IF i = 1 THEN seqs[i] ELSE f[i - 1] \o seqs[i]]
           h == CHOOSE f : Q(f)
<1>6. Q(h)
  <2>1. \E f : Q(f)
    BY <1>5 DEF Flattens
  <2> HIDE DEF Q
  <2> QED
    BY <2>1
<1>7. FlattenSeq(seqs) = h[Len(seqs)]
  BY DEF FlattenSeq
<1> HIDE DEF h
<1> QED
  BY <1>6, <1>7 DEF Flattens

-----------------------------------------------------------------------------
(* What each element of a sequence counts for.                             *)
Measured(m, s) == [i \in DOMAIN s |-> m[s[i]]]

Measures(c, m, s) ==
    /\ c \in Seq(Int) /\ Len(c) = Len(s)
    /\ \A i \in 1..Len(s) : c[i] = m[s[i]]

(* There is one measure for each element.                                  *)
LEMMA MeasuredFacts ==
    ASSUME NEW S, NEW m \in [S -> Int], NEW s \in Seq(S)
    PROVE  Measures(Measured(m, s), m, s)
<1>1. DOMAIN s = 1..Len(s) /\ Len(s) \in Nat /\ \A i \in 1..Len(s) : s[i] \in S
  OBVIOUS
<1>2. Measured(m, s) = [i \in 1..Len(s) |-> m[s[i]]]
  BY <1>1 DEF Measured
<1>3. \A i \in 1..Len(s) : m[s[i]] \in Int
  BY <1>1
<1> QED
  BY <1>1, <1>2, <1>3 DEF Measures

(* One sequence behind another, element by element.                        *)
LEMMA ConcatFacts ==
    ASSUME NEW S, NEW s \in Seq(S), NEW t \in Seq(S)
    PROVE  /\ s \o t \in Seq(S) /\ Len(s \o t) = Len(s) + Len(t)
           /\ \A i \in 1..(Len(s) + Len(t)) :
                (s \o t)[i] = IF i <= Len(s) THEN s[i] ELSE t[i - Len(s)]
OBVIOUS

-----------------------------------------------------------------------------
(* g[n] is the first n of the sequences, one behind the other.             *)
Joins(g, seqs) ==
    /\ g[0] = << >>
    /\ \A i \in 1..Len(seqs) : g[i] = g[i - 1] \o seqs[i]

(* FlattenSeq is the last value of whatever satisfies Joins...             *)
LEMMA FlattenIs ==
    ASSUME NEW S, NEW seqs \in Seq(Seq(S)), NEW g, Joins(g, seqs)
    PROVE  FlattenSeq(seqs) = g[Len(seqs)]
<1> DEFINE n == Len(seqs)
<1>1. n \in Nat /\ \A i \in 1..n : seqs[i] \in Seq(S)
  OBVIOUS
<1>2. CASE n = 0
  <2>1. FlattenSeq(seqs) = << >>
    BY <1>2 DEF FlattenSeq
  <2> QED
    BY <1>2, <2>1 DEF Joins
<1>3. CASE n # 0
  <2>1. PICK f : Flattens(f, seqs) /\ FlattenSeq(seqs) = f[n]
    BY <1>3, FlattenExists
  <2>2. f = [i \in 1..n |-> IF i = 1 THEN seqs[i] ELSE f[i - 1] \o seqs[i]]
    BY <2>1 DEF Flattens
  <2>3. /\ 1 \in 1..n /\ f[1] = seqs[1]
        /\ \A i \in 1..n : i # 1 => f[i] = f[i - 1] \o seqs[i]
    <3>1. 1 \in 1..n
      BY <1>1, <1>3
    <3> HIDE DEF n
    <3> QED
      BY <2>2, <3>1
  <2>4. g[0] = << >> /\ \A i \in 1..n : g[i] = g[i - 1] \o seqs[i]
    BY DEF Joins
  <2> HIDE DEF n
  <2> DEFINE T == {i \in Nat : i + 1 \in 1..n => f[i + 1] = g[i + 1]}
  <2>5. 0 \in T
    <3>1. g[1] = g[0] \o seqs[1]
      <4>1. g[1] = g[1 - 1] \o seqs[1]
        BY <2>3, <2>4
      <4> QED
        BY <4>1
    <3>2. << >> \o seqs[1] = seqs[1]
      <4>1. seqs[1] \in Seq(S)
        BY <1>1, <2>3
      <4> QED
        BY <4>1
    <3> QED
      BY <2>3, <2>4, <3>1, <3>2
  <2>6. ASSUME NEW i \in Nat, i \in T PROVE i + 1 \in T
    <3> DEFINE k == (i + 1) + 1
    <3> SUFFICES ASSUME k \in 1..n PROVE f[k] = g[k]
      OBVIOUS
    <3>1. i + 1 \in 1..n /\ k # 1 /\ k - 1 = i + 1
      BY <1>1
    <3>2. f[i + 1] = g[i + 1]
      BY <2>6, <3>1
    <3> HIDE DEF k, T
    <3> QED
      BY <2>3, <2>4, <3>1, <3>2
  <2> HIDE DEF T
  <2>7. Nat \subseteq T
    BY <2>5, <2>6, NatInductive
  <2>8. n - 1 \in T /\ (n - 1) + 1 = n /\ n \in 1..n
    BY <1>1, <1>3, <2>7
  <2>9. f[n] = g[n]
    BY <2>8 DEF T
  <2> QED
    BY <2>1, <2>9 DEF n
<1> QED
  BY <1>2, <1>3

(* ... and there are such functions.                                       *)
LEMMA JoinsExist ==
    ASSUME NEW S, NEW seqs \in Seq(Seq(S))
    PROVE  /\ \E g : Joins(g, seqs) /\ FlattenSeq(seqs) = g[Len(seqs)]
           /\ FlattenSeq(seqs) \in Seq(S)
<1> DEFINE n == Len(seqs)
<1>1. n \in Nat /\ \A i \in 1..n : seqs[i] \in Seq(S)
  OBVIOUS
<1>2. \E g : Joins(g, seqs)
  <2>1. CASE n = 0
    <3> DEFINE g == [i \in 0..0 |-> << >>]
    <3>1. Joins(g, seqs)
      BY <2>1 DEF Joins
    <3> HIDE DEF g
    <3> QED
      BY <3>1
  <2>2. CASE n # 0
    <3>1. PICK f : Flattens(f, seqs)
      BY <2>2, FlattenExists
    <3> DEFINE g == [i \in 0..n |-> IF i = 0 THEN << >> ELSE f[i]]
    <3>2. f = [i \in 1..n |-> IF i = 1 THEN seqs[i] ELSE f[i - 1] \o seqs[i]]
      BY <3>1 DEF Flattens
    <3> HIDE DEF n
    <3>3. ASSUME NEW i \in 1..n PROVE g[i] = g[i - 1] \o seqs[i]
      <4>1. CASE i = 1
        <5>1. g[i] = seqs[i] /\ g[i - 1] = << >>
          BY <1>1, <3>2, <4>1
        <5>2. << >> \o seqs[i] = seqs[i]
          BY <1>1
        <5> HIDE DEF g
        <5> QED
          BY <5>1, <5>2
      <4>2. CASE i # 1
        <5>1. g[i] = f[i] /\ g[i - 1] = f[i - 1]
          BY <1>1, <4>2
        <5>2. f[i] = f[i - 1] \o seqs[i]
          BY <3>2, <4>2
        <5> HIDE DEF g
        <5> QED
          BY <5>1, <5>2
      <4> QED
        BY <4>1, <4>2
    <3>4. g[0] = << >>
      BY <1>1
    <3> HIDE DEF g
    <3>5. Joins(g, seqs)
      BY <3>3, <3>4 DEF Joins, n
    <3> QED
      BY <3>5
  <2> QED
    BY <2>1, <2>2
<1>3. PICK g : Joins(g, seqs)
  BY <1>2
<1>4. FlattenSeq(seqs) = g[n]
  BY <1>3, FlattenIs
<1>5. g[0] = << >> /\ \A i \in 1..n : g[i] = g[i - 1] \o seqs[i]
  BY <1>3 DEF Joins
<1> HIDE DEF n
<1> DEFINE T == {i \in Nat : i \in 0..n => g[i] \in Seq(S)}
<1>6. 0 \in T
  <2>1. << >> \in Seq(S)
    OBVIOUS
  <2> QED
    BY <1>5, <2>1
<1>7. ASSUME NEW i \in Nat, i \in T PROVE i + 1 \in T
  <2> SUFFICES ASSUME i + 1 \in 0..n PROVE g[i + 1] \in Seq(S)
    OBVIOUS
  <2>1. i \in 0..n /\ i + 1 \in 1..n /\ (i + 1) - 1 = i
    BY <1>1
  <2>2. g[i] \in Seq(S) /\ seqs[i + 1] \in Seq(S)
    BY <1>1, <1>7, <2>1
  <2>3. g[i + 1] = g[i] \o seqs[i + 1]
    BY <1>5, <2>1
  <2> HIDE DEF T
  <2>4. g[i] \o seqs[i + 1] \in Seq(S)
    BY ONLY <2>2, ConcatFacts
  <2> QED
    BY <2>3, <2>4
<1> HIDE DEF T
<1>8. n \in T
  BY <1>1, <1>6, <1>7, NatInductive
<1>9. g[n] \in Seq(S)
  BY <1>1, <1>8 DEF T
<1> QED
  BY <1>3, <1>4, <1>9 DEF n

(* One more sequence comes last.                                           *)
LEMMA FlattenAppend ==
    ASSUME NEW S, NEW seqs \in Seq(Seq(S)), NEW x \in Seq(S)
    PROVE  FlattenSeq(Append(seqs, x)) = FlattenSeq(seqs) \o x
<1> DEFINE n == Len(seqs)
           more == Append(seqs, x)
<1>1. PICK g : Joins(g, seqs) /\ FlattenSeq(seqs) = g[n]
  BY JoinsExist
<1> DEFINE h == [i \in 0..(n + 1) |-> IF i = n + 1 THEN g[n] \o x ELSE g[i]]
<1>2. /\ more \in Seq(Seq(S)) /\ Len(more) = n + 1 /\ n \in Nat
      /\ more[n + 1] = x /\ \A i \in 1..n : more[i] = seqs[i]
  OBVIOUS
<1> HIDE DEF n, more
<1>3. ASSUME NEW i \in 1..(n + 1) PROVE h[i] = h[i - 1] \o more[i]
  <2>1. CASE i = n + 1
    <3>1. h[i] = g[n] \o x /\ h[i - 1] = g[n]
      BY <1>2, <2>1
    <3> HIDE DEF h
    <3> QED
      BY <1>2, <2>1, <3>1
  <2>2. CASE i # n + 1
    <3>1. h[i] = g[i] /\ h[i - 1] = g[i - 1] /\ i \in 1..n
      BY <1>2, <2>2
    <3>2. g[i] = g[i - 1] \o seqs[i]
      BY <1>1, <3>1 DEF Joins, n
    <3> HIDE DEF h
    <3> QED
      BY <1>2, <3>1, <3>2
  <2> QED
    BY <2>1, <2>2
<1>4. h[0] = << >> /\ h[n + 1] = g[n] \o x
  BY <1>1, <1>2 DEF Joins
<1> HIDE DEF h
<1>5. Joins(h, more)
  BY <1>2, <1>3, <1>4 DEF Joins
<1>6. FlattenSeq(more) = h[n + 1]
  BY <1>2, <1>5, FlattenIs
<1> QED
  BY <1>1, <1>4, <1>6 DEF more

(* Without lists nothing is in them.                                       *)
LEMMA FlattenNone == FlattenSeq(<< >>) = << >>
BY DEF FlattenSeq

(* A sequence that is not empty is a shorter one with one element more.    *)
LEMMA Unappended ==
    ASSUME NEW S, NEW n \in Nat, NEW t \in Seq(S), Len(t) = n + 1
    PROVE  \E u \in Seq(S), x \in S : t = Append(u, x) /\ Len(u) = n
<1> DEFINE u == [i \in 1..n |-> t[i]]
           x == t[n + 1]
<1>1. x \in S /\ \A i \in 1..n : t[i] \in S
  OBVIOUS
<1>2. u \in Seq(S) /\ Len(u) = n /\ \A i \in 1..n : u[i] = t[i]
  BY <1>1
<1> HIDE DEF u
<1>3. x = t[n + 1]
  OBVIOUS
<1> HIDE DEF x
<1>4. /\ Append(u, x) \in Seq(S) /\ Len(Append(u, x)) = n + 1
      /\ Append(u, x)[n + 1] = x
      /\ \A i \in 1..n : Append(u, x)[i] = u[i]
  <2>1. u \in Seq(S) /\ x \in S /\ Len(u) = n
    BY <1>1, <1>2, <1>3
  <2> QED
    BY ONLY <2>1, AppendElements
<1>5. ASSUME NEW i \in 1..(n + 1) PROVE Append(u, x)[i] = t[i]
  <2>1. i \in 1..n \/ i = n + 1
    OBVIOUS
  <2> QED
    BY <1>2, <1>3, <1>4, <2>1
<1>6. Append(u, x) = t
  <2> DEFINE a == Append(u, x)
  <2>1. a \in Seq(S) /\ t \in Seq(S) /\ Len(a) = Len(t) /\ \A i \in 1..Len(a) : a[i] = t[i]
    BY <1>4, <1>5
  <2> HIDE DEF a
  <2>2. a = t
    BY <2>1, SeqEqual
  <2> QED
    BY <2>2 DEF a
<1> QED
  BY <1>1, <1>2, <1>3, <1>6

(* Induction over sequences, for a set instead of a predicate.             *)
LEMMA SeqInductive ==
    ASSUME NEW S, NEW T, << >> \in T,
           \A u \in Seq(S), x \in S : u \in T => Append(u, x) \in T
    PROVE  Seq(S) \subseteq T
<1> DEFINE N == {n \in Nat : \A t \in Seq(S) : Len(t) = n => t \in T}
<1>1. 0 \in N
  <2>1. \A t \in Seq(S) : Len(t) = 0 => t = << >>
    OBVIOUS
  <2> QED
    BY <2>1
<1>2. ASSUME NEW n \in Nat, n \in N PROVE n + 1 \in N
  <2> SUFFICES ASSUME NEW t \in Seq(S), Len(t) = n + 1 PROVE t \in T
    OBVIOUS
  <2>1. PICK u \in Seq(S), x \in S : t = Append(u, x) /\ Len(u) = n
    BY Unappended
  <2>2. u \in T
    BY <1>2, <2>1
  <2> HIDE DEF N
  <2> QED
    BY <2>1, <2>2
<1> HIDE DEF N
<1>3. Nat \subseteq N
  BY <1>1, <1>2, NatInductive
<1> SUFFICES ASSUME NEW t \in Seq(S) PROVE t \in T
  OBVIOUS
<1>4. Len(t) \in N
  BY <1>3
<1> QED
  BY <1>4 DEF N

(* Three sequences one behind the other, however they are put together.    *)
LEMMA Associative ==
    ASSUME NEW S, NEW s \in Seq(S), NEW t \in Seq(S), NEW u \in Seq(S)
    PROVE  (s \o t) \o u = s \o (t \o u)
<1> DEFINE a == s \o t
           b == t \o u
           l == a \o u
           r == s \o b
           m == Len(s)
           n == Len(t)
           k == Len(u)
<1>0. m \in Nat /\ n \in Nat /\ k \in Nat
  OBVIOUS
<1>1. /\ a \in Seq(S) /\ Len(a) = m + n
      /\ \A i \in 1..(m + n) : a[i] = IF i <= m THEN s[i] ELSE t[i - m]
  BY ConcatFacts
<1>2. /\ b \in Seq(S) /\ Len(b) = n + k
      /\ \A i \in 1..(n + k) : b[i] = IF i <= n THEN t[i] ELSE u[i - n]
  BY ConcatFacts
<1> HIDE DEF a, b
<1>3. /\ l \in Seq(S) /\ Len(l) = Len(a) + k
      /\ \A i \in 1..(Len(a) + k) : l[i] = IF i <= Len(a) THEN a[i] ELSE u[i - Len(a)]
  <2>1. a \in Seq(S) /\ u \in Seq(S)
    BY <1>1
  <2>2. /\ a \o u \in Seq(S) /\ Len(a \o u) = Len(a) + Len(u)
        /\ \A i \in 1..(Len(a) + Len(u)) : (a \o u)[i] = IF i <= Len(a) THEN a[i] ELSE u[i - Len(a)]
    BY ONLY <2>1, ConcatFacts
  <2> QED
    BY ONLY <2>2
<1>4. /\ r \in Seq(S) /\ Len(r) = m + Len(b)
      /\ \A i \in 1..(m + Len(b)) : r[i] = IF i <= m THEN s[i] ELSE b[i - m]
  <2>1. s \in Seq(S) /\ b \in Seq(S)
    BY <1>2
  <2>2. /\ s \o b \in Seq(S) /\ Len(s \o b) = Len(s) + Len(b)
        /\ \A i \in 1..(Len(s) + Len(b)) : (s \o b)[i] = IF i <= Len(s) THEN s[i] ELSE b[i - Len(s)]
    BY ONLY <2>1, ConcatFacts
  <2> QED
    BY ONLY <2>2
<1> HIDE DEF l, r, m, n, k
<1>5. ASSUME NEW i \in 1..(m + n + k) PROVE l[i] = r[i]
  <2>1. CASE i <= m
    <3>1. i \in 1..(m + n) /\ i <= m + n /\ i \in 1..((m + n) + k) /\ i \in 1..(m + (n + k))
      BY <1>0, <2>1
    <3> QED
      BY <1>1, <1>2, <1>3, <1>4, <2>1, <3>1
  <2>2. CASE ~ (i <= m) /\ i <= m + n
    <3> DEFINE j == i - m
    <3>1. /\ i \in 1..(m + n) /\ i \in 1..((m + n) + k) /\ i \in 1..(m + (n + k))
          /\ j \in 1..(n + k) /\ j <= n
      BY <1>0, <2>2
    <3> HIDE DEF j
    <3>2. l[i] = t[j]
      BY <1>1, <1>3, <2>2, <3>1 DEF j
    <3>3. r[i] = b[j]
      BY <1>2, <1>4, <2>2, <3>1 DEF j
    <3>4. b[j] = t[j]
      BY <1>2, <3>1
    <3> QED
      BY <3>2, <3>3, <3>4
  <2>3. CASE ~ (i <= m + n)
    <3> DEFINE j == i - m
    <3>1. /\ i \in 1..((m + n) + k) /\ i \in 1..(m + (n + k)) /\ ~ (i <= m)
          /\ j \in 1..(n + k) /\ ~ (j <= n) /\ j - n = i - (m + n)
      BY <1>0, <2>3
    <3> HIDE DEF j
    <3>2. l[i] = u[j - n]
      BY <1>1, <1>3, <2>3, <3>1
    <3>3. r[i] = b[j]
      BY <1>2, <1>4, <3>1 DEF j
    <3>4. b[j] = u[j - n]
      BY <1>2, <3>1
    <3> QED
      BY <3>2, <3>3, <3>4
  <2> QED
    BY <2>1, <2>2, <2>3
<1>6. Len(l) = m + n + k /\ Len(r) = m + n + k
  BY <1>0, <1>1, <1>2, <1>3, <1>4
<1>7. l = r
  BY <1>3, <1>4, <1>5, <1>6, SeqEqual
<1> QED
  BY <1>7 DEF l, r, a, b

(* The last of two sequences with one element more.                        *)
LEMMA ConcatAppend ==
    ASSUME NEW S, NEW s \in Seq(S), NEW t \in Seq(S), NEW x \in S
    PROVE  s \o Append(t, x) = Append(s \o t, x)
<1>1. Append(t, x) = t \o <<x>> /\ <<x>> \in Seq(S)
  OBVIOUS
<1>2. s \o t \in Seq(S)
  BY ConcatFacts
<1>3. Append(s \o t, x) = (s \o t) \o <<x>>
  <2> DEFINE u == s \o t
  <2>1. u \in Seq(S)
    BY <1>2
  <2> HIDE DEF u
  <2>2. Append(u, x) = u \o <<x>>
    BY <2>1
  <2> QED
    BY <2>2 DEF u
<1> QED
  BY <1>1, <1>3, Associative

(* Lists behind one another, taken together.                               *)
LEMMA FlattenConcat ==
    ASSUME NEW S, NEW s \in Seq(Seq(S)), NEW t \in Seq(Seq(S))
    PROVE  FlattenSeq(s \o t) = FlattenSeq(s) \o FlattenSeq(t)
<1> DEFINE T == {u \in Seq(Seq(S)) : FlattenSeq(s \o u) = FlattenSeq(s) \o FlattenSeq(u)}
<1>1. << >> \in T
  <2>1. s \o << >> = s /\ << >> \in Seq(Seq(S))
    OBVIOUS
  <2>2. FlattenSeq(s) \in Seq(S)
    BY JoinsExist
  <2>3. FlattenSeq(s) \o << >> = FlattenSeq(s)
    BY <2>2
  <2> QED
    BY <2>1, <2>3, FlattenNone
<1>2. ASSUME NEW u \in Seq(Seq(S)), NEW x \in Seq(S), u \in T PROVE Append(u, x) \in T
  <2>1. FlattenSeq(s \o u) = FlattenSeq(s) \o FlattenSeq(u)
    BY <1>2
  <2>2. s \o Append(u, x) = Append(s \o u, x) /\ s \o u \in Seq(Seq(S))
    BY ConcatAppend, ConcatFacts
  <2>3. FlattenSeq(Append(s \o u, x)) = FlattenSeq(s \o u) \o x
    BY <2>2, FlattenAppend
  <2>4. FlattenSeq(Append(u, x)) = FlattenSeq(u) \o x
    BY FlattenAppend
  <2>5. FlattenSeq(s) \in Seq(S) /\ FlattenSeq(u) \in Seq(S)
    BY JoinsExist
  <2>6. (FlattenSeq(s) \o FlattenSeq(u)) \o x = FlattenSeq(s) \o (FlattenSeq(u) \o x)
    <3>1. PICK a \in Seq(S), b \in Seq(S) : a = FlattenSeq(s) /\ b = FlattenSeq(u)
      BY <2>5
    <3>2. (a \o b) \o x = a \o (b \o x)
      <4>1. a \in Seq(S) /\ b \in Seq(S) /\ x \in Seq(S)
        OBVIOUS
      <4> QED
        BY ONLY <4>1, Associative, SMTT(20)
    <3> QED
      BY <3>1, <3>2
  <2>7. Append(u, x) \in Seq(Seq(S))
    OBVIOUS
  <2> QED
    BY <2>1, <2>2, <2>3, <2>4, <2>6, <2>7
<1> HIDE DEF T
<1>3. Seq(Seq(S)) \subseteq T
  BY <1>1, <1>2, SeqInductive
<1> QED
  BY <1>3 DEF T

-----------------------------------------------------------------------------
Images(m, S) == {m[x] : x \in S}

(* What the elements of a sequence stand for, element by element.          *)
Maps(c, m, s, S) ==
    /\ c \in Seq(Images(m, S)) /\ Len(c) = Len(s)
    /\ \A i \in 1..Len(s) : c[i] = m[s[i]]

(* Measured gives each its own...                                          *)
LEMMA MeasuredSeq ==
    ASSUME NEW S, NEW m, NEW s \in Seq(S)
    PROVE  Maps(Measured(m, s), m, s, S)
<1>1. DOMAIN s = 1..Len(s) /\ Len(s) \in Nat /\ \A i \in 1..Len(s) : s[i] \in S
  OBVIOUS
<1>2. Measured(m, s) = [i \in 1..Len(s) |-> m[s[i]]]
  BY <1>1 DEF Measured
<1>3. \A i \in 1..Len(s) : m[s[i]] \in Images(m, S)
  BY <1>1 DEF Images
<1> QED
  BY <1>1, <1>2, <1>3 DEF Maps

(* ... of a sequence with one element more...                              *)
LEMMA MeasuredAppend ==
    ASSUME NEW S, NEW m, NEW s \in Seq(S), NEW x \in S
    PROVE  Measured(m, Append(s, x)) = Append(Measured(m, s), m[x])
<1> DEFINE R == Images(m, S)
           t == Append(s, x)
           a == Measured(m, s)
           b == Measured(m, t)
           c == Append(a, m[x])
<1>1. /\ t \in Seq(S) /\ Len(t) = Len(s) + 1 /\ t[Len(s) + 1] = x
      /\ \A i \in 1..Len(s) : t[i] = s[i]
  BY AppendElements
<1>2. Len(s) \in Nat /\ m[x] \in R
  BY DEF Images
<1> HIDE DEF t
<1>3. Maps(a, m, s, S) /\ Maps(b, m, t, S)
  BY <1>1, MeasuredSeq
<1> HIDE DEF a, b
<1>4. /\ a \in Seq(R) /\ Len(a) = Len(s) /\ \A i \in 1..Len(s) : a[i] = m[s[i]]
      /\ b \in Seq(R) /\ Len(b) = Len(t) /\ \A i \in 1..Len(t) : b[i] = m[t[i]]
  BY <1>3 DEF Maps
<1> HIDE DEF R
<1>5. /\ c \in Seq(R) /\ Len(c) = Len(a) + 1 /\ c[Len(a) + 1] = m[x]
      /\ \A i \in 1..Len(a) : c[i] = a[i]
  BY <1>2, <1>4, AppendElements
<1> HIDE DEF c
<1>6. ASSUME NEW i \in 1..Len(b) PROVE b[i] = c[i]
  <2>1. i \in 1..Len(t) /\ (i \in 1..Len(s) \/ i = Len(s) + 1)
    BY <1>1, <1>2, <1>4
  <2>2. b[i] = m[t[i]]
    BY <1>4, <2>1
  <2>3. CASE i \in 1..Len(s)
    <3>1. t[i] = s[i] /\ c[i] = a[i] /\ a[i] = m[s[i]]
      BY <1>1, <1>4, <1>5, <2>3
    <3> QED
      BY <2>2, <3>1
  <2>4. CASE i = Len(s) + 1
    <3>1. t[i] = x /\ c[i] = m[x]
      BY <1>1, <1>4, <1>5, <2>4
    <3> QED
      BY <2>2, <3>1
  <2> QED
    BY <2>1, <2>3, <2>4
<1>7. b = c
  BY <1>1, <1>4, <1>5, <1>6, SeqEqual
<1> QED
  BY <1>7 DEF b, c, a, t

(* ... of none...                                                          *)
LEMMA MeasuredNone == ASSUME NEW m PROVE Measured(m, << >>) = << >>
BY DEF Measured

(* ... and of two sequences, one behind the other.                         *)
LEMMA MeasuredJoin ==
    ASSUME NEW S, NEW m, NEW s \in Seq(S), NEW t \in Seq(S)
    PROVE  Measured(m, s \o t) = Measured(m, s) \o Measured(m, t)
<1> DEFINE R == Images(m, S)
           T == {u \in Seq(S) : Measured(m, s \o u) = Measured(m, s) \o Measured(m, u)}
<1>1. << >> \in T
  <2>1. s \o << >> = s /\ << >> \in Seq(S)
    OBVIOUS
  <2>2. PICK a \in Seq(R) : a = Measured(m, s)
    BY MeasuredSeq DEF Maps
  <2>3. a \o << >> = a
    OBVIOUS
  <2> QED
    BY <2>1, <2>2, <2>3, MeasuredNone
<1>2. ASSUME NEW u \in Seq(S), NEW x \in S, u \in T PROVE Append(u, x) \in T
  <2>1. Measured(m, s \o u) = Measured(m, s) \o Measured(m, u)
    BY <1>2
  <2>2. s \o Append(u, x) = Append(s \o u, x) /\ s \o u \in Seq(S)
    BY ConcatAppend, ConcatFacts
  <2>3. Measured(m, Append(s \o u, x)) = Append(Measured(m, s \o u), m[x])
    BY <2>2, MeasuredAppend
  <2>4. Measured(m, Append(u, x)) = Append(Measured(m, u), m[x])
    BY MeasuredAppend
  <2>5. Measured(m, s) \in Seq(R) /\ Measured(m, u) \in Seq(R) /\ m[x] \in R
    BY MeasuredSeq DEF Images, Maps
  <2>6. Measured(m, s) \o Append(Measured(m, u), m[x]) = Append(Measured(m, s) \o Measured(m, u), m[x])
    BY ONLY <2>5, ConcatAppend
  <2>7. Append(u, x) \in Seq(S)
    OBVIOUS
  <2> QED
    BY <2>1, <2>2, <2>3, <2>4, <2>6, <2>7
<1> HIDE DEF T
<1>3. Seq(S) \subseteq T
  BY <1>1, <1>2, SeqInductive
<1> QED
  BY <1>3 DEF T

(* What the elements of a sequence carry, one behind the other.            *)
Carried(m, s) == FlattenSeq(Measured(m, s))

(* They carry elements of R.                                               *)
Carries(m, S, R) == \A x \in S : m[x] \in Seq(R)

(* So each has a list, and together they carry one.                        *)
LEMMA CarriesLists ==
    ASSUME NEW S, NEW R, NEW m, Carries(m, S, R), NEW s \in Seq(S)
    PROVE  Measured(m, s) \in Seq(Seq(R)) /\ Carried(m, s) \in Seq(R)
<1>1. Measured(m, s) \in Seq(Seq(R))
  <2>1. \A y \in Images(m, S) : y \in Seq(R)
    BY DEF Carries, Images
  <2>2. Measured(m, s) \in Seq(Images(m, S))
    BY MeasuredSeq DEF Maps
  <2> QED
    BY <2>1, <2>2
<1> QED
  BY <1>1, JoinsExist DEF Carried

(* None carry nothing...                                                   *)
LEMMA CarriedNone == ASSUME NEW m PROVE Carried(m, << >>) = << >>
BY MeasuredNone, FlattenNone DEF Carried

(* ... two sequences what the one and then the other carries...            *)
LEMMA CarriedJoin ==
    ASSUME NEW S, NEW R, NEW m, Carries(m, S, R), NEW s \in Seq(S), NEW t \in Seq(S)
    PROVE  Carried(m, s \o t) = Carried(m, s) \o Carried(m, t)
<1>1. Measured(m, s) \in Seq(Seq(R)) /\ Measured(m, t) \in Seq(Seq(R))
  BY CarriesLists
<1>2. Measured(m, s \o t) = Measured(m, s) \o Measured(m, t)
  BY MeasuredJoin
<1> QED
  BY <1>1, <1>2, FlattenConcat DEF Carried

(* ... one element more carries what comes last...                         *)
LEMMA CarriedAppend ==
    ASSUME NEW S, NEW R, NEW m, Carries(m, S, R), NEW s \in Seq(S), NEW x \in S
    PROVE  Carried(m, Append(s, x)) = Carried(m, s) \o m[x]
<1>1. Measured(m, s) \in Seq(Seq(R)) /\ m[x] \in Seq(R)
  BY CarriesLists DEF Carries
<1>2. Measured(m, Append(s, x)) = Append(Measured(m, s), m[x])
  BY MeasuredAppend
<1> QED
  BY <1>1, <1>2, FlattenAppend DEF Carried

(* ... and what lists of elements carry is what their elements carry.      *)
LEMMA CarriedFlatten ==
    ASSUME NEW S, NEW R, NEW m, Carries(m, S, R), NEW seqs \in Seq(Seq(S))
    PROVE  Carried(m, FlattenSeq(seqs)) = Carried([s \in Seq(S) |-> Carried(m, s)], seqs)
<1> DEFINE c == [s \in Seq(S) |-> Carried(m, s)]
           T == {u \in Seq(Seq(S)) : Carried(m, FlattenSeq(u)) = Carried(c, u)}
<1>1. Carries(c, Seq(S), R) /\ \A s \in Seq(S) : c[s] = Carried(m, s)
  BY CarriesLists DEF Carries
<1> HIDE DEF c
<1>2. << >> \in T
  <2>1. << >> \in Seq(Seq(S))
    OBVIOUS
  <2> QED
    BY <2>1, CarriedNone, FlattenNone
<1>3. ASSUME NEW u \in Seq(Seq(S)), NEW x \in Seq(S), u \in T PROVE Append(u, x) \in T
  <2>1. Carried(m, FlattenSeq(u)) = Carried(c, u)
    BY <1>3
  <2>2. FlattenSeq(Append(u, x)) = FlattenSeq(u) \o x /\ FlattenSeq(u) \in Seq(S)
    BY FlattenAppend, JoinsExist
  <2>3. Carried(m, FlattenSeq(u) \o x) = Carried(m, FlattenSeq(u)) \o Carried(m, x)
    BY <2>2, CarriedJoin
  <2>4. Carried(c, Append(u, x)) = Carried(c, u) \o c[x]
    BY <1>1, CarriedAppend
  <2>5. Append(u, x) \in Seq(Seq(S))
    OBVIOUS
  <2> QED
    BY <1>1, <2>1, <2>2, <2>3, <2>4, <2>5
<1> HIDE DEF T
<1>4. Seq(Seq(S)) \subseteq T
  BY <1>2, <1>3, SeqInductive
<1> QED
  BY <1>4 DEF T, c

(* Two lists together count for what they count for alone.                 *)
LEMMA MeasuredConcat ==
    ASSUME NEW S, NEW m \in [S -> Int], NEW s \in Seq(S), NEW t \in Seq(S)
    PROVE  /\ s \o t \in Seq(S)
           /\ Total(Measured(m, s \o t)) = Total(Measured(m, s)) + Total(Measured(m, t))
<1>1. s \o t \in Seq(S)
  BY ConcatFacts
<1>2. Measured(m, s \o t) = Measured(m, s) \o Measured(m, t)
  BY MeasuredJoin
<1>3. Measured(m, s) \in Seq(Int) /\ Measured(m, t) \in Seq(Int)
  <2>1. Measures(Measured(m, s), m, s) /\ Measures(Measured(m, t), m, t)
    BY MeasuredFacts, Zenon
  <2> QED
    BY <2>1 DEF Measures
<1> QED
  BY <1>1, <1>2, <1>3, TotalConcat

(* What the lists of a list count for is what their elements count for.    *)
LEMMA FlattenTotal ==
    ASSUME NEW S, NEW m \in [S -> Int], NEW seqs \in Seq(Seq(S))
    PROVE  /\ FlattenSeq(seqs) \in Seq(S)
           /\ Total(Measured(m, FlattenSeq(seqs)))
                = Total([j \in 1..Len(seqs) |-> Total(Measured(m, seqs[j]))])
<1> DEFINE n == Len(seqs)
           w == [j \in 1..n |-> Total(Measured(m, seqs[j]))]
<1>1. n \in Nat /\ DOMAIN seqs = 1..n /\ \A j \in 1..n : seqs[j] \in Seq(S)
  OBVIOUS
<1>2. \A j \in 1..n : Total(Measured(m, seqs[j])) \in Int
  BY <1>1, MeasuredFacts, TotalType DEF Measures
<1>3. w \in Seq(Int) /\ Len(w) = n /\ \A j \in 1..n : w[j] = Total(Measured(m, seqs[j]))
  BY <1>1, <1>2
<1> HIDE DEF w
<1>4. CASE n = 0
  <2>1. seqs = << >> /\ FlattenSeq(seqs) = << >> /\ w = << >>
    BY <1>3, <1>4 DEF FlattenSeq
  <2>2. Measured(m, << >>) = << >>
    BY DEF Measured
  <2>3. << >> \in Seq(S) /\ w = Measured(m, FlattenSeq(seqs))
    BY <2>1, <2>2
  <2>4. FlattenSeq(seqs) \in Seq(S)
    BY <2>1, <2>3
  <2>5. Total(Measured(m, FlattenSeq(seqs))) = Total(w)
    BY <2>3
  <2> QED
    BY <2>4, <2>5 DEF w
<1>5. CASE n # 0
  <2>1. PICK f : Flattens(f, seqs) /\ FlattenSeq(seqs) = f[n]
    BY <1>5, FlattenExists
  <2>2. PICK g : PrefixSums(g, w) /\ Total(w) = g[n]
    BY <1>3, TotalPrefix
  <2> DEFINE T == {i \in Nat : i + 1 \in 1..n =>
                      f[i + 1] \in Seq(S) /\ Total(Measured(m, f[i + 1])) = g[i + 1]}
  <2>3. /\ f[1] = seqs[1] /\ 1 \in 1..n
        /\ \A i \in 1..n : i # 1 => f[i] = f[i - 1] \o seqs[i]
    <3>1. f = [i \in 1..n |-> IF i = 1 THEN seqs[i] ELSE f[i - 1] \o seqs[i]]
      BY <2>1 DEF Flattens
    <3>2. 1 \in 1..n
      BY <1>1, <1>5
    <3> HIDE DEF n
    <3> QED
      BY <3>1, <3>2
  <2>4. g[0] = 0 /\ \A i \in 1..n : g[i] = g[i - 1] + w[i]
    BY <1>3, <2>2 DEF PrefixSums
  <2>5. 0 \in T
    <3>1. g[1] = g[1 - 1] + w[1]
      BY <2>3, <2>4
    <3>2. g[1] = w[1] /\ w[1] = Total(Measured(m, seqs[1]))
      BY <1>2, <1>3, <2>3, <2>4, <3>1
    <3> QED
      BY <1>1, <2>3, <3>2
  <2>6. ASSUME NEW i \in Nat, i \in T PROVE i + 1 \in T
    <3> DEFINE k == (i + 1) + 1
    <3> SUFFICES ASSUME k \in 1..n PROVE f[k] \in Seq(S) /\ Total(Measured(m, f[k])) = g[k]
      OBVIOUS
    <3>1. i + 1 \in 1..n /\ k # 1 /\ k - 1 = i + 1
      BY <1>1
    <3>2. f[i + 1] \in Seq(S) /\ Total(Measured(m, f[i + 1])) = g[i + 1]
      BY <2>6, <3>1
    <3>3. f[k] = f[i + 1] \o seqs[k] /\ g[k] = g[i + 1] + w[k]
      BY <2>3, <2>4, <3>1
    <3>4. seqs[k] \in Seq(S) /\ w[k] = Total(Measured(m, seqs[k]))
      BY <1>1, <1>3
    <3> HIDE DEF T, k
    <3>5. /\ f[i + 1] \o seqs[k] \in Seq(S)
          /\ Total(Measured(m, f[i + 1] \o seqs[k]))
               = Total(Measured(m, f[i + 1])) + Total(Measured(m, seqs[k]))
      BY <3>2, <3>4, MeasuredConcat
    <3> QED
      BY <3>2, <3>3, <3>4, <3>5
  <2> HIDE DEF T
  <2>7. Nat \subseteq T
    BY <2>5, <2>6, NatInductive
  <2>8. n - 1 \in T /\ (n - 1) + 1 = n /\ n \in 1..n
    BY <1>1, <1>5, <2>7
  <2>9. f[n] \in Seq(S) /\ Total(Measured(m, f[n])) = g[n]
    BY <2>8 DEF T
  <2> QED
    BY <2>1, <2>2, <2>9 DEF w
<1> QED
  BY <1>4, <1>5

(* Lists have together the elements they have alone.                       *)
LEMMA FlattenLen ==
    ASSUME NEW S, NEW seqs \in Seq(Seq(S))
    PROVE  Len(FlattenSeq(seqs)) = Total([j \in DOMAIN seqs |-> Len(seqs[j])])
<1> DEFINE lens == [s \in Seq(S) |-> Len(s)]
           T == {u \in Seq(Seq(S)) : Len(FlattenSeq(u)) = Total(Measured(lens, u))}
<1>1. lens \in [Seq(S) -> Int] /\ \A s \in Seq(S) : lens[s] = Len(s) /\ Len(s) \in Nat
  OBVIOUS
<1>2. Measured(lens, seqs) = [j \in DOMAIN seqs |-> Len(seqs[j])]
  <2>1. \A j \in DOMAIN seqs : seqs[j] \in Seq(S)
    OBVIOUS
  <2> HIDE DEF lens
  <2> QED
    BY <1>1, <2>1 DEF Measured
<1> HIDE DEF lens
<1>3. << >> \in T
  <2>1. << >> \in Seq(Seq(S)) /\ Len(<< >>) = 0
    OBVIOUS
  <2> QED
    BY <2>1, FlattenNone, MeasuredNone, TotalEmpty
<1>4. ASSUME NEW u \in Seq(Seq(S)), NEW x \in Seq(S), u \in T PROVE Append(u, x) \in T
  <2>1. Len(FlattenSeq(u)) = Total(Measured(lens, u))
    BY <1>4
  <2>2. FlattenSeq(Append(u, x)) = FlattenSeq(u) \o x /\ FlattenSeq(u) \in Seq(S)
    BY FlattenAppend, JoinsExist
  <2>3. Len(FlattenSeq(u) \o x) = Len(FlattenSeq(u)) + Len(x)
    BY <2>2, ConcatFacts
  <2>4. Measured(lens, Append(u, x)) = Append(Measured(lens, u), Len(x))
    <3>1. Measured(lens, Append(u, x)) = Append(Measured(lens, u), lens[x])
      BY MeasuredAppend
    <3> QED
      BY <1>1, <3>1
  <2>5. Measured(lens, u) \in Seq(Int)
    <3>1. Measures(Measured(lens, u), lens, u)
      BY <1>1, MeasuredFacts
    <3> QED
      BY <3>1 DEF Measures
  <2>6. Total(Append(Measured(lens, u), Len(x))) = Total(Measured(lens, u)) + Len(x)
    <3>1. Len(x) \in Int
      BY <1>1
    <3> QED
      BY ONLY <2>5, <3>1, TotalAppend
  <2>7. Append(u, x) \in Seq(Seq(S))
    OBVIOUS
  <2> QED
    BY <2>1, <2>2, <2>3, <2>4, <2>6, <2>7
<1> HIDE DEF T
<1>5. Seq(Seq(S)) \subseteq T
  BY <1>3, <1>4, SeqInductive
<1> QED
  BY <1>2, <1>5 DEF T

(* Lists of which all but one are empty.                                   *)
LEMMA FlattenOne ==
    ASSUME NEW S, NEW seqs \in Seq(Seq(S)), NEW k \in 1..Len(seqs),
           \A i \in 1..Len(seqs) : i # k => seqs[i] = << >>
    PROVE  FlattenSeq(seqs) = seqs[k]
<1> DEFINE x == seqs[k]
           n == Len(seqs)
           g == [i \in 0..n |-> IF i < k THEN << >> ELSE x]
<1>1. n \in Nat /\ k \in 1..n /\ x \in Seq(S)
  OBVIOUS
<1>2. << >> \o << >> = << >> /\ x \o << >> = x /\ << >> \o x = x
  BY <1>1
<1>3. x = seqs[k]
  OBVIOUS
<1> HIDE DEF x
<1>4. ASSUME NEW i \in 1..n PROVE g[i] = g[i - 1] \o seqs[i]
  <2> HIDE DEF n
  <2>1. CASE i < k
    <3>1. g[i] = << >> /\ g[i - 1] = << >> /\ i # k
      BY <1>1, <2>1
    <3>2. seqs[i] = << >>
      BY <3>1 DEF n
    <3> HIDE DEF g
    <3> QED
      BY <1>2, <3>1, <3>2
  <2>2. CASE i = k
    <3>1. g[i] = x /\ g[i - 1] = << >>
      BY <1>1, <2>2
    <3> HIDE DEF g
    <3> QED
      BY <1>2, <1>3, <2>2, <3>1
  <2>3. CASE i > k
    <3>1. g[i] = x /\ g[i - 1] = x /\ i # k
      BY <1>1, <2>3
    <3>2. seqs[i] = << >>
      BY <3>1 DEF n
    <3> HIDE DEF g
    <3> QED
      BY <1>2, <3>1, <3>2
  <2>4. i < k \/ i = k \/ i > k
    BY <1>1
  <2> HIDE DEF g
  <2> QED
    BY <2>1, <2>2, <2>3, <2>4
<1>5. g[0] = << >> /\ g[n] = x
  BY <1>1
<1> HIDE DEF g
<1>6. Joins(g, seqs)
  BY <1>4, <1>5 DEF Joins
<1>7. FlattenSeq(seqs) = g[n]
  BY <1>6, FlattenIs
<1> QED
  BY <1>3, <1>5, <1>7

(* Lists all of which are empty.                                           *)
LEMMA FlattenEmpty ==
    ASSUME NEW S, NEW seqs \in Seq(Seq(S)), \A i \in 1..Len(seqs) : seqs[i] = << >>
    PROVE  FlattenSeq(seqs) = << >>
<1>1. Len(seqs) \in Nat
  OBVIOUS
<1>2. CASE Len(seqs) = 0
  <2>1. seqs = << >>
    BY <1>2
  <2> QED
    BY <2>1, FlattenNone
<1>3. CASE Len(seqs) # 0
  <2>1. 1 \in 1..Len(seqs)
    BY <1>1, <1>3
  <2>2. FlattenSeq(seqs) = seqs[1]
    BY <2>1, FlattenOne
  <2> QED
    BY <2>1, <2>2
<1> QED
  BY <1>2, <1>3

-----------------------------------------------------------------------------
(* A sum of equal terms.                                                   *)
LEMMA TotalConst ==
    ASSUME NEW s \in Seq(Int), NEW c \in Int, \A i \in 1..Len(s) : s[i] = c
    PROVE  Total(s) = Len(s) * c
<1> DEFINE n == Len(s)
           f == [i \in 0..n |-> i * c]
<1>1. n \in Nat
  OBVIOUS
<1> HIDE DEF n
<1>2. ASSUME NEW i \in 1..n PROVE f[i] = f[i - 1] + s[i]
  <2>1. f[i] = i * c /\ f[i - 1] = (i - 1) * c
    BY <1>1
  <2>2. s[i] = c
    BY DEF n
  <2>3. i * c = (i - 1) * c + c
    OBVIOUS
  <2> HIDE DEF f
  <2> QED
    BY <2>1, <2>2, <2>3
<1>3. f[0] = 0 /\ f[n] = n * c
  BY <1>1
<1> HIDE DEF f
<1>4. PrefixSums(f, s)
  BY <1>2, <1>3 DEF PrefixSums, n
<1> QED
  BY <1>3, <1>4, TotalIs DEF n

(* Each term, and so the sum, taken c times.                               *)
LEMMA TotalScaled ==
    ASSUME NEW s \in Seq(Int), NEW t \in Seq(Int), NEW c \in Int,
           Len(t) = Len(s), \A i \in 1..Len(s) : t[i] = c * s[i]
    PROVE  Total(t) = c * Total(s)
<1> DEFINE n == Len(s)
<1>0. PICK f : PrefixSums(f, s) /\ Total(s) = f[n]
  BY TotalPrefix
<1> DEFINE g == [i \in 0..n |-> c * f[i]]
<1>1. n \in Nat /\ \A i \in 1..n : s[i] \in Int
  OBVIOUS
<1>2. /\ f[0] = 0 /\ \A i \in 1..n : f[i] = f[i - 1] + s[i]
      /\ \A i \in 0..n : f[i] \in Int
  BY <1>0, PrefixInt DEF PrefixSums
<1>3. ASSUME NEW i \in 1..n PROVE g[i] = g[i - 1] + t[i]
  <2>1. g[i] = c * f[i] /\ g[i - 1] = c * f[i - 1]
    BY <1>1
  <2>2. t[i] = c * s[i] /\ f[i] = f[i - 1] + s[i] /\ f[i - 1] \in Int /\ s[i] \in Int
    BY <1>1, <1>2
  <2> DEFINE x == f[i - 1]
             y == s[i]
  <2>3. x \in Int /\ y \in Int
    BY <2>2
  <2> HIDE DEF x, y
  <2>4. c * (x + y) = c * x + c * y
    BY <2>3
  <2> HIDE DEF g, n
  <2> QED
    BY <2>1, <2>2, <2>4 DEF x, y
<1>4. g[0] = 0 /\ g[n] = c * f[n]
  BY <1>1, <1>2
<1> HIDE DEF g
<1>5. PrefixSums(g, t)
  BY <1>3, <1>4 DEF PrefixSums
<1>6. Total(t) = g[n]
  BY <1>5, TotalIs
<1> QED
  BY <1>0, <1>4, <1>6

(* The larger the terms, the larger the sum.                               *)
LEMMA TotalMonotone ==
    ASSUME NEW s \in Seq(Int), NEW t \in Seq(Int), Len(t) = Len(s),
           \A i \in 1..Len(s) : s[i] <= t[i]
    PROVE  Total(s) <= Total(t)
<1> DEFINE n == Len(s)
           d == [i \in 1..n |-> t[i] - s[i]]
<1>1. n \in Nat /\ \A i \in 1..n : s[i] \in Int /\ t[i] \in Int /\ t[i] - s[i] \in Nat
  <2>1. ASSUME NEW i \in 1..n PROVE s[i] \in Int /\ t[i] \in Int /\ s[i] <= t[i]
    OBVIOUS
  <2> QED
    BY <2>1
<1>2. d \in Seq(Nat) /\ Len(d) = n /\ \A i \in 1..n : d[i] = t[i] - s[i]
  BY <1>1
<1> HIDE DEF d
<1>3. d \in Seq(Int) /\ \A i \in 1..n : t[i] = s[i] + d[i]
  BY <1>1, <1>2
<1>4. Total(t) = Total(s) + Total(d)
  BY <1>2, <1>3, TotalPlus
<1>5. Total(d) \in Nat /\ Total(s) \in Int
  BY <1>2, TotalNat, TotalType
<1> QED
  BY <1>4, <1>5

(* One for each of the first k.                                            *)
LEMMA TotalFirst ==
    ASSUME NEW s \in Seq(Int), NEW k \in 0..Len(s),
           \A i \in 1..Len(s) : s[i] = IF i <= k THEN 1 ELSE 0
    PROVE  Total(s) = k
<1> DEFINE n == Len(s)
           f == [i \in 0..n |-> IF i <= k THEN i ELSE k]
<1>1. n \in Nat /\ k \in 0..n
  OBVIOUS
<1> HIDE DEF n
<1>2. ASSUME NEW i \in 1..n PROVE f[i] = f[i - 1] + s[i]
  <2>1. s[i] = IF i <= k THEN 1 ELSE 0
    BY DEF n
  <2>2. /\ f[i] = IF i <= k THEN i ELSE k
        /\ f[i - 1] = IF i - 1 <= k THEN i - 1 ELSE k
    BY <1>1
  <2> HIDE DEF f
  <2> QED
    BY <1>1, <2>1, <2>2
<1>3. f[0] = 0 /\ f[n] = k
  BY <1>1
<1> HIDE DEF f
<1>4. PrefixSums(f, s)
  BY <1>2, <1>3 DEF PrefixSums, n
<1> QED
  BY <1>3, <1>4, TotalIs DEF n

-----------------------------------------------------------------------------
(* A part of a sequence, and parts that follow each other.                 *)
LEMMA SubSeqFacts ==
    ASSUME NEW S, NEW s \in Seq(S), NEW a \in Nat, NEW b \in Nat, a <= b, b <= Len(s)
    PROVE  /\ SubSeq(s, a + 1, b) \in Seq(S) /\ Len(SubSeq(s, a + 1, b)) = b - a
           /\ \A i \in 1..(b - a) : SubSeq(s, a + 1, b)[i] = s[a + i]
<1>1. Len(s) \in Nat
  OBVIOUS
<1>2. SubSeq(s, a + 1, b) \in Seq(S)
  <2>1. \A i \in (a + 1)..b : s[i] \in S
    BY <1>1
  <2> QED
    BY <1>1, <2>1
<1>3. Len(SubSeq(s, a + 1, b)) = b - a
  BY <1>1
<1>4. ASSUME NEW i \in 1..(b - a) PROVE SubSeq(s, a + 1, b)[i] = s[a + i]
  <2>1. i \in 1..((b - (a + 1)) + 1) /\ (a + 1) + i - 1 = a + i
    BY <1>1
  <2> QED
    BY <1>1, <2>1
<1> QED
  BY <1>2, <1>3, <1>4

(* One part behind the other is the part that spans both.                  *)
LEMMA SubSeqJoin ==
    ASSUME NEW S, NEW s \in Seq(S), NEW a \in Nat, NEW b \in Nat, a <= b, b <= Len(s)
    PROVE  SubSeq(s, 1, a) \o SubSeq(s, a + 1, b) = SubSeq(s, 1, b)
<1> DEFINE l == SubSeq(s, 1, a)
           r == SubSeq(s, a + 1, b)
           w == SubSeq(s, 1, b)
           u == l \o r
<1>0. Len(s) \in Nat /\ 0 \in Nat /\ 0 <= a /\ 0 <= b /\ a <= Len(s) /\ 0 + 1 = 1
  OBVIOUS
<1>1. l \in Seq(S) /\ Len(l) = a /\ \A i \in 1..a : l[i] = s[i]
  <2>1. /\ SubSeq(s, 0 + 1, a) \in Seq(S) /\ Len(SubSeq(s, 0 + 1, a)) = a - 0
        /\ \A i \in 1..(a - 0) : SubSeq(s, 0 + 1, a)[i] = s[0 + i]
    BY <1>0, SubSeqFacts
  <2> QED
    BY <2>1
<1>2. r \in Seq(S) /\ Len(r) = b - a /\ \A i \in 1..(b - a) : r[i] = s[a + i]
  BY SubSeqFacts
<1>3. w \in Seq(S) /\ Len(w) = b /\ \A i \in 1..b : w[i] = s[i]
  <2>1. /\ SubSeq(s, 0 + 1, b) \in Seq(S) /\ Len(SubSeq(s, 0 + 1, b)) = b - 0
        /\ \A i \in 1..(b - 0) : SubSeq(s, 0 + 1, b)[i] = s[0 + i]
    BY <1>0, SubSeqFacts
  <2> QED
    BY <2>1
<1> HIDE DEF l, r, w
<1>4. /\ u \in Seq(S) /\ Len(u) = Len(l) + Len(r)
      /\ \A i \in 1..(Len(l) + Len(r)) : u[i] = IF i <= Len(l) THEN l[i] ELSE r[i - Len(l)]
  <2>1. l \in Seq(S) /\ r \in Seq(S)
    BY <1>1, <1>2
  <2> QED
    BY ONLY <2>1, ConcatFacts
<1> HIDE DEF u
<1>5. Len(u) = b
  BY <1>1, <1>2, <1>4
<1>6. ASSUME NEW i \in 1..b PROVE u[i] = w[i]
  <2>1. u[i] = IF i <= a THEN l[i] ELSE r[i - a]
    BY <1>1, <1>2, <1>4
  <2>2. CASE i <= a
    <3>1. i \in 1..a
      BY <2>2
    <3> QED
      BY <1>1, <1>3, <2>1, <2>2, <3>1
  <2>3. CASE ~ (i <= a)
    <3>1. i - a \in 1..(b - a) /\ a + (i - a) = i
      BY <2>3
    <3>2. r[i - a] = s[a + (i - a)]
      BY <1>2, <3>1
    <3> QED
      BY <1>3, <2>1, <2>3, <3>1, <3>2
  <2> QED
    BY <2>2, <2>3
<1>7. u = w
  BY <1>3, <1>4, <1>5, <1>6, SeqEqual
<1> QED
  BY <1>7 DEF u, w, l, r

(* The first none and the first all of a sequence.                         *)
LEMMA SubSeqEnds ==
    ASSUME NEW S, NEW s \in Seq(S)
    PROVE  SubSeq(s, 1, 0) = << >> /\ SubSeq(s, 1, Len(s)) = s
<1>1. Len(s) \in Nat
  OBVIOUS
<1> DEFINE w == SubSeq(s, 1, Len(s))
<1>2. w \in Seq(S) /\ Len(w) = Len(s) /\ \A i \in 1..Len(s) : w[i] = s[i]
  <2>1. /\ SubSeq(s, 0 + 1, Len(s)) \in Seq(S) /\ Len(SubSeq(s, 0 + 1, Len(s))) = Len(s) - 0
        /\ \A i \in 1..(Len(s) - 0) : SubSeq(s, 0 + 1, Len(s))[i] = s[0 + i]
    <3>1. 0 \in Nat /\ 0 <= Len(s) /\ Len(s) <= Len(s)
      BY <1>1
    <3> QED
      BY <1>1, <3>1, SubSeqFacts
  <2> QED
    BY <1>1, <2>1
<1> HIDE DEF w
<1>3. w = s
  BY <1>2, SeqEqual
<1> QED
  BY <1>3 DEF w

(* The first elements of a sequence, and the next.                         *)
LEMMA SubSeqNext ==
    ASSUME NEW S, NEW s \in Seq(S), NEW n \in Nat, n + 1 <= Len(s)
    PROVE  Append(SubSeq(s, 1, n), s[n + 1]) = SubSeq(s, 1, n + 1)
<1> DEFINE l == SubSeq(s, 1, n)
           r == SubSeq(s, n + 1, n + 1)
<1>0. Len(s) \in Nat /\ n + 1 \in Nat /\ n <= n + 1 /\ 0 \in Nat /\ 0 <= n /\ n <= Len(s) /\ n + 1 \in 1..Len(s)
  OBVIOUS
<1>1. l \in Seq(S)
  <2>1. SubSeq(s, 0 + 1, n) \in Seq(S)
    BY <1>0, SubSeqFacts
  <2> QED
    BY <2>1
<1>2. r \in Seq(S) /\ Len(r) = 1 /\ r[1] = s[n + 1]
  <2>1. /\ r \in Seq(S) /\ Len(r) = (n + 1) - n
        /\ \A i \in 1..((n + 1) - n) : r[i] = s[n + i]
    BY <1>0, SubSeqFacts
  <2> HIDE DEF r
  <2> QED
    BY <2>1
<1>3. l \o r = SubSeq(s, 1, n + 1)
  BY <1>0, SubSeqJoin
<1> HIDE DEF l, r
<1>4. r = <<s[n + 1]>>
  BY <1>0, <1>2
<1>5. l \o <<s[n + 1]>> = Append(l, s[n + 1])
  BY <1>0, <1>1
<1> QED
  BY <1>3, <1>4, <1>5 DEF l

(* The last of a sequence, and the others.                                 *)
LEMMA FrontLast ==
    ASSUME NEW S, NEW s \in Seq(S), NEW x \in S
    PROVE  Last(Append(s, x)) = x /\ Front(Append(s, x)) = s
<1> DEFINE t == Append(s, x)
           f == Front(t)
<1>1. /\ t \in Seq(S) /\ Len(t) = Len(s) + 1 /\ t[Len(s) + 1] = x
      /\ \A i \in 1..Len(s) : t[i] = s[i]
  BY AppendElements
<1>2. Len(s) \in Nat
  OBVIOUS
<1> HIDE DEF t
<1>3. Last(t) = x
  BY <1>1 DEF Last
<1>4. f = SubSeq(t, 0 + 1, Len(s))
  BY <1>1, <1>2 DEF Front
<1>5. f \in Seq(S) /\ Len(f) = Len(s) /\ \A i \in 1..Len(s) : f[i] = s[i]
  <2>1. /\ SubSeq(t, 0 + 1, Len(s)) \in Seq(S) /\ Len(SubSeq(t, 0 + 1, Len(s))) = Len(s) - 0
        /\ \A i \in 1..(Len(s) - 0) : SubSeq(t, 0 + 1, Len(s))[i] = t[0 + i]
    <3>1. 0 \in Nat /\ 0 <= Len(s) /\ Len(s) <= Len(t)
      BY <1>1, <1>2
    <3> QED
      BY <1>1, <1>2, <3>1, SubSeqFacts
  <2> HIDE DEF f
  <2>2. f \in Seq(S) /\ Len(f) = Len(s) - 0 /\ \A i \in 1..(Len(s) - 0) : f[i] = t[0 + i]
    BY ONLY <1>4, <2>1
  <2> QED
    BY <1>1, <1>2, <2>2
<1> HIDE DEF f
<1>6. f = s
  BY <1>5, SeqEqual
<1> QED
  BY <1>3, <1>6 DEF f, t

(* A sequence that lists were joined into gives each of them back, when it *)
(* is cut where their lengths add up to.                                   *)
LEMMA FlattenParts ==
    ASSUME NEW S, NEW seqs \in Seq(Seq(S)), NEW end, NEW w \in Seq(Int), Len(w) = Len(seqs),
           \A i \in 1..Len(seqs) : w[i] = Len(seqs[i]), PrefixSums(end, w)
    PROVE  /\ Len(FlattenSeq(seqs)) = end[Len(seqs)]
           /\ \A i \in 1..Len(seqs) : SubSeq(FlattenSeq(seqs), end[i - 1] + 1, end[i]) = seqs[i]
<1> DEFINE n == Len(seqs)
<1>1. PICK g : Joins(g, seqs) /\ FlattenSeq(seqs) = g[n]
  BY JoinsExist
<1>2. n \in Nat /\ \A i \in 1..n : seqs[i] \in Seq(S) /\ Len(seqs[i]) \in Nat
  OBVIOUS
<1>3. g[0] = << >> /\ \A i \in 1..n : g[i] = g[i - 1] \o seqs[i]
  BY <1>1 DEF Joins
<1>4. end[0] = 0 /\ \A i \in 1..n : end[i] = end[i - 1] + Len(seqs[i])
  BY DEF PrefixSums
<1> HIDE DEF n
<1> DEFINE Behind(k) == /\ end[k] \in Nat /\ g[k] \in Seq(S) /\ Len(g[k]) = end[k]
                        /\ \A i \in 1..k :
                             /\ end[i - 1] \in Nat /\ end[i] \in Nat /\ end[i] <= end[k]
                             /\ \A p \in 1..Len(seqs[i]) : g[k][end[i - 1] + p] = seqs[i][p]
           T == {k \in Nat : k \in 0..n => Behind(k)}
<1>5. 0 \in T
  <2>1. << >> \in Seq(S) /\ Len(<< >>) = 0
    OBVIOUS
  <2>2. end[0] \in Nat /\ g[0] \in Seq(S) /\ Len(g[0]) = end[0]
    BY <1>3, <1>4, <2>1
  <2>3. Behind(0)
    BY <2>2
  <2> HIDE DEF Behind
  <2> QED
    BY <2>3
<1>6. ASSUME NEW k \in Nat, k \in T PROVE k + 1 \in T
  <2> SUFFICES ASSUME k + 1 \in 0..n PROVE Behind(k + 1)
    OBVIOUS
  <2>1. k \in 0..n /\ k + 1 \in 1..n /\ (k + 1) - 1 = k
    BY <1>2
  <2>2. Behind(k)
    BY <1>6, <2>1
  <2> DEFINE x == seqs[k + 1]
             u == g[k] \o x
  <2>3. x \in Seq(S) /\ Len(x) \in Nat /\ end[k + 1] = end[k] + Len(x) /\ g[k + 1] = u
    BY <1>2, <1>3, <1>4, <2>1
  <2> HIDE DEF T
  <2>4. /\ u \in Seq(S) /\ Len(u) = end[k] + Len(x)
        /\ \A p \in 1..(end[k] + Len(x)) : u[p] = IF p <= end[k] THEN g[k][p] ELSE x[p - end[k]]
    <3>1. g[k] \in Seq(S) /\ x \in Seq(S) /\ Len(g[k]) = end[k]
      BY <2>2, <2>3
    <3> HIDE DEF x
    <3> QED
      BY ONLY <3>1, ConcatFacts
  <2> HIDE DEF u
  <2>5. end[k] \in Nat /\ end[k + 1] \in Nat /\ end[k] <= end[k + 1]
    BY <2>2, <2>3
  <2>6. ASSUME NEW i \in 1..k
        PROVE  /\ end[i - 1] \in Nat /\ end[i] \in Nat /\ end[i] <= end[k + 1]
               /\ \A p \in 1..Len(seqs[i]) : u[end[i - 1] + p] = seqs[i][p]
    <3>1. /\ end[i - 1] \in Nat /\ end[i] \in Nat /\ end[i] <= end[k]
          /\ \A p \in 1..Len(seqs[i]) : g[k][end[i - 1] + p] = seqs[i][p]
      BY <2>2
    <3>2. i \in 1..n /\ end[i] = end[i - 1] + Len(seqs[i]) /\ Len(seqs[i]) \in Nat
      BY <1>2, <1>4, <2>1
    <3> HIDE DEF x, Behind
    <3>3. ASSUME NEW p \in 1..Len(seqs[i]) PROVE u[end[i - 1] + p] = seqs[i][p]
      <4>0. PICK a \in Nat, b \in Nat, c \in Nat, l \in Nat :
                   a = end[i - 1] /\ b = Len(seqs[i]) /\ c = end[k] /\ l = Len(x)
        BY <2>3, <2>5, <3>1, <3>2
      <4> DEFINE q == a + p
      <4>1. q \in 1..(end[k] + Len(x)) /\ q = end[i - 1] + p /\ q <= end[k]
        <5>1. p \in 1..b /\ a + b <= c
          BY <3>1, <3>2, <4>0
        <5>2. q \in 1..(c + l) /\ q <= c
          BY <5>1
        <5> QED
          BY <4>0, <5>2
      <4> HIDE DEF q
      <4>2. u[q] = g[k][q]
        BY <2>4, <4>1
      <4> QED
        BY <3>1, <4>1, <4>2
    <3> QED
      BY <2>5, <3>1, <3>3
  <2>7. ASSUME NEW p \in 1..Len(x) PROVE u[end[k] + p] = x[p]
    <3> HIDE DEF x, Behind
    <3>0. PICK c \in Nat, l \in Nat : c = end[k] /\ l = Len(x)
      BY <2>3, <2>5
    <3> DEFINE q == c + p
    <3>1. q \in 1..(end[k] + Len(x)) /\ q = end[k] + p /\ ~(q <= end[k]) /\ q - end[k] = p
      <4>1. p \in 1..l
        BY <3>0
      <4>2. q \in 1..(c + l) /\ ~(q <= c) /\ q - c = p
        BY <4>1
      <4> QED
        BY <3>0, <4>2
    <3> HIDE DEF q
    <3>2. u[q] = x[q - end[k]]
      BY <2>4, <3>1
    <3> QED
      BY <3>1, <3>2
  <2>8. \A i \in 1..(k + 1) : i \in 1..k \/ i = k + 1
    BY <2>1
  <2>9. ASSUME NEW i \in 1..(k + 1)
        PROVE  /\ end[i - 1] \in Nat /\ end[i] \in Nat /\ end[i] <= end[k + 1]
               /\ \A p \in 1..Len(seqs[i]) : g[k + 1][end[i - 1] + p] = seqs[i][p]
    <3>1. CASE i \in 1..k
      <4> HIDE DEF Behind
      <4> QED
        BY <2>3, <2>6, <3>1
    <3>2. CASE i = k + 1
      <4>1. i - 1 = k /\ seqs[i] = x
        BY <2>1, <3>2
      <4> HIDE DEF Behind, x
      <4> QED
        BY <2>3, <2>5, <2>7, <3>2, <4>1
    <3> QED
      BY <2>8, <3>1, <3>2
  <2>10. end[k + 1] \in Nat /\ g[k + 1] \in Seq(S) /\ Len(g[k + 1]) = end[k + 1]
    <3> HIDE DEF Behind, x
    <3> QED
      BY <2>3, <2>4, <2>5
  <2> HIDE DEF x
  <2> QED
    BY <2>9, <2>10
<1> HIDE DEF T
<1>7. Nat \subseteq T
  BY <1>5, <1>6, NatInductive
<1>8. Behind(n)
  BY <1>2, <1>7 DEF T
<1> DEFINE key == g[n]
<1>9. ASSUME NEW i \in 1..n PROVE SubSeq(key, end[i - 1] + 1, end[i]) = seqs[i]
  <2> DEFINE a == end[i - 1]
             b == end[i]
             s == SubSeq(key, a + 1, b)
  <2>1. /\ key \in Seq(S) /\ Len(key) = end[n] /\ a \in Nat /\ b \in Nat /\ b <= end[n]
        /\ \A p \in 1..Len(seqs[i]) : key[a + p] = seqs[i][p]
    BY <1>8
  <2>2. b = a + Len(seqs[i]) /\ Len(seqs[i]) \in Nat /\ seqs[i] \in Seq(S)
    BY <1>2, <1>4
  <2> HIDE DEF key, a, b
  <2>3. s \in Seq(S) /\ Len(s) = b - a /\ \A p \in 1..(b - a) : s[p] = key[a + p]
    <3>1. key \in Seq(S) /\ a \in Nat /\ b \in Nat /\ a <= b /\ b <= Len(key)
      BY <2>1, <2>2
    <3> QED
      BY ONLY <3>1, SubSeqFacts
  <2> HIDE DEF s
  <2>4. Len(s) = Len(seqs[i]) /\ b - a = Len(seqs[i])
    BY <2>1, <2>2, <2>3
  <2>5. \A p \in 1..Len(s) : s[p] = seqs[i][p]
    BY <2>1, <2>3, <2>4
  <2>6. s = seqs[i]
    BY <2>2, <2>3, <2>4, <2>5, SeqEqual
  <2> QED
    BY <2>6 DEF s, a, b
<1>10. Len(key) = end[n]
  BY <1>8
<1> HIDE DEF key
<1> QED
  BY <1>1, <1>9, <1>10 DEF key, n
=============================================================================
