----------------------------- MODULE FoldLemmas -----------------------------
(***************************************************************************)
(* What the folds of the models compute.  The induction theorems of the    *)
(* library take a predicate as a parameter; the lemmas here are proved     *)
(* from one that takes a set instead, the numbers the predicate holds of.  *)
(***************************************************************************)
EXTENDS Integers, Sequences, FiniteSets, Functions, Folds, SequencesExt, FiniteSetTheorems,
        SequenceTheorems, WellFoundedInduction, NaturalsInduction, TLAPS

\* Induction over the numbers of a set.
LEMMA Induction ==
  ASSUME NEW T, 0 \in T, \A n \in Nat : n \in T => n + 1 \in T
  PROVE  \A n \in Nat : n \in T
<1>1. SUFFICES ASSUME Nat \ T # {} PROVE FALSE
  OBVIOUS
<1>2. PICK n \in Nat \ T : \A m \in Nat \ T : <<m, n>> \notin OpToRel(<, Nat)
  <2>1. IsWellFoundedOn(OpToRel(<, Nat), Nat)
    BY NatLessThanWellFounded
  <2>2. Nat \ T \subseteq Nat
    OBVIOUS
  <2> QED BY <1>1, <2>1, <2>2, WFMin
<1>3. n # 0 /\ n - 1 \in Nat /\ n - 1 < n /\ (n - 1) + 1 = n
  OBVIOUS
<1>4. n - 1 \in T
  <2>1. <<n - 1, n>> \in OpToRel(<, Nat)
    BY <1>3 DEF OpToRel
  <2> QED BY <1>2, <1>3, <2>1
<1> QED BY <1>3, <1>4

Pick(s)    == CHOOSE x \in s : TRUE
Total(f, S) == FoldFunctionOnSet(+, 0, f, S)
Totals(f, S, g) ==
  g = [s \in SUBSET S |-> IF s = {} THEN 0 ELSE f[Pick(s)] + g[s \ {Pick(s)}]]

LEMMA TotalsExist ==
  ASSUME NEW S, IsFiniteSet(S), NEW f
  PROVE  \E g : Totals(f, S, g)
<1> DEFINE Small(n) == {s \in SUBSET S : Cardinality(s) <= n}
           Body(g, s) == IF s = {} THEN 0 ELSE f[Pick(s)] + g[s \ {Pick(s)}]
           T == {n \in Nat : \E g : g = [s \in Small(n) |-> Body(g, s)]}
<1>1. 0 \in T
  <2>1. \A s \in Small(0) : s = {}
    BY FS_Subset, FS_EmptySet, FS_CardinalityType
  <2>2. [s \in Small(0) |-> 0] = [s \in Small(0) |-> Body([r \in Small(0) |-> 0], s)]
    BY <2>1
  <2> QED BY <2>2
<1>2. ASSUME NEW n \in Nat, n \in T PROVE n + 1 \in T
  <2>1. PICK g : g = [s \in Small(n) |-> Body(g, s)]
    BY <1>2
  <2> DEFINE h == [s \in Small(n + 1) |-> IF Cardinality(s) <= n THEN g[s] ELSE Body(g, s)]
  <2>2. ASSUME NEW s \in Small(n + 1), s # {}
        PROVE  s \ {Pick(s)} \in Small(n)
    <3>1. Pick(s) \in s
      BY <2>2 DEF Pick
    <3>2. IsFiniteSet(s) /\ Cardinality(s) \in Nat
      BY FS_Subset, FS_CardinalityType
    <3>3. Cardinality(s \ {Pick(s)}) = Cardinality(s) - 1
      BY <3>1, <3>2, FS_RemoveElement
    <3>4. Cardinality(s) <= n + 1 /\ s \ {Pick(s)} \in SUBSET S
      OBVIOUS
    <3> QED BY <3>2, <3>3, <3>4
  <2>3. \A s \in Small(n) : s \in Small(n + 1) /\ h[s] = g[s]
    BY FS_Subset, FS_CardinalityType
  <2>4. ASSUME NEW s \in Small(n + 1) PROVE h[s] = Body(h, s)
    <3>1. CASE s = {}
      <4>1. s \in Small(n)
        BY <3>1, FS_EmptySet
      <4>2. g[s] = 0
        BY <2>1, <3>1, <4>1
      <4> QED BY <2>3, <3>1, <4>1, <4>2
    <3>2. CASE s # {}
      <4>1. h[s \ {Pick(s)}] = g[s \ {Pick(s)}]
        BY <2>2, <2>3, <3>2
      <4>2. h[s] = Body(g, s)
        <5>1. CASE Cardinality(s) <= n
          <6>1. s \in Small(n)
            BY <5>1
          <6> QED BY <2>1, <2>3, <6>1
        <5>2. CASE ~(Cardinality(s) <= n)
          BY <5>2
        <5> QED BY <5>1, <5>2
      <4> QED BY <3>2, <4>1, <4>2
    <3> QED BY <3>1, <3>2
  <2>5. h = [s \in Small(n + 1) |-> Body(h, s)]
    <3> HIDE DEF Body
    <3>1. \A s \in Small(n + 1) : h[s] = Body(h, s)
      BY <2>4
    <3> QED BY <3>1
  <2>6. \E x : x = [s \in Small(n + 1) |-> Body(x, s)]
    <3> HIDE DEF h, Small, Body
    <3> QED BY <2>5
  <2>7. n + 1 \in Nat
    OBVIOUS
  <2> HIDE DEF h
  <2> QED BY <2>6, <2>7
<1>3. Cardinality(S) \in T
  <2> HIDE DEF T
  <2> QED BY <1>1, <1>2, Induction, FS_CardinalityType
<1>4. Small(Cardinality(S)) = SUBSET S
  BY FS_Subset
<1> QED BY <1>3, <1>4 DEF Totals

\* The fold is one such function's value.
LEMMA TotalIsTotals ==
  ASSUME NEW S, IsFiniteSet(S), NEW f
  PROVE  \E g : Totals(f, S, g) /\ Total(f, S) = g[S]
<1> DEFINE g == CHOOSE h : Totals(f, S, h)
<1>1. Totals(f, S, g)
  BY TotalsExist
<1>2. Total(f, S) = g[S]
  BY DEF Total, FoldFunctionOnSet, MapThenFoldSet, Totals, Pick
<1> QED BY <1>1, <1>2
\* Induction over the subsets of a finite set.
LEMMA SubsetInduction ==
  ASSUME NEW S, IsFiniteSet(S), NEW T,
         \A s \in SUBSET S : (\A r \in SUBSET s : r # s => r \in T) => s \in T
  PROVE  \A s \in SUBSET S : s \in T
<1> DEFINE Below == {n \in Nat : \A s \in SUBSET S : Cardinality(s) < n => s \in T}
<1>0. \A s \in SUBSET S : IsFiniteSet(s) /\ Cardinality(s) \in Nat
  BY FS_Subset, FS_CardinalityType
<1>1. 0 \in Below
  BY <1>0
<1>2. ASSUME NEW n \in Nat, n \in Below PROVE n + 1 \in Below
  <2> SUFFICES ASSUME NEW s \in SUBSET S, Cardinality(s) < n + 1 PROVE s \in T
    OBVIOUS
  <2>1. ASSUME NEW r \in SUBSET s, r # s PROVE r \in T
    <3>1. Cardinality(r) < Cardinality(s)
      BY <1>0, <2>1, FS_Subset
    <3>2. r \in SUBSET S /\ Cardinality(r) < n
      BY <1>0, <3>1
    <3> QED BY <1>2, <3>2
  <2> QED BY <2>1
<1>3. \A n \in Nat : n \in Below
  <2> HIDE DEF Below
  <2> QED BY <1>1, <1>2, Induction
<1>4. ASSUME NEW s \in SUBSET S PROVE s \in T
  <2>1. Cardinality(s) + 1 \in Below /\ Cardinality(s) < Cardinality(s) + 1
    BY <1>0, <1>3
  <2> QED BY <2>1
<1> QED BY <1>4

LEMMA TotalsStep ==
  ASSUME NEW S, NEW f, NEW g, Totals(f, S, g), NEW s \in SUBSET S
  PROVE  /\ s = {} => g[s] = 0
         /\ s # {} => /\ Pick(s) \in s /\ s \ {Pick(s)} \in SUBSET S
                      /\ g[s] = f[Pick(s)] + g[s \ {Pick(s)}]
<1>1. g[s] = IF s = {} THEN 0 ELSE f[Pick(s)] + g[s \ {Pick(s)}]
  BY DEF Totals
<1>2. s # {} => Pick(s) \in s
  BY DEF Pick
<1> QED BY <1>1, <1>2

LEMMA TotalsEmpty ==
  ASSUME NEW S, NEW f, NEW g, Totals(f, S, g)
  PROVE  g[{}] = 0
<1>1. {} \in SUBSET S
  OBVIOUS
<1> QED BY <1>1 DEF Totals

\* On a subset the totals of the set are those of the subset.
LEMMA TotalsOfSubset ==
  ASSUME NEW S, IsFiniteSet(S), NEW f, NEW g, Totals(f, S, g)
  PROVE  \A s \in SUBSET S : g[s] = Total(f, s)
<1> SUFFICES ASSUME NEW r \in SUBSET S PROVE g[r] = Total(f, r)
  OBVIOUS
<1>1. PICK h : Totals(f, r, h) /\ Total(f, r) = h[r]
  BY TotalIsTotals, FS_Subset
<1> DEFINE T == {s \in SUBSET r : g[s] = h[s]}
<1>2. ASSUME NEW s \in SUBSET r, \A q \in SUBSET s : q # s => q \in T
      PROVE  s \in T
  <2>1. s \in SUBSET S
    OBVIOUS
  <2>2. CASE s = {}
    BY <1>1, <2>2, TotalsEmpty
  <2>3. CASE s # {}
    <3>1. Pick(s) \in s /\ g[s] = f[Pick(s)] + g[s \ {Pick(s)}]
      BY <2>1, <2>3, TotalsStep
    <3>2. h[s] = f[Pick(s)] + h[s \ {Pick(s)}]
      BY <1>1, <2>3, TotalsStep
    <3>3. g[s \ {Pick(s)}] = h[s \ {Pick(s)}]
      BY <1>2, <3>1
    <3>4. g[s] = h[s]
      BY <3>1, <3>2, <3>3
    <3> QED BY <3>4
  <2> QED BY <2>2, <2>3
<1>3. r \in T
  <2> HIDE DEF T
  <2>1. IsFiniteSet(r)
    BY FS_Subset
  <2> QED BY <1>2, <2>1, SubsetInduction
<1> QED BY <1>1, <1>3

LEMMA TotalEmpty == \A f : Total(f, {}) = 0
<1> TAKE f
<1>1. PICK g : Totals(f, {}, g) /\ Total(f, {}) = g[{}]
  BY TotalIsTotals, FS_EmptySet
<1> QED BY <1>1, TotalsEmpty

LEMMA TotalPick ==
  ASSUME NEW S, IsFiniteSet(S), S # {}, NEW f
  PROVE  Pick(S) \in S /\ Total(f, S) = f[Pick(S)] + Total(f, S \ {Pick(S)})
<1>1. PICK g : Totals(f, S, g) /\ Total(f, S) = g[S]
  BY TotalIsTotals
<1>2. \A s \in SUBSET S : g[s] = Total(f, s)
  BY <1>1, TotalsOfSubset
<1> QED BY <1>1, <1>2, TotalsStep

\* The element picked does not matter.
LEMMA TotalRemove ==
  ASSUME NEW S, IsFiniteSet(S), NEW f, \A x \in S : f[x] \in Int
  PROVE  /\ Total(f, S) \in Int
         /\ \A x \in S : Total(f, S) = f[x] + Total(f, S \ {x})
<1> DEFINE T == {s \in SUBSET S :
                   /\ Total(f, s) \in Int
                   /\ \A x \in s : Total(f, s) = f[x] + Total(f, s \ {x})}
<1>1. ASSUME NEW s \in SUBSET S, \A r \in SUBSET s : r # s => r \in T
      PROVE  s \in T
  <2>0. IsFiniteSet(s)
    BY FS_Subset
  <2>1. CASE s = {}
    BY <2>1, TotalEmpty
  <2>2. CASE s # {}
    <3> DEFINE c == Pick(s)
    <3>1. c \in s /\ Total(f, s) = f[c] + Total(f, s \ {c})
      BY <2>0, <2>2, TotalPick
    <3> HIDE DEF c
    <3>2. s \ {c} \in T
      BY <1>1, <3>1
    <3>3. Total(f, s) \in Int
      BY <3>1, <3>2
    <3>4. ASSUME NEW x \in s, x # c
          PROVE  Total(f, s) = f[x] + Total(f, s \ {x})
      <4>1. Total(f, s \ {c}) = f[x] + Total(f, (s \ {c}) \ {x})
        BY <3>2, <3>4
      <4>2. s \ {x} \in T /\ (s \ {c}) \ {x} \in T
        BY <1>1, <3>1
      <4>3. Total(f, s \ {x}) = f[c] + Total(f, (s \ {x}) \ {c})
        BY <3>1, <3>4, <4>2
      <4>4. (s \ {x}) \ {c} = (s \ {c}) \ {x}
        OBVIOUS
      <4>5. f[x] \in Int /\ f[c] \in Int /\ Total(f, (s \ {c}) \ {x}) \in Int
        BY <3>1, <4>2
      <4> DEFINE rest == Total(f, (s \ {c}) \ {x})
      <4>6. Total(f, s) = f[c] + (f[x] + rest) /\ Total(f, s \ {x}) = f[c] + rest
        BY <3>1, <4>1, <4>3, <4>4
      <4>7. rest \in Int
        BY <4>5
      <4> HIDE DEF T, rest
      <4> QED BY <4>5, <4>6, <4>7
    <3> QED BY <3>1, <3>3, <3>4
  <2> QED BY <2>1, <2>2
<1>2. S \in T
  <2> HIDE DEF T
  <2> QED BY <1>1, SubsetInduction
<1> QED BY <1>2

\* Functions that agree on the set have the same total.
LEMMA TotalSame ==
  ASSUME NEW S, IsFiniteSet(S), NEW f, NEW h, \A x \in S : f[x] = h[x]
  PROVE  Total(f, S) = Total(h, S)
<1> DEFINE T == {s \in SUBSET S : Total(f, s) = Total(h, s)}
<1>1. ASSUME NEW s \in SUBSET S, \A r \in SUBSET s : r # s => r \in T
      PROVE  s \in T
  <2>0. IsFiniteSet(s)
    BY FS_Subset
  <2>1. CASE s = {}
    BY <2>1, TotalEmpty
  <2>2. CASE s # {}
    <3>1. /\ Pick(s) \in s /\ Total(f, s) = f[Pick(s)] + Total(f, s \ {Pick(s)})
          /\ Total(h, s) = h[Pick(s)] + Total(h, s \ {Pick(s)})
      BY <2>0, <2>2, TotalPick
    <3>2. Total(f, s \ {Pick(s)}) = Total(h, s \ {Pick(s)})
      BY <1>1, <3>1
    <3> QED BY <3>1, <3>2
  <2> QED BY <2>1, <2>2
<1>2. S \in T
  <2> HIDE DEF T
  <2> QED BY <1>1, SubsetInduction
<1> QED BY <1>2

\* Two functions that differ in one value: the totals differ as it does.
DifferAt(f, h, S, x) ==
  /\ x \in S
  /\ \A y \in S : f[y] \in Int /\ h[y] \in Int
  /\ \A y \in S \ {x} : h[y] = f[y]

LEMMA TotalChange ==
  ASSUME NEW S, IsFiniteSet(S), NEW f, NEW h, NEW x, DifferAt(f, h, S, x)
  PROVE  /\ Total(f, S) \in Int /\ Total(h, S) \in Int
         /\ Total(h, S) = Total(f, S) - f[x] + h[x]
<1> USE DEF DifferAt
<1>1. IsFiniteSet(S \ {x})
  BY FS_RemoveElement
<1>2. Total(h, S \ {x}) = Total(f, S \ {x}) /\ Total(f, S \ {x}) \in Int
  BY <1>1, TotalSame, TotalRemove
<1>3. /\ Total(f, S) \in Int /\ Total(h, S) \in Int
      /\ Total(f, S) = f[x] + Total(f, S \ {x}) /\ Total(h, S) = h[x] + Total(h, S \ {x})
  BY TotalRemove
<1> QED BY <1>2, <1>3

LEMMA TotalMonotone ==
  ASSUME NEW S, IsFiniteSet(S), NEW f, NEW h,
         \A x \in S : f[x] \in Int /\ h[x] \in Int /\ f[x] <= h[x]
  PROVE  Total(f, S) <= Total(h, S)
<1> DEFINE T == {s \in SUBSET S : Total(f, s) <= Total(h, s)}
<1>1. ASSUME NEW s \in SUBSET S, \A r \in SUBSET s : r # s => r \in T
      PROVE  s \in T
  <2>0. IsFiniteSet(s)
    BY FS_Subset
  <2>1. CASE s = {}
    BY <2>1, TotalEmpty
  <2>2. CASE s # {}
    <3>1. PICK x : x \in s
      BY <2>2
    <3>2. Total(f, s) = f[x] + Total(f, s \ {x}) /\ Total(h, s) = h[x] + Total(h, s \ {x})
      BY <2>0, <3>1, TotalRemove
    <3>3. Total(f, s \ {x}) <= Total(h, s \ {x})
      BY <1>1, <3>1
    <3>4. Total(f, s \ {x}) \in Int /\ Total(h, s \ {x}) \in Int
      BY <2>0, FS_RemoveElement, TotalRemove
    <3> QED BY <3>1, <3>2, <3>3, <3>4
  <2> QED BY <2>1, <2>2
<1>2. S \in T
  <2> HIDE DEF T
  <2> QED BY <1>1, SubsetInduction
<1> QED BY <1>2

LEMMA TotalOfZeros ==
  ASSUME NEW S, IsFiniteSet(S), NEW f, \A x \in S : f[x] = 0
  PROVE  Total(f, S) = 0
<1> DEFINE T == {s \in SUBSET S : Total(f, s) = 0}
<1>1. ASSUME NEW s \in SUBSET S, \A r \in SUBSET s : r # s => r \in T
      PROVE  s \in T
  <2>0. IsFiniteSet(s)
    BY FS_Subset
  <2>1. CASE s = {}
    BY <2>1, TotalEmpty
  <2>2. CASE s # {}
    <3>1. Pick(s) \in s /\ Total(f, s) = f[Pick(s)] + Total(f, s \ {Pick(s)})
      BY <2>0, <2>2, TotalPick
    <3> QED BY <1>1, <3>1
  <2> QED BY <2>1, <2>2
<1>2. S \in T
  <2> HIDE DEF T
  <2> QED BY <1>1, SubsetInduction
<1> QED BY <1>2

\* A total of naturals bounds each of them.
LEMMA TotalBounds ==
  ASSUME NEW S, IsFiniteSet(S), NEW f, \A x \in S : f[x] \in Nat
  PROVE  Total(f, S) \in Nat /\ \A x \in S : f[x] <= Total(f, S)
<1>1. ASSUME NEW s, s \in SUBSET S PROVE Total(f, s) \in Nat
  <2> DEFINE zero == [x \in s |-> 0]
  <2>0. IsFiniteSet(s)
    BY <1>1, FS_Subset
  <2>1. Total(zero, s) = 0
    BY <2>0, TotalOfZeros
  <2>2. Total(zero, s) <= Total(f, s)
    BY <1>1, <2>0, TotalMonotone
  <2>3. Total(f, s) \in Int
    BY <1>1, <2>0, TotalRemove
  <2> QED BY <2>1, <2>2, <2>3
<1>2. ASSUME NEW x \in S PROVE f[x] <= Total(f, S)
  <2>1. Total(f, S) = f[x] + Total(f, S \ {x})
    BY TotalRemove
  <2>2. Total(f, S \ {x}) \in Nat
    BY <1>1
  <2> QED BY <2>1, <2>2
<1> QED BY <1>1, <1>2

-----------------------------------------------------------------------------
(***************************************************************************)
(* Totals over a sequence: an element more at its end, or at its head.     *)
(***************************************************************************)
LEMMA TotalAppend ==
  ASSUME NEW n \in Nat, NEW f, NEW h,
         \A i \in 1 .. n + 1 : h[i] \in Int,
         \A i \in 1 .. n : f[i] = h[i]
  PROVE  /\ Total(f, 1 .. n) \in Int
         /\ Total(h, 1 .. n + 1) = Total(f, 1 .. n) + h[n + 1]
<1>1. IsFiniteSet(1 .. n + 1) /\ IsFiniteSet(1 .. n)
  BY FS_Interval
<1>2. n + 1 \in 1 .. n + 1 /\ (1 .. n + 1) \ {n + 1} = 1 .. n
  OBVIOUS
<1>3. Total(h, 1 .. n + 1) = h[n + 1] + Total(h, 1 .. n)
  <2>1. Total(h, 1 .. n + 1) = h[n + 1] + Total(h, (1 .. n + 1) \ {n + 1})
    BY <1>1, <1>2, TotalRemove
  <2> QED BY <1>2, <2>1
<1>4. \A i \in 1 .. n : h[i] \in Int /\ h[i] = f[i]
  OBVIOUS
<1>5. Total(f, 1 .. n) = Total(h, 1 .. n) /\ Total(h, 1 .. n) \in Int
  BY <1>1, <1>4, TotalSame, TotalRemove
<1>6. h[n + 1] \in Int
  BY <1>2
<1> QED BY <1>3, <1>5, <1>6

LEMMA TotalHead ==
  ASSUME NEW n \in Nat, NEW f, NEW h,
         \A i \in 1 .. n + 1 : f[i] \in Int,
         \A i \in 1 .. n : h[i] = f[i + 1]
  PROVE  /\ Total(h, 1 .. n) \in Int
         /\ Total(f, 1 .. n + 1) = f[1] + Total(h, 1 .. n)
<1> DEFINE T == {k \in Nat : k <= n => /\ Total(h, 1 .. k) \in Int
                                       /\ Total(f, 1 .. k + 1) = f[1] + Total(h, 1 .. k)}
<1>1. f[1] \in Int
  OBVIOUS
<1>2. 0 \in T
  <2>1. 1 .. 0 = {} /\ 1 .. 0 + 1 = {1} /\ {1} \ {1} = {}
    OBVIOUS
  <2>2. IsFiniteSet({1})
    BY FS_Singleton
  <2>3. Total(f, {1}) = f[1] + Total(f, {1} \ {1})
    BY <1>1, <2>2, TotalRemove
  <2> QED BY <1>1, <2>1, <2>3, TotalEmpty
<1>3. ASSUME NEW k \in Nat, k \in T PROVE k + 1 \in T
  <2> SUFFICES ASSUME k + 1 <= n
               PROVE  /\ Total(h, 1 .. k + 1) \in Int
                      /\ Total(f, 1 .. (k + 1) + 1) = f[1] + Total(h, 1 .. k + 1)
    OBVIOUS
  <2>1. /\ Total(h, 1 .. k) \in Int
        /\ Total(f, 1 .. k + 1) = f[1] + Total(h, 1 .. k)
    BY <1>3
  <2>2. Total(h, 1 .. k + 1) = Total(h, 1 .. k) + h[k + 1]
    <3>1. \A i \in 1 .. k + 1 : h[i] \in Int
      OBVIOUS
    <3> QED BY <3>1, TotalAppend
  <2>3. Total(f, 1 .. (k + 1) + 1) = Total(f, 1 .. k + 1) + f[(k + 1) + 1]
    <3>1. k + 1 \in Nat /\ \A i \in 1 .. (k + 1) + 1 : f[i] \in Int
      OBVIOUS
    <3> QED BY <3>1, TotalAppend
  <2>4. h[k + 1] = f[(k + 1) + 1] /\ h[k + 1] \in Int
    OBVIOUS
  <2> HIDE DEF T
  <2> QED BY <1>1, <2>1, <2>2, <2>3, <2>4
<1>4. n \in T
  <2> HIDE DEF T
  <2> QED BY <1>2, <1>3, Induction
<1> QED BY <1>4

-----------------------------------------------------------------------------
(***************************************************************************)
(* What FlattenSeq of a sequence of sequences is.                          *)
(***************************************************************************)
Flattens(q, f) ==
  f = [i \in 1 .. Len(q) |-> IF i = 1 THEN q[i] ELSE f[i - 1] \o q[i]]

LEMMA FlattensExist ==
  ASSUME NEW S, NEW q \in Seq(S)
  PROVE  \E f : Flattens(q, f)
<1> DEFINE Body(f, i) == IF i = 1 THEN q[i] ELSE f[i - 1] \o q[i]
           T == {n \in Nat : \E f : f = [i \in 1 .. n |-> Body(f, i)]}
<1>1. 0 \in T
  <2>1. [i \in 1 .. 0 |-> 0] = [i \in 1 .. 0 |-> Body([j \in 1 .. 0 |-> 0], i)]
    OBVIOUS
  <2> QED BY <2>1
<1>2. ASSUME NEW n \in Nat, n \in T PROVE n + 1 \in T
  <2>1. PICK f : f = [i \in 1 .. n |-> Body(f, i)]
    BY <1>2
  <2> DEFINE h == [i \in 1 .. n + 1 |-> IF i = n + 1 THEN Body(f, i) ELSE f[i]]
  <2>2. \A i \in 1 .. n : i \in 1 .. n + 1 /\ h[i] = f[i] /\ f[i] = Body(f, i)
    <3>1. \A i \in 1 .. n : f[i] = Body(f, i)
      <4> HIDE DEF Body
      <4> QED BY <2>1
    <3>2. \A i \in 1 .. n : i \in 1 .. n + 1 /\ i # n + 1
      OBVIOUS
    <3>3. \A i \in 1 .. n : h[i] = f[i]
      <4> HIDE DEF Body
      <4> QED BY <3>2
    <3> QED BY <3>1, <3>2, <3>3
  <2>3. ASSUME NEW i \in 1 .. n + 1 PROVE h[i] = Body(h, i)
    <3>1. h[i] = Body(f, i)
      <4>1. CASE i = n + 1
        BY <4>1
      <4>2. CASE i # n + 1
        <5>1. i \in 1 .. n
          BY <4>2
        <5> QED BY <2>2, <5>1
      <4> QED BY <4>1, <4>2
    <3>2. i # 1 => h[i - 1] = f[i - 1]
      <4>1. i # 1 => i - 1 \in 1 .. n
        OBVIOUS
      <4> QED BY <2>2, <4>1
    <3> HIDE DEF h
    <3> QED BY <3>1, <3>2
  <2>4. h = [i \in 1 .. n + 1 |-> Body(h, i)]
    <3> HIDE DEF Body
    <3> QED BY <2>3
  <2>5. \E x : x = [i \in 1 .. n + 1 |-> Body(x, i)]
    <3> HIDE DEF h, Body
    <3> QED BY <2>4
  <2>6. n + 1 \in Nat
    OBVIOUS
  <2> HIDE DEF h
  <2> QED BY <2>5, <2>6
<1>3. Len(q) \in T
  <2> HIDE DEF T
  <2> QED BY <1>1, <1>2, Induction
<1> QED BY <1>3 DEF Flattens

LEMMA FlattenIs ==
  ASSUME NEW S, NEW q \in Seq(S)
  PROVE  \E f : Flattens(q, f) /\ FlattenSeq(q) = IF Len(q) = 0 THEN q ELSE f[Len(q)]
<1> DEFINE f == CHOOSE h : Flattens(q, h)
<1>1. Flattens(q, f)
  BY FlattensExist
<1>2. FlattenSeq(q) = IF Len(q) = 0 THEN q ELSE f[Len(q)]
  BY DEF FlattenSeq, Flattens
<1> QED BY <1>1, <1>2

\* Flattening keeps to the elements, and an item more at the end comes last.
LEMMA FlattenAppend ==
  ASSUME NEW S, NEW q \in Seq(Seq(S)), NEW e \in Seq(S)
  PROVE  /\ FlattenSeq(q) \in Seq(S)
         /\ FlattenSeq(Append(q, e)) = FlattenSeq(q) \o e
<1> DEFINE r == Append(q, e)
           n == Len(q)
<1>1. /\ r \in Seq(Seq(S)) /\ Len(r) = n + 1 /\ n \in Nat /\ r[n + 1] = e
      /\ \A i \in 1 .. n : r[i] = q[i] /\ q[i] \in Seq(S)
  OBVIOUS
<1>2. PICK f : Flattens(q, f) /\ FlattenSeq(q) = IF n = 0 THEN q ELSE f[n]
  BY FlattenIs
<1>3. PICK h : Flattens(r, h) /\ FlattenSeq(r) = IF Len(r) = 0 THEN r ELSE h[Len(r)]
  BY <1>1, FlattenIs
<1> HIDE DEF r
<1>4. FlattenSeq(r) = h[n + 1]
  BY <1>1, <1>3
<1>5. \A i \in 1 .. n : f[i] = IF i = 1 THEN q[i] ELSE f[i - 1] \o q[i]
  BY <1>2 DEF Flattens
<1>6. \A i \in 1 .. n + 1 : h[i] = IF i = 1 THEN r[i] ELSE h[i - 1] \o r[i]
  BY <1>1, <1>3 DEF Flattens
<1> HIDE DEF n
<1> DEFINE T == {k \in Nat : k \in 1 .. n => f[k] \in Seq(S) /\ h[k] = f[k]}
<1>7. n \in T
  <2>1. 0 \in T
    OBVIOUS
  <2>2. ASSUME NEW k \in Nat, k \in T PROVE k + 1 \in T
    <3> SUFFICES ASSUME k + 1 \in 1 .. n
                 PROVE  f[k + 1] \in Seq(S) /\ h[k + 1] = f[k + 1]
      OBVIOUS
    <3>1. q[k + 1] \in Seq(S) /\ r[k + 1] = q[k + 1] /\ k + 1 \in 1 .. n + 1
      BY <1>1
    <3>2. CASE k = 0
      BY <1>5, <1>6, <3>1, <3>2
    <3>3. CASE k # 0
      <4>1. f[k] \in Seq(S) /\ h[k] = f[k] /\ (k + 1) - 1 = k /\ k + 1 # 1
        <5>1. k \in 1 .. n /\ (k + 1) - 1 = k /\ k + 1 # 1
          BY <1>1, <3>3
        <5> QED BY <2>2, <5>1
      <4>2. f[k + 1] = f[k] \o q[k + 1] /\ h[k + 1] = h[k] \o q[k + 1]
        BY <1>5, <1>6, <3>1, <4>1
      <4> QED BY <3>1, <4>1, <4>2
    <3> QED BY <3>2, <3>3
  <2> HIDE DEF T
  <2> QED BY <1>1, <2>1, <2>2, Induction
<1>8. CASE n = 0
  <2>1. FlattenSeq(q) = <<>>
    BY <1>2, <1>8 DEF n
  <2>5. <<>> \in Seq(S) /\ <<>> \o e = e
    OBVIOUS
  <2>2. h[1] = e
    BY <1>1, <1>6, <1>8
  <2>3. n + 1 = 1 /\ FlattenSeq(r) = e
    BY <1>4, <1>8, <2>2
  <2>4. FlattenSeq(q) \in Seq(S) /\ FlattenSeq(q) \o e = e
    BY <2>1, <2>5, Zenon
  <2> QED BY <2>3, <2>4 DEF r
<1>9. CASE n # 0
  <2>1. f[n] \in Seq(S) /\ h[n] = f[n]
    BY <1>1, <1>7, <1>9
  <2>2. h[n + 1] = h[n] \o e
    <3>1. n + 1 \in 1 .. n + 1 /\ n + 1 # 1 /\ (n + 1) - 1 = n
      BY <1>1, <1>9
    <3> QED BY <1>1, <1>6, <3>1
  <2>3. FlattenSeq(q) = f[n]
    BY <1>2, <1>9 DEF n
  <2>4. FlattenSeq(q) \in Seq(S) /\ FlattenSeq(r) = FlattenSeq(q) \o e
    BY <1>4, <2>1, <2>2, <2>3
  <2> QED BY <2>4 DEF r
<1> QED BY <1>8, <1>9

LEMMA FlattenEmpty == FlattenSeq(<<>>) = <<>>
<1>1. <<>> \in Seq({}) /\ Len(<<>>) = 0
  OBVIOUS
<1> QED BY <1>1, FlattenIs

LEMMA FlattenOne ==
  ASSUME NEW S, NEW e \in Seq(S)
  PROVE  FlattenSeq(<<e>>) = e
<1>1. <<>> \in Seq(Seq(S)) /\ Append(<<>>, e) = <<e>> /\ <<>> \o e = e
  OBVIOUS
<1>2. FlattenSeq(Append(<<>>, e)) = FlattenSeq(<<>>) \o e
  BY <1>1, FlattenAppend
<1> QED BY <1>1, <1>2, FlattenEmpty

LEMMA OneItem ==
  ASSUME NEW S, NEW q \in Seq(S), Len(q) = 1
  PROVE  q[1] \in S /\ q = <<q[1]>> /\ Head(q) = q[1] /\ Tail(q) = <<>>
<1>1. q[1] \in S /\ Head(q) = q[1]
  OBVIOUS
<1>2. q = <<q[1]>>
  OBVIOUS
<1>3. Tail(q) \in Seq(S) /\ Len(Tail(q)) = 0
  OBVIOUS
<1>4. \A t \in Seq(S) : Len(t) = 0 => t = <<>>
  OBVIOUS
<1> QED BY <1>1, <1>2, <1>3, <1>4

\* Joining sequences does not depend on where the joins start.
LEMMA Associative ==
  \A S : \A a, b, c \in Seq(S) : (a \o b) \o c = a \o (b \o c)
<1> SUFFICES ASSUME NEW S, NEW a \in Seq(S), NEW b \in Seq(S), NEW c \in Seq(S)
             PROVE  (a \o b) \o c = a \o (b \o c)
  OBVIOUS
<1> QED BY ConcatAssociative

\* Appending to the last part appends to the whole.
LEMMA AppendLast ==
  ASSUME NEW S, NEW a \in Seq(S), NEW b \in Seq(S), NEW e \in S
  PROVE  a \o Append(b, e) = Append(a \o b, e)
<1>1. Append(b, e) = b \o <<e>> /\ <<e>> \in Seq(S)
  BY AppendIsConcat
<1>2. a \o b \in Seq(S)
  OBVIOUS
<1>3. Append(a \o b, e) = (a \o b) \o <<e>>
  BY <1>2, AppendIsConcat
<1>4. (a \o b) \o <<e>> = a \o (b \o <<e>>)
  BY <1>1, Associative
<1> QED BY <1>1, <1>3, <1>4

\* What appending leaves.
LEMMA AppendFacts ==
  ASSUME NEW S, NEW q \in Seq(S), NEW e \in S
  PROVE  /\ Append(q, e) \in Seq(S) /\ Append(q, e) # <<>>
         /\ Len(Append(q, e)) = Len(q) + 1
         /\ DOMAIN q = 1 .. Len(q) /\ DOMAIN Append(q, e) = 1 .. Len(q) + 1
         /\ \A i \in 1 .. Len(q) : Append(q, e)[i] = q[i]
         /\ Append(q, e)[Len(q) + 1] = e
<1>1. Append(q, e) \in Seq(S)
  BY AppendProperties
<1>2. Append(q, e) # <<>>
  BY AppendProperties
<1>3. Len(Append(q, e)) = Len(q) + 1
  BY AppendProperties
<1>6. Append(q, e)[Len(q) + 1] = e
  BY AppendProperties
<1>4. DOMAIN q = 1 .. Len(q) /\ DOMAIN Append(q, e) = 1 .. Len(Append(q, e))
  OBVIOUS
<1>5. \A i \in 1 .. Len(q) : Append(q, e)[i] = q[i]
  OBVIOUS
<1> QED BY <1>1, <1>2, <1>3, <1>4, <1>5, <1>6

\* The first item comes first.
LEMMA FlattenTails ==
  ASSUME NEW S
  PROVE  \A n \in Nat : \A r \in Seq(Seq(S)) :
           Len(r) = n + 1 => FlattenSeq(r) = Head(r) \o FlattenSeq(Tail(r))
<1>0. \A a, b, c \in Seq(S) : (a \o b) \o c = a \o (b \o c)
  BY Associative
<1> DEFINE Long(n) == {r \in Seq(Seq(S)) : Len(r) = n + 1}
           T == {n \in Nat : \A r \in Long(n) : FlattenSeq(r) = Head(r) \o FlattenSeq(Tail(r))}
<1>1. 0 \in T
  <2> SUFFICES ASSUME NEW r \in Seq(Seq(S)), Len(r) = 1
               PROVE  FlattenSeq(r) = Head(r) \o FlattenSeq(Tail(r))
    OBVIOUS
  <2>1. r[1] \in Seq(S) /\ r = <<r[1]>> /\ Head(r) = r[1] /\ Tail(r) = <<>>
    BY OneItem
  <2>2. FlattenSeq(<<r[1]>>) = r[1]
    BY <2>1, FlattenOne
  <2>3. \A e \in Seq(S) : e \o <<>> = e
    OBVIOUS
  <2>4. FlattenSeq(r) = r[1]
    BY <2>1, <2>2
  <2>5. Head(r) \o FlattenSeq(Tail(r)) = r[1] \o <<>>
    BY <2>1, FlattenEmpty
  <2> QED BY <2>1, <2>3, <2>4, <2>5
<1>2. ASSUME NEW n \in Nat, n \in T PROVE n + 1 \in T
  <2> SUFFICES ASSUME NEW r \in Seq(Seq(S)), Len(r) = (n + 1) + 1
               PROVE  FlattenSeq(r) = Head(r) \o FlattenSeq(Tail(r))
    BY DEF T
  <2> DEFINE f == SubSeq(r, 1, n + 1)
             e == r[n + 2]
  <2>1. /\ f \in Seq(Seq(S)) /\ e \in Seq(S) /\ Len(f) = n + 1
        /\ Append(f, e) = r /\ Head(f) = Head(r) /\ Head(r) \in Seq(S)
        /\ Tail(f) \in Seq(Seq(S)) /\ Tail(r) = Append(Tail(f), e)
    <3>1. f \in Seq(Seq(S)) /\ Len(f) = n + 1 /\ \A i \in 1 .. n + 1 : f[i] = r[i]
      OBVIOUS
    <3>2. e \in Seq(S) /\ r[1] \in Seq(S) /\ Head(r) = r[1]
      OBVIOUS
    <3>3. Append(f, e) = r
      OBVIOUS
    <3> HIDE DEF f, e
    <3>4. f # <<>> /\ Tail(f) \in Seq(Seq(S)) /\ Len(Tail(f)) = n
          /\ \A i \in 1 .. n : Tail(f)[i] = f[i + 1]
      BY <3>1, HeadTailProperties
    <3>5. Head(f) = f[1] /\ f[1] = r[1]
      BY <3>1
    <3>6. Tail(r) \in Seq(Seq(S)) /\ Len(Tail(r)) = n + 1
          /\ \A i \in 1 .. n + 1 : Tail(r)[i] = r[i + 1]
      <4>1. r # <<>> /\ n + 1 \in Nat
        OBVIOUS
      <4> QED BY <4>1, HeadTailProperties
    <3>7. LET g == Append(Tail(f), e) IN
            /\ g \in Seq(Seq(S)) /\ Len(g) = n + 1 /\ g[n + 1] = e
            /\ \A i \in 1 .. n : g[i] = Tail(f)[i]
      BY <3>2, <3>4, AppendProperties
    <3>8. \A i \in 1 .. n + 1 : Tail(r)[i] = Append(Tail(f), e)[i]
      <4> SUFFICES ASSUME NEW i \in 1 .. n + 1 PROVE Tail(r)[i] = Append(Tail(f), e)[i]
        OBVIOUS
      <4>1. CASE i = n + 1
        BY <3>6, <3>7, <4>1 DEF e
      <4>2. CASE i \in 1 .. n
        BY <3>1, <3>4, <3>6, <3>7, <4>2
      <4>3. i = n + 1 \/ i \in 1 .. n
        OBVIOUS
      <4> QED BY <4>1, <4>2, <4>3
    <3>9. Tail(r) = Append(Tail(f), e)
      BY <3>6, <3>7, <3>8, SeqEqual
    <3> QED BY <3>1, <3>2, <3>3, <3>4, <3>5, <3>9
  <2> HIDE DEF f, e
  <2>2. FlattenSeq(f) = Head(f) \o FlattenSeq(Tail(f))
    <3>1. f \in Long(n)
      BY <2>1
    <3> HIDE DEF Long
    <3> QED BY <1>2, <3>1
  <2>3. FlattenSeq(r) = FlattenSeq(f) \o e
    BY <2>1, FlattenAppend
  <2>4. FlattenSeq(Tail(r)) = FlattenSeq(Tail(f)) \o e /\ FlattenSeq(Tail(f)) \in Seq(S)
    BY <2>1, FlattenAppend
  <2> DEFINE head == Head(r)
             rest == FlattenSeq(Tail(f))
  <2>5. head \in Seq(S) /\ rest \in Seq(S) /\ e \in Seq(S)
    BY <2>1, <2>4
  <2>6. FlattenSeq(r) = (head \o rest) \o e
    BY <2>1, <2>2, <2>3
  <2>7. head \o FlattenSeq(Tail(r)) = head \o (rest \o e)
    BY <2>4
  <2> HIDE DEF head, rest, T, Long
  <2>8. (head \o rest) \o e = head \o (rest \o e)
    BY <1>0, <2>5
  <2>9. FlattenSeq(r) = head \o FlattenSeq(Tail(r))
    BY <2>6, <2>7, <2>8
  <2> QED BY <2>9 DEF head
<1>3. \A n \in Nat : n \in T
  <2> HIDE DEF T
  <2> QED BY <1>1, <1>2, Induction
<1> QED BY <1>3

\* The same, of a sequence that is not empty.
LEMMA FlattenHead ==
  ASSUME NEW S, NEW q \in Seq(Seq(S)), q # <<>>
  PROVE  FlattenSeq(q) = Head(q) \o FlattenSeq(Tail(q))
<1>1. Len(q) - 1 \in Nat /\ Len(q) = (Len(q) - 1) + 1
  OBVIOUS
<1> QED BY <1>1, FlattenTails

\* Where f is h before i and zero after it.
UpTo(f, h, i, n) ==
  /\ \A k \in 1 .. n : f[k] \in Nat /\ h[k] \in Nat
  /\ \A k \in 1 .. i - 1 : f[k] = h[k]
  /\ \A k \in i + 1 .. n : f[k] = 0

LEMMA TotalUpTo ==
  ASSUME NEW n \in Nat, NEW f, NEW h, NEW i \in 1 .. n, UpTo(f, h, i, n)
  PROVE  Total(f, 1 .. n) = Total(h, 1 .. i - 1) + f[i]
<1> DEFINE T == {m \in Nat : i + m <= n => Total(f, 1 .. i + m) = Total(h, 1 .. i - 1) + f[i]}
<1>0. i \in Nat /\ i - 1 \in Nat /\ i <= n /\ (i - 1) + 1 = i
  OBVIOUS
<1> USE DEF UpTo
<1>1. Total(f, 1 .. i) = Total(h, 1 .. i - 1) + f[i] /\ Total(h, 1 .. i - 1) \in Int
  <2> DEFINE m == i - 1
  <2>1. m \in Nat /\ m + 1 = i
    BY <1>0
  <2>2. \A k \in 1 .. m : h[k] = f[k]
    OBVIOUS
  <2>3. \A k \in 1 .. m + 1 : f[k] \in Int
    BY <2>1
  <2> HIDE DEF m
  <2>4. Total(h, 1 .. m) \in Int /\ Total(f, 1 .. m + 1) = Total(h, 1 .. m) + f[m + 1]
    BY <2>1, <2>2, <2>3, TotalAppend
  <2> QED BY <2>1, <2>4 DEF m
<1>2. 0 \in T
  BY <1>0, <1>1
<1>3. ASSUME NEW m \in Nat, m \in T PROVE m + 1 \in T
  <2> SUFFICES ASSUME i + (m + 1) <= n
               PROVE  Total(f, 1 .. i + (m + 1)) = Total(h, 1 .. i - 1) + f[i]
    OBVIOUS
  <2>1. Total(f, 1 .. i + m) = Total(h, 1 .. i - 1) + f[i]
    BY <1>0, <1>3
  <2> DEFINE c == i + m
  <2>2. c \in Nat /\ i + (m + 1) = c + 1 /\ c + 1 \in i + 1 .. n
    BY <1>0
  <2>3. (\A k \in 1 .. c + 1 : f[k] \in Int) /\ \A k \in 1 .. c : f[k] = f[k]
    BY <2>2
  <2> HIDE DEF c, T
  <2>4. Total(f, 1 .. c + 1) = Total(f, 1 .. c) + f[c + 1]
    BY <2>2, <2>3, TotalAppend
  <2>5. f[c + 1] = 0 /\ f[i] \in Int
    BY <2>2
  <2> QED BY <1>1, <2>1, <2>2, <2>4, <2>5 DEF c
<1>4. n - i \in T
  <2>1. n - i \in Nat
    BY <1>0
  <2> HIDE DEF T
  <2> QED BY <1>2, <1>3, <2>1, Induction
<1>5. i + (n - i) = n
  BY <1>0
<1> QED BY <1>4, <1>5

-----------------------------------------------------------------------------
(***************************************************************************)
(* Where the items of a sequence of sequences are in the flattened one.    *)
(***************************************************************************)
PartLengths(q) == [k \in DOMAIN q |-> Len(q[k])]

Placed(q) ==
  /\ Len(FlattenSeq(q)) = Total(PartLengths(q), 1 .. Len(q))
  /\ \A k \in 1 .. Len(q) : \A j \in 1 .. Len(q[k]) :
       LET n == Total(PartLengths(q), 1 .. k - 1) + j IN
         n \in 1 .. Len(FlattenSeq(q)) /\ FlattenSeq(q)[n] = q[k][j]

LEMMA PlacedAppend ==
  ASSUME NEW S, NEW q \in Seq(Seq(S)), NEW e \in Seq(S), Placed(q)
  PROVE  Placed(Append(q, e))
<1> DEFINE r == Append(q, e)
           n == Len(q)
           f == FlattenSeq(q)
           below(k) == Total(PartLengths(q), 1 .. k - 1)
<1>1. /\ Len(r) = n + 1 /\ n \in Nat /\ r[n + 1] = e /\ DOMAIN q = 1 .. n
      /\ DOMAIN r = 1 .. n + 1 /\ \A k \in 1 .. n : r[k] = q[k] /\ q[k] \in Seq(S)
  OBVIOUS
<1>2. f \in Seq(S) /\ FlattenSeq(r) = f \o e
  BY FlattenAppend
<1> HIDE DEF r, n, f
<1>3. /\ \A k \in 1 .. n : PartLengths(q)[k] = Len(q[k]) /\ PartLengths(q)[k] \in Int
      /\ \A k \in 1 .. n + 1 : PartLengths(r)[k] = Len(r[k]) /\ PartLengths(r)[k] \in Int
      /\ \A k \in 1 .. n : PartLengths(r)[k] = PartLengths(q)[k]
  <2>1. \A k \in 1 .. n + 1 : r[k] \in Seq(S)
    BY <1>1
  <2>2. \A k \in 1 .. n : PartLengths(q)[k] = Len(q[k]) /\ Len(q[k]) \in Int
    BY <1>1 DEF PartLengths
  <2>3. \A k \in 1 .. n + 1 : PartLengths(r)[k] = Len(r[k]) /\ Len(r[k]) \in Int
    BY <1>1, <2>1 DEF PartLengths
  <2>4. \A k \in 1 .. n : k \in 1 .. n + 1
    BY <1>1
  <2> QED BY <1>1, <2>2, <2>3, <2>4
<1>4. /\ Total(PartLengths(q), 1 .. n) \in Int
      /\ Total(PartLengths(r), 1 .. n + 1) = Total(PartLengths(q), 1 .. n) + Len(e)
  <2> DEFINE short == PartLengths(q)
             long == PartLengths(r)
  <2>1. long[n + 1] = Len(e) /\ n \in Nat /\ n + 1 \in 1 .. n + 1
    BY <1>1, <1>3
  <2>2. \A k \in 1 .. n : short[k] = long[k]
    BY <1>3
  <2>3. \A k \in 1 .. n + 1 : long[k] \in Int
    BY <1>3
  <2> HIDE DEF short, long, below
  <2>4. /\ Total(short, 1 .. n) \in Int
        /\ Total(long, 1 .. n + 1) = Total(short, 1 .. n) + long[n + 1]
    BY <2>1, <2>2, <2>3, TotalAppend
  <2> QED BY <2>1, <2>4 DEF short, long
<1>5. Len(f) = Total(PartLengths(q), 1 .. n)
  BY DEF Placed, f, n
<1>6. \A k \in 1 .. n + 1 : Total(PartLengths(r), 1 .. k - 1) = below(k)
  <2> SUFFICES ASSUME NEW k \in 1 .. n + 1 PROVE Total(PartLengths(r), 1 .. k - 1) = below(k)
    OBVIOUS
  <2>1. 1 \in Int /\ k - 1 \in Int /\ \A i \in 1 .. k - 1 : i \in 1 .. n
    BY <1>1
  <2>2. IsFiniteSet(1 .. k - 1)
    BY <2>1, FS_Interval
  <2>3. \A i \in 1 .. k - 1 : PartLengths(r)[i] = PartLengths(q)[i]
    BY <1>3, <2>1
  <2> QED BY <2>2, <2>3, TotalSame
<1>7. Len(f \o e) = Len(f) + Len(e)
      /\ (\A i \in 1 .. Len(f) : (f \o e)[i] = f[i])
      /\ \A j \in 1 .. Len(e) : (f \o e)[Len(f) + j] = e[j]
  BY <1>2
<1>8. Len(f) \in Nat /\ Len(e) \in Nat
  BY <1>2
<1>9. ASSUME NEW k \in 1 .. n + 1, NEW j \in 1 .. Len(r[k])
      PROVE  below(k) + j \in 1 .. Len(f \o e) /\ (f \o e)[below(k) + j] = r[k][j]
  <2>1. CASE k = n + 1
    <3>1. below(k) = Len(f) /\ r[k] = e
      BY <1>1, <1>5, <2>1
    <3> HIDE DEF below
    <3>2. j \in 1 .. Len(e)
      BY <3>1
    <3> QED BY <1>7, <1>8, <3>1, <3>2
  <2>2. CASE k # n + 1
    <3>1. k \in 1 .. n /\ r[k] = q[k]
      BY <1>1, <2>2
    <3>2. below(k) + j \in 1 .. Len(f) /\ f[below(k) + j] = q[k][j]
      BY <3>1 DEF Placed, f, n
    <3> HIDE DEF below
    <3> QED BY <1>7, <1>8, <3>1, <3>2
  <2> QED BY <2>1, <2>2
<1>10. Len(FlattenSeq(r)) = Total(PartLengths(r), 1 .. Len(r))
  BY <1>1, <1>2, <1>4, <1>5, <1>7
<1>11. \A k \in 1 .. Len(r) : \A j \in 1 .. Len(r[k]) :
         LET m == Total(PartLengths(r), 1 .. k - 1) + j IN
           m \in 1 .. Len(FlattenSeq(r)) /\ FlattenSeq(r)[m] = r[k][j]
  <2> SUFFICES ASSUME NEW k \in 1 .. n + 1, NEW j \in 1 .. Len(r[k])
               PROVE  LET m == Total(PartLengths(r), 1 .. k - 1) + j IN
                        m \in 1 .. Len(FlattenSeq(r)) /\ FlattenSeq(r)[m] = r[k][j]
    BY <1>1
  <2>1. Total(PartLengths(r), 1 .. k - 1) = below(k)
    BY <1>6
  <2>2. below(k) + j \in 1 .. Len(f \o e) /\ (f \o e)[below(k) + j] = r[k][j]
    BY <1>9
  <2> HIDE DEF below
  <2> QED BY <1>2, <2>1, <2>2
<1> QED BY <1>10, <1>11 DEF Placed, r

LEMMA FlattenPlaces ==
  ASSUME NEW S, NEW q \in Seq(Seq(S))
  PROVE  Placed(q) /\ FlattenSeq(q) \in Seq(S)
<1> DEFINE T == {n \in Nat : \A r \in Seq(Seq(S)) : Len(r) = n => Placed(r) /\ FlattenSeq(r) \in Seq(S)}
<1>1. 0 \in T
  <2> SUFFICES ASSUME NEW r \in Seq(Seq(S)), Len(r) = 0
               PROVE  Placed(r) /\ FlattenSeq(r) \in Seq(S)
    OBVIOUS
  <2>1. r = <<>> /\ 1 .. 0 = {} /\ <<>> \in Seq(S)
    OBVIOUS
  <2>2. FlattenSeq(r) = <<>> /\ Len(FlattenSeq(r)) = 0
    BY <2>1, FlattenEmpty
  <2>3. Total(PartLengths(r), 1 .. Len(r)) = 0
    BY <2>1, TotalEmpty
  <2> QED BY <2>1, <2>2, <2>3 DEF Placed
<1>2. ASSUME NEW n \in Nat, n \in T PROVE n + 1 \in T
  <2> SUFFICES ASSUME NEW r \in Seq(Seq(S)), Len(r) = n + 1
               PROVE  Placed(r) /\ FlattenSeq(r) \in Seq(S)
    BY DEF T
  <2> DEFINE f == SubSeq(r, 1, n)
             e == r[n + 1]
  <2>1. f \in Seq(Seq(S)) /\ e \in Seq(S) /\ Len(f) = n /\ Append(f, e) = r
    <3>1. f \in Seq(Seq(S)) /\ Len(f) = n /\ \A i \in 1 .. n : f[i] = r[i]
      OBVIOUS
    <3>2. e \in Seq(S)
      OBVIOUS
    <3> HIDE DEF f
    <3> QED BY <3>1, <3>2
  <2> HIDE DEF f, e
  <2>2. Placed(f)
    BY <1>2, <2>1
  <2>3. Placed(Append(f, e))
    BY <2>1, <2>2, PlacedAppend
  <2>4. FlattenSeq(f) \in Seq(S) /\ FlattenSeq(r) = FlattenSeq(f) \o e
    BY <2>1, FlattenAppend
  <2>5. \A a, b \in Seq(S) : a \o b \in Seq(S)
    OBVIOUS
  <2> HIDE DEF T
  <2> QED BY <2>1, <2>3, <2>4, <2>5
<1>3. Len(q) \in T
  <2>1. Len(q) \in Nat
    OBVIOUS
  <2> HIDE DEF T
  <2> QED BY <1>1, <1>2, <2>1, Induction
<1> QED BY <1>3

-----------------------------------------------------------------------------
(***************************************************************************)
(* What MapThenFoldSet does with the positions of a sequence.              *)
(***************************************************************************)
FoldsAs(n, base, F, g) ==
  \A s \in SUBSET (1 .. n) : g[s] = IF s = {} THEN base ELSE F[<<Max(s), g[s \ {Max(s)}]>>]

LEMMA FoldsExist ==
  ASSUME NEW n \in Nat, NEW V, NEW base \in V, NEW F \in [(1 .. n) \X V -> V]
  PROVE  \E g \in [SUBSET (1 .. n) -> V] : FoldsAs(n, base, F, g)
<1> DEFINE Body(g, s) == IF s = {} THEN base ELSE F[<<Max(s), g[s \ {Max(s)}]>>]
           T == {m \in Nat : m <= n =>
                   \E g \in [SUBSET (1 .. m) -> V] : \A s \in SUBSET (1 .. m) : g[s] = Body(g, s)}
<1>1. 0 \in T
  <2>1. \A s \in SUBSET (1 .. 0) : s = {}
    OBVIOUS
  <2>2. [s \in SUBSET (1 .. 0) |-> base] \in [SUBSET (1 .. 0) -> V]
    OBVIOUS
  <2> QED BY <2>1, <2>2
<1>2. ASSUME NEW m \in Nat, m \in T PROVE m + 1 \in T
  <2> SUFFICES ASSUME m + 1 <= n
               PROVE  \E h \in [SUBSET (1 .. m + 1) -> V] : \A s \in SUBSET (1 .. m + 1) : h[s] = Body(h, s)
    <3>1. m + 1 \in Nat
      OBVIOUS
    <3> HIDE DEF Body
    <3> QED BY <3>1
  <2>0. m <= n
    OBVIOUS
  <2>1. PICK g \in [SUBSET (1 .. m) -> V] : \A s \in SUBSET (1 .. m) : g[s] = Body(g, s)
    <3> HIDE DEF Body
    <3> QED BY <1>2, <2>0
  <2> DEFINE h == [s \in SUBSET (1 .. m + 1) |->
                     IF m + 1 \in s THEN F[<<m + 1, g[s \ {m + 1}]>>] ELSE g[s]]
  <2>2. \A s \in SUBSET (1 .. m + 1) : s \ {m + 1} \in SUBSET (1 .. m)
    OBVIOUS
  <2>3. \A s \in SUBSET (1 .. m + 1) : m + 1 \notin s => s \in SUBSET (1 .. m)
    OBVIOUS
  <2>4. \A s \in SUBSET (1 .. m) : s \in SUBSET (1 .. m + 1) /\ m + 1 \notin s
    OBVIOUS
  <2>5. m + 1 \in 1 .. n
    OBVIOUS
  <2>6. h \in [SUBSET (1 .. m + 1) -> V]
    <3>1. ASSUME NEW s \in SUBSET (1 .. m + 1)
          PROVE  (IF m + 1 \in s THEN F[<<m + 1, g[s \ {m + 1}]>>] ELSE g[s]) \in V
      BY <2>1, <2>2, <2>3, <2>5
    <3> QED BY <3>1
  <2>7. \A s \in SUBSET (1 .. m) : h[s] = g[s]
    BY <2>4
  <2>8. ASSUME NEW s \in SUBSET (1 .. m + 1) PROVE h[s] = Body(h, s)
    <3>1. CASE m + 1 \in s
      <4>1. Max(s) = m + 1
        <5>1. \A y \in s : m + 1 >= y
          OBVIOUS
        <5>2. \A x \in s : (\A y \in s : x >= y) => x = m + 1
          BY <3>1
        <5> QED BY <3>1, <5>1, <5>2 DEF Max
      <4>2. h[s \ {m + 1}] = g[s \ {m + 1}]
        BY <2>2, <2>7
      <4>3. h[s] = F[<<m + 1, g[s \ {m + 1}]>>]
        BY <3>1
      <4> HIDE DEF h
      <4> QED BY <3>1, <4>1, <4>2, <4>3
    <3>2. CASE m + 1 \notin s
      <4>1. s \in SUBSET (1 .. m) /\ h[s] = g[s] /\ g[s] = Body(g, s)
        BY <2>1, <2>3, <2>7, <3>2
      <4>2. CASE s = {}
        <5> HIDE DEF h
        <5> QED BY <4>1, <4>2
      <4>3. CASE s # {}
        <5>1. s \ {Max(s)} \in SUBSET (1 .. m)
          BY <4>1
        <5>2. h[s \ {Max(s)}] = g[s \ {Max(s)}]
          BY <2>7, <5>1
        <5> HIDE DEF h
        <5> QED BY <4>1, <4>3, <5>2
      <4> QED BY <4>2, <4>3
    <3> QED BY <3>1, <3>2
  <2> HIDE DEF h, Body
  <2> QED BY <2>6, <2>8
<1>3. n \in T
  <2> HIDE DEF T
  <2> QED BY <1>1, <1>2, Induction
<1>4. n <= n
  OBVIOUS
<1>5. \E g \in [SUBSET (1 .. n) -> V] : \A s \in SUBSET (1 .. n) : g[s] = Body(g, s)
  <2> HIDE DEF Body
  <2> QED BY <1>3, <1>4
<1> QED BY <1>5 DEF FoldsAs

\* A set of positions has a largest one.
LEMMA MaxIn ==
  ASSUME NEW n \in Nat, NEW s \in SUBSET (1 .. n), s # {}
  PROVE  Max(s) \in s
<1> DEFINE T == {m \in Nat : \A r \in SUBSET (1 .. m) : r # {} => \E x \in r : \A y \in r : x >= y}
<1>1. 0 \in T
  <2>1. \A r \in SUBSET (1 .. 0) : r = {}
    OBVIOUS
  <2> QED BY <2>1
<1>2. ASSUME NEW m \in Nat, m \in T PROVE m + 1 \in T
  <2> SUFFICES ASSUME NEW r \in SUBSET (1 .. m + 1), r # {} PROVE \E x \in r : \A y \in r : x >= y
    OBVIOUS
  <2>1. CASE m + 1 \in r
    <3>1. \A y \in r : m + 1 >= y
      OBVIOUS
    <3> QED BY <2>1, <3>1
  <2>2. CASE m + 1 \notin r
    <3>1. r \in SUBSET (1 .. m)
      BY <2>2
    <3> QED BY <1>2, <3>1
  <2> QED BY <2>1, <2>2
<1>3. n \in T
  <2> HIDE DEF T
  <2> QED BY <1>1, <1>2, Induction
<1> QED BY <1>3 DEF Max

\* The largest position is the last one.
LEMMA LastPosition ==
  ASSUME NEW k \in Nat
  PROVE  /\ Max(1 .. k + 1) = k + 1 /\ 1 .. k + 1 # {}
         /\ (1 .. k + 1) \ {k + 1} = 1 .. k
<1>1. k + 1 \in 1 .. k + 1 /\ \A y \in 1 .. k + 1 : k + 1 >= y
  OBVIOUS
<1>2. \A x \in 1 .. k + 1 : (\A y \in 1 .. k + 1 : x >= y) => x = k + 1
  BY <1>1
<1>3. Max(1 .. k + 1) = k + 1
  BY <1>1, <1>2 DEF Max
<1>4. (1 .. k + 1) \ {k + 1} = 1 .. k
  OBVIOUS
<1> QED BY <1>1, <1>3, <1>4

\* The elements of a finite set, each once.
LEMMA SetAsSeq ==
  ASSUME NEW S, IsFiniteSet(S)
  PROVE  /\ Cardinality(S) \in Nat
         /\ SetToSeq(S) \in [1 .. Cardinality(S) -> S]
         /\ DOMAIN SetToSeq(S) = 1 .. Cardinality(S)
         /\ \A i, j \in 1 .. Cardinality(S) : SetToSeq(S)[i] = SetToSeq(S)[j] => i = j
         /\ \A x \in S : \E i \in 1 .. Cardinality(S) : SetToSeq(S)[i] = x
<1> DEFINE n == Cardinality(S)   q == SetToSeq(S)
<1>1. n \in Nat /\ ExistsBijection(1 .. n, S)
  BY FS_NatBijection, FS_CardinalityType
<1>2. \E f \in [1 .. n -> S] : IsInjective(f)
  BY <1>1 DEF ExistsBijection, Bijection, Injection
<1>3. q \in [1 .. n -> S] /\ IsInjective(q)
  BY <1>2 DEF SetToSeq
<1>4. IsFiniteSet(1 .. n) /\ Cardinality(1 .. n) = n
  BY <1>1, FS_Interval
<1>5. q \in Injection(1 .. n, S)
  BY <1>3 DEF Injection
<1>6. q \in Surjection(1 .. n, S)
  <2> HIDE DEF q
  <2> QED BY <1>4, <1>5, FS_Injection
<1>7. \A x \in S : \E i \in 1 .. n : q[i] = x
  BY <1>6 DEF Surjection
<1> HIDE DEF q
<1> QED BY <1>1, <1>3, <1>7 DEF IsInjective, q
=============================================================================
