------------------------------ MODULE LedgerProofs -------------------------------
(****************************************************************************)
(* Theorems about Ledger, for every chart, posting stream and width: what   *)
(* a report that is given out rests on, that no amount of it wraps, that    *)
(* rows after its cutoff have no part in it, that the statements agree with *)
(* each other and that the checks after the sums never fire.  The argument  *)
(* goes through one invariant, that a report is what its request evaluates  *)
(* to over the ledger as it is now, and through what sums are.              *)
(****************************************************************************)
EXTENDS Ledger, FiniteSetTheorems, WellFoundedInduction, TLAPS

--------------------------------------------------------------------------------
(* What a sum over a finite set is: MapThenSumSet of the community modules  *)
(* takes the elements one by one in any order, so that a sum splits over     *)
(* disjoint sets and over the keys of its elements.  An induction over the   *)
(* subsets of a finite set is a search for the smallest one without the      *)
(* property: the library's induction theorems take the property as an        *)
(* operator, which the installed provers cannot instantiate, these take the  *)
(* set of what has it.                                                       *)

\* A set of numbers with 0 and with the successor of each has every number.
LEMMA EveryNat ==
    ASSUME NEW T, 0 \in T, \A n \in Nat : n \in T => n + 1 \in T
    PROVE  Nat \subseteq T
<1> SUFFICES ASSUME Nat \ T # {} PROVE FALSE
  OBVIOUS
<1>1. PICK m \in Nat \ T : \A n \in Nat \ T : ~(<<n, m>> \in OpToRel(<, Nat))
  BY NatLessThanWellFounded, WFMin
<1>2. \A n \in Nat \ T : ~(n < m)
  BY <1>1 DEF OpToRel
<1>m. m \in Nat /\ m \notin T
  OBVIOUS
<1>3. m # 0
  BY <1>m
<1>4. m - 1 \in Nat /\ m - 1 < m /\ (m - 1) + 1 = m
  BY <1>m, <1>3
<1>5. m - 1 \in T
  BY <1>2, <1>4
<1>6. (m - 1) + 1 \in T
  BY <1>4, <1>5
<1> QED  BY <1>m, <1>4, <1>6

\* A set without one of its elements is smaller.
LEMMA TakeOne ==
    ASSUME NEW s, IsFiniteSet(s), NEW n \in Nat, Cardinality(s) <= n + 1, NEW x \in s
    PROVE  IsFiniteSet(s \ {x}) /\ Cardinality(s \ {x}) <= n
<1>1. IsFiniteSet(s \ {x}) /\ Cardinality(s \ {x}) = Cardinality(s) - 1
  BY FS_RemoveElement
<1>2. Cardinality(s) \in Nat
  BY FS_CardinalityType
<1> QED  BY <1>1, <1>2

\* What the empty set has, and what a subset keeps with one element more, the
\* finite set S has.
LEMMA EveryFiniteSet ==
    ASSUME NEW S, IsFiniteSet(S), NEW T, {} \in T,
           \A s \in SUBSET S : \A x \in S \ s : s \in T => s \cup {x} \in T
    PROVE  S \in T
<1> DEFINE N == {n \in Nat : \A s \in SUBSET S : Cardinality(s) <= n => s \in T}
<1>1. \A s \in SUBSET S : IsFiniteSet(s) /\ Cardinality(s) \in Nat
  BY FS_Subset, FS_CardinalityType
<1>2. 0 \in N
  <2>1. \A s \in SUBSET S : Cardinality(s) <= 0 => s = {}
    BY <1>1, FS_EmptySet
  <2> QED  BY <2>1
<1>3. ASSUME NEW n \in Nat, n \in N PROVE n + 1 \in N
  <2>1. ASSUME NEW s \in SUBSET S, Cardinality(s) <= n + 1, NEW x \in s PROVE s \in T
    <3>2. Cardinality(s \ {x}) <= n
      BY <1>1, <2>1, TakeOne
    <3>3. s \ {x} \in T
      BY <1>3, <3>2
    <3>4. (s \ {x}) \cup {x} = s /\ s \ {x} \in SUBSET S /\ x \in S \ (s \ {x})
      OBVIOUS
    <3> QED  BY <3>3, <3>4
  <2>2. \A s \in SUBSET S : Cardinality(s) <= n + 1 => s \in T
    BY <2>1
  <2>3. n + 1 \in Nat
    OBVIOUS
  <2> QED  BY <2>2, <2>3
<1>4. Nat \subseteq N
  <2> HIDE DEF N
  <2> QED  BY <1>2, <1>3, EveryNat
<1> QED  BY <1>1, <1>4

\* The sum of the values of f over S, and the element that it takes next.
SumOf(f, S) == MapThenSumSet(LAMBDA x : f[x], S)
Pick(s) == CHOOSE x \in s : TRUE
\* iter is what the sum over S recurs on.
Adds(iter, f, S) ==
    iter = [s \in SUBSET S |-> IF s = {} THEN 0 ELSE f[Pick(s)] + iter[s \ {Pick(s)}]]

\* The element that a sum takes next is one of the set.
LEMMA PickIn == \A s : s # {} => Pick(s) \in s
  BY DEF Pick

\* A sum is the function that it recurs on, at the whole set.
LEMMA SumIsIter ==
    ASSUME NEW f, NEW S PROVE SumOf(f, S) = (CHOOSE iter : Adds(iter, f, S))[S]
  BY DEF SumOf, MapThenSumSet, MapThenFoldSet, Adds, Pick

\* That function exists for every finite set.
LEMMA AddsExists ==
    \A f, S : IsFiniteSet(S) => \E iter : Adds(iter, f, S)
<1> SUFFICES ASSUME NEW f, NEW S, IsFiniteSet(S) PROVE \E iter : Adds(iter, f, S)
  OBVIOUS
<1> DEFINE D(n) == {s \in SUBSET S : Cardinality(s) <= n}
           Good(g, n) == g = [s \in D(n) |-> IF s = {} THEN 0 ELSE f[Pick(s)] + g[s \ {Pick(s)}]]
           N == {n \in Nat : \E g : Good(g, n)}
<1>1. \A s \in SUBSET S : IsFiniteSet(s) /\ Cardinality(s) \in Nat
  BY FS_Subset, FS_CardinalityType
<1>2. 0 \in N
  <2> DEFINE g == [s \in D(0) |-> 0]
  <2>1. \A s \in D(0) : s = {}
    BY <1>1, FS_EmptySet
  <2>2. Good(g, 0)
    BY <2>1
  <2> QED  BY <2>2
<1>3. ASSUME NEW n \in Nat, n \in N PROVE n + 1 \in N
  <2>1. PICK g : Good(g, n)
    BY <1>3
  <2> DEFINE h == [s \in D(n + 1) |-> IF s = {} THEN 0 ELSE f[Pick(s)] + g[s \ {Pick(s)}]]
  <2>2. ASSUME NEW s \in D(n + 1), s # {} PROVE s \ {Pick(s)} \in D(n)
    <3>1. Pick(s) \in s /\ IsFiniteSet(s) /\ Cardinality(s) <= n + 1
      BY <1>1, <2>2, PickIn
    <3>2. Cardinality(s \ {Pick(s)}) <= n
      BY <3>1, TakeOne
    <3> QED  BY <3>2
  <2>3. ASSUME NEW s \in D(n) PROVE s \in D(n + 1) /\ h[s] = g[s]
    <3>1. s \in D(n + 1)
      BY <1>1
    <3>2. h[s] = IF s = {} THEN 0 ELSE f[Pick(s)] + g[s \ {Pick(s)}]
      BY <3>1
    <3>3. g[s] = IF s = {} THEN 0 ELSE f[Pick(s)] + g[s \ {Pick(s)}]
      BY <2>1
    <3> QED  BY <3>1, <3>2, <3>3
  <2>4. ASSUME NEW s \in D(n + 1)
        PROVE  h[s] = IF s = {} THEN 0 ELSE f[Pick(s)] + h[s \ {Pick(s)}]
    <3>1. s # {} => h[s \ {Pick(s)}] = g[s \ {Pick(s)}]
      BY <2>2, <2>3
    <3>2. h[s] = IF s = {} THEN 0 ELSE f[Pick(s)] + g[s \ {Pick(s)}]
      OBVIOUS
    <3> QED  BY <3>1, <3>2
  <2>5. Good(h, n + 1)
    <3> DEFINE k == [s \in D(n + 1) |-> IF s = {} THEN 0 ELSE f[Pick(s)] + h[s \ {Pick(s)}]]
    <3>1. DOMAIN h = D(n + 1) /\ DOMAIN k = D(n + 1)
      OBVIOUS
    <3>2. \A s \in D(n + 1) : k[s] = IF s = {} THEN 0 ELSE f[Pick(s)] + h[s \ {Pick(s)}]
      OBVIOUS
    <3>3. \A s \in D(n + 1) : h[s] = k[s]
      BY <2>4, <3>2
    <3>4. h = [s \in DOMAIN h |-> h[s]] /\ k = [s \in DOMAIN k |-> k[s]]
      OBVIOUS
    <3> HIDE DEF h, D
    <3>5. h = k
      <4> HIDE DEF k
      <4> QED  BY <3>1, <3>3, <3>4
    <3> QED  BY <3>5
  <2>6. \E g1 : Good(g1, n + 1)
    <3> HIDE DEF Good
    <3> QED  BY <2>5
  <2>7. n + 1 \in Nat
    OBVIOUS
  <2> HIDE DEF Good
  <2> QED  BY <2>6, <2>7
<1>4. Nat \subseteq N
  <2> HIDE DEF N
  <2> QED  BY <1>2, <1>3, EveryNat
<1>5. Cardinality(S) \in N /\ D(Cardinality(S)) = SUBSET S
  BY <1>1, <1>4, FS_Subset
<1> QED  BY <1>5 DEF Adds

\* Two such functions agree where both are defined.
LEMMA AddsAgree ==
    ASSUME NEW f, NEW S, IsFiniteSet(S), NEW i, Adds(i, f, S), NEW R, NEW j, Adds(j, f, R)
    PROVE  \A s \in SUBSET (S \cap R) : i[s] = j[s]
<1> DEFINE N == {n \in Nat : \A s \in SUBSET (S \cap R) : Cardinality(s) <= n => i[s] = j[s]}
<1>1. \A s \in SUBSET S : IsFiniteSet(s) /\ Cardinality(s) \in Nat
  BY FS_Subset, FS_CardinalityType
<1>2. ASSUME NEW s \in SUBSET (S \cap R)
      PROVE  /\ i[s] = IF s = {} THEN 0 ELSE f[Pick(s)] + i[s \ {Pick(s)}]
             /\ j[s] = IF s = {} THEN 0 ELSE f[Pick(s)] + j[s \ {Pick(s)}]
  BY DEF Adds
<1>3. 0 \in N
  <2>1. \A s \in SUBSET (S \cap R) : Cardinality(s) <= 0 => s = {}
    BY <1>1, FS_EmptySet
  <2> QED  BY <2>1, <1>2
<1>4. ASSUME NEW n \in Nat, n \in N PROVE n + 1 \in N
  <2>1. ASSUME NEW s \in SUBSET (S \cap R), Cardinality(s) <= n + 1, s # {} PROVE i[s] = j[s]
    <3>1. Pick(s) \in s /\ IsFiniteSet(s)
      BY <2>1, <1>1, PickIn
    <3>2. Cardinality(s \ {Pick(s)}) <= n
      BY <2>1, <3>1, TakeOne
    <3>3. i[s \ {Pick(s)}] = j[s \ {Pick(s)}]
      BY <1>4, <3>2
    <3> QED  BY <1>2, <2>1, <3>3
  <2>2. \A s \in SUBSET (S \cap R) : Cardinality(s) <= n + 1 => i[s] = j[s]
    BY <2>1, <1>2
  <2>3. n + 1 \in Nat
    OBVIOUS
  <2> QED  BY <2>2, <2>3
<1>5. Nat \subseteq N
  <2> HIDE DEF N
  <2> QED  BY <1>3, <1>4, EveryNat
<1> QED  BY <1>1, <1>5

\* The sum of every part of S is what the function of S has for it.
LEMMA SumIs ==
    \A f, S, i : IsFiniteSet(S) /\ Adds(i, f, S) => \A s \in SUBSET S : SumOf(f, s) = i[s]
<1> SUFFICES ASSUME NEW f, NEW S, NEW i, IsFiniteSet(S), Adds(i, f, S), NEW s \in SUBSET S
             PROVE  SumOf(f, s) = i[s]
  OBVIOUS
<1> DEFINE j == CHOOSE iter : Adds(iter, f, s)
<1>1. IsFiniteSet(s)
  BY FS_Subset
<1>2. Adds(j, f, s)
  BY <1>1, AddsExists
<1>3. SumOf(f, s) = j[s]
  BY SumIsIter
<1> HIDE DEF j
<1>4. i[s] = j[s]
  BY <1>2, AddsAgree
<1> QED  BY <1>3, <1>4

\* The sum of nothing is 0.
LEMMA SumEmpty == \A f : SumOf(f, {}) = 0
<1> TAKE f
<1>1. IsFiniteSet({})
  BY FS_EmptySet
<1>2. PICK i : Adds(i, f, {})
  BY <1>1, AddsExists
<1>3. SumOf(f, {}) = i[{}]
  BY <1>1, <1>2, SumIs
<1>4. i[{}] = 0
  BY <1>2 DEF Adds
<1> QED  BY <1>3, <1>4

\* A sum is its next element and the sum of the others.
LEMMA SumPick ==
    ASSUME NEW f, NEW S, IsFiniteSet(S), S # {}
    PROVE  SumOf(f, S) = f[Pick(S)] + SumOf(f, S \ {Pick(S)})
<1>1. PICK i : Adds(i, f, S)
  BY AddsExists
<1>2. SumOf(f, S) = i[S] /\ SumOf(f, S \ {Pick(S)}) = i[S \ {Pick(S)}]
  BY <1>1, SumIs
<1>3. i[S] = f[Pick(S)] + i[S \ {Pick(S)}]
  BY <1>1 DEF Adds
<1> QED  BY <1>2, <1>3

\* Sums of integers are integers.
LEMMA SumInt ==
    ASSUME NEW S, IsFiniteSet(S), NEW f, \A x \in S : f[x] \in Int
    PROVE  \A s \in SUBSET S : SumOf(f, s) \in Int
<1> DEFINE N == {n \in Nat : \A s \in SUBSET S : Cardinality(s) <= n => SumOf(f, s) \in Int}
<1>1. \A s \in SUBSET S : IsFiniteSet(s) /\ Cardinality(s) \in Nat
  BY FS_Subset, FS_CardinalityType
<1>2. 0 \in N
  <2>1. \A s \in SUBSET S : Cardinality(s) <= 0 => s = {}
    BY <1>1, FS_EmptySet
  <2> QED  BY <2>1, SumEmpty
<1>3. ASSUME NEW n \in Nat, n \in N PROVE n + 1 \in N
  <2>1. ASSUME NEW s \in SUBSET S, Cardinality(s) <= n + 1, s # {} PROVE SumOf(f, s) \in Int
    <3>1. Pick(s) \in s /\ IsFiniteSet(s)
      BY <2>1, <1>1, PickIn
    <3>2. Cardinality(s \ {Pick(s)}) <= n
      BY <2>1, <3>1, TakeOne
    <3>3. SumOf(f, s \ {Pick(s)}) \in Int /\ f[Pick(s)] \in Int
      BY <1>3, <3>1, <3>2
    <3>4. SumOf(f, s) = f[Pick(s)] + SumOf(f, s \ {Pick(s)})
      BY <2>1, <3>1, SumPick
    <3> QED  BY <3>3, <3>4
  <2>2. \A s \in SUBSET S : Cardinality(s) <= n + 1 => SumOf(f, s) \in Int
    BY <2>1, SumEmpty
  <2>3. n + 1 \in Nat
    OBVIOUS
  <2> QED  BY <2>2, <2>3
<1>4. Nat \subseteq N
  <2> HIDE DEF N
  <2> QED  BY <1>2, <1>3, EveryNat
<1> QED  BY <1>1, <1>4

\* Any element may be taken first.
LEMMA SumRemoves ==
    ASSUME NEW S, IsFiniteSet(S), NEW f, \A x \in S : f[x] \in Int
    PROVE  \A s \in SUBSET S : \A x \in s : SumOf(f, s) = f[x] + SumOf(f, s \ {x})
<1> DEFINE Any(s) == \A x \in s : SumOf(f, s) = f[x] + SumOf(f, s \ {x})
           N == {n \in Nat : \A s \in SUBSET S : Cardinality(s) <= n => Any(s)}
<1>1. \A s \in SUBSET S : IsFiniteSet(s) /\ Cardinality(s) \in Nat /\ SumOf(f, s) \in Int
  BY FS_Subset, FS_CardinalityType, SumInt
<1>2. 0 \in N
  <2>1. \A s \in SUBSET S : Cardinality(s) <= 0 => s = {}
    BY <1>1, FS_EmptySet
  <2> QED  BY <2>1
<1>3. ASSUME NEW n \in Nat, n \in N PROVE n + 1 \in N
  <2>1. ASSUME NEW s \in SUBSET S, Cardinality(s) <= n + 1, NEW x \in s
        PROVE  SumOf(f, s) = f[x] + SumOf(f, s \ {x})
    <3> DEFINE p == Pick(s)
    <3>1. p \in s /\ IsFiniteSet(s) /\ s # {}
      BY <2>1, <1>1, PickIn
    <3>2. Cardinality(s \ {p}) <= n /\ Cardinality(s \ {x}) <= n
      BY <2>1, <3>1, TakeOne
    <3>3. SumOf(f, s) = f[p] + SumOf(f, s \ {p})
      BY <3>1, SumPick
    <3> HIDE DEF p
    <3>4. CASE x = p
      BY <3>3, <3>4
    <3>5. CASE x # p
      <4>1. Any(s \ {p}) /\ Any(s \ {x})
        BY <1>3, <3>2
      <4>2. SumOf(f, s \ {p}) = f[x] + SumOf(f, (s \ {p}) \ {x})
        BY <4>1, <3>5
      <4>3. SumOf(f, s \ {x}) = f[p] + SumOf(f, (s \ {x}) \ {p})
        BY <4>1, <3>1, <3>5
      <4>4. (s \ {x}) \ {p} = (s \ {p}) \ {x}
        OBVIOUS
      <4>5. f[x] \in Int /\ f[p] \in Int /\ SumOf(f, (s \ {p}) \ {x}) \in Int
        BY <1>1, <3>1
      <4>6. SumOf(f, s \ {x}) = f[p] + SumOf(f, (s \ {p}) \ {x})
        BY <4>3, <4>4
      <4>7. \A a, b, c \in Int : a + (b + c) = b + (a + c)
        OBVIOUS
      <4>8. f[p] + (f[x] + SumOf(f, (s \ {p}) \ {x})) = f[x] + (f[p] + SumOf(f, (s \ {p}) \ {x}))
        BY <4>5, <4>7
      <4> QED  BY <3>3, <4>2, <4>6, <4>8
    <3> QED  BY <3>4, <3>5
  <2>2. n + 1 \in Nat
    OBVIOUS
  <2> QED  BY <2>1, <2>2
<1>4. Nat \subseteq N
  <2> HIDE DEF N
  <2> QED  BY <1>2, <1>3, EveryNat
<1>5. ASSUME NEW s \in SUBSET S PROVE Any(s)
  BY <1>1, <1>4
<1> QED  BY <1>5

\* An element more adds its value.
LEMMA SumAdds ==
    ASSUME NEW S, IsFiniteSet(S), NEW f, \A x \in S : f[x] \in Int
    PROVE  \A s \in SUBSET S : \A x \in S \ s : SumOf(f, s \cup {x}) = f[x] + SumOf(f, s)
<1> TAKE s \in SUBSET S
<1> TAKE x \in S \ s
<1>1. (s \cup {x}) \ {x} = s
  OBVIOUS
<1>2. s \cup {x} \in SUBSET S
  OBVIOUS
<1>3. SumOf(f, s \cup {x}) = f[x] + SumOf(f, (s \cup {x}) \ {x})
  BY <1>2, SumRemoves
<1> QED  BY <1>1, <1>3

\* A sum depends only on the values in its set.
LEMMA SumSame ==
    ASSUME NEW S, IsFiniteSet(S), NEW f, NEW g, \A x \in S : f[x] \in Int /\ g[x] = f[x]
    PROVE  SumOf(f, S) = SumOf(g, S)
<1> DEFINE T == {s \in SUBSET S : SumOf(f, s) = SumOf(g, s)}
<1>1. {} \in T
  BY SumEmpty
<1>2. ASSUME NEW s \in SUBSET S, NEW x \in S \ s, s \in T PROVE s \cup {x} \in T
  <2>1. SumOf(f, s \cup {x}) = f[x] + SumOf(f, s)
    BY SumAdds
  <2>2. SumOf(g, s \cup {x}) = g[x] + SumOf(g, s)
    BY SumAdds
  <2> QED  BY <1>2, <2>1, <2>2
<1>3. S \in T
  <2> HIDE DEF T
  <2> QED  BY <1>1, <1>2, EveryFiniteSet
<1> QED  BY <1>3

\* Zeros add up to 0.
LEMMA SumNothing ==
    ASSUME NEW S, IsFiniteSet(S), NEW f, \A x \in S : f[x] = 0
    PROVE  SumOf(f, S) = 0
<1> DEFINE T == {s \in SUBSET S : SumOf(f, s) = 0}
<1>1. {} \in T
  BY SumEmpty
<1>2. ASSUME NEW s \in SUBSET S, NEW x \in S \ s, s \in T PROVE s \cup {x} \in T
  <2>1. SumOf(f, s \cup {x}) = f[x] + SumOf(f, s)
    BY SumAdds
  <2> QED  BY <1>2, <2>1
<1>3. S \in T
  <2> HIDE DEF T
  <2> QED  BY <1>1, <1>2, EveryFiniteSet
<1> QED  BY <1>3

\* The sum of one element is its value.
LEMMA SumOne ==
    ASSUME NEW x, NEW f, f[x] \in Int
    PROVE  SumOf(f, {x}) = f[x]
<1>1. IsFiniteSet({x})
  BY FS_Singleton
<1>2. SumOf(f, {} \cup {x}) = f[x] + SumOf(f, {})
  BY <1>1, SumAdds
<1>3. {} \cup {x} = {x}
  OBVIOUS
<1> QED  BY <1>2, <1>3, SumEmpty

\* The sum of the negated values is the negated sum.
LEMMA SumMinus ==
    ASSUME NEW S, IsFiniteSet(S), NEW f, NEW g, \A x \in S : f[x] \in Int /\ g[x] = -f[x]
    PROVE  SumOf(g, S) = -SumOf(f, S)
<1> DEFINE T == {s \in SUBSET S : SumOf(g, s) = -SumOf(f, s)}
<1>1. {} \in T
  BY SumEmpty
<1>2. ASSUME NEW s \in SUBSET S, NEW x \in S \ s, s \in T PROVE s \cup {x} \in T
  <2>1. SumOf(f, s \cup {x}) = f[x] + SumOf(f, s)
    BY SumAdds
  <2>2. SumOf(g, s \cup {x}) = g[x] + SumOf(g, s)
    BY SumAdds
  <2>3. f[x] \in Int /\ SumOf(f, s) \in Int
    BY SumInt
  <2>4. g[x] = -f[x] /\ SumOf(g, s) = -SumOf(f, s)
    BY <1>2
  <2>5. \A a, b \in Int : -a + -b = -(a + b)
    OBVIOUS
  <2>6. SumOf(g, s \cup {x}) = -SumOf(f, s \cup {x})
    BY <2>1, <2>2, <2>3, <2>4, <2>5
  <2> QED  BY <2>6
<1>3. S \in T
  <2> HIDE DEF T
  <2> QED  BY <1>1, <1>2, EveryFiniteSet
<1> QED  BY <1>3

\* Sums over disjoint sets add up.
LEMMA SumUnion ==
    ASSUME NEW S, IsFiniteSet(S), NEW R, IsFiniteSet(R), S \cap R = {},
           NEW f, \A x \in S \cup R : f[x] \in Int
    PROVE  SumOf(f, S \cup R) = SumOf(f, S) + SumOf(f, R)
<1> DEFINE T == {s \in SUBSET S : SumOf(f, s \cup R) = SumOf(f, s) + SumOf(f, R)}
<1>1. IsFiniteSet(S \cup R)
  BY FS_Union
<1>2. \A s \in SUBSET (S \cup R) : SumOf(f, s) \in Int
  BY <1>1, SumInt
<1>3. {} \in T
  <2>1. {} \cup R = R /\ SumOf(f, R) \in Int
    BY <1>2
  <2> QED  BY <2>1, SumEmpty
<1>4. ASSUME NEW s \in SUBSET S, NEW x \in S \ s, s \in T PROVE s \cup {x} \in T
  <2>1. SumOf(f, s \cup {x}) = f[x] + SumOf(f, s)
    BY SumAdds
  <2>2. SumOf(f, (s \cup R) \cup {x}) = f[x] + SumOf(f, s \cup R)
    <3>1. s \cup R \in SUBSET (S \cup R) /\ x \in (S \cup R) \ (s \cup R)
      OBVIOUS
    <3>2. \A w \in SUBSET (S \cup R) : \A y \in (S \cup R) \ w :
              SumOf(f, w \cup {y}) = f[y] + SumOf(f, w)
      BY <1>1, SumAdds
    <3> QED  BY <3>1, <3>2
  <2>3. f[x] \in Int /\ SumOf(f, s) \in Int /\ SumOf(f, R) \in Int
    BY <1>2
  <2>4. (s \cup R) \cup {x} = (s \cup {x}) \cup R
    OBVIOUS
  <2>5. \A a, b, c \in Int : a + (b + c) = (a + b) + c
    OBVIOUS
  <2>6. SumOf(f, s \cup R) = SumOf(f, s) + SumOf(f, R)
    BY <1>4
  <2>7. SumOf(f, (s \cup {x}) \cup R) = f[x] + (SumOf(f, s) + SumOf(f, R))
    BY <2>2, <2>4, <2>6
  <2>8. f[x] + (SumOf(f, s) + SumOf(f, R)) = (f[x] + SumOf(f, s)) + SumOf(f, R)
    BY <2>3, <2>5
  <2> QED  BY <2>1, <2>7, <2>8
<1>5. S \in T
  <2> HIDE DEF T
  <2> QED  BY <1>3, <1>4, EveryFiniteSet
<1> QED  BY <1>5

\* A sum is the sum, over the keys, of what each key has.
LEMMA SumByKey ==
    ASSUME NEW S, IsFiniteSet(S), NEW f, \A x \in S : f[x] \in Int,
           NEW K, IsFiniteSet(K), NEW key, \A x \in S : key[x] \in K
    PROVE  SumOf(f, S) = SumOf([a \in K |-> SumOf(f, {x \in S : key[x] = a})], K)
<1> DEFINE Of(k) == {x \in S : key[x] \in k}
           g == [a \in K |-> SumOf(f, {x \in S : key[x] = a})]
           T == {k \in SUBSET K : SumOf(f, Of(k)) = SumOf(g, k)}
<1>1. \A s \in SUBSET S : IsFiniteSet(s) /\ SumOf(f, s) \in Int
  BY FS_Subset, SumInt
<1>2. \A a \in K : g[a] = SumOf(f, {x \in S : key[x] = a}) /\ g[a] \in Int
  BY <1>1
<1>3. {} \in T
  <2>1. Of({}) = {}
    OBVIOUS
  <2> HIDE DEF Of, g
  <2> QED  BY <2>1, SumEmpty
<1>4. ASSUME NEW k \in SUBSET K, NEW a \in K \ k, k \in T PROVE k \cup {a} \in T
  <2> DEFINE A == {x \in S : key[x] = a}
  <2>1. Of(k \cup {a}) = A \cup Of(k) /\ A \cap Of(k) = {} /\ A \subseteq S /\ Of(k) \subseteq S
    OBVIOUS
  <2>2. g[a] = SumOf(f, A)
    BY <1>2
  <2>3. SumOf(f, Of(k)) = SumOf(g, k)
    BY <1>4
  <2> HIDE DEF A, Of, g
  <2>4. IsFiniteSet(A) /\ IsFiniteSet(Of(k))
    BY <2>1, <1>1
  <2>7. \A x \in A \cup Of(k) : f[x] \in Int
    BY <2>1
  <2>5. SumOf(f, Of(k \cup {a})) = SumOf(f, A) + SumOf(f, Of(k))
    <3> DEFINE B == Of(k)
    <3> HIDE DEF B
    <3>1. IsFiniteSet(A) /\ IsFiniteSet(B) /\ A \cap B = {} /\ \A x \in A \cup B : f[x] \in Int
      BY <2>1, <2>4, <2>7 DEF B
    <3>2. SumOf(f, A \cup B) = SumOf(f, A) + SumOf(f, B)
      BY ONLY <3>1, SumUnion
    <3> QED  BY <3>2, <2>1 DEF B
  <2>6. SumOf(g, k \cup {a}) = g[a] + SumOf(g, k)
    <3>1. \A b \in K : g[b] \in Int
      BY <1>2
    <3>2. \A w \in SUBSET K : \A b \in K \ w : SumOf(g, w \cup {b}) = g[b] + SumOf(g, w)
      BY <3>1, SumAdds
    <3> QED  BY <3>2
  <2> QED  BY <2>2, <2>3, <2>5, <2>6
<1>5. K \in T
  <2> HIDE DEF T
  <2> QED  BY <1>3, <1>4, EveryFiniteSet
<1>6. Of(K) = S
  OBVIOUS
<1> QED  BY <1>5, <1>6

\* A sum does not depend on the names of its elements.
LEMMA SumRenamed ==
    \A S, h, f, g :
        /\ IsFiniteSet(S)
        /\ \A x, y \in S : h[x] = h[y] => x = y
        /\ \A x \in S : f[x] \in Int /\ g[h[x]] = f[x]
        => SumOf(f, S) = SumOf(g, {h[x] : x \in S})
<1> SUFFICES ASSUME NEW S, NEW h, NEW f, NEW g, IsFiniteSet(S),
                    \A x, y \in S : h[x] = h[y] => x = y,
                    \A x \in S : f[x] \in Int /\ g[h[x]] = f[x]
             PROVE  SumOf(f, S) = SumOf(g, {h[x] : x \in S})
  OBVIOUS
<1> DEFINE Im(s) == {h[x] : x \in s}
           T == {s \in SUBSET S : IsFiniteSet(Im(s)) /\ SumOf(f, s) = SumOf(g, Im(s))}
<1>1. {} \in T
  <2>1. Im({}) = {}
    OBVIOUS
  <2> HIDE DEF Im
  <2> QED  BY <2>1, SumEmpty, FS_EmptySet
<1>2. ASSUME NEW s \in SUBSET S, NEW x \in S \ s, s \in T PROVE s \cup {x} \in T
  <2>1. SumOf(f, s \cup {x}) = f[x] + SumOf(f, s)
    BY SumAdds
  <2>2. Im(s \cup {x}) = Im(s) \cup {h[x]} /\ h[x] \notin Im(s)
    OBVIOUS
  <2>3. \A z \in Im(s) \cup {h[x]} : g[z] \in Int
    OBVIOUS
  <2>4. g[h[x]] = f[x]
    OBVIOUS
  <2>5. IsFiniteSet(Im(s)) /\ SumOf(f, s) = SumOf(g, Im(s))
    BY <1>2
  <2> HIDE DEF Im
  <2>6. IsFiniteSet(Im(s) \cup {h[x]})
    BY <2>5, FS_AddElement
  <2>7. SumOf(g, Im(s) \cup {h[x]}) = g[h[x]] + SumOf(g, Im(s))
    BY <2>2, <2>3, <2>6, SumAdds
  <2> QED  BY <2>1, <2>2, <2>4, <2>5, <2>6, <2>7
<1>3. S \in T
  <2> HIDE DEF T
  <2> QED  BY <1>1, <1>2, EveryFiniteSet
<1> QED  BY <1>3

\* The image of a finite set is finite.
LEMMA FiniteImage ==
    ASSUME NEW S, IsFiniteSet(S), NEW h
    PROVE  IsFiniteSet({h[x] : x \in S})
<1> DEFINE Im(s) == {h[x] : x \in s}
           T == {s \in SUBSET S : IsFiniteSet(Im(s))}
<1>1. {} \in T
  <2>1. Im({}) = {}
    OBVIOUS
  <2> HIDE DEF Im
  <2> QED  BY <2>1, FS_EmptySet
<1>2. ASSUME NEW s \in SUBSET S, NEW x \in S \ s, s \in T PROVE s \cup {x} \in T
  <2>1. Im(s \cup {x}) = Im(s) \cup {h[x]}
    OBVIOUS
  <2>2. IsFiniteSet(Im(s))
    BY <1>2
  <2> HIDE DEF Im
  <2>3. IsFiniteSet(Im(s) \cup {h[x]})
    BY <2>2, FS_AddElement
  <2> QED  BY <2>1, <2>3
<1>3. S \in T
  <2> HIDE DEF T
  <2> QED  BY <1>1, <1>2, EveryFiniteSet
<1> QED  BY <1>3

\* Zeros may be left out of a sum.
LEMMA SumOfPart ==
    ASSUME NEW S, IsFiniteSet(S), NEW f, \A x \in S : f[x] \in Int,
           NEW R \in SUBSET S, \A x \in S \ R : f[x] = 0
    PROVE  SumOf(f, S) = SumOf(f, R)
<1>1. IsFiniteSet(R) /\ IsFiniteSet(S \ R)
  BY FS_Subset
<1>2. R \cup (S \ R) = S /\ R \cap (S \ R) = {}
  OBVIOUS
<1>3. SumOf(f, R \cup (S \ R)) = SumOf(f, R) + SumOf(f, S \ R)
  <2>1. \A x \in R \cup (S \ R) : f[x] \in Int
    OBVIOUS
  <2> QED  BY <1>1, <1>2, <2>1, SumUnion
<1>4. SumOf(f, S \ R) = 0
  BY <1>1, SumNothing
<1>5. SumOf(f, R) \in Int
  BY SumInt
<1>6. SumOf(f, S) = SumOf(f, R) + SumOf(f, S \ R)
  BY <1>2, <1>3
<1> QED  BY <1>4, <1>5, <1>6

--------------------------------------------------------------------------------
(* What the reports are made of, each named so that a lemma can speak of it *)

\* The kinds of report, and the refusals of the General Ledger.
Kinds == {"GeneralLedger", "TrialBalance", "AccrualTrialBalance", "ProfitAndLoss", "BalanceSheet"}
Refusals == {"none", "Incomplete", "Unsupported", "AmbiguousCurrentState", "UnbalancedTransaction"}

\* Balances of a period, and the entries that an accrual Trial Balance rolls
\* forward to Retained Earnings.
PeriodBalances(ps, d, f) ==
    [a \in Ids |-> Sum(ps, {k \in {k \in Entries(ps, d) : ps[k].date >= f} : ps[k].account = a})]
Rolled(ps, d, from) ==
    {k \in Entries(ps, d) : ps[k].date < from /\ IsProfitAndLoss(Account(ps[k].account).type)}

\* The balances of an accrual Trial Balance, of what it rolls forward.
AccrualOf(ps, d, rolled, ids, re) ==
    [a \in ids |-> Sum(ps, {k \in Entries(ps, d) \ rolled : ps[k].account = a}
                             \cup (IF a = re THEN rolled ELSE {}))]

\* An accrual Trial Balance takes what it rolls forward as one set.
LEMMA AccrualIs ==
    \A ps, d, f, re : AccrualBalances(ps, d, f, re) = AccrualOf(ps, d, Rolled(ps, d, f), Ids, re)
  BY DEF AccrualBalances, AccrualOf, Rolled

\* The rows of a Trial Balance, of the accounts shown.
RowsOf(b, shown) ==
    IF \E a \in shown : ~Fits(b[a]) \/ b[a] = MinAmount
    THEN [error |-> "BalanceOverflow"]
    ELSE IF MapThenSumSet(LAMBDA a : b[a], shown) # 0
    THEN [error |-> "UnbalancedLedger"]
    ELSE [error |-> "none", rows |-> [a \in shown |-> b[a]]]

\* The accounts shown are all that the rows need of the chart.
LEMMA RowsAre == \A b, z : TrialBalanceRows(b, z) = RowsOf(b, Shown(b, z))
<1> TAKE b, z
<1> QED  BY DEF TrialBalanceRows, RowsOf

\* The sections of the statements.
ProfitSections == {"Income", "CostOfGoodsSold", "Expense", "OtherIncome", "OtherExpense"}
SheetSections == {"Asset", "Liability", "Equity"}

\* The accounts of a section, the rows of a statement with what it shows of them,
\* and the accounts whose amounts have no room.
InSection(s) == {a \in Ids : Section(a) = s}
StatementRows(b, z, sections) ==
    [a \in {a \in Shown(b, z) : Section(a) \in sections} |-> Presented(a, b[a])]
Misfits(b, sections) ==
    {a \in Ids : Section(a) \in sections /\ ~(Fits(b[a]) /\ Fits(Presented(a, b[a])))}

\* A Profit and Loss, of what the General Ledger says, of the totals t of its
\* sections, of the misfits and of the rows.
ProfitAmounts(t) ==
    [income |-> t[1], cogs |-> t[2], grossProfit |-> t[1] - t[2],
     expense |-> t[3], netOperating |-> t[1] - t[2] - t[3],
     otherIncome |-> t[4], otherExpense |-> t[5], netOther |-> t[4] - t[5],
     netIncome |-> t[1] - t[2] - t[3] + t[4] - t[5]]

ProfitOf(f, d, refusal, gl, t, misfits, rows) ==
    IF f > d THEN [error |-> "InvalidPeriod"]
    ELSE IF refusal # "none" THEN [error |-> refusal]
    ELSE IF gl # "none" THEN [error |-> gl]
    ELSE IF misfits # {} \/ \E key \in DOMAIN ProfitAmounts(t) : ~Fits(ProfitAmounts(t)[key])
    THEN [error |-> "AmountOverflow"]
    ELSE [error |-> "none", rows |-> rows, amounts |-> ProfitAmounts(t)]

\* ProfitAndLoss makes its report of these parts and of nothing else.
LEMMA ProfitIs ==
    \A ps, f, d, z :
       ProfitAndLoss(ps, f, d, z) =
          LET b == PeriodBalances(ps, d, f) IN
          ProfitOf(f, d, ChartError, GeneralLedgerError(ps, d),
                   <<SectionTotal(b, "Income"), SectionTotal(b, "CostOfGoodsSold"),
                     SectionTotal(b, "Expense"), SectionTotal(b, "OtherIncome"),
                     SectionTotal(b, "OtherExpense")>>,
                   Misfits(b, ProfitSections), StatementRows(b, z, ProfitSections))
<1> TAKE ps, f, d, z
<1> DEFINE b == PeriodBalances(ps, d, f)
           i == SectionTotal(b, "Income")
           c == SectionTotal(b, "CostOfGoodsSold")
           e == SectionTotal(b, "Expense")
           oi == SectionTotal(b, "OtherIncome")
           oe == SectionTotal(b, "OtherExpense")
           amounts == [income |-> i, cogs |-> c, grossProfit |-> i - c,
                       expense |-> e, netOperating |-> i - c - e,
                       otherIncome |-> oi, otherExpense |-> oe, netOther |-> oi - oe,
                       netIncome |-> i - c - e + oi - oe]
           rows == StatementRows(b, z, ProfitSections)
<1>1. ProfitAndLoss(ps, f, d, z) =
        IF f > d THEN [error |-> "InvalidPeriod"]
        ELSE IF ChartError # "none" THEN [error |-> ChartError]
        ELSE IF GeneralLedgerError(ps, d) # "none" THEN [error |-> GeneralLedgerError(ps, d)]
        ELSE IF ~AllFit(b, ProfitSections, amounts) THEN [error |-> "AmountOverflow"]
        ELSE [error |-> "none", rows |-> rows, amounts |-> amounts]
  BY DEF ProfitAndLoss, PeriodBalances, StatementRows, ProfitSections
<1>2. ASSUME NEW m PROVE AllFit(b, ProfitSections, m) <=>
        ~(Misfits(b, ProfitSections) # {} \/ \E key \in DOMAIN m : ~Fits(m[key]))
  BY DEF AllFit, Misfits
<1> DEFINE t == <<i, c, e, oi, oe>>
<1>3. t[1] = i /\ t[2] = c /\ t[3] = e /\ t[4] = oi /\ t[5] = oe
  OBVIOUS
<1> HIDE DEF b, rows, i, c, e, oi, oe
<1> DEFINE misfits == Misfits(b, ProfitSections)
<1> HIDE DEF misfits
<1>4. AllFit(b, ProfitSections, amounts) <=> ~(misfits # {} \/ \E key \in DOMAIN amounts : ~Fits(amounts[key]))
  BY <1>2 DEF misfits
<1> HIDE DEF t
<1>5. amounts = ProfitAmounts(t)
  BY <1>3 DEF ProfitAmounts
<1>6. ProfitAndLoss(ps, f, d, z) =
         ProfitOf(f, d, ChartError, GeneralLedgerError(ps, d), t, misfits, rows)
  <2> HIDE DEF amounts
  <2> QED  BY <1>1, <1>4, <1>5 DEF ProfitOf
<1> QED  BY <1>6 DEF t, i, c, e, oi, oe, b, misfits, rows

\* The accounts of a Trial Balance that are closed into net income, that income,
\* and the balances that the other accounts keep in the Balance Sheet.
ProfitRows(tb) == {x \in DOMAIN tb.rows : IsProfitAndLoss(Account(x).type)}
SheetIncome(tb) == -SumOf(tb.rows, ProfitRows(tb))
SheetBalancesOf(tb) ==
    [a \in Ids |-> IF a \in DOMAIN tb.rows \ ProfitRows(tb) THEN tb.rows[a] ELSE 0]

\* A Balance Sheet, of a refused chart or Trial Balance, or of the totals t of its
\* sections, of the net income, of the misfits and of the rows.
SheetAmounts(t, income) ==
    [assets |-> t[1], liabilities |-> t[2],
     currentYearNetIncome |-> income, equity |-> t[3] + income,
     liabilitiesAndEquity |-> t[2] + t[3] + income]

SheetOf(refusal, tb, t, income, misfits, rows) ==
    IF refusal # "none" THEN [error |-> refusal]
    ELSE IF tb.error # "none" THEN [error |-> tb.error]
    ELSE IF \/ misfits # {}
            \/ \E key \in DOMAIN SheetAmounts(t, income) : ~Fits(SheetAmounts(t, income)[key])
    THEN [error |-> "AmountOverflow"]
    ELSE IF t[1] # t[2] + t[3] + income THEN [error |-> "UnbalancedBalanceSheet"]
    ELSE [error |-> "none", rows |-> rows, amounts |-> SheetAmounts(t, income)]

\* BalanceSheet makes its report of these parts and of nothing else.
LEMMA SheetIs ==
    \A ps, d, z, f, re :
       BalanceSheet(ps, d, z, f, re) =
          LET tb == AccrualTrialBalance(ps, d, z, f, re)
              b == SheetBalancesOf(tb) IN
          SheetOf(ChartError, tb,
                  <<SectionTotal(b, "Asset"), SectionTotal(b, "Liability"), SectionTotal(b, "Equity")>>,
                  SheetIncome(tb),
                  Misfits(b, SheetSections), StatementRows(b, z, SheetSections))
<1> TAKE ps, d, z, f, re
<1> DEFINE tb == AccrualTrialBalance(ps, d, z, f, re)
           b == SheetBalancesOf(tb)
           n == SheetIncome(tb)
           assets == SectionTotal(b, "Asset")
           liabilities == SectionTotal(b, "Liability")
           equity == SectionTotal(b, "Equity")
           amounts == [assets |-> assets, liabilities |-> liabilities,
                       currentYearNetIncome |-> n, equity |-> equity + n,
                       liabilitiesAndEquity |-> liabilities + equity + n]
           rows == StatementRows(b, z, SheetSections)
           misfits == Misfits(b, SheetSections)
           t == <<assets, liabilities, equity>>
<1>1. BalanceSheet(ps, d, z, f, re) =
        IF ChartError # "none" THEN [error |-> ChartError]
        ELSE IF tb.error # "none" THEN [error |-> tb.error]
        ELSE IF ~AllFit(b, SheetSections, amounts) THEN [error |-> "AmountOverflow"]
        ELSE IF assets # liabilities + equity + n THEN [error |-> "UnbalancedBalanceSheet"]
        ELSE [error |-> "none", rows |-> rows, amounts |-> amounts]
  BY DEF BalanceSheet, SheetBalancesOf, StatementRows, SheetSections, SheetIncome, ProfitRows, SumOf
<1>2. ASSUME NEW m PROVE AllFit(b, SheetSections, m) <=>
        ~(misfits # {} \/ \E key \in DOMAIN m : ~Fits(m[key]))
  BY DEF AllFit, Misfits
<1>3. t[1] = assets /\ t[2] = liabilities /\ t[3] = equity
  OBVIOUS
<1> HIDE DEF b, rows, tb, assets, liabilities, equity, n, misfits
<1>4. AllFit(b, SheetSections, amounts) <=> ~(misfits # {} \/ \E key \in DOMAIN amounts : ~Fits(amounts[key]))
  BY <1>2
<1> HIDE DEF t
<1>5. amounts = SheetAmounts(t, n)
  BY <1>3 DEF SheetAmounts
<1>6. BalanceSheet(ps, d, z, f, re) = SheetOf(ChartError, tb, t, n, misfits, rows)
  <2> HIDE DEF amounts
  <2> QED  BY <1>1, <1>3, <1>4, <1>5 DEF SheetOf
<1> QED  BY <1>6 DEF t, assets, liabilities, equity, n, tb, b, misfits, rows

--------------------------------------------------------------------------------
(* What a report rests on: the tests that stand before and after the sums *)

\* What a General Ledger without an error says of the stream it was made from.
Proven(ps, asOf) ==
    LET upTo == {k \in DOMAIN ps : ps[k].date <= asOf}
        live == {k \in upTo : ps[k].state = "Current"}
    IN /\ completeness = "Complete"
       /\ \A k \in upTo : ps[k].state # "Ambiguous"
       /\ \A k \in live : Sum(ps, {j \in live : ps[j].txn = ps[k].txn}) = 0
       /\ Entries(ps, asOf) = live

\* The tests of the General Ledger, which every report makes, are the proof.
LEMMA GeneralLedgerProves ==
    ASSUME completeness \in Completeness, NEW ps, NEW asOf, GeneralLedgerError(ps, asOf) = "none"
    PROVE  Proven(ps, asOf)
<1> DEFINE live == {k \in {k \in DOMAIN ps : ps[k].date <= asOf} : ps[k].state = "Current"}
<1>1. EntriesError(ps, asOf) = "none" /\ BalancedByTransaction(ps, Entries(ps, asOf))
  BY DEF GeneralLedgerError, BalancedByTransaction
<1>2. completeness = "Complete"
  BY <1>1 DEF EntriesError, Completeness
<1>3. \A k \in DOMAIN ps : ps[k].state = "Ambiguous" => ~(ps[k].date <= asOf)
  BY <1>1, <1>2 DEF EntriesError
<1>4. Entries(ps, asOf) = live
  BY DEF Entries
<1>5. \A k \in live : Sum(ps, {j \in live : ps[j].txn = ps[k].txn}) = 0
  BY <1>1, <1>4 DEF BalancedByTransaction
<1> QED  BY <1>2, <1>3, <1>4, <1>5 DEF Proven

\* No report passes over a refusal of the General Ledger.
LEMMA ReportsAsk ==
    ASSUME NEW ps, NEW q, q.kind \in {"GeneralLedger", "TrialBalance", "AccrualTrialBalance",
                                      "ProfitAndLoss", "BalanceSheet"},
           Evaluate(ps, q).error = "none"
    PROVE  /\ GeneralLedgerError(ps, q.asOf) = "none"
           /\ q.kind = "GeneralLedger" =>
                 Evaluate(ps, q).entries = {ps[k].id : k \in Entries(ps, q.asOf)}
<1>1. CASE q.kind = "GeneralLedger"
  BY <1>1 DEF Evaluate
<1>2. ASSUME NEW d, NEW z, TrialBalance(ps, d, z).error = "none"
      PROVE  GeneralLedgerError(ps, d) = "none"
  BY <1>2 DEF TrialBalance
<1>3. ASSUME NEW d, NEW z, NEW f, NEW re, AccrualTrialBalance(ps, d, z, f, re).error = "none"
      PROVE  GeneralLedgerError(ps, d) = "none"
  BY <1>3 DEF AccrualTrialBalance
<1>4. ASSUME NEW d, NEW z, NEW f, ProfitAndLoss(ps, f, d, z).error = "none"
      PROVE  GeneralLedgerError(ps, d) = "none"
  BY <1>4 DEF ProfitAndLoss
<1>5. ASSUME NEW d, NEW z, NEW f, NEW re, BalanceSheet(ps, d, z, f, re).error = "none"
      PROVE  AccrualTrialBalance(ps, d, z, f, re).error = "none"
  BY <1>5 DEF BalanceSheet
<1>6. CASE q.kind = "TrialBalance"
  BY <1>2, <1>6 DEF Evaluate
<1>7. CASE q.kind = "AccrualTrialBalance"
  BY <1>3, <1>7 DEF Evaluate
<1>8. CASE q.kind = "ProfitAndLoss"
  BY <1>4, <1>8 DEF Evaluate
<1>9. CASE q.kind = "BalanceSheet"
  BY <1>3, <1>5, <1>9 DEF Evaluate
<1> QED  BY <1>1, <1>6, <1>7, <1>8, <1>9

\* An amount that a Trial Balance shows is of the width, and so is the credit
\* shown for it.
LEMMA RowsFit ==
    ASSUME NEW b, NEW z, TrialBalanceRows(b, z).error = "none"
    PROVE  LET rows == TrialBalanceRows(b, z).rows IN
           \A a \in DOMAIN rows : Fits(rows[a]) /\ Fits(-rows[a])
<1> DEFINE shown == Shown(b, z)
<1>1. /\ TrialBalanceRows(b, z).rows = [a \in shown |-> b[a]]
      /\ \A a \in shown : Fits(b[a]) /\ b[a] # MinAmount
  BY DEF TrialBalanceRows
<1>2. ASSUME NEW n, Fits(n), n # MinAmount PROVE Fits(-n)
  BY <1>2, LedgerAssumption DEF Fits, MinAmount
<1> QED  BY <1>1, <1>2

\* A statement that is given out has no misfits among its rows.
LEMMA StatementFits ==
    ASSUME NEW b, NEW z, NEW sections, Misfits(b, sections) = {}
    PROVE  LET rows == StatementRows(b, z, sections) IN
           \A a \in DOMAIN rows : Fits(rows[a])
  BY DEF Misfits, StatementRows, Shown

\* What every report of a kind satisfies.
ReportFits(r, kind) ==
    r.error = "none" =>
        /\ kind \in {"TrialBalance", "AccrualTrialBalance"} =>
              \A a \in DOMAIN r.rows : Fits(r.rows[a]) /\ Fits(-r.rows[a])
        /\ kind \in {"ProfitAndLoss", "BalanceSheet"} =>
              /\ \A a \in DOMAIN r.rows : Fits(r.rows[a])
              /\ \A key \in DOMAIN r.amounts : Fits(r.amounts[key])

\* No report of any kind has an amount that wraps.
LEMMA ReportsFit ==
    ASSUME NEW ps, NEW q, q.kind \in Kinds
    PROVE  ReportFits(Evaluate(ps, q), q.kind)
<1>1. CASE q.kind = "GeneralLedger"
  BY <1>1 DEF ReportFits
<1>2. ASSUME NEW d, NEW z
      PROVE  ReportFits(TrialBalance(ps, d, z), "TrialBalance")
  BY RowsFit DEF TrialBalance, ReportFits
<1>3. ASSUME NEW d, NEW z, NEW f, NEW re
      PROVE  ReportFits(AccrualTrialBalance(ps, d, z, f, re), "AccrualTrialBalance")
  BY RowsFit DEF AccrualTrialBalance, ReportFits
<1>4. ASSUME NEW d, NEW z, NEW f
      PROVE  ReportFits(ProfitAndLoss(ps, f, d, z), "ProfitAndLoss")
  <2> DEFINE b == PeriodBalances(ps, d, f)
             t == <<SectionTotal(b, "Income"), SectionTotal(b, "CostOfGoodsSold"),
                    SectionTotal(b, "Expense"), SectionTotal(b, "OtherIncome"),
                    SectionTotal(b, "OtherExpense")>>
             misfits == Misfits(b, ProfitSections)
             rows == StatementRows(b, z, ProfitSections)
             pl == ProfitAndLoss(ps, f, d, z)
  <2>1. pl = ProfitOf(f, d, ChartError, GeneralLedgerError(ps, d), t, misfits, rows)
    BY ProfitIs
  <2>2. misfits = {} => \A a \in DOMAIN rows : Fits(rows[a])
    BY StatementFits
  <2> HIDE DEF b, t, misfits, rows, pl
  <2> SUFFICES ASSUME pl.error = "none" PROVE ReportFits(pl, "ProfitAndLoss")
    BY DEF ReportFits, pl
  <2>3. /\ misfits = {} /\ \A key \in DOMAIN ProfitAmounts(t) : Fits(ProfitAmounts(t)[key])
        /\ pl.rows = rows /\ pl.amounts = ProfitAmounts(t)
    BY <2>1 DEF ProfitOf
  <2> QED  BY <2>2, <2>3 DEF ReportFits
<1>5. ASSUME NEW d, NEW z, NEW f, NEW re
      PROVE  ReportFits(BalanceSheet(ps, d, z, f, re), "BalanceSheet")
  <2> DEFINE tb == AccrualTrialBalance(ps, d, z, f, re)
             b == SheetBalancesOf(tb)
             t == <<SectionTotal(b, "Asset"), SectionTotal(b, "Liability"),
                    SectionTotal(b, "Equity")>>
             misfits == Misfits(b, SheetSections)
             rows == StatementRows(b, z, SheetSections)
             bs == BalanceSheet(ps, d, z, f, re)
  <2>1. bs = SheetOf(ChartError, tb, t, SheetIncome(tb), misfits, rows)
    BY SheetIs
  <2>2. misfits = {} => \A a \in DOMAIN rows : Fits(rows[a])
    BY StatementFits
  <2> DEFINE amounts == SheetAmounts(t, SheetIncome(tb))
  <2> HIDE DEF b, t, misfits, rows, bs, tb
  <2> SUFFICES ASSUME bs.error = "none" PROVE ReportFits(bs, "BalanceSheet")
    BY DEF ReportFits, bs
  <2>3. /\ misfits = {} /\ \A key \in DOMAIN amounts : Fits(amounts[key])
        /\ bs.rows = rows /\ bs.amounts = amounts
    BY <2>1 DEF SheetOf
  <2> HIDE DEF amounts
  <2> QED  BY <2>2, <2>3 DEF ReportFits
<1> QED  BY <1>1, <1>2, <1>3, <1>4, <1>5 DEF Evaluate, Kinds

--------------------------------------------------------------------------------
(* Sums of a posting stream *)

\* What the lemmas ask of a part of a posting stream, and its amounts.
Stream(ps) ==
    /\ IsFiniteSet(DOMAIN ps)
    /\ \A k \in DOMAIN ps :
          ps[k].date \in Int /\ ps[k].amount \in Int /\ ps[k].account \in Ids
Amounts(ps) == [k \in DOMAIN ps |-> ps[k].amount]

\* The sums of the model are the sums of the first part.
LEMMA SumIsTotal ==
    ASSUME NEW ps, NEW S \in SUBSET DOMAIN ps, IsFiniteSet(S)
    PROVE  Sum(ps, S) = SumOf(Amounts(ps), S)
<1> DEFINE Iter(i) == i = [s \in SUBSET S |->
                             IF s = {} THEN 0 ELSE ps[Pick(s)].amount + i[s \ {Pick(s)}]]
<1>1. ASSUME NEW i PROVE Iter(i) <=> Adds(i, Amounts(ps), S)
  <2>1. \A s \in SUBSET S : s # {} => Amounts(ps)[Pick(s)] = ps[Pick(s)].amount
    BY PickIn DEF Amounts
  <2>2. [s \in SUBSET S |-> IF s = {} THEN 0 ELSE ps[Pick(s)].amount + i[s \ {Pick(s)}]]
        = [s \in SUBSET S |-> IF s = {} THEN 0 ELSE Amounts(ps)[Pick(s)] + i[s \ {Pick(s)}]]
    BY <2>1
  <2> QED  BY <2>2 DEF Adds
<1>2. Sum(ps, S) = (CHOOSE i : Iter(i))[S]
  BY DEF Sum, MapThenSumSet, MapThenFoldSet, Pick
<1> DEFINE j == CHOOSE i : Iter(i)
<1>3. Iter(j)
  <2>1. \E i : Iter(i)
    BY <1>1, AddsExists
  <2> HIDE DEF Iter
  <2> QED  BY <2>1
<1>4. Sum(ps, S) = j[S]
  BY <1>2
<1>5. Adds(j, Amounts(ps), S)
  BY <1>1, <1>3
<1> HIDE DEF j
<1> QED  BY <1>4, <1>5, SumIs

\* A built ledger, as far as the sums are concerned.
Standing ==
    /\ chart \in Charts /\ postings \in PostingStreams /\ completeness \in Completeness
    /\ \A k \in DOMAIN postings : postings[k].account \in Ids

\* Its chart and its postings are finite, and its accounts have types.
LEMMA StandingIsFinite ==
    ASSUME Standing
    PROVE  /\ IsFiniteSet(Ids) /\ Stream(postings)
           /\ \A a \in Ids : Account(a).type \in AccountTypes
<1>1. IsFiniteSet(DOMAIN postings) /\ IsFiniteSet(DOMAIN chart)
  BY LedgerAssumption, FS_Interval DEF Standing
<1>2. IsFiniteSet(Ids)
  <2> DEFINE id == [k \in DOMAIN chart |-> chart[k].id]
  <2>1. Ids = {id[k] : k \in DOMAIN chart}
    BY DEF Ids
  <2> HIDE DEF id
  <2> QED  BY <1>1, <2>1, FiniteImage
<1>3. ASSUME NEW a \in Ids PROVE Account(a).type \in AccountTypes
  <2>1. \E k \in DOMAIN chart : chart[k].id = a
    BY DEF Ids
  <2>2. \E k \in DOMAIN chart : Account(a) = chart[k]
    BY <2>1 DEF Account
  <2> QED  BY <2>2, LedgerAssumption DEF Standing
<1> QED  BY <1>1, <1>2, <1>3, LedgerAssumption DEF Standing, Stream

\* Every sum of a stream is an integer.
LEMMA StreamSums ==
    ASSUME NEW ps, Stream(ps)
    PROVE  \A S \in SUBSET DOMAIN ps :
              /\ IsFiniteSet(S) /\ Sum(ps, S) = SumOf(Amounts(ps), S) /\ Sum(ps, S) \in Int
              /\ \A k \in S : Amounts(ps)[k] \in Int
<1> TAKE S \in SUBSET DOMAIN ps
<1>1. IsFiniteSet(S)
  BY FS_Subset DEF Stream
<1>2. \A k \in DOMAIN ps : Amounts(ps)[k] \in Int
  BY DEF Stream, Amounts
<1>3. Sum(ps, S) = SumOf(Amounts(ps), S)
  BY <1>1, SumIsTotal
<1>4. SumOf(Amounts(ps), S) \in Int
  BY <1>1, <1>2, SumInt
<1> QED  BY <1>1, <1>2, <1>3, <1>4

\* What balances by transaction balances as a whole.
LEMMA BalancedAsAWhole ==
    ASSUME NEW ps, Stream(ps), NEW E \in SUBSET DOMAIN ps, BalancedByTransaction(ps, E)
    PROVE  Sum(ps, E) = 0
<1> DEFINE txn == [k \in E |-> ps[k].txn]
           K == {txn[k] : k \in E}
           Of(t) == {k \in E : txn[k] = t}
           net == [t \in K |-> SumOf(Amounts(ps), Of(t))]
<1>1. IsFiniteSet(E) /\ Sum(ps, E) = SumOf(Amounts(ps), E) /\ \A k \in E : Amounts(ps)[k] \in Int
  BY StreamSums
<1>2. IsFiniteSet(K)
  <2> HIDE DEF txn
  <2> QED  BY <1>1, FiniteImage
<1>3. ASSUME NEW t \in K PROVE SumOf(Amounts(ps), Of(t)) = 0
  <2>1. Of(t) = {k \in E : ps[k].txn = t} /\ t \in {ps[k].txn : k \in E}
    OBVIOUS
  <2>2. Sum(ps, {k \in E : ps[k].txn = t}) = 0
    BY <2>1 DEF BalancedByTransaction
  <2>3. Of(t) \in SUBSET DOMAIN ps
    OBVIOUS
  <2> HIDE DEF Of
  <2>4. Sum(ps, Of(t)) = 0
    BY <2>1, <2>2
  <2> QED  BY <2>3, <2>4, StreamSums
<1>4. SumOf(Amounts(ps), E) = SumOf(net, K)
  <2>1. \A k \in E : txn[k] \in K
    OBVIOUS
  <2> HIDE DEF K, txn
  <2> QED  BY <1>1, <1>2, <2>1, SumByKey
<1>5. SumOf(net, K) = 0
  <2>1. \A t \in K : net[t] = 0
    BY <1>3
  <2> HIDE DEF net, K
  <2> QED  BY <1>2, <2>1, SumNothing
<1> QED  BY <1>1, <1>4, <1>5

\* Balances of a balanced stream, each entry under one account, balance; the
\* accounts that are not shown change nothing.
LEMMA RowsBalance ==
    ASSUME IsFiniteSet(Ids), NEW ps, Stream(ps), NEW E \in SUBSET DOMAIN ps, Sum(ps, E) = 0,
           NEW key, \A k \in E : key[k] \in Ids,
           NEW b, b = [a \in Ids |-> Sum(ps, {k \in E : key[k] = a})], NEW z
    PROVE  /\ \A a \in Ids : b[a] \in Int
           /\ SumOf(b, Shown(b, z)) = 0
<1> DEFINE Of(a) == {k \in E : key[k] = a}
           net == [a \in Ids |-> SumOf(Amounts(ps), Of(a))]
<1>1. IsFiniteSet(E) /\ Sum(ps, E) = SumOf(Amounts(ps), E) /\ \A k \in E : Amounts(ps)[k] \in Int
  BY StreamSums
<1>2. ASSUME NEW a \in Ids PROVE b[a] = SumOf(Amounts(ps), Of(a)) /\ b[a] \in Int
  <2>1. Of(a) \in SUBSET DOMAIN ps /\ b[a] = Sum(ps, Of(a))
    OBVIOUS
  <2> HIDE DEF Of
  <2> QED  BY <2>1, StreamSums
<1>3. b = net
  <2> HIDE DEF Of
  <2> QED  BY <1>2
<1>4. SumOf(Amounts(ps), E) = SumOf(net, Ids)
  BY <1>1, SumByKey
<1>5. SumOf(b, Ids) = SumOf(b, Shown(b, z))
  <2>1. Shown(b, z) \in SUBSET Ids /\ \A a \in Ids \ Shown(b, z) : b[a] = 0
    BY DEF Shown
  <2>2. \A a \in Ids : b[a] \in Int
    BY <1>2
  <2> QED  BY ONLY <2>1, <2>2, IsFiniteSet(Ids), SumOfPart
<1> QED  BY <1>1, <1>2, <1>3, <1>4, <1>5

\* The account to which an accrual Trial Balance puts each entry.
AccrualKey(ps, d, from, re) ==
    [k \in Entries(ps, d) |-> IF k \in Rolled(ps, d, from) THEN re ELSE ps[k].account]

\* Its balances put every entry to one account.
LEMMA AccrualByKey ==
    ASSUME NEW ps, Stream(ps), NEW d, NEW from, NEW re \in Ids
    PROVE  LET key == AccrualKey(ps, d, from, re) IN
           /\ \A k \in Entries(ps, d) : key[k] \in Ids
           /\ AccrualBalances(ps, d, from, re) =
                 [a \in Ids |-> Sum(ps, {k \in Entries(ps, d) : key[k] = a})]
<1> DEFINE E == Entries(ps, d)
           key == AccrualKey(ps, d, from, re)
           rolled == Rolled(ps, d, from)
<1>1. \A k \in E : key[k] = IF k \in rolled THEN re ELSE ps[k].account
  BY DEF AccrualKey
<1>2. E \subseteq DOMAIN ps /\ rolled \subseteq E
  BY DEF Entries, Rolled
<1>3. \A k \in E : ps[k].account \in Ids
  BY <1>2 DEF Stream
<1>4. AccrualBalances(ps, d, from, re) =
        [a \in Ids |-> Sum(ps, {k \in E \ rolled : ps[k].account = a}
                                 \cup (IF a = re THEN rolled ELSE {}))]
  BY DEF AccrualBalances, Rolled
<1> HIDE DEF E, key, rolled
<1>5. ASSUME NEW a \in Ids
      PROVE  {k \in E \ rolled : ps[k].account = a} \cup (IF a = re THEN rolled ELSE {})
             = {k \in E : key[k] = a}
  BY <1>1, <1>2
<1>6. [a \in Ids |-> Sum(ps, {k \in E \ rolled : ps[k].account = a}
                                \cup (IF a = re THEN rolled ELSE {}))]
      = [a \in Ids |-> Sum(ps, {k \in E : key[k] = a})]
  BY <1>5
<1>7. \A k \in E : key[k] \in Ids
  BY <1>1, <1>3
<1> QED  BY <1>4, <1>6, <1>7 DEF E, key

\* The balances shown by every Trial Balance of a proven stream balance.
LEMMA TrialBalances ==
    ASSUME IsFiniteSet(Ids), NEW ps, Stream(ps), NEW d, GeneralLedgerError(ps, d) = "none"
    PROVE  /\ LET b == Balances(ps, d) IN
              \A z : (\A a \in Ids : b[a] \in Int) /\ SumOf(b, Shown(b, z)) = 0
           /\ \A from : \A re \in Ids :
                LET b == AccrualBalances(ps, d, from, re) IN
                \A z : (\A a \in Ids : b[a] \in Int) /\ SumOf(b, Shown(b, z)) = 0
<1> DEFINE E == Entries(ps, d)
<1>1. E \in SUBSET DOMAIN ps
  BY DEF Entries
<1>2. Sum(ps, E) = 0
  <2>1. BalancedByTransaction(ps, E)
    BY DEF GeneralLedgerError
  <2> HIDE DEF E
  <2> QED  BY <1>1, <2>1, BalancedAsAWhole
<1>3. ASSUME NEW z
      PROVE  LET b == Balances(ps, d) IN
             (\A a \in Ids : b[a] \in Int) /\ SumOf(b, Shown(b, z)) = 0
  <2> DEFINE b == Balances(ps, d)
             key == [k \in E |-> ps[k].account]
  <2>1. \A k \in E : key[k] \in Ids
    BY <1>1 DEF Stream
  <2>2. b = [a \in Ids |-> Sum(ps, {k \in E : key[k] = a})]
    <3>1. \A a : {k \in E : key[k] = a} = {k \in E : ps[k].account = a}
      OBVIOUS
    <3> QED  BY <3>1 DEF Balances
  <2> HIDE DEF b, key, E
  <2>3. (\A a \in Ids : b[a] \in Int) /\ SumOf(b, Shown(b, z)) = 0
    BY <1>1, <1>2, <2>1, <2>2, RowsBalance
  <2> QED  BY <2>3 DEF b
<1>4. ASSUME NEW from, NEW re \in Ids, NEW z
      PROVE  LET b == AccrualBalances(ps, d, from, re) IN
             (\A a \in Ids : b[a] \in Int) /\ SumOf(b, Shown(b, z)) = 0
  <2> DEFINE b == AccrualBalances(ps, d, from, re)
             key == AccrualKey(ps, d, from, re)
  <2>1. /\ \A k \in E : key[k] \in Ids
        /\ b = [a \in Ids |-> Sum(ps, {k \in E : key[k] = a})]
    BY AccrualByKey
  <2> HIDE DEF b, key, E
  <2>3. (\A a \in Ids : b[a] \in Int) /\ SumOf(b, Shown(b, z)) = 0
    BY <1>1, <1>2, <2>1, RowsBalance
  <2> QED  BY <2>3 DEF b
<1> QED  BY <1>3, <1>4

\* So the test of the rows does not find them unbalanced.
LEMMA RowsNeverUnbalanced ==
    ASSUME NEW b, NEW z, SumOf(b, Shown(b, z)) = 0
    PROVE  TrialBalanceRows(b, z).error \in {"none", "BalanceOverflow"}
  BY DEF TrialBalanceRows, SumOf

\* A refusal of the General Ledger is of one of its kinds.
LEMMA RefusalKinds ==
    ASSUME completeness \in Completeness, NEW ps, NEW d
    PROVE  GeneralLedgerError(ps, d) \in Refusals
  BY DEF GeneralLedgerError, EntriesError, Completeness, Refusals

--------------------------------------------------------------------------------
(* Sections of a chart *)

\* A chart that the statements accept has no account outside their sections.
LEMMA Sections ==
    ASSUME ChartError = "none", NEW a \in Ids
    PROVE  /\ Account(a).type # "Other" /\ Account(a).class # "none"
           /\ BroadType(Account(a).class) = Account(a).type
<1>1. \A k \in DOMAIN chart : ~(\/ chart[k].type = "Other" \/ chart[k].class = "none"
                                \/ BroadType(chart[k].class) # chart[k].type)
  BY DEF ChartError
<1>2. \E k \in DOMAIN chart : chart[k].id = a
  BY DEF Ids
<1>3. \E k \in DOMAIN chart : Account(a) = chart[k]
  BY <1>2 DEF Account
<1> QED  BY <1>1, <1>3

\* The types whose amounts are shown as credits.
CreditTypes == {"Income", "Liability", "Equity"}

\* The total of a section is a sum of the first part.
LEMMA SectionIs ==
    IsFiniteSet(Ids) => \A b, s :
        SectionTotal(b, s) = SumOf([a \in InSection(s) |-> Presented(a, b[a])], InSection(s))
<1> SUFFICES ASSUME IsFiniteSet(Ids), NEW b, NEW s
             PROVE  SectionTotal(b, s) = SumOf([a \in InSection(s) |-> Presented(a, b[a])], InSection(s))
  OBVIOUS
<1> DEFINE S == InSection(s)
           p == [a \in S |-> Presented(a, b[a])]
           Iter(i) == i = [r \in SUBSET S |->
                             IF r = {} THEN 0 ELSE Presented(Pick(r), b[Pick(r)]) + i[r \ {Pick(r)}]]
<1>1. IsFiniteSet(S) /\ S \subseteq Ids
  BY FS_Subset DEF InSection
<1>2. ASSUME NEW i PROVE Iter(i) <=> Adds(i, p, S)
  <2>1. \A r \in SUBSET S : r # {} => p[Pick(r)] = Presented(Pick(r), b[Pick(r)])
    BY PickIn
  <2>2. [r \in SUBSET S |-> IF r = {} THEN 0 ELSE Presented(Pick(r), b[Pick(r)]) + i[r \ {Pick(r)}]]
        = [r \in SUBSET S |-> IF r = {} THEN 0 ELSE p[Pick(r)] + i[r \ {Pick(r)}]]
    BY <2>1
  <2> QED  BY <2>2 DEF Adds
<1> DEFINE j == CHOOSE i : Iter(i)
<1>3. SectionTotal(b, s) = j[S]
  BY DEF SectionTotal, MapThenSumSet, MapThenFoldSet, Pick, InSection
<1>4. Iter(j)
  <2>1. \E i : Iter(i)
    BY <1>1, <1>2, AddsExists
  <2> HIDE DEF Iter
  <2> QED  BY <2>1
<1>5. Adds(j, p, S)
  BY <1>2, <1>4
<1> HIDE DEF j, p
<1> QED  BY <1>1, <1>3, <1>5, SumIs DEF p, S

\* It is the debit-positive sum, or its negation in a credit-normal section.
LEMMA SectionSums ==
    ASSUME IsFiniteSet(Ids), NEW b, \A a \in Ids : b[a] \in Int, NEW s
    PROVE  /\ SumOf(b, InSection(s)) \in Int
           /\ (\A a \in InSection(s) : Account(a).type \notin CreditTypes) =>
                 SectionTotal(b, s) = SumOf(b, InSection(s))
           /\ (\A a \in InSection(s) : Account(a).type \in CreditTypes) =>
                 SectionTotal(b, s) = -SumOf(b, InSection(s))
<1> DEFINE S == InSection(s)
           p == [a \in S |-> Presented(a, b[a])]
<1>1. IsFiniteSet(S) /\ S \subseteq Ids
  BY FS_Subset DEF InSection
<1>2. SectionTotal(b, s) = SumOf(p, S)
  BY SectionIs
<1>3. ASSUME \A a \in S : Account(a).type \notin CreditTypes
      PROVE  SumOf(p, S) = SumOf(b, S)
  <2>1. \A a \in S : b[a] \in Int /\ p[a] = b[a]
    BY <1>1, <1>3 DEF Presented, CreditTypes
  <2> HIDE DEF p
  <2> QED  BY <1>1, <2>1, SumSame
<1>4. ASSUME \A a \in S : Account(a).type \in CreditTypes
      PROVE  SumOf(p, S) = -SumOf(b, S)
  <2>1. \A a \in S : b[a] \in Int /\ p[a] = -b[a]
    BY <1>1, <1>4 DEF Presented, CreditTypes
  <2> HIDE DEF p
  <2> QED  BY <1>1, <2>1, SumMinus
<1>5. SumOf(b, S) \in Int
  BY <1>1, SumInt
<1> QED  BY <1>2, <1>3, <1>4, <1>5

\* The accounts of some types, and those of profit and loss.
ByType(T) == {a \in Ids : Account(a).type \in T}
Profit == ByType({"Income", "Expense", "CostOfGoodsSold"})

\* The sections of the statements, by the types of their accounts.
LEMMA SectionsByType ==
    ASSUME ChartError = "none"
    PROVE  /\ InSection("Asset") = ByType({"Asset"})
           /\ InSection("Liability") = ByType({"Liability"})
           /\ InSection("Equity") = ByType({"Equity"})
           /\ InSection("CostOfGoodsSold") = ByType({"CostOfGoodsSold"})
           /\ InSection("Income") \cup InSection("OtherIncome") = ByType({"Income"})
           /\ InSection("Expense") \cup InSection("OtherExpense") = ByType({"Expense"})
           /\ InSection("Income") \cap InSection("OtherIncome") = {}
           /\ InSection("Expense") \cap InSection("OtherExpense") = {}
<1>1. ASSUME NEW a \in Ids
      PROVE  LET c == Account(a).class t == Account(a).type IN
             /\ c = "OtherIncome" => t = "Income"
             /\ c = "OtherExpense" => t = "Expense"
             /\ t # "OtherIncome" /\ t # "OtherExpense"
  BY Sections DEF BroadType
<1>2. ASSUME NEW a \in Ids
      PROVE  LET c == Account(a).class t == Account(a).type IN
             Section(a) = IF c \in {"OtherIncome", "OtherExpense"} THEN c ELSE t
  BY DEF Section
<1> QED  BY <1>1, <1>2 DEF InSection, ByType

\* Sums over disjoint sets of accounts add up.
LEMMA SumOfTypes ==
    ASSUME IsFiniteSet(Ids), NEW b, \A a \in Ids : b[a] \in Int, NEW S \in SUBSET Ids, NEW R \in SUBSET Ids,
           S \cap R = {}
    PROVE  /\ SumOf(b, S \cup R) = SumOf(b, S) + SumOf(b, R)
           /\ SumOf(b, S) \in Int /\ SumOf(b, R) \in Int /\ SumOf(b, S \cup R) \in Int
<1>1. IsFiniteSet(S) /\ IsFiniteSet(R) /\ \A a \in S \cup R : b[a] \in Int
  BY FS_Subset
<1>2. SumOf(b, S \cup R) = SumOf(b, S) + SumOf(b, R)
  BY <1>1, SumUnion
<1>3. SumOf(b, S) \in Int /\ SumOf(b, R) \in Int /\ SumOf(b, S \cup R) \in Int
  BY SumInt
<1> QED  BY <1>2, <1>3

\* What the sections of a statement come to, in debit-positive amounts.
LEMMA StatementSums ==
    ASSUME IsFiniteSet(Ids), ChartError = "none", NEW b, \A a \in Ids : b[a] \in Int
    PROVE  /\ SectionTotal(b, "Asset") = SumOf(b, ByType({"Asset"}))
           /\ SectionTotal(b, "Liability") = -SumOf(b, ByType({"Liability"}))
           /\ SectionTotal(b, "Equity") = -SumOf(b, ByType({"Equity"}))
           /\ SectionTotal(b, "Income") + SectionTotal(b, "OtherIncome") = -SumOf(b, ByType({"Income"}))
           /\ SectionTotal(b, "Expense") + SectionTotal(b, "OtherExpense") = SumOf(b, ByType({"Expense"}))
           /\ SectionTotal(b, "CostOfGoodsSold") = SumOf(b, ByType({"CostOfGoodsSold"}))
           /\ \A s : SectionTotal(b, s) \in Int \/ s \notin {"Asset", "Liability", "Equity", "Income",
                "OtherIncome", "Expense", "OtherExpense", "CostOfGoodsSold"}
<1>1. \A s : InSection(s) \in SUBSET Ids /\ SumOf(b, InSection(s)) \in Int
  BY SectionSums DEF InSection
<1>2. ASSUME NEW s, NEW t, InSection(s) \subseteq ByType({t}), t \in CreditTypes
      PROVE  SectionTotal(b, s) = -SumOf(b, InSection(s))
  BY <1>2, SectionSums DEF ByType
<1>3. ASSUME NEW s, NEW t, InSection(s) \subseteq ByType({t}), t \notin CreditTypes
      PROVE  SectionTotal(b, s) = SumOf(b, InSection(s))
  BY <1>3, SectionSums DEF ByType
<1>4. /\ SectionTotal(b, "Asset") = SumOf(b, InSection("Asset"))
      /\ SectionTotal(b, "CostOfGoodsSold") = SumOf(b, InSection("CostOfGoodsSold"))
      /\ SectionTotal(b, "Expense") = SumOf(b, InSection("Expense"))
      /\ SectionTotal(b, "OtherExpense") = SumOf(b, InSection("OtherExpense"))
  BY <1>3, SectionsByType DEF CreditTypes
<1>5. /\ SectionTotal(b, "Liability") = -SumOf(b, InSection("Liability"))
      /\ SectionTotal(b, "Equity") = -SumOf(b, InSection("Equity"))
      /\ SectionTotal(b, "Income") = -SumOf(b, InSection("Income"))
      /\ SectionTotal(b, "OtherIncome") = -SumOf(b, InSection("OtherIncome"))
  BY <1>2, SectionsByType DEF CreditTypes
<1>6. /\ SumOf(b, ByType({"Income"})) = SumOf(b, InSection("Income")) + SumOf(b, InSection("OtherIncome"))
      /\ SumOf(b, ByType({"Expense"})) = SumOf(b, InSection("Expense")) + SumOf(b, InSection("OtherExpense"))
  <2>1. ASSUME NEW s, NEW r, InSection(s) \cap InSection(r) = {}
        PROVE  SumOf(b, InSection(s) \cup InSection(r)) = SumOf(b, InSection(s)) + SumOf(b, InSection(r))
    BY <1>1, <2>1, SumOfTypes
  <2> QED  BY <2>1, SectionsByType
<1>7. \A m, n \in Int : -m + -n = -(m + n)
  OBVIOUS
<1> QED  BY <1>1, <1>4, <1>5, <1>6, <1>7, SectionsByType

\* The accounts of profit and loss, and the others, by their types.
LEMMA ProfitSums ==
    ASSUME IsFiniteSet(Ids), NEW b, \A a \in Ids : b[a] \in Int
    PROVE  /\ SumOf(b, Profit) = SumOf(b, ByType({"Income"})) + SumOf(b, ByType({"Expense"}))
                                 + SumOf(b, ByType({"CostOfGoodsSold"}))
           /\ SumOf(b, ByType({"Asset", "Liability", "Equity"})) =
                 SumOf(b, ByType({"Asset"})) + SumOf(b, ByType({"Liability"})) + SumOf(b, ByType({"Equity"}))
<1>1. ASSUME NEW S \in SUBSET Ids, NEW T \in SUBSET Ids, NEW U \in SUBSET Ids,
             S \cap T = {}, S \cap U = {}, T \cap U = {}
      PROVE  SumOf(b, (S \cup T) \cup U) = SumOf(b, S) + SumOf(b, T) + SumOf(b, U)
  <2>1. SumOf(b, S \cup T) = SumOf(b, S) + SumOf(b, T)
    BY <1>1, SumOfTypes
  <2>2. SumOf(b, (S \cup T) \cup U) = SumOf(b, S \cup T) + SumOf(b, U)
    <3>1. S \cup T \in SUBSET Ids /\ (S \cup T) \cap U = {}
      BY <1>1
    <3> QED  BY <3>1, SumOfTypes
  <2> QED  BY <2>1, <2>2
<1> DEFINE I == ByType({"Income"})
           E == ByType({"Expense"})
           C == ByType({"CostOfGoodsSold"})
           A == ByType({"Asset"})
           L == ByType({"Liability"})
           Q == ByType({"Equity"})
<1>2. /\ Profit = (I \cup E) \cup C /\ I \cap E = {} /\ I \cap C = {} /\ E \cap C = {}
      /\ I \in SUBSET Ids /\ E \in SUBSET Ids /\ C \in SUBSET Ids
  BY DEF Profit, ByType
<1>3. /\ ByType({"Asset", "Liability", "Equity"}) = (A \cup L) \cup Q
      /\ A \cap L = {} /\ A \cap Q = {} /\ L \cap Q = {}
      /\ A \in SUBSET Ids /\ L \in SUBSET Ids /\ Q \in SUBSET Ids
  BY DEF ByType
<1> HIDE DEF I, E, C, A, L, Q
<1>4. SumOf(b, Profit) = SumOf(b, I) + SumOf(b, E) + SumOf(b, C)
  BY <1>1, <1>2
<1>5. SumOf(b, ByType({"Asset", "Liability", "Equity"})) = SumOf(b, A) + SumOf(b, L) + SumOf(b, Q)
  BY <1>1, <1>3
<1> QED  BY <1>4, <1>5 DEF I, E, C, A, L, Q

--------------------------------------------------------------------------------
(* The last checks, the statements and the past *)

\* A balanced Trial Balance makes a balanced Balance Sheet: b are the balances,
\* d those of the accounts that keep theirs.
LEMMA SheetBalances ==
    ASSUME IsFiniteSet(Ids), \A a \in Ids : Account(a).type \in AccountTypes, ChartError = "none",
           NEW b, \A a \in Ids : b[a] \in Int, NEW shown, shown \in SUBSET Ids,
           \A a \in Ids \ shown : b[a] = 0, SumOf(b, shown) = 0,
           NEW d, d = [a \in Ids |-> IF a \in shown \ (Profit \cap shown) THEN b[a] ELSE 0]
    PROVE  /\ SectionTotal(d, "Asset") =
                 SectionTotal(d, "Liability") + SectionTotal(d, "Equity") + -SumOf(b, Profit \cap shown)
           /\ SumOf(b, Profit \cap shown) = SumOf(b, Profit)
<1> DEFINE P == Profit \cap shown
           N == ByType({"Asset", "Liability", "Equity"})
<1>1. Profit \in SUBSET Ids /\ N \in SUBSET Ids /\ N = Ids \ Profit
  <2>1. \A a \in Ids : Account(a).type # "Other"
    BY Sections
  <2> QED  BY <2>1 DEF Profit, ByType, AccountTypes
<1>2. IsFiniteSet(shown) /\ IsFiniteSet(Profit) /\ IsFiniteSet(N)
  BY <1>1, FS_Subset
<1>3. P \in SUBSET Profit /\ P \in SUBSET shown /\ shown \ P \in SUBSET N
  BY <1>1
<1>4. SumOf(b, P) = SumOf(b, Profit)
  <2>1. \A a \in Profit \ P : b[a] = 0
    BY <1>1
  <2>2. \A a \in Profit : b[a] \in Int
    BY <1>1
  <2> HIDE DEF P
  <2> QED  BY <1>2, <1>3, <2>1, <2>2, SumOfPart
<1>5. /\ SumOf(b, shown \ P) + SumOf(b, P) = 0
      /\ SumOf(b, shown \ P) \in Int /\ SumOf(b, P) \in Int
  <2>1. (shown \ P) \cup P = shown /\ (shown \ P) \cap P = {}
    BY <1>3
  <2>2. shown \ P \in SUBSET Ids /\ P \in SUBSET Ids
    BY <1>3
  <2> HIDE DEF P
  <2>3. /\ SumOf(b, (shown \ P) \cup P) = SumOf(b, shown \ P) + SumOf(b, P)
        /\ SumOf(b, shown \ P) \in Int /\ SumOf(b, P) \in Int
    BY <2>1, <2>2, SumOfTypes
  <2> QED  BY <2>1, <2>3
<1>6. \A a \in Ids : d[a] \in Int
  OBVIOUS
<1>7. SumOf(d, N) = SumOf(d, shown \ P)
  <2>1. \A a \in N \ (shown \ P) : d[a] = 0
    BY <1>1
  <2>2. \A a \in N : d[a] \in Int
    BY <1>1, <1>6
  <2> HIDE DEF P, N
  <2> QED  BY <1>2, <1>3, <2>1, <2>2, SumOfPart
<1>8. SumOf(b, shown \ P) = SumOf(d, shown \ P)
  <2>1. \A a \in shown \ P : b[a] \in Int /\ d[a] = b[a]
    OBVIOUS
  <2>2. IsFiniteSet(shown \ P)
    BY <1>2, FS_Subset
  <2> HIDE DEF P
  <2> QED  BY <2>1, <2>2, SumSame
<1>9. /\ SectionTotal(d, "Asset") = SumOf(d, ByType({"Asset"}))
      /\ SectionTotal(d, "Liability") = -SumOf(d, ByType({"Liability"}))
      /\ SectionTotal(d, "Equity") = -SumOf(d, ByType({"Equity"}))
  BY <1>6, StatementSums
<1>10. SumOf(d, N) =
          SumOf(d, ByType({"Asset"})) + SumOf(d, ByType({"Liability"})) + SumOf(d, ByType({"Equity"}))
  BY <1>6, ProfitSums
<1>11. /\ SumOf(d, ByType({"Asset"})) \in Int /\ SumOf(d, ByType({"Liability"})) \in Int
       /\ SumOf(d, ByType({"Equity"})) \in Int
  <2>1. \A t : ByType(t) \in SUBSET Ids
    BY DEF ByType
  <2> QED  BY <1>6, <2>1, SumInt
<1>12. \A x, y, z, n \in Int : x + y + z + n = 0 => x = -y + -z + -n
  OBVIOUS
<1>13. SumOf(d, ByType({"Asset"})) + SumOf(d, ByType({"Liability"})) + SumOf(d, ByType({"Equity"}))
       + SumOf(b, P) = 0
  BY <1>5, <1>7, <1>8, <1>10
<1>14. SumOf(d, ByType({"Asset"})) =
          -SumOf(d, ByType({"Liability"})) + -SumOf(d, ByType({"Equity"})) + -SumOf(b, P)
  BY <1>5, <1>11, <1>12, <1>13
<1> QED  BY <1>4, <1>9, <1>14

\* An accrual Trial Balance without an error shows the balances of a proven stream.
LEMMA AccrualRows ==
    ASSUME NEW ps, NEW d, NEW z, NEW f, NEW re, AccrualTrialBalance(ps, d, z, f, re).error = "none"
    PROVE  LET b == AccrualBalances(ps, d, f, re) IN
           /\ ~(f > d) /\ re \in Ids /\ Account(re).type = "Equity"
           /\ GeneralLedgerError(ps, d) = "none"
           /\ AccrualTrialBalance(ps, d, z, f, re).rows = [a \in Shown(b, z) |-> b[a]]
<1> DEFINE b == AccrualBalances(ps, d, f, re)
<1>1. /\ ~(f > d) /\ re \in Ids /\ Account(re).type = "Equity" /\ GeneralLedgerError(ps, d) = "none"
      /\ AccrualTrialBalance(ps, d, z, f, re) = TrialBalanceRows(b, z)
  BY DEF AccrualTrialBalance
<1> HIDE DEF b
<1>2. TrialBalanceRows(b, z).rows = [a \in Shown(b, z) |-> b[a]]
  <2>1. TrialBalanceRows(b, z).error = "none"
    BY <1>1
  <2> QED  BY <2>1 DEF TrialBalanceRows
<1> QED  BY <1>1, <1>2 DEF b

\* The last check of the Balance Sheet holds before it is made.
LEMMA SheetHolds ==
    ASSUME IsFiniteSet(Ids), \A a \in Ids : Account(a).type \in AccountTypes, ChartError = "none",
           NEW ps, Stream(ps), NEW d, NEW z, NEW f, NEW re, NEW tb,
           tb = AccrualTrialBalance(ps, d, z, f, re), tb.error = "none"
    PROVE  LET s == SheetBalancesOf(tb) IN
           /\ SectionTotal(s, "Asset") =
                 SectionTotal(s, "Liability") + SectionTotal(s, "Equity") + SheetIncome(tb)
           /\ SheetIncome(tb) = -SumOf(AccrualBalances(ps, d, f, re), Profit)
<1> DEFINE b == AccrualBalances(ps, d, f, re)
           shown == Shown(b, z)
           P == ProfitRows(tb)
           s == SheetBalancesOf(tb)
<1>1. GeneralLedgerError(ps, d) = "none" /\ re \in Ids /\ tb.rows = [a \in shown |-> b[a]]
  BY AccrualRows
<1>2. (\A a \in Ids : b[a] \in Int) /\ SumOf(b, shown) = 0
  BY <1>1, TrialBalances
<1>3. shown \in SUBSET Ids /\ \A a \in Ids \ shown : b[a] = 0
  BY DEF Shown
<1> HIDE DEF b, shown
<1>4. P = Profit \cap shown /\ P \subseteq shown
  BY <1>1, <1>3 DEF Profit, ByType, IsProfitAndLoss, ProfitRows
<1>5. s = [a \in Ids |-> IF a \in shown \ (Profit \cap shown) THEN b[a] ELSE 0]
  <2>1. s = [a \in Ids |-> IF a \in DOMAIN tb.rows \ P THEN tb.rows[a] ELSE 0]
    BY DEF SheetBalancesOf
  <2>2. DOMAIN tb.rows = shown /\ \A a \in shown : tb.rows[a] = b[a]
    BY <1>1
  <2> HIDE DEF P, s
  <2> QED  BY <1>4, <2>1, <2>2
<1>6. SheetIncome(tb) = -SumOf(tb.rows, P)
  BY DEF SheetIncome
<1>7. SumOf(b, P) = SumOf(tb.rows, P)
  <2>1. \A a \in P : b[a] \in Int /\ tb.rows[a] = b[a]
    BY <1>1, <1>2, <1>3, <1>4
  <2>2. IsFiniteSet(P)
    BY <1>3, <1>4, FS_Subset
  <2> HIDE DEF P
  <2> QED  BY <2>1, <2>2, SumSame
<1> HIDE DEF P, s
<1>8. /\ SectionTotal(s, "Asset") =
            SectionTotal(s, "Liability") + SectionTotal(s, "Equity") + -SumOf(b, Profit \cap shown)
      /\ SumOf(b, Profit \cap shown) = SumOf(b, Profit)
  BY <1>2, <1>3, <1>5, SheetBalances
<1> QED  BY <1>4, <1>6, <1>7, <1>8 DEF b, s

\* Every refusal of a report is one of the ledger's own, never of a last check.
LEMMA NoLastCheck ==
    ASSUME Standing, NEW q, q.kind \in Kinds
    PROVE  Evaluate(postings, q).error \notin {"UnbalancedLedger", "UnbalancedBalanceSheet"}
<1> DEFINE ps == postings
           Fine(r) == r.error \notin {"UnbalancedLedger", "UnbalancedBalanceSheet"}
<1>1. /\ IsFiniteSet(Ids) /\ Stream(ps) /\ completeness \in Completeness
      /\ \A a \in Ids : Account(a).type \in AccountTypes
  BY StandingIsFinite DEF Standing
<1>2. ChartError \in {"none", "UnclassifiedAccount", "ConflictingClassification"}
  BY DEF ChartError
<1>3. \A d : GeneralLedgerError(ps, d) \in Refusals
  BY <1>1, RefusalKinds
<1> HIDE DEF ps
<1>4. ASSUME NEW d, NEW z PROVE Fine(TrialBalance(ps, d, z))
  <2>1. GeneralLedgerError(ps, d) = "none" =>
           TrialBalanceRows(Balances(ps, d), z).error \in {"none", "BalanceOverflow"}
    BY <1>1, TrialBalances, RowsNeverUnbalanced
  <2> QED  BY <1>3, <2>1 DEF TrialBalance, Refusals
<1>5. ASSUME NEW d, NEW z, NEW f, NEW re PROVE Fine(AccrualTrialBalance(ps, d, z, f, re))
  <2>1. GeneralLedgerError(ps, d) = "none" /\ re \in Ids =>
           TrialBalanceRows(AccrualBalances(ps, d, f, re), z).error \in {"none", "BalanceOverflow"}
    BY <1>1, TrialBalances, RowsNeverUnbalanced
  <2> QED  BY <1>3, <2>1 DEF AccrualTrialBalance, Refusals
<1>6. ASSUME NEW d, NEW z, NEW f PROVE Fine(ProfitAndLoss(ps, f, d, z))
  BY <1>2, <1>3 DEF ProfitAndLoss, Refusals
<1>7. ASSUME NEW d, NEW z, NEW f, NEW re PROVE Fine(BalanceSheet(ps, d, z, f, re))
  <2> DEFINE tb == AccrualTrialBalance(ps, d, z, f, re)
  <2>1. CASE ChartError # "none"
    BY <1>2, <2>1 DEF BalanceSheet
  <2>2. CASE ChartError = "none" /\ tb.error # "none"
    BY <1>5, <2>2 DEF BalanceSheet
  <2>3. CASE ChartError = "none" /\ tb.error = "none"
    <3> DEFINE b == SheetBalancesOf(tb)
               t == <<SectionTotal(b, "Asset"), SectionTotal(b, "Liability"),
                      SectionTotal(b, "Equity")>>
               misfits == Misfits(b, SheetSections)
               rows == StatementRows(b, z, SheetSections)
    <3>1. t[1] = t[2] + t[3] + SheetIncome(tb)
      BY <1>1, <2>3, SheetHolds
    <3>2. BalanceSheet(ps, d, z, f, re) =
            SheetOf(ChartError, tb, t, SheetIncome(tb), misfits, rows)
      BY SheetIs
    <3> HIDE DEF t, misfits, rows, tb
    <3> QED  BY <2>3, <3>1, <3>2 DEF SheetOf
  <2> QED  BY <2>1, <2>2, <2>3
<1>8. CASE q.kind = "GeneralLedger"
  BY <1>3, <1>8 DEF Evaluate, Refusals, ps
<1>9. CASE q.kind = "TrialBalance"
  BY <1>4, <1>9 DEF Evaluate, ps
<1>10. CASE q.kind = "AccrualTrialBalance"
  BY <1>5, <1>10 DEF Evaluate, ps
<1>11. CASE q.kind = "ProfitAndLoss"
  BY <1>6, <1>11 DEF Evaluate, ps
<1>12. CASE q.kind = "BalanceSheet"
  BY <1>7, <1>12 DEF Evaluate, ps
<1> QED  BY <1>8, <1>9, <1>10, <1>11, <1>12 DEF Kinds

\* What rolls forward is what an accrual Trial Balance adds to Retained
\* Earnings and what the accounts of profit and loss no longer have.
LEMMA RollForward ==
    ASSUME NEW ps, Stream(ps), NEW d, NEW f \in Int, NEW re \in Ids, Account(re).type = "Equity"
    PROVE  /\ \A a \in Profit : AccrualBalances(ps, d, f, re)[a] = PeriodBalances(ps, d, f)[a]
           /\ AccrualBalances(ps, d, f, re)[re] = Balances(ps, d)[re] + Sum(ps, Rolled(ps, d, f))
<1> DEFINE E == Entries(ps, d)
           rolled == Rolled(ps, d, f)
           Own(a) == {k \in E : ps[k].account = a}
           Kept(a) == {k \in E \ rolled : ps[k].account = a}
<1>1. /\ E \in SUBSET DOMAIN ps /\ rolled \in SUBSET E
      /\ \A k \in E : k \in rolled <=> ps[k].date < f /\ ps[k].account \in Profit
  <2>1. E \in SUBSET DOMAIN ps
    BY DEF Entries
  <2>2. \A k \in E : ps[k].account \in Ids
    BY <2>1 DEF Stream
  <2>3. \A a \in Ids : IsProfitAndLoss(Account(a).type) <=> a \in Profit
    BY DEF IsProfitAndLoss, Profit, ByType
  <2>4. rolled = {k \in E : ps[k].date < f /\ IsProfitAndLoss(Account(ps[k].account).type)}
    BY DEF Rolled
  <2> HIDE DEF E, rolled
  <2> QED  BY <2>1, <2>2, <2>3, <2>4
<1>2. \A a \in Ids : AccrualBalances(ps, d, f, re)[a] =
                        Sum(ps, Kept(a) \cup (IF a = re THEN rolled ELSE {}))
  BY DEF AccrualBalances, Rolled
<1>3. re \notin Profit /\ Profit \subseteq Ids
  BY DEF Profit, ByType
<1>4. \A a \in Ids : Balances(ps, d)[a] = Sum(ps, Own(a))
  BY DEF Balances
<1>5. \A a \in Ids : PeriodBalances(ps, d, f)[a] = Sum(ps, {k \in {k \in E : ps[k].date >= f} : ps[k].account = a})
  BY DEF PeriodBalances
<1> HIDE DEF E, rolled
<1>6. ASSUME NEW a \in Profit PROVE AccrualBalances(ps, d, f, re)[a] = PeriodBalances(ps, d, f)[a]
  <2>1. \A k \in E : ps[k].date \in Int
    BY <1>1 DEF Stream
  <2>2. Kept(a) = {k \in {k \in E : ps[k].date >= f} : ps[k].account = a}
    BY <1>1, <2>1
  <2>3. Kept(a) \cup (IF a = re THEN rolled ELSE {}) = Kept(a)
    BY <1>3
  <2> HIDE DEF Kept
  <2> QED  BY <1>2, <1>3, <1>5, <2>2, <2>3
<1>7. AccrualBalances(ps, d, f, re)[re] = Balances(ps, d)[re] + Sum(ps, rolled)
  <2>1. Kept(re) = Own(re) /\ Own(re) \cap rolled = {} /\ Own(re) \in SUBSET DOMAIN ps
        /\ rolled \in SUBSET DOMAIN ps
    BY <1>1, <1>3
  <2> HIDE DEF Own, Kept
  <2>2. SumOf(Amounts(ps), Own(re) \cup rolled) = SumOf(Amounts(ps), Own(re)) + SumOf(Amounts(ps), rolled)
    <3>1. /\ IsFiniteSet(Own(re)) /\ IsFiniteSet(rolled)
          /\ \A k \in Own(re) \cup rolled : Amounts(ps)[k] \in Int
      BY <2>1, StreamSums
    <3> QED  BY <2>1, <3>1, SumUnion
  <2>3. /\ Sum(ps, Own(re) \cup rolled) = SumOf(Amounts(ps), Own(re) \cup rolled)
        /\ Sum(ps, Own(re)) = SumOf(Amounts(ps), Own(re))
        /\ Sum(ps, rolled) = SumOf(Amounts(ps), rolled)
    <3>1. Own(re) \cup rolled \in SUBSET DOMAIN ps
      BY <2>1
    <3> QED  BY <2>1, <3>1, StreamSums
  <2>4. AccrualBalances(ps, d, f, re)[re] = Sum(ps, Kept(re) \cup rolled)
    BY <1>2
  <2> QED  BY <1>4, <2>1, <2>2, <2>3, <2>4
<1> QED  BY <1>6, <1>7 DEF rolled

\* The net income of a Profit and Loss, in debit-positive balances.
LEMMA NetIncome ==
    ASSUME IsFiniteSet(Ids), ChartError = "none", NEW ps, Stream(ps), NEW d, NEW f, NEW z,
           ProfitAndLoss(ps, f, d, z).error = "none"
    PROVE  /\ ProfitAndLoss(ps, f, d, z).amounts.netIncome = -SumOf(PeriodBalances(ps, d, f), Profit)
           /\ \A a \in Ids : PeriodBalances(ps, d, f)[a] \in Int
<1> DEFINE b == PeriodBalances(ps, d, f)
           i == SectionTotal(b, "Income")
           c == SectionTotal(b, "CostOfGoodsSold")
           e == SectionTotal(b, "Expense")
           oi == SectionTotal(b, "OtherIncome")
           oe == SectionTotal(b, "OtherExpense")
<1>1. ProfitAndLoss(ps, f, d, z).amounts.netIncome = i - c - e + oi - oe
  BY DEF ProfitAndLoss, PeriodBalances
<1>2. ASSUME NEW a \in Ids PROVE b[a] \in Int
  <2> DEFINE S == {k \in {k \in Entries(ps, d) : ps[k].date >= f} : ps[k].account = a}
  <2>1. S \in SUBSET DOMAIN ps /\ b[a] = Sum(ps, S)
    BY DEF Entries, PeriodBalances
  <2> HIDE DEF S
  <2> QED  BY <2>1, StreamSums
<1> DEFINE I == SumOf(b, ByType({"Income"}))
           E == SumOf(b, ByType({"Expense"}))
           C == SumOf(b, ByType({"CostOfGoodsSold"}))
<1> HIDE DEF b
<1>3. i + oi = -I /\ e + oe = E /\ c = C
  BY <1>2, StatementSums
<1>4. i \in Int /\ c \in Int /\ e \in Int /\ oi \in Int /\ oe \in Int
  BY <1>2, StatementSums
<1>5. I \in Int /\ E \in Int /\ C \in Int
  <2>1. \A t : ByType(t) \in SUBSET Ids
    BY DEF ByType
  <2> QED  BY <1>2, <2>1, SumInt
<1>6. SumOf(b, Profit) = I + E + C
  BY <1>2, ProfitSums
<1> HIDE DEF i, c, e, oi, oe, I, E, C
<1>7. i - c - e + oi - oe = -(I + E + C)
  BY <1>3, <1>4, <1>5
<1> QED  BY <1>1, <1>2, <1>6, <1>7 DEF i, c, e, oi, oe, b

\* What a Balance Sheet says of the year, the Profit and Loss of the year says too.
LEMMA StatementsHold ==
    ASSUME Standing, NEW d, NEW f, f \in Int, NEW z, NEW re,
           BalanceSheet(postings, d, z, f, re).error = "none"
    PROVE  LET pl == ProfitAndLoss(postings, f, d, z) IN
           /\ pl.error \in {"none", "AmountOverflow"}
           /\ pl.error = "none" =>
                 pl.amounts.netIncome =
                    BalanceSheet(postings, d, z, f, re).amounts.currentYearNetIncome
           /\ AccrualBalances(postings, d, f, re)[re] =
                 Balances(postings, d)[re] + Sum(postings, Rolled(postings, d, f))
<1> DEFINE ps == postings
           tb == AccrualTrialBalance(ps, d, z, f, re)
           pl == ProfitAndLoss(ps, f, d, z)
           b == AccrualBalances(ps, d, f, re)
<1>1. /\ IsFiniteSet(Ids) /\ Stream(ps)
      /\ \A a \in Ids : Account(a).type \in AccountTypes
  BY StandingIsFinite
<1> HIDE DEF ps
<1>2. ChartError = "none" /\ tb.error = "none"
      /\ BalanceSheet(ps, d, z, f, re).amounts.currentYearNetIncome = SheetIncome(tb)
  <2> DEFINE b0 == SheetBalancesOf(tb)
             t == <<SectionTotal(b0, "Asset"), SectionTotal(b0, "Liability"),
                    SectionTotal(b0, "Equity")>>
             misfits == Misfits(b0, SheetSections)
             rows == StatementRows(b0, z, SheetSections)
             bs == BalanceSheet(ps, d, z, f, re)
  <2>1. bs = SheetOf(ChartError, tb, t, SheetIncome(tb), misfits, rows)
    BY SheetIs
  <2>2. bs.error = "none"
    BY DEF ps
  <2>3. SheetAmounts(t, SheetIncome(tb)).currentYearNetIncome = SheetIncome(tb)
    BY DEF SheetAmounts
  <2> HIDE DEF b0, t, misfits, rows, bs, tb
  <2> QED  BY <2>1, <2>2, <2>3 DEF SheetOf, bs, tb
<1>3. SheetIncome(tb) = -SumOf(b, Profit)
  BY <1>1, <1>2, SheetHolds
<1>4. ~(f > d) /\ re \in Ids /\ Account(re).type = "Equity" /\ GeneralLedgerError(ps, d) = "none"
  <2>1. tb.error = "none"
    BY <1>2
  <2>2. tb.error = "none" => ~(f > d) /\ re \in Ids /\ Account(re).type = "Equity" /\ GeneralLedgerError(ps, d) = "none"
    BY DEF AccrualTrialBalance
  <2> QED  BY <2>1, <2>2
<1>5. pl.error \in {"none", "AmountOverflow"}
  BY <1>2, <1>4 DEF ProfitAndLoss
<1>6. ASSUME pl.error = "none" PROVE pl.amounts.netIncome = -SumOf(b, Profit)
  <2> DEFINE pb == PeriodBalances(ps, d, f)
  <2>1. pl.amounts.netIncome = -SumOf(pb, Profit) /\ \A a \in Ids : pb[a] \in Int
    BY <1>1, <1>2, <1>6, NetIncome
  <2>2. \A a \in Profit : b[a] = pb[a]
    BY <1>1, <1>4, RollForward
  <2>3. Profit \subseteq Ids /\ IsFiniteSet(Profit)
    <3>1. Profit \subseteq Ids
      BY DEF Profit, ByType
    <3> QED  BY <1>1, <3>1, FS_Subset
  <2> HIDE DEF pl, pb, b
  <2>4. \A a \in Profit : pb[a] \in Int /\ b[a] = pb[a]
    BY <2>1, <2>2, <2>3
  <2>5. SumOf(pb, Profit) = SumOf(b, Profit)
    BY <2>3, <2>4, SumSame
  <2> QED  BY <2>1, <2>5
<1>7. b[re] = Balances(ps, d)[re] + Sum(ps, Rolled(ps, d, f))
  BY <1>1, <1>4, RollForward
<1> QED  BY <1>2, <1>3, <1>5, <1>6, <1>7 DEF ps

\* The posting stream without its rows after d.
UpTo(ps, d) == [k \in {k \in DOMAIN ps : ps[k].date <= d} |-> ps[k]]

\* It has the same entries and the same sums of them.
LEMMA PastStream ==
    ASSUME NEW ps, Stream(ps), NEW d
    PROVE  LET qs == UpTo(ps, d) IN
           /\ Stream(qs) /\ Entries(qs, d) = Entries(ps, d)
           /\ DOMAIN qs = {k \in DOMAIN ps : ps[k].date <= d}
           /\ \A k \in DOMAIN qs : qs[k] = ps[k]
           /\ Entries(ps, d) \subseteq DOMAIN qs
           /\ \A S \in SUBSET DOMAIN qs : Sum(qs, S) = Sum(ps, S)
<1> DEFINE qs == UpTo(ps, d)
<1>1. DOMAIN qs = {k \in DOMAIN ps : ps[k].date <= d} /\ \A k \in DOMAIN qs : qs[k] = ps[k]
  BY DEF UpTo
<1> HIDE DEF qs
<1>2. Entries(qs, d) = Entries(ps, d) /\ Entries(ps, d) \subseteq DOMAIN qs
  BY <1>1 DEF Entries
<1>3. Stream(qs)
  <2>1. IsFiniteSet(DOMAIN qs)
    <3>1. DOMAIN qs \in SUBSET DOMAIN ps
      BY <1>1
    <3> QED  BY <3>1, FS_Subset DEF Stream
  <2> QED  BY <1>1, <2>1 DEF Stream
<1>4. ASSUME NEW S \in SUBSET DOMAIN qs PROVE Sum(qs, S) = Sum(ps, S)
  <2>1. S \in SUBSET DOMAIN ps
    BY <1>1
  <2>2. /\ IsFiniteSet(S) /\ Sum(ps, S) = SumOf(Amounts(ps), S)
        /\ \A k \in S : Amounts(ps)[k] \in Int
    BY <2>1, StreamSums
  <2>3. Sum(qs, S) = SumOf(Amounts(qs), S)
    BY <1>3, StreamSums
  <2>4. \A k \in S : Amounts(qs)[k] = Amounts(ps)[k]
    BY <1>1, <2>1 DEF Amounts
  <2>5. SumOf(Amounts(ps), S) = SumOf(Amounts(qs), S)
    BY <2>2, <2>4, SumSame
  <2> QED  BY <2>2, <2>3, <2>5
<1> QED  BY <1>1, <1>2, <1>3, <1>4 DEF qs

\* The General Ledger and the balances are those of the whole stream.
LEMMA PastLedger ==
    ASSUME NEW ps, Stream(ps), NEW d
    PROVE  LET qs == UpTo(ps, d) IN
           /\ GeneralLedgerError(qs, d) = GeneralLedgerError(ps, d)
           /\ Balances(qs, d) = Balances(ps, d)
           /\ \A f : PeriodBalances(qs, d, f) = PeriodBalances(ps, d, f)
           /\ \A f, re : AccrualBalances(qs, d, f, re) = AccrualBalances(ps, d, f, re)
           /\ {qs[k].id : k \in Entries(qs, d)} = {ps[k].id : k \in Entries(ps, d)}
<1> DEFINE qs == UpTo(ps, d)
           E == Entries(ps, d)
<1>1. /\ Entries(qs, d) = E /\ DOMAIN qs = {k \in DOMAIN ps : ps[k].date <= d}
      /\ E \subseteq DOMAIN qs
      /\ \A k \in DOMAIN qs : qs[k] = ps[k]
      /\ \A S \in SUBSET DOMAIN qs : Sum(qs, S) = Sum(ps, S)
  BY PastStream
<1> HIDE DEF qs, E
<1>2. EntriesError(qs, d) = EntriesError(ps, d)
  BY <1>1 DEF EntriesError
<1>3. BalancedByTransaction(qs, E) <=> BalancedByTransaction(ps, E)
  <2>1. {qs[k].txn : k \in E} = {ps[k].txn : k \in E}
    BY <1>1
  <2>2. ASSUME NEW t PROVE Sum(qs, {k \in E : qs[k].txn = t}) = Sum(ps, {k \in E : ps[k].txn = t})
    <3>1. {k \in E : qs[k].txn = t} = {k \in E : ps[k].txn = t}
          /\ {k \in E : ps[k].txn = t} \in SUBSET DOMAIN qs
      BY <1>1
    <3> QED  BY <1>1, <3>1
  <2> QED  BY <2>1, <2>2 DEF BalancedByTransaction
<1>4. GeneralLedgerError(qs, d) = GeneralLedgerError(ps, d)
  BY <1>1, <1>2, <1>3 DEF GeneralLedgerError, E
<1>5. Balances(qs, d) = Balances(ps, d)
  <2>1. ASSUME NEW a PROVE Sum(qs, {k \in E : qs[k].account = a}) = Sum(ps, {k \in E : ps[k].account = a})
    <3>1. {k \in E : qs[k].account = a} = {k \in E : ps[k].account = a}
          /\ {k \in E : ps[k].account = a} \in SUBSET DOMAIN qs
      BY <1>1
    <3> QED  BY <1>1, <3>1
  <2> QED  BY <1>1, <2>1 DEF Balances, E
<1>6. ASSUME NEW f PROVE PeriodBalances(qs, d, f) = PeriodBalances(ps, d, f)
  <2> DEFINE Of(rs, a) == {k \in {k \in E : rs[k].date >= f} : rs[k].account = a}
  <2>1. ASSUME NEW a PROVE Sum(qs, Of(qs, a)) = Sum(ps, Of(ps, a))
    <3>1. Of(qs, a) = Of(ps, a) /\ Of(ps, a) \in SUBSET DOMAIN qs
      BY <1>1
    <3> HIDE DEF Of
    <3> QED  BY <1>1, <3>1
  <2>2. /\ PeriodBalances(qs, d, f) = [a \in Ids |-> Sum(qs, Of(qs, a))]
        /\ PeriodBalances(ps, d, f) = [a \in Ids |-> Sum(ps, Of(ps, a))]
    BY <1>1 DEF PeriodBalances, E
  <2> HIDE DEF Of
  <2> QED  BY <2>1, <2>2
<1>7. ASSUME NEW f, NEW re PROVE AccrualBalances(qs, d, f, re) = AccrualBalances(ps, d, f, re)
  <2> DEFINE In(rs) == {k \in E : rs[k].date < f /\ IsProfitAndLoss(Account(rs[k].account).type)}
             Of(rs, a) == {k \in E \ In(rs) : rs[k].account = a} \cup (IF a = re THEN In(rs) ELSE {})
  <2>1. ASSUME NEW a PROVE Sum(qs, Of(qs, a)) = Sum(ps, Of(ps, a))
    <3>1. In(qs) = In(ps) /\ In(ps) \subseteq E
      BY <1>1
    <3> HIDE DEF In
    <3>2. Of(qs, a) = Of(ps, a) /\ Of(ps, a) \in SUBSET DOMAIN qs
      BY <1>1, <3>1
    <3> HIDE DEF Of
    <3> QED  BY <1>1, <3>2
  <2>2. /\ AccrualBalances(qs, d, f, re) = [a \in Ids |-> Sum(qs, Of(qs, a))]
        /\ AccrualBalances(ps, d, f, re) = [a \in Ids |-> Sum(ps, Of(ps, a))]
    BY <1>1 DEF AccrualBalances, E
  <2> HIDE DEF Of
  <2> QED  BY <2>1, <2>2
<1>8. {qs[k].id : k \in Entries(qs, d)} = {ps[k].id : k \in Entries(ps, d)}
  BY <1>1 DEF E
<1> QED  BY <1>4, <1>5, <1>6, <1>7, <1>8 DEF qs

\* Every report is the same without the rows after its cutoff.
LEMMA PastReports ==
    ASSUME NEW ps, Stream(ps), NEW q, q.kind \in Kinds
    PROVE  Evaluate(UpTo(ps, q.asOf), q) = Evaluate(ps, q)
<1> DEFINE qs == UpTo(ps, q.asOf)
           d == q.asOf
<1>1. /\ GeneralLedgerError(qs, d) = GeneralLedgerError(ps, d)
      /\ Balances(qs, d) = Balances(ps, d)
      /\ \A f : PeriodBalances(qs, d, f) = PeriodBalances(ps, d, f)
      /\ \A f, re : AccrualBalances(qs, d, f, re) = AccrualBalances(ps, d, f, re)
      /\ {qs[k].id : k \in Entries(qs, d)} = {ps[k].id : k \in Entries(ps, d)}
  BY PastLedger
<1> HIDE DEF qs, d
<1>2. \A z : TrialBalance(qs, d, z) = TrialBalance(ps, d, z)
  BY <1>1 DEF TrialBalance
<1>3. \A z, f, re : AccrualTrialBalance(qs, d, z, f, re) = AccrualTrialBalance(ps, d, z, f, re)
  BY <1>1 DEF AccrualTrialBalance
<1>4. ASSUME NEW z, NEW f PROVE ProfitAndLoss(qs, f, d, z) = ProfitAndLoss(ps, f, d, z)
  <2> DEFINE b(rs) == PeriodBalances(rs, d, f)
  <2>1. b(qs) = b(ps) /\ GeneralLedgerError(qs, d) = GeneralLedgerError(ps, d)
    BY <1>1
  <2> HIDE DEF b
  <2>2. \A rs : ProfitAndLoss(rs, f, d, z) =
                   ProfitOf(f, d, ChartError, GeneralLedgerError(rs, d),
                            <<SectionTotal(b(rs), "Income"), SectionTotal(b(rs), "CostOfGoodsSold"),
                              SectionTotal(b(rs), "Expense"), SectionTotal(b(rs), "OtherIncome"),
                              SectionTotal(b(rs), "OtherExpense")>>,
                            Misfits(b(rs), ProfitSections), StatementRows(b(rs), z, ProfitSections))
    BY ProfitIs DEF b
  <2> QED  BY <2>1, <2>2
<1>5. ASSUME NEW z, NEW f, NEW re PROVE BalanceSheet(qs, d, z, f, re) = BalanceSheet(ps, d, z, f, re)
  <2>1. AccrualTrialBalance(qs, d, z, f, re) = AccrualTrialBalance(ps, d, z, f, re)
    BY <1>3
  <2> QED  BY <2>1 DEF BalanceSheet
<1>6. CASE q.kind = "GeneralLedger"
  BY <1>1, <1>6 DEF Evaluate, d, qs
<1>7. CASE q.kind = "TrialBalance"
  BY <1>2, <1>7 DEF Evaluate, d, qs
<1>8. CASE q.kind = "AccrualTrialBalance"
  BY <1>3, <1>8 DEF Evaluate, d, qs
<1>9. CASE q.kind = "ProfitAndLoss"
  BY <1>4, <1>9 DEF Evaluate, d, qs
<1>10. CASE q.kind = "BalanceSheet"
  BY <1>5, <1>10 DEF Evaluate, d, qs
<1> QED  BY <1>6, <1>7, <1>8, <1>9, <1>10 DEF Kinds, qs

\* The reports of a ledger stay what they are, as long as its chart and its
\* completeness do.
LEMMA EvaluatesAlike ==
    ASSUME IsFiniteSet(Ids), chart' = chart, completeness' = completeness
    PROVE  \A ps, q : Evaluate(ps, q)' = Evaluate(ps, q)
<1>1. Ids' = Ids /\ \A a : Account(a)' = Account(a)
  BY DEF Ids, Account
<1>2. ChartError' = ChartError
  BY DEF ChartError
<1>3. /\ \A a : Section(a)' = Section(a)
      /\ \A a, n : Presented(a, n)' = Presented(a, n)
  BY <1>1 DEF Section, Presented
<1>4. /\ \A b, z : Shown(b, z)' = Shown(b, z)
      /\ \A ps, d : GeneralLedgerError(ps, d)' = GeneralLedgerError(ps, d)
      /\ \A ps, d : Balances(ps, d)' = Balances(ps, d)
  BY <1>1 DEF Shown, GeneralLedgerError, EntriesError, Balances
<1>5. \A ps, d, f, re : AccrualBalances(ps, d, f, re)' = AccrualBalances(ps, d, f, re)
  <2>1. (\A ps, d, f, re : AccrualBalances(ps, d, f, re) = AccrualOf(ps, d, Rolled(ps, d, f), Ids, re))'
    BY AccrualIs, PTL
  <2>2. \A ps, d, f : Rolled(ps, d, f)' = Rolled(ps, d, f)
    BY <1>1 DEF Rolled
  <2> QED  BY <1>1, <2>1, <2>2, AccrualIs
<1>13. \A ps, d, f : PeriodBalances(ps, d, f)' = PeriodBalances(ps, d, f)
  BY <1>1 DEF PeriodBalances
<1>6. \A b, z : TrialBalanceRows(b, z)' = TrialBalanceRows(b, z)
  <2>1. (\A b, z : TrialBalanceRows(b, z) = RowsOf(b, Shown(b, z)))'
    BY RowsAre, PTL
  <2> QED  BY <1>4, <2>1, RowsAre
<1>7. \A ps, d, z : TrialBalance(ps, d, z)' = TrialBalance(ps, d, z)
  BY <1>4, <1>6 DEF TrialBalance
<1>8. \A ps, d, z, f, re : AccrualTrialBalance(ps, d, z, f, re)' = AccrualTrialBalance(ps, d, z, f, re)
  BY <1>1, <1>4, <1>5, <1>6 DEF AccrualTrialBalance
<1>9. \A b, s : SectionTotal(b, s)' = SectionTotal(b, s)
  <2>1. (IsFiniteSet(Ids) => \A b, s :
           SectionTotal(b, s) = SumOf([a \in InSection(s) |-> Presented(a, b[a])], InSection(s)))'
    BY SectionIs, PTL
  <2>2. \A s : InSection(s)' = InSection(s)
    BY <1>1, <1>3 DEF InSection
  <2>3. \A b, s : [a \in InSection(s) |-> Presented(a, b[a])]' = [a \in InSection(s) |-> Presented(a, b[a])]
    BY <2>2, <1>3
  <2>4. \A b, s : SectionTotal(b, s)' =
                     SumOf([a \in InSection(s) |-> Presented(a, b[a])]', InSection(s)')
    BY <1>1, <2>1
  <2>5. \A b, s : SectionTotal(b, s) =
                     SumOf([a \in InSection(s) |-> Presented(a, b[a])], InSection(s))
    BY SectionIs
  <2> QED  BY <2>2, <2>3, <2>4, <2>5
<1>10. /\ \A b, s : Misfits(b, s)' = Misfits(b, s)
       /\ \A b, z, s : StatementRows(b, z, s)' = StatementRows(b, z, s)
  BY <1>1, <1>3, <1>4 DEF Misfits, StatementRows
<1>11. \A ps, f, d, z : ProfitAndLoss(ps, f, d, z)' = ProfitAndLoss(ps, f, d, z)
  <2>1. (\A ps, f, d, z :
           ProfitAndLoss(ps, f, d, z) =
              LET b == PeriodBalances(ps, d, f) IN
              ProfitOf(f, d, ChartError, GeneralLedgerError(ps, d),
                       <<SectionTotal(b, "Income"), SectionTotal(b, "CostOfGoodsSold"),
                         SectionTotal(b, "Expense"), SectionTotal(b, "OtherIncome"),
                         SectionTotal(b, "OtherExpense")>>,
                       Misfits(b, ProfitSections), StatementRows(b, z, ProfitSections)))'
    BY ProfitIs, PTL
  <2> QED  BY <1>2, <1>4, <1>13, <1>9, <1>10, <2>1, ProfitIs
<1>12. \A ps, d, z, f, re : BalanceSheet(ps, d, z, f, re)' = BalanceSheet(ps, d, z, f, re)
  <2>1. (\A ps, d, z, f, re :
           BalanceSheet(ps, d, z, f, re) =
              LET tb == AccrualTrialBalance(ps, d, z, f, re)
                  b == SheetBalancesOf(tb) IN
              SheetOf(ChartError, tb,
                      <<SectionTotal(b, "Asset"), SectionTotal(b, "Liability"),
                        SectionTotal(b, "Equity")>>,
                      SheetIncome(tb),
                      Misfits(b, SheetSections), StatementRows(b, z, SheetSections)))'
    BY SheetIs, PTL
  <2>2. \A tb : SheetBalancesOf(tb)' = SheetBalancesOf(tb) /\ SheetIncome(tb)' = SheetIncome(tb)
    BY <1>1 DEF SheetBalancesOf, SheetIncome, ProfitRows
  <2> QED  BY <1>2, <1>8, <1>9, <1>10, <2>1, <2>2, SheetIs
<1> QED  BY <1>4, <1>7, <1>8, <1>11, <1>12 DEF Evaluate

--------------------------------------------------------------------------------
(* The inductive invariant *)

\* A request, as one of the five actions makes it.
IsRequest(q) ==
    q.kind \in Kinds /\ q.asOf \in Dates /\ (q.kind = "BalanceSheet" => q.from \in Dates)

\* Every step that is not Ledger::new answers a request.
LEMMA EveryAsk ==
    ASSUME Next PROVE New \/ \E q : IsRequest(q) /\ Ask(q)
<1>1. CASE AskGeneralLedger
  BY <1>1 DEF AskGeneralLedger, IsRequest, Kinds
<1>2. CASE AskTrialBalance
  BY <1>2 DEF AskTrialBalance, IsRequest, Kinds
<1>3. CASE AskAccrualTrialBalance
  BY <1>3 DEF AskAccrualTrialBalance, IsRequest, Kinds
<1>4. CASE AskProfitAndLoss
  BY <1>4 DEF AskProfitAndLoss, IsRequest, Kinds
<1>5. CASE AskBalanceSheet
  BY <1>5 DEF AskBalanceSheet, IsRequest, Kinds
<1> QED  BY <1>1, <1>2, <1>3, <1>4, <1>5 DEF Next

\* A report is of one of the kinds and is what its request evaluates to.
Answered(r) ==
    /\ IsRequest(r.request)
    /\ r = [kind |-> r.request.kind, request |-> r.request,
            result |-> Evaluate(postings, r.request)]

\* The inductive invariant: the ledger is as it was handed over, it was built only
\* of a stream without a faulty posting, and a report is the answer to its request.
Evaluated ==
    /\ chart \in Charts /\ postings \in PostingStreams /\ completeness \in Completeness
    /\ ledger = "built" => \A k \in DOMAIN postings : PostingError(k) = "none"
    /\ report # NoReport => ledger = "built" /\ Answered(report)

\* The first of a nonempty set of natural numbers is one of them.
LEMMA MinIsMember ==
    ASSUME NEW S, S \subseteq Nat, S # {} PROVE Min(S) \in S
<1>1. \E x \in S : \A y \in S : ~(<<y, x>> \in OpToRel(<, Nat))
  BY NatLessThanWellFounded, WFMin
<1>2. \E x \in S : \A y \in S : x <= y
  <2>1. PICK x \in S : \A y \in S : ~(<<y, x>> \in OpToRel(<, Nat))
    BY <1>1
  <2>2. \A y \in S : ~(y < x)
    BY <2>1 DEF OpToRel
  <2> QED  BY <2>2
<1> QED  BY <1>2 DEF Min

\* Ledger::new refuses a stream with a faulty posting, and its answer is never
\* the state of a ledger that was built.
LEMMA NewRefuses ==
    ASSUME postings \in PostingStreams
    PROVE  /\ NewError = "none" => \A k \in DOMAIN postings : PostingError(k) = "none"
           /\ NewError # "built"
<1> DEFINE faulty == {k \in DOMAIN postings : PostingError(k) # "none"}
<1>1. faulty \subseteq Nat
  BY LedgerAssumption
<1>2. \A k : PostingError(k) # "built"
  BY DEF PostingError
<1>3. ASSUME faulty # {} PROVE PostingError(Min(faulty)) # "none"
  BY <1>1, <1>3, MinIsMember
<1> QED  BY <1>2, <1>3 DEF NewError

\* A stream without a faulty posting has accounts for all and repeats nothing.
LEMMA SoundPostings ==
    ASSUME postings \in PostingStreams, \A k \in DOMAIN postings : PostingError(k) = "none"
    PROVE  /\ \A k \in DOMAIN postings : postings[k].account \in Ids
           /\ \A j, k \in DOMAIN postings :
                  j # k => postings[j].id # postings[k].id /\ postings[j].row # postings[k].row
<1>1. \A k \in DOMAIN postings : postings[k].account \in Ids
  BY DEF PostingError
<1>2. \A k \in DOMAIN postings : \A j \in 1..(k - 1) :
          postings[j].id # postings[k].id /\ postings[j].row # postings[k].row
  BY DEF PostingError
<1>3. ASSUME NEW j \in DOMAIN postings, NEW k \in DOMAIN postings, j # k
      PROVE  j \in 1..(k - 1) \/ k \in 1..(j - 1)
  BY <1>3, LedgerAssumption
<1> QED  BY <1>1, <1>2, <1>3

\* The lemmas above apply to a ledger that was built.
LEMMA EvaluatedStands ==
    ASSUME Evaluated, ledger = "built" PROVE Standing
  BY SoundPostings DEF Evaluated, Standing

\* The invariant holds in every reachable state.
LEMMA EvaluatedHolds == Spec => []Evaluated
<1>1. Init => Evaluated
  BY DEF Init, Evaluated
<1>2. Evaluated /\ [Next]_vars => Evaluated'
  <2> SUFFICES ASSUME Evaluated, [Next]_vars PROVE Evaluated'
    OBVIOUS
  <2>1. CASE New
    <3>1. /\ ledger = "unbuilt" /\ report = NoReport
          /\ report' = report /\ chart' = chart /\ postings' = postings
          /\ completeness' = completeness
          /\ ledger' = IF NewError = "none" THEN "built" ELSE NewError
      BY <2>1 DEF New, Evaluated
    <3>2. ledger' = "built" => \A k \in DOMAIN postings : PostingError(k) = "none"
      BY <3>1, NewRefuses DEF Evaluated
    <3>3. \A k : PostingError(k)' = PostingError(k)
      BY <3>1 DEF PostingError, Ids
    <3> QED  BY <3>1, <3>2, <3>3 DEF Evaluated, NoReport
  <2>2. ASSUME chart' = chart, postings' = postings, completeness' = completeness,
               ledger' = ledger
        PROVE  /\ (chart \in Charts /\ postings \in PostingStreams /\ completeness \in Completeness
                   /\ (ledger = "built" => \A k \in DOMAIN postings : PostingError(k) = "none"))'
               /\ ledger = "built" => \A q : Evaluate(postings, q)' = Evaluate(postings, q)
    <3>1. \A k : PostingError(k)' = PostingError(k)
      BY <2>2 DEF PostingError, Ids
    <3>2. ASSUME ledger = "built" PROVE \A ps, q : Evaluate(ps, q)' = Evaluate(ps, q)
      <4>1. IsFiniteSet(Ids)
        BY <3>2, EvaluatedStands, StandingIsFinite
      <4> QED  BY <2>2, <4>1, EvaluatesAlike
    <3> QED  BY <2>2, <3>1, <3>2 DEF Evaluated
  <2>3. ASSUME NEW q, IsRequest(q), Ask(q) PROVE Evaluated'
    <3>1. /\ report' = [kind |-> q.kind, request |-> q, result |-> Evaluate(postings, q)]
          /\ ledger = "built"
          /\ chart' = chart /\ postings' = postings /\ completeness' = completeness
          /\ ledger' = ledger
      BY <2>3 DEF Ask
    <3>2. /\ report'.request = q
          /\ report' = [kind |-> q.kind, request |-> q, result |-> Evaluate(postings, q)']
      BY <2>2, <3>1
    <3>3. Answered(report)'
      BY <2>3, <3>2 DEF Answered, IsRequest
    <3> QED  BY <2>2, <3>1, <3>3 DEF Evaluated
  <2>4. CASE UNCHANGED vars
    <3>1. /\ chart' = chart /\ postings' = postings /\ completeness' = completeness
          /\ ledger' = ledger /\ report' = report
      BY <2>4 DEF vars
    <3>2. ASSUME report # NoReport PROVE Answered(report)'
      <4>1. ledger = "built" /\ Answered(report)
        BY <3>2 DEF Evaluated
      <4> QED  BY <2>2, <3>1, <4>1 DEF Answered, IsRequest
    <3> QED  BY <2>2, <3>1, <3>2 DEF Evaluated, NoReport
  <2> QED  BY <2>1, <2>3, <2>4, EveryAsk
<1> QED  BY <1>1, <1>2, PTL DEF Spec

\* What a report is, in a state of the invariant.
LEMMA ReportIs ==
    ASSUME Evaluated, report.kind # "none"
    PROVE  /\ Standing /\ IsRequest(report.request)
           /\ report.kind = report.request.kind
           /\ report.result = Evaluate(postings, report.request)
<1>1. report # NoReport
  BY DEF NoReport
<1>2. /\ ledger = "built"
      /\ IsRequest(report.request)
      /\ report = [kind |-> report.request.kind, request |-> report.request,
                   result |-> Evaluate(postings, report.request)]
  BY <1>1 DEF Evaluated, Answered
<1>3. Standing
  BY <1>2, EvaluatedStands
<1> QED  BY <1>2, <1>3

--------------------------------------------------------------------------------
(* The theorems *)

\* A ledger that could be built has an account for every posting and no posting
\* or source row twice, and only such a ledger gives a report.
THEOREM BuiltIsSound == Spec => []TypeOK
<1>1. Evaluated => TypeOK
  <2> SUFFICES ASSUME Evaluated PROVE TypeOK
    OBVIOUS
  <2>1. ledger = "built" => \A k \in DOMAIN postings : PostingError(k) = "none"
    BY DEF Evaluated
  <2>2. report.kind # "none" => ledger = "built"
    BY DEF Evaluated, NoReport
  <2> QED  BY <2>1, <2>2, SoundPostings DEF TypeOK, Evaluated
<1> QED  BY <1>1, EvaluatedHolds, PTL

\* Once every transaction of the General Ledger balances, no roll-forward and no
\* grouping unbalances a report: the last checks of Trial Balance and Balance Sheet
\* never fire, for any chart, stream, width and request.
THEOREM LastChecksAreIdle == Spec => []LastChecksNeverFire
<1>1. Evaluated => LastChecksNeverFire
  <2> SUFFICES ASSUME Evaluated, report.kind # "none"
               PROVE  report.result.error \notin {"UnbalancedLedger", "UnbalancedBalanceSheet"}
    BY DEF LastChecksNeverFire
  <2> QED  BY ReportIs, NoLastCheck DEF IsRequest
<1> QED  BY <1>1, EvaluatedHolds, PTL

\* A built ledger is sound and no report of it ends in the last checks.
THEOREM BuiltLedgerStands == Spec => []BuiltLedgerHolds
<1>1. TypeOK /\ LastChecksNeverFire => BuiltLedgerHolds
  BY DEF BuiltLedgerHolds
<1> QED  BY <1>1, BuiltIsSound, LastChecksAreIdle, PTL

\* The net income of a Balance Sheet is that of the Profit and Loss of its year, and
\* Retained Earnings has what was posted to it and all earlier income.
THEOREM StatementsReconcile == Spec => []StatementsAgree
<1>1. Evaluated => StatementsAgree
  <2> SUFFICES ASSUME Evaluated, Succeeded({"BalanceSheet"}) PROVE StatementsAgree
    BY DEF StatementsAgree
  <2> DEFINE q == report.request
             pl == ProfitAndLoss(postings, q.from, q.asOf, q.zeros)
             bs == BalanceSheet(postings, q.asOf, q.zeros, q.from, q.re)
  <2>1. /\ Standing /\ q.kind = "BalanceSheet" /\ q.from \in Dates
        /\ report.result = Evaluate(postings, q) /\ report.result.error = "none"
    BY ReportIs DEF Succeeded, IsRequest
  <2>2. q.from \in Int
    BY <2>1, LedgerAssumption
  <2>3. report.result = bs
    BY <2>1 DEF Evaluate
  <2>4. /\ pl.error \in {"none", "AmountOverflow"}
        /\ pl.error = "none" =>
              pl.amounts.netIncome = bs.amounts.currentYearNetIncome
        /\ AccrualBalances(postings, q.asOf, q.from, q.re)[q.re] =
              Balances(postings, q.asOf)[q.re] + Sum(postings, Rolled(postings, q.asOf, q.from))
    <3> DEFINE d == q.asOf
               f == q.from
               z == q.zeros
               re == q.re
    <3>1. Standing /\ f \in Int /\ BalanceSheet(postings, d, z, f, re).error = "none"
      BY <2>1, <2>2, <2>3
    <3> HIDE DEF q, d, f, z, re
    <3>2. LET pl0 == ProfitAndLoss(postings, f, d, z) IN
          /\ pl0.error \in {"none", "AmountOverflow"}
          /\ pl0.error = "none" =>
                pl0.amounts.netIncome = BalanceSheet(postings, d, z, f, re).amounts.currentYearNetIncome
          /\ AccrualBalances(postings, d, f, re)[re] =
                Balances(postings, d)[re] + Sum(postings, Rolled(postings, d, f))
      BY ONLY <3>1, StatementsHold
    <3> QED  BY <3>2 DEF d, f, z, re
  <2>5. Rolled(postings, q.asOf, q.from) =
          {k \in {k \in Entries(postings, q.asOf) : postings[k].date < q.from} :
               IsProfitAndLoss(Account(postings[k].account).type)}
    BY DEF Rolled
  <2> HIDE DEF pl, bs
  <2> QED  BY <2>3, <2>4, <2>5 DEF StatementsAgree, pl, q
<1> QED  BY <1>1, EvaluatedHolds, PTL

\* History is stable: without the rows after its cutoff, every report is the same,
\* whether it is given or refused.
THEOREM HistoryStays == Spec => []HistoryIsStable
<1>1. Evaluated => HistoryIsStable
  <2> SUFFICES ASSUME Evaluated, report.kind # "none"
               PROVE  report.result = Evaluate(UpTo(postings, report.request.asOf), report.request)
    BY DEF HistoryIsStable, UpTo
  <2>1. Stream(postings)
    BY ReportIs, StandingIsFinite
  <2>2. report.request.kind \in Kinds
    BY ReportIs DEF IsRequest
  <2> QED  BY <2>1, <2>2, ReportIs, PastReports
<1> QED  BY <1>1, EvaluatedHolds, PTL

\* Fail closed: a report that is given out rests on complete data, on rows that
\* are all resolved up to its cutoff and on transactions that each balance.
THEOREM FailClosed == Spec => []ReportsRestOnProof
<1>1. Evaluated => ReportsRestOnProof
  <2> SUFFICES ASSUME Evaluated, Succeeded(Kinds) PROVE ReportsRestOnProof
    BY DEF ReportsRestOnProof, Kinds
  <2> DEFINE q == report.request
             r == report.result
  <2>1. /\ q.kind \in Kinds /\ report.kind = q.kind /\ r = Evaluate(postings, q)
        /\ r.error = "none"
    BY ReportIs DEF Succeeded, IsRequest, Kinds
  <2>2. /\ GeneralLedgerError(postings, q.asOf) = "none"
        /\ q.kind = "GeneralLedger" =>
              r.entries = {postings[k].id : k \in Entries(postings, q.asOf)}
    BY <2>1, ReportsAsk DEF Kinds
  <2>3. Proven(postings, q.asOf)
    BY <2>2, GeneralLedgerProves DEF Evaluated
  <2> QED  BY <2>1, <2>2, <2>3 DEF Proven, ReportsRestOnProof
<1> QED  BY <1>1, EvaluatedHolds, PTL

\* No amount in a report wraps, at any width: the rows of a Trial Balance fit on
\* either side, the rows and the totals of a statement fit.
THEOREM NothingWraps == Spec => []AmountsFit
<1>1. Evaluated => AmountsFit
  <2> SUFFICES ASSUME Evaluated, Succeeded(Kinds) PROVE AmountsFit
    BY DEF AmountsFit, Succeeded, Kinds
  <2> DEFINE q == report.request
  <2>1. q.kind \in Kinds /\ report.kind = q.kind /\ report.result = Evaluate(postings, q)
    BY ReportIs DEF Succeeded, IsRequest, Kinds
  <2>2. ReportFits(report.result, report.kind)
    BY <2>1, ReportsFit
  <2> QED  BY <2>1, <2>2 DEF ReportFits, AmountsFit, Succeeded
<1> QED  BY <1>1, EvaluatedHolds, PTL

================================================================================
