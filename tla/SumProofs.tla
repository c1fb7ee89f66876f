------------------------------- MODULE SumProofs -------------------------------
(***************************************************************************)
(* Sums.  A fold over a finite set is the value of a function defined by   *)
(* recursion on its subsets; that function exists, and which element it    *)
(* takes first makes no difference.  So a sum can be split, added up       *)
(* family by family, and taken over other names of the same terms.         *)
(***************************************************************************)
EXTENDS Integers, FiniteSets, FiniteSetsExt, FiniteSetTheorems,
        WellFoundedInduction, TLAPS

\* The sum of f over S, as the modules write it.
Total(f, S) == MapThenSumSet(LAMBDA x : f[x], S)

\* The element that the fold takes next.
Pick(s) == CHOOSE x \in s : TRUE

\* What MapThenFoldSet computes at s, given its results for smaller sets.
SumAt(f, g, s) == IF s = {} THEN 0 ELSE f[Pick(s)] + g[s \ {Pick(s)}]

\* g holds the sum of f over each subset of S.
Sums(f, g, S) == g = [s \in SUBSET S |-> SumAt(f, g, s)]

\* A set that is not empty has an element to take first.
LEMMA PickIn == ASSUME NEW s, s # {} PROVE Pick(s) \in s
BY DEF Pick

\* Among subsets of a finite set there is a smallest one.
LEMMA SmallestSubset ==
  ASSUME NEW S, NEW D, D \subseteq FiniteSubsetsOf(S), D # {}
  PROVE  \E t \in D : \A u \in D : ~(<<u, t>> \in StrictSubsetOrdering(S))
BY FS_StrictSubsetOrderingWellFounded, WFMin, Zenon

\* Induction over the subsets of a finite set.
LEMMA SubsetInduction ==
  ASSUME NEW S, IsFiniteSet(S), NEW Good,
         \A t \in SUBSET S : (\A u \in SUBSET t : u # t => u \in Good) => t \in Good
  PROVE  \A t \in SUBSET S : t \in Good
<1> DEFINE Bad == {t \in SUBSET S : t \notin Good}
<1> SUFFICES ASSUME Bad # {} PROVE FALSE
  OBVIOUS
<1>1. Bad \subseteq FiniteSubsetsOf(S)
  BY FS_Subset DEF FiniteSubsetsOf
<1>2. \E t \in Bad : \A u \in Bad : ~(<<u, t>> \in StrictSubsetOrdering(S))
  <2> HIDE DEF Bad
  <2> QED  BY <1>1, SmallestSubset
<1>3. PICK t \in Bad : \A u \in Bad : ~(<<u, t>> \in StrictSubsetOrdering(S))
  BY <1>2
<1>4. \A u \in SUBSET t : u # t => u \in Good
  BY <1>3 DEF StrictSubsetOrdering
<1> QED  BY <1>3, <1>4

\* Among numbers there is a smallest one.
LEMMA SmallestNumber ==
  ASSUME NEW D, D \subseteq Nat, D # {}
  PROVE  \E n \in D : \A m \in D : ~(<<m, n>> \in OpToRel(<, Nat))
BY NatLessThanWellFounded, WFMin, Zenon

\* Induction over the numbers.
LEMMA NumberInduction ==
  ASSUME NEW Good, 0 \in Good, \A n \in Nat : n \in Good => n + 1 \in Good
  PROVE  \A n \in Nat : n \in Good
<1> DEFINE Bad == {n \in Nat : n \notin Good}
<1> SUFFICES ASSUME Bad # {} PROVE FALSE
  OBVIOUS
<1>1. \E n \in Bad : \A m \in Bad : ~(<<m, n>> \in OpToRel(<, Nat))
  <2>1. Bad \subseteq Nat
    OBVIOUS
  <2> HIDE DEF Bad
  <2> QED  BY <2>1, SmallestNumber
<1>2. PICK n \in Bad : \A m \in Bad : ~(<<m, n>> \in OpToRel(<, Nat))
  BY <1>1
<1>3. \A m \in Bad : ~(m < n)
  BY <1>2 DEF OpToRel
<1>4. n \in Nat /\ n # 0 /\ n - 1 \in Nat /\ n - 1 < n /\ (n - 1) + 1 = n
  OBVIOUS
<1> QED  BY <1>3, <1>4

\* The recursive function that a fold is defined by exists.
LEMMA SumsExist ==
  ASSUME NEW S, IsFiniteSet(S), NEW f
  PROVE  \E g : Sums(f, g, S)
<1> DEFINE Upto(g, n) == \A s \in SUBSET S : Cardinality(s) <= n => g[s] = SumAt(f, g, s)
           Good == {n \in Nat : \E g : Upto(g, n)}
<1>1. \A s \in SUBSET S : IsFiniteSet(s) /\ Cardinality(s) \in Nat
  BY FS_Subset, FS_CardinalityType
<1>2. 0 \in Good
  <2> DEFINE g == [s \in SUBSET S |-> 0]
  <2>1. ASSUME NEW s \in SUBSET S, Cardinality(s) <= 0 PROVE g[s] = SumAt(f, g, s)
    <3>1. s = {}
      BY <1>1, <2>1, FS_EmptySet
    <3> QED  BY <3>1 DEF SumAt
  <2> QED  BY <2>1
<1>3. ASSUME NEW n \in Nat, n \in Good PROVE n + 1 \in Good
  <2>1. PICK g : Upto(g, n)
    BY <1>3
  <2> DEFINE k == [s \in SUBSET S |-> IF Cardinality(s) <= n THEN g[s] ELSE SumAt(f, g, s)]
  <2>2. ASSUME NEW s \in SUBSET S, Cardinality(s) <= n + 1 PROVE k[s] = SumAt(f, g, s)
    BY <2>1
  <2>3. ASSUME NEW s \in SUBSET S, Cardinality(s) <= n + 1 PROVE SumAt(f, k, s) = SumAt(f, g, s)
    <3>1. CASE s = {}
      BY <3>1 DEF SumAt
    <3>2. CASE s # {}
      <4> DEFINE t == s \ {Pick(s)}
      <4>1. t \in SUBSET S /\ Cardinality(t) = Cardinality(s) - 1
        BY <1>1, <3>2, PickIn, FS_RemoveElement
      <4>2. Cardinality(t) <= n
        BY <1>1, <2>3, <4>1
      <4>3. k[t] = g[t]
        BY <4>1, <4>2
      <4> QED  BY <3>2, <4>3 DEF SumAt
    <3> QED  BY <3>1, <3>2
  <2>4. Upto(k, n + 1)
    BY <2>2, <2>3
  <2>5. \E e : Upto(e, n + 1)
    <3> HIDE DEF k, Upto
    <3> QED  BY <2>4
  <2> QED  BY <2>5
<1>4. Cardinality(S) \in Good
  <2> HIDE DEF Good
  <2> QED  BY <1>1, <1>2, <1>3, NumberInduction
<1>5. PICK g : Upto(g, Cardinality(S))
  BY <1>4
<1> DEFINE k == [s \in SUBSET S |-> g[s]]
<1>6. ASSUME NEW s \in SUBSET S PROVE g[s] = SumAt(f, k, s)
  <2>1. g[s] = SumAt(f, g, s)
    BY <1>5, FS_Subset
  <2>2. SumAt(f, k, s) = SumAt(f, g, s)
    <3>1. s \ {Pick(s)} \in SUBSET S
      OBVIOUS
    <3> QED  BY <3>1 DEF SumAt
  <2> QED  BY <2>1, <2>2
<1>7. Sums(f, k, S)
  BY <1>6 DEF Sums
<1> QED
  <2> HIDE DEF k
  <2> QED  BY <1>7

\* Two of them agree where their terms do.
LEMMA SumsAgree ==
  ASSUME NEW S, NEW T, NEW e, NEW f, NEW g, NEW k, Sums(e, g, S), Sums(f, k, T),
         NEW U, U \subseteq S, U \subseteq T, IsFiniteSet(U), \A x \in U : e[x] = f[x]
  PROVE  g[U] = k[U]
<1> DEFINE Good == {s \in SUBSET U : g[s] = k[s]}
<1>1. ASSUME NEW s \in SUBSET U, \A u \in SUBSET s : u # s => u \in Good PROVE s \in Good
  <2>1. g[s] = SumAt(e, g, s) /\ k[s] = SumAt(f, k, s)
    BY DEF Sums
  <2>2. CASE s = {}
    BY <2>1, <2>2 DEF SumAt
  <2>3. CASE s # {}
    <3>1. Pick(s) \in s
      BY <2>3, PickIn
    <3>2. s \ {Pick(s)} \in Good /\ e[Pick(s)] = f[Pick(s)]
      BY <1>1, <3>1
    <3> QED  BY <2>1, <2>3, <3>2 DEF SumAt
  <2> QED  BY <2>2, <2>3
<1>2. U \in Good
  <2>1. \A s \in SUBSET U : (\A u \in SUBSET s : u # s => u \in Good) => s \in Good
    BY <1>1
  <2> HIDE DEF Good
  <2> QED  BY <2>1, SubsetInduction
<1> QED  BY <1>2

\* What a fold over a finite set stands for.
LEMMA TotalIs ==
  ASSUME NEW S, IsFiniteSet(S), NEW f
  PROVE  \E g : Sums(f, g, S) /\ Total(f, S) = g[S]
<1> DEFINE G == CHOOSE g : Sums(f, g, S)
<1>1. Sums(f, G, S)
  BY SumsExist
<1>2. Total(f, S) = G[S]
  BY DEF Total, MapThenSumSet, MapThenFoldSet, Sums, SumAt, Pick
<1> QED  BY <1>1, <1>2

\* The sum over a set is one term and the sum of the rest.
LEMMA SumsRemove ==
  ASSUME NEW S, IsFiniteSet(S), NEW f, NEW g, Sums(f, g, S), \A x \in S : f[x] \in Int
  PROVE  \A s \in SUBSET S : g[s] \in Int /\ \A x \in s : g[s] = f[x] + g[s \ {x}]
<1> DEFINE Good == {s \in SUBSET S : g[s] \in Int /\ \A x \in s : g[s] = f[x] + g[s \ {x}]}
<1>1. ASSUME NEW s \in SUBSET S, \A u \in SUBSET s : u # s => u \in Good PROVE s \in Good
  <2>1. g[s] = SumAt(f, g, s)
    BY DEF Sums
  <2>2. CASE s = {}
    BY <2>1, <2>2 DEF SumAt
  <2>3. CASE s # {}
    <3> PICK y : y = Pick(s)
      OBVIOUS
    <3>1. y \in s
      BY <2>3, PickIn
    <3>2. g[s] = f[y] + g[s \ {y}]
      BY <2>1, <2>3 DEF SumAt
    <3>3. f[y] \in Int /\ g[s \ {y}] \in Int
      BY <1>1, <3>1
    <3>4. ASSUME NEW x \in s PROVE g[s] = f[x] + g[s \ {x}]
      <4>1. CASE x = y
        BY <3>2, <4>1
      <4>2. CASE x # y
        <5> DEFINE u == (s \ {x}) \ {y}
        <5>1. s \ {x} \in Good /\ s \ {y} \in Good /\ u \in Good
          BY <1>1, <3>1
        <5>2. x \in s \ {y} /\ y \in s \ {x} /\ (s \ {y}) \ {x} = u
          BY <3>1, <4>2
        <5>3. g[s \ {y}] = f[x] + g[u]
          BY <5>1, <5>2
        <5>4. g[s \ {x}] = f[y] + g[u]
          BY <5>1, <5>2
        <5>5. f[x] \in Int /\ f[y] \in Int /\ g[u] \in Int
          BY <3>1, <5>1
        <5> QED  BY <3>2, <5>3, <5>4, <5>5
      <4> QED  BY <4>1, <4>2
    <3>5. g[s] \in Int
      BY <3>2, <3>3
    <3> QED  BY <3>4, <3>5
  <2> QED  BY <2>2, <2>3
<1>2. \A s \in SUBSET S : s \in Good
  <2>1. \A s \in SUBSET S : (\A u \in SUBSET s : u # s => u \in Good) => s \in Good
    BY <1>1
  <2> HIDE DEF Good
  <2> QED  BY <2>1, SubsetInduction
<1> QED  BY <1>2

-----------------------------------------------------------------------------
\* No terms add up to nothing.
LEMMA TotalOfNone == \A f : Total(f, {}) = 0
<1> SUFFICES ASSUME NEW f PROVE Total(f, {}) = 0
  OBVIOUS
<1>1. PICK g : Sums(f, g, {}) /\ Total(f, {}) = g[{}]
  BY TotalIs, FS_EmptySet
<1> QED  BY <1>1 DEF Sums, SumAt

\* Equal terms have equal sums.
LEMMA TotalAgree ==
  ASSUME NEW S, IsFiniteSet(S), NEW e, NEW f, \A x \in S : e[x] = f[x]
  PROVE  Total(e, S) = Total(f, S)
<1>1. PICK g : Sums(e, g, S) /\ Total(e, S) = g[S]
  BY TotalIs
<1>2. PICK k : Sums(f, k, S) /\ Total(f, S) = k[S]
  BY TotalIs
<1> QED  BY <1>1, <1>2, SumsAgree

\* One term, and the sum of the others.
LEMMA TotalRemove ==
  ASSUME NEW S, IsFiniteSet(S), NEW f, \A x \in S : f[x] \in Int, NEW x \in S
  PROVE  /\ Total(f, S) \in Int /\ Total(f, S \ {x}) \in Int
         /\ Total(f, S) = f[x] + Total(f, S \ {x})
<1> PICK T : T = S \ {x}
  OBVIOUS
<1>0. IsFiniteSet(T) /\ T \subseteq S
  BY FS_RemoveElement
<1>1. PICK g : Sums(f, g, S) /\ Total(f, S) = g[S]
  BY TotalIs
<1>2. PICK k : Sums(f, k, T) /\ Total(f, T) = k[T]
  BY <1>0, TotalIs
<1>3. k[T] = g[T]
  BY <1>0, <1>1, <1>2, SumsAgree
<1>4. g[S] \in Int /\ g[T] \in Int /\ g[S] = f[x] + g[T]
  BY <1>0, <1>1, SumsRemove
<1> QED  BY <1>1, <1>2, <1>3, <1>4

\* The sum of integers is one.
LEMMA TotalType ==
  ASSUME NEW S, IsFiniteSet(S), NEW f, \A x \in S : f[x] \in Int
  PROVE  Total(f, S) \in Int
<1>1. CASE S = {}
  BY <1>1, TotalOfNone
<1>2. CASE S # {}
  BY <1>2, TotalRemove
<1> QED  BY <1>1, <1>2

\* Zeros add up to nothing.
LEMMA TotalOfZeros ==
  ASSUME NEW S, IsFiniteSet(S), NEW f, \A x \in S : f[x] = 0
  PROVE  Total(f, S) = 0
<1> DEFINE Good == {s \in SUBSET S : Total(f, s) = 0}
<1>1. ASSUME NEW s \in SUBSET S, \A u \in SUBSET s : u # s => u \in Good PROVE s \in Good
  <2>1. CASE s = {}
    BY <2>1, TotalOfNone
  <2>2. CASE s # {}
    <3>1. PICK x \in s : TRUE
      BY <2>2
    <3>2. IsFiniteSet(s) /\ (\A y \in s : f[y] \in Int) /\ f[x] = 0
      BY <3>1, FS_Subset
    <3>3. Total(f, s) = f[x] + Total(f, s \ {x})
      BY <3>2, TotalRemove
    <3>4. Total(f, s \ {x}) = 0
      BY <1>1, <3>1
    <3> QED  BY <3>2, <3>3, <3>4
  <2> QED  BY <2>1, <2>2
<1>2. S \in Good
  <2>1. \A s \in SUBSET S : (\A u \in SUBSET s : u # s => u \in Good) => s \in Good
    BY <1>1
  <2> HIDE DEF Good
  <2> QED  BY <2>1, SubsetInduction
<1> QED  BY <1>2

\* One more term.
LEMMA TotalAdd ==
  ASSUME NEW S, IsFiniteSet(S), NEW f, NEW x, x \notin S, \A y \in S \cup {x} : f[y] \in Int
  PROVE  Total(f, S \cup {x}) = f[x] + Total(f, S)
<1>1. IsFiniteSet(S \cup {x}) /\ (S \cup {x}) \ {x} = S
  BY FS_AddElement
<1> QED  BY <1>1, TotalRemove

\* A term changes.
LEMMA TotalChange ==
  ASSUME NEW S, IsFiniteSet(S), NEW e, NEW f, NEW x \in S,
         \A y \in S : e[y] \in Int /\ f[y] \in Int, \A y \in S \ {x} : e[y] = f[y]
  PROVE  Total(f, S) = Total(e, S) - e[x] + f[x]
<1>1. Total(e, S) = e[x] + Total(e, S \ {x}) /\ Total(f, S) = f[x] + Total(f, S \ {x})
  BY TotalRemove
<1>2. Total(e, S \ {x}) = Total(f, S \ {x})
  BY FS_RemoveElement, TotalAgree
<1>3. Total(e, S \ {x}) \in Int /\ e[x] \in Int /\ f[x] \in Int
  BY TotalRemove
<1> QED  BY <1>1, <1>2, <1>3

\* The terms of a subset, and the others.
LEMMA TotalSplit ==
  ASSUME NEW S, IsFiniteSet(S), NEW f, \A x \in S : f[x] \in Int, NEW A \in SUBSET S
  PROVE  Total(f, S) = Total(f, A) + Total(f, S \ A)
<1> DEFINE Good == {a \in SUBSET S : Total(f, S) = Total(f, a) + Total(f, S \ a)}
<1>0. \A a \in SUBSET S : IsFiniteSet(a) /\ IsFiniteSet(S \ a) /\ Total(f, a) \in Int
                         /\ Total(f, S \ a) \in Int
  BY FS_Subset, TotalType
<1>1. ASSUME NEW a \in SUBSET S, \A u \in SUBSET a : u # a => u \in Good PROVE a \in Good
  <2>1. CASE a = {}
    <3>1. S \ a = S /\ Total(f, S) \in Int
      BY <2>1, TotalType
    <3> QED  BY <2>1, <3>1, TotalOfNone
  <2>2. CASE a # {}
    <3>1. PICK x \in a : TRUE
      BY <2>2
    <3> PICK u : u = a \ {x}
      OBVIOUS
    <3> PICK v : v = S \ u
      OBVIOUS
    <3>2. u \in SUBSET S /\ u \in Good /\ v \in SUBSET S /\ x \in v /\ v \ {x} = S \ a
      BY <1>1, <3>1
    <3>3. Total(f, S) = Total(f, u) + Total(f, v)
      BY <3>2
    <3>4. Total(f, a) = f[x] + Total(f, u)
      BY <1>0, <3>1, TotalRemove
    <3>5. Total(f, v) = f[x] + Total(f, S \ a)
      <4>1. IsFiniteSet(v) /\ \A y \in v : f[y] \in Int
        BY <1>0, <3>2
      <4>2. Total(f, v) = f[x] + Total(f, v \ {x})
        BY <3>2, <4>1, TotalRemove
      <4> QED  BY <3>2, <4>2
    <3>6. f[x] \in Int /\ Total(f, u) \in Int /\ Total(f, S \ a) \in Int
      BY <1>0, <3>1, <3>2
    <3> QED  BY <3>3, <3>4, <3>5, <3>6
  <2> QED  BY <2>1, <2>2
<1>2. A \in Good
  <2>1. \A a \in SUBSET S : (\A u \in SUBSET a : u # a => u \in Good) => a \in Good
    BY <1>1
  <2> HIDE DEF Good
  <2> QED  BY <2>1, SubsetInduction
<1> QED  BY <1>2

\* The terms of a subset, when the others are zero.
LEMMA TotalSelected ==
  ASSUME NEW S, IsFiniteSet(S), NEW A \in SUBSET S, NEW e, NEW f, \A x \in A : f[x] \in Int,
         \A x \in S : e[x] = IF x \in A THEN f[x] ELSE 0
  PROVE  Total(e, S) = Total(f, A)
<1>1. IsFiniteSet(A) /\ IsFiniteSet(S \ A)
  BY FS_Subset
<1>2. Total(e, S) = Total(e, A) + Total(e, S \ A)
  BY TotalSplit
<1>3. Total(e, A) = Total(f, A)
  BY <1>1, TotalAgree
<1>4. Total(e, S \ A) = 0
  BY <1>1, TotalOfZeros
<1>5. Total(f, A) \in Int
  BY <1>1, TotalType
<1> QED  BY <1>2, <1>3, <1>4, <1>5

\* The terms of two sets that have none in common.
LEMMA TotalUnion ==
  ASSUME NEW A, NEW B, IsFiniteSet(A), IsFiniteSet(B), A \cap B = {},
         NEW f, \A x \in A \cup B : f[x] \in Int
  PROVE  Total(f, A \cup B) = Total(f, A) + Total(f, B)
<1>1. IsFiniteSet(A \cup B)
  BY FS_Union
<1>2. (A \cup B) \ A = B
  OBVIOUS
<1> QED  BY <1>1, <1>2, TotalSplit

\* The terms of a family of sets, set by set.
LEMMA TotalFamily ==
  ASSUME NEW I, IsFiniteSet(I), NEW B, NEW f,
         \A k \in I : IsFiniteSet(B[k]) /\ \A x \in B[k] : f[x] \in Int,
         \A k, l \in I : k # l => B[k] \cap B[l] = {}
  PROVE  Total(f, UNION {B[k] : k \in I}) = Total([k \in I |-> Total(f, B[k])], I)
<1> DEFINE h == [k \in I |-> Total(f, B[k])]
           All(J) == UNION {B[k] : k \in J}
           Good == {J \in SUBSET I : IsFiniteSet(All(J)) /\ Total(f, All(J)) = Total(h, J)}
<1>0. \A k \in I : h[k] = Total(f, B[k]) /\ h[k] \in Int
  BY TotalType
<1>1. ASSUME NEW J \in SUBSET I, \A u \in SUBSET J : u # J => u \in Good PROVE J \in Good
  <2>1. CASE J = {}
    <3>1. All(J) = {}
      BY <2>1
    <3>2. Total(f, {}) = Total(h, {}) /\ IsFiniteSet({})
      BY TotalOfNone, FS_EmptySet, Zenon
    <3> QED  BY <2>1, <3>1, <3>2
  <2>2. CASE J # {}
    <3>1. PICK k \in J : TRUE
      BY <2>2
    <3> PICK u : u = J \ {k}
      OBVIOUS
    <3>2. u \in SUBSET I /\ u \in Good /\ k \in I
      BY <1>1, <3>1
    <3>3. All(J) = All(u) \cup B[k] /\ All(u) \cap B[k] = {}
      BY <3>1
    <3>4. \A x \in All(u) \cup B[k] : f[x] \in Int
      BY <3>2
    <3>5. IsFiniteSet(All(u)) /\ Total(f, All(u)) = Total(h, u)
      BY <3>2
    <3> PICK a : a = All(J)
      OBVIOUS
    <3> PICK b : b = All(u)
      OBVIOUS
    <3> PICK c : c = B[k]
      OBVIOUS
    <3> PICK g : g = h
      OBVIOUS
    <3>6. IsFiniteSet(b) /\ IsFiniteSet(c) /\ a = b \cup c /\ b \cap c = {}
          /\ \A x \in b \cup c : f[x] \in Int
      BY <3>2, <3>3, <3>4, <3>5
    <3>7. IsFiniteSet(a) /\ Total(f, a) = Total(f, b) + Total(f, c)
      <4>1. Total(f, b \cup c) = Total(f, b) + Total(f, c)
        BY <3>6, TotalUnion
      <4>2. IsFiniteSet(b \cup c)
        BY <3>6, FS_Union
      <4> QED  BY <3>6, <4>1, <4>2, Zenon
    <3>8. Total(g, J) = g[k] + Total(g, u) /\ Total(g, u) \in Int
      <4>1. IsFiniteSet(J) /\ \A y \in J : g[y] \in Int
        BY <1>0, FS_Subset
      <4> QED  BY <3>1, <4>1, TotalRemove
    <3>9. g[k] = Total(f, c) /\ g[k] \in Int /\ Total(f, b) = Total(g, u)
      BY <1>0, <3>2, <3>5
    <3>10. Total(f, a) = Total(g, J)
      BY <3>7, <3>8, <3>9
    <3> QED  BY <3>7, <3>10
  <2> QED  BY <2>1, <2>2
<1>2. I \in Good
  <2>1. \A J \in SUBSET I : (\A u \in SUBSET J : u # J => u \in Good) => J \in Good
    BY <1>1
  <2> HIDE DEF Good
  <2> QED  BY <2>1, SubsetInduction
<1> QED  BY <1>2

\* p gives each term of e over S another name in R, where f has it.
Renames(p, S, R, e, f) ==
  /\ \A x, y \in S : p[x] = p[y] => x = y
  /\ \A x \in S : p[x] \in R /\ e[x] = f[p[x]] /\ e[x] \in Int
  /\ \A z \in R : \E x \in S : z = p[x]

\* The same terms under other names.
LEMMA TotalRenamed ==
  ASSUME NEW S, IsFiniteSet(S), NEW R, NEW e, NEW f, NEW p, Renames(p, S, R, e, f)
  PROVE  Total(e, S) = Total(f, R)
<1> USE DEF Renames
<1> DEFINE All(J) == {p[x] : x \in J}
           Good == {J \in SUBSET S : IsFiniteSet(All(J)) /\ Total(e, J) = Total(f, All(J))}
<1>1. ASSUME NEW J \in SUBSET S, \A u \in SUBSET J : u # J => u \in Good PROVE J \in Good
  <2>1. CASE J = {}
    <3>1. All(J) = {}
      BY <2>1
    <3>2. Total(e, {}) = Total(f, {}) /\ IsFiniteSet({})
      BY TotalOfNone, FS_EmptySet, Zenon
    <3> QED  BY <2>1, <3>1, <3>2
  <2>2. CASE J # {}
    <3>1. PICK k \in J : TRUE
      BY <2>2
    <3> PICK u : u = J \ {k}
      OBVIOUS
    <3>2. u \in SUBSET S /\ u \in Good /\ k \in S /\ k \in J
      BY <1>1, <3>1
    <3>3. All(J) = All(u) \cup {p[k]}
      BY <3>1
    <3>4. p[k] \notin All(u)
      BY <3>1
    <3>5. \A z \in All(u) \cup {p[k]} : f[z] \in Int
      BY <3>2
    <3>6. IsFiniteSet(All(u)) /\ Total(e, u) = Total(f, All(u))
      BY <3>2
    <3> PICK a : a = All(J)
      OBVIOUS
    <3> PICK b : b = All(u)
      OBVIOUS
    <3> PICK z : z = p[k]
      OBVIOUS
    <3>7. IsFiniteSet(b) /\ a = b \cup {z} /\ z \notin b /\ (\A y \in b \cup {z} : f[y] \in Int)
          /\ Total(e, u) = Total(f, b) /\ e[k] = f[z]
      BY <3>2, <3>3, <3>4, <3>5, <3>6
    <3>8. IsFiniteSet(a) /\ Total(f, a) = f[z] + Total(f, b)
      <4>1. Total(f, b \cup {z}) = f[z] + Total(f, b)
        BY <3>7, TotalAdd
      <4>2. IsFiniteSet(b \cup {z})
        BY <3>7, FS_AddElement
      <4> QED  BY <3>7, <4>1, <4>2, Zenon
    <3>9. Total(e, J) = e[k] + Total(e, u)
      <4>1. IsFiniteSet(J) /\ \A y \in J : e[y] \in Int
        BY FS_Subset
      <4> QED  BY <3>1, <4>1, TotalRemove
    <3>10. Total(e, J) = Total(f, a)
      BY <3>7, <3>8, <3>9
    <3> QED  BY <3>8, <3>10
  <2> QED  BY <2>1, <2>2
<1>2. S \in Good
  <2>1. \A J \in SUBSET S : (\A u \in SUBSET J : u # J => u \in Good) => J \in Good
    BY <1>1
  <2> HIDE DEF Good
  <2> QED  BY <2>1, SubsetInduction
<1>3. All(S) = R
  OBVIOUS
<1> QED  BY <1>2, <1>3

\* Terms that exceed others by at most n exceed them by n for each in the sum.
LEMMA TotalAtMost ==
  ASSUME NEW S, IsFiniteSet(S), NEW e, NEW f, NEW n \in Nat,
         \A x \in S : e[x] \in Int /\ f[x] \in Int /\ e[x] <= f[x] + n
  PROVE  Total(e, S) <= Total(f, S) + n * Cardinality(S)
<1> DEFINE Good == {s \in SUBSET S : Total(e, s) <= Total(f, s) + n * Cardinality(s)}
<1>1. ASSUME NEW s \in SUBSET S, \A u \in SUBSET s : u # s => u \in Good PROVE s \in Good
  <2>1. CASE s = {}
    BY <2>1, TotalOfNone, FS_EmptySet
  <2>2. CASE s # {}
    <3>1. PICK x \in s : TRUE
      BY <2>2
    <3> PICK u : u = s \ {x}
      OBVIOUS
    <3>2. IsFiniteSet(s) /\ \A y \in s : e[y] \in Int /\ f[y] \in Int
      BY FS_Subset
    <3>3. /\ Total(e, s) = e[x] + Total(e, u) /\ Total(e, u) \in Int
          /\ Total(f, s) = f[x] + Total(f, u) /\ Total(f, u) \in Int
      BY <3>1, <3>2, TotalRemove
    <3>4. Cardinality(u) = Cardinality(s) - 1 /\ Cardinality(s) \in Nat
      BY <3>1, <3>2, FS_RemoveElement, FS_CardinalityType
    <3>5. Total(e, u) <= Total(f, u) + n * Cardinality(u)
      BY <1>1, <3>1
    <3>6. n * Cardinality(s) = n * Cardinality(u) + n
      BY <3>4
    <3>7. n * Cardinality(u) \in Int /\ e[x] <= f[x] + n /\ e[x] \in Int /\ f[x] \in Int
      BY <3>1, <3>4
    <3> QED  BY <3>3, <3>5, <3>6, <3>7
  <2> QED  BY <2>1, <2>2
<1>2. S \in Good
  <2>1. \A s \in SUBSET S : (\A u \in SUBSET s : u # s => u \in Good) => s \in Good
    BY <1>1
  <2> HIDE DEF Good
  <2> QED  BY <2>1, SubsetInduction
<1> QED  BY <1>2

\* Equal terms add up to a product.
LEMMA TotalOfEqual ==
  ASSUME NEW S, IsFiniteSet(S), NEW f, NEW n \in Nat, \A x \in S : f[x] = n
  PROVE  Total(f, S) = n * Cardinality(S)
<1> DEFINE Good == {s \in SUBSET S : Total(f, s) = n * Cardinality(s)}
<1>1. ASSUME NEW s \in SUBSET S, \A u \in SUBSET s : u # s => u \in Good PROVE s \in Good
  <2>1. CASE s = {}
    BY <2>1, TotalOfNone, FS_EmptySet
  <2>2. CASE s # {}
    <3>1. PICK x \in s : TRUE
      BY <2>2
    <3> PICK u : u = s \ {x}
      OBVIOUS
    <3>2. IsFiniteSet(s) /\ \A y \in s : f[y] \in Int
      BY FS_Subset
    <3>3. Total(f, s) = n + Total(f, u) /\ Total(f, u) \in Int
      BY <3>1, <3>2, TotalRemove
    <3>4. Cardinality(u) = Cardinality(s) - 1 /\ Cardinality(s) \in Nat
      BY <3>1, <3>2, FS_RemoveElement, FS_CardinalityType
    <3>5. Total(f, u) = n * Cardinality(u)
      BY <1>1, <3>1
    <3>6. n * Cardinality(s) = n * Cardinality(u) + n /\ n * Cardinality(u) \in Int
      BY <3>4
    <3> QED  BY <3>3, <3>5, <3>6
  <2> QED  BY <2>1, <2>2
<1>2. S \in Good
  <2>1. \A s \in SUBSET S : (\A u \in SUBSET s : u # s => u \in Good) => s \in Good
    BY <1>1
  <2> HIDE DEF Good
  <2> QED  BY <2>1, SubsetInduction
<1> QED  BY <1>2
================================================================================
