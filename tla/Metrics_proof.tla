----------------------------- MODULE Metrics_proof -----------------------------
(* Proofs about the statistics: what sums over a finite set, the element of *)
(* a rank and the filter of outliers give, for samples of any number.       *)
EXTENDS Metrics, FiniteSetTheorems, WellFoundedInduction, TLAPS

-------------------------------------------------------------------------------
(* Natural numbers, and induction by a least counterexample.                *)

LEMMA ProductNat ==
  ASSUME NEW a \in Nat, NEW b \in Nat
  PROVE  a * b \in Nat
  OBVIOUS

LEMMA ProductMonotone ==
  ASSUME NEW a \in Nat, NEW b \in Nat, NEW c \in Nat, b <= c
  PROVE  a * b <= a * c
<1>1. PICK d \in Nat : c = b + d
  <2>1. c - b \in Nat /\ c = b + (c - b)
    OBVIOUS
  <2> QED BY <2>1
<1>2. a * d \in Nat /\ a * b \in Nat
  BY ProductNat
<1>3. a * c = a * b + a * d
  BY <1>1
<1> QED BY <1>2, <1>3

LEMMA SmallestNat ==
  ASSUME NEW S, S \subseteq Nat, S # {}
  PROVE  \E x \in S : \A y \in S : x <= y
<1> DEFINE Below == {pair \in Nat \X Nat : pair[1] < pair[2]}
<1>1. IsWellFoundedOn(Below, Nat)
  BY NatLessThanWellFounded DEF OpToRel
<1>2. PICK x \in S : \A y \in S : <<y, x>> \notin Below
  <2> HIDE DEF Below
  <2> QED BY <1>1, WFMin
<1>3. ASSUME NEW y \in S PROVE x <= y
  <2>1. x \in Nat /\ y \in Nat /\ <<y, x>> \notin Below
    BY <1>2
  <2>2. ~(y < x)
    BY <2>1
  <2> QED BY <2>1, <2>2
<1> QED BY <1>3

LEMMA AddOne ==
  ASSUME NEW S, IsFiniteSet(S), NEW x, x \notin S
  PROVE  /\ IsFiniteSet(S \union {x}) /\ Cardinality(S) \in Nat
         /\ Cardinality(S \union {x}) = Cardinality(S) + 1
  BY FS_AddElement, FS_CardinalityType

LEMMA RemoveOne ==
  ASSUME NEW S, IsFiniteSet(S), NEW x \in S
  PROVE  /\ IsFiniteSet(S \ {x}) /\ Cardinality(S \ {x}) \in Nat
         /\ Cardinality(S) = Cardinality(S \ {x}) + 1
<1>1. IsFiniteSet(S \ {x}) /\ (S \ {x}) \union {x} = S
  BY FS_RemoveElement
<1> QED BY <1>1, AddOne

\* Among the subsets of a finite set that have a property, one is smallest.
LEMMA MinimalSubset ==
  ASSUME NEW S, IsFiniteSet(S), NEW Bad, Bad \subseteq SUBSET S, Bad # {}
  PROVE  \E T \in Bad : \A x \in T : T \ {x} \notin Bad
<1>1. IsWellFoundedOn(StrictSubsetOrdering(S), FiniteSubsetsOf(S))
  BY FS_StrictSubsetOrderingWellFounded
<1>2. FiniteSubsetsOf(S) = SUBSET S
  BY FS_FiniteSubsetsOfFinite
<1>3. PICK T \in Bad : \A U \in Bad : <<U, T>> \notin StrictSubsetOrdering(S)
  BY <1>1, <1>2, WFMin
<1>4. ASSUME NEW x \in T, T \ {x} \in Bad PROVE FALSE
  <2>1. <<T \ {x}, T>> \in StrictSubsetOrdering(S)
    BY <1>4 DEF StrictSubsetOrdering
  <2> QED BY <1>3, <1>4, <2>1
<1> QED BY <1>4

-------------------------------------------------------------------------------
(* Sums over finite sets.                                                   *)

Pick(s) == CHOOSE x \in s : TRUE

\* The function by which a fold goes through the subsets of S.
Iterates(f, S, g) ==
  g = [s \in SUBSET S |-> IF s = {} THEN 0 ELSE f[Pick(s)] + g[s \ {Pick(s)}]]

SumOn(f, S) == SumFunctionOnSet(f, S)

LEMMA PickIn ==
  ASSUME NEW s, s # {}
  PROVE  Pick(s) \in s
  BY DEF Pick

LEMMA SumIsIterated ==
  ASSUME NEW f, NEW S, \E g : Iterates(f, S, g)
  PROVE  \E g : Iterates(f, S, g) /\ SumOn(f, S) = g[S]
<1> DEFINE It == CHOOSE g : Iterates(f, S, g)
<1>1. Iterates(f, S, It)
  OBVIOUS
<1>2. SumOn(f, S) = It[S]
  BY DEF SumOn, SumFunctionOnSet, FoldFunctionOnSet, MapThenFoldSet, Iterates, Pick
<1> QED BY <1>1, <1>2

\* Such a function exists: it is built by the size of the subsets.
LEMMA IterationExists ==
  ASSUME NEW f, NEW S, IsFiniteSet(S)
  PROVE  \E g : Iterates(f, S, g)
<1> DEFINE Small(n) == {t \in (SUBSET S) : Cardinality(t) <= n}
           Stage(n, g) ==
             g = [s \in Small(n) |-> IF s = {} THEN 0 ELSE f[Pick(s)] + g[s \ {Pick(s)}]]
           Missing == {n \in Nat : ~\E g : Stage(n, g)}
<1>1. \A t \in SUBSET S : IsFiniteSet(t) /\ Cardinality(t) \in Nat /\ Cardinality(t) <= Cardinality(S)
  BY FS_Subset, FS_CardinalityType
<1>2. \A t \in SUBSET S : \A x \in t : Cardinality(t \ {x}) = Cardinality(t) - 1
  BY <1>1, FS_RemoveElement
<1>3. \E g : Stage(0, g)
  <2>1. Small(0) = {{}}
    <3>1. \A t \in SUBSET S : Cardinality(t) = 0 <=> t = {}
      BY <1>1, FS_EmptySet
    <3> QED BY <1>1, <3>1
  <2> DEFINE g == [s \in {{}} |-> 0]
  <2>2. Stage(0, g)
    BY <2>1
  <2> QED BY <2>2
<1>4. ASSUME NEW n \in Nat, NEW g, Stage(n, g)
      PROVE  \E h : Stage(n + 1, h)
  <2> DEFINE h == [s \in Small(n + 1) |-> IF s = {} THEN 0 ELSE f[Pick(s)] + g[s \ {Pick(s)}]]
  <2>1. ASSUME NEW s \in Small(n + 1), s # {}
        PROVE  g[s \ {Pick(s)}] = h[s \ {Pick(s)}]
    <3> DEFINE u == s \ {Pick(s)}
    <3>1. Pick(s) \in s
      BY <2>1, PickIn
    <3>2. u \in Small(n) /\ u \in Small(n + 1)
      BY <1>1, <1>2, <3>1
    <3>3. g[u] = IF u = {} THEN 0 ELSE f[Pick(u)] + g[u \ {Pick(u)}]
      <4> HIDE DEF u, Small
      <4> QED BY <1>4, <3>2
    <3>4. h[u] = IF u = {} THEN 0 ELSE f[Pick(u)] + g[u \ {Pick(u)}]
      <4> HIDE DEF u, Small
      <4> QED BY <3>2
    <3> QED BY <3>3, <3>4
  <2>2. h = [s \in Small(n + 1) |-> IF s = {} THEN 0 ELSE f[Pick(s)] + h[s \ {Pick(s)}]]
    <3> HIDE DEF Small
    <3>1. \A s \in Small(n + 1) :
            (IF s = {} THEN 0 ELSE f[Pick(s)] + g[s \ {Pick(s)}])
              = (IF s = {} THEN 0 ELSE f[Pick(s)] + h[s \ {Pick(s)}])
      <4> HIDE DEF h
      <4> QED BY <2>1
    <3> QED BY <3>1
  <2> QED BY <2>2
<1>5. Missing = {}
  <2> SUFFICES ASSUME Missing # {} PROVE FALSE
    OBVIOUS
  <2>1. PICK m \in Missing : \A k \in Missing : m <= k
    <3> HIDE DEF Missing
    <3>1. Missing \subseteq Nat
      BY DEF Missing
    <3> QED BY <3>1, SmallestNat
  <2>2. m \in Nat /\ m # 0
    <3> HIDE DEF Small, Stage
    <3>1. \A k \in Missing : k \in Nat
      OBVIOUS
    <3>2. 0 \notin Missing
      BY <1>3
    <3> HIDE DEF Missing
    <3> QED BY <3>1, <3>2
  <2>3. m - 1 \in Nat /\ m - 1 \notin Missing
    <3>1. m - 1 \in Nat /\ ~(m <= m - 1)
      BY <2>2
    <3> HIDE DEF Missing
    <3> QED BY <2>1, <3>1
  <2>4. PICK g : Stage(m - 1, g)
    BY <2>3
  <2>5. \E h : Stage((m - 1) + 1, h)
    <3> HIDE DEF Stage
    <3> QED BY <1>4, <2>3, <2>4
  <2>6. (m - 1) + 1 = m
    BY <2>2
  <2> HIDE DEF Stage
  <2> QED BY <2>1, <2>5, <2>6
<1>6. Cardinality(S) \in Nat /\ Small(Cardinality(S)) = SUBSET S
  BY <1>1, FS_CardinalityType
<1>7. PICK g : Stage(Cardinality(S), g)
  <2> HIDE DEF Stage
  <2> QED BY <1>5, <1>6
<1> QED BY <1>6, <1>7 DEF Iterates

\* What is summed over a subset does not depend on the set it is a subset of.
LEMMA IterationUnique ==
  ASSUME NEW f, NEW S, IsFiniteSet(S), NEW T \in SUBSET S,
         NEW g, Iterates(f, S, g), NEW h, Iterates(f, T, h)
  PROVE  \A s \in SUBSET T : g[s] = h[s]
<1> DEFINE Bad == {s \in (SUBSET T) : g[s] # h[s]}
<1> SUFFICES ASSUME Bad # {} PROVE FALSE
  OBVIOUS
<1>1. IsFiniteSet(T)
  BY FS_Subset
<1>2. PICK s \in Bad : \A x \in s : s \ {x} \notin Bad
  <2>1. Bad \subseteq SUBSET T
    OBVIOUS
  <2> HIDE DEF Bad
  <2> QED BY <1>1, <2>1, MinimalSubset
<1>3. s \in SUBSET T /\ s \in SUBSET S
  OBVIOUS
<1>4. /\ g[s] = IF s = {} THEN 0 ELSE f[Pick(s)] + g[s \ {Pick(s)}]
      /\ h[s] = IF s = {} THEN 0 ELSE f[Pick(s)] + h[s \ {Pick(s)}]
  BY <1>3 DEF Iterates
<1>5. s # {} => g[s \ {Pick(s)}] = h[s \ {Pick(s)}]
  BY <1>2, PickIn
<1> QED BY <1>4, <1>5

LEMMA SumEmpty ==
  ASSUME NEW f
  PROVE  SumOn(f, {}) = 0
<1>1. IsFiniteSet({})
  BY FS_EmptySet
<1>2. PICK g : Iterates(f, {}, g) /\ SumOn(f, {}) = g[{}]
  BY <1>1, IterationExists, SumIsIterated
<1> QED BY <1>2 DEF Iterates

LEMMA SumUnfold ==
  ASSUME NEW f, NEW S, IsFiniteSet(S), S # {}
  PROVE  SumOn(f, S) = f[Pick(S)] + SumOn(f, S \ {Pick(S)})
<1> DEFINE T == S \ {Pick(S)}
<1>1. IsFiniteSet(T) /\ T \in SUBSET S
  BY FS_Subset
<1>2. PICK g : Iterates(f, S, g) /\ SumOn(f, S) = g[S]
  BY IterationExists, SumIsIterated
<1>3. PICK h : Iterates(f, T, h) /\ SumOn(f, T) = h[T]
  <2> HIDE DEF T
  <2> QED BY <1>1, IterationExists, SumIsIterated
<1>4. g[T] = h[T]
  <2> HIDE DEF T
  <2> QED BY <1>1, <1>2, <1>3, IterationUnique
<1>5. g[S] = f[Pick(S)] + g[T]
  BY <1>2 DEF Iterates
<1> QED BY <1>2, <1>3, <1>4, <1>5

LEMMA SumInt ==
  ASSUME NEW f, NEW S, IsFiniteSet(S), \A x \in S : f[x] \in Int
  PROVE  SumOn(f, S) \in Int
<1> DEFINE Bad == {T \in (SUBSET S) : SumOn(f, T) \notin Int}
<1> SUFFICES ASSUME Bad # {} PROVE FALSE
  OBVIOUS
<1>1. PICK T \in Bad : \A x \in T : T \ {x} \notin Bad
  <2>1. Bad \subseteq SUBSET S
    OBVIOUS
  <2> HIDE DEF Bad
  <2> QED BY <2>1, MinimalSubset
<1>2. T \in SUBSET S /\ IsFiniteSet(T)
  BY FS_Subset
<1>3. T # {}
  BY SumEmpty
<1>4. Pick(T) \in T
  BY <1>3, PickIn
<1>5. SumOn(f, T \ {Pick(T)}) \in Int
  BY <1>1, <1>2, <1>4
<1>6. SumOn(f, T) = f[Pick(T)] + SumOn(f, T \ {Pick(T)})
  BY <1>2, <1>3, SumUnfold
<1>7. f[Pick(T)] \in Int
  BY <1>2, <1>4
<1> QED BY <1>5, <1>6, <1>7

\* It does not matter which element is taken out first.
LEMMA SumRemove ==
  ASSUME NEW f, NEW S, IsFiniteSet(S), \A x \in S : f[x] \in Int, NEW x \in S
  PROVE  SumOn(f, S) = f[x] + SumOn(f, S \ {x})
<1> DEFINE Bad == {T \in (SUBSET S) : \E y \in T : SumOn(f, T) # f[y] + SumOn(f, T \ {y})}
<1> SUFFICES ASSUME Bad # {} PROVE FALSE
  OBVIOUS
<1>1. PICK T \in Bad : \A y \in T : T \ {y} \notin Bad
  <2>1. Bad \subseteq SUBSET S
    OBVIOUS
  <2> HIDE DEF Bad
  <2> QED BY <2>1, MinimalSubset
<1>2. T \in SUBSET S /\ IsFiniteSet(T)
  BY FS_Subset
<1>3. PICK y \in T : SumOn(f, T) # f[y] + SumOn(f, T \ {y})
  OBVIOUS
<1> DEFINE p == Pick(T)
<1>4. p \in T /\ SumOn(f, T) = f[p] + SumOn(f, T \ {p})
  BY <1>2, <1>3, PickIn, SumUnfold
<1>5. p # y
  BY <1>3, <1>4
<1>6. SumOn(f, T \ {p}) = f[y] + SumOn(f, (T \ {p}) \ {y})
  BY <1>1, <1>2, <1>4, <1>5
<1>7. SumOn(f, T \ {y}) = f[p] + SumOn(f, (T \ {y}) \ {p})
  BY <1>1, <1>2, <1>4, <1>5
<1>8. (T \ {p}) \ {y} = (T \ {y}) \ {p}
  OBVIOUS
<1>9. SumOn(f, (T \ {p}) \ {y}) \in Int /\ f[p] \in Int /\ f[y] \in Int
  <2>1. IsFiniteSet((T \ {p}) \ {y})
    BY <1>2, FS_RemoveElement
  <2> QED BY <1>2, <1>4, <2>1, SumInt
<1> DEFINE rest == SumOn(f, (T \ {p}) \ {y})
<1>10. SumOn(f, T) = f[p] + (f[y] + rest) /\ SumOn(f, T \ {y}) = f[p] + rest
  BY <1>4, <1>6, <1>7, <1>8
<1>11. rest \in Int /\ f[p] \in Int /\ f[y] \in Int
  BY <1>9
<1> HIDE DEF p, rest
<1> QED BY <1>3, <1>10, <1>11

LEMMA SumAdd ==
  ASSUME NEW f, NEW S, IsFiniteSet(S), NEW x, x \notin S, \A y \in S \union {x} : f[y] \in Int
  PROVE  SumOn(f, S \union {x}) = f[x] + SumOn(f, S)
<1>1. IsFiniteSet(S \union {x}) /\ (S \union {x}) \ {x} = S
  BY FS_AddElement
<1> QED BY <1>1, SumRemove

\* What counting every element of a set once more adds.
LEMMA SumCounted ==
  ASSUME NEW S, IsFiniteSet(S), NEW right, NEW f, NEW g, \A x \in S : f[x] \in Int,
         \A x \in S : g[x] = f[x] + (IF x \in right THEN 1 ELSE 0)
  PROVE  SumOn(g, S) = SumOn(f, S) + Cardinality(S \intersect right)
<1> DEFINE Agrees(T) == SumOn(g, T) = SumOn(f, T) + Cardinality(T \intersect right)
           Bad == {T \in (SUBSET S) : ~Agrees(T)}
<1> SUFFICES ASSUME Bad # {} PROVE FALSE
  OBVIOUS
<1>1. PICK T \in Bad : \A x \in T : T \ {x} \notin Bad
  <2>1. Bad \subseteq SUBSET S
    OBVIOUS
  <2> HIDE DEF Bad
  <2> QED BY <2>1, MinimalSubset
<1>2. T \in SUBSET S /\ IsFiniteSet(T)
  BY FS_Subset
<1>3. T # {}
  <2>1. {} \intersect right = {} /\ Agrees({})
    BY SumEmpty, FS_EmptySet
  <2> QED BY <2>1
<1>4. PICK x \in T : TRUE
  BY <1>3
<1> DEFINE U == T \ {x}
<1>5. IsFiniteSet(U) /\ IsFiniteSet(U \intersect right)
  BY <1>2, FS_Subset
<1>6. SumOn(g, U) = SumOn(f, U) + Cardinality(U \intersect right)
  BY <1>1, <1>2
<1>7. SumOn(f, T) = f[x] + SumOn(f, U)
  BY <1>2, SumRemove
<1>8. SumOn(g, T) = g[x] + SumOn(g, U)
  <2>1. \A y \in T : g[y] \in Int
    BY <1>2
  <2> QED BY <1>2, <2>1, SumRemove
<1>9. /\ Cardinality(U \intersect right) \in Nat
      /\ Cardinality(T \intersect right)
           = Cardinality(U \intersect right) + (IF x \in right THEN 1 ELSE 0)
  <2>1. CASE x \in right
    <3>1. T \intersect right = (U \intersect right) \union {x} /\ x \notin U \intersect right
      BY <2>1
    <3> DEFINE V == U \intersect right
    <3>2. IsFiniteSet(V) /\ x \notin V
      BY <1>5
    <3>3. Cardinality(V) \in Nat /\ Cardinality(V \union {x}) = Cardinality(V) + 1
      <4> HIDE DEF V
      <4> QED BY <3>2, AddOne
    <3>4. Cardinality(T \intersect right) = Cardinality(V \union {x})
      BY <3>1, Zenon
    <3>5. (IF x \in right THEN 1 ELSE 0) = 1
      BY <2>1
    <3> HIDE DEF U
    <3> QED BY <3>3, <3>4, <3>5
  <2>2. CASE x \notin right
    <3>1. T \intersect right = U \intersect right
      BY <2>2
    <3>2. (IF x \in right THEN 1 ELSE 0) = 0
      BY <2>2
    <3> DEFINE V == U \intersect right
    <3>3. Cardinality(V) \in Nat
      <4> HIDE DEF V
      <4> QED BY <1>5, FS_CardinalityType DEF V
    <3>4. Cardinality(T \intersect right) = Cardinality(V)
      BY <3>1, Zenon
    <3> HIDE DEF U
    <3> QED BY <3>2, <3>3, <3>4
  <2> QED BY <2>1, <2>2
<1>10. f[x] \in Int /\ g[x] = f[x] + (IF x \in right THEN 1 ELSE 0)
  BY <1>2
<1>11. SumOn(f, U) \in Int
  BY <1>2, <1>5, SumInt
<1> DEFINE sf == SumOn(f, U)
           c == Cardinality(U \intersect right)
           d == IF x \in right THEN 1 ELSE 0
<1>12. SumOn(g, T) = (f[x] + d) + (sf + c) /\ SumOn(f, T) = f[x] + sf
  BY <1>6, <1>7, <1>8, <1>10
<1>13. Cardinality(T \intersect right) = c + d
  BY <1>9
<1>14. sf \in Int /\ c \in Nat /\ d \in Nat /\ f[x] \in Int
  BY <1>9, <1>10, <1>11
<1>15. ~Agrees(T)
  OBVIOUS
<1> HIDE DEF sf, c, d, U, Bad
<1> QED BY <1>12, <1>13, <1>14, <1>15

\* A sum of n numbers lies between n times the least and n times the greatest of them.
LEMMA SumBounds ==
  ASSUME NEW S, IsFiniteSet(S), NEW f, NEW lo \in Int, NEW hi \in Int,
         \A x \in S : f[x] \in Int /\ lo <= f[x] /\ f[x] <= hi
  PROVE  Cardinality(S) * lo <= SumOn(f, S) /\ SumOn(f, S) <= Cardinality(S) * hi
<1> DEFINE Within(T) == Cardinality(T) * lo <= SumOn(f, T) /\ SumOn(f, T) <= Cardinality(T) * hi
           Bad == {T \in (SUBSET S) : ~Within(T)}
<1> SUFFICES ASSUME Bad # {} PROVE FALSE
  OBVIOUS
<1>1. PICK T \in Bad : \A x \in T : T \ {x} \notin Bad
  <2>1. Bad \subseteq SUBSET S
    OBVIOUS
  <2> HIDE DEF Bad
  <2> QED BY <2>1, MinimalSubset
<1>2. T \in SUBSET S /\ IsFiniteSet(T)
  BY FS_Subset
<1>3. T # {}
  <2>1. Cardinality({}) = 0 /\ SumOn(f, {}) = 0
    BY SumEmpty, FS_EmptySet
  <2>2. Within({})
    BY <2>1
  <2> QED BY <2>2
<1>4. PICK x \in T : TRUE
  BY <1>3
<1> DEFINE U == T \ {x}
           c == Cardinality(U)
           s == SumOn(f, U)
<1>5. IsFiniteSet(U) /\ c \in Nat /\ Cardinality(T) = c + 1
  BY <1>2, RemoveOne
<1>6. c * lo <= s /\ s <= c * hi
  BY <1>1, <1>2
<1>7. SumOn(f, T) = f[x] + s
  BY <1>2, SumRemove
<1>8. s \in Int
  BY <1>2, <1>5, SumInt
<1>9. f[x] \in Int /\ lo <= f[x] /\ f[x] <= hi
  BY <1>2
<1>10. /\ (c + 1) * lo = c * lo + lo /\ (c + 1) * hi = c * hi + hi
       /\ c * lo \in Int /\ c * hi \in Int
  <2> HIDE DEF c
  <2> QED BY <1>5
<1>11. ~Within(T)
  OBVIOUS
<1> HIDE DEF U, c, s, Bad
<1> QED BY <1>5, <1>6, <1>7, <1>8, <1>9, <1>10, <1>11

LEMMA SquareNat ==
  ASSUME NEW a \in Int
  PROVE  a * a >= 0 /\ (a * a = 0 <=> a = 0)
<1>1. CASE a > 0
  BY <1>1
<1>2. CASE a < 0
  BY <1>2
<1>3. CASE a = 0
  BY <1>3
<1> QED BY <1>1, <1>2, <1>3

\* sq has the squares of f.
Squares(f, sq, S) == \A x \in S : f[x] \in Int /\ sq[x] = f[x] * f[x]

\* The sums of the numbers and of their squares, with one element taken out.
LEMMA SquaresRemove ==
  ASSUME NEW S, IsFiniteSet(S), NEW f, NEW sq, Squares(f, sq, S), NEW x \in S
  PROVE  /\ SumOn(f, S) = f[x] + SumOn(f, S \ {x})
         /\ SumOn(sq, S) = sq[x] + SumOn(sq, S \ {x})
         /\ f[x] \in Int /\ SumOn(f, S \ {x}) \in Int /\ SumOn(sq, S \ {x}) \in Int
<1>1. (\A y \in S : f[y] \in Int) /\ (\A y \in S : sq[y] \in Int)
  BY DEF Squares
<1>2. SumOn(f, S) = f[x] + SumOn(f, S \ {x})
  BY <1>1, SumRemove
<1>3. SumOn(sq, S) = sq[x] + SumOn(sq, S \ {x})
  BY <1>1, SumRemove
<1>4. IsFiniteSet(S \ {x})
  BY FS_RemoveElement
<1>5. SumOn(f, S \ {x}) \in Int
  BY <1>1, <1>4, SumInt
<1>6. SumOn(sq, S \ {x}) \in Int
  BY <1>1, <1>4, SumInt
<1> QED BY <1>1, <1>2, <1>3, <1>5, <1>6

LEMMA SquaresStep ==
  ASSUME NEW a \in Int, NEW v \in Int, NEW s \in Int, NEW q \in Int, NEW c \in Int
  PROVE  (a * a + q) - 2 * v * (a + s) + (c + 1) * v * v
           = (q - 2 * v * s + c * v * v) + (a - v) * (a - v)
  OBVIOUS

LEMMA SpreadStep ==
  ASSUME NEW a \in Int, NEW s \in Int, NEW q \in Int, NEW c \in Int
  PROVE  (c + 1) * (a * a + q) - (a + s) * (a + s)
           = (c * q - s * s) + (q - 2 * a * s + c * a * a)
  OBVIOUS

SquaresOn(f, sq, S, v) == SumOn(sq, S) - 2 * v * SumOn(f, S) + Cardinality(S) * v * v

\* The sum of the squared distances from a number is zero only when all are that number.
LEMMA SquaresFrom ==
  ASSUME NEW S, IsFiniteSet(S), NEW f, NEW sq, NEW v \in Int, Squares(f, sq, S)
  PROVE  SquaresOn(f, sq, S, v) \in Nat /\ (SquaresOn(f, sq, S, v) = 0 <=> \A x \in S : f[x] = v)
<1> DEFINE D(T) == SquaresOn(f, sq, T, v)
           Good(T) == D(T) \in Nat /\ (D(T) = 0 <=> \A x \in T : f[x] = v)
           Bad == {T \in (SUBSET S) : ~Good(T)}
<1> SUFFICES ASSUME Bad # {} PROVE FALSE
  OBVIOUS
<1>1. PICK T \in Bad : \A x \in T : T \ {x} \notin Bad
  <2>1. Bad \subseteq SUBSET S
    OBVIOUS
  <2> HIDE DEF Bad
  <2> QED BY <2>1, MinimalSubset
<1>2. T \in SUBSET S /\ IsFiniteSet(T)
  BY FS_Subset
<1>3. T # {}
  <2>1. Cardinality({}) = 0 /\ SumOn(f, {}) = 0 /\ SumOn(sq, {}) = 0
    BY SumEmpty, FS_EmptySet
  <2>2. D({}) = 0
    BY <2>1 DEF SquaresOn
  <2>3. Good({})
    BY <2>2
  <2> QED BY <2>3
<1>4. PICK x \in T : TRUE
  BY <1>3
<1> DEFINE U == T \ {x}
           c == Cardinality(U)
           s == SumOn(f, U)
           q == SumOn(sq, U)
           a == f[x]
           e == (a - v) * (a - v)
<1>5. IsFiniteSet(U) /\ c \in Nat /\ Cardinality(T) = c + 1
  BY <1>2, RemoveOne
<1>6. Squares(f, sq, T)
  BY <1>2 DEF Squares
<1>7. /\ SumOn(f, T) = a + s /\ SumOn(sq, T) = a * a + q
      /\ a \in Int /\ s \in Int /\ q \in Int
  <2>1. sq[x] = a * a
    BY <1>6 DEF Squares
  <2>2. /\ SumOn(f, T) = a + s /\ SumOn(sq, T) = sq[x] + q
        /\ a \in Int /\ s \in Int /\ q \in Int
    <3> HIDE DEF Bad
    <3> QED BY <1>2, <1>4, <1>6, SquaresRemove
  <2> QED BY <2>1, <2>2, Zenon
<1>8. a \in Int /\ s \in Int /\ q \in Int /\ Squares(f, sq, U)
  BY <1>6, <1>7, Zenon DEF Squares
<1>9. Good(U)
  BY <1>1, <1>2
<1>10. D(T) = D(U) + e
  <2>1. D(T) = (a * a + q) - 2 * v * (a + s) + (c + 1) * v * v
    BY <1>5, <1>7 DEF SquaresOn
  <2>2. D(U) = q - 2 * v * s + c * v * v
    BY DEF SquaresOn
  <2> HIDE DEF D, a, s, q, c
  <2> QED BY <1>5, <1>8, <2>1, <2>2, SquaresStep
<1>11. e \in Nat /\ (e = 0 <=> a = v)
  <2> HIDE DEF a
  <2>1. a - v \in Int /\ (a - v = 0 <=> a = v)
    BY <1>8
  <2> QED BY <2>1, SquareNat
<1>12. (\A y \in T : f[y] = v) <=> (\A y \in U : f[y] = v) /\ a = v
  OBVIOUS
<1>13. D(T) \in Nat /\ (D(T) = 0 <=> D(U) = 0 /\ a = v)
  <2>1. D(U) \in Nat
    BY <1>9
  <2> HIDE DEF D, U, e, a
  <2> QED BY <1>10, <1>11, <2>1
<1>14. Good(T)
  <2> HIDE DEF D, U, a
  <2> QED BY <1>9, <1>12, <1>13
<1> QED BY <1>14

SpreadOn(f, sq, S) == Cardinality(S) * SumOn(sq, S) - SumOn(f, S) * SumOn(f, S)

\* The spread of n numbers is never below zero, and zero only when all are the same.
LEMMA SpreadOf ==
  ASSUME NEW S, IsFiniteSet(S), NEW f, NEW sq, Squares(f, sq, S)
  PROVE  /\ SpreadOn(f, sq, S) \in Nat
         /\ SpreadOn(f, sq, S) = 0 <=> \A x, y \in S : f[x] = f[y]
<1> DEFINE D(T) == SpreadOn(f, sq, T)
           Good(T) == D(T) \in Nat /\ (D(T) = 0 <=> \A x, y \in T : f[x] = f[y])
           Bad == {T \in (SUBSET S) : ~Good(T)}
<1> SUFFICES ASSUME Bad # {} PROVE FALSE
  OBVIOUS
<1>1. PICK T \in Bad : \A x \in T : T \ {x} \notin Bad
  <2>1. Bad \subseteq SUBSET S
    OBVIOUS
  <2> HIDE DEF Bad
  <2> QED BY <2>1, MinimalSubset
<1>2. T \in SUBSET S /\ IsFiniteSet(T)
  BY FS_Subset
<1>3. T # {}
  <2>1. Cardinality({}) = 0 /\ SumOn(f, {}) = 0 /\ SumOn(sq, {}) = 0
    BY SumEmpty, FS_EmptySet
  <2>2. D({}) = 0
    BY <2>1 DEF SpreadOn
  <2>3. Good({})
    BY <2>2
  <2> QED BY <2>3
<1>4. PICK x \in T : TRUE
  BY <1>3
<1> DEFINE U == T \ {x}
           c == Cardinality(U)
           s == SumOn(f, U)
           q == SumOn(sq, U)
           a == f[x]
           e == SquaresOn(f, sq, U, a)
<1>5. IsFiniteSet(U) /\ c \in Nat /\ Cardinality(T) = c + 1
  BY <1>2, RemoveOne
<1>6. Squares(f, sq, T)
  BY <1>2 DEF Squares
<1>7. /\ SumOn(f, T) = a + s /\ SumOn(sq, T) = a * a + q
      /\ a \in Int /\ s \in Int /\ q \in Int
  <2>1. sq[x] = a * a
    BY <1>6 DEF Squares
  <2>2. /\ SumOn(f, T) = a + s /\ SumOn(sq, T) = sq[x] + q
        /\ a \in Int /\ s \in Int /\ q \in Int
    <3> HIDE DEF Bad
    <3> QED BY <1>2, <1>4, <1>6, SquaresRemove
  <2> QED BY <2>1, <2>2, Zenon
<1>8. a \in Int /\ s \in Int /\ q \in Int /\ Squares(f, sq, U)
  BY <1>6, <1>7, Zenon DEF Squares
<1>9. Good(U)
  BY <1>1, <1>2
<1>10. D(T) = D(U) + e
  <2>1. D(T) = (c + 1) * (a * a + q) - (a + s) * (a + s)
    BY <1>5, <1>7 DEF SpreadOn
  <2>2. D(U) = c * q - s * s
    BY DEF SpreadOn
  <2>3. e = q - 2 * a * s + c * a * a
    BY DEF SquaresOn
  <2> HIDE DEF D, a, s, q, c, e
  <2> QED BY <1>5, <1>8, <2>1, <2>2, <2>3, SpreadStep
<1>11. e \in Nat /\ (e = 0 <=> \A y \in U : f[y] = a)
  <2> HIDE DEF U, a
  <2> QED BY <1>5, <1>8, SquaresFrom
<1>12. (\A y, z \in T : f[y] = f[z]) <=> (\A y, z \in U : f[y] = f[z]) /\ \A y \in U : f[y] = a
  OBVIOUS
<1>13. D(T) \in Nat /\ (D(T) = 0 <=> D(U) = 0 /\ e = 0)
  <2>1. D(U) \in Nat
    BY <1>9
  <2> HIDE DEF D, U, e
  <2> QED BY <1>10, <1>11, <2>1
<1>14. Good(T)
  <2> HIDE DEF D, U, a, e
  <2> QED BY <1>9, <1>11, <1>12, <1>13
<1> QED BY <1>14

-------------------------------------------------------------------------------
(* Ranks: the element that sorting puts in a place.                         *)

\* R orders the elements of J, elements of the same rank included.
Orders(R, J) ==
  /\ \A i, j \in J : <<i, j>> \in R \/ <<j, i>> \in R
  /\ \A i, j, k \in J : <<i, j>> \in R /\ <<j, k>> \in R => <<i, k>> \in R

LEMMA GreatestOf ==
  ASSUME NEW J, IsFiniteSet(J), NEW R, Orders(R, J), NEW B \in SUBSET J, B # {}
  PROVE  \E u \in B : \A j \in B : <<j, u>> \in R
<1> DEFINE Top(T, u) == \A j \in T : <<j, u>> \in R
           Bad == {T \in (SUBSET J) : T # {} /\ ~\E u \in T : Top(T, u)}
<1> SUFFICES ASSUME Bad # {} PROVE FALSE
  OBVIOUS
<1>1. PICK T \in Bad : \A x \in T : T \ {x} \notin Bad
  <2>1. Bad \subseteq SUBSET J
    OBVIOUS
  <2> HIDE DEF Bad
  <2> QED BY <2>1, MinimalSubset
<1>2. T \in SUBSET J /\ ~\E u \in T : Top(T, u)
  OBVIOUS
<1>3. PICK x \in T : TRUE
  OBVIOUS
<1>4. <<x, x>> \in R
  BY <1>2 DEF Orders
<1>5. CASE T \ {x} = {}
  <2>1. Top(T, x)
    BY <1>4, <1>5
  <2> QED BY <1>2, <2>1
<1>6. CASE T \ {x} # {}
  <2>1. PICK u \in T \ {x} : Top(T \ {x}, u)
    BY <1>1, <1>2, <1>6
  <2>2. CASE <<x, u>> \in R
    <3>1. Top(T, u)
      BY <2>1, <2>2
    <3> QED BY <1>2, <3>1
  <2>3. CASE <<x, u>> \notin R
    <3>1. <<u, x>> \in R
      BY <1>2, <2>3 DEF Orders
    <3>2. ASSUME NEW j \in T PROVE <<j, x>> \in R
      <4>1. CASE j = x
        BY <1>4, <4>1
      <4>2. CASE j # x
        <5>1. <<j, u>> \in R
          BY <2>1, <4>2
        <5>2. j \in J /\ u \in J /\ x \in J
          BY <1>2
        <5> QED BY <3>1, <5>1, <5>2 DEF Orders
      <4> QED BY <4>1, <4>2
    <3>3. Top(T, x)
      BY <3>2
    <3> QED BY <1>2, <3>3
  <2> QED BY <2>2, <2>3
<1> QED BY <1>5, <1>6

\* Every rank has an element: with fewer than k below it, and k up to it.
LEMMA RankExists ==
  ASSUME NEW J, IsFiniteSet(J), NEW R, Orders(R, J), NEW k \in 1 .. Cardinality(J)
  PROVE  \E v \in J : /\ Cardinality({j \in J : <<v, j>> \notin R}) < k
                      /\ k <= Cardinality({j \in J : <<j, v>> \in R})
<1> DEFINE UpToOf(v) == {j \in J : <<j, v>> \in R}
           BelowOf(v) == {j \in J : <<v, j>> \notin R}
           High == {v \in J : k <= Cardinality(UpToOf(v))}
           Sizes == {Cardinality(UpToOf(v)) : v \in High}
<1>1. Cardinality(J) \in Nat /\ k \in Nat /\ 1 <= k /\ k <= Cardinality(J)
  BY FS_CardinalityType
<1>2. ASSUME NEW v \in J
      PROVE  /\ IsFiniteSet(UpToOf(v)) /\ Cardinality(UpToOf(v)) \in Nat
             /\ IsFiniteSet(BelowOf(v)) /\ Cardinality(BelowOf(v)) \in Nat
  <2>1. UpToOf(v) \in SUBSET J /\ BelowOf(v) \in SUBSET J
    OBVIOUS
  <2> HIDE DEF UpToOf, BelowOf
  <2> QED BY <2>1, FS_Subset, FS_CardinalityType
<1>3. High # {}
  <2>1. J # {}
    BY <1>1, FS_EmptySet
  <2>2. PICK u \in J : \A j \in J : <<j, u>> \in R
    BY <2>1, GreatestOf
  <2>3. UpToOf(u) = J
    BY <2>2
  <2> HIDE DEF UpToOf
  <2> QED BY <1>1, <2>3
<1>4. PICK v \in High : \A w \in High : Cardinality(UpToOf(v)) <= Cardinality(UpToOf(w))
  <2>1. Sizes \subseteq Nat /\ Sizes # {}
    BY <1>2, <1>3
  <2>2. PICK m \in Sizes : \A n \in Sizes : m <= n
    <3> HIDE DEF Sizes
    <3> QED BY <2>1, SmallestNat
  <2> HIDE DEF UpToOf, High
  <2> QED BY <2>2
<1>5. v \in J /\ k <= Cardinality(UpToOf(v))
  BY <1>4
<1>6. Cardinality(BelowOf(v)) < k
  <2> SUFFICES ASSUME k <= Cardinality(BelowOf(v)) PROVE FALSE
    <3> HIDE DEF BelowOf
    <3> QED BY <1>1, <1>2, <1>5
  <2>1. BelowOf(v) # {} /\ BelowOf(v) \in SUBSET J
    <3>1. BelowOf(v) \in SUBSET J
      OBVIOUS
    <3> HIDE DEF BelowOf
    <3> QED BY <1>1, <3>1, FS_EmptySet
  <2>2. PICK w \in BelowOf(v) : \A j \in BelowOf(v) : <<j, w>> \in R
    <3> HIDE DEF BelowOf
    <3> QED BY <2>1, GreatestOf
  <2>3. w \in J /\ <<v, w>> \notin R /\ <<w, v>> \in R
    BY <1>5 DEF Orders
  <2>4. BelowOf(v) \subseteq UpToOf(w)
    BY <2>2
  <2>5. UpToOf(w) \subseteq UpToOf(v) \ {v}
    <3> SUFFICES ASSUME NEW j \in UpToOf(w) PROVE j \in UpToOf(v) /\ j # v
      OBVIOUS
    <3> QED BY <1>5, <2>3 DEF Orders
  <2>6. v \in UpToOf(v)
    BY <1>5 DEF Orders
  <2> HIDE DEF UpToOf, BelowOf
  <2>7. Cardinality(BelowOf(v)) <= Cardinality(UpToOf(w))
    BY <1>2, <2>3, <2>4, FS_Subset
  <2>8. Cardinality(UpToOf(v)) = Cardinality(UpToOf(v) \ {v}) + 1
        /\ IsFiniteSet(UpToOf(v) \ {v}) /\ Cardinality(UpToOf(v) \ {v}) \in Nat
    BY <1>2, <1>5, <2>6, RemoveOne
  <2>9. Cardinality(UpToOf(w)) <= Cardinality(UpToOf(v) \ {v})
    BY <2>5, <2>8, FS_Subset
  <2>10. w \in High
    BY <1>1, <1>2, <2>3, <2>7
  <2>11. Cardinality(UpToOf(v)) <= Cardinality(UpToOf(w))
    BY <1>4, <2>10
  <2> QED BY <1>2, <2>3, <2>8, <2>9, <2>11
<1> QED BY <1>5, <1>6

UpTo(s, v) == {j \in DOMAIN s : s[j] <= v}
Below(s, v) == {j \in DOMAIN s : s[j] < v}

LEMMA Places ==
  ASSUME NEW s \in Seq(Int)
  PROVE  /\ IsFiniteSet(DOMAIN s) /\ Cardinality(DOMAIN s) = Len(s) /\ Len(s) \in Nat
         /\ DOMAIN s = 1 .. Len(s) /\ \A j \in DOMAIN s : s[j] \in Int
<1>1. Len(s) \in Nat /\ DOMAIN s = 1 .. Len(s)
  OBVIOUS
<1>2. IsFiniteSet(1 .. Len(s)) /\ Cardinality(1 .. Len(s)) = Len(s)
  <2>1. 1 \in Int /\ Len(s) \in Int
    BY <1>1
  <2>2. IsFiniteSet(1 .. Len(s)) /\ Cardinality(1 .. Len(s)) = IF 1 > Len(s) THEN 0 ELSE Len(s) - 1 + 1
    BY <2>1, FS_Interval
  <2> QED BY <1>1, <2>2
<1> QED BY <1>1, <1>2

LEMMA CountsOf ==
  ASSUME NEW s \in Seq(Int), NEW v
  PROVE  /\ IsFiniteSet(UpTo(s, v)) /\ Cardinality(UpTo(s, v)) \in Nat
         /\ Cardinality(UpTo(s, v)) <= Len(s)
         /\ IsFiniteSet(Below(s, v)) /\ Cardinality(Below(s, v)) \in Nat
         /\ Cardinality(Below(s, v)) <= Len(s)
<1>1. UpTo(s, v) \in SUBSET DOMAIN s /\ Below(s, v) \in SUBSET DOMAIN s
  BY DEF UpTo, Below
<1> QED BY <1>1, Places, FS_Subset, FS_CardinalityType

\* The sample of rank k is one of the samples, and it has that rank.
LEMMA RankedIs ==
  ASSUME NEW s \in Seq(Int), NEW k \in 1 .. Len(s)
  PROVE  /\ Ranked(s, k) \in Int /\ \E j \in DOMAIN s : Ranked(s, k) = s[j]
         /\ Cardinality(Below(s, Ranked(s, k))) < k /\ k <= Cardinality(UpTo(s, Ranked(s, k)))
<1> DEFINE J == DOMAIN s
           R == {p \in J \X J : s[p[1]] <= s[p[2]]}
<1>1. IsFiniteSet(J) /\ Cardinality(J) = Len(s) /\ \A j \in J : s[j] \in Int
  BY Places
<1>2. \A i, j \in J : <<i, j>> \in R <=> s[i] <= s[j]
  OBVIOUS
<1>3. Orders(R, J)
  <2> HIDE DEF R, J
  <2>1. ASSUME NEW i \in J, NEW j \in J PROVE <<i, j>> \in R \/ <<j, i>> \in R
    <3>1. s[i] \in Int /\ s[j] \in Int
      BY <1>1
    <3>2. s[i] <= s[j] \/ s[j] <= s[i]
      BY <3>1
    <3> QED BY <1>2, <3>2
  <2>2. \A i, j, m \in J : <<i, j>> \in R /\ <<j, m>> \in R => <<i, m>> \in R
    BY <1>1, <1>2
  <2> QED BY <2>1, <2>2 DEF Orders
<1>4. PICK i \in J : /\ Cardinality({j \in J : <<i, j>> \notin R}) < k
                     /\ k <= Cardinality({j \in J : <<j, i>> \in R})
  <2>1. k \in 1 .. Cardinality(J)
    BY <1>1
  <2> HIDE DEF R, J
  <2> QED BY <1>1, <1>3, <2>1, RankExists
<1>5. {j \in J : <<i, j>> \notin R} = Below(s, s[i]) /\ {j \in J : <<j, i>> \in R} = UpTo(s, s[i])
  <2>1. \A j \in J : <<i, j>> \notin R <=> s[j] < s[i]
    <3> HIDE DEF R
    <3> QED BY <1>1, <1>2, <1>4
  <2>2. \A j \in J : <<j, i>> \in R <=> s[j] <= s[i]
    BY <1>2, <1>4
  <2> HIDE DEF R
  <2> QED BY <2>1, <2>2 DEF Below, UpTo
<1> DEFINE Fits(v) == Cardinality(Below(s, v)) < k /\ k <= Cardinality(UpTo(s, v))
<1>6. s[i] \in Range(s) /\ Fits(s[i])
  BY <1>4, <1>5 DEF Range
<1>7. Ranked(s, k) = CHOOSE v \in Range(s) : Fits(v)
  BY DEF Ranked, Below, UpTo
<1>8. Ranked(s, k) \in Range(s) /\ Fits(Ranked(s, k))
  <2> HIDE DEF Fits
  <2> QED BY <1>6, <1>7
<1>9. PICK j \in DOMAIN s : Ranked(s, k) = s[j]
  BY <1>8 DEF Range
<1> QED BY <1>1, <1>8, <1>9

\* Where k samples are at most b, so is the one of rank k.
LEMMA RankedAtMost ==
  ASSUME NEW s \in Seq(Int), NEW k \in 1 .. Len(s), NEW b \in Int, k <= Cardinality(UpTo(s, b))
  PROVE  Ranked(s, k) <= b
<1> DEFINE v == Ranked(s, k)
<1>1. v \in Int /\ Cardinality(Below(s, v)) < k
  BY RankedIs
<1> HIDE DEF v
<1> SUFFICES ASSUME b < v PROVE FALSE
  BY <1>1 DEF v
<1>2. UpTo(s, b) \subseteq Below(s, v)
  BY <1>1, Places DEF UpTo, Below
<1>3. Cardinality(UpTo(s, b)) <= Cardinality(Below(s, v))
  BY <1>2, CountsOf, FS_Subset
<1> QED BY <1>1, <1>3, CountsOf

\* Where fewer than k samples are below b, the one of rank k is not.
LEMMA RankedAtLeast ==
  ASSUME NEW s \in Seq(Int), NEW k \in 1 .. Len(s), NEW b \in Int, Cardinality(Below(s, b)) < k
  PROVE  b <= Ranked(s, k)
<1> DEFINE v == Ranked(s, k)
<1>1. v \in Int /\ k <= Cardinality(UpTo(s, v))
  BY RankedIs
<1> HIDE DEF v
<1> SUFFICES ASSUME v < b PROVE FALSE
  BY <1>1 DEF v
<1>2. UpTo(s, v) \subseteq Below(s, b)
  BY <1>1, Places DEF UpTo, Below
<1>3. Cardinality(UpTo(s, v)) <= Cardinality(Below(s, b))
  BY <1>2, CountsOf, FS_Subset
<1> QED BY <1>1, <1>3, CountsOf

LEMMA RankedMonotone ==
  ASSUME NEW s \in Seq(Int), NEW k \in 1 .. Len(s), NEW m \in k .. Len(s)
  PROVE  Ranked(s, k) <= Ranked(s, m)
<1>1. m \in 1 .. Len(s)
  OBVIOUS
<1>2. Ranked(s, m) \in Int /\ m <= Cardinality(UpTo(s, Ranked(s, m)))
  BY <1>1, RankedIs
<1>3. k <= Cardinality(UpTo(s, Ranked(s, m)))
  BY <1>2, CountsOf
<1> QED BY <1>2, <1>3, RankedAtMost

-------------------------------------------------------------------------------
(* The median, and the filter built on it.                                  *)

\* The two places in the middle; they are the same of an odd number of samples.
LowerMiddle(s) == (Len(s) + 1) \div 2
UpperMiddle(s) == Len(s) \div 2 + 1

LEMMA Middles ==
  ASSUME NEW s \in Seq(Int), s # <<>>
  PROVE  /\ LowerMiddle(s) \in 1 .. Len(s) /\ UpperMiddle(s) \in LowerMiddle(s) .. Len(s)
         /\ 2 * LowerMiddle(s) >= Len(s)
         /\ Len(s) >= 3 => UpperMiddle(s) < Len(s)
         /\ LowerMiddle(s) = IF Len(s) % 2 = 0 THEN Len(s) \div 2 ELSE Len(s) \div 2 + 1
<1> DEFINE n == Len(s)
<1>1. n \in Nat /\ n > 0
  OBVIOUS
<1> HIDE DEF n
<1>2. n \div 2 \in Nat /\ n % 2 \in {0, 1} /\ n = 2 * (n \div 2) + (n % 2)
  BY <1>1
<1>3. (n + 1) \div 2 = IF n % 2 = 0 THEN n \div 2 ELSE n \div 2 + 1
  BY <1>1, <1>2
<1> QED BY <1>1, <1>2, <1>3 DEF n, LowerMiddle, UpperMiddle

LEMMA MedianIs ==
  ASSUME NEW s \in Seq(Int), s # <<>>
  PROVE  /\ Median2(s) = Ranked(s, LowerMiddle(s)) + Ranked(s, UpperMiddle(s))
         /\ Ranked(s, LowerMiddle(s)) \in Int /\ Ranked(s, UpperMiddle(s)) \in Int
         /\ Ranked(s, LowerMiddle(s)) <= Ranked(s, UpperMiddle(s))
<1>1. /\ LowerMiddle(s) \in 1 .. Len(s) /\ UpperMiddle(s) \in LowerMiddle(s) .. Len(s)
      /\ UpperMiddle(s) \in 1 .. Len(s)
  BY Middles
<1>2. Ranked(s, LowerMiddle(s)) \in Int /\ Ranked(s, UpperMiddle(s)) \in Int
  BY <1>1, RankedIs
<1>3. Ranked(s, LowerMiddle(s)) <= Ranked(s, UpperMiddle(s))
  BY <1>1, RankedMonotone
<1>4. CASE Len(s) % 2 = 0
  <2>1. LowerMiddle(s) = Len(s) \div 2
    BY <1>4, Middles
  <2> QED BY <1>2, <1>3, <1>4, <2>1 DEF Median2, UpperMiddle
<1>5. CASE Len(s) % 2 # 0
  <2>1. LowerMiddle(s) = Len(s) \div 2 + 1
    BY <1>5, Middles
  <2>2. Median2(s) = 2 * Ranked(s, Len(s) \div 2 + 1)
    BY <1>5 DEF Median2
  <2> QED BY <1>2, <1>3, <2>1, <2>2 DEF UpperMiddle
<1> QED BY <1>4, <1>5

LEMMA DeviationsAre ==
  ASSUME NEW s \in Seq(Int)
  PROVE  /\ Deviation2(s) \in Seq(Nat) /\ Deviation2(s) \in Seq(Int)
         /\ Len(Deviation2(s)) = Len(s) /\ Median2(s) \in Int
         /\ \A k \in DOMAIN s : Deviation2(s)[k] = Distance(2 * s[k], Median2(s))
<1>1. Median2(s) \in Int
  <2>1. CASE s = <<>>
    BY <2>1 DEF Median2
  <2>2. CASE s # <<>>
    BY <2>2, MedianIs
  <2> QED BY <2>1, <2>2
<1> DEFINE m == Median2(s)
<1>2. Deviation2(s) = [k \in 1 .. Len(s) |-> Distance(2 * s[k], m)]
  BY DEF Deviation2
<1>3. \A k \in 1 .. Len(s) : Distance(2 * s[k], m) \in Nat
  <2> SUFFICES ASSUME NEW k \in 1 .. Len(s) PROVE Distance(2 * s[k], m) \in Nat
    OBVIOUS
  <2>1. s[k] \in Int /\ 2 * s[k] \in Int
    OBVIOUS
  <2> HIDE DEF m
  <2> QED BY <1>1, <2>1 DEF Distance, m
<1> HIDE DEF m
<1>4. Len(s) \in Nat /\ DOMAIN s = 1 .. Len(s)
  OBVIOUS
<1>5. Deviation2(s) \in Seq(Nat) /\ Deviation2(s) \in Seq(Int) /\ Len(Deviation2(s)) = Len(s)
  <2> DEFINE d == Deviation2(s)
  <2>1. DOMAIN d = 1 .. Len(s) /\ d \in [1 .. Len(s) -> Nat]
    BY <1>2, <1>3
  <2> HIDE DEF d
  <2>2. d \in Seq(Nat) /\ Len(d) = Len(s)
    BY <1>4, <2>1
  <2>3. d \in Seq(Int)
    BY <2>2
  <2> QED BY <2>2, <2>3 DEF d
<1> QED BY <1>1, <1>2, <1>4, <1>5 DEF m

\* The samples the filter keeps.
KeptPlaces(s) == {k \in DOMAIN s : WithinMad(Deviation2(s)[k], Mad4(s))}

\* Half of the deviations are at most the lower of the two middle ones, and none of those
\* is an outlier.
LEMMA HalfWithinMad ==
  ASSUME NEW s \in Seq(Int), s # <<>>
  PROVE  /\ IsFiniteSet(KeptPlaces(s)) /\ Cardinality(KeptPlaces(s)) \in Nat
         /\ 2 * Cardinality(KeptPlaces(s)) >= Len(s)
         /\ Cardinality(KeptPlaces(s)) <= Len(s)
<1> DEFINE d == Deviation2(s)
           low == Ranked(d, LowerMiddle(d))
<1>1. d \in Seq(Int) /\ d \in Seq(Nat) /\ Len(d) = Len(s) /\ d # <<>>
  BY DeviationsAre
<1>2. \A k \in DOMAIN d : d[k] \in Nat
  BY <1>1
<1>3. DOMAIN d = DOMAIN s
  BY <1>1, Places
<1> HIDE DEF d
<1>4. low \in Nat /\ LowerMiddle(d) <= Cardinality(UpTo(d, low)) /\ Mad4(s) \in Int /\ 2 * low <= Mad4(s)
  <2>1. LowerMiddle(d) \in 1 .. Len(d)
    BY <1>1, Middles
  <2>2. PICK j \in DOMAIN d : low = d[j]
    BY <1>1, <2>1, RankedIs
  <2>3. low \in Nat
    BY <1>2, <2>2
  <2>4. LowerMiddle(d) <= Cardinality(UpTo(d, low))
    BY <1>1, <2>1, RankedIs
  <2>5. Mad4(s) = Median2(d)
    BY DEF Mad4, d
  <2>6. Median2(d) = low + Ranked(d, UpperMiddle(d)) /\ low <= Ranked(d, UpperMiddle(d))
        /\ Ranked(d, UpperMiddle(d)) \in Int
    BY <1>1, MedianIs
  <2> HIDE DEF low
  <2> QED BY <2>3, <2>4, <2>5, <2>6
<1> HIDE DEF low
<1>5. UpTo(d, low) \subseteq KeptPlaces(s)
  <2> SUFFICES ASSUME NEW k \in DOMAIN d, d[k] <= low PROVE k \in KeptPlaces(s)
    BY DEF UpTo
  <2>1. d[k] \in Nat /\ 20000 * d[k] <= 51891 * Mad4(s)
    BY <1>2, <1>4
  <2> QED BY <1>3, <2>1 DEF KeptPlaces, WithinMad, d
<1>6. IsFiniteSet(KeptPlaces(s)) /\ Cardinality(KeptPlaces(s)) \in Nat /\ Cardinality(KeptPlaces(s)) <= Len(s)
  <2>1. KeptPlaces(s) \in SUBSET DOMAIN s
    BY DEF KeptPlaces
  <2> QED BY <2>1, Places, FS_Subset, FS_CardinalityType
<1>7. Cardinality(UpTo(d, low)) <= Cardinality(KeptPlaces(s)) /\ Cardinality(UpTo(d, low)) \in Nat
  BY <1>1, <1>5, <1>6, CountsOf, FS_Subset
<1>8. 2 * LowerMiddle(d) >= Len(s) /\ LowerMiddle(d) \in Int
  BY <1>1, Middles
<1> QED BY <1>4, <1>6, <1>7, <1>8

\* Sets of places are counted through one by one.
LEMMA PlaceOfRank ==
  ASSUME NEW J, J \subseteq Nat, IsFiniteSet(J), NEW n \in 1 .. Cardinality(J)
  PROVE  \E k \in J : Cardinality({j \in J : j <= k}) = n
<1> DEFINE R == {p \in J \X J : p[1] <= p[2]}
<1>1. \A i, j \in J : <<i, j>> \in R <=> i <= j
  OBVIOUS
<1>2. Orders(R, J)
  <2> HIDE DEF R
  <2>1. \A i, j \in J : <<i, j>> \in R \/ <<j, i>> \in R
    <3> SUFFICES ASSUME NEW i \in J, NEW j \in J PROVE <<i, j>> \in R \/ <<j, i>> \in R
      OBVIOUS
    <3>1. i \in Nat /\ j \in Nat
      OBVIOUS
    <3>2. i <= j \/ j <= i
      BY <3>1
    <3> QED BY <1>1, <3>2
  <2>2. \A i, j, m \in J : <<i, j>> \in R /\ <<j, m>> \in R => <<i, m>> \in R
    BY <1>1
  <2> QED BY <2>1, <2>2 DEF Orders
<1>3. PICK k \in J : /\ Cardinality({j \in J : <<k, j>> \notin R}) < n
                     /\ n <= Cardinality({j \in J : <<j, k>> \in R})
  <2> HIDE DEF R
  <2> QED BY <1>2, RankExists
<1> DEFINE Lower == {j \in J : j < k}
           Up == {j \in J : j <= k}
<1>4. {j \in J : <<k, j>> \notin R} = Lower /\ {j \in J : <<j, k>> \in R} = Up
  <2>1. \A j \in J : <<k, j>> \notin R <=> j < k
    <3> HIDE DEF R
    <3> QED BY <1>1
  <2>2. \A j \in J : <<j, k>> \in R <=> j <= k
    BY <1>1
  <2> HIDE DEF R
  <2> QED BY <2>1, <2>2
<1>5. Up \ {k} = Lower /\ k \in Up
  <2>1. k \in Nat /\ \A j \in J : j \in Nat /\ (j < k <=> j <= k /\ j # k)
    OBVIOUS
  <2>2. \A j \in J : (j \in Up /\ j # k) <=> j \in Lower
    BY <2>1
  <2>3. Up \subseteq J /\ Lower \subseteq J /\ k \in Up
    BY <2>1
  <2> HIDE DEF Up, Lower
  <2> QED BY <2>2, <2>3
<1>6. IsFiniteSet(Up)
  <2>1. Up \in SUBSET J
    OBVIOUS
  <2> HIDE DEF Up
  <2> QED BY <2>1, FS_Subset
<1>7. Cardinality(Up) = Cardinality(Lower) + 1 /\ Cardinality(Lower) \in Nat
  <2> HIDE DEF Up, Lower
  <2> QED BY <1>5, <1>6, RemoveOne
<1>8. Cardinality(Lower) < n /\ n <= Cardinality(Up)
  BY <1>3, <1>4
<1>9. Cardinality(Up) = n
  <2> HIDE DEF Up, Lower
  <2> QED BY <1>7, <1>8
<1> QED BY <1>9

\* What the filter leaves: samples, and at least half of them.
LEMMA FilterKeepsHalf ==
  ASSUME NEW s \in Seq(Int)
  PROVE  /\ RemoveMadOutliers(s) \in Seq(Int) /\ 2 * Len(RemoveMadOutliers(s)) >= Len(s)
         /\ s # <<>> => Len(RemoveMadOutliers(s)) > 0
<1>1. CASE Unfiltered(s)
  BY <1>1 DEF RemoveMadOutliers
<1>2. CASE ~Unfiltered(s)
  <2> DEFINE kept == KeptPlaces(s)
             Kth(n) == CHOOSE k \in kept : Cardinality({j \in kept : j <= k}) = n
             c == Cardinality(kept)
  <2>1. s # <<>>
    BY <1>2 DEF Unfiltered
  <2>2. IsFiniteSet(kept) /\ c \in Nat /\ 2 * c >= Len(s)
    BY <2>1, HalfWithinMad
  <2>3. RemoveMadOutliers(s) = [n \in 1 .. c |-> s[Kth(n)]]
    BY <1>2 DEF RemoveMadOutliers, KeptPlaces
  <2>4. kept \subseteq DOMAIN s /\ kept \subseteq Nat
    BY Places DEF KeptPlaces
  <2> HIDE DEF kept
  <2>5. ASSUME NEW n \in 1 .. c PROVE s[Kth(n)] \in Int
    <3>1. \E k \in kept : Cardinality({j \in kept : j <= k}) = n
      BY <2>2, <2>4, PlaceOfRank
    <3>2. Kth(n) \in kept
      BY <3>1
    <3> HIDE DEF Kth
    <3> QED BY <2>4, <3>2, Places
  <2> HIDE DEF Kth, c
  <2>6. RemoveMadOutliers(s) \in [1 .. c -> Int]
    BY <2>3, <2>5
  <2>7. RemoveMadOutliers(s) \in Seq(Int) /\ Len(RemoveMadOutliers(s)) = c
    BY <2>2, <2>6
  <2>8. Len(s) \in Nat /\ Len(s) > 0
    BY <2>1
  <2> QED BY <2>2, <2>7, <2>8
<1> QED BY <1>1, <1>2

-------------------------------------------------------------------------------
(* The sums and the verdicts.                                               *)

LEMMA SumOfInts ==
  ASSUME NEW s \in Seq(Int)
  PROVE  /\ Sum(s) = SumOn(s, DOMAIN s) /\ Sum(s) \in Int
         /\ SumOfSquares(s) \in Int /\ Spread(s) \in Nat
         /\ Spread(s) = 0 <=> \A j, k \in DOMAIN s : s[j] = s[k]
<1> DEFINE sq == [k \in DOMAIN s |-> s[k] * s[k]]
<1>1. Sum(s) = SumOn(s, DOMAIN s)
  BY DEF Sum, SumOn, SumFunctionOnSet, FoldFunction
<1>2. SumOfSquares(s) = SumOn(sq, DOMAIN s)
  <2>1. SumOfSquares(s) = SumOn(sq, DOMAIN sq)
    BY DEF SumOfSquares, SumOn, SumFunctionOnSet, FoldFunction
  <2>2. DOMAIN sq = DOMAIN s
    OBVIOUS
  <2> QED BY <2>1, <2>2
<1>3. IsFiniteSet(DOMAIN s) /\ Cardinality(DOMAIN s) = Len(s)
  BY Places
<1>4. \A x \in DOMAIN s : s[x] \in Int /\ sq[x] = s[x] * s[x] /\ sq[x] \in Int
  BY Places
<1> HIDE DEF sq
<1>5. SumOn(s, DOMAIN s) \in Int /\ SumOn(sq, DOMAIN s) \in Int
  BY <1>3, <1>4, SumInt
<1> DEFINE d == Cardinality(DOMAIN s) * SumOn(sq, DOMAIN s) - SumOn(s, DOMAIN s) * SumOn(s, DOMAIN s)
<1>6. d \in Nat /\ (d = 0 <=> \A j, k \in DOMAIN s : s[j] = s[k])
  <2> DEFINE D == DOMAIN s
  <2>1. IsFiniteSet(D) /\ \A x \in D : s[x] \in Int /\ sq[x] = s[x] * s[x]
    BY <1>3, <1>4
  <2> HIDE DEF D
  <2>2. /\ SpreadOn(s, sq, D) \in Nat
        /\ SpreadOn(s, sq, D) = 0 <=> \A x, y \in D : s[x] = s[y]
    BY <2>1, SpreadOf DEF Squares
  <2> QED BY <2>2 DEF D, SpreadOn
<1>7. Spread(s) = d
  BY <1>1, <1>2, <1>3 DEF Spread
<1> HIDE DEF d
<1> QED BY <1>1, <1>2, <1>5, <1>6, <1>7

LEMMA IntMonotone ==
  ASSUME NEW a \in Int, NEW b \in Int, a <= b, NEW p \in Nat
  PROVE  a * p <= b * p
<1>1. PICK d \in Nat : b = a + d
  <2>1. b - a \in Nat /\ b = a + (b - a)
    OBVIOUS
  <2> QED BY <2>1
<1>2. d * p \in Nat /\ a * p \in Int
  BY ProductNat
<1>3. b * p = a * p + d * p
  BY <1>1
<1> QED BY <1>2, <1>3

\* The classifier's errors are counted of the samples as they are; when there is none, the
\* threshold lies between the classes.
LEMMA ErrorsSeparate ==
  ASSUME NEW a \in Seq(Int), NEW b \in Seq(Int), a # <<>>, b # <<>>
  PROVE  /\ ClassificationErrors(a, b) \in Nat
         /\ ClassificationErrors(a, b) = 0 =>
              \A k \in DOMAIN a, n \in DOMAIN b : a[k] < b[n]
<1> DEFINE f == RemoveMadOutliers(a)
           r == RemoveMadOutliers(b)
           T == Sum(f) * Len(r) + Sum(r) * Len(f)
           P == 2 * Len(f) * Len(r)
           Value2(v) == 2 * v * Len(f) * Len(r)
<1>1. f \in Seq(Int) /\ r \in Seq(Int) /\ Len(f) > 0 /\ Len(r) > 0
  BY FilterKeepsHalf
<1>2. FixedErrors(a, b) = {k \in DOMAIN a : Value2(a[k]) > T}
  BY DEF FixedErrors, AboveThreshold
<1>3. RandomErrors(a, b) = {k \in DOMAIN b : ~(Value2(b[k]) > T)}
  BY DEF RandomErrors, AboveThreshold
<1>4. /\ IsFiniteSet(FixedErrors(a, b)) /\ Cardinality(FixedErrors(a, b)) \in Nat
      /\ IsFiniteSet(RandomErrors(a, b)) /\ Cardinality(RandomErrors(a, b)) \in Nat
  <2>1. FixedErrors(a, b) \in SUBSET DOMAIN a /\ RandomErrors(a, b) \in SUBSET DOMAIN b
    BY <1>2, <1>3
  <2> QED BY <2>1, Places, FS_Subset, FS_CardinalityType
<1>5. ClassificationErrors(a, b) = Cardinality(FixedErrors(a, b)) + Cardinality(RandomErrors(a, b))
  BY DEF ClassificationErrors
<1> HIDE DEF f, r
<1>6. Len(f) \in Nat /\ Len(r) \in Nat /\ P \in Nat
  <2>1. Len(f) \in Nat /\ Len(r) \in Nat
    BY <1>1
  <2> QED BY <2>1, ProductNat
<1>7. T \in Int
  <2>1. Sum(f) \in Int /\ Sum(r) \in Int
    BY <1>1, SumOfInts
  <2>2. Sum(f) * Len(r) \in Int /\ Sum(r) * Len(f) \in Int
    BY <1>6, <2>1
  <2> QED BY <2>2
<1>8. \A v \in Int : Value2(v) = v * P /\ v * P \in Int
  BY <1>6
<1> HIDE DEF T, P, Value2
<1>9. ASSUME ClassificationErrors(a, b) = 0, NEW k \in DOMAIN a, NEW n \in DOMAIN b
      PROVE  a[k] < b[n]
  <2>1. FixedErrors(a, b) = {} /\ RandomErrors(a, b) = {}
    <3>1. Cardinality(FixedErrors(a, b)) = 0 /\ Cardinality(RandomErrors(a, b)) = 0
      BY <1>4, <1>5, <1>9
    <3> QED BY <1>4, <3>1, FS_EmptySet
  <2>2. a[k] \in Int /\ b[n] \in Int
    BY Places
  <2>3. ~(Value2(a[k]) > T) /\ Value2(b[n]) > T
    BY <1>2, <1>3, <1>9, <2>1
  <2>4. a[k] * P < b[n] * P
    <3>1. ~(a[k] * P > T) /\ b[n] * P > T /\ a[k] * P \in Int /\ b[n] * P \in Int
      BY <1>8, <2>2, <2>3
    <3> QED BY <1>7, <3>1
  <2>5. ~(b[n] <= a[k])
    <3> SUFFICES ASSUME b[n] <= a[k] PROVE FALSE
      OBVIOUS
    <3>1. b[n] * P <= a[k] * P
      BY <1>6, <2>2, IntMonotone
    <3>2. a[k] * P \in Int /\ b[n] * P \in Int
      BY <1>8, <2>2
    <3> QED BY <2>4, <3>1, <3>2
  <2> QED BY <2>2, <2>5
<1>10. ClassificationErrors(a, b) \in Nat
  BY <1>4, <1>5
<1> QED BY <1>9, <1>10

LEMMA DistanceSymmetric ==
  ASSUME NEW a \in Int, NEW b \in Int
  PROVE  Distance(a, b) = Distance(b, a) /\ Distance(a, b) \in Nat
  BY DEF Distance

\* Of any samples.
LEMMA SignalSymmetric ==
  ASSUME NEW a, NEW b, Len(a) \in Nat, Len(b) \in Nat, Sum(a) \in Int, Sum(b) \in Int
  PROVE  WelchSignal(a, b) = WelchSignal(b, a)
<1>1. Sum(a) * Len(b) \in Int /\ Sum(b) * Len(a) \in Int
  OBVIOUS
<1> DEFINE d == Distance(Sum(a) * Len(b), Sum(b) * Len(a))
<1>2. d = Distance(Sum(b) * Len(a), Sum(a) * Len(b)) /\ d \in Nat
  BY <1>1, DistanceSymmetric
<1>3. WelchSignal(a, b) = d * d * (Len(a) - 1) * (Len(b) - 1)
  BY DEF WelchSignal
<1>4. WelchSignal(b, a) = d * d * (Len(b) - 1) * (Len(a) - 1)
  BY <1>2 DEF WelchSignal
<1>5. d * d \in Int /\ Len(a) - 1 \in Int /\ Len(b) - 1 \in Int
  <2> HIDE DEF d
  <2> QED BY <1>2
<1> DEFINE e == d * d
           m == Len(a) - 1
           n == Len(b) - 1
<1>6. WelchSignal(a, b) = e * m * n /\ WelchSignal(b, a) = e * n * m
  BY <1>3, <1>4
<1> HIDE DEF e, m, n, d
<1>7. e * m * n = e * n * m
  BY <1>5 DEF e, m, n
<1> QED BY <1>6, <1>7

LEMMA NoiseSymmetric ==
  ASSUME NEW a, NEW b, Len(a) \in Nat, Len(b) \in Nat, Spread(a) \in Int, Spread(b) \in Int
  PROVE  WelchNoise(a, b) = WelchNoise(b, a) /\ SnrNoise(a, b) = SnrNoise(b, a)
<1> DEFINE x == Spread(a) * (Len(b) - 1) * Len(b) * Len(b)
           y == Spread(b) * (Len(a) - 1) * Len(a) * Len(a)
           v == Spread(a) * (Len(b) - 1) * Len(b)
           w == Spread(b) * (Len(a) - 1) * Len(a)
           p == Len(a) * Len(b)
           q == Len(b) * Len(a)
<1>1. x \in Int /\ y \in Int /\ v \in Int /\ w \in Int
  OBVIOUS
<1>2. p = q
  OBVIOUS
<1>3. WelchNoise(a, b) = x + y /\ WelchNoise(b, a) = y + x
  BY DEF WelchNoise
<1>4. SnrNoise(a, b) = p * (v + w) /\ SnrNoise(b, a) = q * (w + v)
  BY DEF SnrNoise
<1> HIDE DEF x, y, v, w, p, q
<1>5. v + w = w + v /\ x + y = y + x
  BY <1>1
<1> QED BY <1>2, <1>3, <1>4, <1>5

\* Neither the ratio nor the size of t depends on which class comes first.
LEMMA VerdictsSymmetric ==
  ASSUME NEW a \in Seq(Int), NEW b \in Seq(Int)
  PROVE  LET f == RemoveMadOutliers(a)
             r == RemoveMadOutliers(b)
         IN  /\ WelchSignal(a, b) = WelchSignal(b, a)
             /\ WelchNoise(a, b) = WelchNoise(b, a)
             /\ SnrSignal(f, r) = SnrSignal(r, f) /\ SnrNoise(f, r) = SnrNoise(r, f)
             /\ ThresholdExceeded(a, b) <=> ThresholdExceeded(b, a)
             /\ HasSnr(a, b) <=> HasSnr(b, a)
<1> DEFINE f == RemoveMadOutliers(a)
           r == RemoveMadOutliers(b)
<1>1. f \in Seq(Int) /\ r \in Seq(Int)
  BY FilterKeepsHalf
<1>2. WelchSignal(a, b) = WelchSignal(b, a) /\ WelchNoise(a, b) = WelchNoise(b, a)
  <2>1. /\ Len(a) \in Nat /\ Sum(a) \in Int /\ Spread(a) \in Int
        /\ Len(b) \in Nat /\ Sum(b) \in Int /\ Spread(b) \in Int
    BY SumOfInts
  <2> QED BY <2>1, SignalSymmetric, NoiseSymmetric
<1>3. SnrSignal(f, r) = SnrSignal(r, f) /\ SnrNoise(f, r) = SnrNoise(r, f)
  <2> HIDE DEF f, r
  <2>1. /\ Len(f) \in Nat /\ Sum(f) \in Int /\ Spread(f) \in Int
        /\ Len(r) \in Nat /\ Sum(r) \in Int /\ Spread(r) \in Int
    BY <1>1, SumOfInts
  <2>2. WelchSignal(f, r) = WelchSignal(r, f) /\ SnrNoise(f, r) = SnrNoise(r, f)
    BY <2>1, SignalSymmetric, NoiseSymmetric
  <2> QED BY <2>2 DEF SnrSignal
<1>4. ThresholdExceeded(a, b) <=> ThresholdExceeded(b, a)
  BY <1>2 DEF ThresholdExceeded
<1>5. HasSnr(a, b) <=> HasSnr(b, a)
  BY <1>3 DEF HasSnr
<1> QED BY <1>2, <1>3, <1>4, <1>5
===============================================================================
