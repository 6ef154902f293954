---------------------------- MODULE SumTheorems ----------------------------
(***************************************************************************)
(* What the sums of the models amount to (SumFunctionOnSet, the fold of    *)
(* the community modules), for every finite set.  The library's induction  *)
(* theorems have an operator for the property, which no prover here can    *)
(* instantiate; a set of counterexamples has a minimal one all the same    *)
(* (WFMin), and that is how the inductions below are done.                 *)
(***************************************************************************)
EXTENDS Integers, FiniteSets, Functions, FiniteSetTheorems, WellFoundedInduction, TLAPS

Picked(s) == CHOOSE x \in s : TRUE
Rest(s)   == s \ {Picked(s)}

\* The recursion of MapThenFoldSet, for a family D of sets.
Folded(f, g, s) == IF s = {} THEN 0 ELSE f[Picked(s)] + g[Rest(s)]
IsFold(f, g, D) == g = [s \in D |-> Folded(f, g, s)]
Fold(f, S)      == CHOOSE g : IsFold(f, g, SUBSET S)

LEMMA SumIsFold ==
  ASSUME NEW f, NEW S
  PROVE  SumFunctionOnSet(f, S) = Fold(f, S)[S]
BY DEF SumFunctionOnSet, FoldFunctionOnSet, MapThenFoldSet, Fold, IsFold, Folded, Picked, Rest

\* A family of subsets of a finite set has a minimal member.
LEMMA MinimalSet ==
  ASSUME NEW S, IsFiniteSet(S), NEW T, T \subseteq SUBSET S, T # {}
  PROVE  \E s \in T : \A t \in SUBSET s : t # s => t \notin T
<1>1. IsWellFoundedOn(StrictSubsetOrdering(S), FiniteSubsetsOf(S))
  BY FS_StrictSubsetOrderingWellFounded
<1>2. FiniteSubsetsOf(S) = SUBSET S
  BY FS_FiniteSubsetsOfFinite
<1>3. PICK s \in T : \A t \in T : ~(<<t, s>> \in StrictSubsetOrdering(S))
  BY <1>1, <1>2, WFMin
<1> QED
  BY <1>3 DEF StrictSubsetOrdering

LEMMA PickedIsMember ==
  ASSUME NEW s, s # {}
  PROVE  Picked(s) \in s /\ Rest(s) \subseteq s /\ Rest(s) # s
BY DEF Picked, Rest

\* A set of natural numbers has a least one.
LEMMA LeastNumber ==
  ASSUME NEW T \in SUBSET Nat, T # {}
  PROVE  \E n \in T : \A m \in T : n <= m
<1>1. PICK n \in T : \A m \in T : ~ (<<m, n>> \in OpToRel(<, Nat))
  BY NatLessThanWellFounded, WFMin
<1>2. \A m \in T : ~ (m < n)
  BY <1>1 DEF OpToRel
<1> QED
  BY <1>2

UpTo(S, n) == {s \in SUBSET S : Cardinality(s) <= n}

\* The recursion has a solution, which is built up by the size of the sets.
LEMMA FoldExists ==
  ASSUME NEW f, NEW S, IsFiniteSet(S)
  PROVE  \E g : IsFold(f, g, SUBSET S)
<1> DEFINE Solved(n) == \E g : IsFold(f, g, UpTo(S, n))
           Bad == {n \in Nat : ~Solved(n)}
<1>1. \A s \in SUBSET S : IsFiniteSet(s) /\ Cardinality(s) \in Nat
  BY FS_Subset, FS_CardinalityType
<1>2. Solved(0)
  <2>1. UpTo(S, 0) = {{}}
    BY <1>1, FS_EmptySet DEF UpTo
  <2>2. IsFold(f, [s \in UpTo(S, 0) |-> 0], UpTo(S, 0))
    BY <2>1 DEF IsFold, Folded
  <2> QED
    BY <2>2
<1>3. ASSUME NEW n \in Nat, Solved(n)
      PROVE  Solved(n + 1)
  <2>1. PICK g : IsFold(f, g, UpTo(S, n))
    BY <1>3
  <2> DEFINE h == [s \in UpTo(S, n + 1) |-> Folded(f, g, s)]
  <2>2. \A s \in UpTo(S, n) : g[s] = Folded(f, g, s)
    BY <2>1 DEF IsFold
  <2>3. UpTo(S, n) \subseteq UpTo(S, n + 1)
    BY <1>1 DEF UpTo
  <2>4. \A s \in UpTo(S, n) : h[s] = g[s]
    BY <2>2, <2>3
  <2>5. \A s \in UpTo(S, n + 1) : s # {} => Rest(s) \in UpTo(S, n)
    <3> SUFFICES ASSUME NEW s \in UpTo(S, n + 1), s # {}
                 PROVE  Rest(s) \in UpTo(S, n)
      OBVIOUS
    <3>1. Picked(s) \in s /\ s \in SUBSET S /\ Cardinality(s) <= n + 1
      BY PickedIsMember DEF UpTo
    <3>2. Cardinality(Rest(s)) = Cardinality(s) - 1
      BY <1>1, <3>1, FS_RemoveElement DEF Rest
    <3> QED
      BY <1>1, <3>1, <3>2 DEF UpTo, Rest
  <2>6. \A s \in UpTo(S, n + 1) : Folded(f, g, s) = Folded(f, h, s)
    BY <2>4, <2>5 DEF Folded
  <2>7. IsFold(f, h, UpTo(S, n + 1))
    BY <2>6 DEF IsFold
  <2> QED
    BY <2>7
<1>4. \A n \in Nat : Solved(n)
  <2> SUFFICES ASSUME Bad # {} PROVE FALSE
    OBVIOUS
  <2>1. PICK n \in Bad : \A m \in Bad : n <= m
    BY LeastNumber
  <2>2. n \in Nat /\ n # 0 /\ n - 1 \notin Bad
    BY <1>2, <2>1
  <2>3. n - 1 \in Nat /\ Solved(n - 1)
    BY <2>2
  <2>4. Solved((n - 1) + 1)
    BY <1>3, <2>3
  <2>5. (n - 1) + 1 = n
    BY <2>2
  <2> HIDE DEF Solved
  <2> QED
    BY <2>1, <2>4, <2>5
<1>5. UpTo(S, Cardinality(S)) = SUBSET S
  BY FS_Subset DEF UpTo
<1>6. Solved(Cardinality(S))
  BY <1>1, <1>4
<1> QED
  BY <1>5, <1>6

LEMMA FoldUnfolds ==
  ASSUME NEW f, NEW S, IsFiniteSet(S)
  PROVE  \A s \in SUBSET S : Fold(f, S)[s] = Folded(f, Fold(f, S), s)
<1>1. IsFold(f, Fold(f, S), SUBSET S)
  BY FoldExists DEF Fold
<1> HIDE DEF Fold
<1> QED
  BY <1>1 DEF IsFold

\* The sum over a set is that of one of its elements and the rest.
LEMMA SumStep ==
  ASSUME NEW f, NEW S, IsFiniteSet(S)
  PROVE  /\ S = {} => SumFunctionOnSet(f, S) = 0
         /\ S # {} => SumFunctionOnSet(f, S) = f[Picked(S)] + SumFunctionOnSet(f, Rest(S))
<1> DEFINE R == Rest(S)
           F == Fold(f, S)
           G == Fold(f, R)
           Bad == {s \in SUBSET R : F[s] # G[s]}
<1>1. R \subseteq S /\ IsFiniteSet(R)
  BY FS_Subset DEF Rest
<1>2. \A s \in SUBSET S : F[s] = Folded(f, F, s)
  BY FoldUnfolds
<1>3. \A s \in SUBSET R : G[s] = Folded(f, G, s)
  BY <1>1, FoldUnfolds
<1> HIDE DEF F, G, R
<1>4. Bad = {}
  <2> SUFFICES ASSUME Bad # {} PROVE FALSE
    OBVIOUS
  <2>0. \E s \in Bad : \A t \in SUBSET s : t # s => t \notin Bad
    <3>1. Bad \subseteq SUBSET R /\ Bad # {}
      OBVIOUS
    <3> HIDE DEF Bad
    <3> QED
      BY <1>1, <3>1, MinimalSet
  <2>1. PICK s \in Bad : \A t \in SUBSET s : t # s => t \notin Bad
    BY <2>0
  <2>2. CASE s = {}
    BY <1>1, <1>2, <1>3, <2>1, <2>2 DEF Folded
  <2>3. CASE s # {}
    <3>1. Rest(s) \in SUBSET R /\ Rest(s) \in SUBSET s /\ Rest(s) # s
      BY <2>1, <2>3, PickedIsMember
    <3>2. F[Rest(s)] = G[Rest(s)]
      BY <2>1, <3>1
    <3>3. Folded(f, F, s) = Folded(f, G, s)
      BY <2>3, <3>2 DEF Folded
    <3> QED
      BY <1>1, <1>2, <1>3, <2>1, <3>3
  <2> QED
    BY <2>2, <2>3
<1>5. F[R] = G[R]
  BY <1>4
<1>6. SumFunctionOnSet(f, S) = F[S] /\ SumFunctionOnSet(f, R) = G[R]
  BY SumIsFold DEF F, G
<1>7. SumFunctionOnSet(f, S) = IF S = {} THEN 0 ELSE f[Picked(S)] + SumFunctionOnSet(f, R)
  BY <1>2, <1>5, <1>6 DEF Folded, R
<1> QED
  BY <1>7 DEF R

LEMMA SumOfNone == ASSUME NEW f PROVE SumFunctionOnSet(f, {}) = 0
BY SumStep, FS_EmptySet

\* A sum of integers is one.
LEMMA SumType ==
  ASSUME NEW S, IsFiniteSet(S), NEW f, \A x \in S : f[x] \in Int
  PROVE  SumFunctionOnSet(f, S) \in Int
<1> DEFINE Bad == {s \in SUBSET S : SumFunctionOnSet(f, s) \notin Int}
<1> SUFFICES ASSUME Bad # {} PROVE FALSE
  OBVIOUS
<1>0. \E s \in Bad : \A t \in SUBSET s : t # s => t \notin Bad
  <2>1. Bad \subseteq SUBSET S /\ Bad # {}
    OBVIOUS
  <2> HIDE DEF Bad
  <2> QED
    BY <2>1, MinimalSet
<1>1. PICK s \in Bad : \A t \in SUBSET s : t # s => t \notin Bad
  BY <1>0
<1>2. IsFiniteSet(s)
  BY <1>1, FS_Subset
<1>3. CASE s = {}
  BY <1>1, <1>3, SumOfNone
<1>4. CASE s # {}
  <2>1. Picked(s) \in S /\ Rest(s) \in SUBSET s /\ Rest(s) # s
    BY <1>1, <1>4, PickedIsMember
  <2>2. SumFunctionOnSet(f, Rest(s)) \in Int /\ f[Picked(s)] \in Int
    BY <1>1, <2>1
  <2> QED
    BY <1>1, <1>2, <1>4, <2>2, SumStep
<1> QED
  BY <1>3, <1>4

LEMMA SubsetSumType ==
  ASSUME NEW S, IsFiniteSet(S), NEW f, \A x \in S : f[x] \in Int, NEW T \in SUBSET S
  PROVE  IsFiniteSet(T) /\ SumFunctionOnSet(f, T) \in Int
BY FS_Subset, SumType

\* Another summand adds its value, whichever one the fold would take first.
LEMMA SumAdds ==
  ASSUME NEW S, IsFiniteSet(S), NEW f, \A x \in S : f[x] \in Int, NEW x \in S
  PROVE  SumFunctionOnSet(f, S) = SumFunctionOnSet(f, S \ {x}) + f[x]
<1> DEFINE Total(s) == SumFunctionOnSet(f, s)
           Bad == {s \in SUBSET S : \E y \in s : Total(s) # Total(s \ {y}) + f[y]}
<1>1. \A s \in SUBSET S : IsFiniteSet(s) /\ Total(s) \in Int
  BY SubsetSumType
<1>2. \A s \in SUBSET S : s # {} => Total(s) = f[Picked(s)] + Total(Rest(s))
  BY <1>1, SumStep
<1> HIDE DEF Total
<1>3. Bad = {}
  <2> SUFFICES ASSUME Bad # {} PROVE FALSE
    OBVIOUS
  <2>0. \E s \in Bad : \A t \in SUBSET s : t # s => t \notin Bad
    <3>1. Bad \subseteq SUBSET S /\ Bad # {}
      OBVIOUS
    <3> HIDE DEF Bad
    <3> QED
      BY <3>1, MinimalSet
  <2>1. PICK s \in Bad : \A t \in SUBSET s : t # s => t \notin Bad
    BY <2>0
  <2>2. PICK y \in s : Total(s) # Total(s \ {y}) + f[y]
    BY <2>1
  <2> DEFINE c == Picked(s)
  <2>3. c \in s /\ Rest(s) = s \ {c} /\ s \in SUBSET S
    BY <2>1, <2>2, PickedIsMember DEF Rest
  <2>4. Total(s) = f[c] + Total(s \ {c})
    BY <1>2, <2>2, <2>3
  <2> HIDE DEF c
  <2>5. CASE y = c
    BY <1>1, <2>2, <2>3, <2>4, <2>5
  <2>6. CASE y # c
    <3> DEFINE u == s \ {c, y}
    <3>1. s \ {c} \notin Bad /\ s \ {y} \notin Bad
      BY <2>1, <2>2, <2>3
    <3>2. y \in s \ {c} /\ c \in s \ {y} /\ (s \ {c}) \ {y} = u /\ (s \ {y}) \ {c} = u
      BY <2>2, <2>3, <2>6
    <3>3. Total(s \ {c}) = Total(u) + f[y]
      <4>1. Total(s \ {c}) = Total((s \ {c}) \ {y}) + f[y]
        BY <2>3, <3>1, <3>2
      <4> QED
        BY <3>2, <4>1
    <3>4. Total(s \ {y}) = Total(u) + f[c]
      <4>1. Total(s \ {y}) = Total((s \ {y}) \ {c}) + f[c]
        BY <2>3, <3>1, <3>2
      <4> QED
        BY <3>2, <4>1
    <3>5. Total(u) \in Int /\ f[y] \in Int /\ f[c] \in Int
      BY <1>1, <2>2, <2>3
    <3> HIDE DEF u
    <3> QED
      BY <2>2, <2>4, <3>3, <3>4, <3>5
  <2> QED
    BY <2>5, <2>6
<1> QED
  BY <1>3 DEF Total

\* Only the values on the set matter.
LEMMA SumAgrees ==
  ASSUME NEW S, IsFiniteSet(S), NEW f, NEW g, \A x \in S : f[x] = g[x]
  PROVE  SumFunctionOnSet(f, S) = SumFunctionOnSet(g, S)
<1> DEFINE Bad == {s \in SUBSET S : SumFunctionOnSet(f, s) # SumFunctionOnSet(g, s)}
<1> SUFFICES ASSUME Bad # {} PROVE FALSE
  OBVIOUS
<1>1. \E s \in Bad : \A t \in SUBSET s : t # s => t \notin Bad
  <2>1. Bad \subseteq SUBSET S /\ Bad # {}
    OBVIOUS
  <2> HIDE DEF Bad
  <2> QED
    BY <2>1, MinimalSet
<1>2. PICK s \in Bad : \A t \in SUBSET s : t # s => t \notin Bad
  BY <1>1
<1>3. s \in SUBSET S /\ IsFiniteSet(s)
  BY <1>2, FS_Subset
<1>4. CASE s = {}
  BY <1>2, <1>4, SumOfNone
<1>5. CASE s # {}
  <2>1. Picked(s) \in S /\ Rest(s) \in SUBSET s /\ Rest(s) # s
    BY <1>3, <1>5, PickedIsMember
  <2>2. SumFunctionOnSet(f, Rest(s)) = SumFunctionOnSet(g, Rest(s)) /\ f[Picked(s)] = g[Picked(s)]
    BY <1>2, <1>3, <2>1
  <2> QED
    BY <1>2, <1>3, <1>5, <2>2, SumStep
<1> QED
  BY <1>4, <1>5

\* A sum of natural numbers is one, and grows with its set.
LEMMA SumGrows ==
  ASSUME NEW S, IsFiniteSet(S), NEW f, \A x \in S : f[x] \in Nat, NEW T \in SUBSET S
  PROVE  /\ SumFunctionOnSet(f, T) \in Nat
         /\ SumFunctionOnSet(f, T) <= SumFunctionOnSet(f, S)
<1> DEFINE Total(s) == SumFunctionOnSet(f, s)
           Bad == {s \in SUBSET S : T \subseteq s /\ ~(Total(T) <= Total(s))}
           Odd == {s \in SUBSET S : Total(s) \notin Nat}
<1>1. \A s \in SUBSET S : IsFiniteSet(s) /\ Total(s) \in Int
  BY SubsetSumType
<1>2. \A s \in SUBSET S : \A x \in s : Total(s) = Total(s \ {x}) + f[x]
  <2> SUFFICES ASSUME NEW s \in SUBSET S, NEW x \in s
               PROVE  Total(s) = Total(s \ {x}) + f[x]
    OBVIOUS
  <2>1. IsFiniteSet(s) /\ \A y \in s : f[y] \in Int
    BY <1>1
  <2> QED
    BY <2>1, SumAdds
<1>3. Total({}) = 0
  BY SumOfNone
<1> HIDE DEF Total
<1>4. Odd = {}
  <2> SUFFICES ASSUME Odd # {} PROVE FALSE
    OBVIOUS
  <2>1. \E s \in Odd : \A t \in SUBSET s : t # s => t \notin Odd
    <3>1. Odd \subseteq SUBSET S /\ Odd # {}
      OBVIOUS
    <3> HIDE DEF Odd
    <3> QED
      BY <3>1, MinimalSet
  <2>2. PICK s \in Odd : \A t \in SUBSET s : t # s => t \notin Odd
    BY <2>1
  <2>3. PICK x \in s : TRUE
    <3>1. CASE s = {}
      <4>1. Total(s) = 0
        BY <1>3, <3>1
      <4> QED
        BY <2>2, <4>1
    <3> QED
      BY <3>1
  <2>4. s \ {x} \notin Odd /\ s \in SUBSET S
    BY <2>2, <2>3
  <2>5. Total(s \ {x}) \in Nat /\ f[x] \in Nat /\ Total(s) = Total(s \ {x}) + f[x]
    BY <1>2, <2>3, <2>4
  <2> QED
    BY <2>2, <2>5
<1>5. Bad = {}
  <2> SUFFICES ASSUME Bad # {} PROVE FALSE
    OBVIOUS
  <2>1. \E s \in Bad : \A t \in SUBSET s : t # s => t \notin Bad
    <3>1. Bad \subseteq SUBSET S /\ Bad # {}
      OBVIOUS
    <3> HIDE DEF Bad
    <3> QED
      BY <3>1, MinimalSet
  <2>2. PICK s \in Bad : \A t \in SUBSET s : t # s => t \notin Bad
    BY <2>1
  <2>3. PICK x \in s : x \notin T
    <3>1. CASE s = T
      <4>1. Total(s) = Total(T) /\ Total(T) \in Int
        BY <1>1, <3>1
      <4> QED
        BY <2>2, <4>1
    <3>2. T \subseteq s
      BY <2>2
    <3> QED
      BY <3>1, <3>2
  <2>4. s \ {x} \notin Bad /\ s \in SUBSET S /\ T \subseteq s \ {x}
    BY <2>2, <2>3
  <2>5. Total(T) <= Total(s \ {x}) /\ f[x] \in Nat /\ Total(s) = Total(s \ {x}) + f[x]
    BY <1>2, <2>3, <2>4
  <2>6. Total(T) \in Int /\ Total(s \ {x}) \in Int
    BY <1>1, <2>4
  <2> QED
    BY <2>2, <2>5, <2>6
<1> QED
  BY <1>4, <1>5 DEF Total

LEMMA SumOfOne ==
  ASSUME NEW x, NEW f, f[x] \in Int
  PROVE  SumFunctionOnSet(f, {x}) = f[x]
<1>1. IsFiniteSet({x}) /\ {x} \ {x} = {}
  BY FS_Singleton
<1>2. SumFunctionOnSet(f, {x}) = SumFunctionOnSet(f, {x} \ {x}) + f[x]
  BY <1>1, SumAdds
<1> QED
  BY <1>1, <1>2, SumOfNone

\* One value changes the sum by what it changes itself.
LEMMA SumChanges ==
  ASSUME NEW S, IsFiniteSet(S), NEW f, \A x \in S : f[x] \in Int,
         NEW g, NEW x \in S, g[x] \in Int, \A y \in S \ {x} : g[y] = f[y]
  PROVE  SumFunctionOnSet(g, S) = SumFunctionOnSet(f, S) - f[x] + g[x]
<1>1. \A y \in S : g[y] \in Int
  OBVIOUS
<1>2. /\ SumFunctionOnSet(g, S) = SumFunctionOnSet(g, S \ {x}) + g[x]
      /\ SumFunctionOnSet(f, S) = SumFunctionOnSet(f, S \ {x}) + f[x]
  BY <1>1, SumAdds
<1>3. IsFiniteSet(S \ {x}) /\ SumFunctionOnSet(f, S \ {x}) \in Int
  BY SubsetSumType
<1>4. SumFunctionOnSet(g, S \ {x}) = SumFunctionOnSet(f, S \ {x})
  BY <1>3, SumAgrees
<1> QED
  BY <1>2, <1>3, <1>4
=============================================================================
