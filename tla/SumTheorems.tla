----------------------------- MODULE SumTheorems -----------------------------
(***************************************************************************)
(* Sums over finite sets, as SumFunctionOnSet computes them: one element   *)
(* picked and the rest summed, whichever element CHOOSE picks.             *)
(*                                                                         *)
(* The proofs go by a least counterexample, and not by induction: what is  *)
(* claimed of every finite set is false of some least one, of which every  *)
(* proper subset keeps the claim. At the end, the least and the greatest   *)
(* of a set of numbers, and a claim handed on from one number to the next  *)
(* up to a bound, which is as much of induction as the walks of series     *)
(* and votes need.                                                         *)
(***************************************************************************)
EXTENDS Integers, FiniteSets, FiniteSetsExt, Functions, FiniteSetTheorems, WellFoundedInduction, TLAPS

\* Among subsets of a finite set some one contains no other.
LEMMA LeastSubset ==
  ASSUME NEW S, IsFiniteSet(S), NEW T, T \subseteq SUBSET S, T # {}
  PROVE  \E m \in T : \A t \in T : t \subseteq m => t = m
<1>1. FiniteSubsetsOf(S) = SUBSET S
  BY FS_FiniteSubsetsOfFinite
<1>2. IsWellFoundedOn(StrictSubsetOrdering(S), SUBSET S)
  BY <1>1, FS_StrictSubsetOrderingWellFounded
<1>3. PICK m \in T : \A t \in T : ~(<<t, m>> \in StrictSubsetOrdering(S))
  BY <1>2, WFMin
<1>4. ASSUME NEW t \in T, t \subseteq m, t # m  PROVE FALSE
  <2>1. <<t, m>> \in StrictSubsetOrdering(S)
    BY <1>4 DEF StrictSubsetOrdering
  <2> QED BY <1>3, <2>1
<1> QED BY <1>4

-----------------------------------------------------------------------------
(***************************************************************************)
(* The recursive function of a fold exists, and its value at a set does    *)
(* not depend on the set it was defined for.                               *)
(***************************************************************************)
Picked(s) == CHOOSE x \in s : TRUE

Folds(g, f, D) ==
  g = [s \in SUBSET D |-> IF s = {} THEN 0 ELSE f[Picked(s)] + g[s \ {Picked(s)}]]

LEMMA PickedIsIn ==
  ASSUME NEW s, s # {}
  PROVE  Picked(s) \in s
BY DEF Picked

LEMMA FoldsAgree ==
  ASSUME NEW f, NEW A, NEW B, NEW g, NEW h, Folds(g, f, A), Folds(h, f, B),
         NEW t, IsFiniteSet(t), t \subseteq A, t \subseteq B
  PROVE  g[t] = h[t]
<1> DEFINE Wrong == {s \in SUBSET t : g[s] # h[s]}
<1> SUFFICES ASSUME Wrong # {}  PROVE FALSE
  OBVIOUS
<1>1. PICK m \in Wrong : \A s \in Wrong : s \subseteq m => s = m
  <2>1. Wrong \subseteq SUBSET t
    OBVIOUS
  <2> HIDE DEF Wrong
  <2> QED BY <2>1, LeastSubset
<1>2. m \subseteq t /\ g[m] # h[m] /\ m \in SUBSET A /\ m \in SUBSET B
  OBVIOUS
<1>3. /\ g[m] = IF m = {} THEN 0 ELSE f[Picked(m)] + g[m \ {Picked(m)}]
      /\ h[m] = IF m = {} THEN 0 ELSE f[Picked(m)] + h[m \ {Picked(m)}]
  BY <1>2 DEF Folds
<1>4. m # {}
  BY <1>2, <1>3
<1>5. g[m \ {Picked(m)}] = h[m \ {Picked(m)}]
  <2>1. m \ {Picked(m)} \subseteq m /\ m \ {Picked(m)} # m
    BY <1>4, PickedIsIn
  <2> QED BY <1>1, <1>2, <2>1
<1> QED BY <1>2, <1>3, <1>4, <1>5

LEMMA FoldsExist ==
  ASSUME NEW f, NEW S, IsFiniteSet(S)
  PROVE  \E g : Folds(g, f, S)
<1> DEFINE Wrong == {s \in SUBSET S : ~ \E g : Folds(g, f, s)}
<1> SUFFICES ASSUME Wrong # {}  PROVE FALSE
  OBVIOUS
<1>1. PICK D \in Wrong : \A s \in Wrong : s \subseteq D => s = D
  <2>1. Wrong \subseteq SUBSET S
    OBVIOUS
  <2> HIDE DEF Wrong
  <2> QED BY <2>1, LeastSubset
<1>2. D \subseteq S /\ ~ \E g : Folds(g, f, D)
  OBVIOUS
<1> HIDE DEF Wrong
<1> DEFINE G(s) == CHOOSE g : Folds(g, f, s)
           Rest(s) == s \ {Picked(s)}
           h == [s \in SUBSET D |-> IF s = {} THEN 0 ELSE f[Picked(s)] + G(Rest(s))[Rest(s)]]
<1>3. ASSUME NEW s, s \subseteq D, s # D  PROVE Folds(G(s), f, s)
  <2>1. \E g : Folds(g, f, s)
    BY <1>1, <1>2, <1>3 DEF Wrong
  <2> QED BY <2>1
<1>4. ASSUME NEW s, s \subseteq D, s # {}
      PROVE  Rest(s) \subseteq D /\ Rest(s) # D /\ Rest(s) \subseteq s
  BY <1>4, PickedIsIn
<1>5. ASSUME NEW s, s \subseteq D, s # D  PROVE h[s] = G(s)[s]
  <2>1. Folds(G(s), f, s)
    BY <1>3, <1>5
  <2> HIDE DEF G
  <2>2. G(s)[s] = IF s = {} THEN 0 ELSE f[Picked(s)] + G(s)[Rest(s)]
    BY <2>1, s \in SUBSET s DEF Folds
  <2>3. CASE s = {}
    BY <2>2, <2>3, <1>5
  <2>4. CASE s # {}
    <3>1. Folds(G(Rest(s)), f, Rest(s)) /\ Rest(s) \subseteq s
      BY <1>3, <1>4, <1>5, <2>4
    <3>2. IsFiniteSet(Rest(s))
      BY <1>2, <1>5, <3>1, FS_Subset
    <3>3. G(s)[Rest(s)] = G(Rest(s))[Rest(s)]
      BY <2>1, <3>1, <3>2, FoldsAgree
    <3>4. h[s] = f[Picked(s)] + G(Rest(s))[Rest(s)]
      BY <1>5, <2>4
    <3> QED BY <2>2, <2>4, <3>3, <3>4
  <2> QED BY <2>3, <2>4
<1>6. h = [s \in SUBSET D |-> IF s = {} THEN 0 ELSE f[Picked(s)] + h[Rest(s)]]
  <2>1. \A s \in SUBSET D : s # {} => h[Rest(s)] = G(Rest(s))[Rest(s)]
    BY <1>4, <1>5
  <2> DEFINE v(s) == IF s = {} THEN 0 ELSE f[Picked(s)] + G(Rest(s))[Rest(s)]
             w(s) == IF s = {} THEN 0 ELSE f[Picked(s)] + h[Rest(s)]
  <2>2. h = [s \in SUBSET D |-> v(s)]
    OBVIOUS
  <2> HIDE DEF h, G, Rest
  <2>3. \A s \in SUBSET D : v(s) = w(s)
    BY <2>1
  <2> HIDE DEF v, w
  <2>4. h = [s \in SUBSET D |-> w(s)]
    BY <2>2, <2>3
  <2> QED BY <2>4 DEF w
<1>7. Folds(h, f, D)
  BY <1>6, Zenon DEF Folds
<1> QED BY <1>2, <1>7

-----------------------------------------------------------------------------
(***************************************************************************)
(* The sum of a set is one of its elements and the sum of the rest.        *)
(***************************************************************************)
LEMMA SumIsFold ==
  ASSUME NEW f, NEW S, IsFiniteSet(S)
  PROVE  \E g : Folds(g, f, S) /\ SumFunctionOnSet(f, S) = g[S]
<1> DEFINE g == CHOOSE g : Folds(g, f, S)
<1>1. Folds(g, f, S)
  BY FoldsExist
<1>2. SumFunctionOnSet(f, S) = g[S]
  BY Zenon DEF SumFunctionOnSet, FoldFunctionOnSet, MapThenFoldSet, Folds, Picked
<1> QED BY <1>1, <1>2

LEMMA SumOfNone == ASSUME NEW f  PROVE SumFunctionOnSet(f, {}) = 0
<1>1. PICK g : Folds(g, f, {}) /\ SumFunctionOnSet(f, {}) = g[{}]
  BY SumIsFold, FS_EmptySet
<1> QED BY <1>1 DEF Folds

LEMMA SumOfSome ==
  ASSUME NEW f, NEW S, IsFiniteSet(S), S # {}
  PROVE  SumFunctionOnSet(f, S) = f[Picked(S)] + SumFunctionOnSet(f, S \ {Picked(S)})
<1> DEFINE R == S \ {Picked(S)}
<1>1. IsFiniteSet(R) /\ R \subseteq S
  BY FS_Subset
<1>2. PICK g : Folds(g, f, S) /\ SumFunctionOnSet(f, S) = g[S]
  BY SumIsFold
<1>3. PICK h : Folds(h, f, R) /\ SumFunctionOnSet(f, R) = h[R]
  BY <1>1, SumIsFold
<1>4. g[R] = h[R]
  BY <1>1, <1>2, <1>3, FoldsAgree
<1>5. g[S] = f[Picked(S)] + g[R]
  BY <1>2, S \in SUBSET S DEF Folds
<1> QED BY <1>2, <1>3, <1>4, <1>5

\* A sum of integers is an integer.
LEMMA SumIsInteger ==
  ASSUME NEW f, NEW S, IsFiniteSet(S), \A x \in S : f[x] \in Int
  PROVE  SumFunctionOnSet(f, S) \in Int
<1> DEFINE Wrong == {s \in SUBSET S : SumFunctionOnSet(f, s) \notin Int}
<1> SUFFICES ASSUME Wrong # {}  PROVE FALSE
  BY S \in SUBSET S
<1>1. Wrong \subseteq SUBSET S
  OBVIOUS
<1>2. PICK m \in Wrong : \A s \in Wrong : s \subseteq m => s = m
  <2> HIDE DEF Wrong
  <2> QED BY <1>1, LeastSubset
<1>3. m \subseteq S /\ SumFunctionOnSet(f, m) \notin Int /\ IsFiniteSet(m)
  BY FS_Subset
<1>4. m # {}
  BY <1>3, SumOfNone
<1>5. Picked(m) \in m /\ m \ {Picked(m)} \subseteq m /\ m \ {Picked(m)} # m
  BY <1>4, PickedIsIn
<1>6. SumFunctionOnSet(f, m \ {Picked(m)}) \in Int
  BY <1>2, <1>3, <1>5
<1>7. SumFunctionOnSet(f, m) = f[Picked(m)] + SumFunctionOnSet(f, m \ {Picked(m)})
  BY <1>3, <1>4, SumOfSome
<1> QED BY <1>3, <1>5, <1>6, <1>7

\* Any element of the set may be the one that is taken out.
LEMMA SumOfOneAndRest ==
  ASSUME NEW f, NEW S, IsFiniteSet(S), \A x \in S : f[x] \in Int, NEW a \in S
  PROVE  SumFunctionOnSet(f, S) = f[a] + SumFunctionOnSet(f, S \ {a})
<1> DEFINE Sum(s) == SumFunctionOnSet(f, s)
           Wrong == {s \in SUBSET S : \E x \in s : Sum(s) # f[x] + Sum(s \ {x})}
<1> SUFFICES ASSUME Wrong # {}  PROVE FALSE
  BY S \in SUBSET S
<1>1. Wrong \subseteq SUBSET S
  OBVIOUS
<1>2. PICK m \in Wrong : \A s \in Wrong : s \subseteq m => s = m
  <2> HIDE DEF Wrong
  <2> QED BY <1>1, LeastSubset
<1>3. PICK x \in m : Sum(m) # f[x] + Sum(m \ {x})
  OBVIOUS
<1>4. m \subseteq S /\ IsFiniteSet(m)
  BY FS_Subset
<1> DEFINE c == Picked(m)
<1>5. c \in m /\ Sum(m) = f[c] + Sum(m \ {c})
  BY <1>3, <1>4, PickedIsIn, SumOfSome
<1>6. x # c
  BY <1>3, <1>5
<1> HIDE DEF c
<1>7. \A s \in SUBSET m : IsFiniteSet(s) /\ Sum(s) \in Int
  BY <1>4, SumIsInteger, FS_Subset
<1>8. \A s \in SUBSET m : s # m => \A y \in s : Sum(s) = f[y] + Sum(s \ {y})
  BY <1>2, <1>4
<1> HIDE DEF Sum, Wrong
<1>9. Sum(m \ {c}) = f[x] + Sum(m \ {c, x})
  <2>1. m \ {c} # m /\ x \in m \ {c} /\ (m \ {c}) \ {x} = m \ {c, x}
    BY <1>5, <1>6
  <2> QED BY <2>1, <1>8
<1>10. Sum(m \ {x}) = f[c] + Sum(m \ {c, x})
  <2>1. m \ {x} # m /\ c \in m \ {x} /\ (m \ {x}) \ {c} = m \ {c, x}
    BY <1>5, <1>6
  <2> QED BY <2>1, <1>8
<1>11. f[c] \in Int /\ f[x] \in Int /\ Sum(m \ {c, x}) \in Int
  BY <1>4, <1>5, <1>7
<1> QED BY <1>3, <1>5, <1>9, <1>10, <1>11

\* One more element adds its value.
LEMMA SumOfOneMore ==
  ASSUME NEW f, NEW S, IsFiniteSet(S), NEW a, a \notin S, \A x \in S \union {a} : f[x] \in Int
  PROVE  SumFunctionOnSet(f, S \union {a}) = SumFunctionOnSet(f, S) + f[a]
<1>1. IsFiniteSet(S \union {a}) /\ (S \union {a}) \ {a} = S
  BY FS_AddElement
<1>2. SumFunctionOnSet(f, S \union {a}) = f[a] + SumFunctionOnSet(f, S)
  BY <1>1, SumOfOneAndRest
<1>3. SumFunctionOnSet(f, S) \in Int
  BY SumIsInteger
<1> QED BY <1>2, <1>3

-----------------------------------------------------------------------------
(***************************************************************************)
(* Sums compared.                                                          *)
(***************************************************************************)
LEMMA SumIsMonotone ==
  ASSUME NEW f, NEW g, NEW S, IsFiniteSet(S),
         \A x \in S : f[x] \in Int /\ g[x] \in Int /\ f[x] <= g[x]
  PROVE  SumFunctionOnSet(f, S) <= SumFunctionOnSet(g, S)
<1> DEFINE Wrong == {s \in SUBSET S : ~(SumFunctionOnSet(f, s) <= SumFunctionOnSet(g, s))}
<1> SUFFICES ASSUME Wrong # {}  PROVE FALSE
  BY S \in SUBSET S
<1>1. Wrong \subseteq SUBSET S
  OBVIOUS
<1>2. PICK m \in Wrong : \A s \in Wrong : s \subseteq m => s = m
  <2> HIDE DEF Wrong
  <2> QED BY <1>1, LeastSubset
<1>3. m \subseteq S /\ ~(SumFunctionOnSet(f, m) <= SumFunctionOnSet(g, m)) /\ IsFiniteSet(m)
  BY FS_Subset
<1>4. m # {}
  BY <1>3, SumOfNone
<1> DEFINE c == Picked(m)
           r == m \ {c}
<1>5. c \in m /\ r \subseteq m /\ r # m /\ IsFiniteSet(r)
  BY <1>3, <1>4, PickedIsIn, FS_Subset
<1>6. /\ SumFunctionOnSet(f, m) = f[c] + SumFunctionOnSet(f, r)
      /\ SumFunctionOnSet(g, m) = g[c] + SumFunctionOnSet(g, r)
  BY <1>3, <1>4, SumOfSome
<1> HIDE DEF c, r
<1>7. SumFunctionOnSet(f, r) <= SumFunctionOnSet(g, r)
  BY <1>2, <1>3, <1>5
<1>8. SumFunctionOnSet(f, r) \in Int /\ SumFunctionOnSet(g, r) \in Int
  BY <1>3, <1>5, SumIsInteger
<1>9. f[c] \in Int /\ g[c] \in Int /\ f[c] <= g[c]
  BY <1>3, <1>5
<1> QED BY <1>3, <1>6, <1>7, <1>8, <1>9

\* Sums of the same values are the same.
LEMMA SumIsOfValues ==
  ASSUME NEW f, NEW g, NEW S, IsFiniteSet(S), \A x \in S : f[x] \in Int /\ f[x] = g[x]
  PROVE  SumFunctionOnSet(f, S) = SumFunctionOnSet(g, S)
<1>1. \A x \in S : f[x] \in Int /\ g[x] \in Int /\ f[x] <= g[x] /\ g[x] <= f[x]
  OBVIOUS
<1>2. SumFunctionOnSet(f, S) <= SumFunctionOnSet(g, S) /\ SumFunctionOnSet(g, S) <= SumFunctionOnSet(f, S)
  BY <1>1, SumIsMonotone
<1>3. SumFunctionOnSet(f, S) \in Int /\ SumFunctionOnSet(g, S) \in Int
  BY <1>1, SumIsInteger
<1> QED BY <1>2, <1>3

\* What is not negative sums to what is not negative.
LEMMA SumIsNatural ==
  ASSUME NEW f, NEW S, IsFiniteSet(S), \A x \in S : f[x] \in Nat
  PROVE  SumFunctionOnSet(f, S) \in Nat
<1> DEFINE Wrong == {s \in SUBSET S : SumFunctionOnSet(f, s) \notin Nat}
<1> SUFFICES ASSUME Wrong # {}  PROVE FALSE
  BY S \in SUBSET S
<1>1. Wrong \subseteq SUBSET S
  OBVIOUS
<1>2. PICK m \in Wrong : \A s \in Wrong : s \subseteq m => s = m
  <2> HIDE DEF Wrong
  <2> QED BY <1>1, LeastSubset
<1>3. m \subseteq S /\ SumFunctionOnSet(f, m) \notin Nat /\ IsFiniteSet(m)
  BY FS_Subset
<1>4. m # {}
  BY <1>3, SumOfNone
<1>5. Picked(m) \in m /\ m \ {Picked(m)} \subseteq m /\ m \ {Picked(m)} # m
  BY <1>4, PickedIsIn
<1>6. SumFunctionOnSet(f, m \ {Picked(m)}) \in Nat
  BY <1>2, <1>3, <1>5
<1>7. SumFunctionOnSet(f, m) = f[Picked(m)] + SumFunctionOnSet(f, m \ {Picked(m)})
  BY <1>3, <1>4, SumOfSome
<1> QED BY <1>3, <1>5, <1>6, <1>7

\* A larger set of values that are not negative sums to no less.
LEMMA SumGrowsWithItsSet ==
  ASSUME NEW f, NEW S, IsFiniteSet(S), \A x \in S : f[x] \in Nat, NEW R \in SUBSET S
  PROVE  SumFunctionOnSet(f, R) <= SumFunctionOnSet(f, S)
<1> DEFINE Sum(s) == SumFunctionOnSet(f, s)
           Wrong == {s \in SUBSET S : R \subseteq s /\ ~(Sum(R) <= Sum(s))}
<1> SUFFICES ASSUME Wrong # {}  PROVE FALSE
  BY S \in SUBSET S
<1>1. Wrong \subseteq SUBSET S
  OBVIOUS
<1>2. PICK m \in Wrong : \A s \in Wrong : s \subseteq m => s = m
  <2> HIDE DEF Wrong
  <2> QED BY <1>1, LeastSubset
<1>3. /\ m \subseteq S /\ R \subseteq m /\ ~(Sum(R) <= Sum(m)) /\ IsFiniteSet(m) /\ IsFiniteSet(R)
  BY FS_Subset
<1>4. Sum(R) \in Nat
  BY <1>3, SumIsNatural
<1>5. PICK a \in m : a \notin R
  BY <1>3, <1>4
<1>6. m \ {a} # m /\ R \subseteq m \ {a} /\ m \ {a} \subseteq m /\ IsFiniteSet(m \ {a})
  BY <1>3, <1>5, FS_Subset
<1>7. Sum(R) <= Sum(m \ {a})
  BY <1>2, <1>3, <1>6
<1>8. Sum(m) = f[a] + Sum(m \ {a})
  BY <1>3, SumOfOneAndRest
<1>9. f[a] \in Nat /\ Sum(m \ {a}) \in Nat
  BY <1>3, <1>6, SumIsNatural
<1> HIDE DEF Sum, Wrong
<1> QED BY <1>3, <1>4, <1>7, <1>8, <1>9

-----------------------------------------------------------------------------
(***************************************************************************)
(* How many there are of an image and of a union.                          *)
(***************************************************************************)
\* A function has no more values than arguments.
LEMMA ImageIsNoMore ==
  ASSUME NEW f, NEW S, IsFiniteSet(S)
  PROVE  IsFiniteSet({f[x] : x \in S}) /\ Cardinality({f[x] : x \in S}) <= Cardinality(S)
<1> DEFINE T == {f[x] : x \in S}
           g == [x \in S |-> f[x]]
<1>1. g \in Surjection(S, T)
  BY DEF Surjection
<1> HIDE DEF g, T
<1>2. IsFiniteSet(T) /\ Cardinality(T) <= Cardinality(S)
  BY <1>1, FS_Surjection
<1> QED BY <1>2 DEF T

\* A union has no more elements than its sets have together.
LEMMA UnionIsNoMore ==
  ASSUME NEW F, NEW S, IsFiniteSet(S), \A x \in S : IsFiniteSet(F[x])
  PROVE  /\ IsFiniteSet(UNION {F[x] : x \in S})
         /\ Cardinality(UNION {F[x] : x \in S}) <= SumFunctionOnSet([x \in S |-> Cardinality(F[x])], S)
<1> DEFINE g == [x \in S |-> Cardinality(F[x])]
           All(s) == UNION {F[x] : x \in s}
           Right(s) == IsFiniteSet(All(s)) /\ Cardinality(All(s)) <= SumFunctionOnSet(g, s)
           Wrong == {s \in SUBSET S : ~Right(s)}
<1> SUFFICES ASSUME Wrong # {}  PROVE FALSE
  BY S \in SUBSET S
<1>g. \A x \in S : g[x] \in Nat /\ g[x] = Cardinality(F[x])
  BY FS_CardinalityType
<1> HIDE DEF g
<1>1. Wrong \subseteq SUBSET S
  OBVIOUS
<1>2. PICK m \in Wrong : \A s \in Wrong : s \subseteq m => s = m
  <2> HIDE DEF Wrong
  <2> QED BY <1>1, LeastSubset
<1>3. m \subseteq S /\ ~Right(m) /\ IsFiniteSet(m)
  BY FS_Subset
<1>4. m # {}
  <2> SUFFICES ASSUME m = {}  PROVE FALSE
    OBVIOUS
  <2>1. All(m) = {}
    OBVIOUS
  <2>2. IsFiniteSet({}) /\ Cardinality({}) = 0 /\ SumFunctionOnSet(g, {}) = 0
    BY FS_EmptySet, SumOfNone
  <2>3. Right(m)
    BY <2>1, <2>2
  <2> QED BY <2>3, <1>3
<1>5. PICK a : a \in m
  BY <1>4
<1> DEFINE r == m \ {a}
<1>6. r \subseteq m /\ r # m /\ r \subseteq S /\ IsFiniteSet(r)
  BY <1>3, <1>5, FS_Subset
<1>7. Right(r)
  BY <1>2, <1>6
<1>8. All(m) = All(r) \union F[a]
  BY <1>5
<1>9. IsFiniteSet(All(r)) /\ IsFiniteSet(F[a]) /\ Cardinality(All(r)) <= SumFunctionOnSet(g, r)
  BY <1>3, <1>5, <1>7
<1>10. SumFunctionOnSet(g, m) = g[a] + SumFunctionOnSet(g, r)
  BY <1>3, <1>5, <1>g, SumOfOneAndRest
<1>11. SumFunctionOnSet(g, r) \in Nat
  BY <1>6, <1>g, SumIsNatural
<1> HIDE DEF All, r
<1>12. /\ IsFiniteSet(All(r) \union F[a])
       /\ Cardinality(All(r) \union F[a]) = Cardinality(All(r)) + Cardinality(F[a])
                                              - Cardinality(All(r) \intersect F[a])
  BY <1>9, FS_Union
<1>13. /\ Cardinality(All(r)) \in Nat /\ Cardinality(F[a]) \in Nat
       /\ Cardinality(All(r) \intersect F[a]) \in Nat
  BY <1>9, FS_CardinalityType, FS_Intersection
<1>14. g[a] = Cardinality(F[a])
  BY <1>3, <1>5, <1>g
<1>15. Cardinality(All(m)) <= SumFunctionOnSet(g, m)
  BY <1>8, <1>9, <1>10, <1>11, <1>12, <1>13, <1>14
<1> QED BY <1>3, <1>8, <1>12, <1>15

-----------------------------------------------------------------------------
(***************************************************************************)
(* A set of naturals that is not empty has a least member, and a finite or *)
(* a bounded one a greatest.                                               *)
(***************************************************************************)
LEMMA LeastNatural ==
  ASSUME NEW S, S \subseteq Nat, S # {}
  PROVE  Min(S) \in S /\ \A n \in S : Min(S) <= n
<1>1. PICK n \in S : \A m \in S : <<m, n>> \notin OpToRel(<, Nat)
  BY WFMin, NatLessThanWellFounded, Zenon
<1>2. \A m \in S : ~(m < n)
  BY <1>1, Zenon DEF OpToRel
<1>3. \E k \in S : \A m \in S : k <= m
  BY <1>2
<1> QED BY <1>3 DEF Min

LEMMA GreatestNatural ==
  ASSUME NEW S, NEW bound \in Nat, S \subseteq 0..bound, S # {}
  PROVE  Max(S) \in S /\ \A n \in S : n <= Max(S)
<1> DEFINE T == {t \in 0..bound : bound - t \in S}
<1>1. T \subseteq Nat /\ T # {}
  <2>1. PICK n : n \in S
    OBVIOUS
  <2>2. bound - n \in 0..bound /\ bound - (bound - n) = n
    BY <2>1
  <2> QED BY <2>1, <2>2
<1>2. Min(T) \in T /\ \A t \in T : Min(T) <= t
  BY <1>1, LeastNatural
<1> DEFINE m == bound - Min(T)
<1>3. m \in S
  BY <1>2
<1>4. ASSUME NEW n \in S  PROVE n <= m
  <2>1. bound - n \in 0..bound /\ bound - (bound - n) = n /\ n \in Int
    OBVIOUS
  <2>2. bound - n \in T
    BY <2>1
  <2>3. Min(T) <= bound - n /\ Min(T) \in Int
    BY <2>2, <1>2
  <2> QED BY <2>1, <2>3
<1> HIDE DEF m
<1>5. \E k \in S : \A n \in S : n <= k
  BY <1>3, <1>4
<1> QED BY <1>5 DEF Max

LEMMA FiniteIsBounded ==
  ASSUME NEW S, IsFiniteSet(S)
  PROVE  S \subseteq Nat => \E bound \in Nat : S \subseteq 0..bound
<1> DEFINE Bounded(s) == s \subseteq Nat => \E bound \in Nat : s \subseteq 0..bound
           Wrong == {s \in SUBSET S : ~Bounded(s)}
<1> HIDE DEF Bounded
<1> SUFFICES ASSUME Wrong # {}  PROVE FALSE
  BY S \in SUBSET S DEF Bounded
<1>1. Wrong \subseteq SUBSET S
  OBVIOUS
<1>2. PICK m \in Wrong : \A s \in Wrong : s \subseteq m => s = m
  <2> HIDE DEF Wrong
  <2> QED BY <1>1, LeastSubset
<1>3. m \subseteq S /\ ~Bounded(m)
  OBVIOUS
<1>4. m \subseteq Nat /\ m # {}
  BY <1>3 DEF Bounded
<1>5. PICK x : x \in m
  BY <1>4
<1>6. m \ {x} \subseteq m /\ m \ {x} # m /\ m \ {x} \in SUBSET S
  BY <1>3, <1>5
<1>7. Bounded(m \ {x})
  BY <1>2, <1>6
<1>8. PICK bound \in Nat : m \ {x} \subseteq 0..bound
  BY <1>4, <1>7 DEF Bounded
<1>9. x \in Nat /\ bound + x \in Nat /\ m \subseteq 0..bound + x
  BY <1>4, <1>5, <1>8
<1> QED BY <1>3, <1>9 DEF Bounded

(***************************************************************************)
(* Induction up to a bound, of a set and not of an operator: what holds at *)
(* 0 and is handed on holds all the way.                                   *)
(***************************************************************************)
LEMMA HandedOn ==
  ASSUME NEW N \in Nat, NEW S, 0 \in S, \A n \in 0..N : n < N /\ n \in S => n + 1 \in S
  PROVE  0..N \subseteq S
<1> DEFINE Wrong == {n \in 0..N : n \notin S}
<1> SUFFICES ASSUME Wrong # {} PROVE FALSE
  OBVIOUS
<1>1. Min(Wrong) \in Wrong /\ \A n \in Wrong : Min(Wrong) <= n
  <2>1. Wrong \subseteq Nat
    OBVIOUS
  <2> HIDE DEF Wrong
  <2> QED BY <2>1, LeastNatural
<1> DEFINE m == Min(Wrong)
<1>2. m \in 0..N /\ m \notin S /\ m # 0
  BY <1>1
<1> HIDE DEF m
<1>3. m - 1 \in 0..N /\ m - 1 < N /\ (m - 1) + 1 = m /\ m - 1 < m
  BY <1>2
<1>4. m - 1 \in S
  <2> SUFFICES ASSUME m - 1 \notin S PROVE FALSE
    OBVIOUS
  <2>1. m - 1 \in Wrong
    BY <1>3
  <2>2. m <= m - 1
    BY <1>1, <2>1 DEF m
  <2> QED BY <1>2, <1>3, <2>2
<1> QED BY <1>2, <1>3, <1>4

(***************************************************************************)
(* A sum is linear, is that of its parts, and is that of the values of     *)
(* what stands for its members.                                            *)
(***************************************************************************)
LEMMA SumIsLinear ==
  ASSUME NEW f, NEW g, NEW h, NEW d \in Int, NEW S, IsFiniteSet(S),
         \A x \in S : g[x] \in Int /\ h[x] \in Int /\ f[x] = g[x] + d * h[x]
  PROVE  SumFunctionOnSet(f, S) = SumFunctionOnSet(g, S) + d * SumFunctionOnSet(h, S)
<1> DEFINE F(s) == SumFunctionOnSet(f, s)
           G(s) == SumFunctionOnSet(g, s)
           H(s) == SumFunctionOnSet(h, s)
           Wrong == {s \in SUBSET S : F(s) # G(s) + d * H(s)}
<1> SUFFICES ASSUME Wrong # {}  PROVE FALSE
  BY S \in SUBSET S
<1>1. Wrong \subseteq SUBSET S
  OBVIOUS
<1>2. PICK m \in Wrong : \A s \in Wrong : s \subseteq m => s = m
  <2> HIDE DEF Wrong
  <2> QED BY <1>1, LeastSubset
<1>3. m \subseteq S /\ F(m) # G(m) + d * H(m) /\ IsFiniteSet(m)
  BY FS_Subset
<1>4. m # {}
  <2> SUFFICES ASSUME m = {}  PROVE FALSE
    OBVIOUS
  <2>1. F(m) = 0 /\ G(m) = 0 /\ H(m) = 0
    BY SumOfNone
  <2>2. d * 0 = 0
    OBVIOUS
  <2> HIDE DEF F, G, H
  <2> QED BY <1>3, <2>1, <2>2
<1>5. PICK a : a \in m
  BY <1>4
<1> DEFINE r == m \ {a}
<1>6. \A x \in S : f[x] \in Int
  OBVIOUS
<1>7. F(m) = f[a] + F(r) /\ G(m) = g[a] + G(r) /\ H(m) = h[a] + H(r)
  BY <1>3, <1>5, <1>6, SumOfOneAndRest
<1>8. r \subseteq m /\ r # m /\ r \in SUBSET S /\ IsFiniteSet(r)
  BY <1>3, <1>5, FS_Subset
<1>9. F(r) = G(r) + d * H(r)
  BY <1>2, <1>8
<1>10. G(r) \in Int /\ H(r) \in Int
  BY <1>8, SumIsInteger
<1>11. g[a] \in Int /\ h[a] \in Int /\ f[a] = g[a] + d * h[a]
  BY <1>3, <1>5
<1> HIDE DEF F, G, H, r
<1>12. d * (h[a] + H(r)) = d * h[a] + d * H(r) /\ d * h[a] \in Int /\ d * H(r) \in Int
  BY <1>10, <1>11
<1> QED BY <1>3, <1>7, <1>9, <1>10, <1>11, <1>12

LEMMA SumOfParts ==
  ASSUME NEW f, NEW A, NEW B, IsFiniteSet(A), IsFiniteSet(B), A \intersect B = {},
         \A x \in A \union B : f[x] \in Int
  PROVE  SumFunctionOnSet(f, A \union B) = SumFunctionOnSet(f, A) + SumFunctionOnSet(f, B)
<1> DEFINE Wrong == {s \in SUBSET B : SumFunctionOnSet(f, A \union s) # SumFunctionOnSet(f, A) + SumFunctionOnSet(f, s)}
<1> SUFFICES ASSUME Wrong # {}  PROVE FALSE
  BY B \in SUBSET B
<1>1. Wrong \subseteq SUBSET B
  OBVIOUS
<1>2. PICK m \in Wrong : \A s \in Wrong : s \subseteq m => s = m
  <2> HIDE DEF Wrong
  <2> QED BY <1>1, LeastSubset
<1>3. /\ m \subseteq B /\ IsFiniteSet(m)
      /\ SumFunctionOnSet(f, A \union m) # SumFunctionOnSet(f, A) + SumFunctionOnSet(f, m)
  BY FS_Subset
<1>4. SumFunctionOnSet(f, A) \in Int
  BY SumIsInteger
<1>5. m # {}
  <2> SUFFICES ASSUME m = {}  PROVE FALSE
    OBVIOUS
  <2>1. SumFunctionOnSet(f, m) = 0 /\ A \union m = A
    BY SumOfNone
  <2> QED BY <1>3, <1>4, <2>1
<1>6. PICK a : a \in m
  BY <1>5
<1> DEFINE r == m \ {a}
<1>7. r \subseteq m /\ r # m /\ r \in SUBSET B /\ IsFiniteSet(r) /\ r \union {a} = m /\ a \notin r
  BY <1>3, <1>6, FS_Subset
<1>8. SumFunctionOnSet(f, A \union r) = SumFunctionOnSet(f, A) + SumFunctionOnSet(f, r)
  BY <1>2, <1>7
<1>9. IsFiniteSet(A \union r) /\ a \notin A \union r /\ (A \union r) \union {a} = A \union m
  BY <1>3, <1>6, <1>7, FS_Union
<1>10. SumFunctionOnSet(f, A \union m) = SumFunctionOnSet(f, A \union r) + f[a]
  <2>1. \A x \in (A \union r) \union {a} : f[x] \in Int
    BY <1>3, <1>9
  <2>2. SumFunctionOnSet(f, (A \union r) \union {a}) = SumFunctionOnSet(f, A \union r) + f[a]
    <3> HIDE DEF r
    <3> QED BY <1>9, <2>1, SumOfOneMore
  <2> QED BY <1>9, <2>2
<1>11. SumFunctionOnSet(f, m) = SumFunctionOnSet(f, r) + f[a]
  <2>1. \A x \in r \union {a} : f[x] \in Int
    BY <1>3, <1>7
  <2>2. SumFunctionOnSet(f, r \union {a}) = SumFunctionOnSet(f, r) + f[a]
    <3> HIDE DEF r
    <3> QED BY <1>7, <2>1, SumOfOneMore
  <2> QED BY <1>7, <2>2
<1>12. SumFunctionOnSet(f, r) \in Int /\ f[a] \in Int
  BY <1>3, <1>6, <1>7, SumIsInteger
<1> QED BY <1>3, <1>4, <1>8, <1>10, <1>11, <1>12

LEMMA SumOfImage ==
  ASSUME NEW f, NEW m, NEW S, IsFiniteSet(S), \A x, y \in S : m[x] = m[y] => x = y,
         \A x \in S : f[m[x]] \in Int
  PROVE  SumFunctionOnSet(f, {m[x] : x \in S}) = SumFunctionOnSet([x \in S |-> f[m[x]]], S)
<1> DEFINE g == [x \in S |-> f[m[x]]]
           I(s) == {m[x] : x \in s}
           Wrong == {s \in SUBSET S : SumFunctionOnSet(f, I(s)) # SumFunctionOnSet(g, s)}
<1> SUFFICES ASSUME Wrong # {}  PROVE FALSE
  BY S \in SUBSET S
<1>1. Wrong \subseteq SUBSET S
  OBVIOUS
<1>2. PICK q \in Wrong : \A s \in Wrong : s \subseteq q => s = q
  <2> HIDE DEF Wrong
  <2> QED BY <1>1, LeastSubset
<1>3. q \subseteq S /\ IsFiniteSet(q) /\ SumFunctionOnSet(f, I(q)) # SumFunctionOnSet(g, q)
  BY FS_Subset
<1>4. q # {}
  <2>1. SumFunctionOnSet(f, {}) = 0 /\ SumFunctionOnSet(g, {}) = 0 /\ I({}) = {}
    BY SumOfNone
  <2> QED BY <1>3, <2>1
<1>5. PICK a : a \in q
  BY <1>4
<1> DEFINE r == q \ {a}
<1>6. r \subseteq q /\ r # q /\ r \in SUBSET S /\ IsFiniteSet(r) /\ r \union {a} = q /\ a \notin r
  BY <1>3, <1>5, FS_Subset
<1>7. SumFunctionOnSet(f, I(r)) = SumFunctionOnSet(g, r)
  BY <1>2, <1>6
<1>8. I(q) = I(r) \union {m[a]} /\ m[a] \notin I(r)
  BY <1>3, <1>5, <1>6
<1>9. IsFiniteSet(I(r))
  BY <1>6, ImageIsNoMore
<1>10. SumFunctionOnSet(f, I(q)) = SumFunctionOnSet(f, I(r)) + f[m[a]]
  <2>1. \A x \in I(r) \union {m[a]} : f[x] \in Int
    BY <1>3, <1>5, <1>6
  <2>2. SumFunctionOnSet(f, I(r) \union {m[a]}) = SumFunctionOnSet(f, I(r)) + f[m[a]]
    <3> HIDE DEF I
    <3> QED BY <1>8, <1>9, <2>1, SumOfOneMore
  <2> QED BY <1>8, <2>2
<1>11. SumFunctionOnSet(g, q) = SumFunctionOnSet(g, r) + g[a]
  <2>1. \A x \in r \union {a} : g[x] \in Int
    BY <1>3, <1>6
  <2>2. SumFunctionOnSet(g, r \union {a}) = SumFunctionOnSet(g, r) + g[a]
    <3> HIDE DEF r, g
    <3> QED BY <1>6, <2>1, SumOfOneMore
  <2> QED BY <1>6, <2>2
<1>12. g[a] = f[m[a]]
  BY <1>3, <1>5
<1> QED BY <1>3, <1>7, <1>10, <1>11, <1>12

\* A finite set of whole numbers has a least.
LEMMA LeastInteger ==
  ASSUME NEW S, IsFiniteSet(S)
  PROVE  S \subseteq Int /\ S # {} => \E n \in S : \A m \in S : n <= m
<1> DEFINE HasLeast(s) == s \subseteq Int /\ s # {} => \E n \in s : \A m \in s : n <= m
           Wrong == {s \in SUBSET S : ~HasLeast(s)}
<1> HIDE DEF HasLeast
<1> SUFFICES ASSUME Wrong # {}  PROVE FALSE
  BY S \in SUBSET S DEF HasLeast
<1>1. Wrong \subseteq SUBSET S
  OBVIOUS
<1>2. PICK w \in Wrong : \A s \in Wrong : s \subseteq w => s = w
  <2> HIDE DEF Wrong
  <2> QED BY <1>1, LeastSubset
<1>3. w \subseteq S /\ ~HasLeast(w)
  OBVIOUS
<1>4. w \subseteq Int /\ w # {}
  BY <1>3 DEF HasLeast
<1>5. PICK a : a \in w
  BY <1>4
<1>6. w \ {a} # {}
  BY <1>3, <1>4, <1>5 DEF HasLeast
<1>7. HasLeast(w \ {a})
  BY <1>2, <1>3, <1>5
<1>8. PICK n \in w \ {a} : \A m \in w \ {a} : n <= m
  BY <1>4, <1>6, <1>7 DEF HasLeast
<1>9. n \in Int /\ a \in Int
  BY <1>4, <1>5, <1>8
<1>10. \E k \in {n, a} : \A m \in w : k <= m
  <2>1. CASE n <= a
    BY <1>5, <1>8, <2>1
  <2>2. CASE a <= n
    BY <1>4, <1>8, <1>9, <2>2
  <2> QED BY <1>9, <2>1, <2>2
<1> QED BY <1>3, <1>5, <1>8, <1>10 DEF HasLeast
=============================================================================
