-------------------------- MODULE WaferOutcome_proofs --------------------------
(***************************************************************************)
(* The invariants of WaferSort, for every wafer, taxonomy and program and  *)
(* any number of results, and the cohort rule of WaferOutcome, for any     *)
(* sequence of redactions.  The counters are cardinalities and sums over   *)
(* bins, so the first part is about sums: a sum is a fold, that is, a      *)
(* recursive function on the subsets of a finite set, and what holds of it *)
(* is shown on a least subset for which it would not.                      *)
(***************************************************************************)
EXTENDS WaferOutcome, FiniteSetTheorems, TLAPS

----------------------------------------------------------------------------
(* Sums over finite sets.                                                  *)

\* Of some subsets of a finite set, one includes no other.
LEMMA LeastSet ==
  ASSUME NEW S, IsFiniteSet(S), NEW T, T \subseteq SUBSET S, T # {}
  PROVE  \E x \in T : \A y \in T : ~ (y \subseteq x /\ y # x)
<1>1. \E x \in T : \A y \in T : ~ (<<y, x>> \in StrictSubsetOrdering(S))
  BY FS_StrictSubsetOrderingWellFounded, FS_FiniteSubsetsOfFinite, WFMin
<1>2. QED BY <1>1 DEF StrictSubsetOrdering

\* The element a fold takes first, and what it leaves.
Picked(s) == CHOOSE x \in s : TRUE
Rest(s) == s \ {Picked(s)}

\* g gives the sum of f over each subset of S.
Sums(f, S, g) ==
  g = [s \in SUBSET S |-> IF s = {} THEN 0 ELSE f[Picked(s)] + g[Rest(s)]]

\* SumFunctionOnSet is the last value of such a function.
LEMMA Folding ==
  ASSUME NEW f, NEW S
  PROVE  SumFunctionOnSet(f, S) = (CHOOSE g : Sums(f, S, g))[S]
BY DEF SumFunctionOnSet, FoldFunctionOnSet, MapThenFoldSet, Sums, Picked, Rest

\* The fold shrinks its set.
LEMMA PickedIsIn ==
  ASSUME NEW s, s # {}
  PROVE  Picked(s) \in s /\ Rest(s) \subseteq s /\ Rest(s) # s
BY DEF Picked, Rest

\* Such functions agree where both have a value.
LEMMA SumsAgree ==
  ASSUME NEW f, NEW S, NEW g, NEW T, NEW h, Sums(f, S, g), Sums(f, T, h),
         NEW U, U \subseteq S, U \subseteq T, IsFiniteSet(U)
  PROVE  g[U] = h[U]
<1> DEFINE Differ == {s \in SUBSET U : g[s] # h[s]}
<1>1. SUFFICES ASSUME Differ # {} PROVE FALSE
  OBVIOUS
<1>2. Differ \subseteq SUBSET U
  OBVIOUS
<1> HIDE DEF Differ
<1>3. PICK s \in Differ : \A r \in Differ : ~ (r \subseteq s /\ r # s)
  BY <1>1, <1>2, LeastSet
<1> USE DEF Differ
<1>4. s \in SUBSET S /\ s \in SUBSET T
  OBVIOUS
<1>5. /\ g[s] = IF s = {} THEN 0 ELSE f[Picked(s)] + g[Rest(s)]
      /\ h[s] = IF s = {} THEN 0 ELSE f[Picked(s)] + h[Rest(s)]
  BY <1>4 DEF Sums
<1>6. CASE s = {}
  BY <1>5, <1>6
<1>7. CASE s # {}
  <2>1. Rest(s) \notin Differ
    BY <1>3, <1>7, PickedIsIn
  <2>2. g[Rest(s)] = h[Rest(s)]
    BY <1>7, <2>1, PickedIsIn
  <2>3. QED BY <1>5, <2>2
<1>8. QED BY <1>6, <1>7

\* There is such a function on every finite set.
LEMMA SumsExist ==
  ASSUME NEW f, NEW S, IsFiniteSet(S)
  PROVE  \E g : Sums(f, S, g)
<1> DEFINE Without == {U \in SUBSET S : ~ \E g : Sums(f, U, g)}
<1>1. SUFFICES ASSUME Without # {} PROVE FALSE
  OBVIOUS
<1>2. Without \subseteq SUBSET S
  OBVIOUS
<1> HIDE DEF Without
<1>3. PICK U \in Without : \A V \in Without : ~ (V \subseteq U /\ V # U)
  BY <1>1, <1>2, LeastSet
<1> USE DEF Without
<1>4. \A V \in SUBSET U : V # U => \E g : Sums(f, V, g)
  BY <1>3
<1> DEFINE Of(V) == CHOOSE g : Sums(f, V, g)
           G == [s \in SUBSET U |-> IF s = {} THEN 0 ELSE f[Picked(s)] + Of(Rest(s))[Rest(s)]]
<1>5. \A V \in SUBSET U : V # U => Sums(f, V, Of(V))
  BY <1>4
<1> HIDE DEF Of
<1>6. ASSUME NEW s \in SUBSET U, s # {}
      PROVE  G[Rest(s)] = Of(Rest(s))[Rest(s)]
  <2> DEFINE r == Rest(s)
  <2>1. r \in SUBSET U /\ r # U
    BY <1>6, PickedIsIn
  <2>2. Sums(f, r, Of(r))
    BY <1>5, <2>1
  <2>3. Of(r)[r] = IF r = {} THEN 0 ELSE f[Picked(r)] + Of(r)[Rest(r)]
    BY <2>2 DEF Sums
  <2>4. G[r] = IF r = {} THEN 0 ELSE f[Picked(r)] + Of(Rest(r))[Rest(r)]
    BY <2>1
  <2>5. CASE r = {}
    BY <2>3, <2>4, <2>5
  <2>6. CASE r # {}
    <3>1. Rest(r) \subseteq r /\ Rest(r) \in SUBSET U /\ Rest(r) # U
      BY <2>1, <2>6, PickedIsIn
    <3>2. Sums(f, Rest(r), Of(Rest(r)))
      BY <1>5, <3>1
    <3>3. IsFiniteSet(Rest(r))
      BY <3>1, FS_Subset
    <3>4. Of(r)[Rest(r)] = Of(Rest(r))[Rest(r)]
      BY <2>2, <3>1, <3>2, <3>3, SumsAgree
    <3>5. QED BY <2>3, <2>4, <2>6, <3>4
  <2>7. QED BY <2>5, <2>6
<1>7. Sums(f, U, G)
  BY <1>6 DEF Sums
<1>8. QED BY <1>3, <1>7

\* The sum of nothing.
LEMMA SumOfNone ==
  ASSUME NEW f
  PROVE  SumFunctionOnSet(f, {}) = 0
<1>1. PICK g : Sums(f, {}, g)
  BY SumsExist, FS_EmptySet
<1>2. Sums(f, {}, CHOOSE h : Sums(f, {}, h))
  BY <1>1
<1>3. QED BY <1>2, Folding DEF Sums

\* The sum, by the element the fold takes first.
LEMMA SumOfPicked ==
  ASSUME NEW f, NEW S, IsFiniteSet(S), S # {}
  PROVE  SumFunctionOnSet(f, S) = f[Picked(S)] + SumFunctionOnSet(f, Rest(S))
<1> DEFINE Of(V) == CHOOSE g : Sums(f, V, g)
<1>1. IsFiniteSet(Rest(S)) /\ Rest(S) \subseteq S
  BY PickedIsIn, FS_Subset
<1>2. Sums(f, S, Of(S)) /\ Sums(f, Rest(S), Of(Rest(S)))
  BY <1>1, SumsExist
<1>3. SumFunctionOnSet(f, S) = Of(S)[S] /\ SumFunctionOnSet(f, Rest(S)) = Of(Rest(S))[Rest(S)]
  BY Folding
<1> HIDE DEF Of
<1>4. Of(S)[S] = f[Picked(S)] + Of(S)[Rest(S)]
  BY <1>2 DEF Sums
<1>5. Of(S)[Rest(S)] = Of(Rest(S))[Rest(S)]
  BY <1>1, <1>2, SumsAgree
<1>6. QED BY <1>3, <1>4, <1>5

\* The sum of naturals is one.
LEMMA SumIsNat ==
  ASSUME NEW f, NEW S, IsFiniteSet(S), \A x \in S : f[x] \in Nat
  PROVE  SumFunctionOnSet(f, S) \in Nat
<1> DEFINE Others == {s \in SUBSET S : SumFunctionOnSet(f, s) \notin Nat}
<1>1. SUFFICES ASSUME Others # {} PROVE FALSE
  OBVIOUS
<1>2. Others \subseteq SUBSET S
  OBVIOUS
<1> HIDE DEF Others
<1>3. PICK s \in Others : \A r \in Others : ~ (r \subseteq s /\ r # s)
  BY <1>1, <1>2, LeastSet
<1> USE DEF Others
<1>4. s # {}
  <2>1. SumFunctionOnSet(f, {}) \in Nat
    BY SumOfNone
  <2>2. QED BY <1>3, <2>1
<1>5. Rest(s) \notin Others /\ Rest(s) \subseteq S /\ f[Picked(s)] \in Nat
  BY <1>3, <1>4, PickedIsIn
<1>6. SumFunctionOnSet(f, Rest(s)) \in Nat
  BY <1>5
<1>7. IsFiniteSet(s)
  BY FS_Subset
<1>8. SumFunctionOnSet(f, s) = f[Picked(s)] + SumFunctionOnSet(f, Rest(s))
  BY <1>4, <1>7, SumOfPicked
<1>9. QED BY <1>5, <1>6, <1>8

\* The sum, by any element.
LEMMA SumOfOne ==
  ASSUME NEW f, NEW S, IsFiniteSet(S), \A x \in S : f[x] \in Nat, NEW z \in S
  PROVE  SumFunctionOnSet(f, S) = f[z] + SumFunctionOnSet(f, S \ {z})
<1> DEFINE Sum(s) == SumFunctionOnSet(f, s)
           Others == {s \in SUBSET S : \E x \in s : Sum(s) # f[x] + Sum(s \ {x})}
<1>1. SUFFICES ASSUME Others # {} PROVE FALSE
  OBVIOUS
<1>2. Others \subseteq SUBSET S
  OBVIOUS
<1> HIDE DEF Others
<1>3. PICK s \in Others : \A r \in Others : ~ (r \subseteq s /\ r # s)
  BY <1>1, <1>2, LeastSet
<1> USE DEF Others
<1>4. PICK x \in s : Sum(s) # f[x] + Sum(s \ {x})
  BY <1>3
<1>5. \A r \in SUBSET s : IsFiniteSet(r) /\ Sum(r) \in Nat
  BY FS_Subset, SumIsNat
<1> DEFINE p == Picked(s)
           both == (s \ {x}) \ {p}
<1>6. p \in s /\ Sum(s) = f[p] + Sum(s \ {p})
  BY <1>4, <1>5, PickedIsIn, SumOfPicked DEF Rest
<1>7. p # x
  BY <1>4, <1>6
<1>8. \A r \in SUBSET s : r # s => \A y \in r : Sum(r) = f[y] + Sum(r \ {y})
  BY <1>3
<1>9. Sum(s \ {p}) = f[x] + Sum((s \ {p}) \ {x})
  BY <1>6, <1>7, <1>8
<1>10. Sum(s \ {x}) = f[p] + Sum(both)
  BY <1>6, <1>7, <1>8
<1>11. (s \ {p}) \ {x} = both
  OBVIOUS
<1>12. f[x] \in Nat /\ f[p] \in Nat /\ Sum(both) \in Nat
  BY <1>5, <1>6
<1>13. Sum(s \ {p}) = f[x] + Sum(both)
  BY <1>9, <1>11
<1>14. Sum(s) = f[x] + Sum(s \ {x})
  <2> HIDE DEF Sum, p, both
  <2>1. QED BY <1>6, <1>10, <1>12, <1>13
<1>15. QED BY <1>4, <1>14

\* Functions that agree on a set have the same sum over it.
LEMMA SumsOfEqual ==
  ASSUME NEW f, NEW g, NEW S, IsFiniteSet(S), \A x \in S : f[x] = g[x]
  PROVE  SumFunctionOnSet(f, S) = SumFunctionOnSet(g, S)
<1> DEFINE Differ == {s \in SUBSET S : SumFunctionOnSet(f, s) # SumFunctionOnSet(g, s)}
<1>1. SUFFICES ASSUME Differ # {} PROVE FALSE
  OBVIOUS
<1>2. Differ \subseteq SUBSET S
  OBVIOUS
<1> HIDE DEF Differ
<1>3. PICK s \in Differ : \A r \in Differ : ~ (r \subseteq s /\ r # s)
  BY <1>1, <1>2, LeastSet
<1> USE DEF Differ
<1>4. s # {}
  BY <1>3, SumOfNone
<1>5. Rest(s) \notin Differ /\ Rest(s) \subseteq S /\ f[Picked(s)] = g[Picked(s)]
  BY <1>3, <1>4, PickedIsIn
<1>6. SumFunctionOnSet(f, Rest(s)) = SumFunctionOnSet(g, Rest(s))
  BY <1>5
<1>7. IsFiniteSet(s)
  BY FS_Subset
<1>8. /\ SumFunctionOnSet(f, s) = f[Picked(s)] + SumFunctionOnSet(f, Rest(s))
      /\ SumFunctionOnSet(g, s) = g[Picked(s)] + SumFunctionOnSet(g, Rest(s))
  BY <1>4, <1>7, SumOfPicked
<1>9. QED BY <1>5, <1>6, <1>8

\* The union of finitely many finite sets has at most as many elements as they
\* have together.
LEMMA UnionBound ==
  ASSUME NEW F, NEW f, NEW S, IsFiniteSet(S),
         \A x \in S : IsFiniteSet(F[x]) /\ f[x] = Cardinality(F[x])
  PROVE  /\ IsFiniteSet(UNION {F[x] : x \in S})
         /\ Cardinality(UNION {F[x] : x \in S}) <= SumFunctionOnSet(f, S)
<1> DEFINE All(s) == UNION {F[x] : x \in s}
           Fits(s) == IsFiniteSet(All(s)) /\ Cardinality(All(s)) <= SumFunctionOnSet(f, s)
           Others == {s \in SUBSET S : ~Fits(s)}
<1>1. SUFFICES ASSUME Others # {} PROVE FALSE
  OBVIOUS
<1>2. Others \subseteq SUBSET S
  OBVIOUS
<1> HIDE DEF Others
<1>3. PICK s \in Others : \A r \in Others : ~ (r \subseteq s /\ r # s)
  BY <1>1, <1>2, LeastSet
<1> USE DEF Others
<1>4. s \in SUBSET S /\ IsFiniteSet(s)
  BY FS_Subset
<1>5. s # {}
  <2>1. All({}) = {}
    OBVIOUS
  <2>2. /\ IsFiniteSet({}) /\ Cardinality({}) = 0
        /\ SumFunctionOnSet(f, {}) = 0
    BY SumOfNone, FS_EmptySet
  <2>3. Fits({})
    <3> HIDE DEF All
    <3>1. QED BY <2>1, <2>2
  <2>4. QED BY <1>3, <2>3
<1> DEFINE p == Picked(s)
           rest == Rest(s)
<1>6. p \in S /\ rest \in SUBSET S /\ rest # s /\ rest \subseteq s
  BY <1>4, <1>5, PickedIsIn
<1>7. Fits(rest)
  BY <1>3, <1>6
<1>8. All(s) = All(rest) \cup F[p]
  <2>1. s = rest \cup {p}
    BY <1>5, PickedIsIn DEF Rest
  <2> HIDE DEF p, rest
  <2>2. QED BY <2>1
<1>9. SumFunctionOnSet(f, s) = f[p] + SumFunctionOnSet(f, rest)
  BY <1>4, <1>5, SumOfPicked
<1>10. IsFiniteSet(F[p]) /\ f[p] = Cardinality(F[p]) /\ f[p] \in Nat
  BY <1>6, FS_CardinalityType
<1>11. \A x \in rest : f[x] \in Nat
  BY <1>6, FS_CardinalityType
<1>12. SumFunctionOnSet(f, rest) \in Nat
  BY <1>4, <1>6, <1>11, FS_Subset, SumIsNat
<1>13. /\ IsFiniteSet(All(s))
       /\ Cardinality(All(s)) =
            Cardinality(All(rest)) + Cardinality(F[p]) - Cardinality(All(rest) \cap F[p])
  <2> HIDE DEF All, p, rest
  <2>1. /\ IsFiniteSet(All(rest) \cup F[p])
        /\ Cardinality(All(rest) \cup F[p]) =
             Cardinality(All(rest)) + Cardinality(F[p]) - Cardinality(All(rest) \cap F[p])
    BY <1>7, <1>10, FS_Union
  <2>2. QED BY <1>8, <2>1, Zenon
<1>14. /\ Cardinality(All(rest)) \in Nat
       /\ Cardinality(All(rest) \cap F[p]) \in Nat
  BY <1>7, FS_Intersection, FS_CardinalityType
<1>15. Fits(s)
  <2> HIDE DEF All, p, rest
  <2>1. QED BY <1>7, <1>9, <1>10, <1>12, <1>13, <1>14
<1>16. QED BY <1>3, <1>15

\* Counting one more in a bin adds one to the sum of the bins that it is one of.
LEMMA CountAddsOne ==
  ASSUME NEW bins, IsFiniteSet(DOMAIN bins), \A b \in DOMAIN bins : bins[b] \in Nat,
         NEW bin, NEW P
  PROVE  SumFunctionOnSet(Count(bins, bin), DOMAIN Count(bins, bin) \cap P) =
           SumFunctionOnSet(bins, DOMAIN bins \cap P) + (IF bin \in P THEN 1 ELSE 0)
<1> DEFINE counted == Count(bins, bin)
           old == DOMAIN bins \cap P
           others == old \ {bin}
<1>1. /\ DOMAIN counted = DOMAIN bins \cup {bin}
      /\ \A b \in DOMAIN counted : counted[b] \in Nat
      /\ \A b \in others : counted[b] = bins[b]
      /\ counted[bin] = (IF bin \in DOMAIN bins THEN bins[bin] ELSE 0) + 1
  BY DEF Count
<1> DEFINE new == DOMAIN counted \cap P
<1>2. IsFiniteSet(old) /\ IsFiniteSet(others) /\ IsFiniteSet(new)
  BY <1>1, FS_AddElement, FS_Intersection, FS_RemoveElement
<1>3. SumFunctionOnSet(counted, others) = SumFunctionOnSet(bins, others)
  <2> HIDE DEF counted, others
  <2>1. QED BY <1>1, <1>2, SumsOfEqual
<1>4. SumFunctionOnSet(bins, others) \in Nat /\ SumFunctionOnSet(bins, old) \in Nat
  <2>1. (\A b \in others : bins[b] \in Nat) /\ (\A b \in old : bins[b] \in Nat)
    OBVIOUS
  <2> HIDE DEF others, old
  <2>2. QED BY <1>2, <2>1, SumIsNat
<1>5. CASE bin \notin P
  <2>1. new = others /\ old = others
    BY <1>1, <1>5
  <2>2. QED BY <1>3, <1>4, <1>5, <2>1
<1>6. CASE bin \in P
  <2>1. bin \in new /\ new \ {bin} = others /\ \A b \in new : counted[b] \in Nat
    BY <1>1, <1>6
  <2>2. SumFunctionOnSet(counted, new) = counted[bin] + SumFunctionOnSet(counted, new \ {bin})
    <3> HIDE DEF new, counted
    <3>1. QED BY <1>2, <2>1, SumOfOne
  <2>3. CASE bin \in DOMAIN bins
    <3>1. bin \in old /\ \A b \in old : bins[b] \in Nat
      BY <1>6, <2>3
    <3>2. SumFunctionOnSet(bins, old) = bins[bin] + SumFunctionOnSet(bins, others)
      <4> HIDE DEF old
      <4>1. QED BY <1>2, <3>1, SumOfOne
    <3>3. bins[bin] \in Nat /\ counted[bin] = bins[bin] + 1
      BY <1>1, <2>3
    <3> HIDE DEF new, counted, old, others
    <3>4. SumFunctionOnSet(counted, new) = SumFunctionOnSet(bins, old) + 1
      BY <1>3, <1>4, <2>1, <2>2, <3>2, <3>3
    <3> USE DEF new, counted, old, others
    <3>5. QED BY <1>6, <3>4
  <2>4. CASE bin \notin DOMAIN bins
    <3>1. old = others
      BY <2>4
    <3>2. counted[bin] = 1
      BY <1>1, <2>4
    <3> HIDE DEF new, counted, old, others
    <3>3. SumFunctionOnSet(bins, old) = SumFunctionOnSet(bins, others)
      BY <3>1
    <3>4. SumFunctionOnSet(counted, new) = SumFunctionOnSet(bins, old) + 1
      BY <1>3, <1>4, <2>1, <2>2, <3>2, <3>3
    <3> USE DEF new, counted, old, others
    <3>5. QED BY <1>6, <3>4
  <2>5. QED BY <2>3, <2>4
<1>7. QED BY <1>5, <1>6

\* A set that another finite one can be told apart by is no larger, and as
\* large where it uses all of it.
LEMMA ToldApart ==
  ASSUME NEW S, NEW T, IsFiniteSet(T), NEW f \in [S -> T],
         \A a, b \in S : f[a] = f[b] => a = b
  PROVE  /\ IsFiniteSet(S)
         /\ Cardinality(S) <= Cardinality(T)
         /\ (\A t \in T : \E a \in S : f[a] = t) => Cardinality(S) = Cardinality(T)
<1>1. f \in Injection(S, T)
  BY DEF Injection, IsInjective
<1>2. (\A t \in T : \E a \in S : f[a] = t) => f \in Surjection(S, T)
  BY DEF Surjection
<1>3. QED BY <1>1, <1>2, FS_Injection

\* The values a function has on a finite set are finitely many.
LEMMA ValuesFinite ==
  ASSUME NEW S, IsFiniteSet(S), NEW f
  PROVE  IsFiniteSet({f[x] : x \in S})
<1> DEFINE g == [x \in S |-> f[x]]
<1>1. g \in Surjection(S, {f[x] : x \in S})
  BY DEF Surjection
<1>2. QED BY <1>1, FS_Surjection

\* One index more.
LEMMA OneMore ==
  ASSUME NEW S, NEW n \in Nat
  PROVE  /\ IsFiniteSet((1 .. n) \cap S)
         /\ Cardinality((1 .. n) \cap S) \in 0 .. n
         /\ Cardinality((1 .. (n + 1)) \cap S) =
              Cardinality((1 .. n) \cap S) + (IF n + 1 \in S THEN 1 ELSE 0)
<1>1. IsFiniteSet(1 .. n) /\ Cardinality(1 .. n) = n
  BY FS_Interval
<1>2. /\ IsFiniteSet((1 .. n) \cap S)
      /\ Cardinality((1 .. n) \cap S) \in Nat
      /\ Cardinality((1 .. n) \cap S) <= n
  BY <1>1, FS_Intersection, FS_CardinalityType
<1>3. CASE n + 1 \in S
  <2>1. /\ (1 .. (n + 1)) \cap S = ((1 .. n) \cap S) \cup {n + 1}
        /\ n + 1 \notin (1 .. n) \cap S
    BY <1>3
  <2>2. Cardinality(((1 .. n) \cap S) \cup {n + 1}) = Cardinality((1 .. n) \cap S) + 1
    BY <1>2, <2>1, FS_AddElement
  <2>3. QED BY <1>2, <1>3, <2>1, <2>2
<1>4. CASE n + 1 \notin S
  <2>1. (1 .. (n + 1)) \cap S = (1 .. n) \cap S
    BY <1>4
  <2>2. QED BY <1>2, <1>4, <2>1
<1>5. QED BY <1>3, <1>4

\* No index, nothing counted.
LEMMA NoneYet ==
  ASSUME NEW S
  PROVE  Cardinality((1 .. 0) \cap S) = 0
<1>1. (1 .. 0) \cap S = {}
  OBVIOUS
<1>2. QED BY <1>1, FS_EmptySet

\* The least of some naturals is one of them.
LEMMA LeastIsOne ==
  ASSUME NEW S \in SUBSET Nat, S # {}
  PROVE  Min(S) \in S
<1>1. \E x \in S : \A y \in S : ~ (<<y, x>> \in OpToRel(<, Nat))
  BY NatLessThanWellFounded, WFMin, Zenon
<1>2. PICK x \in S : \A y \in S : ~ (<<y, x>> \in OpToRel(<, Nat))
  BY <1>1
<1>3. \A y \in S : ~ (y < x)
  BY <1>2, Zenon DEF OpToRel
<1>4. \A y \in S : x <= y
  BY <1>3
<1>5. QED BY <1>4 DEF Min

----------------------------------------------------------------------------
(* Bins that hold the first n of some numbered values.                     *)

\* The bins' counts are those of the first n values, and add up to n.
HoldsBins(bins, binOf, n) ==
  /\ DOMAIN bins = {binOf[k] : k \in 1 .. n}
  /\ \A b \in DOMAIN bins :
       bins[b] = Cardinality((1 .. n) \cap {k \in DOMAIN binOf : binOf[k] = b})
  /\ Total(bins) = n

\* What such bins are made of.
LEMMA BinsFacts ==
  ASSUME NEW bins, NEW binOf, NEW n \in Nat, HoldsBins(bins, binOf, n)
  PROVE  /\ IsFiniteSet(DOMAIN bins)
         /\ \A b \in DOMAIN bins : bins[b] \in Nat
<1>1. IsFiniteSet(1 .. n)
  BY FS_Interval
<1>2. IsFiniteSet(DOMAIN bins)
  BY <1>1, ValuesFinite DEF HoldsBins
<1>3. ASSUME NEW b \in DOMAIN bins
      PROVE  bins[b] \in Nat
  <2> DEFINE held == {k \in DOMAIN binOf : binOf[k] = b}
  <2>1. Cardinality((1 .. n) \cap held) \in 0 .. n
    <3> HIDE DEF held
    <3>1. QED BY OneMore
  <2>2. QED BY <2>1 DEF HoldsBins
<1>4. QED BY <1>2, <1>3

\* BinTally::record puts the next value in its bin.
LEMMA BinsTakeNext ==
  ASSUME NEW bins, NEW binOf, NEW n \in Nat, HoldsBins(bins, binOf, n),
         n + 1 \in DOMAIN binOf
  PROVE  HoldsBins(Count(bins, binOf[n + 1]), binOf, n + 1)
<1> DEFINE bin == binOf[n + 1]
           counted == Count(bins, bin)
           With(b) == {k \in DOMAIN binOf : binOf[k] = b}
<1>1. IsFiniteSet(DOMAIN bins) /\ \A b \in DOMAIN bins : bins[b] \in Nat
  BY BinsFacts
<1>2. DOMAIN counted = DOMAIN bins \cup {bin}
  BY DEF Count
<1>3. DOMAIN counted = {binOf[k] : k \in 1 .. (n + 1)}
  <2>1. 1 .. (n + 1) = (1 .. n) \cup {n + 1}
    OBVIOUS
  <2>2. QED BY <1>2, <2>1 DEF HoldsBins
<1>4. ASSUME NEW b \in DOMAIN counted
      PROVE  counted[b] = Cardinality((1 .. (n + 1)) \cap With(b))
  <2>1. Cardinality((1 .. (n + 1)) \cap With(b)) =
          Cardinality((1 .. n) \cap With(b)) + (IF n + 1 \in With(b) THEN 1 ELSE 0)
    BY OneMore
  <2>2. n + 1 \in With(b) <=> b = bin
    OBVIOUS
  <2>3. Cardinality((1 .. n) \cap With(b)) = IF b \in DOMAIN bins THEN bins[b] ELSE 0
    <3>1. CASE b \in DOMAIN bins
      BY <3>1 DEF HoldsBins
    <3>2. CASE b \notin DOMAIN bins
      <4>1. (1 .. n) \cap With(b) = {}
        BY <3>2 DEF HoldsBins
      <4>2. QED BY <3>2, <4>1, FS_EmptySet
    <3>3. QED BY <3>1, <3>2
  <2> HIDE DEF With
  <2>4. counted[b] = (IF b \in DOMAIN bins THEN bins[b] ELSE 0) + (IF b = bin THEN 1 ELSE 0)
    BY <1>2 DEF Count
  <2>5. QED BY <2>1, <2>2, <2>3, <2>4
<1>5. Total(counted) = n + 1
  <2> DEFINE P == DOMAIN counted
  <2>1. DOMAIN counted \cap P = DOMAIN counted /\ DOMAIN bins \cap P = DOMAIN bins /\ bin \in P
    BY <1>2
  <2>2. SumFunctionOnSet(counted, DOMAIN counted \cap P) =
          SumFunctionOnSet(bins, DOMAIN bins \cap P) + (IF bin \in P THEN 1 ELSE 0)
    <3> HIDE DEF bin, P
    <3>1. QED BY <1>1, CountAddsOne
  <2>3. SumFunctionOnSet(counted, DOMAIN counted) = SumFunctionOnSet(bins, DOMAIN bins) + 1
    BY <2>1, <2>2
  <2>4. QED BY <2>3 DEF HoldsBins, Total, SumFunction
<1>6. QED BY <1>3, <1>4, <1>5 DEF HoldsBins

\* Bins that hold nothing.
LEMMA BinsEmpty ==
  ASSUME NEW binOf
  PROVE  HoldsBins([b \in {} |-> 0], binOf, 0)
<1>1. 1 .. 0 = {}
  OBVIOUS
<1>2. DOMAIN [b \in {} |-> 0] = {}
  OBVIOUS
<1>3. Total([b \in {} |-> 0]) = 0
  BY <1>2, SumOfNone DEF Total, SumFunction
<1>4. QED BY <1>1, <1>2, <1>3 DEF HoldsBins

----------------------------------------------------------------------------
(* One result and its outcome.                                             *)

\* The hypothesis of PassBinsHoldGoodDies: no fail bin is a pass bin.
BinsTellApart ==
  /\ \A item \in 1 .. Items : HardBin(FailSoftBin(item)) \notin PassHardBins
  /\ HardBin(AbortSoftBin) \notin PassHardBins

\* A result's parts.
LEMMA ResultType ==
  ASSUME NEW r \in DieTestResult
  PROVE  /\ Items \in Nat
         /\ r.coord \in Sites \cup OffLayout
         /\ r.aborted \in BOOLEAN
         /\ DOMAIN r.passed \subseteq 1 .. Items
         /\ \A i \in DOMAIN r.passed : r.passed[i] \in BOOLEAN
<1>1. Items \in Nat
  BY ProgramAssumption DEF Items
<1>2. PICK n \in 0 .. Items :
        r \in [coord : Sites \cup OffLayout, passed : [1 .. n -> BOOLEAN],
               aborted : {n < Items}]
  BY DEF DieTestResult
<1>3. /\ r.coord \in Sites \cup OffLayout /\ r.aborted = (n < Items)
      /\ r.passed \in [1 .. n -> BOOLEAN]
  BY <1>2
<1>4. DOMAIN r.passed = 1 .. n /\ \A i \in 1 .. n : r.passed[i] \in BOOLEAN
  BY <1>3
<1>5. 1 .. n \subseteq 1 .. Items
  BY <1>1
<1>6. QED BY <1>1, <1>3, <1>4, <1>5

\* What sort_die makes of it: a failed die was aborted or has a failed item,
\* its soft bin is not zero, and where the bins tell them apart its hard bin
\* says whether it passed.
LEMMA OutcomeFacts ==
  ASSUME NEW r \in DieTestResult
  PROVE  /\ SortDie(r).passed \in BOOLEAN
         /\ DOMAIN SortDie(r) = {"passed", "hard", "soft"}
         /\ SortDie(r).passed \/ SortDie(r).soft # 0
         /\ ~SortDie(r).passed => r.aborted \/ Failures(r) # {}
         /\ BinsTellApart =>
              (SortDie(r).hard \in PassHardBins <=> SortDie(r).passed)
<1>1. /\ Items \in Nat /\ r.aborted \in BOOLEAN
      /\ Failures(r) \subseteq 1 .. Items
  BY ResultType DEF Failures
<1>2. CASE r.aborted
  BY <1>2 DEF SortDie, Outcome, AbortSoftBin, BinsTellApart
<1>3. CASE ~r.aborted /\ Failures(r) = {}
  <2>1. SortDie(r) = Outcome(TRUE, 1)
    BY <1>3 DEF SortDie
  <2>2. HardBin(1) \in PassHardBins
    BY TaxonomyAssumption DEF HardBin
  <2>3. QED BY <2>1, <2>2 DEF Outcome
<1>4. CASE ~r.aborted /\ Failures(r) # {}
  <2> DEFINE item == Min(Failures(r))
  <2>1. item \in 1 .. Items
    BY <1>1, <1>4, LeastIsOne
  <2>2. SortDie(r) = Outcome(FALSE, FailSoftBin(item))
    BY <1>4 DEF SortDie
  <2>3. FailSoftBin(item) # 0
    BY DEF FailSoftBin, DefaultParametricSoftBin, DefaultFunctionalSoftBin
  <2> HIDE DEF item
  <2>4. QED BY <1>4, <2>1, <2>2, <2>3 DEF Outcome, BinsTellApart
<1>5. QED BY <1>1, <1>2, <1>3, <1>4

----------------------------------------------------------------------------
(* The inductive invariant: the map and the tally are what the results the *)
(* loops have been through make of them.                                   *)

\* The sites WaferDieMap::record has a place for.
Testable == Sites \ Excluded

\* The results sort_wafer and tally have been through.
Sorted ==
  IF phase = "testing" THEN 0 ELSE IF phase = "sorting" THEN position ELSE Len(results)
Tallied ==
  IF phase = "tallying" THEN position ELSE IF phase = "recorded" THEN Len(results) ELSE 0

\* The last of the first n results that is for this die.
IsLastFor(k, c, n) ==
  /\ k \in 1 .. n
  /\ results[k].coord = c
  /\ \A j \in 1 .. n : results[j].coord = c => j <= k

\* Indices of results.
Unplaced == {k \in DOMAIN results : results[k].coord \notin Testable}
PassedResults == {k \in DOMAIN results : SortDie(results[k]).passed}
AbortedResults == {k \in DOMAIN results : results[k].aborted}
HardBins == [k \in DOMAIN results |-> SortDie(results[k]).hard]
SoftBins == [k \in DOMAIN results |-> SortDie(results[k]).soft]

\* The loops' variables.
Control ==
  /\ phase \in {"testing", "sorting", "tallying", "recorded"}
  /\ results \in Seq(DieTestResult)
  /\ position \in 0 .. Len(results)
  /\ phase = "testing" => position = 0

\* What WaferDieMap::dies holds for a testable die after n results.
Shows(die, c, n) ==
  \/ die = Untested /\ \A k \in 1 .. n : results[k].coord # c
  \/ \E k \in 1 .. n : IsLastFor(k, c, n) /\ die = Tested(SortDie(results[k]))

\* The wafer map and what sort_wafer returns.
MapShows ==
  /\ DOMAIN dies = Sites
  /\ \A c \in Excluded : dies[c] = ExcludedDie
  /\ \A c \in Testable : Shows(dies[c], c, Sorted)
  /\ unmatched = Cardinality((1 .. Sorted) \cap Unplaced)

\* BinTally; the last conjunct is of the bins flagged 'P'.
TallyShows ==
  /\ tally.tested = Tallied
  /\ tally.passed = Cardinality((1 .. Tallied) \cap PassedResults)
  /\ tally.aborted = Cardinality((1 .. Tallied) \cap AbortedResults)
  /\ HoldsBins(tally.hard, HardBins, Tallied)
  /\ HoldsBins(tally.soft, SoftBins, Tallied)
  /\ BinsTellApart =>
       SumFunctionOnSet(tally.hard, DOMAIN tally.hard \cap PassHardBins) = tally.passed

SortInv ==
  /\ Control
  /\ MapShows
  /\ TallyShows
  /\ phase = "recorded" => summary = Summary

\* WaferDieMap::record finds a place for the testable coordinates.
LEMMA DieStates ==
  ASSUME MapShows
  PROVE  \A c : Places(c) <=> c \in Testable
<1>1. ExcludedDie.state = "Excluded" /\ Untested.state = "Untested"
  BY DEF ExcludedDie, Untested
<1>2. \A o : Tested(o).state = "Tested"
  BY DEF Tested
<1>3. \A c \in Testable : dies[c].state \in {"Untested", "Tested"}
  BY <1>1, <1>2 DEF MapShows, Shows
<1>4. \A c \in Excluded : dies[c].state = "Excluded"
  BY <1>1 DEF MapShows
<1>5. Testable = Sites \ Excluded /\ Excluded \subseteq Sites
  BY SiteAssumption DEF Testable
<1>6. QED BY <1>3, <1>4, <1>5 DEF Places, MapShows

\* It holds before the first result.
LEMMA SortBegins ==
  ASSUME Init
  PROVE  SortInv
<1>1. /\ phase = "testing" /\ results = <<>> /\ position = 0 /\ unmatched = 0
      /\ dies = [c \in Sites |-> IF c \in Excluded THEN ExcludedDie ELSE Untested]
      /\ tally = EmptyTally
  BY DEF Init
<1>2. Sorted = 0 /\ Tallied = 0
  BY <1>1 DEF Sorted, Tallied
<1>3. Control
  BY <1>1 DEF Control
<1>4. MapShows
  <2>1. \A c \in Testable : Shows(dies[c], c, 0)
    BY <1>1 DEF Shows, Testable
  <2>2. unmatched = Cardinality((1 .. 0) \cap Unplaced)
    BY <1>1, NoneYet
  <2>3. QED BY <1>1, <1>2, <2>1, <2>2, SiteAssumption DEF MapShows
<1>5. TallyShows
  <2>1. /\ tally.tested = 0 /\ tally.passed = 0 /\ tally.aborted = 0
        /\ tally.hard = [b \in {} |-> 0] /\ tally.soft = [b \in {} |-> 0]
    BY <1>1 DEF EmptyTally
  <2>2. HoldsBins(tally.hard, HardBins, 0) /\ HoldsBins(tally.soft, SoftBins, 0)
    BY <2>1, BinsEmpty
  <2>3. DOMAIN tally.hard \cap PassHardBins = {}
    BY <2>1
  <2>4. SumFunctionOnSet(tally.hard, DOMAIN tally.hard \cap PassHardBins) = 0
    BY <2>3, SumOfNone
  <2>5. QED BY <1>2, <2>1, <2>2, <2>4, NoneYet DEF TallyShows
<1>6. QED BY <1>1, <1>3, <1>4, <1>5 DEF SortInv

\* What the first loop has made stays while it does not move.
LEMMA MapKept ==
  ASSUME MapShows, Sorted' = Sorted, UNCHANGED <<results, dies, unmatched>>
  PROVE  MapShows'
BY DEF MapShows, Shows, IsLastFor, Unplaced

\* And what the second one has.
LEMMA TallyKept ==
  ASSUME TallyShows, Tallied' = Tallied, UNCHANGED <<results, tally>>
  PROVE  TallyShows'
<1>1. HardBins' = HardBins /\ SoftBins' = SoftBins
  BY DEF HardBins, SoftBins
<1>2. PassedResults' = PassedResults /\ AbortedResults' = AbortedResults
  BY DEF PassedResults, AbortedResults
<1>3. HoldsBins(tally.hard, HardBins, Tallied)' /\ HoldsBins(tally.soft, SoftBins, Tallied)'
  BY <1>1 DEF TallyShows, HoldsBins, Total
<1>4. QED BY <1>1, <1>2, <1>3 DEF TallyShows

\* The summary depends on the results, the map and the tally only.
LEMMA SummaryKept ==
  ASSUME UNCHANGED <<results, dies, tally>>
  PROVE  Summary' = Summary
<1>1. TestedDies' = TestedDies /\ PassedDies' = PassedDies /\ Encoded' = Encoded
  BY DEF TestedDies, PassedDies, Encoded
<1>2. \A item : Synopsis(item)' = Synopsis(item)
  BY DEF Synopsis
<1>3. QED BY <1>1, <1>2 DEF Summary

\* One more result is nothing to the loops, which have not begun.
LEMMA TestSafely ==
  ASSUME SortInv, NEW r \in DieTestResult, Test(r)
  PROVE  SortInv'
<1>1. /\ phase = "testing" /\ results' = Append(results, r)
      /\ UNCHANGED <<phase, position, dies, unmatched, tally, summary>>
  BY DEF Test
<1>2. Sorted = 0 /\ Sorted' = 0 /\ Tallied = 0 /\ Tallied' = 0
  BY <1>1 DEF Sorted, Tallied
<1>3. Control'
  <2>1. /\ results \in Seq(DieTestResult) /\ position = 0
    BY <1>1 DEF SortInv, Control
  <2>2. results' \in Seq(DieTestResult) /\ Len(results') \in Nat
    BY <1>1, <2>1
  <2>3. QED BY <1>1, <2>1, <2>2 DEF Control
<1>4. 1 .. 0 = {}
  OBVIOUS
<1>5. MapShows'
  <2>1. MapShows
    BY DEF SortInv
  <2>2. \A c \in Testable : dies[c] = Untested
    BY <1>2, <1>4, <2>1 DEF MapShows, Shows
  <2>3. unmatched = 0
    BY <1>2, <2>1, NoneYet DEF MapShows
  <2>4. unmatched' = Cardinality((1 .. 0) \cap Unplaced')
    BY <1>1, <2>3, NoneYet
  <2>5. \A c \in Testable : Shows(dies[c], c, 0)'
    BY <1>1, <1>4, <2>2 DEF Shows
  <2>6. DOMAIN dies' = Sites /\ \A c \in Excluded : dies'[c] = ExcludedDie
    BY <1>1, <2>1 DEF MapShows
  <2>7. QED BY <1>2, <2>4, <2>5, <2>6 DEF MapShows
<1>6. TallyShows'
  <2>1. TallyShows
    BY DEF SortInv
  <2>2. HoldsBins(tally.hard, HardBins', 0) /\ HoldsBins(tally.soft, SoftBins', 0)
    BY <1>2, <1>4, <2>1 DEF TallyShows, HoldsBins
  <2>3. tally.tested = 0 /\ tally.passed = 0 /\ tally.aborted = 0
    BY <1>2, <2>1, NoneYet DEF TallyShows
  <2>4. /\ Cardinality((1 .. 0) \cap PassedResults') = 0
        /\ Cardinality((1 .. 0) \cap AbortedResults') = 0
    BY NoneYet
  <2>5. BinsTellApart =>
          SumFunctionOnSet(tally.hard, DOMAIN tally.hard \cap PassHardBins) = tally.passed
    BY <2>1 DEF TallyShows
  <2>6. /\ tally'.tested = Tallied'
        /\ tally'.passed = Cardinality((1 .. Tallied') \cap PassedResults')
        /\ tally'.aborted = Cardinality((1 .. Tallied') \cap AbortedResults')
    BY <1>1, <1>2, <2>3, <2>4
  <2>7. HoldsBins(tally.hard, HardBins, Tallied)' /\ HoldsBins(tally.soft, SoftBins, Tallied)'
    BY <1>1, <1>2, <2>2
  <2>8. QED BY <1>1, <2>5, <2>6, <2>7 DEF TallyShows
<1>7. QED BY <1>1, <1>3, <1>5, <1>6 DEF SortInv

\* One iteration of sort_wafer.
LEMMA SortSafely ==
  ASSUME SortInv, SortNext
  PROVE  SortInv'
<1>n. PICK n \in Nat : n = position
  BY DEF SortInv, Control
<1>r. PICK r : r = results[n + 1]
  OBVIOUS
<1>1. /\ phase = "sorting" /\ position < Len(results) /\ position' = n + 1
      /\ UNCHANGED <<phase, results, tally, summary>>
  BY <1>n DEF SortNext
<1>2. /\ results \in Seq(DieTestResult) /\ n \in Nat /\ Len(results) \in Nat
      /\ n + 1 \in DOMAIN results
  BY <1>n, <1>1 DEF SortInv, Control
<1>3. Sorted = n /\ Sorted' = n + 1 /\ Tallied' = Tallied
  BY <1>n, <1>1 DEF Sorted, Tallied
<1>4. Control'
  BY <1>1, <1>2 DEF SortInv, Control
<1>5. TallyShows'
  BY <1>1, <1>3, TallyKept DEF SortInv
<1>6. MapShows /\ \A c : Places(c) <=> c \in Testable
  BY DieStates DEF SortInv
<1>7. \/ r.coord \in Testable /\ dies' = [dies EXCEPT ![r.coord] = Tested(SortDie(r))]
                             /\ unmatched' = unmatched
      \/ r.coord \notin Testable /\ dies' = dies /\ unmatched' = unmatched + 1
  BY <1>n, <1>r, <1>6 DEF SortNext
<1>8. Unplaced' = Unplaced /\ (n + 1 \in Unplaced <=> r.coord \notin Testable)
  BY <1>r, <1>1, <1>2 DEF Unplaced
<1>9. /\ Cardinality((1 .. n) \cap Unplaced) \in 0 .. n
      /\ Cardinality((1 .. (n + 1)) \cap Unplaced) =
           Cardinality((1 .. n) \cap Unplaced) + (IF n + 1 \in Unplaced THEN 1 ELSE 0)
  BY <1>2, OneMore
<1>10. unmatched = Cardinality((1 .. n) \cap Unplaced)
  BY <1>3, <1>6 DEF MapShows
<1>11. unmatched' = Cardinality((1 .. Sorted') \cap Unplaced')
  <2>1. unmatched' = Cardinality((1 .. (n + 1)) \cap Unplaced)
    BY <1>7, <1>8, <1>9, <1>10
  <2>2. QED BY <1>3, <1>8, <2>1
<1>12. DOMAIN dies' = Sites /\ \A c \in Excluded : dies'[c] = ExcludedDie
  BY <1>6, <1>7, SiteAssumption DEF MapShows, Testable
<1>13. 1 .. (n + 1) = (1 .. n) \cup {n + 1} /\ \A k \in 1 .. n : k <= n + 1
  BY <1>2
<1>14. ASSUME NEW c \in Testable
       PROVE  Shows(dies[c], c, Sorted)'
  <2>1. Shows(dies[c], c, n)
    BY <1>3, <1>6 DEF MapShows
  <2>2. CASE c = r.coord
    <3>1. dies'[c] = Tested(SortDie(results[n + 1]))
      BY <1>r, <1>6, <1>7, <2>2 DEF MapShows, Testable
    <3>2. IsLastFor(n + 1, c, n + 1)'
      BY <1>r, <1>1, <1>2, <1>13, <2>2 DEF IsLastFor
    <3>3. QED BY <1>1, <1>2, <1>3, <1>13, <3>1, <3>2 DEF Shows
  <2>3. CASE c # r.coord
    <3>1. dies'[c] = dies[c]
      BY <1>6, <1>7, <2>3 DEF MapShows, Testable
    <3>2. CASE dies[c] = Untested /\ \A k \in 1 .. n : results[k].coord # c
      BY <1>r, <1>1, <1>3, <1>13, <2>3, <3>1, <3>2 DEF Shows
    <3>3. CASE \E k \in 1 .. n : IsLastFor(k, c, n) /\ dies[c] = Tested(SortDie(results[k]))
      <4>1. PICK k \in 1 .. n : IsLastFor(k, c, n) /\ dies[c] = Tested(SortDie(results[k]))
        BY <3>3
      <4>2. IsLastFor(k, c, n + 1)'
        BY <1>r, <1>1, <1>13, <2>3, <4>1 DEF IsLastFor
      <4>3. QED BY <1>1, <1>3, <1>13, <3>1, <4>1, <4>2 DEF Shows
    <3>4. QED BY <2>1, <3>2, <3>3 DEF Shows
  <2>4. QED BY <2>2, <2>3
<1>15. MapShows'
  BY <1>11, <1>12, <1>14 DEF MapShows
<1>16. QED BY <1>1, <1>4, <1>5, <1>15 DEF SortInv

\* One iteration of tally.
LEMMA TallySafely ==
  ASSUME SortInv, TallyNext
  PROVE  SortInv'
<1>n. PICK n \in Nat : n = position
  BY DEF SortInv, Control
<1>r. PICK r : r = results[n + 1]
  OBVIOUS
<1>o. PICK outcome : outcome = SortDie(r)
  OBVIOUS
<1>1. /\ phase = "tallying" /\ position < Len(results) /\ position' = n + 1
      /\ UNCHANGED <<phase, results, dies, unmatched, summary>>
      /\ tally' = Tally(tally, outcome, r.aborted)
  BY <1>n, <1>r, <1>o DEF TallyNext
<1>2. /\ results \in Seq(DieTestResult) /\ Len(results) \in Nat
      /\ n + 1 \in DOMAIN results
  BY <1>n, <1>1 DEF SortInv, Control
<1>3. Tallied = n /\ Tallied' = n + 1 /\ Sorted' = Sorted
  BY <1>n, <1>1 DEF Sorted, Tallied
<1>4. Control'
  BY <1>1, <1>2 DEF SortInv, Control
<1>5. MapShows'
  BY <1>1, <1>3, MapKept DEF SortInv
<1>6. r \in DieTestResult
  BY <1>r, <1>2
<1>7. /\ outcome.passed \in BOOLEAN /\ r.aborted \in BOOLEAN
      /\ BinsTellApart => (outcome.hard \in PassHardBins <=> outcome.passed)
  BY <1>o, <1>6, OutcomeFacts, ResultType
<1>8. /\ HardBins' = HardBins /\ SoftBins' = SoftBins
      /\ PassedResults' = PassedResults /\ AbortedResults' = AbortedResults
  BY <1>1 DEF HardBins, SoftBins, PassedResults, AbortedResults
<1>9. /\ HardBins[n + 1] = outcome.hard /\ n + 1 \in DOMAIN HardBins
      /\ SoftBins[n + 1] = outcome.soft /\ n + 1 \in DOMAIN SoftBins
      /\ n + 1 \in PassedResults <=> outcome.passed
      /\ n + 1 \in AbortedResults <=> r.aborted
  BY <1>r, <1>o, <1>2 DEF HardBins, SoftBins, PassedResults, AbortedResults
<1>10. /\ tally.tested = n
       /\ tally.passed = Cardinality((1 .. n) \cap PassedResults)
       /\ tally.aborted = Cardinality((1 .. n) \cap AbortedResults)
       /\ HoldsBins(tally.hard, HardBins, n)
       /\ HoldsBins(tally.soft, SoftBins, n)
       /\ BinsTellApart =>
            SumFunctionOnSet(tally.hard, DOMAIN tally.hard \cap PassHardBins) = tally.passed
  BY <1>3 DEF SortInv, TallyShows
<1>11. /\ tally'.tested = tally.tested + 1
       /\ tally'.passed = tally.passed + (IF outcome.passed THEN 1 ELSE 0)
       /\ tally'.aborted = tally.aborted + (IF r.aborted THEN 1 ELSE 0)
       /\ tally'.hard = Count(tally.hard, outcome.hard)
       /\ tally'.soft = Count(tally.soft, outcome.soft)
  BY <1>1 DEF Tally
<1>12. tally'.tested = n + 1
  BY <1>10, <1>11
<1>13. tally'.passed = Cardinality((1 .. (n + 1)) \cap PassedResults)
  <2>1. Cardinality((1 .. (n + 1)) \cap PassedResults) =
          Cardinality((1 .. n) \cap PassedResults) + (IF n + 1 \in PassedResults THEN 1 ELSE 0)
    BY OneMore
  <2>2. QED BY <1>9, <1>10, <1>11, <2>1
<1>14. tally'.aborted = Cardinality((1 .. (n + 1)) \cap AbortedResults)
  <2>1. Cardinality((1 .. (n + 1)) \cap AbortedResults) =
          Cardinality((1 .. n) \cap AbortedResults) + (IF n + 1 \in AbortedResults THEN 1 ELSE 0)
    BY OneMore
  <2>2. QED BY <1>9, <1>10, <1>11, <2>1
<1>15. HoldsBins(tally'.hard, HardBins, n + 1)
  BY <1>9, <1>10, <1>11, BinsTakeNext
<1>16. HoldsBins(tally'.soft, SoftBins, n + 1)
  BY <1>9, <1>10, <1>11, BinsTakeNext
<1>17. BinsTellApart =>
         SumFunctionOnSet(tally'.hard, DOMAIN tally'.hard \cap PassHardBins) = tally'.passed
  <2>1. SUFFICES ASSUME BinsTellApart
                 PROVE  SumFunctionOnSet(tally'.hard, DOMAIN tally'.hard \cap PassHardBins)
                          = tally'.passed
    OBVIOUS
  <2>2. /\ IsFiniteSet(DOMAIN tally.hard)
        /\ \A b \in DOMAIN tally.hard : tally.hard[b] \in Nat
    BY <1>10, BinsFacts
  <2>3. SumFunctionOnSet(tally'.hard, DOMAIN tally'.hard \cap PassHardBins) =
          SumFunctionOnSet(tally.hard, DOMAIN tally.hard \cap PassHardBins)
            + (IF outcome.hard \in PassHardBins THEN 1 ELSE 0)
    BY <1>11, <2>2, CountAddsOne
  <2>4. QED BY <1>7, <1>10, <1>11, <2>1, <2>3
<1>18. TallyShows'
  <2>1. /\ HoldsBins(tally.hard, HardBins, Tallied)'
        /\ HoldsBins(tally.soft, SoftBins, Tallied)'
    BY <1>3, <1>8, <1>15, <1>16 DEF HoldsBins, Total
  <2>2. /\ tally'.passed = Cardinality((1 .. Tallied') \cap PassedResults')
        /\ tally'.aborted = Cardinality((1 .. Tallied') \cap AbortedResults')
        /\ tally'.tested = Tallied'
    BY <1>3, <1>8, <1>12, <1>13, <1>14
  <2>3. QED BY <1>17, <2>1, <2>2 DEF TallyShows
<1>19. QED BY <1>1, <1>4, <1>5, <1>18 DEF SortInv

\* The loops and build_wafer_run_records begin where the one before ended.
LEMMA StartSafely ==
  ASSUME SortInv, StartSort \/ StartTally \/ Build
  PROVE  SortInv'
<1>1. UNCHANGED <<results, dies, unmatched, tally>> /\ position' = 0
  BY DEF StartSort, StartTally, Build, Starts
<1>2. /\ phase \in {"testing", "sorting", "tallying", "recorded"}
      /\ results \in Seq(DieTestResult) /\ Len(results) \in Nat
      /\ phase = "testing" => position = 0
  BY DEF SortInv, Control
<1>3. phase' \in {"testing", "sorting", "tallying", "recorded"}
  BY DEF StartSort, StartTally, Build, Starts
<1>4. Sorted' = Sorted /\ Tallied' = Tallied
  <2>1. CASE StartSort
    BY <1>1, <1>2, <2>1 DEF StartSort, Starts, Sorted, Tallied
  <2>2. CASE StartTally
    BY <1>1, <1>2, <2>2 DEF StartTally, Starts, Sorted, Tallied
  <2>3. CASE Build
    BY <1>1, <1>2, <2>3 DEF Build, Starts, Sorted, Tallied
  <2>4. QED BY <2>1, <2>2, <2>3
<1>5. Control'
  BY <1>1, <1>2, <1>3 DEF Control
<1>6. MapShows' /\ TallyShows'
  BY <1>1, <1>4, MapKept, TallyKept DEF SortInv
<1>7. phase' = "recorded" => summary' = Summary'
  <2>1. CASE Build
    BY <1>1, <2>1, SummaryKept DEF Build
  <2>2. CASE ~Build
    BY <2>2 DEF StartSort, StartTally, Starts
  <2>3. QED BY <2>1, <2>2
<1>8. QED BY <1>5, <1>6, <1>7 DEF SortInv

\* Every step keeps the invariant.
LEMMA SortKept ==
  ASSUME SortInv, [Next]_vars
  PROVE  SortInv'
<1>1. CASE UNCHANGED vars
  <2>1. UNCHANGED <<phase, results, position, dies, unmatched, tally, summary>>
    BY <1>1 DEF vars
  <2>2. Sorted' = Sorted /\ Tallied' = Tallied
    BY <2>1 DEF Sorted, Tallied
  <2>3. MapShows' /\ TallyShows' /\ Summary' = Summary
    BY <2>1, <2>2, MapKept, TallyKept, SummaryKept DEF SortInv
  <2>4. QED BY <2>1, <2>3 DEF SortInv, Control
<1>2. ASSUME NEW r \in DieTestResult, Test(r)
      PROVE  SortInv'
  BY <1>2, TestSafely
<1>3. CASE SortNext
  BY <1>3, SortSafely
<1>4. CASE TallyNext
  BY <1>4, TallySafely
<1>5. CASE StartSort \/ StartTally \/ Build
  BY <1>5, StartSafely
<1>6. QED BY <1>1, <1>2, <1>3, <1>4, <1>5 DEF Next

\* So it always holds.
LEMMA Sorting == Spec => []SortInv
BY SortBegins, SortKept, PTL DEF Spec

----------------------------------------------------------------------------
(* What follows for the file.                                              *)

\* The records at the end.
LEMMA AtTheEnd ==
  ASSUME SortInv, Recorded
  PROVE  /\ results \in Seq(DieTestResult) /\ Len(results) \in Nat
         /\ DOMAIN results = 1 .. Len(results)
         /\ Sorted = Len(results) /\ Tallied = Len(results)
         /\ MapShows /\ TallyShows /\ summary = Summary
BY DEF SortInv, Control, Recorded, Sorted, Tallied

\* The counters of the file, and what they count.
LEMMA Counters ==
  ASSUME SortInv, Recorded
  PROVE  /\ summary.part = Cardinality(TestedDies)
         /\ summary.good = Cardinality(PassedDies)
         /\ summary.abrt = Cardinality((1 .. Len(results)) \cap AbortedResults)
         /\ summary.hbr = tally.hard /\ HoldsBins(tally.hard, HardBins, Len(results))
         /\ summary.sbr = tally.soft /\ HoldsBins(tally.soft, SoftBins, Len(results))
         /\ summary.tsr = [item \in 1 .. Items |-> Synopsis(item)]
         /\ summary.gdr = Encoded
         /\ tally.passed = Cardinality((1 .. Len(results)) \cap PassedResults)
         /\ BinsTellApart =>
              SumFunctionOnSet(tally.hard, DOMAIN tally.hard \cap PassHardBins) = tally.passed
<1>1. /\ Tallied = Len(results) /\ TallyShows /\ summary = Summary
  BY AtTheEnd
<1>2. tally.aborted = Cardinality((1 .. Len(results)) \cap AbortedResults)
  BY <1>1 DEF TallyShows
<1>3. summary.abrt = tally.aborted
  BY <1>1 DEF Summary
<1>4. /\ summary.part = Cardinality(TestedDies)
      /\ summary.good = Cardinality(PassedDies)
      /\ summary.hbr = tally.hard /\ summary.sbr = tally.soft
      /\ summary.tsr = [item \in 1 .. Items |-> Synopsis(item)]
      /\ summary.gdr = Encoded
  BY <1>1 DEF Summary
<1>5. /\ HoldsBins(tally.hard, HardBins, Len(results))
      /\ HoldsBins(tally.soft, SoftBins, Len(results))
      /\ tally.passed = Cardinality((1 .. Len(results)) \cap PassedResults)
      /\ BinsTellApart =>
           SumFunctionOnSet(tally.hard, DOMAIN tally.hard \cap PassHardBins) = tally.passed
  BY <1>1 DEF TallyShows
<1>6. QED BY <1>2, <1>3, <1>4, <1>5

\* Each tested die goes back to its last result, and each result that has a
\* place to a tested die, whose last result it is unless a later one has
\* replaced it.
LEMMA LastResults ==
  ASSUME SortInv, Recorded
  PROVE  \E last \in [TestedDies -> DOMAIN results] :
           /\ \A c \in TestedDies :
                /\ results[last[c]].coord = c /\ c \in Testable
                /\ last[c] \notin Replaced \cup Unplaced
                /\ dies[c] = Tested(SortDie(results[last[c]]))
           /\ \A k \in DOMAIN results \ (Replaced \cup Unplaced) :
                \E c \in TestedDies : last[c] = k
<1> DEFINE n == Len(results)
           IsOf(k, c) == IsLastFor(k, c, n) /\ dies[c] = Tested(SortDie(results[k]))
           last == [c \in TestedDies |-> CHOOSE k : IsOf(k, c)]
<1>1. DOMAIN results = 1 .. n /\ n \in Nat /\ Sorted = n /\ MapShows
  BY AtTheEnd
<1>2. TestedDies = {c \in Testable : dies[c].state = "Tested"}
  <2>1. Untested.state # "Tested" /\ ExcludedDie.state # "Tested"
    BY DEF Untested, ExcludedDie
  <2>2. QED BY <1>1, <2>1, SiteAssumption DEF TestedDies, IsTested, MapShows, Testable
<1>3. ASSUME NEW c \in TestedDies
      PROVE  \E k : IsOf(k, c)
  <2>1. Shows(dies[c], c, n) /\ dies[c].state = "Tested"
    BY <1>1, <1>2 DEF MapShows
  <2>2. dies[c] # Untested
    BY <2>1 DEF Untested
  <2>3. QED BY <2>1, <2>2 DEF Shows
<1>4. \A c \in TestedDies : IsOf(last[c], c)
  BY <1>3
<1> HIDE DEF last
<1>5. ASSUME NEW c \in TestedDies
      PROVE  /\ last[c] \in DOMAIN results
             /\ results[last[c]].coord = c /\ c \in Testable
             /\ last[c] \notin Replaced \cup Unplaced
             /\ dies[c] = Tested(SortDie(results[last[c]]))
  <2>1. /\ last[c] \in 1 .. n /\ results[last[c]].coord = c
        /\ \A j \in 1 .. n : results[j].coord = c => j <= last[c]
        /\ dies[c] = Tested(SortDie(results[last[c]]))
    BY <1>4 DEF IsLastFor
  <2>2. ~ \E j \in 1 .. n : j > last[c] /\ results[j].coord = c
    BY <2>1
  <2>3. last[c] \notin Replaced
    BY <1>1, <2>1, <2>2 DEF Replaced
  <2>4. c \in Testable
    BY <1>2
  <2>5. last[c] \notin Unplaced
    BY <2>1, <2>4 DEF Unplaced
  <2>6. QED BY <1>1, <2>1, <2>3, <2>4, <2>5
<1>6. last \in [TestedDies -> DOMAIN results]
  <2>1. last = [c \in TestedDies |-> last[c]]
    BY DEF last
  <2>2. QED BY <1>5, <2>1
<1>7. ASSUME NEW k \in DOMAIN results \ (Replaced \cup Unplaced)
      PROVE  \E c \in TestedDies : last[c] = k
  <2> DEFINE c == results[k].coord
  <2>1. c \in Testable /\ k \in 1 .. n
    BY <1>1 DEF Unplaced
  <2>2. Shows(dies[c], c, n)
    BY <1>1, <2>1 DEF MapShows
  <2>3. dies[c].state = "Tested"
    <3>1. ~ \A j \in 1 .. n : results[j].coord # c
      BY <2>1
    <3>2. \E o : dies[c] = Tested(o)
      BY <2>2, <3>1 DEF Shows
    <3>3. QED BY <3>2 DEF Tested
  <2>4. c \in TestedDies
    BY <1>2, <2>1, <2>3
  <2>5. /\ last[c] \in 1 .. n /\ results[last[c]].coord = c /\ k <= last[c]
    BY <1>4, <2>1, <2>4 DEF IsLastFor
  <2>6. ~ last[c] > k
    BY <1>1, <2>1, <2>5 DEF Replaced, Testable
  <2>7. last[c] = k
    BY <1>1, <2>1, <2>5, <2>6
  <2>8. QED BY <2>4, <2>7
<1>8. QED BY <1>5, <1>6, <1>7

\* Every variable keeps its type.
THEOREM SortTypes == Spec => []TypeOK
<1>1. SortInv => TypeOK
  <2> SUFFICES ASSUME SortInv PROVE TypeOK
    OBVIOUS
  <2>1. /\ phase \in {"testing", "sorting", "tallying", "recorded"}
        /\ results \in Seq(DieTestResult) /\ Len(results) \in Nat
        /\ position \in 0 .. Len(results)
    BY DEF SortInv, Control
  <2>2. Sorted \in 0 .. Len(results) /\ Tallied \in 0 .. Len(results)
    BY <2>1 DEF Sorted, Tallied
  <2>3. \A c \in DOMAIN dies : dies[c].state \in {"Untested", "Excluded", "Tested"}
    BY DEF SortInv, MapShows, Shows, Testable, Tested, Untested, ExcludedDie
  <2>4. Cardinality((1 .. Sorted) \cap Unplaced) \in 0 .. Sorted
    <3>1. Sorted \in Nat
      BY <2>2
    <3>2. QED BY <3>1, OneMore
  <2>5. unmatched \in 0 .. Len(results)
    BY <2>1, <2>2, <2>4 DEF SortInv, MapShows
  <2>6. tally.tested \in 0 .. Len(results)
    BY <2>2 DEF SortInv, TallyShows
  <2>7. QED BY <2>1, <2>3, <2>5, <2>6 DEF TypeOK
<1>2. QED BY <1>1, Sorting, PTL

\* The wafer map read back from the GDR is the wafer map, whatever was
\* tested: no outcome of sort_die is the zeros of a die that was not.
THEOREM SnapshotKeepsMap == Spec => []SnapshotIsMap
<1>1. SortInv => SnapshotIsMap
  <2> SUFFICES ASSUME SortInv, Recorded
               PROVE  Decoded(summary.gdr) = [c \in TestedDies |-> dies[c].outcome]
    BY DEF SnapshotIsMap
  <2>1. summary.gdr = Encoded
    BY Counters
  <2>2. PICK last \in [TestedDies -> DOMAIN results] :
          \A c \in TestedDies : dies[c] = Tested(SortDie(results[last[c]]))
    BY LastResults
  <2>3. ASSUME NEW c \in TestedDies
        PROVE  dies[c].outcome # NoEntry
    <3>1. results[last[c]] \in DieTestResult
      BY AtTheEnd
    <3> DEFINE sorted == SortDie(results[last[c]])
    <3>2. dies[c].outcome = sorted
      <4>1. \A o : Tested(o).outcome = o
        BY DEF Tested
      <4>2. QED BY <2>2, <4>1
    <3>3. sorted.passed \/ sorted.soft # 0
      BY <3>1, OutcomeFacts
    <3>4. NoEntry.passed = FALSE /\ NoEntry.soft = 0
      BY DEF NoEntry
    <3> HIDE DEF sorted
    <3>5. sorted # NoEntry
      BY <3>3, <3>4
    <3>6. QED BY <3>2, <3>5
  <2>4. {d \in DOMAIN Encoded : Encoded[d] # NoEntry} = TestedDies
    BY <2>3 DEF Encoded, TestedDies
  <2>5. \A c \in TestedDies : Encoded[c] = dies[c].outcome
    BY DEF Encoded, TestedDies
  <2>6. QED BY <2>1, <2>4, <2>5 DEF Decoded
<1>2. QED BY <1>1, Sorting, PTL

\* As many dies are tested as there are results that are on the map for good.
LEMMA TestedAsLast ==
  ASSUME SortInv, Recorded
  PROVE  /\ IsFiniteSet(TestedDies)
         /\ Cardinality(TestedDies) = Cardinality(DOMAIN results \ (Replaced \cup Unplaced))
<1> DEFINE remaining == DOMAIN results \ (Replaced \cup Unplaced)
<1>1. IsFiniteSet(remaining)
  <2>1. DOMAIN results = 1 .. Len(results) /\ Len(results) \in Nat
    BY AtTheEnd
  <2>2. IsFiniteSet(DOMAIN results)
    BY <2>1, FS_Interval
  <2>3. QED BY <2>2, FS_Difference
<1>2. PICK last \in [TestedDies -> DOMAIN results] :
        /\ \A c \in TestedDies : /\ results[last[c]].coord = c
                                 /\ last[c] \notin Replaced \cup Unplaced
        /\ \A k \in remaining : \E c \in TestedDies : last[c] = k
  BY LastResults
<1>3. last \in [TestedDies -> remaining]
  BY <1>2
<1>4. \A a, b \in TestedDies : last[a] = last[b] => a = b
  BY <1>2
<1> HIDE DEF remaining
<1>5. /\ IsFiniteSet(TestedDies)
      /\ (\A k \in remaining : \E c \in TestedDies : last[c] = k) =>
           Cardinality(TestedDies) = Cardinality(remaining)
  BY <1>1, <1>3, <1>4, ToldApart
<1>6. QED BY <1>2, <1>5 DEF remaining

\* The HBR and SBR counts add up to the results, and exceed the tested dies
\* of the WRR by those that found no place on the map and those a retest has
\* replaced.
THEOREM CountersDoReconcile == Spec => []CountersReconcile
<1>1. SortInv => CountersReconcile
  <2> SUFFICES ASSUME SortInv, Recorded
               PROVE  /\ Total(summary.hbr) = Len(results)
                      /\ Total(summary.sbr) = Len(results)
                      /\ Len(results) - summary.part = unmatched + Cardinality(Replaced)
    BY DEF CountersReconcile
  <2>n. PICK n \in Nat : n = Len(results) /\ DOMAIN results = 1 .. n
    BY AtTheEnd
  <2>1. /\ summary.hbr = tally.hard /\ summary.sbr = tally.soft
        /\ summary.part = Cardinality(TestedDies)
    BY Counters
  <2>2. Total(tally.hard) = n /\ Total(tally.soft) = n
    BY <2>n, Counters DEF HoldsBins
  <2>3. IsFiniteSet(1 .. n) /\ Cardinality(1 .. n) = n
    BY FS_Interval
  <2>4. Replaced \subseteq 1 .. n /\ Unplaced \subseteq 1 .. n /\ Replaced \cap Unplaced = {}
    BY <2>n DEF Replaced, Unplaced, Testable
  <2>5. IsFiniteSet(Replaced) /\ IsFiniteSet(Unplaced)
    BY <2>3, <2>4, FS_Subset
  <2>6. Cardinality(Replaced) \in Nat /\ Cardinality(Unplaced) \in Nat
    BY <2>5, FS_CardinalityType
  <2>7. Cardinality(Replaced \cup Unplaced) = Cardinality(Replaced) + Cardinality(Unplaced)
    <3>1. Cardinality(Replaced \cap Unplaced) = 0
      BY <2>4, FS_EmptySet
    <3>2. Cardinality(Replaced \cup Unplaced) =
            Cardinality(Replaced) + Cardinality(Unplaced) - Cardinality(Replaced \cap Unplaced)
      BY <2>5, FS_Union
    <3>3. QED BY <2>6, <3>1, <3>2
  <2>8. Cardinality((1 .. n) \ (Replaced \cup Unplaced)) =
          n - Cardinality(Replaced \cup Unplaced)
    <3>1. (1 .. n) \cap (Replaced \cup Unplaced) = Replaced \cup Unplaced
      BY <2>4
    <3>2. Cardinality((1 .. n) \ (Replaced \cup Unplaced)) =
            Cardinality(1 .. n) - Cardinality((1 .. n) \cap (Replaced \cup Unplaced))
      BY <2>3, FS_Difference
    <3>3. QED BY <2>3, <3>1, <3>2
  <2>9. unmatched = Cardinality(Unplaced)
    <3>1. (1 .. n) \cap Unplaced = Unplaced
      BY <2>4
    <3>2. QED BY <2>n, <3>1, AtTheEnd DEF MapShows
  <2>10. summary.part = Cardinality((1 .. n) \ (Replaced \cup Unplaced))
    BY <2>n, <2>1, TestedAsLast
  <2>11. Len(results) - summary.part = unmatched + Cardinality(Replaced)
    BY <2>n, <2>6, <2>7, <2>8, <2>9, <2>10
  <2>12. QED BY <2>n, <2>1, <2>2, <2>11
<1>2. QED BY <1>1, Sorting, PTL

\* On each hard bin the map holds no more dies than the HBR says, and as many
\* where each result found its die and no retest replaced one.
THEOREM BinsDoCoverMap == Spec => []BinsCoverMap
<1>1. SortInv => BinsCoverMap
  <2> SUFFICES ASSUME SortInv, Recorded, NEW bin
               PROVE  LET onMap == Cardinality({c \in TestedDies : dies[c].outcome.hard = bin})
                      IN /\ onMap <= CountIn(summary.hbr, bin)
                         /\ (unmatched = 0 /\ Replaced = {}) =>
                              onMap = CountIn(summary.hbr, bin)
    BY DEF BinsCoverMap
  <2> DEFINE onMap == {c \in TestedDies : dies[c].outcome.hard = bin}
             held == (1 .. Len(results)) \cap {k \in DOMAIN HardBins : HardBins[k] = bin}
  <2>1. /\ DOMAIN results = 1 .. Len(results) /\ Len(results) \in Nat
        /\ DOMAIN HardBins = DOMAIN results
        /\ HoldsBins(tally.hard, HardBins, Len(results))
        /\ summary.hbr = tally.hard
    BY AtTheEnd, Counters DEF HardBins
  <2>2. IsFiniteSet(held) /\ Cardinality(held) \in Nat
    <3> DEFINE inBin == {k \in DOMAIN HardBins : HardBins[k] = bin}
    <3> HIDE DEF inBin
    <3>1. /\ IsFiniteSet((1 .. Len(results)) \cap inBin)
          /\ Cardinality((1 .. Len(results)) \cap inBin) \in 0 .. Len(results)
      BY <2>1, OneMore
    <3>2. QED BY <2>1, <3>1 DEF inBin
  <2>3. CountIn(summary.hbr, bin) = Cardinality(held)
    <3>1. CASE bin \in DOMAIN tally.hard
      BY <2>1, <3>1 DEF HoldsBins, CountIn
    <3>2. CASE bin \notin DOMAIN tally.hard
      <4>1. held = {}
        BY <2>1, <3>2 DEF HoldsBins
      <4>2. QED BY <2>1, <3>2, <4>1, FS_EmptySet DEF CountIn
    <3>3. QED BY <3>1, <3>2
  <2>4. PICK last \in [TestedDies -> DOMAIN results] :
          /\ \A c \in TestedDies : /\ results[last[c]].coord = c
                                   /\ dies[c] = Tested(SortDie(results[last[c]]))
          /\ \A k \in DOMAIN results \ (Replaced \cup Unplaced) :
               \E c \in TestedDies : last[c] = k
    BY LastResults
  <2>5. \A c \in TestedDies : HardBins[last[c]] = dies[c].outcome.hard
    <3>1. \A o : Tested(o).outcome = o
      BY DEF Tested
    <3>2. QED BY <2>4, <3>1 DEF HardBins
  <2> DEFINE found == [c \in onMap |-> last[c]]
  <2>6. found \in [onMap -> held]
    BY <2>1, <2>4, <2>5
  <2>7. \A a, b \in onMap : found[a] = found[b] => a = b
    BY <2>4
  <2>8. unmatched = 0 /\ Replaced = {} => \A k \in held : \E c \in onMap : found[c] = k
    <3>1. SUFFICES ASSUME unmatched = 0, Replaced = {}, NEW k \in held
                   PROVE  \E c \in onMap : found[c] = k
      OBVIOUS
    <3>2. (1 .. Len(results)) \cap Unplaced = {}
      <4>1. unmatched = Cardinality((1 .. Len(results)) \cap Unplaced)
        BY AtTheEnd DEF MapShows
      <4>2. IsFiniteSet((1 .. Len(results)) \cap Unplaced)
        BY <2>1, OneMore
      <4>3. QED BY <3>1, <4>1, <4>2, FS_EmptySet
    <3>3. k \in DOMAIN results \ (Replaced \cup Unplaced)
      BY <2>1, <3>1, <3>2
    <3>4. PICK c \in TestedDies : last[c] = k
      BY <2>4, <3>3
    <3>5. c \in onMap
      BY <2>5, <3>4
    <3>6. QED BY <3>4, <3>5
  <2> HIDE DEF onMap, held, found
  <2>9. /\ Cardinality(onMap) <= Cardinality(held)
        /\ (\A k \in held : \E c \in onMap : found[c] = k) =>
             Cardinality(onMap) = Cardinality(held)
    BY <2>2, <2>6, <2>7, ToldApart
  <2>10. QED BY <2>3, <2>8, <2>9 DEF onMap
<1>2. QED BY <1>1, Sorting, PTL

\* The bins flagged 'P' hold exactly the results that passed, and at least
\* the good dies of the WRR, for any program none of whose fail bins is a
\* pass bin.
THEOREM PassBinsDoHoldGoodDies == Spec => []PassBinsHoldGoodDies
<1>1. SortInv => PassBinsHoldGoodDies
  <2> DEFINE flagged == [b \in DOMAIN summary.hbr \cap PassHardBins |-> summary.hbr[b]]
  <2> SUFFICES ASSUME SortInv, Recorded, BinsTellApart
               PROVE  Total(flagged) = tally.passed /\ summary.good <= tally.passed
    BY DEF PassBinsHoldGoodDies, BinsTellApart
  <2>n. PICK n \in Nat : n = Len(results) /\ DOMAIN results = 1 .. n
    BY AtTheEnd
  <2>1. /\ summary.hbr = tally.hard /\ summary.good = Cardinality(PassedDies)
        /\ HoldsBins(tally.hard, HardBins, n)
        /\ SumFunctionOnSet(tally.hard, DOMAIN tally.hard \cap PassHardBins) = tally.passed
        /\ tally.passed = Cardinality((1 .. n) \cap PassedResults)
    BY <2>n, Counters
  <2>2. Total(flagged) = tally.passed
    <3> DEFINE pass == DOMAIN tally.hard \cap PassHardBins
    <3>1. flagged = [b \in pass |-> tally.hard[b]]
      BY <2>1
    <3>2. IsFiniteSet(pass)
      BY <2>1, BinsFacts, FS_Intersection
    <3>3. DOMAIN flagged = pass /\ \A b \in pass : flagged[b] = tally.hard[b]
      BY <3>1
    <3> HIDE DEF flagged, pass
    <3>4. SumFunctionOnSet(flagged, pass) = SumFunctionOnSet(tally.hard, pass)
      BY <3>2, <3>3, SumsOfEqual
    <3>5. Total(flagged) = SumFunctionOnSet(flagged, pass)
      BY <3>3 DEF Total, SumFunction
    <3>6. QED BY <2>1, <3>4, <3>5 DEF pass
  <2>3. Cardinality(PassedDies) <= Cardinality((1 .. n) \cap PassedResults)
    <3>1. PICK last \in [TestedDies -> DOMAIN results] :
            \A c \in TestedDies : /\ results[last[c]].coord = c
                                  /\ dies[c] = Tested(SortDie(results[last[c]]))
      BY LastResults
    <3> DEFINE passing == [c \in PassedDies |-> last[c]]
               passed == (1 .. n) \cap PassedResults
    <3>2. PassedDies \subseteq TestedDies
      BY DEF PassedDies
    <3>3. \A c \in PassedDies : SortDie(results[last[c]]).passed
      <4>1. \A o : Tested(o).outcome = o
        BY DEF Tested
      <4>2. QED BY <3>1, <4>1 DEF PassedDies
    <3>4. passing \in [PassedDies -> passed]
      BY <2>n, <3>1, <3>2, <3>3 DEF PassedResults
    <3>5. \A a, b \in PassedDies : passing[a] = passing[b] => a = b
      BY <3>1, <3>2
    <3>6. IsFiniteSet(passed)
      BY OneMore
    <3> HIDE DEF passing, passed
    <3>7. Cardinality(PassedDies) <= Cardinality(passed)
      BY <3>4, <3>5, <3>6, ToldApart
    <3>8. QED BY <3>7 DEF passed
  <2>4. QED BY <2>1, <2>2, <2>3
<1>2. QED BY <1>1, Sorting, PTL

\* Each result that did not pass was aborted or failed in an item whose TSR
\* counts it, for any program whose test numbers tell its items apart.
THEOREM SynopsesDoExplainFailures == Spec => []SynopsesExplainFailures
<1>1. SortInv => SynopsesExplainFailures
  <2> DEFINE fails == [item \in 1 .. Items |-> summary.tsr[item].fail]
  <2> SUFFICES ASSUME SortInv, Recorded, \A item \in 1 .. Items : First(item) = item
               PROVE  Len(results) - tally.passed <= summary.abrt + Total(fails)
    BY DEF SynopsesExplainFailures
  <2>n. PICK n \in Nat : n = Len(results) /\ DOMAIN results = 1 .. n
    BY AtTheEnd
  <2>i. Items \in Nat
    BY ProgramAssumption DEF Items
  <2> DEFINE passed == (1 .. n) \cap PassedResults
             aborted == (1 .. n) \cap AbortedResults
             FailedIn(item) ==
               {k \in DOMAIN results :
                  item \in DOMAIN results[k].passed /\ ~results[k].passed[item]}
             failing == [item \in 1 .. Items |-> FailedIn(item)]
             failed == UNION {failing[item] : item \in 1 .. Items}
  <2>1. /\ tally.passed = Cardinality(passed)
        /\ summary.abrt = Cardinality(aborted)
        /\ summary.tsr = [item \in 1 .. Items |-> Synopsis(item)]
    BY <2>n, Counters
  <2>2. IsFiniteSet(1 .. n) /\ Cardinality(1 .. n) = n
    BY FS_Interval
  <2>3. ASSUME NEW item \in 1 .. Items
        PROVE  IsFiniteSet(failing[item]) /\ fails[item] = Cardinality(failing[item])
    <3>1. fails[item] = Cardinality(FailedIn(item))
      <4>1. First(item) = item
        OBVIOUS
      <4>2. fails[item] = Synopsis(item).fail
        BY <2>1
      <4>3. {k \in {j \in DOMAIN results : item \in DOMAIN results[j].passed} :
               ~results[k].passed[item]} = FailedIn(item)
        OBVIOUS
      <4>4. QED BY <4>1, <4>2, <4>3 DEF Synopsis
    <3>2. FailedIn(item) \subseteq 1 .. n
      BY <2>n
    <3>3. IsFiniteSet(FailedIn(item))
      BY <2>2, <3>2, FS_Subset
    <3>4. QED BY <3>1, <3>3
  <2>4. IsFiniteSet(failed) /\ Cardinality(failed) <= Total(fails)
    <3>1. IsFiniteSet(1 .. Items)
      BY <2>i, FS_Interval
    <3>2. DOMAIN fails = 1 .. Items
      OBVIOUS
    <3> HIDE DEF failing, fails
    <3>3. QED BY <2>3, <3>1, <3>2, UnionBound DEF Total, SumFunction
  <2>5. (1 .. n) \ passed \subseteq aborted \cup failed
    <3>1. SUFFICES ASSUME NEW k \in 1 .. n, k \notin passed, k \notin aborted
                   PROVE  k \in failed
      OBVIOUS
    <3>2. results[k] \in DieTestResult /\ k \in DOMAIN results
      BY <2>n, AtTheEnd
    <3>3. ~SortDie(results[k]).passed /\ ~results[k].aborted
      BY <3>1, <3>2 DEF PassedResults, AbortedResults
    <3>4. PICK item \in DOMAIN results[k].passed : ~results[k].passed[item]
      BY <3>2, <3>3, OutcomeFacts DEF Failures
    <3>5. item \in 1 .. Items
      BY <3>2, <3>4, ResultType
    <3>6. k \in failing[item]
      BY <3>2, <3>4, <3>5
    <3> HIDE DEF failing
    <3>7. QED BY <3>5, <3>6
  <2>6. /\ IsFiniteSet(passed) /\ Cardinality(passed) \in 0 .. n
        /\ IsFiniteSet(aborted) /\ Cardinality(aborted) \in 0 .. n
    BY OneMore
  <2>7. Cardinality((1 .. n) \ passed) = n - Cardinality(passed)
    <3>1. (1 .. n) \cap passed = passed
      OBVIOUS
    <3>2. Cardinality((1 .. n) \ passed) = Cardinality(1 .. n) - Cardinality((1 .. n) \cap passed)
      BY <2>2, FS_Difference
    <3>3. QED BY <2>2, <3>1, <3>2
  <2> HIDE DEF passed, aborted, failed, fails
  <2>8. /\ IsFiniteSet(aborted \cup failed)
        /\ Cardinality(aborted \cup failed) =
             Cardinality(aborted) + Cardinality(failed) - Cardinality(aborted \cap failed)
    BY <2>4, <2>6, FS_Union
  <2>9. Cardinality(aborted \cap failed) \in Nat /\ Cardinality(failed) \in Nat
    BY <2>4, <2>6, FS_Intersection, FS_CardinalityType
  <2>10. Cardinality((1 .. n) \ passed) <= Cardinality(aborted \cup failed)
    BY <2>5, <2>8, FS_Subset
  <2>11. Total(fails) \in Nat
    <3>1. \A item \in 1 .. Items : fails[item] \in Nat
      BY <2>3, FS_CardinalityType
    <3>2. DOMAIN fails = 1 .. Items
      BY DEF fails
    <3>3. IsFiniteSet(1 .. Items)
      BY <2>i, FS_Interval
    <3>4. QED BY <3>1, <3>2, <3>3, SumIsNat DEF Total, SumFunction
  <2>12. n - Cardinality(passed) <= Cardinality(aborted) + Total(fails)
    BY <2>4, <2>6, <2>7, <2>8, <2>9, <2>10, <2>11
  <2>13. QED BY <2>n, <2>1, <2>12
<1>2. QED BY <1>1, Sorting, PTL

----------------------------------------------------------------------------
(* The cohort rule                                                         *)

\* The counts of a taxonomy's bins.
IsCounts(bins) == \A bin \in DOMAIN bins : bins[bin] \in Nat

TallyCounts == IsCounts(tally.hard) /\ IsCounts(tally.soft)

\* Buckets that show no size below n.
Guarded(buckets, n) ==
  \A bin \in DOMAIN buckets :
    /\ buckets[bin] \in [count : Nat, withheld : BOOLEAN]
    /\ buckets[bin].withheld \/ n <= buckets[bin].count

\* The inductive invariant behind NothingBelowCohort: a size below the largest
\* cohort so far is marked, whichever redaction has marked it, and there is no
\* cohort before there is a summary.
CohortInv ==
  /\ TallyCounts
  /\ redactedFor \in Nat
  /\ ~IsBuilt => redactedFor = 0
  /\ IsBuilt =>
       /\ {"hard_bins", "soft_bins"} \subseteq DOMAIN distribution
       /\ Guarded(distribution.hard_bins, redactedFor)
       /\ Guarded(distribution.soft_bins, redactedFor)

\* Counting a die in a bin leaves counts.
LEMMA CountType ==
  ASSUME NEW bins, IsCounts(bins), NEW bin
  PROVE  IsCounts(Count(bins, bin))
BY DEF IsCounts, Count

\* Fresh buckets hide nothing, and there is no cohort yet.
LEMMA BucketsGuarded ==
  ASSUME NEW counts, IsCounts(counts)
  PROVE  Guarded(Buckets(counts), 0)
BY DEF IsCounts, Buckets, Guarded

\* A redaction marks what lies below its cohort and takes no mark back.
LEMMA RedactAllGuarded ==
  ASSUME NEW buckets, NEW n \in Nat, NEW min_cohort \in Nat, Guarded(buckets, n)
  PROVE  Guarded(RedactAll(buckets, min_cohort), IF min_cohort > n THEN min_cohort ELSE n)
<1> DEFINE largest == IF min_cohort > n THEN min_cohort ELSE n
<1> SUFFICES ASSUME NEW bin \in DOMAIN buckets
             PROVE  /\ Redact(buckets[bin], min_cohort) \in [count : Nat, withheld : BOOLEAN]
                    /\ \/ Redact(buckets[bin], min_cohort).withheld
                       \/ largest <= Redact(buckets[bin], min_cohort).count
  BY DEF Guarded, RedactAll
<1> DEFINE bucket == buckets[bin]
           redacted == Redact(bucket, min_cohort)
<1>1. /\ bucket \in [count : Nat, withheld : BOOLEAN]
      /\ bucket.withheld \/ n <= bucket.count
  BY DEF Guarded
<1>2. /\ redacted \in [count : Nat, withheld : BOOLEAN]
      /\ redacted.count = bucket.count
      /\ redacted.withheld = (bucket.withheld \/ bucket.count < min_cohort)
  BY <1>1 DEF Redact
<1>3. bucket.count \in Nat
  BY <1>1
<1>4. bucket.withheld \/ bucket.count < min_cohort \/ largest <= bucket.count
  BY <1>1, <1>3
<1>5. redacted.withheld \/ largest <= redacted.count
  BY <1>2, <1>4
<1>6. QED BY <1>2, <1>5

\* The bin summary is made beside the wafer's flow: no redaction and no
\* publication touches a counter of the file, so that what is proved of
\* WaferSort holds here as well.
THEOREM OutcomeKeepsSort == OutcomeSpec => Spec
<1>1. OutcomeInit => Init
  BY DEF OutcomeInit
<1>2. [OutcomeNext]_allVars => [Next]_vars
  BY DEF OutcomeNext, Summarize, RedactBelowCohort, allVars
<1>3. QED BY <1>1, <1>2, PTL DEF OutcomeSpec, Spec

\* Once redacted for a cohort, no bucket shows a number below it, whatever
\* the later redactions and publications are for.
THEOREM CohortIsKept == OutcomeSpec => []NothingBelowCohort
<1>1. OutcomeInit => CohortInv
  BY DEF OutcomeInit, Init, EmptyTally, IsBuilt, CohortInv, TallyCounts, IsCounts
<1>2. CohortInv /\ [OutcomeNext]_allVars => CohortInv'
  <2> SUFFICES ASSUME CohortInv, [OutcomeNext]_allVars PROVE CohortInv'
    OBVIOUS
  <2>1. CASE UNCHANGED outcomeVars /\ UNCHANGED tally
    BY <2>1 DEF outcomeVars, CohortInv, TallyCounts, IsBuilt
  <2>2. CASE Next /\ UNCHANGED outcomeVars
    <3>1. CASE TallyNext
      <4>1. PICK hard, soft : /\ tally'.hard = Count(tally.hard, hard)
                              /\ tally'.soft = Count(tally.soft, soft)
        BY <3>1 DEF TallyNext, Tally
      <4>2. TallyCounts'
        BY <4>1, CountType DEF CohortInv, TallyCounts
      <4>3. QED BY <2>2, <4>2 DEF outcomeVars, CohortInv, IsBuilt
    <3>2. CASE ~TallyNext
      <4>1. UNCHANGED tally
        BY <2>2, <3>2 DEF Next, Test, StartSort, SortNext, StartTally, Build, Starts
      <4>2. QED BY <2>1, <2>2, <4>1
    <3>3. QED BY <3>1, <3>2
  <2>3. CASE Summarize
    <3>1. UNCHANGED <<tally, redactedFor>> /\ distribution' = FromTally
      BY <2>3 DEF Summarize, vars
    <3>2. /\ Guarded(distribution'.hard_bins, 0)
          /\ Guarded(distribution'.soft_bins, 0)
          /\ {"hard_bins", "soft_bins"} \subseteq DOMAIN distribution'
      BY <3>1, BucketsGuarded DEF CohortInv, TallyCounts, FromTally
    <3>3. redactedFor = 0
      BY <2>3 DEF Summarize, CohortInv
    <3>4. distribution' # NoDistribution
      BY <3>2 DEF NoDistribution
    <3>5. QED BY <3>1, <3>2, <3>3, <3>4 DEF CohortInv, TallyCounts, IsBuilt
  <2>4. ASSUME NEW min_cohort \in Cohorts, RedactBelowCohort(min_cohort)
        PROVE  CohortInv'
    <3> DEFINE n == IF min_cohort > redactedFor THEN min_cohort ELSE redactedFor
    <3>1. /\ UNCHANGED tally /\ redactedFor' = n
          /\ distribution' = [distribution EXCEPT
                                !.hard_bins = RedactAll(@, min_cohort),
                                !.soft_bins = RedactAll(@, min_cohort)]
      BY <2>4 DEF RedactBelowCohort, vars
    <3>2. min_cohort \in Nat /\ n \in Nat
      BY CohortAssumption DEF CohortInv
    <3>3. /\ {"hard_bins", "soft_bins"} \subseteq DOMAIN distribution
          /\ Guarded(distribution.hard_bins, redactedFor)
          /\ Guarded(distribution.soft_bins, redactedFor)
      BY <2>4 DEF RedactBelowCohort, CohortInv
    <3>4. /\ DOMAIN distribution' = DOMAIN distribution
          /\ distribution'.hard_bins = RedactAll(distribution.hard_bins, min_cohort)
          /\ distribution'.soft_bins = RedactAll(distribution.soft_bins, min_cohort)
      BY <3>1, <3>3
    <3>5. Guarded(distribution'.hard_bins, n) /\ Guarded(distribution'.soft_bins, n)
      BY <3>2, <3>3, <3>4, RedactAllGuarded DEF CohortInv
    <3>6. distribution' # NoDistribution
      BY <3>3, <3>4 DEF NoDistribution
    <3>7. QED BY <3>1, <3>2, <3>3, <3>4, <3>5, <3>6 DEF CohortInv, TallyCounts, IsBuilt
  <2>5. CASE UNCHANGED allVars
    BY <2>1, <2>5 DEF allVars, vars, outcomeVars
  <2>6. QED BY <2>2, <2>3, <2>4, <2>5 DEF OutcomeNext
<1>3. CohortInv => NothingBelowCohort
  <2> SUFFICES ASSUME CohortInv, IsBuilt, NEW bucket \in AllBuckets,
                      NEW n \in Cohorts, n <= redactedFor
               PROVE  PublishableCount(bucket, n) >= n
    BY DEF NothingBelowCohort
  <2>1. /\ bucket \in [count : Nat, withheld : BOOLEAN]
        /\ bucket.withheld \/ redactedFor <= bucket.count
    BY DEF CohortInv, AllBuckets, Guarded
  <2>2. n \in Nat /\ redactedFor \in Nat /\ bucket.count \in Nat
    BY <2>1, CohortAssumption DEF CohortInv
  <2>3. QED BY <2>1, <2>2 DEF PublishableCount
<1>4. QED BY <1>1, <1>2, <1>3, PTL DEF OutcomeSpec
=============================================================================
