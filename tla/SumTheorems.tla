---------------------------- MODULE SumTheorems -----------------------------
(***************************************************************************)
(* Sums over finite sets: that SumFunctionOnSet, a recursive function, is  *)
(* well defined, and what it returns when the set grows or shrinks.        *)
(*                                                                         *)
(* The induction is over the subsets of a finite set, and needs no         *)
(* induction theorem: if some subset had not the property, there would be  *)
(* a smallest such subset (strict inclusion is well-founded).              *)
(***************************************************************************)
EXTENDS Integers, FiniteSets, Functions, TLAPS,
        FiniteSetTheorems, WellFoundedInduction

\* Of any subsets of a finite set, one has none of the others in it.
LEMMA SmallestSubset ==
  ASSUME NEW S, IsFiniteSet(S), NEW B \in SUBSET SUBSET S, B # {}
  PROVE  \E U \in B : \A V \in B : ~(V \subseteq U /\ V # U)
<1>1. FiniteSubsetsOf(S) = SUBSET S
  BY FS_FiniteSubsetsOfFinite
<1>2. IsWellFoundedOn(StrictSubsetOrdering(S), SUBSET S)
  BY <1>1, FS_StrictSubsetOrderingWellFounded
<1>3. \E U \in B : \A V \in B : ~(<<V, U>> \in StrictSubsetOrdering(S))
  BY <1>2, WFMin
<1>4. \A U \in B, V \in B :
        V \subseteq U /\ V # U => <<V, U>> \in StrictSubsetOrdering(S)
  BY DEF StrictSubsetOrdering
<1> QED
  BY <1>3, <1>4

-----------------------------------------------------------------------------
(* The recursive function of the definition.                               *)

Picked(s) == CHOOSE x \in s : TRUE

Sums(f, S, g) ==
  g = [s \in SUBSET S |-> IF s = {} THEN 0 ELSE f[Picked(s)] + g[s \ {Picked(s)}]]

LEMMA SumIsSums ==
  ASSUME NEW f, NEW S
  PROVE  SumFunctionOnSet(f, S) = (CHOOSE g : Sums(f, S, g))[S]
BY DEF SumFunctionOnSet, FoldFunctionOnSet, MapThenFoldSet, Sums, Picked

LEMMA SumsStep ==
  ASSUME NEW f, NEW S, NEW g, Sums(f, S, g), NEW U \in SUBSET S
  PROVE  g[U] = IF U = {} THEN 0 ELSE f[Picked(U)] + g[U \ {Picked(U)}]
<1>1. \A s \in SUBSET S :
        g[s] = IF s = {} THEN 0 ELSE f[Picked(s)] + g[s \ {Picked(s)}]
  BY DEF Sums
<1> QED
  BY <1>1

LEMMA PickedIn == ASSUME NEW s, s # {} PROVE Picked(s) \in s
BY DEF Picked

LEMMA SumsUnique ==
  ASSUME NEW f, NEW S, NEW V, V \subseteq S, IsFiniteSet(V),
         NEW g, Sums(f, S, g), NEW k, Sums(f, V, k)
  PROVE  \A U \in SUBSET V : g[U] = k[U]
<1> DEFINE B == {U \in SUBSET V : g[U] # k[U]}
<1> SUFFICES ASSUME B # {} PROVE FALSE
  OBVIOUS
<1>1. PICK U \in B : \A W \in B : ~(W \subseteq U /\ W # U)
  <2>1. B \in SUBSET SUBSET V
    OBVIOUS
  <2> HIDE DEF B
  <2> QED
    BY <2>1, SmallestSubset
<1>2. /\ g[U] = IF U = {} THEN 0 ELSE f[Picked(U)] + g[U \ {Picked(U)}]
      /\ k[U] = IF U = {} THEN 0 ELSE f[Picked(U)] + k[U \ {Picked(U)}]
  BY SumsStep
<1>3. CASE U = {}
  BY <1>2, <1>3
<1>4. CASE U # {}
  <2>1. U \ {Picked(U)} \notin B
    BY <1>1, <1>4, PickedIn
  <2> QED
    BY <2>1, <1>2, <1>4
<1> QED
  BY <1>3, <1>4

LEMMA SumsExist ==
  ASSUME NEW f, NEW S, IsFiniteSet(S)
  PROVE  \E g : Sums(f, S, g)
<1> DEFINE B == {U \in SUBSET S : ~ \E g : Sums(f, U, g)}
           G(V) == CHOOSE g : Sums(f, V, g)
<1> SUFFICES ASSUME B # {} PROVE FALSE
  OBVIOUS
<1>1. PICK U \in B : \A W \in B : ~(W \subseteq U /\ W # U)
  <2>1. B \in SUBSET SUBSET S
    OBVIOUS
  <2> HIDE DEF B
  <2> QED
    BY <2>1, SmallestSubset
<1>2. \A V \in SUBSET U : V # U => Sums(f, V, G(V)) /\ IsFiniteSet(V)
  BY <1>1, FS_Subset
<1> DEFINE h == [s \in SUBSET U |->
                   IF s = {} THEN 0
                   ELSE f[Picked(s)] + G(s \ {Picked(s)})[s \ {Picked(s)}]]
<1>3. ASSUME NEW V \in SUBSET U, V # U PROVE h[V] = G(V)[V]
  <2>1. G(V)[V] = IF V = {} THEN 0 ELSE f[Picked(V)] + G(V)[V \ {Picked(V)}]
    <3> HIDE DEF G
    <3> QED
      BY <1>2, <1>3, SumsStep
  <2>2. CASE V = {}
    BY <2>1, <2>2
  <2>3. CASE V # {}
    <3> DEFINE W == V \ {Picked(V)}
    <3>1. W \in SUBSET V /\ W \in SUBSET U /\ W # U
      BY <1>3
    <3>2. Sums(f, V, G(V)) /\ Sums(f, W, G(W)) /\ IsFiniteSet(W)
      <4> HIDE DEF G, W
      <4> QED
        BY <1>2, <1>3, <3>1
    <3>3. G(V)[W] = G(W)[W]
      <4> HIDE DEF G, W
      <4> QED
        BY <3>1, <3>2, SumsUnique
    <3> QED
      BY <2>1, <2>3, <3>3
  <2> QED
    BY <2>2, <2>3
<1>4. \A s \in SUBSET U : s # {} => h[s \ {Picked(s)}] = G(s \ {Picked(s)})[s \ {Picked(s)}]
  <2> SUFFICES ASSUME NEW s \in SUBSET U, s # {}
               PROVE  h[s \ {Picked(s)}] = G(s \ {Picked(s)})[s \ {Picked(s)}]
    OBVIOUS
  <2>1. s \ {Picked(s)} \in SUBSET U /\ s \ {Picked(s)} # U
    BY PickedIn
  <2> HIDE DEF h, G
  <2> QED
    BY <2>1, <1>3
<1>5. h = [s \in SUBSET U |->
             IF s = {} THEN 0 ELSE f[Picked(s)] + h[s \ {Picked(s)}]]
  <2>1. \A s \in SUBSET U :
          h[s] = IF s = {} THEN 0 ELSE f[Picked(s)] + h[s \ {Picked(s)}]
    <3> SUFFICES ASSUME NEW s \in SUBSET U
                 PROVE  h[s] = IF s = {} THEN 0 ELSE f[Picked(s)] + h[s \ {Picked(s)}]
      OBVIOUS
    <3>1. h[s] = IF s = {} THEN 0
                 ELSE f[Picked(s)] + G(s \ {Picked(s)})[s \ {Picked(s)}]
      OBVIOUS
    <3> HIDE DEF h, G
    <3> QED
      BY <3>1, <1>4
  <2>2. h = [s \in SUBSET U |-> h[s]]
    OBVIOUS
  <2> HIDE DEF h
  <2> QED
    BY <2>1, <2>2
<1>6. Sums(f, U, h)
  BY <1>5 DEF Sums
<1> QED
  BY <1>1, <1>6

-----------------------------------------------------------------------------
(* The facts about SumFunctionOnSet.                                       *)

LEMMA SumStep ==
  ASSUME NEW f, NEW S, IsFiniteSet(S)
  PROVE  SumFunctionOnSet(f, S) =
           IF S = {} THEN 0
           ELSE f[Picked(S)] + SumFunctionOnSet(f, S \ {Picked(S)})
<1> DEFINE G(V) == CHOOSE g : Sums(f, V, g)
           V == S \ {Picked(S)}
<1>1. V \in SUBSET S /\ IsFiniteSet(V)
  BY FS_RemoveElement
<1>2. Sums(f, S, G(S)) /\ Sums(f, V, G(V))
  <2> HIDE DEF V
  <2> QED
    BY <1>1, SumsExist
<1>3. SumFunctionOnSet(f, S) = G(S)[S] /\ SumFunctionOnSet(f, V) = G(V)[V]
  BY SumIsSums
<1> HIDE DEF G
<1>4. G(S)[S] = IF S = {} THEN 0 ELSE f[Picked(S)] + G(S)[V]
  BY <1>2, SumsStep
<1>5. G(S)[V] = G(V)[V]
  <2> HIDE DEF V
  <2> QED
    BY <1>1, <1>2, SumsUnique
<1> QED
  BY <1>3, <1>4, <1>5

\* The sum over no element.
THEOREM SumEmpty == ASSUME NEW f PROVE SumFunctionOnSet(f, {}) = 0
BY SumStep, FS_EmptySet

\* A sum of integers is an integer, a sum of naturals a natural.
THEOREM SumType ==
  ASSUME NEW f, NEW S, IsFiniteSet(S), NEW T, T = Int \/ T = Nat,
         \A s \in S : f[s] \in T
  PROVE  SumFunctionOnSet(f, S) \in T
<1> DEFINE B == {U \in SUBSET S : SumFunctionOnSet(f, U) \notin T}
<1> SUFFICES ASSUME B # {} PROVE FALSE
  OBVIOUS
<1>1. PICK U \in B : \A W \in B : ~(W \subseteq U /\ W # U)
  <2>1. B \in SUBSET SUBSET S
    OBVIOUS
  <2> HIDE DEF B
  <2> QED
    BY <2>1, SmallestSubset
<1>2. IsFiniteSet(U)
  BY FS_Subset
<1>3. SumFunctionOnSet(f, U) = IF U = {} THEN 0
        ELSE f[Picked(U)] + SumFunctionOnSet(f, U \ {Picked(U)})
  BY <1>2, SumStep
<1>4. CASE U = {}
  BY <1>3, <1>4
<1>5. CASE U # {}
  <2>1. Picked(U) \in U /\ f[Picked(U)] \in T
    BY <1>5, PickedIn
  <2>2. SumFunctionOnSet(f, U \ {Picked(U)}) \in T
    BY <1>1, <2>1
  <2> QED
    BY <2>1, <2>2, <1>3, <1>5
<1> QED
  BY <1>4, <1>5

\* Any element of the set may be taken out first.
THEOREM SumRemove ==
  ASSUME NEW f, NEW S, IsFiniteSet(S), \A s \in S : f[s] \in Int, NEW y \in S
  PROVE  SumFunctionOnSet(f, S) = f[y] + SumFunctionOnSet(f, S \ {y})
<1> DEFINE Sum(U) == SumFunctionOnSet(f, U)
           B == {U \in SUBSET S : \E z \in U : Sum(U) # f[z] + Sum(U \ {z})}
<1> SUFFICES ASSUME B # {} PROVE FALSE
  OBVIOUS
<1>1. PICK U \in B : \A W \in B : ~(W \subseteq U /\ W # U)
  <2>1. B \in SUBSET SUBSET S
    OBVIOUS
  <2> HIDE DEF B
  <2> QED
    BY <2>1, SmallestSubset
<1>2. PICK z \in U : Sum(U) # f[z] + Sum(U \ {z})
  BY <1>1
<1> DEFINE x == Picked(U)
           V == (U \ {x}) \ {z}
<1>3. x \in U /\ f[x] \in Int /\ f[z] \in Int
  BY PickedIn
<1>4. Sum(U) = f[x] + Sum(U \ {x})
  BY FS_Subset, SumStep
<1>5. Sum(V) \in Int
  <2>1. IsFiniteSet(V)
    BY FS_Subset
  <2> HIDE DEF V
  <2>2. \A s \in V : f[s] \in Int
    BY DEF V
  <2> QED
    BY <2>1, <2>2, SumType
<1>6. \A W \in SUBSET U : W # U => \A w \in W : Sum(W) = f[w] + Sum(W \ {w})
  BY <1>1
<1>7. U \ {x} \in SUBSET U /\ U \ {z} \in SUBSET U /\ U \ {x} # U /\ U \ {z} # U
  BY <1>3
<1> HIDE DEF Sum, x, B
<1>8. CASE x = z
  BY <1>2, <1>4, <1>8
<1>9. CASE x # z
  <2>1. Sum(U \ {x}) = f[z] + Sum((U \ {x}) \ {z})
    BY <1>6, <1>7, <1>3, <1>9
  <2>2. Sum(U \ {z}) = f[x] + Sum((U \ {z}) \ {x})
    BY <1>6, <1>7, <1>3, <1>9
  <2>3. (U \ {z}) \ {x} = V
    OBVIOUS
  <2>4. Sum(U \ {x}) = f[z] + Sum(V) /\ Sum(U \ {z}) = f[x] + Sum(V)
    BY <2>1, <2>2, <2>3
  <2> HIDE DEF V
  <2> QED
    BY <2>4, <1>2, <1>3, <1>4, <1>5
<1> QED
  BY <1>8, <1>9

\* The sum over a set with one element more.
THEOREM SumAdd ==
  ASSUME NEW f, NEW S, IsFiniteSet(S), NEW y, y \notin S, f[y] \in Int,
         \A s \in S : f[s] \in Int
  PROVE  SumFunctionOnSet(f, S \cup {y}) = f[y] + SumFunctionOnSet(f, S)
<1>1. IsFiniteSet(S \cup {y}) /\ (S \cup {y}) \ {y} = S
  BY FS_AddElement
<1>2. \A s \in S \cup {y} : f[s] \in Int
  OBVIOUS
<1> QED
  BY <1>1, <1>2, SumRemove

\* The sum over a set and a set apart from it.
THEOREM SumDisjoint ==
  ASSUME NEW f, NEW S, IsFiniteSet(S), NEW T, IsFiniteSet(T), S \cap T = {},
         \A s \in S \cup T : f[s] \in Int
  PROVE  SumFunctionOnSet(f, S \cup T) =
           SumFunctionOnSet(f, S) + SumFunctionOnSet(f, T)
<1> DEFINE Sum(U) == SumFunctionOnSet(f, U)
           B == {U \in SUBSET T : Sum(S \cup U) # Sum(S) + Sum(U)}
<1>1. \A U \in SUBSET T : IsFiniteSet(U) /\ IsFiniteSet(S \cup U)
  BY FS_Subset, FS_Union
<1>2. \A U \in SUBSET T : Sum(U) \in Int
  BY <1>1, SumType
<1>3. Sum(S) \in Int
  BY SumType
<1> SUFFICES ASSUME B # {} PROVE FALSE
  OBVIOUS
<1>4. PICK U \in B : \A W \in B : ~(W \subseteq U /\ W # U)
  <2>1. B \in SUBSET SUBSET T
    OBVIOUS
  <2> HIDE DEF B
  <2> QED
    BY <2>1, SmallestSubset
<1>5. CASE U = {}
  <2>1. Sum({}) = 0 /\ S \cup {} = S
    BY SumEmpty
  <2> HIDE DEF Sum
  <2> QED
    BY <2>1, <1>3, <1>4, <1>5
<1>6. CASE U # {}
  <2> DEFINE x == Picked(U)
             V == U \ {x}
  <2>1. x \in U /\ f[x] \in Int
    BY <1>6, PickedIn
  <2>2. Sum(U) = f[x] + Sum(V)
    BY <1>1, <2>1, SumRemove
  <2>3. Sum(S \cup U) = f[x] + Sum((S \cup U) \ {x})
    BY <1>1, <2>1, SumRemove
  <2>4. (S \cup U) \ {x} = S \cup V
    BY <2>1
  <2> HIDE DEF Sum
  <2>5. V \in SUBSET T /\ V \subseteq U /\ V # U
    BY <2>1
  <2>6. Sum(S \cup V) = Sum(S) + Sum(V)
    BY <2>5, <1>4
  <2>7. Sum(V) \in Int
    BY <2>5, <1>2
  <2> QED
    BY <2>1, <2>2, <2>3, <2>4, <2>6, <2>7, <1>3, <1>4
<1> QED
  BY <1>5, <1>6

\* Of naturals a smaller set has no larger sum.
THEOREM SumMonotone ==
  ASSUME NEW f, NEW T, IsFiniteSet(T), NEW S \in SUBSET T,
         \A t \in T : f[t] \in Nat
  PROVE  SumFunctionOnSet(f, S) <= SumFunctionOnSet(f, T)
<1>1. IsFiniteSet(S) /\ IsFiniteSet(T \ S)
  BY FS_Subset
<1>2. SumFunctionOnSet(f, S) \in Nat /\ SumFunctionOnSet(f, T \ S) \in Nat
  BY <1>1, SumType
<1>3. S \cup (T \ S) = T /\ S \cap (T \ S) = {} /\ \A t \in T : f[t] \in Int
  OBVIOUS
<1>4. SumFunctionOnSet(f, T) = SumFunctionOnSet(f, S) + SumFunctionOnSet(f, T \ S)
  BY <1>1, <1>3, SumDisjoint
<1> QED
  BY <1>2, <1>4
=============================================================================
