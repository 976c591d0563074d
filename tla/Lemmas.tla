------------------------------- MODULE Lemmas -------------------------------
(***************************************************************************)
(* What the proofs need of least elements and of sums over finite sets.    *)
(* The folds of the community modules are recursive functions on the       *)
(* subsets of a finite set; a statement about all of these is proved by    *)
(* looking at a smallest one for which it fails.                           *)
(***************************************************************************)
EXTENDS Integers, FiniteSetsExt, FiniteSetTheorems, WellFoundedInduction, TLAPS

Less == {pair \in Nat \X Nat : pair[1] < pair[2]}

LEMMA LessWellFounded == IsWellFoundedOn(Less, Nat)
<1>1. IsWellFoundedOn(OpToRel(<, Nat), Nat)
  BY NatLessThanWellFounded, Zenon
<1>2. OpToRel(<, Nat) = Less
  BY Zenon DEF OpToRel, Less
<1> QED BY <1>1, <1>2, Zenon

LEMMA MinIsLeast ==
  ASSUME NEW S \in SUBSET Nat, S # {}
  PROVE  Min(S) \in S /\ \A y \in S : Min(S) <= y
<1>1. PICK x \in S : \A y \in S : <<y, x>> \notin Less
  BY LessWellFounded, WFMin
<1>2. ASSUME NEW y \in S, ~(x <= y) PROVE FALSE
  <2>1. y \in Nat /\ x \in Nat /\ y < x
    BY <1>2
  <2>2. <<y, x>> \in Less
    BY <2>1 DEF Less
  <2> QED BY <1>1, <2>2
<1> QED BY <1>2 DEF Min

LEMMA MaxIsInside ==
  ASSUME NEW n \in Nat, NEW S \in SUBSET (1..n), S # {}
  PROVE  Max(S) \in S /\ \A y \in S : Max(S) >= y
<1> DEFINE Below == {i \in 0..n : n - i \in S}
<1>1. Below \in SUBSET Nat /\ Below # {}
  <2>1. PICK x \in S : TRUE
    OBVIOUS
  <2>2. n - x \in Below
    BY <2>1
  <2>3. Below \in SUBSET Nat
    OBVIOUS
  <2> HIDE DEF Below
  <2> QED BY <2>2, <2>3
<1>2. PICK least \in Below : \A y \in Below : least <= y
  <2> HIDE DEF Below
  <2> QED BY <1>1, MinIsLeast
<1>3. ASSUME NEW y \in S PROVE n - least >= y
  <2>1. n - y \in Below
    OBVIOUS
  <2> QED BY <1>2, <2>1
<1>4. n - least \in S
  BY <1>2
<1> QED BY <1>3, <1>4 DEF Max

LEMMA SmallestSubset ==
  ASSUME NEW S, IsFiniteSet(S), NEW Family \in SUBSET SUBSET S, Family # {}
  PROVE  \E T \in Family : \A U \in SUBSET T : U # T => U \notin Family
<1>1. IsWellFoundedOn(StrictSubsetOrdering(S), FiniteSubsetsOf(S))
  BY FS_StrictSubsetOrderingWellFounded
<1>2. Family \subseteq FiniteSubsetsOf(S)
  BY FS_Subset DEF FiniteSubsetsOf
<1>3. PICK T \in Family : \A U \in Family : <<U, T>> \notin StrictSubsetOrdering(S)
  BY <1>1, <1>2, WFMin
<1>4. ASSUME NEW U \in SUBSET T, U # T, U \in Family PROVE FALSE
  BY <1>3, <1>4 DEF StrictSubsetOrdering
<1> QED BY <1>3, <1>4

-----------------------------------------------------------------------------
(* Sums.                                                                   *)

Total(f, S) == MapThenSumSet(LAMBDA i : f[i], S)

Pick(S) == CHOOSE x \in S : TRUE

\* the function behind the fold, for the subsets of S
Sums(g, f, S) ==
  g = [T \in SUBSET S |-> IF T = {} THEN 0 ELSE f[Pick(T)] + g[T \ {Pick(T)}]]

LEMMA TotalIsFold ==
  ASSUME NEW f, NEW S PROVE Total(f, S) = (CHOOSE g : Sums(g, f, S))[S]
  BY DEF Total, MapThenSumSet, MapThenFoldSet, Sums, Pick

LEMMA PickInside == ASSUME NEW S, S # {} PROVE Pick(S) \in S
  BY DEF Pick

LEMMA SumsAgree ==
  ASSUME NEW f, NEW S, IsFiniteSet(S), NEW U \in SUBSET S,
         NEW g, Sums(g, f, S), NEW h, Sums(h, f, U)
  PROVE  \A T \in SUBSET U : g[T] = h[T]
<1> DEFINE Bad == {T \in SUBSET U : g[T] # h[T]}
<1> SUFFICES ASSUME Bad # {} PROVE FALSE
  OBVIOUS
<1>1. IsFiniteSet(U)
  BY FS_Subset
<1>2. PICK T \in Bad : \A V \in SUBSET T : V # T => V \notin Bad
  <2>1. Bad \in SUBSET SUBSET U
    OBVIOUS
  <2> HIDE DEF Bad
  <2> QED BY <1>1, <2>1, SmallestSubset
<1>3. T # {}
  BY <1>2 DEF Sums
<1>4. Pick(T) \in T
  BY <1>3, PickInside
<1>5. g[T \ {Pick(T)}] = h[T \ {Pick(T)}]
  BY <1>2, <1>4
<1>6. g[T] = f[Pick(T)] + g[T \ {Pick(T)}] /\ h[T] = f[Pick(T)] + h[T \ {Pick(T)}]
  BY <1>2, <1>3 DEF Sums
<1> QED BY <1>2, <1>5, <1>6

LEMMA SumsExist ==
  ASSUME NEW f, NEW S, IsFiniteSet(S) PROVE \E g : Sums(g, f, S)
<1> DEFINE Bad == {T \in SUBSET S : ~ \E g : Sums(g, f, T)}
<1> SUFFICES ASSUME Bad # {} PROVE FALSE
  OBVIOUS
<1>1. PICK T \in Bad : \A V \in SUBSET T : V # T => V \notin Bad
  <2>1. Bad \in SUBSET SUBSET S
    OBVIOUS
  <2> HIDE DEF Bad
  <2> QED BY <2>1, SmallestSubset
<1>2. ASSUME NEW V \in SUBSET T, V # T PROVE \E g : Sums(g, f, V)
  BY <1>1, <1>2
<1> DEFINE fold(V) == CHOOSE g : Sums(g, f, V)
           rest(V) == V \ {Pick(V)}
           h == [V \in SUBSET T |->
                   IF V = {} THEN 0 ELSE f[Pick(V)] + fold(rest(V))[rest(V)]]
<1>3. ASSUME NEW V \in SUBSET T, V # {} PROVE h[rest(V)] = fold(rest(V))[rest(V)]
  <2> DEFINE W == rest(V)
  <2>1. Pick(V) \in V
    BY <1>3, PickInside
  <2>2. W \in SUBSET T /\ W # T
    BY <2>1
  <2>3. Sums(fold(W), f, W)
    BY <2>2, <1>2
  <2>4. CASE W = {}
    BY <2>2, <2>3, <2>4 DEF Sums
  <2>5. CASE W # {}
    <3>1. Pick(W) \in W /\ rest(W) \in SUBSET W
      BY <2>5, PickInside
    <3>2. rest(W) \in SUBSET T /\ rest(W) # T /\ IsFiniteSet(W)
      BY <2>2, <3>1, <1>1, FS_Subset
    <3>3. Sums(fold(rest(W)), f, rest(W))
      BY <3>2, <1>2
    <3>4. fold(W)[rest(W)] = fold(rest(W))[rest(W)]
      <4> DEFINE U == rest(W)
                 g == fold(W)
                 k == fold(U)
      <4>1. U \in SUBSET W /\ Sums(g, f, W) /\ Sums(k, f, U) /\ IsFiniteSet(W)
        BY <2>3, <3>1, <3>2, <3>3
      <4> HIDE DEF U, W, g, k
      <4>2. g[U] = k[U]
        BY <4>1, SumsAgree
      <4> QED BY <4>2 DEF U, g, k
    <3> HIDE DEF fold
    <3>5. fold(W)[W] = f[Pick(W)] + fold(W)[rest(W)]
      BY <2>3, <2>5 DEF Sums
    <3>6. h[W] = f[Pick(W)] + fold(rest(W))[rest(W)]
      BY <2>2, <2>5
    <3> QED BY <3>4, <3>5, <3>6
  <2> QED BY <2>4, <2>5
<1>4. Sums(h, f, T)
  <2> HIDE DEF fold
  <2>1. h = [V \in SUBSET T |-> IF V = {} THEN 0 ELSE f[Pick(V)] + h[rest(V)]]
    BY <1>3
  <2> QED BY <2>1 DEF Sums
<1> QED BY <1>1, <1>4

\* a sum takes its summands in some order
LEMMA TotalUnfolds ==
  ASSUME NEW f, NEW S, IsFiniteSet(S)
  PROVE  /\ Total(f, {}) = 0
         /\ S # {} => Total(f, S) = f[Pick(S)] + Total(f, S \ {Pick(S)})
<1> DEFINE fold(V) == CHOOSE g : Sums(g, f, V)
<1>1. \A V \in SUBSET S : Sums(fold(V), f, V) /\ Total(f, V) = fold(V)[V]
  <2> SUFFICES ASSUME NEW V \in SUBSET S
               PROVE  Sums(fold(V), f, V) /\ Total(f, V) = fold(V)[V]
    OBVIOUS
  <2>1. \E g : Sums(g, f, V)
    BY FS_Subset, SumsExist
  <2> QED BY <2>1, TotalIsFold
<1> HIDE DEF fold
<1>2. Total(f, {}) = 0
  <2>1. Sums(fold({}), f, {}) /\ Total(f, {}) = fold({})[{}]
    BY <1>1
  <2> QED BY <2>1 DEF Sums
<1>3. ASSUME S # {} PROVE Total(f, S) = f[Pick(S)] + Total(f, S \ {Pick(S)})
  <2> DEFINE R == S \ {Pick(S)}
  <2>1. fold(S)[S] = f[Pick(S)] + fold(S)[R]
    BY <1>1, <1>3 DEF Sums
  <2>2. fold(S)[R] = fold(R)[R]
    BY <1>1, SumsAgree
  <2> QED BY <1>1, <2>1, <2>2
<1> QED BY <1>2, <1>3

\* ... and in any order
LEMMA TotalRemoves ==
  ASSUME NEW S, IsFiniteSet(S), NEW f, \A i \in S : f[i] \in Int
  PROVE  /\ Total(f, S) \in Int
         /\ \A x \in S : Total(f, S) = f[x] + Total(f, S \ {x})
<1> DEFINE Good(T) == /\ Total(f, T) \in Int
                      /\ \A x \in T : Total(f, T) = f[x] + Total(f, T \ {x})
           Bad == {T \in SUBSET S : ~Good(T)}
<1> SUFFICES ASSUME Bad # {} PROVE FALSE
  OBVIOUS
<1>1. PICK T \in Bad : \A V \in SUBSET T : V # T => V \notin Bad
  <2>1. Bad \in SUBSET SUBSET S
    OBVIOUS
  <2> HIDE DEF Bad
  <2> QED BY <2>1, SmallestSubset
<1>2. \A V \in SUBSET T : V # T => Good(V)
  BY <1>1
<1>3. /\ T \in SUBSET S /\ IsFiniteSet(T)
      /\ \A V \in SUBSET T : IsFiniteSet(V)
  BY <1>1, FS_Subset
<1>4. T # {}
  <2>1. Total(f, {}) = 0
    BY FS_EmptySet, TotalUnfolds
  <2>2. Good({})
    BY <2>1
  <2> QED BY <1>1, <2>2
<1> DEFINE c == Pick(T)
<1>5. c \in T
  BY <1>4, PickInside
<1>6. Total(f, T) = f[c] + Total(f, T \ {c})
  BY <1>3, <1>4, TotalUnfolds
<1> HIDE DEF c
<1>7. Total(f, T \ {c}) \in Int
  BY <1>2, <1>5
<1>8. ASSUME NEW x \in T PROVE Total(f, T) = f[x] + Total(f, T \ {x})
  <2>1. CASE x = c
    BY <1>6, <2>1
  <2>2. CASE x # c
    <3> DEFINE both == T \ {c, x}
    <3>1. Total(f, T \ {c}) = f[x] + Total(f, both)
      <4>1. Good(T \ {c}) /\ x \in T \ {c} /\ both = (T \ {c}) \ {x}
        BY <1>2, <1>5, <2>2
      <4> QED BY <4>1
    <3>2. Total(f, T \ {x}) = f[c] + Total(f, both)
      <4>1. Good(T \ {x}) /\ c \in T \ {x} /\ both = (T \ {x}) \ {c}
        BY <1>2, <1>5, <2>2
      <4> QED BY <4>1
    <3>3. Total(f, both) \in Int
      BY <1>2, <1>5
    <3>4. f[x] \in Int /\ f[c] \in Int
      BY <1>3, <1>5
    <3> HIDE DEF both
    <3> QED BY <1>6, <3>1, <3>2, <3>3, <3>4
  <2> QED BY <2>1, <2>2
<1>9. Total(f, T) \in Int
  BY <1>3, <1>5, <1>6, <1>7
<1> QED BY <1>1, <1>8, <1>9

LEMMA TotalAdds ==
  ASSUME NEW S, IsFiniteSet(S), NEW x, x \notin S,
         NEW f, \A i \in S \cup {x} : f[i] \in Int
  PROVE  Total(f, S \cup {x}) = Total(f, S) + f[x]
<1>1. IsFiniteSet(S \cup {x}) /\ (S \cup {x}) \ {x} = S
  BY FS_AddElement
<1>2. Total(f, S \cup {x}) = f[x] + Total(f, (S \cup {x}) \ {x})
  BY <1>1, TotalRemoves
<1>3. Total(f, S) \in Int /\ f[x] \in Int
  BY TotalRemoves
<1>4. Total(f, S \cup {x}) = f[x] + Total(f, S)
  BY <1>1, <1>2
<1> QED BY <1>3, <1>4

\* a sum looks at its summands only
LEMMA TotalReads ==
  ASSUME NEW S, IsFiniteSet(S), NEW f, NEW g, \A i \in S : f[i] = g[i]
  PROVE  Total(f, S) = Total(g, S)
<1> DEFINE Bad == {T \in SUBSET S : Total(f, T) # Total(g, T)}
<1> SUFFICES ASSUME Bad # {} PROVE FALSE
  OBVIOUS
<1>1. PICK T \in Bad : \A V \in SUBSET T : V # T => V \notin Bad
  <2>1. Bad \in SUBSET SUBSET S
    OBVIOUS
  <2> HIDE DEF Bad
  <2> QED BY <2>1, SmallestSubset
<1>2. T \in SUBSET S /\ IsFiniteSet(T)
  BY <1>1, FS_Subset
<1>3. T # {}
  BY <1>1, <1>2, TotalUnfolds
<1> DEFINE c == Pick(T)
<1>4. c \in T
  BY <1>3, PickInside
<1>5. /\ Total(f, T) = f[c] + Total(f, T \ {c})
      /\ Total(g, T) = g[c] + Total(g, T \ {c})
  BY <1>2, <1>3, TotalUnfolds
<1> HIDE DEF c
<1>6. Total(f, T \ {c}) = Total(g, T \ {c}) /\ f[c] = g[c]
  BY <1>1, <1>2, <1>4
<1> QED BY <1>1, <1>5, <1>6

LEMMA TotalNat ==
  ASSUME NEW S, IsFiniteSet(S), NEW f, \A i \in S : f[i] \in Nat
  PROVE  Total(f, S) \in Nat
<1> DEFINE Bad == {T \in SUBSET S : Total(f, T) \notin Nat}
<1> SUFFICES ASSUME Bad # {} PROVE FALSE
  OBVIOUS
<1>1. PICK T \in Bad : \A V \in SUBSET T : V # T => V \notin Bad
  <2>1. Bad \in SUBSET SUBSET S
    OBVIOUS
  <2> HIDE DEF Bad
  <2> QED BY <2>1, SmallestSubset
<1>2. T \in SUBSET S /\ IsFiniteSet(T)
  BY <1>1, FS_Subset
<1>3. T # {}
  <2>1. Total(f, {}) = 0
    BY FS_EmptySet, TotalUnfolds
  <2>2. Total(f, {}) \in Nat
    BY <2>1
  <2> QED BY <1>1, <2>2
<1> DEFINE c == Pick(T)
<1>4. c \in T
  BY <1>3, PickInside
<1>5. Total(f, T) = f[c] + Total(f, T \ {c})
  BY <1>2, <1>3, TotalUnfolds
<1> HIDE DEF c
<1>6. Total(f, T \ {c}) \in Nat /\ f[c] \in Nat
  BY <1>1, <1>2, <1>4
<1> QED BY <1>1, <1>5, <1>6

=============================================================================
