------------------------------ MODULE FoldFacts ------------------------------
(***************************************************************************)
(* What the folds of the community modules, and recursive functions like   *)
(* them, keep.  Induction cannot be cited for an operator, so the step of  *)
(* a fold is a function here: H[s][v] is what the fold makes of v, which   *)
(* it has for s without the element it chooses.                            *)
(***************************************************************************)
EXTENDS FiniteSetTheorems, WellFoundedInduction, TLAPS

\* The element a fold over a set treats last: FoldSet's choice.
Chosen(s) == CHOOSE x \in s : TRUE
Rest(s) == s \ {Chosen(s)}

LEMMA ChosenIsElement ==
  ASSUME NEW s, s # {}
  PROVE  Chosen(s) \in s
BY Zenon DEF Chosen

\* A set of natural numbers that is not empty has a least element.
LEMMA NatMinimum ==
  ASSUME NEW T \in SUBSET Nat, T # {}
  PROVE  \E x \in T : \A y \in T : x <= y
<1> DEFINE R == {ss \in Nat \X Nat : ss[1] < ss[2]}
<1>1. IsWellFoundedOn(R, Nat)
  BY NatLessThanWellFounded, Zenon DEF OpToRel
<1>2. \A x, y \in Nat : x < y => <<x, y>> \in R
  BY SMT
<1> HIDE DEF R
<1>3. PICK x \in T : \A y \in T : ~ (<<y, x>> \in R)
  BY <1>1, WFMin
<1>4. \A y \in T : ~ (y < x)
  BY <1>2, <1>3
<1> QED BY <1>3, <1>4

\* Induction on natural numbers, for a set of numbers.
LEMMA Induction ==
  ASSUME NEW G, 0 \in G, \A n \in Nat : n \in G => n + 1 \in G
  PROVE  Nat \subseteq G
<1> DEFINE B == Nat \ G
<1>1. SUFFICES ASSUME B # {} PROVE FALSE
  BY Zenon
<1>2. PICK n \in B : \A y \in B : n <= y
  BY <1>1, NatMinimum, B \subseteq Nat
<1>3. n \in Nat /\ n # 0 /\ n \notin G
  BY <1>2
<1>4. n - 1 \in Nat /\ ~(n <= n - 1) /\ (n - 1) + 1 = n
  BY <1>3
<1>5. n - 1 \in G
  BY <1>2, <1>4
<1> QED BY <1>3, <1>4, <1>5

\* A set that contains the empty set and every other subset of S whose rest it
\* contains has all subsets of S.
LEMMA SetInduction ==
  ASSUME NEW S, IsFiniteSet(S), NEW G, {} \in G,
         \A s \in SUBSET S : s # {} /\ Rest(s) \in G => s \in G
  PROVE  SUBSET S \subseteq G
<1> DEFINE B == (SUBSET S) \ G
<1>1. SUFFICES ASSUME B # {} PROVE FALSE
  BY Zenon
<1>2. IsWellFoundedOn(StrictSubsetOrdering(S), SUBSET S)
  BY FS_StrictSubsetOrderingWellFounded, FS_FiniteSubsetsOfFinite
<1>3. B \subseteq SUBSET S /\ B # {}
  BY <1>1
<1>3a. PICK s \in B : \A t \in B : ~(<<t, s>> \in StrictSubsetOrdering(S))
  <2> HIDE DEF B
  <2> QED BY <1>2, <1>3, WFMin
<1>4. s \in SUBSET S /\ s # {} /\ s \notin G
  BY <1>3a
<1>5. Rest(s) \in SUBSET S /\ Rest(s) \subseteq s /\ Rest(s) # s
  BY <1>4, ChosenIsElement DEF Rest
<1>6. <<Rest(s), s>> \in StrictSubsetOrdering(S)
  BY <1>4, <1>5 DEF StrictSubsetOrdering
<1>7. Rest(s) \in G
  BY <1>3a, <1>5, <1>6
<1> QED BY <1>4, <1>7

-----------------------------------------------------------------------------
(***************************************************************************)
(* Recursive functions exist.                                              *)
(***************************************************************************)

\* On an interval of natural numbers.
LEMMA Iteration ==
  ASSUME NEW T, NEW base \in T, NEW n \in Nat, NEW H \in [1..n -> [T -> T]]
  PROVE  \E f \in [0..n -> T] :
           f[0] = base /\ \A i \in 1..n : f[i] = H[i][f[i - 1]]
<1> DEFINE Solves(f, m) ==
             f[0] = base /\ \A i \in 1..m : f[i] = H[i][f[i - 1]]
           G == {m \in Nat : m <= n => \E f \in [0..m -> T] : Solves(f, m)}
<1>1. 0 \in G
  <2>1. [i \in 0..0 |-> base] \in [0..0 -> T]
    OBVIOUS
  <2>2. Solves([i \in 0..0 |-> base], 0)
    OBVIOUS
  <2> QED BY <2>1, <2>2
<1>2. ASSUME NEW m \in Nat, m \in G PROVE m + 1 \in G
  <2>1. SUFFICES ASSUME m + 1 <= n
                 PROVE  \E f \in [0..(m + 1) -> T] : Solves(f, m + 1)
    OBVIOUS
  <2>2. PICK f \in [0..m -> T] : Solves(f, m)
    BY <1>2, <2>1
  <2> DEFINE g == [i \in 0..(m + 1) |-> IF i <= m THEN f[i] ELSE H[m + 1][f[m]]]
  <2>3. f[m] \in T /\ m + 1 \in 1..n
    BY <2>1
  <2>3a. H[m + 1] \in [T -> T]
    BY <2>3
  <2>3b. H[m + 1][f[m]] \in T
    BY <2>3, <2>3a
  <2>4. g \in [0..(m + 1) -> T]
    <3>1. \A i \in 0..(m + 1) : i <= m => i \in 0..m
      OBVIOUS
    <3>2. \A i \in 0..(m + 1) : (IF i <= m THEN f[i] ELSE H[m + 1][f[m]]) \in T
      BY <2>3b, <3>1
    <3> QED BY <3>2
  <2>5. \A i \in 0..m : g[i] = f[i]
    OBVIOUS
  <2>6. g[m + 1] = H[m + 1][f[m]]
    OBVIOUS
  <2> HIDE DEF g
  <2>7. Solves(g, m + 1)
    <3>1. g[0] = base
      BY <2>2, <2>5
    <3>2. ASSUME NEW i \in 1..(m + 1) PROVE g[i] = H[i][g[i - 1]]
      <4>1. CASE i = m + 1
        BY <2>5, <2>6, <4>1
      <4>2. CASE i # m + 1
        <5>1. i \in 1..m /\ i \in 0..m /\ i - 1 \in 0..m
          BY <4>2
        <5> QED BY <2>2, <2>5, <5>1
      <4> QED BY <4>1, <4>2
    <3> QED BY <3>1, <3>2
  <2> QED BY <2>4, <2>7
<1> HIDE DEF G
<1>3. n \in G
  BY <1>1, <1>2, Induction
<1> QED BY <1>3 DEF G

\* g is the fold of a set of subsets of S from base on.
Folds(g, S, base, H) ==
  \A s \in SUBSET S : g[s] = IF s = {} THEN base ELSE H[s][g[Rest(s)]]

\* On the subsets of a finite set.
LEMMA Recursion ==
  ASSUME NEW S, IsFiniteSet(S), NEW T, NEW base \in T,
         NEW H \in [SUBSET S -> [T -> T]]
  PROVE  \E g \in [SUBSET S -> T] : Folds(g, S, base, H)
<1> DEFINE n == Cardinality(S)
           A == [SUBSET S -> T]
           Step(phi) == [s \in SUBSET S |->
                           IF s = {} THEN base ELSE H[s][phi[Rest(s)]]]
           K == [i \in 1..n |-> [phi \in A |-> Step(phi)]]
           start == [s \in SUBSET S |-> base]
<1>1. n \in Nat
  BY FS_CardinalityType
<1>2. \A s \in SUBSET S : s # {} => Rest(s) \in SUBSET S
  BY DEF Rest
<1>3. ASSUME NEW phi \in A PROVE Step(phi) \in A
  <2>1. ASSUME NEW s \in SUBSET S
        PROVE  (IF s = {} THEN base ELSE H[s][phi[Rest(s)]]) \in T
    <3>1. CASE s # {}
      <4>1. H[s] \in [T -> T] /\ phi[Rest(s)] \in T
        BY <1>2, <3>1
      <4> QED BY <4>1, <3>1
    <3> QED BY <3>1
  <2> QED BY <2>1
<1>4. K \in [1..n -> [A -> A]] /\ start \in A
  BY <1>3
<1>5. PICK f \in [0..n -> A] :
        f[0] = start /\ \A i \in 1..n : f[i] = K[i][f[i - 1]]
  <2> HIDE DEF K, A, start, n
  <2> QED BY <1>1, <1>4, Iteration
<1>6. ASSUME NEW i \in 1..n PROVE f[i] = Step(f[i - 1])
  <2>1. i - 1 \in 0..n
    BY <1>1
  <2>2. f[i - 1] \in A
    BY <2>1
  <2> HIDE DEF A, Step, start
  <2> QED BY <1>5, <2>2
<1> DEFINE g == [s \in SUBSET S |-> f[Cardinality(s)][s]]
<1>7. \A s \in SUBSET S : IsFiniteSet(s) /\ Cardinality(s) \in 0..n
  <2>1. ASSUME NEW s \in SUBSET S
        PROVE  IsFiniteSet(s) /\ Cardinality(s) \in Nat /\ Cardinality(s) <= n
    BY FS_Subset, FS_CardinalityType
  <2> QED BY <2>1, <1>1
<1>8. g \in [SUBSET S -> T]
  <2>1. ASSUME NEW s \in SUBSET S PROVE f[Cardinality(s)][s] \in T
    <3>1. f[Cardinality(s)] \in A
      BY <1>7
    <3> QED BY <3>1
  <2> QED BY <2>1
<1>9. ASSUME NEW s \in SUBSET S
      PROVE  g[s] = IF s = {} THEN base ELSE H[s][g[Rest(s)]]
  <2>1. CASE s = {}
    <3>1. Cardinality(s) = 0
      BY <2>1, FS_EmptySet
    <3> QED BY <1>5, <2>1, <3>1
  <2>2. CASE s # {}
    <3>1. Rest(s) \in SUBSET S
      BY <1>2, <2>2
    <3>2. Cardinality(Rest(s)) = Cardinality(s) - 1
      BY <1>7, <2>2, ChosenIsElement, FS_RemoveElement DEF Rest
    <3>3. Cardinality(s) \in 1..n
      <4>1. Cardinality(s) # 0
        BY <1>7, <2>2, FS_EmptySet
      <4> QED BY <1>7, <4>1
    <3>4. f[Cardinality(s)] = Step(f[Cardinality(s) - 1])
      BY <1>6, <3>3
    <3>5. f[Cardinality(s)][s] = H[s][f[Cardinality(s) - 1][Rest(s)]]
      BY <2>2, <3>4
    <3> QED BY <2>2, <3>1, <3>2, <3>5
  <2> QED BY <2>1, <2>2
<1> HIDE DEF g
<1>10. Folds(g, S, base, H)
  BY <1>9 DEF Folds
<1> QED BY <1>8, <1>10

\* The trace of a loop over the elements of S that starts with w: what it has
\* made after each set of elements, when F[x] is its step for x.
Steps(g, S, w, F) ==
  \A s \in SUBSET S : g[s] = IF s = {} THEN w ELSE F[Chosen(s)][g[Rest(s)]]

LEMMA StepsExist ==
  ASSUME NEW S, IsFiniteSet(S), NEW T, NEW w \in T, NEW F \in [S -> [T -> T]]
  PROVE  \E g \in [SUBSET S -> T] : Steps(g, S, w, F)
<1> DEFINE H == [s \in SUBSET S |-> [v \in T |-> IF s = {} THEN w ELSE F[Chosen(s)][v]]]
<1>1. H \in [SUBSET S -> [T -> T]]
  <2>1. ASSUME NEW s \in SUBSET S, NEW v \in T
        PROVE  (IF s = {} THEN w ELSE F[Chosen(s)][v]) \in T
    <3>1. CASE s # {}
      <4>1. F[Chosen(s)] \in [T -> T]
        BY <3>1, ChosenIsElement
      <4> QED BY <3>1, <4>1
    <3> QED BY <3>1
  <2> QED BY <2>1
<1>2. PICK g \in [SUBSET S -> T] : Folds(g, S, w, H)
  <2> HIDE DEF H
  <2> QED BY <1>1, Recursion
<1>3. ASSUME NEW s \in SUBSET S
      PROVE  g[s] = IF s = {} THEN w ELSE F[Chosen(s)][g[Rest(s)]]
  <2>1. CASE s # {}
    <3>1. Rest(s) \in SUBSET S /\ g[Rest(s)] \in T
      BY DEF Rest
    <3> QED BY <1>2, <2>1, <3>1 DEF Folds
  <2> QED BY <1>2, <2>1 DEF Folds
<1>4. Steps(g, S, w, F)
  BY <1>3 DEF Steps
<1> QED BY <1>4

\* What every step of a loop keeps, the loop keeps.
LEMMA TraceKeeps ==
  ASSUME NEW S, IsFiniteSet(S), NEW T, NEW f, f[{}] \in T,
         \A s \in SUBSET S : s # {} /\ f[Rest(s)] \in T => f[s] \in T
  PROVE  \A s \in SUBSET S : f[s] \in T
<1> DEFINE G == {s \in SUBSET S : f[s] \in T}
<1>1. {} \in G
  OBVIOUS
<1>2. ASSUME NEW s \in SUBSET S, s # {}, Rest(s) \in G PROVE s \in G
  BY <1>2
<1> HIDE DEF G
<1>3. SUBSET S \subseteq G
  BY <1>1, <1>2, SetInduction
<1> QED BY <1>3 DEF G
=============================================================================
