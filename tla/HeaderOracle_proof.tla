------------------------- MODULE HeaderOracle_proof -------------------------
(***************************************************************************)
(* Proofs about HeaderOracle without checkpoints, for any finite tree of   *)
(* headers that arrive in any order, in batches of any size.               *)
(*                                                                         *)
(* The invariant says that the stored table is the chain of the tip, that  *)
(* no known chain has more work and none is forgotten.  An operation works *)
(* on a transaction: Good is what holds of it between two headers.  Within *)
(* one header, a search connects what has waited for it, as Searching      *)
(* says; it ends because each child is connected once and each call        *)
(* returns once.  The candidates it has found end with all new leaves, so  *)
(* that the choice between them keeps Good.  What a batch connects descends*)
(* from one header (Rooted), and this matters: above a new tip that is     *)
(* lower than the old one the old table shows through, and no header of    *)
(* the batch continues a chain that goes through such an entry.            *)
(***************************************************************************)
EXTENDS HeaderOracle, FoldFacts

(***************************************************************************)
(* Trees.                                                                  *)
(***************************************************************************)
LEMMA ParentType ==
  \A h \in Header \ {Genesis} : Parent[h] \in Header
BY HeaderAssumption

\* Induction along a chain of headers, from the genesis header on.
LEMMA TreeInduction ==
  ASSUME NEW G, Genesis \in G,
         \A h \in Header \ {Genesis} : Parent[h] \in G => h \in G
  PROVE  Header \subseteq G
<1> DEFINE B == Header \ G
<1>1. SUFFICES ASSUME B # {} PROVE FALSE
  BY Zenon
<1>2. B \in SUBSET (Header \ {Genesis})
  OBVIOUS
<1>3. PICK h \in B : Parent[h] \notin B
  BY <1>1, <1>2, HeaderAssumption, Zenon
<1>4. h \in Header \ {Genesis} /\ Parent[h] \in Header
  BY <1>2, ParentType
<1> QED BY <1>3, <1>4

\* A set of pairs that has b[x] for the headers x in S, and is closed under the
\* step H[x] from the parent of x to x.
Closes(Q, S, b, T, H) ==
  /\ \A x \in S : <<x, b[x]>> \in Q
  /\ \A x \in Header \ S, t \in T : <<Parent[x], t>> \in Q => <<x, H[x][t]>> \in Q

\* f is defined by recursion from a header to its parent.
Descends(f, S, b, H) ==
  \A x \in Header : f[x] = IF x \in S THEN b[x] ELSE H[x][f[Parent[x]]]

\* Such a function exists, since the tree is well-founded.
LEMMA TreeRecursion ==
  ASSUME NEW T, NEW S \in SUBSET Header, Genesis \in S,
         NEW b \in [S -> T], NEW H \in [Header \ S -> [T -> T]]
  PROVE  \E f \in [Header -> T] : Descends(f, S, b, H)
<1> DEFINE P == Header \X T
           R == {p \in P : \A Q \in SUBSET P : Closes(Q, S, b, T, H) => p \in Q}
           Once(x) == \E t \in T : <<x, t>> \in R /\ \A s \in T : <<x, s>> \in R => s = t
           G == {x \in Header : Once(x)}
<1>1. \A x \in Header \ S : Parent[x] \in Header
  BY ParentType
<1>2. Closes(R, S, b, T, H)
  <2>1. ASSUME NEW x \in S PROVE <<x, b[x]>> \in R
    BY DEF Closes
  <2>2. ASSUME NEW x \in Header \ S, NEW t \in T, <<Parent[x], t>> \in R
        PROVE  <<x, H[x][t]>> \in R
    <3>1. H[x][t] \in T
      OBVIOUS
    <3>2. ASSUME NEW Q \in SUBSET P, Closes(Q, S, b, T, H) PROVE <<x, H[x][t]>> \in Q
      BY <2>2, <3>2 DEF Closes
    <3> QED BY <3>1, <3>2
  <2> QED BY <2>1, <2>2 DEF Closes
<1>3. \A Q \in SUBSET P : Closes(Q, S, b, T, H) => R \subseteq Q
  OBVIOUS
<1>4. R \in SUBSET P
  OBVIOUS
<1> HIDE DEF R
<1>5. ASSUME NEW x \in S PROVE Once(x)
  <2>1. b[x] \in T /\ <<x, b[x]>> \in R
    BY <1>2 DEF Closes
  <2>2. ASSUME NEW s \in T, s # b[x] PROVE <<x, s>> \notin R
    <3> DEFINE Q == R \ {<<x, s>>}
    <3>1. Closes(Q, S, b, T, H)
      <4>1. ASSUME NEW y \in S PROVE <<y, b[y]>> \in Q
        BY <1>2, <2>2 DEF Closes
      <4>2. ASSUME NEW y \in Header \ S, NEW t \in T, <<Parent[y], t>> \in Q
            PROVE  <<y, H[y][t]>> \in Q
        BY <1>2, <4>2 DEF Closes
      <4> QED BY <4>1, <4>2 DEF Closes
    <3> QED BY <1>3, <1>4, <3>1
  <2> QED BY <2>1, <2>2
<1>6. ASSUME NEW x \in Header \ S, Once(Parent[x]) PROVE Once(x)
  <2>1. PICK t \in T : /\ <<Parent[x], t>> \in R
                       /\ \A s \in T : <<Parent[x], s>> \in R => s = t
    BY <1>6
  <2>2. H[x][t] \in T /\ <<x, H[x][t]>> \in R
    BY <1>2, <2>1 DEF Closes
  <2>3. ASSUME NEW s \in T, s # H[x][t] PROVE <<x, s>> \notin R
    <3> DEFINE Q == R \ {<<x, s>>}
    <3>1. Closes(Q, S, b, T, H)
      <4>1. ASSUME NEW y \in S PROVE <<y, b[y]>> \in Q
        BY <1>2 DEF Closes
      <4>2. ASSUME NEW y \in Header \ S, NEW r \in T, <<Parent[y], r>> \in Q
            PROVE  <<y, H[y][r]>> \in Q
        <5>1. <<y, H[y][r]>> \in R
          BY <1>2, <4>2 DEF Closes
        <5>2. y = x => r = t
          BY <2>1, <4>2
        <5> QED BY <5>1, <5>2, <2>3
      <4> QED BY <4>1, <4>2 DEF Closes
    <3> QED BY <1>3, <1>4, <3>1
  <2> QED BY <2>2, <2>3
<1>7. \A x \in Header : Once(x)
  <2> HIDE DEF Once
  <2>1. Genesis \in G
    BY <1>5
  <2>2. ASSUME NEW h \in Header \ {Genesis}, Parent[h] \in G PROVE h \in G
    BY <1>5, <1>6, <2>2
  <2>3. Header \subseteq G
    <3> HIDE DEF G
    <3> QED BY <2>1, <2>2, TreeInduction
  <2> QED BY <2>3
<1> DEFINE f == [x \in Header |-> CHOOSE t \in T : <<x, t>> \in R]
<1>8. \A x \in Header : f[x] \in T /\ <<x, f[x]>> \in R
  BY <1>7
<1>9. f \in [Header -> T]
  BY <1>8
<1> HIDE DEF f
<1>10. ASSUME NEW x \in Header PROVE f[x] = IF x \in S THEN b[x] ELSE H[x][f[Parent[x]]]
  <2>1. CASE x \in S
    <3>1. <<x, b[x]>> \in R /\ b[x] \in T
      BY <1>2, <2>1 DEF Closes
    <3> QED BY <1>7, <1>8, <2>1, <3>1
  <2>2. CASE x \notin S
    <3>1. <<x, H[x][f[Parent[x]]]>> \in R /\ H[x][f[Parent[x]]] \in T
      BY <1>1, <1>2, <1>8, <2>2 DEF Closes
    <3> QED BY <1>7, <1>8, <2>2, <3>1
  <2> QED BY <2>1, <2>2
<1> QED BY <1>9, <1>10 DEF Descends

\* The height of a header above the genesis header, and the work of its chain.
Depth[h \in Header] == IF h = Genesis THEN 0 ELSE Depth[Parent[h]] + 1
Weight[h \in Header] ==
  IF h = Genesis THEN Proof[Genesis] ELSE Weight[Parent[h]] + Proof[h]

\* What the model defines by recursion along a chain is indeed such a function.
LEMMA LineIs ==
  /\ Line \in [Header -> SUBSET Header]
  /\ \A h \in Header : Line[h] = IF h = Genesis THEN {h} ELSE Line[Parent[h]] \cup {h}
<1> DEFINE T == SUBSET Header
           S == {Genesis}
           b == [x \in S |-> {x}]
           H == [x \in Header \ S |-> [t \in T |-> t \cup {x}]]
           Body(f) == [h \in Header |-> IF h = Genesis THEN {h} ELSE f[Parent[h]] \cup {h}]
<1>1. S \in SUBSET Header /\ Genesis \in S /\ b \in [S -> T] /\ H \in [Header \ S -> [T -> T]]
  BY HeaderAssumption
<1>2. PICK f \in [Header -> T] : Descends(f, S, b, H)
  <2> HIDE DEF S, T, b, H
  <2> QED BY <1>1, TreeRecursion
<1>3. ASSUME NEW h \in Header PROVE f[h] = IF h = Genesis THEN {h} ELSE f[Parent[h]] \cup {h}
  <2>1. h # Genesis => Parent[h] \in Header /\ f[Parent[h]] \in T
    BY ParentType
  <2> QED BY <1>2, <2>1 DEF Descends
<1>4. f = Body(f)
  BY <1>3
<1>5. Line = CHOOSE g : g = Body(g)
  BY DEF Line
<1>6. Line = Body(Line)
  <2> HIDE DEF Body
  <2> QED BY <1>4, <1>5, Zenon
<1> DEFINE G == {h \in Header : Line[h] \subseteq Header}
<1>7. \A h \in Header : Line[h] = IF h = Genesis THEN {h} ELSE Line[Parent[h]] \cup {h}
  <2>1. \A h \in Header : Body(Line)[h] = IF h = Genesis THEN {h} ELSE Line[Parent[h]] \cup {h}
    OBVIOUS
  <2> HIDE DEF Body
  <2> QED BY <1>6, <2>1, Zenon
<1>8. Header \subseteq G
  <2>1. Genesis \in G
    <3>1. Genesis \in Header /\ Line[Genesis] = {Genesis}
      BY <1>7, HeaderAssumption
    <3> QED BY <3>1
  <2>2. ASSUME NEW h \in Header \ {Genesis}, Parent[h] \in G PROVE h \in G
    <3>1. Line[h] = Line[Parent[h]] \cup {h}
      BY <1>7
    <3> QED BY <2>2, <3>1
  <2> HIDE DEF G
  <2> QED BY <2>1, <2>2, TreeInduction
<1>9. Line = [h \in Header |-> Line[h]]
  <2> HIDE DEF Body
  <2>1. DOMAIN Body(Line) = Header /\ Body(Line) = [h \in Header |-> Body(Line)[h]]
    BY DEF Body
  <2> QED BY <1>6, <2>1
<1> QED BY <1>7, <1>8, <1>9

\* The height, likewise.
LEMMA DepthIs ==
  /\ Depth \in [Header -> Nat]
  /\ \A h \in Header : Depth[h] = IF h = Genesis THEN 0 ELSE Depth[Parent[h]] + 1
<1> DEFINE T == Nat
           S == {Genesis}
           b == [x \in S |-> 0]
           H == [x \in Header \ S |-> [t \in T |-> t + 1]]
           Body(f) == [h \in Header |-> IF h = Genesis THEN 0 ELSE f[Parent[h]] + 1]
<1>1. S \in SUBSET Header /\ Genesis \in S /\ b \in [S -> T] /\ H \in [Header \ S -> [T -> T]]
  BY HeaderAssumption
<1>2. PICK f \in [Header -> T] : Descends(f, S, b, H)
  <2> HIDE DEF S, T, b, H
  <2> QED BY <1>1, TreeRecursion
<1>3. ASSUME NEW h \in Header PROVE f[h] = IF h = Genesis THEN 0 ELSE f[Parent[h]] + 1
  <2>1. h # Genesis => Parent[h] \in Header /\ f[Parent[h]] \in T
    BY ParentType
  <2> QED BY <1>2, <2>1 DEF Descends
<1>4. f = Body(f)
  BY <1>3
<1>5. Depth = CHOOSE g : g = Body(g)
  BY DEF Depth
<1>6. Depth = Body(Depth)
  <2> HIDE DEF Body
  <2> QED BY <1>4, <1>5, Zenon
<1>7. \A h \in Header : Depth[h] = IF h = Genesis THEN 0 ELSE Depth[Parent[h]] + 1
  <2>1. \A h \in Header : Body(Depth)[h] = IF h = Genesis THEN 0 ELSE Depth[Parent[h]] + 1
    OBVIOUS
  <2> HIDE DEF Body
  <2> QED BY <1>6, <2>1, Zenon
<1> DEFINE G == {h \in Header : Depth[h] \in Nat}
<1>8. Header \subseteq G
  <2>1. Genesis \in G
    BY <1>7, HeaderAssumption
  <2>2. ASSUME NEW h \in Header \ {Genesis}, Parent[h] \in G PROVE h \in G
    BY <1>7, <2>2
  <2> HIDE DEF G
  <2> QED BY <2>1, <2>2, TreeInduction
<1>9. Depth = [h \in Header |-> Depth[h]]
  <2>1. DOMAIN Body(Depth) = Header /\ Body(Depth) = [h \in Header |-> Body(Depth)[h]]
    BY DEF Body
  <2> HIDE DEF Body
  <2> QED BY <1>6, <2>1
<1> QED BY <1>7, <1>8, <1>9

\* The work, likewise.
LEMMA WeightIs ==
  /\ Weight \in [Header -> Nat]
  /\ \A h \in Header :
       Weight[h] = IF h = Genesis THEN Proof[Genesis] ELSE Weight[Parent[h]] + Proof[h]
<1> DEFINE T == Nat
           S == {Genesis}
           b == [x \in S |-> Proof[Genesis]]
           H == [x \in Header \ S |-> [t \in T |-> t + Proof[x]]]
           Body(f) == [h \in Header |-> IF h = Genesis THEN Proof[Genesis]
                                        ELSE f[Parent[h]] + Proof[h]]
<1>0. \A h \in Header : Proof[h] \in Nat
  BY HeaderAssumption
<1>1. S \in SUBSET Header /\ Genesis \in S /\ b \in [S -> T] /\ H \in [Header \ S -> [T -> T]]
  BY <1>0, HeaderAssumption
<1>2. PICK f \in [Header -> T] : Descends(f, S, b, H)
  <2> HIDE DEF S, T, b, H
  <2> QED BY <1>1, TreeRecursion
<1>3. ASSUME NEW h \in Header
      PROVE  f[h] = IF h = Genesis THEN Proof[Genesis] ELSE f[Parent[h]] + Proof[h]
  <2>1. h # Genesis => Parent[h] \in Header /\ f[Parent[h]] \in T
    BY ParentType
  <2> QED BY <1>2, <2>1 DEF Descends
<1>4. f = Body(f)
  BY <1>3
<1>5. Weight = CHOOSE g : g = Body(g)
  BY DEF Weight
<1>6. Weight = Body(Weight)
  <2> HIDE DEF Body
  <2> QED BY <1>4, <1>5, Zenon
<1>7. \A h \in Header :
        Weight[h] = IF h = Genesis THEN Proof[Genesis] ELSE Weight[Parent[h]] + Proof[h]
  <2>1. \A h \in Header : Body(Weight)[h] = IF h = Genesis THEN Proof[Genesis]
                                            ELSE Weight[Parent[h]] + Proof[h]
    OBVIOUS
  <2> HIDE DEF Body
  <2> QED BY <1>6, <2>1, Zenon
<1> DEFINE G == {h \in Header : Weight[h] \in Nat}
<1>8. Header \subseteq G
  <2>1. Genesis \in G
    BY <1>0, <1>7, HeaderAssumption
  <2>2. ASSUME NEW h \in Header \ {Genesis}, Parent[h] \in G PROVE h \in G
    BY <1>0, <1>7, <2>2
  <2> HIDE DEF G
  <2> QED BY <2>1, <2>2, TreeInduction
<1>9. Weight = [h \in Header |-> Weight[h]]
  <2>1. DOMAIN Body(Weight) = Header /\ Body(Weight) = [h \in Header |-> Body(Weight)[h]]
    BY DEF Body
  <2> HIDE DEF Body
  <2> QED BY <1>6, <2>1
<1> QED BY <1>7, <1>8, <1>9

\* From a header to its parent.
LEMMA LineStep ==
  ASSUME NEW h \in Header \ {Genesis}
  PROVE  /\ Parent[h] \in Header
         /\ Line[h] = Line[Parent[h]] \cup {h}
         /\ Depth[h] = Depth[Parent[h]] + 1
         /\ Weight[h] = Weight[Parent[h]] + Proof[h]
         /\ Depth[h] \in Nat /\ Depth[Parent[h]] \in Nat
         /\ Weight[h] \in Nat /\ Weight[Parent[h]] \in Nat
         /\ Proof[h] \in Nat \ {0}
BY ParentType, LineIs, DepthIs, WeightIs, HeaderAssumption

\* The genesis header, and the types of all others.
LEMMA LineRoot ==
  /\ Genesis \in Header
  /\ Line[Genesis] = {Genesis}
  /\ Depth[Genesis] = 0
  /\ \A h \in Header : Line[h] \subseteq Header /\ Depth[h] \in Nat /\ Weight[h] \in Nat
BY LineIs, DepthIs, WeightIs, HeaderAssumption

\* A chain ends with its header.
LEMMA LineEnd ==
  ASSUME NEW h \in Header
  PROVE  h \in Line[h]
BY LineStep, LineRoot

\* Ancestors are lower and have less work.
LEMMA LineIsLower ==
  ASSUME NEW z \in Header, NEW x \in Line[z]
  PROVE  /\ x \in Header
         /\ Depth[x] <= Depth[z] /\ Weight[x] <= Weight[z]
         /\ x # z => Depth[x] < Depth[z] /\ Weight[x] < Weight[z]
<1> DEFINE IsLower(y, x1) == /\ Depth[x1] <= Depth[y] /\ Weight[x1] <= Weight[y]
                             /\ x1 # y => Depth[x1] < Depth[y] /\ Weight[x1] < Weight[y]
           G == {y \in Header : \A x1 \in Line[y] : IsLower(y, x1)}
<1>1. Genesis \in G
  BY LineRoot
<1>2. ASSUME NEW h \in Header \ {Genesis}, Parent[h] \in G PROVE h \in G
  <2>1. ASSUME NEW x1 \in Line[h] PROVE IsLower(h, x1)
    <3>0. x1 \in Header /\ Depth[x1] \in Nat /\ Weight[x1] \in Nat
      BY LineRoot
    <3>1. CASE x1 = h
      BY <3>1, LineRoot
    <3>2. CASE x1 # h
      <4>1. x1 \in Line[Parent[h]]
        BY <3>2, LineStep
      <4>2. IsLower(Parent[h], x1)
        BY <1>2, <4>1
      <4> QED BY <3>0, <4>2, LineStep
    <3> QED BY <3>1, <3>2
  <2> QED BY <2>1
<1>3. Header \subseteq G
  <2> HIDE DEF G
  <2> QED BY <1>1, <1>2, TreeInduction
<1> QED BY <1>3, LineRoot

\* The chain of an ancestor is a part of the chain.
LEMMA LineOfLine ==
  ASSUME NEW z \in Header, NEW x \in Line[z]
  PROVE  Line[x] \subseteq Line[z]
<1> DEFINE G == {y \in Header : \A x1 \in Line[y] : Line[x1] \subseteq Line[y]}
<1>1. Genesis \in G
  BY LineRoot
<1>2. ASSUME NEW h \in Header \ {Genesis}, Parent[h] \in G PROVE h \in G
  <2>1. Line[h] = Line[Parent[h]] \cup {h}
    BY LineStep
  <2> QED BY <1>2, <2>1
<1>3. Header \subseteq G
  <2> HIDE DEF G
  <2> QED BY <1>1, <1>2, TreeInduction
<1> QED BY <1>3

\* Of two ancestors one is an ancestor of the other.
LEMMA LineIsOrdered ==
  ASSUME NEW z \in Header, NEW x \in Line[z], NEW y \in Line[z]
  PROVE  /\ x \in Line[y] \/ y \in Line[x]
         /\ Depth[x] = Depth[y] => x = y
         /\ Depth[x] <= Depth[y] => x \in Line[y]
<1> DEFINE G == {u \in Header : \A x1, y1 \in Line[u] : x1 \in Line[y1] \/ y1 \in Line[x1]}
<1>1. Genesis \in G
  BY LineRoot
<1>2. ASSUME NEW h \in Header \ {Genesis}, Parent[h] \in G PROVE h \in G
  <2>1. Line[h] = Line[Parent[h]] \cup {h}
    BY LineStep
  <2> QED BY <1>2, <2>1
<1>3. Header \subseteq G
  <2> HIDE DEF G
  <2> QED BY <1>1, <1>2, TreeInduction
<1>4. x \in Line[y] \/ y \in Line[x]
  BY <1>3
<1>5. x \in Header /\ y \in Header /\ Depth[x] \in Nat /\ Depth[y] \in Nat
  BY LineRoot
<1>6. x # y => Depth[x] < Depth[y] \/ Depth[y] < Depth[x]
  BY <1>4, <1>5, LineIsLower
<1>7. Depth[x] <= Depth[y] => x \in Line[y]
  <2>1. CASE x = y
    BY <2>1, <1>5, LineEnd
  <2>2. CASE x # y /\ Depth[x] <= Depth[y]
    <3>1. ~ (y \in Line[x])
      BY <1>5, <2>2, LineIsLower
    <3> QED BY <3>1, <1>4
  <2> QED BY <2>1, <2>2
<1> QED BY <1>4, <1>5, <1>6, <1>7

\* A chain has a header at each height.
LEMMA LineHasAll ==
  ASSUME NEW z \in Header, NEW n \in 0..Depth[z]
  PROVE  \E x \in Line[z] : Depth[x] = n
<1> DEFINE G == {y \in Header : \A m \in 0..Depth[y] : \E x \in Line[y] : Depth[x] = m}
<1>1. Genesis \in G
  BY LineRoot
<1>2. ASSUME NEW h \in Header \ {Genesis}, Parent[h] \in G PROVE h \in G
  <2>1. ASSUME NEW m \in 0..Depth[h] PROVE \E x \in Line[h] : Depth[x] = m
    <3>1. CASE m = Depth[h]
      BY <3>1, LineEnd
    <3>2. CASE m # Depth[h]
      <4>1. m \in 0..Depth[Parent[h]]
        BY <3>2, LineStep
      <4> QED BY <1>2, <4>1, LineStep
    <3> QED BY <3>1, <3>2
  <2> QED BY <2>1
<1>3. Header \subseteq G
  <2> HIDE DEF G
  <2> QED BY <1>1, <1>2, TreeInduction
<1> QED BY <1>3

\* An ancestor has a child on the chain.
LEMMA LineHasChild ==
  ASSUME NEW z \in Header, NEW x \in Line[z], x # z
  PROVE  \E c \in Line[z] \ {Genesis} : Parent[c] = x
<1> DEFINE G == {y \in Header : \A x1 \in Line[y] : x1 # y =>
                   \E c \in Line[y] \ {Genesis} : Parent[c] = x1}
<1>1. Genesis \in G
  BY LineRoot
<1>2. ASSUME NEW h \in Header \ {Genesis}, Parent[h] \in G PROVE h \in G
  <2>1. ASSUME NEW x1 \in Line[h], x1 # h
        PROVE  \E c \in Line[h] \ {Genesis} : Parent[c] = x1
    <3>1. CASE x1 = Parent[h]
      BY <3>1, LineEnd
    <3>2. CASE x1 # Parent[h]
      <4>1. x1 \in Line[Parent[h]]
        BY <2>1, LineStep
      <4> QED BY <1>2, <3>2, <4>1, LineStep
    <3> QED BY <3>1, <3>2
  <2> QED BY <2>1
<1>3. Header \subseteq G
  <2> HIDE DEF G
  <2> QED BY <1>1, <1>2, TreeInduction
<1> QED BY <1>3

\* A set that has the parent of each of its headers has their chains.
LEMMA LineOfClosed ==
  ASSUME NEW K \in SUBSET Header, \A h \in K \ {Genesis} : Parent[h] \in K, NEW h \in K
  PROVE  Line[h] \subseteq K
<1> DEFINE G == {y \in Header : y \in K => Line[y] \subseteq K}
<1>1. Genesis \in G
  BY LineRoot
<1>2. ASSUME NEW y \in Header \ {Genesis}, Parent[y] \in G PROVE y \in G
  BY <1>2, LineStep
<1>3. Header \subseteq G
  <2> HIDE DEF G
  <2> QED BY <1>1, <1>2, TreeInduction
<1> QED BY <1>3

\* The length of a chain.
LEMMA LineIsFinite ==
  ASSUME NEW h \in Header
  PROVE  /\ IsFiniteSet(Line[h]) /\ Cardinality(Line[h]) = Depth[h] + 1
         /\ Depth[h] \in Height
<1> DEFINE G == {y \in Header : IsFiniteSet(Line[y]) /\ Cardinality(Line[y]) = Depth[y] + 1}
<1>1. Genesis \in G
  <2>1. IsFiniteSet({Genesis}) /\ Cardinality({Genesis}) = 1
    BY FS_Singleton
  <2>2. IsFiniteSet(Line[Genesis]) /\ Cardinality(Line[Genesis]) = 1
    BY <2>1, LineRoot, Zenon
  <2>3. Genesis \in Header /\ Depth[Genesis] + 1 = 1
    BY LineRoot
  <2> QED BY <2>2, <2>3, Zenon
<1>2. ASSUME NEW y \in Header \ {Genesis}, Parent[y] \in G PROVE y \in G
  <2>1. y \notin Line[Parent[y]]
    BY LineStep, LineIsLower
  <2>2. /\ IsFiniteSet(Line[Parent[y]] \cup {y})
        /\ Cardinality(Line[Parent[y]] \cup {y}) = Cardinality(Line[Parent[y]]) + 1
    BY <1>2, <2>1, FS_AddElement
  <2> QED BY <1>2, <2>2, LineStep
<1>3. Header \subseteq G
  <2> HIDE DEF G
  <2> QED BY <1>1, <1>2, TreeInduction
<1>4. IsFiniteSet(Line[h]) /\ Cardinality(Line[h]) = Depth[h] + 1
  BY <1>3
<1>5. Cardinality(Line[h]) <= Cardinality(Header) /\ Cardinality(Header) \in Nat
  BY LineRoot, FS_Subset, FS_CardinalityType, HeaderAssumption
<1> QED BY <1>4, <1>5, LineRoot DEF Height

\* Sums over sets of headers are those of one function.
LEMMA SumIsFold ==
  \E g \in [SUBSET Header -> Nat] :
    /\ \A S \in SUBSET Header : SumFunctionOnSet(Proof, S) = g[S]
    /\ \A s \in SUBSET Header :
         g[s] = IF s = {} THEN 0 ELSE Proof[Chosen(s)] + g[Rest(s)]
<1> DEFINE H == [s \in SUBSET Header |-> [v \in Nat |-> IF s = {} THEN 0
                                                        ELSE Proof[Chosen(s)] + v]]
<1>0. IsFiniteSet(Header) /\ \A x \in Header : Proof[x] \in Nat
  BY HeaderAssumption
<1>1. H \in [SUBSET Header -> [Nat -> Nat]]
  <2>1. ASSUME NEW s \in SUBSET Header, NEW v \in Nat
        PROVE  (IF s = {} THEN 0 ELSE Proof[Chosen(s)] + v) \in Nat
    <3>1. CASE s # {}
      <4>1. Chosen(s) \in Header
        BY <3>1, ChosenIsElement
      <4> QED BY <1>0, <4>1
    <3> QED BY <3>1
  <2> QED BY <2>1
<1>2. PICK g \in [SUBSET Header -> Nat] : Folds(g, Header, 0, H)
  <2> HIDE DEF H
  <2>1. 0 \in Nat
    OBVIOUS
  <2> QED BY <1>0, <1>1, <2>1, Recursion
<1>3. ASSUME NEW s \in SUBSET Header
      PROVE  g[s] = IF s = {} THEN 0 ELSE Proof[Chosen(s)] + g[Rest(s)]
  <2>1. Rest(s) \in SUBSET Header
    BY DEF Rest
  <2>2. g[Rest(s)] \in Nat
    BY <2>1
  <2> QED BY <1>2, <2>2 DEF Folds
<1>4. ASSUME NEW S \in SUBSET Header PROVE SumFunctionOnSet(Proof, S) = g[S]
  <2> DEFINE Body(f) == [s \in SUBSET S |-> IF s = {} THEN 0 ELSE Proof[Chosen(s)] + f[Rest(s)]]
             iter == CHOOSE f : f = Body(f)
             h == [s \in SUBSET S |-> g[s]]
  <2>1. SumFunctionOnSet(Proof, S) = iter[S]
    BY Zenon DEF SumFunctionOnSet, FoldFunctionOnSet, MapThenFoldSet, Chosen, Rest
  <2>2. h = Body(h)
    <3>1. ASSUME NEW s \in SUBSET S
          PROVE  h[s] = IF s = {} THEN 0 ELSE Proof[Chosen(s)] + h[Rest(s)]
      <4>1. Rest(s) \in SUBSET S /\ s \in SUBSET Header
        BY DEF Rest
      <4> QED BY <1>3, <4>1
    <3> QED BY <3>1
  <2>3. iter = Body(iter)
    <3> HIDE DEF Body, h
    <3> QED BY <2>2, Zenon
  <2> HIDE DEF iter
  <2>4. \A s \in SUBSET S : iter[s] = IF s = {} THEN 0 ELSE Proof[Chosen(s)] + iter[Rest(s)]
    BY <2>3
  <2> DEFINE G == {s \in SUBSET S : iter[s] = g[s]}
  <2>5. {} \in G
    BY <1>3, <2>4
  <2>6. ASSUME NEW s \in SUBSET S, s # {}, Rest(s) \in G PROVE s \in G
    BY <1>3, <2>4, <2>6
  <2>7. IsFiniteSet(S)
    BY <1>0, FS_Subset
  <2>8. SUBSET S \subseteq G
    <3> HIDE DEF G
    <3> QED BY <2>5, <2>6, <2>7, SetInduction
  <2> QED BY <2>1, <2>8
<1> QED BY <1>3, <1>4

\* A sum over one more header.
LEMMA SumOfMore ==
  ASSUME NEW S \in SUBSET Header, NEW x \in Header \ S
  PROVE  /\ SumFunctionOnSet(Proof, {}) = 0
         /\ SumFunctionOnSet(Proof, S \cup {x}) = SumFunctionOnSet(Proof, S) + Proof[x]
<1>1. PICK g \in [SUBSET Header -> Nat] :
        /\ \A T \in SUBSET Header : SumFunctionOnSet(Proof, T) = g[T]
        /\ \A s \in SUBSET Header :
             g[s] = IF s = {} THEN 0 ELSE Proof[Chosen(s)] + g[Rest(s)]
  BY SumIsFold
<1> DEFINE Adds(s) == \A y \in s : g[s] = g[s \ {y}] + Proof[y]
           B == {s \in SUBSET Header : ~Adds(s)}
<1>2. B = {}
  <2>1. SUFFICES ASSUME B # {} PROVE FALSE
    BY Zenon
  <2>2. IsWellFoundedOn(StrictSubsetOrdering(Header), SUBSET Header)
    <3>1. IsFiniteSet(Header)
      BY HeaderAssumption
    <3> QED BY <3>1, FS_StrictSubsetOrderingWellFounded, FS_FiniteSubsetsOfFinite
  <2>3. PICK s \in B : \A t \in B : ~(<<t, s>> \in StrictSubsetOrdering(Header))
    <3>1. B \subseteq SUBSET Header
      OBVIOUS
    <3> HIDE DEF B
    <3> QED BY <2>1, <2>2, <3>1, WFMin
  <2>4. ASSUME NEW t \in SUBSET s, t # s PROVE Adds(t)
    <3>1. <<t, s>> \in StrictSubsetOrdering(Header)
      BY <2>4 DEF StrictSubsetOrdering
    <3> QED BY <2>3, <3>1
  <2>5. PICK y \in s : g[s] # g[s \ {y}] + Proof[y]
    OBVIOUS
  <2> DEFINE c == Chosen(s)
  <2>6. c \in s /\ s # {} /\ Rest(s) = s \ {c}
    BY <2>5, ChosenIsElement DEF Rest
  <2>7. g[s] = Proof[c] + g[s \ {c}]
    BY <1>1, <2>6
  <2> HIDE DEF c
  <2>8. c \in Header /\ y \in Header /\ Proof[c] \in Nat /\ Proof[y] \in Nat
    BY <2>6, HeaderAssumption
  <2>8a. g[s \ {c}] \in Nat /\ g[s \ {y}] \in Nat /\ g[s] \in Nat
    OBVIOUS
  <2>9. y # c
    <3> SUFFICES ASSUME y = c PROVE FALSE
      OBVIOUS
    <3>1. g[s \ {c}] + Proof[c] = Proof[c] + g[s \ {c}]
      BY <2>8, <2>8a
    <3> QED BY <2>5, <2>7, <3>1, Zenon
  <2>10. g[s \ {c}] = g[(s \ {c}) \ {y}] + Proof[y]
    BY <2>4, <2>6, <2>9
  <2>11. g[s \ {y}] = g[(s \ {y}) \ {c}] + Proof[c]
    BY <2>4, <2>6, <2>9
  <2>12. (s \ {y}) \ {c} = (s \ {c}) \ {y}
    OBVIOUS
  <2>13. g[(s \ {c}) \ {y}] \in Nat
    OBVIOUS
  <2>14. g[s \ {y}] = g[(s \ {c}) \ {y}] + Proof[c]
    BY <2>11, <2>12, Zenon
  <2> QED BY <2>5, <2>7, <2>8, <2>10, <2>13, <2>14
<1>3. Adds(S \cup {x})
  BY <1>2
<1>4. (S \cup {x}) \ {x} = S
  OBVIOUS
<1> HIDE DEF B
<1>5. g[S \cup {x}] = g[S] + Proof[x]
  BY <1>3, <1>4
<1> QED BY <1>1, <1>5

\* The work of a chain is the sum of what its headers prove.
LEMMA WeightIsSum ==
  ASSUME NEW h \in Header
  PROVE  SumFunctionOnSet(Proof, Line[h]) = Weight[h]
<1> DEFINE G == {y \in Header : SumFunctionOnSet(Proof, Line[y]) = Weight[y]}
<1>1. Genesis \in G
  <2>1. SumFunctionOnSet(Proof, {} \cup {Genesis}) = 0 + Proof[Genesis]
    BY SumOfMore, LineRoot
  <2>2. {} \cup {Genesis} = Line[Genesis] /\ 0 + Proof[Genesis] = Weight[Genesis]
    BY HeaderAssumption, LineRoot, WeightIs
  <2>3. SumFunctionOnSet(Proof, Line[Genesis]) = Weight[Genesis]
    BY <2>1, <2>2, Zenon
  <2> QED BY <2>3, LineRoot
<1>2. ASSUME NEW y \in Header \ {Genesis}, Parent[y] \in G PROVE y \in G
  <2>1. y \notin Line[Parent[y]] /\ Line[Parent[y]] \in SUBSET Header
    BY LineStep, LineIsLower, LineRoot
  <2>2. SumFunctionOnSet(Proof, Line[Parent[y]] \cup {y})
          = SumFunctionOnSet(Proof, Line[Parent[y]]) + Proof[y]
    BY <2>1, SumOfMore
  <2> QED BY <1>2, <2>2, LineStep
<1>3. Header \subseteq G
  <2> HIDE DEF G
  <2> QED BY <1>1, <1>2, TreeInduction
<1> QED BY <1>3

-----------------------------------------------------------------------------
(***************************************************************************)
(* Chains of headers, as sequences.                                        *)
(***************************************************************************)

\* Each header of q is the parent of the next one.
Linked(q) ==
  /\ q \in Seq(Header) /\ q # <<>>
  /\ \A k \in 2..Len(q) : q[k] # Genesis /\ Parent[q[k]] = q[k - 1]

\* A chain and a child of its last header.
LEMMA LinkedAppend ==
  ASSUME NEW q, Linked(q), NEW c \in Header \ {Genesis}, Parent[c] = Last(q)
  PROVE  /\ Linked(Append(q, c)) /\ Last(Append(q, c)) = c
         /\ Append(q, c)[1] = q[1] /\ Len(Append(q, c)) = Len(q) + 1
         /\ \A k \in 1..Len(q) : Append(q, c)[k] = q[k]
         /\ Append(q, c)[Len(q) + 1] = c
<1>1. q \in Seq(Header) /\ Len(q) \in Nat /\ Len(q) >= 1 /\ Last(q) = q[Len(q)]
  BY DEF Linked, Last
<1>2. Append(q, c) \in Seq(Header) /\ Len(Append(q, c)) = Len(q) + 1
  BY <1>1
<1>3. \A k \in 1..Len(q) : Append(q, c)[k] = q[k]
  BY <1>1
<1>4. Append(q, c)[Len(q) + 1] = c
  BY <1>1
<1>5. ASSUME NEW k \in 2..(Len(q) + 1)
      PROVE  Append(q, c)[k] # Genesis /\ Parent[Append(q, c)[k]] = Append(q, c)[k - 1]
  <2>1. CASE k = Len(q) + 1
    BY <1>1, <1>3, <1>4, <2>1
  <2>2. CASE k # Len(q) + 1
    <3>1. k \in 2..Len(q) /\ k \in 1..Len(q) /\ k - 1 \in 1..Len(q)
      BY <1>1, <2>2
    <3> QED BY <1>3, <3>1 DEF Linked
  <2> QED BY <2>1, <2>2
<1>6. Append(q, c) # <<>>
  BY <1>1, <1>2
<1>7. Linked(Append(q, c))
  BY <1>2, <1>5, <1>6 DEF Linked
<1> QED BY <1>1, <1>2, <1>3, <1>4, <1>7 DEF Last

\* A single header is a chain.
LEMMA LinkedOne ==
  ASSUME NEW h \in Header
  PROVE  Linked(<<h>>) /\ Last(<<h>>) = h /\ Len(<<h>>) = 1 /\ <<h>>[1] = h
BY DEF Linked, Last

\* The chain up to a header of q is that up to the first one, and those between.
LEMMA LinkedLine ==
  ASSUME NEW q, Linked(q), NEW k \in 1..Len(q)
  PROVE  /\ q[k] \in Header /\ q[1] \in Header
         /\ Line[q[k]] = Line[q[1]] \cup {q[j] : j \in 1..k}
         /\ Depth[q[k]] = Depth[q[1]] + k - 1
<1>1. Len(q) \in Nat /\ Len(q) >= 1 /\ \A j \in 1..Len(q) : q[j] \in Header
  BY DEF Linked
<1> DEFINE Is(n) == /\ Line[q[n]] = Line[q[1]] \cup {q[j] : j \in 1..n}
                    /\ Depth[q[n]] = Depth[q[1]] + n - 1
           G == {n \in Nat : n + 1 <= Len(q) => Is(n + 1)}
<1>2. 0 \in G
  <2>1. q[1] \in Line[q[1]] /\ Depth[q[1]] \in Nat
    BY <1>1, LineEnd, LineRoot
  <2> QED BY <2>1
<1>3. ASSUME NEW n \in Nat, n \in G PROVE n + 1 \in G
  <2> SUFFICES ASSUME n + 2 <= Len(q) PROVE Is(n + 2)
    OBVIOUS
  <2>1. Is(n + 1)
    BY <1>3
  <2>2. n + 2 \in 2..Len(q) /\ n + 1 \in 1..Len(q) /\ n + 2 \in 1..Len(q) /\ (n + 2) - 1 = n + 1
    BY <1>1
  <2>3. q[n + 2] \in Header \ {Genesis} /\ Parent[q[n + 2]] = q[n + 1]
    BY <1>1, <2>2 DEF Linked
  <2>4. Line[q[n + 2]] = Line[q[n + 1]] \cup {q[n + 2]} /\ Depth[q[n + 2]] = Depth[q[n + 1]] + 1
    BY <2>3, LineStep
  <2>5. Depth[q[1]] \in Nat
    BY <1>1, LineRoot
  <2>6. Line[q[n + 2]] = Line[q[1]] \cup {q[j] : j \in 1..(n + 2)}
    <3>1. {q[j] : j \in 1..(n + 2)} = {q[j] : j \in 1..(n + 1)} \cup {q[n + 2]}
      <4>1. \A j \in 1..(n + 2) : j \in 1..(n + 1) \/ j = n + 2
        OBVIOUS
      <4> QED BY <4>1
    <3> QED BY <2>1, <2>4, <3>1
  <2> QED BY <2>1, <2>4, <2>5, <2>6
<1>4. Nat \subseteq G
  <2> HIDE DEF G
  <2> QED BY <1>2, <1>3, Induction
<1>5. k - 1 \in Nat /\ (k - 1) + 1 = k /\ k <= Len(q)
  BY <1>1
<1>6. Is(k)
  <2> HIDE DEF Is
  <2> QED BY <1>4, <1>5
<1> QED BY <1>1, <1>6

\* All headers of q are in the chain of its last one.
LEMMA LinkedEnd ==
  ASSUME NEW q, Linked(q), NEW k \in 1..Len(q)
  PROVE  q[k] \in Line[Last(q)] /\ Last(q) \in Header
<1> DEFINE n == Len(q)
           Is(i) == \A j \in 1..i : q[j] \in Line[q[i]]
           G == {i \in Nat : i + 1 <= n => Is(i + 1)}
<1>1. n \in Nat \ {0} /\ (\A j \in 1..n : q[j] \in Header) /\ Last(q) = q[n]
  BY DEF Linked, Last
<1> HIDE DEF n
<1>2. 0 \in G
  <2>1. \A j \in 1..(0 + 1) : j = 1
    OBVIOUS
  <2>2. 0 + 1 = 1 /\ 1 \in 1..n
    BY <1>1
  <2>3. q[1] \in Line[q[1]]
    BY <1>1, <2>2, LineEnd
  <2> QED BY <2>1, <2>2, <2>3
<1>3. ASSUME NEW i \in Nat, i \in G PROVE i + 1 \in G
  <2> SUFFICES ASSUME i + 2 <= n PROVE Is(i + 2)
    OBVIOUS
  <2>1. i + 2 \in 2..n /\ i + 1 \in 1..n /\ i + 2 \in 1..n /\ (i + 2) - 1 = i + 1
    BY <1>1
  <2>2. Is(i + 1)
    BY <1>1, <1>3, <2>1
  <2>3. q[i + 2] \in Header \ {Genesis} /\ Parent[q[i + 2]] = q[i + 1]
    BY <1>1, <2>1 DEF Linked, n
  <2>4. Line[q[i + 2]] = Line[q[i + 1]] \cup {q[i + 2]}
    BY <2>3, LineStep
  <2>5. \A j \in 1..(i + 2) : j \in 1..(i + 1) \/ j = i + 2
    OBVIOUS
  <2> QED BY <2>2, <2>4, <2>5
<1>4. Nat \subseteq G
  <2> HIDE DEF G
  <2> QED BY <1>2, <1>3, Induction
<1>5. n - 1 \in Nat /\ (n - 1) + 1 = n /\ n \in 1..n /\ k \in 1..n
  BY <1>1 DEF n
<1>6. Is(n)
  <2> HIDE DEF Is
  <2> QED BY <1>1, <1>4, <1>5
<1> QED BY <1>1, <1>5, <1>6

\* What initialize_candidate collects: the chain from the last header that is in
\* stop, that one excluded, to p.
LEMMA BranchIs ==
  ASSUME NEW stop, Genesis \in stop, NEW p \in Header
  PROVE  LET q == Branch(p, stop)
         IN /\ p \in stop => q = <<>>
            /\ p \notin stop =>
                 /\ Linked(q) /\ Last(q) = p
                 /\ \A k \in 1..Len(q) : q[k] \in Line[p] \ stop
                 /\ q[1] \in Header \ {Genesis} /\ Parent[q[1]] \in Line[p] \cap stop
<1> DEFINE T == Seq(Header)
           S == stop \cap Header
           b == [x \in S |-> <<>>]
           H == [x \in Header \ S |-> [t \in T |-> Append(t, x)]]
           Body(f) == [x \in Header |-> IF x \in stop THEN <<>> ELSE Append(f[Parent[x]], x)]
           path == CHOOSE f : f = Body(f)
<1>1. S \in SUBSET Header /\ Genesis \in S /\ b \in [S -> T] /\ H \in [Header \ S -> [T -> T]]
  BY HeaderAssumption
<1>2. PICK f \in [Header -> T] : Descends(f, S, b, H)
  <2> HIDE DEF S, T, b, H
  <2> QED BY <1>1, TreeRecursion
<1>3. ASSUME NEW h \in Header PROVE f[h] = IF h \in stop THEN <<>> ELSE Append(f[Parent[h]], h)
  <2>1. h \notin stop => Parent[h] \in Header /\ f[Parent[h]] \in T
    BY ParentType
  <2> QED BY <1>2, <2>1 DEF Descends
<1>4. f = Body(f)
  BY <1>3
<1>5. path = Body(path)
  <2> HIDE DEF Body
  <2> QED BY <1>4, Zenon
<1>6. Branch(p, stop) = path[p]
  BY DEF Branch
<1> HIDE DEF path
<1>7. \A h \in Header : path[h] = IF h \in stop THEN <<>> ELSE Append(path[Parent[h]], h)
  <2>1. \A h \in Header : Body(path)[h] = IF h \in stop THEN <<>> ELSE Append(path[Parent[h]], h)
    OBVIOUS
  <2> HIDE DEF Body
  <2> QED BY <1>5, <2>1, Zenon
<1> DEFINE Fits(h, q) ==
             /\ h \in stop => q = <<>>
             /\ h \notin stop =>
                  /\ Linked(q) /\ Last(q) = h
                  /\ \A k \in 1..Len(q) : q[k] \in Line[h] \ stop
                  /\ q[1] \in Header \ {Genesis} /\ Parent[q[1]] \in Line[h] \cap stop
           G == {h \in Header : Fits(h, path[h])}
<1>8. Genesis \in G
  BY <1>7, HeaderAssumption
<1>9. ASSUME NEW h \in Header \ {Genesis}, Parent[h] \in G PROVE h \in G
  <2>1. CASE h \in stop
    BY <1>7, <2>1
  <2>2. CASE h \notin stop
    <3>1. path[h] = Append(path[Parent[h]], h)
      BY <1>7, <2>2
    <3>2. Fits(Parent[h], path[Parent[h]]) /\ Parent[h] \in Header
      BY <1>9
    <3>3. h \in Line[h] /\ Line[Parent[h]] \subseteq Line[h] /\ Parent[h] \in Line[h]
      BY LineStep, LineEnd
    <3>4. CASE Parent[h] \in stop
      <4>1. path[h] = <<h>>
        <5>1. Append(<<>>, h) = <<h>>
          OBVIOUS
        <5>2. path[Parent[h]] = <<>>
          BY <3>2, <3>4
        <5> QED BY <3>1, <5>1, <5>2, Zenon
      <4>2. Fits(h, <<h>>)
        <5>1. Linked(<<h>>) /\ Last(<<h>>) = h /\ Len(<<h>>) = 1 /\ <<h>>[1] = h
          BY LinkedOne
        <5>2. \A k \in 1..Len(<<h>>) : <<h>>[k] \in Line[h] \ stop
          BY <2>2, <3>3, <5>1
        <5> QED BY <2>2, <3>3, <3>4, <5>1, <5>2
      <4> HIDE DEF Fits
      <4> QED BY <4>1, <4>2
    <3>5. CASE Parent[h] \notin stop
      <4> DEFINE q == path[Parent[h]]
                 r == Append(q, h)
      <4>1. /\ Linked(q) /\ Last(q) = Parent[h]
            /\ \A k \in 1..Len(q) : q[k] \in Line[Parent[h]] \ stop
            /\ q[1] \in Header \ {Genesis} /\ Parent[q[1]] \in Line[Parent[h]] \cap stop
        BY <3>2, <3>5
      <4> HIDE DEF q
      <4>2. /\ Linked(r) /\ Last(r) = h /\ r[1] = q[1] /\ Len(r) = Len(q) + 1
            /\ \A k \in 1..Len(q) : r[k] = q[k]
            /\ r[Len(q) + 1] = h
        BY <4>1, LinkedAppend
      <4>3. ASSUME NEW k \in 1..Len(r) PROVE r[k] \in Line[h] \ stop
        <5>1. Len(q) \in Nat
          BY <4>1 DEF Linked
        <5>2. k \in 1..Len(q) \/ k = Len(q) + 1
          BY <4>2, <5>1
        <5> QED BY <2>2, <3>3, <4>1, <4>2, <5>2
      <4>4. Fits(h, r)
        <5> HIDE DEF r
        <5> QED BY <2>2, <3>3, <4>1, <4>2, <4>3
      <4>5. path[h] = r
        BY <3>1 DEF q
      <4> HIDE DEF Fits, r
      <4> QED BY <4>4, <4>5
    <3> QED BY <3>4, <3>5
  <2> QED BY <2>1, <2>2
<1>10. Header \subseteq G
  <2> HIDE DEF G
  <2> QED BY <1>8, <1>9, TreeInduction
<1>11. Fits(p, path[p])
  <2> HIDE DEF Fits
  <2> QED BY <1>10
<1> QED BY <1>6, <1>11

-----------------------------------------------------------------------------
(***************************************************************************)
(* Stored headers.                                                         *)
(***************************************************************************)

\* The metadata of a header whose ancestors are known, and of one that waits.
Data(h) == [height |-> Depth[h], work |-> Weight[h], status |-> "normal",
            inherit |-> "normal"]
Waiting(h) == [height |-> 0, work |-> Proof[h], status |-> "disconnected",
               inherit |-> "error"]

\* The connected headers.
Attached(hs) == {h \in DOMAIN hs : hs[h].status = "normal"}

\* A function, and nothing that merely has the values of one.
IsMap(f) == f = [x \in DOMAIN f |-> f[x]]

\* Headers and the pairs of those that wait and their parents, when connected
\* headers have connected parents.
Consistent(hs, pairs) ==
  /\ IsMap(hs) /\ DOMAIN hs \subseteq Header /\ Genesis \in Attached(hs)
  /\ \A h \in Attached(hs) : hs[h] = Data(h)
  /\ \A h \in DOMAIN hs \ Attached(hs) : hs[h] = Waiting(h)
  /\ \A h \in Attached(hs) \ {Genesis} : Parent[h] \in Attached(hs)
  /\ pairs = {<<Parent[h], h>> : h \in DOMAIN hs \ Attached(hs)}

\* Nobody waits for a header that is connected.
Complete(hs) == \A h \in DOMAIN hs \ Attached(hs) : Parent[h] \notin Attached(hs)

\* A header is stored whose parent is connected, and waits for nothing.
LEMMA PutAttached ==
  ASSUME NEW hs, NEW pairs, Consistent(hs, pairs),
         NEW h \in Header \ Attached(hs), h # Genesis, Parent[h] \in Attached(hs)
  PROVE  LET r == Put(hs, h, Data(h))
         IN /\ Consistent(r, pairs \ {<<Parent[h], h>>})
            /\ Attached(r) = Attached(hs) \cup {h}
            /\ DOMAIN r = DOMAIN hs \cup {h}
<1> DEFINE r == Put(hs, h, Data(h))
<1>1. DOMAIN r = DOMAIN hs \cup {h} /\ r[h] = Data(h) /\ \A x \in DOMAIN hs \ {h} : r[x] = hs[x]
  BY DEF Put
<1>2. Data(h).status = "normal"
  BY DEF Data
<1> HIDE DEF r
<1>3. Attached(r) = Attached(hs) \cup {h}
  <2>1. ASSUME NEW x \in Attached(r) PROVE x \in Attached(hs) \cup {h}
    BY <1>1, <2>1 DEF Attached
  <2>2. ASSUME NEW x \in Attached(hs) PROVE x \in Attached(r)
    BY <1>1, <1>2, <2>2 DEF Attached
  <2>3. h \in Attached(r)
    BY <1>1, <1>2 DEF Attached
  <2> QED BY <2>1, <2>2, <2>3
<1>4. DOMAIN r \subseteq Header /\ Genesis \in Attached(r)
  BY <1>1, <1>3 DEF Consistent
<1>5. \A x \in Attached(r) : r[x] = Data(x)
  <2>1. Attached(hs) \subseteq DOMAIN hs
    BY DEF Attached
  <2> QED BY <1>1, <1>3, <2>1 DEF Consistent
<1>6. \A x \in DOMAIN r \ Attached(r) : r[x] = Waiting(x)
  BY <1>1, <1>3 DEF Consistent
<1>7. \A x \in Attached(r) \ {Genesis} : Parent[x] \in Attached(r)
  BY <1>3 DEF Consistent
<1>8. pairs \ {<<Parent[h], h>>} = {<<Parent[x], x>> : x \in DOMAIN r \ Attached(r)}
  <2>1. pairs = {<<Parent[x], x>> : x \in DOMAIN hs \ Attached(hs)}
    BY DEF Consistent
  <2>2. DOMAIN r \ Attached(r) = (DOMAIN hs \ Attached(hs)) \ {h}
    BY <1>1, <1>3
  <2> QED BY <2>1, <2>2
<1>9. IsMap(r)
  BY DEF r, Put, IsMap
<1>10. Consistent(r, pairs \ {<<Parent[h], h>>})
  BY <1>4, <1>5, <1>6, <1>7, <1>8, <1>9 DEF Consistent
<1> QED BY <1>1, <1>3, <1>10 DEF r

\* A header is stored that waits for its parent.
LEMMA PutWaiting ==
  ASSUME NEW hs, NEW pairs, Consistent(hs, pairs),
         NEW h \in Header \ DOMAIN hs
  PROVE  LET r == Put(hs, h, Waiting(h))
         IN /\ Consistent(r, pairs \cup {<<Parent[h], h>>})
            /\ Attached(r) = Attached(hs)
            /\ DOMAIN r = DOMAIN hs \cup {h}
<1> DEFINE r == Put(hs, h, Waiting(h))
<1>1. DOMAIN r = DOMAIN hs \cup {h} /\ r[h] = Waiting(h) /\ \A x \in DOMAIN hs : r[x] = hs[x]
  BY DEF Put
<1>2. Waiting(h).status # "normal"
  BY DEF Waiting
<1> HIDE DEF r
<1>3. Attached(r) = Attached(hs)
  BY <1>1, <1>2 DEF Attached
<1>4. DOMAIN r \subseteq Header /\ Genesis \in Attached(r)
  BY <1>1, <1>3 DEF Consistent
<1>5. \A x \in Attached(r) : r[x] = Data(x)
  <2>1. Attached(hs) \subseteq DOMAIN hs
    BY DEF Attached
  <2> QED BY <1>1, <1>3, <2>1 DEF Consistent
<1>6. \A x \in DOMAIN r \ Attached(r) : r[x] = Waiting(x)
  BY <1>1, <1>3 DEF Consistent
<1>7. \A x \in Attached(r) \ {Genesis} : Parent[x] \in Attached(r)
  BY <1>3 DEF Consistent
<1>8. pairs \cup {<<Parent[h], h>>} = {<<Parent[x], x>> : x \in DOMAIN r \ Attached(r)}
  <2>1. pairs = {<<Parent[x], x>> : x \in DOMAIN hs \ Attached(hs)}
    BY DEF Consistent
  <2>2. DOMAIN r \ Attached(r) = (DOMAIN hs \ Attached(hs)) \cup {h}
    BY <1>1, <1>2, <1>3 DEF Attached
  <2> QED BY <2>1, <2>2
<1>9. IsMap(r)
  BY DEF r, Put, IsMap
<1>10. Consistent(r, pairs \cup {<<Parent[h], h>>})
  BY <1>4, <1>5, <1>6, <1>7, <1>8, <1>9 DEF Consistent
<1> QED BY <1>1, <1>3, <1>10 DEF r

\* Connected headers have known chains, and only they.
LEMMA AttachedLines ==
  ASSUME NEW hs, NEW pairs, Consistent(hs, pairs)
  PROVE  /\ Attached(hs) \subseteq Header
         /\ \A h \in Attached(hs) : Line[h] \subseteq Attached(hs)
         /\ Complete(hs) => Attached(hs) = {h \in DOMAIN hs : Line[h] \subseteq DOMAIN hs}
<1>1. Attached(hs) \in SUBSET Header /\ Attached(hs) \subseteq DOMAIN hs /\ DOMAIN hs \subseteq Header
  BY DEF Consistent, Attached
<1>2. \A h \in Attached(hs) \ {Genesis} : Parent[h] \in Attached(hs)
  BY DEF Consistent
<1>3. ASSUME NEW h \in Attached(hs) PROVE Line[h] \subseteq Attached(hs)
  BY <1>1, <1>2, LineOfClosed
<1>4. ASSUME Complete(hs), NEW h \in DOMAIN hs, Line[h] \subseteq DOMAIN hs
      PROVE  h \in Attached(hs)
  <2> DEFINE G == {y \in Header : Line[y] \subseteq DOMAIN hs => y \in Attached(hs)}
  <2>1. Genesis \in G
    BY HeaderAssumption DEF Consistent
  <2>2. ASSUME NEW y \in Header \ {Genesis}, Parent[y] \in G PROVE y \in G
    <3>1. Line[y] = Line[Parent[y]] \cup {y}
      BY LineStep
    <3> QED BY <1>4, <2>2, <3>1 DEF Complete
  <2>3. Header \subseteq G
    <3> HIDE DEF G
    <3> QED BY <2>1, <2>2, TreeInduction
  <2> QED BY <1>1, <1>4, <2>3
<1> QED BY <1>1, <1>3, <1>4

-----------------------------------------------------------------------------
(***************************************************************************)
(* Transactions.                                                           *)
(***************************************************************************)
Tx(hs, sib, dis, cp, best, reorg, from) ==
  [headers |-> hs, siblings |-> sib, disconnected |-> dis, checkpoint |-> cp,
   best |-> best, reorg |-> reorg, from |-> from]

\* A transaction, with all its fields.
IsWork(u) == \E hs, sib, dis, cp, best, reorg, from :
               u = Tx(hs, sib, dis, cp, best, reorg, from)

\* The fields of a transaction.
LEMMA TxIs ==
  ASSUME NEW hs, NEW sib, NEW dis, NEW cp, NEW best, NEW reorg, NEW from
  PROVE  LET u == Tx(hs, sib, dis, cp, best, reorg, from)
         IN /\ IsWork(u)
            /\ u.headers = hs /\ u.siblings = sib /\ u.disconnected = dis
            /\ u.checkpoint = cp /\ u.best = best /\ u.reorg = reorg /\ u.from = from
<1>1. IsWork(Tx(hs, sib, dis, cp, best, reorg, from))
  BY Zenon DEF IsWork
<1> QED BY <1>1 DEF Tx

\* v has the best chain of u.
SameBest(v, u) ==
  /\ v.checkpoint = u.checkpoint /\ v.best = u.best
  /\ v.reorg = u.reorg /\ v.from = u.from

\* A header is connected to one that is not banned, and no checkpoint is set:
\* it gets the data of its chain.
LEMMA ConnectToParentIs ==
  ASSUME NEW u, IsWork(u), u.checkpoint = NoCheckpoint,
         NEW h \in Header \ {Genesis}, u.headers[Parent[h]] = Data(Parent[h])
  PROVE  LET v == ConnectToParent(u, Parent[h], h)
         IN /\ IsWork(v) /\ SameBest(v, u)
            /\ v.headers = Put(u.headers, h, Data(h))
            /\ v.siblings = u.siblings /\ v.disconnected = u.disconnected
<1> DEFINE d == u.headers[Parent[h]]
           p == [height |-> d.height + 1, hash |-> h]
           m == [height |-> p.height, work |-> d.work + Proof[h],
                 status |-> CompareToCheckpoint(u, p), inherit |-> EffectiveState(d)]
           v == ConnectToParent(u, Parent[h], h)
<1>1. d.height = Depth[Parent[h]] /\ d.work = Weight[Parent[h]] /\ d.status = "normal"
      /\ d.inherit = "normal"
  BY DEF Data
<1>2. p.height = Depth[h] /\ p.height # 0 /\ d.work + Proof[h] = Weight[h]
  BY <1>1, LineStep
<1>3. CompareToCheckpoint(u, p) = "normal"
  <2>1. u.checkpoint.height = 0
    BY DEF NoCheckpoint
  <2> QED BY <1>2, <2>1 DEF CompareToCheckpoint
<1>4. EffectiveState(d) = "normal"
  BY <1>1 DEF EffectiveState
<1>5. m = Data(h)
  BY <1>2, <1>3, <1>4 DEF Data
<1>6. v = [u EXCEPT !.headers = Put(@, h, m)]
  BY DEF ConnectToParent
<1>7. v = [u EXCEPT !.headers = Put(@, h, Data(h))]
  BY <1>5, <1>6
<1>8. PICK a, b, c, e, f, g, k : u = Tx(a, b, c, e, f, g, k)
  BY DEF IsWork
<1>9. ConnectToParent(u, Parent[h], h) = Tx(Put(a, h, Data(h)), b, c, e, f, g, k)
  <2>1. v = Tx(Put(a, h, Data(h)), b, c, e, f, g, k)
    <3> HIDE DEF v
    <3> QED BY <1>7, <1>8 DEF Tx
  <2> QED BY <2>1
<1> HIDE DEF v, m, p, d
<1> QED BY <1>8, <1>9, TxIs DEF SameBest

\* A header is stored that has to wait.
LEMMA DisconnectBlockIs ==
  ASSUME NEW u, IsWork(u), NEW h
  PROVE  LET v == DisconnectBlock(u, h)
         IN /\ IsWork(v) /\ SameBest(v, u)
            /\ v.headers = Put(u.headers, h, Waiting(h))
            /\ v.siblings = u.siblings
            /\ v.disconnected = u.disconnected \cup {<<Parent[h], h>>}
<1>1. PICK a, b, c, e, f, g, k : u = Tx(a, b, c, e, f, g, k)
  BY DEF IsWork
<1>2. DisconnectBlock(u, h) =
        Tx(Put(a, h, Waiting(h)), b, c \cup {<<Parent[h], h>>}, e, f, g, k)
  <2>1. DisconnectBlock(u, h) =
          [u EXCEPT !.headers = Put(@, h, Waiting(h)),
                    !.disconnected = @ \cup {<<Parent[h], h>>}]
    BY DEF DisconnectBlock, Waiting
  <2> QED BY <1>1, <2>1 DEF Tx
<1> QED BY <1>1, <1>2, TxIs DEF SameBest

\* A header is no longer a leaf.
LEMMA RemoveSiblingIs ==
  ASSUME NEW u, IsWork(u), NEW h
  PROVE  LET v == RemoveSibling(u, h)
         IN /\ IsWork(v) /\ SameBest(v, u)
            /\ v.headers = u.headers /\ v.disconnected = u.disconnected
            /\ v.siblings = u.siblings \ {h}
<1>1. PICK a, b, c, e, f, g, k : u = Tx(a, b, c, e, f, g, k)
  BY DEF IsWork
<1>2. RemoveSibling(u, h) = Tx(a, b \ {h}, c, e, f, g, k)
  BY <1>1 DEF RemoveSibling, Tx
<1> QED BY <1>1, <1>2, TxIs DEF SameBest

\* The stored best chain, and what is stored about headers.
Table ==
  /\ tip \in Nat /\ IsMap(best_chain) /\ DOMAIN best_chain = 0..tip
  /\ Consistent(headers, disconnected)
  /\ best_chain[tip] \in Attached(headers) /\ Depth[best_chain[tip]] = tip
  /\ \A h \in Line[best_chain[tip]] : best_chain[Depth[h]] = h

\* The height up to which a transaction leaves the table as it is.
Base(u) == IF u.reorg /\ u.from.height < tip THEN u.from.height ELSE tip

\* The headers that are connected in a transaction.
Known(u) == Attached(u.headers)

\* The header at its height in the best chain of u, as far as u can tell: the
\* table may show through above the tip.
Shown(u, h) == EffectiveBestBlock(u, Depth[h]) = h

\* The best chain of a transaction up to c, whose table ends there.
Trunk(u, c) ==
  /\ c \in Header
  /\ Base(u) <= Depth[c] /\ DOMAIN u.best = (Base(u) + 1)..Depth[c]
  /\ \A h \in Line[c] : Shown(u, h)
  /\ u.reorg \in BOOLEAN
  /\ ~u.reorg => u.from = NoPosition
  /\ u.reorg => /\ u.from.height \in Nat /\ u.from.hash \in Header
                /\ u.from.height <= tip => u.from.hash = best_chain[u.from.height]

\* The best chain of a transaction ends with c.
BestIs(u, c) == c = Current(u) /\ Trunk(u, c)

\* What a transaction knows of the tree: no chain is forgotten, and none has
\* more work than the best one.
Selected(u, c) ==
  /\ c \in Known(u)
  /\ \A h \in Known(u) : Weight[h] <= Weight[c]
  /\ u.siblings \subseteq Known(u) \ Line[c]
  /\ \A h \in Known(u) :
       (\A d \in Known(u) \ {Genesis} : Parent[d] # h) => h \in u.siblings \cup {c}

\* What holds of a transaction between two headers.
Good(u) ==
  /\ IsWork(u) /\ u.checkpoint = NoCheckpoint
  /\ Consistent(u.headers, u.disconnected) /\ Complete(u.headers)
  /\ Attached(headers) \subseteq Known(u)
  /\ BestIs(u, Current(u)) /\ Selected(u, Current(u))

-----------------------------------------------------------------------------
(***************************************************************************)
(* What a transaction shows as its best chain.                             *)
(***************************************************************************)
LEMMA ShownIs ==
  ASSUME Table, NEW u, NEW c, BestIs(u, c)
  PROVE  /\ \A n \in 0..Depth[c] :
              \E z \in Line[c] : Depth[z] = n /\ EffectiveBestBlock(u, n) = z
         /\ \A y \in Header :
              Shown(u, y) => \/ y \in Line[c]
                             \/ Depth[c] < Depth[y] /\ y \in Line[best_chain[tip]]
<1>1. c \in Header /\ Depth[c] \in Nat
  BY DepthIs DEF BestIs, Trunk
<1>2. ASSUME NEW n \in 0..Depth[c]
      PROVE  \E z \in Line[c] : Depth[z] = n /\ EffectiveBestBlock(u, n) = z
  <2>1. PICK z \in Line[c] : Depth[z] = n
    BY <1>1, LineHasAll
  <2>2. EffectiveBestBlock(u, Depth[z]) = z
    BY DEF BestIs, Trunk, Shown
  <2> QED BY <2>1, <2>2
<1>3. ASSUME NEW y \in Header, Shown(u, y)
      PROVE  y \in Line[c] \/ (Depth[c] < Depth[y] /\ y \in Line[best_chain[tip]])
  <2>0. Depth[y] \in Nat /\ EffectiveBestBlock(u, Depth[y]) = y
    BY <1>3, DepthIs DEF Shown
  <2>1. CASE Depth[y] <= Depth[c]
    <3>1. Depth[y] \in 0..Depth[c]
      BY <1>1, <2>0, <2>1
    <3> QED BY <1>2, <2>0, <3>1
  <2>2. CASE ~(Depth[y] <= Depth[c])
    <3>1. Depth[c] < Depth[y]
      BY <1>1, <2>0, <2>2
    <3>2. Depth[y] \notin DOMAIN u.best
      <4>1. DOMAIN u.best = (Base(u) + 1)..Depth[c]
        BY DEF BestIs, Trunk
      <4> QED BY <1>1, <2>0, <3>1, <4>1
    <3>3. Depth[y] \in 0..tip /\ best_chain[Depth[y]] = y
      BY <2>0, <3>2, HeaderAssumption DEF EffectiveBestBlock, Table
    <3>4. best_chain[tip] \in Header /\ Depth[best_chain[tip]] = tip
      BY DEF Table, Consistent, Attached
    <3>5. PICK x \in Line[best_chain[tip]] : Depth[x] = Depth[y]
      BY <3>3, <3>4, LineHasAll
    <3>6. best_chain[Depth[x]] = x
      BY DEF Table
    <3> QED BY <3>1, <3>3, <3>5, <3>6
  <2> QED BY <2>1, <2>2
<1> QED BY <1>2, <1>3

\* A header that was not connected before is not in the best chain.
LEMMA NewIsNotShown ==
  ASSUME Table, NEW u, Good(u), NEW y \in Header \ Known(u)
  PROVE  ~Shown(u, y)
<1>1. Line[Current(u)] \subseteq Known(u)
  BY AttachedLines DEF Good, Selected, Known
<1>2. Line[best_chain[tip]] \subseteq Known(u)
  <2>1. Line[best_chain[tip]] \subseteq Attached(headers)
    BY AttachedLines DEF Table
  <2> QED BY <2>1 DEF Good
<1>3. BestIs(u, Current(u))
  BY DEF Good
<1> QED BY <1>1, <1>2, <1>3, ShownIs

-----------------------------------------------------------------------------
(***************************************************************************)
(* Candidates.  K is what has been connected when they are considered.     *)
(***************************************************************************)
\* A chain that leaves the best chain at its first header, or before it.
Joins(u, c, q) ==
  /\ \/ q[1] \in Line[c]
     \/ q[1] # Genesis /\ Parent[q[1]] \in Line[c] /\ ~Shown(u, q[1])
  /\ \A k \in 2..Len(q) : ~Shown(u, q[k])

\* What a candidate consists of: headers that are connected.
Arm(u, c, K, q) ==
  /\ Linked(q) /\ Joins(u, c, q)
  /\ \A k \in 1..Len(q) : q[k] \in K

\* Nothing is banned without a checkpoint.
Candidate(q) == [banned |-> FALSE, chain |-> q]
End(cs, i) == Last(cs[i].chain)

\* The candidates end with the new headers that have no child, each with
\* another one, and have all new headers in their chains.
Searched(u, c, K, cs) ==
  /\ \A i \in 1..Len(cs) :
       /\ cs[i] = Candidate(cs[i].chain) /\ Arm(u, c, K, cs[i].chain)
       /\ End(cs, i) \in K \ Known(u)
       /\ \A d \in K \ {Genesis} : Parent[d] # End(cs, i)
       /\ \A j \in 1..Len(cs) : i # j => End(cs, i) # End(cs, j)
  /\ \A y \in K \ Known(u) : \E i \in 1..Len(cs) : y \in Line[End(cs, i)]

\* Candidate j takes the header x: it ended with the parent of x, or is a new
\* one, and then no other ends with that parent.
LEMMA SearchedMore ==
  ASSUME NEW u, NEW c, NEW K \in SUBSET Header, NEW cs, Searched(u, c, K, cs),
         NEW x \in Header \ K, x # Genesis, Parent[x] \in K, x \notin Known(u), ~Shown(u, x),
         \A d \in K \ {Genesis} : Parent[d] \in K,
         NEW q, Arm(u, c, K, q), Last(q) = Parent[x],
         NEW ds, NEW j \in 1..Len(ds), ds[j] = Candidate(Append(q, x)),
         Len(cs) \in Nat, Len(ds) \in Nat,
         \A i \in 1..Len(ds) : i # j =>
           i \in 1..Len(cs) /\ ds[i] = cs[i] /\ End(cs, i) # Parent[x],
         \A i \in 1..Len(cs) : i \in 1..Len(ds) /\ (i = j => End(cs, i) = Parent[x])
  PROVE  Searched(u, c, K \cup {x}, ds)
<1> DEFINE b == Append(q, x)
           L == K \cup {x}
<1>1. /\ Linked(b) /\ Last(b) = x /\ b[1] = q[1] /\ Len(b) = Len(q) + 1
      /\ \A k \in 1..Len(q) : b[k] = q[k]
      /\ b[Len(q) + 1] = x
  BY LinkedAppend DEF Arm
<1>2. Len(q) \in Nat \ {0}
  BY DEF Arm, Linked
<1> HIDE DEF b
<1>3. Arm(u, c, L, b)
  <2>1. ASSUME NEW k \in 1..Len(b) PROVE b[k] \in L /\ (k >= 2 => ~Shown(u, b[k]))
    <3>1. CASE k = Len(q) + 1
      BY <1>1, <1>2, <3>1
    <3>2. CASE k # Len(q) + 1
      <4>1. k \in 1..Len(q)
        BY <1>1, <1>2, <3>2
      <4>2. k >= 2 => k \in 2..Len(q)
        BY <1>2, <4>1
      <4> QED BY <1>1, <4>1, <4>2 DEF Arm, Joins
    <3> QED BY <3>1, <3>2
  <2>2. Joins(u, c, b)
    BY <1>1, <1>2, <2>1 DEF Arm, Joins
  <2> QED BY <1>1, <2>1, <2>2 DEF Arm
<1>4. ds[j] = Candidate(ds[j].chain) /\ ds[j].chain = b /\ End(ds, j) = x
  BY <1>1 DEF Candidate, End, b
<1>5. \A i \in 1..Len(ds) : i # j => End(ds, i) = End(cs, i)
  BY DEF End
<1>6. ASSUME NEW i \in 1..Len(ds)
      PROVE  /\ ds[i] = Candidate(ds[i].chain) /\ Arm(u, c, L, ds[i].chain)
             /\ End(ds, i) \in L \ Known(u)
             /\ \A d \in L \ {Genesis} : Parent[d] # End(ds, i)
             /\ \A m \in 1..Len(ds) : i # m => End(ds, i) # End(ds, m)
  <2>1. CASE i = j
    <3>1. \A d \in L \ {Genesis} : Parent[d] # x
      <4>1. Parent[x] # x
        OBVIOUS
      <4> QED BY <4>1
    <3>2. \A m \in 1..Len(ds) : m # j => End(ds, m) # x
      BY <1>5 DEF Searched
    <3> QED BY <1>3, <1>4, <2>1, <3>1, <3>2
  <2>2. CASE i # j
    <3>1. i \in 1..Len(cs) /\ ds[i] = cs[i] /\ End(ds, i) = End(cs, i)
          /\ End(cs, i) # Parent[x] /\ End(cs, i) \in K
      BY <1>5, <2>2 DEF Searched
    <3>2. ds[i] = Candidate(ds[i].chain) /\ Arm(u, c, L, ds[i].chain)
      BY <3>1 DEF Searched, Arm
    <3>3. \A d \in L \ {Genesis} : Parent[d] # End(ds, i)
      BY <3>1 DEF Searched
    <3>4. ASSUME NEW m \in 1..Len(ds), i # m PROVE End(ds, i) # End(ds, m)
      <4>1. CASE m = j
        BY <1>4, <3>1, <4>1
      <4>2. CASE m # j
        <5>1. m \in 1..Len(cs) /\ End(ds, m) = End(cs, m)
          BY <1>5, <4>2
        <5> QED BY <3>1, <3>4, <5>1 DEF Searched
      <4> QED BY <4>1, <4>2
    <3>5. End(ds, i) \in L \ Known(u)
      BY <3>1 DEF Searched
    <3> QED BY <3>2, <3>3, <3>4, <3>5
  <2> QED BY <2>1, <2>2
<1>7. ASSUME NEW y \in L \ Known(u) PROVE \E i \in 1..Len(ds) : y \in Line[End(ds, i)]
  <2>1. CASE y = x
    BY <1>4, <2>1, LineEnd
  <2>2. CASE y # x
    <3>1. PICK i \in 1..Len(cs) : y \in Line[End(cs, i)]
      BY <2>2 DEF Searched
    <3>2. CASE i = j
      <4>1. y \in Line[Parent[x]]
        BY <3>1, <3>2
      <4>2. y \in Line[x]
        BY <4>1, LineStep
      <4> QED BY <1>4, <4>2
    <3>3. CASE i # j
      BY <1>5, <3>1, <3>3
    <3> QED BY <3>2, <3>3
  <2> QED BY <2>1, <2>2
<1>8. Searched(u, c, L, ds)
  BY <1>6, <1>7 DEF Searched
<1> QED BY <1>8

-----------------------------------------------------------------------------
(***************************************************************************)
(* Calls of connect_children.                                              *)
(***************************************************************************)
CandidateType == [banned : BOOLEAN, chain : Seq(Header)]

\* A call of connect_children.
CallType ==
  [parent : Header, candidate : Nat, first : BOOLEAN, original : CandidateType]

\* The call for header x, which candidate j ends with.
NewCall(x, j, q) ==
  [parent |-> x, candidate |-> j, first |-> TRUE, original |-> Candidate(q)]

\* Before the first child the candidate of a call ends with its parent; after
\* it no candidate does, and the next one starts from the original.
CallOk(u, c, K, cs, call) ==
  /\ call.parent \in K \ Known(u) /\ call.candidate \in 1..Len(cs)
  /\ call.original = Candidate(call.original.chain)
  /\ Arm(u, c, K, call.original.chain) /\ Last(call.original.chain) = call.parent
  /\ call.first => End(cs, call.candidate) = call.parent
  /\ ~call.first => \A i \in 1..Len(cs) : End(cs, i) # call.parent

\* The calls that have not returned are for different headers.
Stack(u, c, K, cs, ks) ==
  \A m \in 1..Len(ks) :
    /\ CallOk(u, c, K, cs, ks[m])
    /\ \A n \in 1..Len(ks) : m # n => ks[m].parent # ks[n].parent

\* Candidate j takes the header x, like in SearchedMore, and x is called for.
LEMMA StackMore ==
  ASSUME NEW u, NEW c, NEW K \in SUBSET Header, NEW cs, NEW ks, Stack(u, c, K, cs, ks),
         NEW x \in Header \ K, Parent[x] \in K, x \notin Known(u),
         NEW ds, Searched(u, c, K \cup {x}, ds),
         NEW q, NEW j \in 1..Len(ds), ds[j] = Candidate(q), Last(q) = x,
         Len(cs) \in Nat, Len(ds) \in Nat, Len(ks) \in Nat,
         \A i \in 1..Len(ds) : i # j =>
           i \in 1..Len(cs) /\ ds[i] = cs[i] /\ End(cs, i) # Parent[x],
         \A i \in 1..Len(cs) : i \in 1..Len(ds) /\ (i = j => End(cs, i) = Parent[x]),
         NEW ls, Len(ls) = Len(ks) + 1, ls[1] = NewCall(x, j, q),
         \A m \in 1..Len(ks) :
           /\ ls[m + 1].parent = ks[m].parent
           /\ ls[m + 1].candidate = ks[m].candidate
           /\ ls[m + 1].original = ks[m].original
           /\ ls[m + 1].first = (ks[m].first /\ ks[m].parent # Parent[x])
  PROVE  Stack(u, c, K \cup {x}, ds, ls)
<1> DEFINE L == K \cup {x}
<1>0. ds[j].chain = q
  BY DEF Candidate
<1>1. End(ds, j) = x /\ Arm(u, c, L, q)
  BY <1>0 DEF End, Searched
<1>2. \A i \in 1..Len(ds) : i # j => End(ds, i) = End(cs, i)
  BY DEF End
<1>3. CallOk(u, c, L, ds, ls[1]) /\ ls[1].parent = x
  <2> DEFINE l == NewCall(x, j, q)
  <2>1. l.parent = x /\ l.candidate = j /\ l.first = TRUE /\ l.original = Candidate(q)
        /\ Candidate(q).chain = q
    BY DEF NewCall, Candidate
  <2> HIDE DEF l
  <2>2. CallOk(u, c, L, ds, l)
    BY <1>1, <2>1 DEF CallOk
  <2> QED BY <2>1, <2>2 DEF l
<1>4. ASSUME NEW m \in 1..Len(ks)
      PROVE  CallOk(u, c, L, ds, ls[m + 1]) /\ ls[m + 1].parent \in K
  <2> DEFINE k == ks[m]
             l == ls[m + 1]
  <2>1. CallOk(u, c, K, cs, k)
    BY DEF Stack
  <2>2. l.parent = k.parent /\ l.candidate = k.candidate /\ l.original = k.original
        /\ l.first = (k.first /\ k.parent # Parent[x])
    OBVIOUS
  <2> HIDE DEF k, l
  <2>3. Arm(u, c, L, k.original.chain)
    BY <2>1 DEF CallOk, Arm
  <2>4. l.parent \in L \ Known(u) /\ l.parent # x /\ l.parent \in K
    BY <2>1, <2>2 DEF CallOk
  <2>5. k.candidate \in 1..Len(ds)
    BY <2>1 DEF CallOk
  <2>6. ASSUME k.first, k.parent # Parent[x] PROVE End(ds, k.candidate) = k.parent
    <3>1. k.candidate # j
      BY <2>1, <2>6 DEF CallOk
    <3> QED BY <1>2, <2>1, <2>5, <2>6, <3>1 DEF CallOk
  <2>7. ASSUME ~k.first \/ k.parent = Parent[x], NEW i \in 1..Len(ds)
        PROVE  End(ds, i) # k.parent
    <3>1. CASE i = j
      BY <1>1, <2>2, <2>4, <3>1
    <3>2. CASE i # j
      <4>1. i \in 1..Len(cs) /\ End(ds, i) = End(cs, i) /\ End(cs, i) # Parent[x]
        BY <1>2, <3>2
      <4> QED BY <2>1, <2>7, <4>1 DEF CallOk
    <3> QED BY <3>1, <3>2
  <2>8. CallOk(u, c, L, ds, l)
    BY <2>1, <2>2, <2>3, <2>4, <2>5, <2>6, <2>7 DEF CallOk
  <2> QED BY <2>4, <2>8 DEF l
<1>5. ASSUME NEW m \in 1..Len(ls) PROVE CallOk(u, c, L, ds, ls[m])
  <2>1. m = 1 \/ (m - 1 \in 1..Len(ks) /\ (m - 1) + 1 = m)
    OBVIOUS
  <2> QED BY <1>3, <1>4, <2>1
<1>6. ASSUME NEW m \in 1..Len(ls), NEW n \in 1..Len(ls), m # n
      PROVE  ls[m].parent # ls[n].parent
  <2>1. m = 1 \/ (m - 1 \in 1..Len(ks) /\ (m - 1) + 1 = m)
    OBVIOUS
  <2>2. n = 1 \/ (n - 1 \in 1..Len(ks) /\ (n - 1) + 1 = n)
    OBVIOUS
  <2>3. CASE m = 1
    <3>1. ls[n].parent \in K
      BY <1>4, <1>6, <2>2, <2>3
    <3> QED BY <1>3, <2>3, <3>1
  <2>4. CASE n = 1
    <3>1. ls[m].parent \in K
      BY <1>4, <1>6, <2>1, <2>4
    <3> QED BY <1>3, <2>4, <3>1
  <2>5. CASE m # 1 /\ n # 1
    <3>1. m - 1 \in 1..Len(ks) /\ n - 1 \in 1..Len(ks) /\ m - 1 # n - 1
      BY <1>6, <2>1, <2>2, <2>5
    <3>2. ks[m - 1].parent # ks[n - 1].parent
      BY <3>1 DEF Stack
    <3>3. ls[m].parent = ks[m - 1].parent /\ ls[n].parent = ks[n - 1].parent
      BY <2>1, <2>2, <2>5
    <3> QED BY <3>2, <3>3
  <2> QED BY <2>3, <2>4, <2>5
<1> QED BY <1>5, <1>6 DEF Stack

\* The state of a search.
Search(v, cs, ks) == [update |-> v, candidates |-> cs, calls |-> ks]

\* What calling connect_children does to that state.
LEMMA CallIs ==
  ASSUME NEW v, NEW ks, NEW cs \in Seq(CandidateType), NEW i \in 1..Len(cs),
         NEW q \in Seq(Header), cs[i] = Candidate(q), NEW x \in Header
  PROVE  Call(Search(v, cs, ks), x, i) =
           Search(v, [cs EXCEPT ![i] = Candidate(Append(q, x))],
                  <<NewCall(x, i, Append(q, x))>> \o ks)
<1> DEFINE s == Search(v, cs, ks)
           ds == [cs EXCEPT ![i] = Candidate(Append(q, x))]
           t == [s EXCEPT !.candidates[i].chain = Append(@, x)]
<1>1. [cs[i] EXCEPT !.chain = Append(@, x)] = Candidate(Append(q, x))
  <2>1. cs[i].chain = q
    BY DEF Candidate
  <2>2. PICK f : f = FALSE
    OBVIOUS
  <2>3. ASSUME NEW a PROVE [cs[i] EXCEPT !.chain = a] = Candidate(a)
    <3>1. \A p : Candidate(p) = [banned |-> f, chain |-> p]
      BY <2>2 DEF Candidate
    <3>2. cs[i] = [banned |-> f, chain |-> q]
      BY <3>1
    <3>3. [cs[i] EXCEPT !.chain = a] = [banned |-> f, chain |-> a]
      BY <3>2
    <3> QED BY <3>1, <3>3
  <2> QED BY <2>1, <2>3
<1>2. [cs EXCEPT ![i].chain = Append(@, x)] = ds
  BY <1>1
<1> HIDE DEF ds
<1>3. t = Search(v, ds, ks)
  <2>1. \A a : [s EXCEPT !.candidates = a] = Search(v, a, ks)
    BY DEF Search
  <2>2. t = [s EXCEPT !.candidates = [cs EXCEPT ![i].chain = Append(@, x)]]
    BY DEF Search
  <2> QED BY <1>2, <2>1, <2>2
<1>4. ds[i] = Candidate(Append(q, x))
  <2>1. i \in DOMAIN cs
    OBVIOUS
  <2> QED BY <2>1 DEF ds
<1>5. Call(s, x, i) = [t EXCEPT !.calls = <<[parent |-> x, candidate |-> i, first |-> TRUE,
                            original |-> t.candidates[i]]>> \o @]
  BY DEF Call
<1>6. Call(s, x, i) = [t EXCEPT !.calls = <<NewCall(x, i, Append(q, x))>> \o @]
  BY <1>3, <1>4, <1>5 DEF Search, NewCall
<1>7. ASSUME NEW a PROVE [Search(v, ds, ks) EXCEPT !.calls = a \o @] = Search(v, ds, a \o ks)
  <2>1. ASSUME NEW r, r = Search(v, ds, ks), NEW e
        PROVE  [r EXCEPT !.calls = e] = Search(v, ds, e)
    BY <2>1 DEF Search
  <2>2. Search(v, ds, ks).calls = ks
    BY DEF Search
  <2> QED BY <2>1, <2>2
<1> QED BY <1>3, <1>6, <1>7 DEF ds

\* The first of some headers in the order of their hashes is one of them.
LEMMA FirstOfIsElement ==
  ASSUME NEW S \in SUBSET Header, S # {}
  PROVE  FirstOf(S) \in S
<1> DEFINE T == {i \in DOMAIN Order : Order[i] \in S}
           Is(i) == Order[i] \in S /\ \A j \in 1..(i - 1) : Order[j] \notin S
<1>1. DOMAIN Order = 1..Cardinality(Header) /\ Range(Order) = Header
      /\ Cardinality(Header) \in Nat
  <2>1. IsFiniteSet(Header) /\ Order \in [1..Cardinality(Header) -> Header] /\ Range(Order) = Header
    BY HeaderAssumption
  <2> QED BY <2>1, FS_CardinalityType
<1>2. T \in SUBSET Nat /\ T # {}
  <2>1. PICK x \in S : x \in Header
    OBVIOUS
  <2>2. PICK i \in DOMAIN Order : Order[i] = x
    BY <1>1, <2>1 DEF Range
  <2> QED BY <1>1, <2>1, <2>2
<1>3. PICK i \in T : \A j \in T : i <= j
  <2> HIDE DEF T
  <2> QED BY <1>2, NatMinimum
<1>4. i \in DOMAIN Order /\ Is(i)
  <2>1. ASSUME NEW j \in 1..(i - 1) PROVE Order[j] \notin S
    BY <1>1, <1>3
  <2> QED BY <2>1
<1>5. FirstOf(S) = Order[CHOOSE k \in DOMAIN Order : Is(k)]
  BY DEF FirstOf
<1> HIDE DEF Is
<1>6. Is(CHOOSE k \in DOMAIN Order : Is(k))
  BY <1>4
<1> QED BY <1>5, <1>6 DEF Is

\* The call of a header has returned from its first child.
Later(call) ==
  [parent |-> call.parent, candidate |-> call.candidate, first |-> FALSE,
   original |-> call.original]

\* s is what becomes of a search when the latest call connects its child x and
\* gives it to candidate j, which then has the chain q and x.
Continues(s, v, cs, ks, x, j, q) ==
  LET w == s.update
      ds == s.candidates
      ls == s.calls
  IN /\ s = Search(w, ds, ls)
     /\ IsWork(w) /\ SameBest(w, v) /\ w.siblings = v.siblings
     /\ w.headers = Put(v.headers, x, Data(x))
     /\ w.disconnected = v.disconnected \ {<<Parent[x], x>>}
     /\ ds \in Seq(CandidateType) /\ ls \in Seq(CallType)
     /\ j \in 1..Len(ds) /\ ds[j] = Candidate(Append(q, x)) /\ q \in Seq(Header)
     /\ \/ ks[1].first /\ j = ks[1].candidate /\ q = cs[j].chain /\ Len(ds) = Len(cs)
        \/ ~ks[1].first /\ j = Len(cs) + 1 /\ q = ks[1].original.chain /\ Len(ds) = Len(cs) + 1
     /\ \A i \in 1..Len(ds) : i # j => i \in 1..Len(cs) /\ ds[i] = cs[i]
     /\ Len(ls) = Len(ks) + 1 /\ ls[1] = NewCall(x, j, Append(q, x))
     /\ \A m \in 1..Len(ks) : ls[m + 1] = IF m = 1 THEN Later(ks[1]) ELSE ks[m]

\* The latest call remembers that it has connected a child.
LEMMA FirstChildCalled ==
  ASSUME NEW ks \in Seq(CallType), ks # <<>>
  PROVE  LET r == [ks EXCEPT ![1].first = FALSE]
         IN r \in Seq(CallType) /\ Len(r) = Len(ks) /\ r[1] = Later(ks[1])
            /\ \A m \in 2..Len(ks) : r[m] = ks[m]
<1>1. ks[1] \in CallType /\ 1 \in DOMAIN ks
  OBVIOUS
<1>2. PICK f : f = FALSE
  OBVIOUS
<1>3. [ks[1] EXCEPT !.first = f] = Later(ks[1])
  <2>1. Later(ks[1]) = [parent |-> ks[1].parent, candidate |-> ks[1].candidate, first |-> f,
                        original |-> ks[1].original]
    BY <1>2 DEF Later
  <2>2. PICK a, b, g, e : ks[1] = [parent |-> a, candidate |-> b, first |-> g, original |-> e]
    BY <1>1 DEF CallType
  <2>3. [ks[1] EXCEPT !.first = f] = [parent |-> a, candidate |-> b, first |-> f, original |-> e]
    BY <2>2
  <2>4. ks[1].parent = a /\ ks[1].candidate = b /\ ks[1].original = e
    BY <2>2
  <2> QED BY <2>1, <2>3, <2>4
<1>4. Later(ks[1]) \in CallType
  BY <1>1 DEF Later, CallType
<1>5. [ks EXCEPT ![1].first = FALSE] = [ks EXCEPT ![1] = Later(ks[1])]
  BY <1>2, <1>3
<1>6. ASSUME NEW l \in CallType, NEW r, r = [ks EXCEPT ![1] = l]
      PROVE  r \in Seq(CallType) /\ Len(r) = Len(ks) /\ r[1] = l
                /\ \A m \in 2..Len(ks) : r[m] = ks[m]
  BY <1>1, <1>6
<1> DEFINE r == [ks EXCEPT ![1].first = FALSE]
           l == Later(ks[1])
<1>7. l \in CallType /\ r = [ks EXCEPT ![1] = l]
  BY <1>4, <1>5
<1> HIDE DEF r, l
<1>8. r \in Seq(CallType) /\ Len(r) = Len(ks) /\ r[1] = l
      /\ \A m \in 2..Len(ks) : r[m] = ks[m]
  BY <1>6, <1>7
<1> QED BY <1>8 DEF r, l

\* The latest call returns when nobody waits for its header, and continues otherwise.
LEMMA ConnectNextIs ==
  ASSUME NEW v, IsWork(v), v.checkpoint = NoCheckpoint,
         NEW cs \in Seq(CandidateType), NEW ks \in Seq(CallType), ks # <<>>,
         NEW P \in Header, ks[1].parent = P, v.headers[P] = Data(P),
         ks[1].candidate \in 1..Len(cs),
         cs[ks[1].candidate] = Candidate(cs[ks[1].candidate].chain),
         ks[1].original = Candidate(ks[1].original.chain),
         \A x \in Header : <<P, x>> \in v.disconnected => x # Genesis /\ Parent[x] = P
  PROVE  LET s == ConnectNext(Search(v, cs, ks))
         IN \/ /\ \A x \in Header : <<P, x>> \notin v.disconnected
               /\ s = Search(v, cs, Tail(ks))
            \/ \E x \in Header : \E j, q :
                 <<P, x>> \in v.disconnected /\ Continues(s, v, cs, ks, x, j, q)
<1> DEFINE children == {d \in Header : <<P, d>> \in v.disconnected}
           x == FirstOf(children)
           s == ConnectNext(Search(v, cs, ks))
           call == ks[1]
           i == call.candidate
           v1 == [v EXCEPT !.disconnected = @ \ {<<P, x>>}]
           w == ConnectToParent(v1, P, x)
           es == [cs EXCEPT ![i].banned = Banned(w, x)]
           rs == [ks EXCEPT ![1].first = FALSE]
<1>1. Search(v, cs, ks).update = v /\ Search(v, cs, ks).candidates = cs
      /\ Search(v, cs, ks).calls = ks /\ Head(ks) = call
  BY DEF Search
<1>2. /\ children = {} => s = [Search(v, cs, ks) EXCEPT !.calls = Tail(ks)]
      /\ children # {} =>
           s = IF call.first THEN Call(Search(w, es, rs), x, i)
               ELSE Call([Search(w, es, rs) EXCEPT !.candidates = Append(@, call.original)],
                         x, Len(es) + 1)
  BY <1>1 DEF ConnectNext, Search
<1>3. ASSUME children = {} PROVE s = Search(v, cs, Tail(ks))
  <2>1. ASSUME NEW r, r = Search(v, cs, ks), NEW e PROVE [r EXCEPT !.calls = e] = Search(v, cs, e)
    BY <2>1 DEF Search
  <2> QED BY <1>2, <1>3, <2>1
<1>4. ASSUME children # {} PROVE \E j, q : Continues(s, v, cs, ks, x, j, q)
  <2>1. x \in children
    <3>1. children \in SUBSET Header
      OBVIOUS
    <3> QED BY <1>4, <3>1, FirstOfIsElement
  <2>2. x \in Header \ {Genesis} /\ Parent[x] = P
    BY <2>1
  <2> HIDE DEF x, children
  <2>3. /\ IsWork(v1) /\ SameBest(v1, v) /\ v1.headers = v.headers /\ v1.siblings = v.siblings
        /\ v1.disconnected = v.disconnected \ {<<P, x>>}
    <3>1. PICK a, b, c, e, f, g, k : v = Tx(a, b, c, e, f, g, k)
      BY DEF IsWork
    <3>2. v1 = Tx(a, b, c \ {<<P, x>>}, e, f, g, k)
      <4>1. ASSUME NEW z PROVE [v EXCEPT !.disconnected = z] = Tx(a, b, z, e, f, g, k)
        BY <3>1 DEF Tx
      <4>2. v.disconnected = c
        BY <3>1, TxIs
      <4> QED BY <4>1, <4>2
    <3> HIDE DEF v1
    <3> QED BY <3>1, <3>2, TxIs DEF SameBest
  <2> HIDE DEF v1
  <2>4. /\ IsWork(w) /\ SameBest(w, v) /\ w.siblings = v.siblings
        /\ w.headers = Put(v.headers, x, Data(x))
        /\ w.disconnected = v.disconnected \ {<<Parent[x], x>>}
    <3>1. v1.checkpoint = NoCheckpoint /\ v1.headers[Parent[x]] = Data(Parent[x])
      BY <2>2, <2>3 DEF SameBest
    <3> QED BY <2>2, <2>3, <3>1, ConnectToParentIs DEF SameBest
  <2> HIDE DEF w
  <2>5. Banned(w, x) = FALSE
    <3>1. w.headers[x] = Data(x)
      BY <2>4 DEF Put
    <3> QED BY <3>1 DEF Banned, EffectiveState, Data
  <2>6. es = cs
    <3>1. PICK f : f = FALSE
      OBVIOUS
    <3>2. cs[i] = [banned |-> f, chain |-> cs[i].chain]
      BY <3>1 DEF Candidate
    <3>3. ASSUME NEW r, NEW p, r = [banned |-> f, chain |-> p]
          PROVE  [r EXCEPT !.banned = f] = r
      BY <3>3
    <3>4. [cs[i] EXCEPT !.banned = f] = cs[i]
      BY <3>2, <3>3, Zenon
    <3>5. es = [cs EXCEPT ![i] = cs[i]]
      BY <2>5, <3>1, <3>4
    <3>6. [cs EXCEPT ![i] = cs[i]] = cs
      OBVIOUS
    <3> QED BY <3>5, <3>6
  <2>7. /\ rs \in Seq(CallType) /\ Len(rs) = Len(ks) /\ rs[1] = Later(ks[1])
        /\ \A m \in 2..Len(ks) : rs[m] = ks[m]
    BY FirstChildCalled
  <2> HIDE DEF es, rs
  <2>8. call.original \in CandidateType /\ call.original.chain \in Seq(Header)
        /\ call.first \in BOOLEAN
    <3>1. call \in CallType
      OBVIOUS
    <3> HIDE DEF call
    <3> QED BY <3>1 DEF CallType, CandidateType
  <2>9. ASSUME NEW j, NEW q \in Seq(Header), NEW ds \in Seq(CandidateType), j \in 1..Len(ds),
               ds[j] = Candidate(q), s = Call(Search(w, ds, rs), x, j),
               \/ call.first /\ j = i /\ q = cs[j].chain /\ Len(ds) = Len(cs)
               \/ ~call.first /\ j = Len(cs) + 1 /\ q = call.original.chain /\ Len(ds) = Len(cs) + 1,
               \A m \in 1..Len(ds) : m # j => m \in 1..Len(cs) /\ ds[m] = cs[m]
        PROVE  Continues(s, v, cs, ks, x, j, q)
    <3> DEFINE b == Append(q, x)
               fs == [ds EXCEPT ![j] = Candidate(b)]
               ls == <<NewCall(x, j, b)>> \o rs
    <3>1. s = Search(w, fs, ls)
      BY <2>2, <2>9, CallIs
    <3>2. s.update = w /\ s.candidates = fs /\ s.calls = ls
      BY <3>1 DEF Search
    <3>3. b \in Seq(Header) /\ j \in Nat
      BY <2>2, <2>9
    <3> HIDE DEF b
    <3>4. Candidate(b) \in CandidateType /\ NewCall(x, j, b) \in CallType
      BY <2>2, <3>3 DEF Candidate, CandidateType, NewCall, CallType
    <3>5. fs \in Seq(CandidateType) /\ Len(fs) = Len(ds) /\ fs[j] = Candidate(b)
          /\ \A m \in 1..Len(ds) : m # j => fs[m] = ds[m]
      BY <2>9, <3>4
    <3>6. /\ ls \in Seq(CallType) /\ Len(ls) = Len(ks) + 1 /\ ls[1] = NewCall(x, j, b)
          /\ \A m \in 1..Len(ks) : ls[m + 1] = rs[m]
      BY <2>7, <3>4
    <3>7. \A m \in 1..Len(ks) : ls[m + 1] = IF m = 1 THEN Later(ks[1]) ELSE ks[m]
      BY <2>7, <3>6
    <3> HIDE DEF fs, ls, s
    <3>8. \A m \in 1..Len(fs) : m # j => m \in 1..Len(cs) /\ fs[m] = cs[m]
      BY <2>9, <3>5
    <3> QED BY <2>4, <2>9, <3>1, <3>2, <3>5, <3>6, <3>7, <3>8 DEF Continues, b
  <2>10. CASE call.first
    <3>1. s = Call(Search(w, cs, rs), x, i)
      BY <1>2, <1>4, <2>6, <2>10
    <3>2. cs[i].chain \in Seq(Header)
      <4>1. cs[i] \in CandidateType
        OBVIOUS
      <4> QED BY <4>1 DEF CandidateType
    <3>3. Continues(s, v, cs, ks, x, i, cs[i].chain)
      <4> HIDE DEF s
      <4> QED BY <2>9, <2>10, <3>1, <3>2
    <3> QED BY <3>3
  <2>11. CASE ~call.first
    <3> DEFINE ds == Append(cs, call.original)
               j == Len(cs) + 1
    <3>1. ASSUME NEW r, r = Search(w, cs, rs), NEW e
          PROVE  [r EXCEPT !.candidates = e] = Search(w, e, rs) /\ r.candidates = cs
      BY <3>1 DEF Search
    <3>2. [Search(w, cs, rs) EXCEPT !.candidates = Append(@, call.original)] = Search(w, ds, rs)
      BY <3>1
    <3>3. s = Call(Search(w, ds, rs), x, j)
      BY <1>2, <1>4, <2>6, <2>11, <3>2
    <3>4. ds \in Seq(CandidateType) /\ Len(ds) = Len(cs) + 1 /\ j \in 1..Len(ds)
          /\ ds[j] = call.original /\ \A m \in 1..Len(cs) : ds[m] = cs[m]
      BY <2>8
    <3> HIDE DEF ds, s
    <3>5. \A m \in 1..Len(ds) : m # j => m \in 1..Len(cs) /\ ds[m] = cs[m]
      BY <3>4
    <3>6. Continues(s, v, cs, ks, x, j, call.original.chain)
      BY <2>8, <2>9, <2>11, <3>3, <3>4, <3>5
    <3> QED BY <3>6
  <2> QED BY <2>8, <2>10, <2>11
<1>5. CASE children = {}
  BY <1>3, <1>5
<1>6. CASE children # {}
  <2>1. x \in children
    <3>1. children \in SUBSET Header
      OBVIOUS
    <3> QED BY <1>6, <3>1, FirstOfIsElement
  <2>2. x \in Header /\ <<P, x>> \in v.disconnected
    BY <2>1
  <2>3. PICK j, q : Continues(s, v, cs, ks, x, j, q)
    BY <1>4, <1>6
  <2> HIDE DEF x, children
  <2> QED BY <2>2, <2>3
<1> QED BY <1>5, <1>6

\* A search from the new header h: what is left of it are the calls, one for
\* each connected header that somebody waits for.
Reached(u, h, w, K) ==
  /\ IsWork(w) /\ SameBest(w, u) /\ w.siblings = u.siblings \ {Parent[h]}
  /\ Consistent(w.headers, w.disconnected) /\ DOMAIN w.headers = DOMAIN u.headers \cup {h}
  /\ Known(u) \cup {h} \subseteq K
  /\ \A y \in K \ Known(u) : h \in Line[y]

\* When somebody waits for a connected header, a call for it has not returned.
Awaited(hs, K, ks) ==
  \A d \in DOMAIN hs \ K :
    Parent[d] \in K => \E m \in 1..Len(ks) : ks[m].parent = Parent[d]

\* What holds of a search at every step.
Searching(u, h, s) ==
  /\ s = Search(s.update, s.candidates, s.calls)
  /\ s.candidates \in Seq(CandidateType) /\ s.calls \in Seq(CallType)
  /\ Reached(u, h, s.update, Known(s.update))
  /\ Searched(u, Current(u), Known(s.update), s.candidates)
  /\ Stack(u, Current(u), Known(s.update), s.candidates, s.calls)
  /\ Awaited(s.update.headers, Known(s.update), s.calls)

\* The steps that are left: each child is connected once, each call returns once.
Left(s) == 2 * Cardinality(s.update.disconnected) + Len(s.calls)

\* The pairs of those that wait and their parents.
LEMMA PairIs ==
  ASSUME NEW hs, NEW pairs, Consistent(hs, pairs)
  PROVE  /\ \A p, x : <<p, x>> \in pairs => x \in DOMAIN hs \ Attached(hs) /\ p = Parent[x]
         /\ \A x \in DOMAIN hs \ Attached(hs) : x \in Header \ {Genesis} /\ <<Parent[x], x>> \in pairs
         /\ IsFiniteSet(pairs)
<1>1. pairs = {<<Parent[x], x>> : x \in DOMAIN hs \ Attached(hs)}
  BY DEF Consistent
<1>2. DOMAIN hs \ Attached(hs) \subseteq Header \ {Genesis}
  BY DEF Consistent
<1>3. IsFiniteSet(pairs)
  <2>1. IsFiniteSet(Header)
    BY HeaderAssumption
  <2>2. IsFiniteSet(Header \X Header)
    BY <2>1, FS_Product
  <2>3. pairs \subseteq Header \X Header
    BY <1>1, <1>2, ParentType
  <2> QED BY <2>2, <2>3, FS_Subset
<1> QED BY <1>1, <1>2, <1>3

\* A finite set without one of its elements.
LEMMA CountWithout ==
  ASSUME NEW S, IsFiniteSet(S), NEW x \in S
  PROVE  Cardinality(S) \in Nat /\ Cardinality(S \ {x}) \in Nat
         /\ Cardinality(S) = Cardinality(S \ {x}) + 1
<1>1. IsFiniteSet(S \ {x}) /\ Cardinality(S \ {x}) = Cardinality(S) - 1
  BY FS_RemoveElement
<1> QED BY <1>1, FS_CardinalityType

\* One step: a child is connected, or a call returns.
LEMMA SearchStep ==
  ASSUME Table, NEW u, Good(u), NEW h \in Header, NEW s, Searching(u, h, s), s.calls # <<>>
  PROVE  /\ Searching(u, h, ConnectNext(s))
         /\ Left(s) \in Nat /\ Left(ConnectNext(s)) \in Nat
         /\ Left(s) = Left(ConnectNext(s)) + 1
<1> DEFINE v == s.update
           cs == s.candidates
           ks == s.calls
           c == Current(u)
           K == Known(v)
           P == ks[1].parent
           t == ConnectNext(s)
<1>1. /\ s = Search(v, cs, ks)
      /\ IsWork(v) /\ SameBest(v, u) /\ v.siblings = u.siblings \ {Parent[h]}
      /\ Consistent(v.headers, v.disconnected) /\ DOMAIN v.headers = DOMAIN u.headers \cup {h}
      /\ Known(u) \cup {h} \subseteq K
      /\ \A y \in K \ Known(u) : h \in Line[y]
      /\ cs \in Seq(CandidateType) /\ ks \in Seq(CallType) /\ ks # <<>>
      /\ Searched(u, c, K, cs) /\ Stack(u, c, K, cs, ks)
      /\ \A d \in DOMAIN v.headers \ K :
           Parent[d] \in K => \E m \in 1..Len(ks) : ks[m].parent = Parent[d]
  BY DEF Searching, Reached, Awaited
<1> HIDE DEF v, cs, ks, c, K, P, t
<1>2. Len(ks) \in Nat \ {0} /\ 1 \in 1..Len(ks) /\ Len(cs) \in Nat
  BY <1>1
<1>3. CallOk(u, c, K, cs, ks[1]) /\ P \in K \ Known(u)
  BY <1>1, <1>2 DEF Stack, CallOk, P
<1>4. K \in SUBSET Header /\ Known(u) \subseteq K
      /\ v.headers[P] = Data(P) /\ v.checkpoint = NoCheckpoint
      /\ \A d \in K \ {Genesis} : Parent[d] \in K
  <2>1. K = Attached(v.headers)
    BY DEF K, Known
  <2> QED BY <1>1, <1>3, <2>1, AttachedLines DEF Consistent, Good, SameBest
<1>4a. K = Attached(v.headers)
  BY DEF K, Known
<1>4b. /\ \A p, x : <<p, x>> \in v.disconnected => x \in DOMAIN v.headers \ K /\ p = Parent[x]
       /\ \A x \in DOMAIN v.headers \ K :
            x \in Header \ {Genesis} /\ <<Parent[x], x>> \in v.disconnected
       /\ IsFiniteSet(v.disconnected)
  <2>1. Consistent(v.headers, v.disconnected)
    BY <1>1
  <2>2. /\ \A p, x : <<p, x>> \in v.disconnected =>
                       x \in DOMAIN v.headers \ Attached(v.headers) /\ p = Parent[x]
        /\ \A x \in DOMAIN v.headers \ Attached(v.headers) :
             x \in Header \ {Genesis} /\ <<Parent[x], x>> \in v.disconnected
        /\ IsFiniteSet(v.disconnected)
    BY ONLY <2>1, PairIs
  <2> QED BY <1>4a, <2>2
<1>5. \A p, x : <<p, x>> \in v.disconnected <=>
                  x \in DOMAIN v.headers \ K /\ p = Parent[x]
  BY <1>4b
<1>6. /\ \A x \in DOMAIN v.headers \ K : x \in Header \ {Genesis}
      /\ IsFiniteSet(v.disconnected)
  BY <1>4b
<1>7. Left(s) = 2 * Cardinality(v.disconnected) + Len(ks)
  BY DEF Left, v, ks
<1>8. \/ (\A x \in Header : <<P, x>> \notin v.disconnected) /\ t = Search(v, cs, Tail(ks))
      \/ \E x \in Header : \E j, q :
           <<P, x>> \in v.disconnected /\ Continues(t, v, cs, ks, x, j, q)
  <2>1. ks[1].candidate \in 1..Len(cs)
        /\ cs[ks[1].candidate] = Candidate(cs[ks[1].candidate].chain)
        /\ ks[1].original = Candidate(ks[1].original.chain)
    BY <1>1, <1>3 DEF CallOk, Searched
  <2>2. \A x \in Header : <<P, x>> \in v.disconnected => x # Genesis /\ Parent[x] = P
    BY <1>5, <1>6
  <2>3. P \in Header /\ ks[1].parent = P
    BY <1>3, <1>4 DEF P
  <2>4. t = ConnectNext(Search(v, cs, ks))
    BY <1>1 DEF t
  <2> QED BY <1>1, <1>4, <2>1, <2>2, <2>3, <2>4, ConnectNextIs
<1>9. ASSUME \A x \in Header : <<P, x>> \notin v.disconnected, t = Search(v, cs, Tail(ks))
      PROVE  Searching(u, h, t) /\ Left(s) \in Nat /\ Left(t) \in Nat /\ Left(s) = Left(t) + 1
  <2> DEFINE ls == Tail(ks)
  <2>1. t.update = v /\ t.candidates = cs /\ t.calls = ls
    BY <1>9 DEF Search
  <2>2. ls \in Seq(CallType) /\ Len(ls) = Len(ks) - 1 /\ \A m \in 1..Len(ls) : ls[m] = ks[m + 1]
    BY <1>1, <1>2
  <2> HIDE DEF ls
  <2>3. \A m \in 1..Len(ls) : m + 1 \in 1..Len(ks) /\ ls[m] = ks[m + 1]
    BY <1>2, <2>2
  <2>4. Stack(u, c, K, cs, ls)
    <3>1. ASSUME NEW m \in 1..Len(ls) PROVE CallOk(u, c, K, cs, ls[m])
      BY <1>1, <2>3 DEF Stack
    <3>2. ASSUME NEW m \in 1..Len(ls), NEW n \in 1..Len(ls), m # n
          PROVE  ls[m].parent # ls[n].parent
      <4>1. m + 1 # n + 1
        BY <3>2
      <4> QED BY <1>1, <2>3, <4>1 DEF Stack
    <3> QED BY <3>1, <3>2 DEF Stack
  <2>5. ASSUME NEW d \in DOMAIN v.headers \ K, Parent[d] \in K
        PROVE  \E m \in 1..Len(ls) : ls[m].parent = Parent[d]
    <3>1. PICK m \in 1..Len(ks) : ks[m].parent = Parent[d]
      BY <1>1, <2>5
    <3>2. m # 1
      <4>1. <<Parent[d], d>> \in v.disconnected /\ d \in Header
        BY <1>5, <1>6
      <4> QED BY <1>9, <3>1, <4>1 DEF P
    <3>3. m - 1 \in 1..Len(ls) /\ (m - 1) + 1 = m
      BY <1>2, <2>2, <3>2
    <3> QED BY <2>3, <3>1, <3>3
  <2>6. Searching(u, h, t)
    <3>1. Reached(u, h, v, K) /\ Awaited(v.headers, K, ls)
      BY <1>1, <2>5 DEF Reached, Awaited
    <3>2. t = Search(v, cs, ls)
      BY <1>9 DEF ls
    <3> QED BY <1>1, <2>1, <2>2, <2>4, <3>1, <3>2 DEF Searching, K, c
  <2>7. Left(t) = 2 * Cardinality(v.disconnected) + Len(ls)
    BY <2>1 DEF Left
  <2>8. Cardinality(v.disconnected) \in Nat
    BY <1>6, FS_CardinalityType
  <2> QED BY <1>2, <1>7, <2>2, <2>6, <2>7, <2>8
<1>10. ASSUME NEW x \in Header, NEW j, NEW q,
              <<P, x>> \in v.disconnected, Continues(t, v, cs, ks, x, j, q)
       PROVE  Searching(u, h, t) /\ Left(s) \in Nat /\ Left(t) \in Nat /\ Left(s) = Left(t) + 1
  <2> DEFINE w == t.update
             ds == t.candidates
             ls == t.calls
             L == Known(w)
  <2>1. x \in DOMAIN v.headers \ K /\ x \in Header \ {Genesis} /\ P = Parent[x] /\ x \notin K
        /\ x \notin Known(u)
    BY <1>4, <1>5, <1>6, <1>10
  <2>2. /\ t = Search(w, ds, ls)
        /\ IsWork(w) /\ SameBest(w, v) /\ w.siblings = v.siblings
        /\ w.headers = Put(v.headers, x, Data(x))
        /\ w.disconnected = v.disconnected \ {<<Parent[x], x>>}
        /\ ds \in Seq(CandidateType) /\ ls \in Seq(CallType)
        /\ j \in 1..Len(ds) /\ ds[j] = Candidate(Append(q, x)) /\ q \in Seq(Header)
        /\ \/ ks[1].first /\ j = ks[1].candidate /\ q = cs[j].chain /\ Len(ds) = Len(cs)
           \/ ~ks[1].first /\ j = Len(cs) + 1 /\ q = ks[1].original.chain /\ Len(ds) = Len(cs) + 1
        /\ \A i \in 1..Len(ds) : i # j => i \in 1..Len(cs) /\ ds[i] = cs[i]
        /\ Len(ls) = Len(ks) + 1 /\ ls[1] = NewCall(x, j, Append(q, x))
        /\ \A m \in 1..Len(ks) : ls[m + 1] = IF m = 1 THEN Later(ks[1]) ELSE ks[m]
    BY <1>10 DEF Continues
  <2>3. /\ Consistent(w.headers, w.disconnected) /\ L = K \cup {x}
        /\ DOMAIN w.headers = DOMAIN u.headers \cup {h}
    <3>1. x \in Header \ Attached(v.headers) /\ Parent[x] \in Attached(v.headers)
      BY <1>3, <2>1 DEF K, Known
    <3>2. DOMAIN v.headers \cup {x} = DOMAIN u.headers \cup {h}
      BY <1>1, <2>1
    <3> DEFINE r == Put(v.headers, x, Data(x))
    <3>3. /\ Consistent(r, v.disconnected \ {<<Parent[x], x>>})
          /\ Attached(r) = Attached(v.headers) \cup {x} /\ DOMAIN r = DOMAIN v.headers \cup {x}
      BY <1>1, <2>1, <3>1, PutAttached
    <3>4. w.headers = r /\ w.disconnected = v.disconnected \ {<<Parent[x], x>>}
      BY <2>2
    <3>5. L = Attached(w.headers) /\ K = Attached(v.headers)
      BY DEF K, Known
    <3> HIDE DEF r, w, L
    <3> QED BY <3>2, <3>3, <3>4, <3>5
  <2> HIDE DEF w, ds, ls, L
  <2>4. Arm(u, c, K, q) /\ Last(q) = P
    <3>1. CASE ks[1].first /\ q = cs[j].chain /\ j = ks[1].candidate
      BY <1>1, <1>3, <3>1 DEF CallOk, Searched, End, P
    <3>2. CASE q = ks[1].original.chain
      BY <1>3, <3>2 DEF CallOk, P
    <3> QED BY <2>2, <3>1, <3>2
  <2>5. Len(ds) \in Nat
    BY <2>2
  <2>6. ASSUME NEW i \in 1..Len(ds), i # j
        PROVE  i \in 1..Len(cs) /\ ds[i] = cs[i] /\ End(cs, i) # Parent[x]
    <3>1. i \in 1..Len(cs) /\ ds[i] = cs[i]
      BY <2>2, <2>6
    <3>2. CASE ks[1].first /\ j = ks[1].candidate
      <4>1. End(cs, j) = P /\ j \in 1..Len(cs)
        BY <1>3, <3>2 DEF CallOk, P
      <4> QED BY <1>1, <2>1, <2>6, <3>1, <4>1 DEF Searched
    <3>3. CASE ~ks[1].first
      BY <1>3, <2>1, <3>1, <3>3 DEF CallOk, P
    <3> QED BY <2>2, <3>1, <3>2, <3>3
  <2>7. ASSUME NEW i \in 1..Len(cs)
        PROVE  i \in 1..Len(ds) /\ (i = j => End(cs, i) = Parent[x])
    <3>1. CASE ks[1].first /\ j = ks[1].candidate /\ Len(ds) = Len(cs)
      BY <1>3, <2>1, <3>1 DEF CallOk, P
    <3>2. CASE j = Len(cs) + 1 /\ Len(ds) = Len(cs) + 1
      BY <1>2, <3>2
    <3> QED BY <2>2, <3>1, <3>2
  <2>8. ~Shown(u, x)
    BY <2>1, NewIsNotShown
  <2>9. Searched(u, c, L, ds)
    <3>1. Parent[x] \in K /\ x # Genesis /\ Last(q) = Parent[x]
      BY <1>3, <2>1, <2>4
    <3>2. K \in SUBSET Header /\ Searched(u, c, K, cs) /\ x \in Header \ K /\ x \notin Known(u)
          /\ (\A d \in K \ {Genesis} : Parent[d] \in K) /\ Len(cs) \in Nat
      BY <1>1, <1>2, <1>4, <2>1
    <3>3. j \in 1..Len(ds) /\ ds[j] = Candidate(Append(q, x)) /\ Arm(u, c, K, q)
      BY <2>2, <2>4
    <3>4. Searched(u, c, K \cup {x}, ds)
      BY ONLY <2>5, <2>6, <2>7, <2>8, <3>1, <3>2, <3>3, SearchedMore
    <3> QED BY <2>3, <3>4
  <2>10. \A m \in 1..Len(ks) :
           /\ ls[m + 1].parent = ks[m].parent
           /\ ls[m + 1].candidate = ks[m].candidate
           /\ ls[m + 1].original = ks[m].original
           /\ ls[m + 1].first = (ks[m].first /\ ks[m].parent # Parent[x])
    <3>1. ls[1 + 1] = Later(ks[1]) /\ ks[1].parent = Parent[x]
      BY <1>2, <2>1, <2>2 DEF P
    <3>2. ASSUME NEW m \in 1..Len(ks), m # 1
          PROVE  ls[m + 1] = ks[m] /\ ks[m].parent # Parent[x] /\ ks[m].first \in BOOLEAN
      <4>1. ks[m] \in CallType
        BY <1>1
      <4>2. ks[m].first \in BOOLEAN
        BY <4>1 DEF CallType
      <4>3. ks[m].parent # ks[1].parent
        BY <1>1, <1>2, <3>2 DEF Stack
      <4> QED BY <2>2, <3>1, <3>2, <4>2, <4>3
    <3>3. ASSUME NEW m \in 1..Len(ks), m = 1
          PROVE  /\ ls[m + 1].parent = ks[m].parent
                 /\ ls[m + 1].candidate = ks[m].candidate
                 /\ ls[m + 1].original = ks[m].original
                 /\ ls[m + 1].first = FALSE
      BY <3>1, <3>3 DEF Later
    <3> QED BY <3>1, <3>2, <3>3
  <2>11. Stack(u, c, L, ds, ls)
    <3>1. Linked(Append(q, x)) /\ Last(Append(q, x)) = x
      BY <2>1, <2>4, LinkedAppend DEF Arm
    <3>2. Parent[x] \in K
      BY <1>3, <2>1
    <3> DEFINE b == Append(q, x)
    <3> HIDE DEF b
    <3>3. ds[j] = Candidate(b) /\ Last(b) = x /\ ls[1] = NewCall(x, j, b)
      BY <2>2, <3>1 DEF b
    <3>4. K \in SUBSET Header /\ Stack(u, c, K, cs, ks) /\ x \in Header \ K /\ x \notin Known(u)
          /\ Len(cs) \in Nat /\ Len(ks) \in Nat /\ j \in 1..Len(ds) /\ Len(ls) = Len(ks) + 1
          /\ Searched(u, c, K \cup {x}, ds)
      BY <1>1, <1>2, <1>4, <2>1, <2>2, <2>3, <2>9
    <3>5. Stack(u, c, K \cup {x}, ds, ls)
      BY ONLY <2>5, <2>6, <2>7, <2>10, <3>2, <3>3, <3>4, StackMore
    <3> QED BY <2>3, <3>5
  <2>12. ASSUME NEW d \in DOMAIN w.headers \ L, Parent[d] \in L
         PROVE  \E m \in 1..Len(ls) : ls[m].parent = Parent[d]
    <3>1. CASE Parent[d] = x
      <4>1. ls[1].parent = x /\ 1 \in 1..Len(ls)
        BY <1>2, <2>2 DEF NewCall
      <4> QED BY <3>1, <4>1
    <3>2. CASE Parent[d] # x
      <4>1. d \in DOMAIN v.headers \ K /\ Parent[d] \in K
        BY <1>1, <2>3, <2>12, <3>2
      <4>2. PICK m \in 1..Len(ks) : ks[m].parent = Parent[d]
        BY <1>1, <4>1
      <4>3. m + 1 \in 1..Len(ls)
        BY <1>2, <2>2
      <4> QED BY <2>10, <4>2, <4>3
    <3> QED BY <3>1, <3>2
  <2>13. SameBest(w, u) /\ w.siblings = u.siblings \ {Parent[h]}
    BY <1>1, <2>2 DEF SameBest
  <2>14. \A y \in L \ Known(u) : h \in Line[y]
    <3>1. h \in Line[P]
      BY <1>1, <1>3
    <3>2. h \in Line[x]
      BY <2>1, <3>1, LineStep
    <3> QED BY <1>1, <2>3, <3>2
  <2>15. Known(u) \cup {h} \subseteq L
    BY <1>1, <2>3
  <2>16. Searching(u, h, t)
    <3>1. Reached(u, h, w, L) /\ Awaited(w.headers, L, ls)
      BY <2>2, <2>3, <2>12, <2>13, <2>14, <2>15 DEF Reached, Awaited
    <3> QED BY <2>2, <2>9, <2>11, <3>1 DEF Searching, w, ds, ls, L, c
  <2>17. Left(t) = 2 * Cardinality(w.disconnected) + Len(ls)
    BY DEF Left, w, ls
  <2>18. <<Parent[x], x>> \in v.disconnected
    BY <1>10, <2>1
  <2>19. Cardinality(v.disconnected) \in Nat /\ Cardinality(w.disconnected) \in Nat
         /\ Cardinality(v.disconnected) = Cardinality(w.disconnected) + 1
    <3>1. w.disconnected = v.disconnected \ {<<Parent[x], x>>}
      BY <2>2
    <3> QED BY <1>6, <2>18, <3>1, CountWithout, Zenon
  <2>20. Len(ls) = Len(ks) + 1
    BY <2>2
  <2>21. Left(s) \in Nat /\ Left(t) \in Nat /\ Left(s) = Left(t) + 1
    BY <1>2, <1>7, <2>17, <2>19, <2>20
  <2> QED BY <2>16, <2>21
<1> QED BY <1>8, <1>9, <1>10 DEF t

-----------------------------------------------------------------------------
(***************************************************************************)
(* The start of a search.                                                  *)
(***************************************************************************)
\* What a transaction has connected so far descends from one header, which is
\* an ancestor of p; only then can it have changed the best chain.
Rooted(u, p) ==
  LET new == Known(u) \ Attached(headers)
  IN /\ new = {} \/ \E x \in new : x \in Line[p] /\ \A y \in new : x \in Line[y]
     /\ \/ DOMAIN u.best = {}
        \/ Current(u) \in new /\ Weight[best_chain[tip]] < Weight[Current(u)]

\* Every chain begins with the genesis header.
LEMMA GenesisInLine ==
  ASSUME NEW h \in Header
  PROVE  Genesis \in Line[h]
<1>1. 0 \in 0..Depth[h]
  BY DepthIs
<1>2. PICK x \in Line[h] : Depth[x] = 0
  BY <1>1, LineHasAll
<1>3. x \in Header
  BY LineRoot
<1>4. x = Genesis
  BY <1>2, <1>3, LineStep
<1> QED BY <1>4

\* Where a batch attaches, entries that show through are not mistaken for the
\* best chain.
LEMMA ShownOnLine ==
  ASSUME Table, NEW u, Good(u), NEW p \in Known(u), Rooted(u, p),
         NEW y \in Line[p], Shown(u, y)
  PROVE  y \in Line[Current(u)]
<1> DEFINE c == Current(u)
           new == Known(u) \ Attached(headers)
<1>1. p \in Header /\ y \in Header /\ c \in Header /\ c \in Known(u) /\ BestIs(u, c)
      /\ Depth[y] \in Nat /\ Depth[c] \in Nat
  <2>1. Known(u) \subseteq Header
    BY DEF Good, Consistent, Known, Attached
  <2> QED BY <2>1, LineRoot DEF Good, Selected
<1>2. SUFFICES ASSUME y \notin Line[c] PROVE FALSE
  OBVIOUS
<1> HIDE DEF c
<1>3. Depth[c] < Depth[y] /\ y \in Line[best_chain[tip]]
  BY <1>1, <1>2, ShownIs
<1>4. best_chain[tip] \in Header /\ Line[best_chain[tip]] \subseteq Attached(headers)
      /\ Depth[best_chain[tip]] = tip /\ tip \in Nat
  BY AttachedLines DEF Table
<1>5. Depth[y] <= tip
  BY <1>3, <1>4, LineIsLower
<1>6. DOMAIN u.best # {}
  <2>1. SUFFICES ASSUME DOMAIN u.best = {} PROVE FALSE
    OBVIOUS
  <2>2. c = best_chain[tip]
    BY <2>1 DEF c, Current
  <2> QED BY <1>1, <1>3, <1>4, <1>5, <2>2
<1>7. c \in new
  BY <1>6 DEF Rooted, c
<1>8. PICK x \in new : x \in Line[p] /\ x \in Line[c]
  BY <1>7 DEF Rooted
<1>9. x \in Header /\ Depth[x] \in Nat /\ Depth[x] <= Depth[c]
  BY <1>1, <1>8, LineIsLower, LineRoot
<1>10. Depth[x] <= Depth[y]
  BY <1>1, <1>3, <1>9
<1>11. x \in Line[y]
  BY <1>1, <1>8, <1>10, LineIsOrdered
<1>12. x \in Line[best_chain[tip]]
  BY <1>3, <1>4, <1>11, LineOfLine
<1> QED BY <1>4, <1>8, <1>12

\* A transaction in which h has been connected to its parent, which is no leaf then.
Staged(u, h) == ConnectToParent(RemoveSibling(u, Parent[h]), Parent[h], h)

\* A search starts with the header that has come in.
LEMMA StagedIs ==
  ASSUME NEW u, Good(u), NEW h \in Header \ DOMAIN u.headers, h # Genesis,
         Parent[h] \in Known(u)
  PROVE  LET v == Staged(u, h)
         IN /\ Reached(u, h, v, Known(v)) /\ Known(v) = Known(u) \cup {h}
            /\ v.headers[h] = Data(h) /\ v.disconnected = u.disconnected
<1> DEFINE r == RemoveSibling(u, Parent[h])
           v == Staged(u, h)
           hs == Put(u.headers, h, Data(h))
<1>1. Consistent(u.headers, u.disconnected) /\ IsWork(u) /\ u.checkpoint = NoCheckpoint
  BY DEF Good
<1>2. /\ IsWork(r) /\ SameBest(r, u) /\ r.headers = u.headers
      /\ r.disconnected = u.disconnected /\ r.siblings = u.siblings \ {Parent[h]}
  BY <1>1, RemoveSiblingIs
<1> HIDE DEF r
<1>3. r.headers[Parent[h]] = Data(Parent[h]) /\ r.checkpoint = NoCheckpoint
  BY <1>1, <1>2 DEF Consistent, Known, SameBest
<1>4. /\ IsWork(v) /\ SameBest(v, r) /\ v.headers = hs
      /\ v.siblings = r.siblings /\ v.disconnected = r.disconnected
  <2>1. v = ConnectToParent(r, Parent[h], h)
    BY DEF Staged, r
  <2> HIDE DEF v, hs
  <2>2. h \in Header \ {Genesis}
    OBVIOUS
  <2> QED BY <1>2, <1>3, <2>1, <2>2, ConnectToParentIs DEF hs
<1>5. h \in Header \ Attached(u.headers) /\ Parent[h] \in Attached(u.headers)
      /\ Known(u) = Attached(u.headers)
  BY DEF Attached, Known
<1>6. /\ Consistent(hs, u.disconnected \ {<<Parent[h], h>>})
      /\ Attached(hs) = Attached(u.headers) \cup {h} /\ DOMAIN hs = DOMAIN u.headers \cup {h}
  BY <1>1, <1>5, PutAttached
<1>7. hs[h] = Data(h)
  BY DEF Put
<1>8. <<Parent[h], h>> \notin u.disconnected
  BY <1>1, PairIs
<1>9. u.disconnected \ {<<Parent[h], h>>} = u.disconnected
  BY <1>8
<1>10. Known(v) = Known(u) \cup {h}
  BY <1>4, <1>5, <1>6 DEF Known
<1>11. Consistent(v.headers, v.disconnected)
  BY <1>2, <1>4, <1>6, <1>9
<1> HIDE DEF v, hs
<1>12. \A y \in Known(v) \ Known(u) : h \in Line[y]
  BY <1>10, LineEnd
<1>13. SameBest(v, u) /\ v.siblings = u.siblings \ {Parent[h]}
  BY <1>2, <1>4 DEF SameBest
<1>14. Reached(u, h, v, Known(v))
  BY <1>4, <1>6, <1>10, <1>11, <1>12, <1>13 DEF Reached
<1> QED BY <1>2, <1>4, <1>7, <1>10, <1>14 DEF v

\* The first candidate is the chain that the new header extends.
LEMMA InitializeCandidateIs ==
  ASSUME Table, NEW u, Good(u), NEW h \in Header \ DOMAIN u.headers, h # Genesis,
         Parent[h] \in Known(u), Rooted(u, Parent[h])
  PROVE  \E q : /\ InitializeCandidate(Staged(u, h), Parent[h], h) = Candidate(q)
                /\ Arm(u, Current(u), Known(u), q) /\ Last(q) = Parent[h]
<1> DEFINE c == Current(u)
           p == Parent[h]
           v == Staged(u, h)
           stop == {x \in DOMAIN v.headers : InBestChain(v, x)}
           b == Branch(p, stop)
           q == IF b = <<>> THEN <<p>> ELSE b
<1>1. /\ Reached(u, h, v, Known(v)) /\ Known(v) = Known(u) \cup {h}
      /\ v.headers[h] = Data(h)
  BY StagedIs
<1>2. Consistent(v.headers, v.disconnected) /\ SameBest(v, u)
  BY <1>1 DEF Reached
<1>3. InitializeCandidate(v, p, h) = [banned |-> Banned(v, h), chain |-> q]
  BY DEF InitializeCandidate
<1>4. Banned(v, h) = FALSE
  BY <1>1 DEF Banned, EffectiveState, Data
<1>5. InitializeCandidate(v, p, h) = Candidate(q)
  <2> HIDE DEF q, v, p
  <2> QED BY <1>3, <1>4 DEF Candidate
<1>6. ASSUME NEW x \in Known(u) PROVE x \in stop <=> Shown(u, x)
  <2>1. x \in DOMAIN v.headers /\ v.headers[x] = Data(x)
    BY <1>1, <1>2 DEF Consistent, Known, Attached
  <2>2. v.headers[x].height = Depth[x]
    BY <2>1 DEF Data
  <2>3. v.best = u.best
    BY <1>2 DEF SameBest
  <2> QED BY <2>1, <2>2, <2>3 DEF InBestChain, Shown, EffectiveBestBlock
<1>7. Known(u) \subseteq Header /\ p \in Header /\ Line[p] \subseteq Known(u)
      /\ c \in Header /\ BestIs(u, c)
  <2>1. Consistent(u.headers, u.disconnected) /\ c \in Known(u)
    BY DEF Good, Selected
  <2> QED BY <2>1, AttachedLines DEF Known, Good
<1>8. Genesis \in stop
  <2>1. Genesis \in Known(u)
    BY DEF Good, Consistent, Known
  <2>2. Shown(u, Genesis)
    BY <1>7, GenesisInLine DEF BestIs, Trunk
  <2> QED BY <1>6, <2>1, <2>2
<1> HIDE DEF stop, v
<1>9. ASSUME NEW y \in Line[p], y \in stop PROVE y \in Line[c]
  BY <1>6, <1>7, <1>9, ShownOnLine
<1>10. CASE p \in stop
  <2>1. p \in Line[p]
    BY <1>7, LineEnd
  <2>2. q = <<p>> /\ p \in Line[c]
    BY <1>7, <1>8, <1>9, <1>10, <2>1, BranchIs
  <2>3. Linked(q) /\ Last(q) = p /\ Len(q) = 1 /\ q[1] = p
    BY <1>7, <2>2, LinkedOne
  <2> HIDE DEF q
  <2>4. Arm(u, c, Known(u), q)
    BY <2>2, <2>3 DEF Arm, Joins
  <2> QED BY <1>5, <2>3, <2>4 DEF v
<1>11. CASE p \notin stop
  <2>1. /\ Linked(b) /\ Last(b) = p
        /\ \A k \in 1..Len(b) : b[k] \in Line[p] \ stop
        /\ b[1] \in Header \ {Genesis} /\ Parent[b[1]] \in Line[p] \cap stop
    BY <1>7, <1>8, <1>11, BranchIs
  <2> HIDE DEF b
  <2>2. q = b /\ b \in Seq(Header) /\ b # <<>>
    BY <2>1 DEF Linked
  <2>3. \A k \in 1..Len(b) : b[k] \in Known(u) /\ ~Shown(u, b[k])
    BY <1>6, <1>7, <2>1
  <2>4. Parent[b[1]] \in Line[c]
    BY <1>9, <2>1
  <2>5. 1 \in 1..Len(b) /\ \A k \in 2..Len(b) : k \in 1..Len(b)
    BY <2>2
  <2>6. Arm(u, c, Known(u), b)
    BY <2>1, <2>3, <2>4, <2>5 DEF Arm, Joins
  <2> QED BY <1>5, <2>1, <2>2, <2>6 DEF v
<1> QED BY <1>10, <1>11

\* The first call.
LEMMA SearchStarts ==
  ASSUME Table, NEW u, Good(u), NEW h \in Header \ DOMAIN u.headers, h # Genesis,
         Parent[h] \in Known(u), Rooted(u, Parent[h]), NEW cs,
         cs = <<InitializeCandidate(Staged(u, h), Parent[h], h)>>
  PROVE  LET s == Call(Search(Staged(u, h), cs, <<>>), h, 1)
         IN /\ Searching(u, h, s)
            /\ Left(s) = 2 * Cardinality(Staged(u, h).disconnected) + 1
<1> DEFINE c == Current(u)
           v == Staged(u, h)
           K == Known(u)
           L == Known(v)
<1>1. PICK q : /\ cs = <<Candidate(q)>> /\ Arm(u, c, K, q) /\ Last(q) = Parent[h]
  BY InitializeCandidateIs
<1> DEFINE b == Append(q, h)
           ds == [cs EXCEPT ![1] = Candidate(b)]
           ls == <<NewCall(h, 1, b)>> \o <<>>
           s == Call(Search(v, cs, <<>>), h, 1)
<1>2. q \in Seq(Header) /\ Linked(b) /\ Last(b) = h /\ b \in Seq(Header)
  <2>1. q \in Seq(Header) /\ Linked(q)
    BY <1>1 DEF Arm, Linked
  <2> QED BY <1>1, <2>1, LinkedAppend
<1> HIDE DEF b
<1>3. Candidate(q) \in CandidateType /\ Candidate(b) \in CandidateType
  BY <1>2 DEF Candidate, CandidateType
<1>4. NewCall(h, 1, b) \in CallType
  BY <1>3 DEF NewCall, CallType
<1>5. s = Search(v, ds, ls)
  <2>1. cs \in Seq(CandidateType) /\ 1 \in 1..Len(cs) /\ cs[1] = Candidate(q) /\ <<>> \in Seq(CallType)
    BY <1>1, <1>3
  <2>2. Call(Search(v, cs, <<>>), h, 1) =
           Search(v, [cs EXCEPT ![1] = Candidate(Append(q, h))],
                  <<NewCall(h, 1, Append(q, h))>> \o <<>>)
    <3> DEFINE ks == <<>>
    <3>1. q \in Seq(Header) /\ h \in Header
      BY <1>2
    <3>2. cs \in Seq(CandidateType) /\ 1 \in 1..Len(cs) /\ cs[1] = Candidate(q)
      BY <2>1
    <3> HIDE DEF v, s, ks
    <3>3. Call(Search(v, cs, ks), h, 1) =
             Search(v, [cs EXCEPT ![1] = Candidate(Append(q, h))],
                    <<NewCall(h, 1, Append(q, h))>> \o ks)
      BY ONLY <3>1, <3>2, CallIs
    <3> QED BY <3>3 DEF ks
  <2> QED BY <2>2 DEF b
<1>6. ds \in Seq(CandidateType) /\ Len(ds) = 1 /\ ds[1] = Candidate(b)
  BY <1>1, <1>3
<1>7. ls \in Seq(CallType) /\ Len(ls) = 1 /\ ls[1] = NewCall(h, 1, b)
  <2> DEFINE n == NewCall(h, 1, b)
  <2> HIDE DEF n
  <2>1. \A l \in {n} : <<l>> \o <<>> = <<l>>
    BY <1>4 DEF n
  <2>2. ls = <<n>> /\ n \in CallType
    BY <1>4, <2>1 DEF n
  <2> HIDE DEF ls
  <2>3. ls \in Seq(CallType) /\ Len(ls) = 1 /\ ls[1] = n
    BY <2>2
  <2> QED BY <2>3 DEF n
<1>8. /\ Reached(u, h, v, L) /\ L = K \cup {h} /\ v.headers[h] = Data(h)
      /\ DOMAIN v.headers = DOMAIN u.headers \cup {h}
  BY StagedIs DEF Reached
<1>9. s.update = v /\ s.candidates = ds /\ s.calls = ls
  <2> HIDE DEF s, ds, ls, v
  <2> QED BY <1>5 DEF Search
<1> HIDE DEF ds, ls, s
<1>10. K \in SUBSET Header /\ h \in Header \ K /\ Parent[h] \in K /\ ~Shown(u, h)
       /\ \A d \in K \ {Genesis} : Parent[d] \in K
  <2>1. Consistent(u.headers, u.disconnected) /\ K = Attached(u.headers)
    BY DEF Good, Known
  <2>2. K \in SUBSET Header /\ \A d \in K \ {Genesis} : Parent[d] \in K
    <3>1. Attached(u.headers) \in SUBSET Header
          /\ \A d \in Attached(u.headers) \ {Genesis} : Parent[d] \in Attached(u.headers)
      BY <2>1, AttachedLines DEF Consistent
    <3> HIDE DEF K
    <3> QED BY <2>1, <3>1
  <2>3. h \notin K
    BY <2>1 DEF Attached
  <2> QED BY <2>2, <2>3, NewIsNotShown
<1> HIDE DEF K, L, v
<1>11. Searched(u, c, L, ds)
  <2> DEFINE es == <<>>
  <2>1. Len(es) = 0 /\ \A i \in 1..Len(es) : FALSE
    OBVIOUS
  <2> HIDE DEF es
  <2>2. Searched(u, c, K, es)
    BY <2>1 DEF Searched, K
  <2>3. \A i \in 1..Len(ds) : i # 1 => FALSE
    BY <1>6
  <2>4. h \notin Known(u) /\ h # Genesis
    BY <1>10 DEF K
  <2>5. 1 \in 1..Len(ds) /\ ds[1] = Candidate(Append(q, h)) /\ Len(ds) \in Nat /\ Len(es) \in Nat
    BY <1>6, <2>1 DEF b
  <2>6. \A i \in 1..Len(ds) : i # 1 =>
           i \in 1..Len(es) /\ ds[i] = es[i] /\ End(es, i) # Parent[h]
    BY <2>3
  <2>7. \A i \in 1..Len(es) : i \in 1..Len(ds) /\ (i = 1 => End(es, i) = Parent[h])
    BY <2>1
  <2>8. Searched(u, c, K \cup {h}, ds)
    BY ONLY <1>1, <1>10, <2>2, <2>4, <2>5, <2>6, <2>7, SearchedMore
  <2> QED BY <1>8, <2>8
<1>12. Stack(u, c, L, ds, ls)
  <2> DEFINE n == NewCall(h, 1, b)
  <2>1. /\ n.parent = h /\ n.candidate = 1 /\ n.first = TRUE
        /\ n.original = Candidate(b) /\ Candidate(b).chain = b
    BY DEF NewCall, Candidate
  <2> HIDE DEF n
  <2>2. Arm(u, c, L, b)
    BY <1>6, <1>11, <2>1 DEF Searched
  <2>3. End(ds, 1) = h
    BY <1>2, <1>6, <2>1 DEF End
  <2>4. h \in L \ Known(u) /\ 1 \in 1..Len(ds)
    BY <1>6, <1>8, <1>10 DEF K
  <2>5. CallOk(u, c, L, ds, n)
    BY <1>2, <2>1, <2>2, <2>3, <2>4 DEF CallOk
  <2>6. ASSUME NEW m \in 1..Len(ls) PROVE m = 1
    BY <1>7
  <2> QED BY <1>7, <2>5, <2>6 DEF Stack, n
<1>13. Awaited(v.headers, L, ls)
  <2>1. ASSUME NEW d \in DOMAIN v.headers \ L, Parent[d] \in L
        PROVE  \E m \in 1..Len(ls) : ls[m].parent = Parent[d]
    <3>1. d \in DOMAIN u.headers \ K
      BY <1>8, <2>1
    <3>2. Parent[d] \notin K
      BY <3>1 DEF Good, Complete, K, Known
    <3>3. Parent[d] = h
      BY <1>8, <2>1, <3>2
    <3>4. 1 \in 1..Len(ls) /\ ls[1].parent = h
      BY <1>7 DEF NewCall
    <3> QED BY <3>3, <3>4
  <2> QED BY <2>1 DEF Awaited
<1>14. Searching(u, h, s)
  BY <1>5, <1>6, <1>7, <1>8, <1>9, <1>11, <1>12, <1>13 DEF Searching, L, c
<1>15. Left(s) = 2 * Cardinality(v.disconnected) + 1
  BY <1>7, <1>9 DEF Left
<1> QED BY <1>14, <1>15 DEF s, v

\* What ConnectChildren returns.
LEMMA ConnectChildrenIs ==
  ASSUME Table, NEW u, Good(u), NEW h \in Header \ DOMAIN u.headers, h # Genesis,
         Parent[h] \in Known(u), Rooted(u, Parent[h]), NEW cs,
         cs = <<InitializeCandidate(Staged(u, h), Parent[h], h)>>
  PROVE  LET r == ConnectChildren([update |-> Staged(u, h), candidates |-> cs,
                                   calls |-> <<>>], h, 1)
         IN Searching(u, h, r) /\ r.calls = <<>>
<1> DEFINE s0 == [update |-> Staged(u, h), candidates |-> cs, calls |-> <<>>]
           start == Call(s0, h, 1)
           pairs == s0.update.disconnected
           steps == 2 * Cardinality(pairs) + 1
           Next1(t) == IF t.calls = <<>> THEN t ELSE ConnectNext(t)
           Body(f) == [n \in 0..steps |-> IF n = 0 THEN start ELSE Next1(f[n - 1])]
           Upto(f, m) == \A n \in 0..m : f[n] = IF n = 0 THEN start ELSE Next1(f[n - 1])
           after == CHOOSE f : f = Body(f)
<1>1. ConnectChildren(s0, h, 1) = after[steps]
  BY DEF ConnectChildren
<1>2. steps \in Nat /\ Searching(u, h, start) /\ Left(start) = steps
  <2>1. s0 = Search(Staged(u, h), cs, <<>>) /\ pairs = Staged(u, h).disconnected
    BY DEF Search
  <2>2. Searching(u, h, start) /\ Left(start) = steps
    <3> HIDE DEF s0, pairs
    <3> QED BY <2>1, SearchStarts
  <2>3. IsFiniteSet(u.disconnected) /\ pairs = u.disconnected
    BY <2>1, StagedIs, PairIs DEF Good
  <2> HIDE DEF pairs
  <2>4. steps \in Nat
    BY <2>3, FS_CardinalityType
  <2> QED BY <2>2, <2>4
<1> HIDE DEF s0, start, pairs, steps, Next1
<1>3. \A m \in Nat : \E f : f = [n \in 0..m |-> f[n]] /\ Upto(f, m)
  <2> DEFINE G == {m \in Nat : \E f : f = [n \in 0..m |-> f[n]] /\ Upto(f, m)}
  <2>1. 0 \in G
    <3> DEFINE f == [n \in 0..0 |-> start]
    <3>1. f = [n \in 0..0 |-> f[n]] /\ Upto(f, 0)
      OBVIOUS
    <3> QED BY <3>1
  <2>2. ASSUME NEW m \in Nat, m \in G PROVE m + 1 \in G
    <3>1. PICK f : f = [n \in 0..m |-> f[n]] /\ Upto(f, m)
      BY <2>2
    <3> DEFINE g == [n \in 0..(m + 1) |-> IF n = m + 1 THEN Next1(f[m]) ELSE f[n]]
    <3>2. g = [n \in 0..(m + 1) |-> g[n]]
      OBVIOUS
    <3>3. Upto(g, m + 1)
      <4>1. ASSUME NEW n \in 0..(m + 1) PROVE g[n] = IF n = 0 THEN start ELSE Next1(g[n - 1])
        <5>1. CASE n = m + 1
          <6>1. n # 0 /\ n - 1 = m /\ m \in 0..(m + 1) /\ m # m + 1
            BY <5>1
          <6> QED BY <5>1, <6>1
        <5>2. CASE n # m + 1
          <6>1. n \in 0..m /\ g[n] = f[n] /\ (n # 0 => n - 1 \in 0..(m + 1) /\ n - 1 # m + 1)
            BY <5>2
          <6> QED BY <3>1, <6>1
        <5> QED BY <5>1, <5>2
      <4> QED BY <4>1
    <3> HIDE DEF g, Upto
    <3> QED BY <3>2, <3>3
  <2> HIDE DEF G
  <2>3. Nat \subseteq G
    BY <2>1, <2>2, Induction
  <2> QED BY <2>3 DEF G
<1>4. after = Body(after)
  <2>1. PICK f : f = [n \in 0..steps |-> f[n]] /\ Upto(f, steps)
    BY <1>2, <1>3
  <2>2. f = Body(f)
    BY <2>1
  <2> HIDE DEF Body
  <2> QED BY <2>2, Zenon
<1> HIDE DEF after
<1>5. after[0] = start /\ \A n \in 1..steps : after[n] = Next1(after[n - 1])
  BY <1>2, <1>4
<1> DEFINE Is(n) == /\ Searching(u, h, after[n])
                    /\ after[n].calls = <<>> \/ (Left(after[n]) \in Nat /\ Left(after[n]) + n = steps)
           G == {n \in Nat : n <= steps => Is(n)}
<1>6. 0 \in G
  BY <1>2, <1>5
<1>7. ASSUME NEW n \in Nat, n \in G PROVE n + 1 \in G
  <2>1. SUFFICES ASSUME n + 1 <= steps PROVE Is(n + 1)
    OBVIOUS
  <2>2. n + 1 \in 1..steps /\ (n + 1) - 1 = n
    BY <1>2, <2>1
  <2>3. after[n + 1] = Next1(after[n])
    BY <1>5, <2>2
  <2>4. Is(n)
    BY <1>2, <1>7, <2>1
  <2>5. CASE after[n].calls = <<>>
    BY <2>3, <2>4, <2>5 DEF Next1
  <2>6. CASE after[n].calls # <<>>
    <3> DEFINE t == after[n]
    <3>1. Searching(u, h, t) /\ Left(t) \in Nat /\ Left(t) + n = steps /\ t.calls # <<>>
      BY <2>4, <2>6
    <3>2. after[n + 1] = ConnectNext(t)
      BY <2>3, <2>6 DEF Next1
    <3> HIDE DEF t
    <3>3. Searching(u, h, ConnectNext(t)) /\ Left(ConnectNext(t)) \in Nat
          /\ Left(t) = Left(ConnectNext(t)) + 1
      BY <3>1, SearchStep
    <3>4. Left(ConnectNext(t)) + (n + 1) = steps
      BY <1>2, <3>1, <3>3
    <3> QED BY <3>2, <3>3, <3>4
  <2> QED BY <2>5, <2>6
<1>8. Is(steps)
  <2>1. Nat \subseteq G
    <3> HIDE DEF G
    <3> QED BY <1>6, <1>7, Induction
  <2>2. steps \in G
    BY <1>2, <2>1
  <2> QED BY <1>2, <2>2
<1>9. after[steps].calls = <<>>
  <2> DEFINE t == after[steps]
  <2>1. SUFFICES ASSUME t.calls # <<>> PROVE FALSE
    OBVIOUS
  <2>2. Searching(u, h, t) /\ Left(t) \in Nat /\ Left(t) + steps = steps
    BY <1>8, <2>1
  <2> HIDE DEF t
  <2>3. Left(t) = Left(ConnectNext(t)) + 1 /\ Left(ConnectNext(t)) \in Nat
    BY <2>1, <2>2, SearchStep
  <2> QED BY <1>2, <2>2, <2>3
<1> QED BY <1>1, <1>8, <1>9 DEF s0

-----------------------------------------------------------------------------
(***************************************************************************)
(* The choice between candidates.                                          *)
(***************************************************************************)
\* The first of the best, among some of finitely many.
LEMMA FirstOfBest ==
  ASSUME NEW n \in Nat, NEW W, \A i \in 1..n : W[i] \in Nat, NEW S \in SUBSET (1..n), S # {}
  PROVE  \E i \in S : \A j \in S : W[j] < W[i] \/ (W[j] = W[i] /\ i <= j)
<1> DEFINE Is(i, T) == \A j \in T : W[j] < W[i] \/ (W[j] = W[i] /\ i <= j)
           G == {m \in Nat : m <= n => \A T \in SUBSET (1..m) : T # {} => \E i \in T : Is(i, T)}
<1>1. 0 \in G
  BY 1..0 = {}
<1>2. ASSUME NEW m \in Nat, m \in G PROVE m + 1 \in G
  <2>1. SUFFICES ASSUME m + 1 <= n, NEW T \in SUBSET (1..(m + 1)), T # {}
                 PROVE  \E i \in T : Is(i, T)
    BY DEF G
  <2> DEFINE R == T \ {m + 1}
  <2>2. R \in SUBSET (1..m)
    OBVIOUS
  <2>3. CASE m + 1 \notin T
    <3>1. T = R
      BY <2>3
    <3> QED BY <1>2, <2>1, <2>2, <3>1
  <2>4. CASE m + 1 \in T /\ R = {}
    <3>1. T = {m + 1}
      BY <2>4
    <3> QED BY <3>1
  <2>5. CASE m + 1 \in T /\ R # {}
    <3>1. PICK i \in R : Is(i, R)
      <4> HIDE DEF R
      <4> QED BY <1>2, <2>1, <2>2, <2>5
    <3>2. i \in 1..m /\ i \in T /\ W[i] \in Nat /\ W[m + 1] \in Nat
      BY <2>1, <2>2
    <3>3. CASE W[i] < W[m + 1]
      <4>1. ASSUME NEW j \in T
            PROVE  W[j] < W[m + 1] \/ (W[j] = W[m + 1] /\ m + 1 <= j)
        <5>1. CASE j = m + 1
          BY <5>1
        <5>2. CASE j # m + 1
          <6>1. j \in R /\ W[j] \in Nat
            BY <2>1, <5>2
          <6> QED BY <3>1, <3>2, <3>3, <6>1
        <5> QED BY <5>1, <5>2
      <4> QED BY <2>5, <4>1
    <3>4. CASE ~(W[i] < W[m + 1])
      <4>1. ASSUME NEW j \in T PROVE W[j] < W[i] \/ (W[j] = W[i] /\ i <= j)
        <5>1. CASE j = m + 1
          BY <3>2, <3>4, <5>1
        <5>2. CASE j # m + 1
          BY <3>1, <5>2
        <5> QED BY <5>1, <5>2
      <4> QED BY <3>2, <4>1
    <3> QED BY <3>3, <3>4
  <2> QED BY <2>3, <2>4, <2>5
<1> HIDE DEF G
<1>3. Nat \subseteq G
  BY <1>1, <1>2, Induction
<1> QED BY <1>3 DEF G

\* The winner is the candidate with the most work, if that is more than before.
LEMMA WinnerIs ==
  ASSUME NEW w, NEW c, NEW cs, Len(cs) \in Nat, DOMAIN cs = 1..Len(cs),
         c \in Header, w.headers[c].work = Weight[c],
         \A i \in 1..Len(cs) :
           /\ ~cs[i].banned /\ End(cs, i) \in Header
           /\ w.headers[End(cs, i)].work = Weight[End(cs, i)]
  PROVE  LET n == Winner(w, c, cs)
         IN \/ n = 0 /\ \A i \in 1..Len(cs) : Weight[End(cs, i)] <= Weight[c]
            \/ /\ n \in 1..Len(cs) /\ Weight[c] < Weight[End(cs, n)]
               /\ \A i \in 1..Len(cs) : Weight[End(cs, i)] <= Weight[End(cs, n)]
<1> DEFINE Wt(i) == w.headers[Last(cs[i].chain)].work
           W == [i \in 1..Len(cs) |-> Wt(i)]
           S == {i \in DOMAIN cs : /\ ~cs[i].banned
                                   /\ w.headers[Last(cs[i].chain)].work > w.headers[c].work}
           Is(i) == \A j \in S : Wt(j) < Wt(i) \/ (Wt(j) = Wt(i) /\ i <= j)
           n == Winner(w, c, cs)
<1>1. \A i \in 1..Len(cs) : Wt(i) = Weight[End(cs, i)] /\ Weight[End(cs, i)] \in Nat
  BY WeightIs DEF End
<1>2. n = IF S = {} THEN 0 ELSE CHOOSE i \in S : Is(i)
  BY DEF Winner, HeaviestOf
<1>3. S = {i \in 1..Len(cs) : Weight[c] < Weight[End(cs, i)]}
  <2>1. ASSUME NEW i \in 1..Len(cs)
        PROVE  i \in S <=> Weight[c] < Weight[End(cs, i)]
    <3>1. Weight[c] \in Nat
      BY WeightIs
    <3> QED BY <1>1, <3>1
  <2> QED BY <2>1
<1> HIDE DEF S, n, Wt
<1>4. CASE S = {}
  <2>1. ASSUME NEW i \in 1..Len(cs) PROVE Weight[End(cs, i)] <= Weight[c]
    <3>1. Weight[c] \in Nat /\ Weight[End(cs, i)] \in Nat /\ i \notin S
      BY <1>1, <1>4, WeightIs
    <3> QED BY <1>3, <3>1
  <2> QED BY <1>2, <1>4, <2>1 DEF n
<1>5. CASE S # {}
  <2>1. \A i \in 1..Len(cs) : W[i] \in Nat /\ W[i] = Wt(i)
    BY <1>1
  <2>2. S \in SUBSET (1..Len(cs))
    BY <1>3
  <2> HIDE DEF W
  <2>3. \E i \in S : \A j \in S : W[j] < W[i] \/ (W[j] = W[i] /\ i <= j)
    BY <1>5, <2>1, <2>2, FirstOfBest
  <2>4. \E i \in S : Is(i)
    BY <2>1, <2>2, <2>3
  <2> HIDE DEF Is
  <2>5. n \in S /\ Is(n)
    BY <1>2, <1>5, <2>4
  <2>6. ASSUME NEW i \in 1..Len(cs) PROVE Weight[End(cs, i)] <= Weight[End(cs, n)]
    <3>1. Weight[c] \in Nat /\ Weight[End(cs, i)] \in Nat /\ Weight[End(cs, n)] \in Nat
          /\ Wt(i) = Weight[End(cs, i)] /\ Wt(n) = Weight[End(cs, n)]
          /\ Weight[c] < Weight[End(cs, n)]
      BY <1>1, <1>3, <2>2, <2>5, WeightIs
    <3>2. CASE i \in S
      BY <2>5, <3>1, <3>2 DEF Is
    <3>3. CASE i \notin S
      <4>1. ~(Weight[c] < Weight[End(cs, i)])
        BY <1>3, <3>3
      <4> QED BY <3>1, <4>1
    <3> QED BY <3>2, <3>3
  <2>7. n \in 1..Len(cs) /\ Weight[c] < Weight[End(cs, n)]
    BY <1>3, <2>5
  <2> QED BY <2>6, <2>7 DEF n
<1> QED BY <1>4, <1>5

\* What of an arm is not in the best chain.
LEMMA FreshIs ==
  ASSUME Table, NEW u, NEW c, BestIs(u, c), NEW w, SameBest(w, u),
         Consistent(w.headers, w.disconnected), c \in Known(w), Line[c] \subseteq Known(u),
         NEW q, Arm(u, c, Known(w), q), Last(q) \notin Known(u)
  PROVE  LET f == Fresh(w, c, q)
         IN /\ Linked(f) /\ Last(f) = Last(q)
            /\ \A k \in 1..Len(f) : f[k] \in Known(w) /\ ~Shown(u, f[k])
            /\ f[1] \in Header \ {Genesis} /\ Parent[f[1]] \in Line[c]
<1> DEFINE IsNew(h) == \/ w.headers[h].height > w.headers[c].height
                       \/ ~InBestChain(w, h)
           Is(k) == IsNew(q[k]) /\ \A j \in 1..(k - 1) : ~IsNew(q[j])
           first == CHOOSE k \in DOMAIN q : Is(k)
           f == Fresh(w, c, q)
<1>1. Linked(q) /\ q \in Seq(Header) /\ Len(q) \in Nat \ {0} /\ DOMAIN q = 1..Len(q)
      /\ Joins(u, c, q) /\ \A k \in 1..Len(q) : q[k] \in Known(w) /\ q[k] \in Header
  BY DEF Arm, Linked
<1>2. ASSUME NEW h \in Known(w)
      PROVE  w.headers[h].height = Depth[h] /\ (InBestChain(w, h) <=> Shown(u, h))
  <2>1. w.headers[h] = Data(h)
    BY DEF Consistent, Known
  <2>2. w.headers[h].height = Depth[h]
    BY <2>1 DEF Data
  <2>3. w.best = u.best
    BY DEF SameBest
  <2> QED BY <2>2, <2>3 DEF InBestChain, Shown, EffectiveBestBlock
<1>3. f = SubSeq(q, first, Len(q))
  BY DEF Fresh
<1>4. c \in Header /\ \A h \in Line[c] : Shown(u, h) /\ h \in Header /\ Depth[h] <= Depth[c]
  BY LineIsLower DEF BestIs, Trunk
<1> HIDE DEF f, IsNew
<1>5. CASE q[1] \in Line[c]
  <2>1. ~IsNew(q[1])
    <3>1. q[1] \in Known(w) /\ Depth[q[1]] <= Depth[c] /\ Shown(u, q[1])
          /\ Depth[c] \in Nat /\ Depth[q[1]] \in Nat
      BY <1>1, <1>4, <1>5, DepthIs
    <3> QED BY <1>2, <3>1 DEF IsNew
  <2>2. Len(q) # 1
    <3>1. SUFFICES ASSUME Len(q) = 1 PROVE FALSE
      OBVIOUS
    <3>2. Last(q) = q[1]
      BY <1>1, <3>1 DEF Last
    <3> QED BY <1>5, <3>2
  <2>3. 2 \in 1..Len(q) /\ 2 \in 2..Len(q)
    BY <1>1, <2>2
  <2>4. IsNew(q[2])
    BY <1>1, <1>2, <2>3 DEF Joins, IsNew
  <2>5. Is(2) /\ \A k \in 1..Len(q) : Is(k) => k = 2
    <3>1. \A j \in 1..(2 - 1) : j = 1
      OBVIOUS
    <3>2. ASSUME NEW k \in 1..Len(q), Is(k), k # 2 PROVE FALSE
      <4>1. k # 1
        BY <2>1, <3>2
      <4>2. 2 \in 1..(k - 1)
        BY <3>2, <4>1
      <4> QED BY <2>4, <3>2, <4>2
    <3> QED BY <2>1, <2>4, <3>1, <3>2
  <2> HIDE DEF Is
  <2>6. first = 2
    BY <1>1, <2>3, <2>5
  <2>7. f = SubSeq(q, 2, Len(q))
    BY <1>3, <2>6
  <2>8. /\ f \in Seq(Header) /\ Len(f) = Len(q) - 1 /\ f # <<>>
        /\ \A k \in 1..Len(f) : f[k] = q[k + 1] /\ k + 1 \in 2..Len(q)
    <3>1. Len(q) \in Nat /\ Len(q) >= 2
      BY <1>1, <2>2
    <3>2. \A k \in 2..Len(q) : q[k] \in Header
      BY <1>1
    <3>3. f \in Seq(Header) /\ Len(f) = Len(q) - 1
      BY <1>1, <2>7, <3>1, <3>2
    <3>4. ASSUME NEW k \in 1..Len(f) PROVE f[k] = q[k + 1] /\ k + 1 \in 2..Len(q)
      <4>1. k \in 1..(Len(q) - 1) /\ k + 1 \in 2..Len(q)
        BY <3>1, <3>3
      <4>2. f[k] = q[2 + k - 1] /\ 2 + k - 1 = k + 1
        BY <1>1, <2>7, <3>1, <4>1
      <4> QED BY <4>1, <4>2
    <3>5. f # <<>>
      BY <3>1, <3>3
    <3> QED BY <3>3, <3>4, <3>5
  <2>9. Linked(f)
    <3>1. ASSUME NEW k \in 2..Len(f) PROVE f[k] # Genesis /\ Parent[f[k]] = f[k - 1]
      <4>1. k - 1 \in 1..Len(f) /\ k \in 1..Len(f) /\ (k - 1) + 1 = k /\ (k + 1) - 1 = k
            /\ k + 1 \in 2..Len(q)
        BY <2>8
      <4>2. f[k] = q[k + 1] /\ f[k - 1] = q[k]
        BY <2>8, <4>1
      <4>3. q[k + 1] # Genesis /\ Parent[q[k + 1]] = q[(k + 1) - 1]
        BY <1>1, <4>1 DEF Linked
      <4> QED BY <4>1, <4>2, <4>3
    <3> QED BY <2>8, <3>1 DEF Linked
  <2>10. Last(f) = Last(q)
    <3>1. Len(f) \in 1..Len(f) /\ Len(f) + 1 = Len(q)
      BY <1>1, <2>2, <2>8
    <3> QED BY <2>8, <3>1 DEF Last
  <2>11. f[1] = q[2] /\ f[1] \in Header \ {Genesis} /\ Parent[f[1]] = q[1]
    <3>1. 1 \in 1..Len(f) /\ 1 + 1 = 2 /\ 2 - 1 = 1
      BY <1>1, <2>2, <2>8
    <3>2. q[2] # Genesis /\ Parent[q[2]] = q[2 - 1]
      BY <1>1, <2>3 DEF Linked
    <3> QED BY <1>1, <2>3, <2>8, <3>1, <3>2
  <2>12. \A k \in 1..Len(f) : f[k] \in Known(w) /\ ~Shown(u, f[k])
    BY <1>1, <2>8 DEF Joins
  <2> QED BY <1>5, <2>9, <2>10, <2>11, <2>12 DEF f
<1>6. CASE q[1] \notin Line[c]
  <2>1. q[1] # Genesis /\ Parent[q[1]] \in Line[c] /\ ~Shown(u, q[1])
    BY <1>1, <1>6 DEF Joins
  <2>2. 1 \in 1..Len(q) /\ q[1] \in Known(w)
    BY <1>1
  <2>3. IsNew(q[1])
    BY <1>2, <2>1, <2>2 DEF IsNew
  <2>4. Is(1) /\ \A k \in 1..Len(q) : Is(k) => k = 1
    <3>1. \A j \in 1..(1 - 1) : FALSE
      OBVIOUS
    <3>2. ASSUME NEW k \in 1..Len(q), Is(k), k # 1 PROVE FALSE
      <4>1. 1 \in 1..(k - 1)
        BY <3>2
      <4> QED BY <2>3, <3>2, <4>1
    <3> QED BY <2>3, <3>1, <3>2
  <2> HIDE DEF Is
  <2>5. first = 1
    BY <1>1, <2>2, <2>4
  <2>6. f = q
    <3>1. f = SubSeq(q, 1, Len(q))
      BY <1>3, <2>5
    <3> QED BY <1>1, <3>1
  <2>7. \A k \in 1..Len(q) : q[k] \in Known(w) /\ ~Shown(u, q[k])
    <3>1. ASSUME NEW k \in 1..Len(q) PROVE ~Shown(u, q[k])
      <4>1. k = 1 \/ k \in 2..Len(q)
        OBVIOUS
      <4> QED BY <1>1, <2>1, <4>1 DEF Joins
    <3> QED BY <1>1, <3>1
  <2>8. q[1] \in Header \ {Genesis}
    BY <1>1, <2>1, <2>2
  <2> QED BY <1>1, <2>1, <2>6, <2>7, <2>8 DEF f
<1> QED BY <1>5, <1>6

-----------------------------------------------------------------------------
(***************************************************************************)
(* The table of best headers.                                              *)
(***************************************************************************)
\* The best chain of u, as far as z.
LEMMA RollBack ==
  ASSUME Table, NEW u, IsWork(u), NEW c, Trunk(u, c), NEW z \in Line[c]
  PROVE  LET r == SetReorgParent(u, [height |-> Depth[z], hash |-> z])
         IN /\ IsWork(r) /\ Trunk(r, z) /\ r.reorg
            /\ r.headers = u.headers /\ r.siblings = u.siblings
            /\ r.disconnected = u.disconnected /\ r.checkpoint = u.checkpoint
<1> DEFINE p == [height |-> Depth[z], hash |-> z]
           r == SetReorgParent(u, p)
           best == [n \in {m \in DOMAIN u.best : m <= p.height} |-> u.best[n]]
           from == IF u.from = NoPosition \/ p.height <= u.from.height THEN p ELSE u.from
<1>1. r = [u EXCEPT !.best = best, !.reorg = TRUE, !.from = from]
  BY DEF SetReorgParent
<1>2. /\ IsWork(r) /\ r.best = best /\ r.reorg = TRUE /\ r.from = from
      /\ r.headers = u.headers /\ r.siblings = u.siblings
      /\ r.disconnected = u.disconnected /\ r.checkpoint = u.checkpoint
  <2>1. PICK hs, sib, dis, cp, b, g, f : u = Tx(hs, sib, dis, cp, b, g, f)
    BY DEF IsWork
  <2>2. PICK true : true = TRUE
    OBVIOUS
  <2> HIDE DEF best, from, r
  <2>3. r = Tx(hs, sib, dis, cp, best, true, from)
    BY <1>1, <2>1, <2>2 DEF Tx
  <2>4. /\ u.headers = hs /\ u.siblings = sib /\ u.disconnected = dis /\ u.checkpoint = cp
    BY <2>1, TxIs
  <2>5. /\ IsWork(r) /\ r.best = best /\ r.reorg = true /\ r.from = from
        /\ r.headers = hs /\ r.siblings = sib
        /\ r.disconnected = dis /\ r.checkpoint = cp
    BY <2>3, TxIs
  <2> QED BY <2>2, <2>4, <2>5
<1> HIDE DEF r
<1>3. /\ c \in Header /\ z \in Header /\ Depth[z] \in Nat /\ Depth[c] \in Nat
      /\ Depth[z] <= Depth[c] /\ Line[z] \subseteq Line[c] /\ tip \in Nat
      /\ z # None
  BY LineIsLower, LineOfLine, LineRoot, HeaderAssumption DEF Trunk, Table
<1>4. p.height = Depth[z] /\ p.hash = z
  OBVIOUS
<1> HIDE DEF p
<1>5. /\ Base(u) <= Depth[c] /\ DOMAIN u.best = (Base(u) + 1)..Depth[c]
      /\ \A h \in Line[c] : Shown(u, h)
      /\ u.reorg \in BOOLEAN
      /\ ~u.reorg => u.from = NoPosition
      /\ u.reorg => /\ u.from.height \in Nat /\ u.from.hash \in Header
                    /\ u.from.height <= tip => u.from.hash = best_chain[u.from.height]
  BY DEF Trunk
<1>6. u.reorg => u.from # NoPosition
  BY <1>5, HeaderAssumption DEF NoPosition
<1>7. Base(u) = (IF u.reorg /\ u.from.height < tip THEN u.from.height ELSE tip) /\ Base(u) \in Nat
  BY <1>3, <1>5 DEF Base
<1>8. Base(r) = (IF from.height < tip THEN from.height ELSE tip) /\ DOMAIN best = {m \in DOMAIN u.best : m <= Depth[z]}
  BY <1>2, <1>4 DEF Base
<1>9. from.height \in Nat /\ from.hash \in Header
  BY <1>3, <1>4, <1>5, <1>6
<1>10. /\ Base(r) \in Nat /\ Base(r) <= Depth[z]
       /\ \A m \in Nat : Base(r) < m /\ m <= Depth[z] => m \in DOMAIN best
       /\ \A m \in DOMAIN best : m \in Nat /\ Base(r) < m /\ m <= Depth[z]
  <2>1. CASE ~u.reorg
    BY <1>3, <1>4, <1>5, <1>6, <1>7, <1>8, <2>1
  <2>2. CASE u.reorg /\ Depth[z] <= u.from.height
    BY <1>3, <1>4, <1>5, <1>6, <1>7, <1>8, <2>2
  <2>3. CASE u.reorg /\ ~(Depth[z] <= u.from.height)
    BY <1>3, <1>4, <1>5, <1>6, <1>7, <1>8, <2>3
  <2> QED BY <1>5, <2>1, <2>2, <2>3
<1>11. DOMAIN r.best = (Base(r) + 1)..Depth[z]
  <2> HIDE DEF best
  <2>1. \A m : m \in DOMAIN best <=> m \in (Base(r) + 1)..Depth[z]
    BY <1>3, <1>10
  <2> QED BY <1>2, <2>1
<1>12. from.height <= tip => from.hash = best_chain[from.height]
  <2>1. CASE from = u.from /\ u.reorg
    BY <1>5, <2>1
  <2>2. CASE from = p
    <3>1. SUFFICES ASSUME Depth[z] <= tip PROVE z = best_chain[Depth[z]]
      BY <1>4, <2>2
    <3>2. EffectiveBestBlock(u, Depth[z]) = z
      BY <1>5 DEF Shown
    <3>3. CASE Depth[z] \in DOMAIN u.best
      <4>1. Base(u) < Depth[z]
        BY <1>3, <1>5, <1>7, <3>3
      <4>2. u.reorg /\ u.from.height < Depth[z] /\ u.from.height <= tip
        BY <1>3, <1>5, <1>7, <3>1, <4>1
      <4>3. ~(Depth[z] <= u.from.height)
        BY <1>3, <1>5, <4>2
      <4>4. from = u.from
        BY <1>4, <1>6, <4>2, <4>3
      <4>5. u.from = p
        BY <2>2, <4>4
      <4> QED BY <1>4, <4>3, <4>5, <1>3
    <3>4. CASE Depth[z] \notin DOMAIN u.best
      BY <1>3, <3>1, <3>2, <3>4 DEF EffectiveBestBlock
    <3> QED BY <3>3, <3>4
  <2> QED BY <1>5, <2>1, <2>2
<1>13. ASSUME NEW h \in Line[z] PROVE Shown(r, h)
  <2>1. h \in Header /\ Depth[h] \in Nat /\ Depth[h] <= Depth[z] /\ h \in Line[c]
    BY <1>3, LineIsLower, DepthIs
  <2>2. EffectiveBestBlock(u, Depth[h]) = h
    BY <1>5, <2>1 DEF Shown
  <2>3. Depth[h] \in DOMAIN best <=> Depth[h] \in DOMAIN u.best
    BY <1>8, <2>1
  <2>4. Depth[h] \in DOMAIN best => best[Depth[h]] = u.best[Depth[h]]
    OBVIOUS
  <2> HIDE DEF best
  <2>5. EffectiveBestBlock(r, Depth[h]) = EffectiveBestBlock(u, Depth[h])
    BY <1>2, <2>3, <2>4 DEF EffectiveBestBlock
  <2> QED BY <2>2, <2>5 DEF Shown
<1>14. Trunk(r, z)
  <2> HIDE DEF best, from
  <2> QED BY <1>2, <1>3, <1>9, <1>10, <1>11, <1>12, <1>13 DEF Trunk
<1> QED BY <1>2, <1>14 DEF r, p

\* The best chain of u, prolonged by q.
LEMMA Grow ==
  ASSUME Table, NEW u, IsWork(u), NEW z, Trunk(u, z), NEW q, Linked(q),
         q[1] \in Header \ {Genesis}, Parent[q[1]] = z, u.headers[q[1]].height = Depth[q[1]]
  PROVE  LET r == AddToBestChain(u, q)
         IN /\ IsWork(r) /\ BestIs(r, Last(q)) /\ DOMAIN r.best # {}
            /\ r.headers = u.headers /\ r.siblings = u.siblings \ Range(q)
            /\ r.disconnected = u.disconnected /\ r.checkpoint = u.checkpoint
            /\ r.reorg = u.reorg /\ r.from = u.from
            /\ Line[Last(q)] = Line[z] \cup Range(q)
<1> DEFINE e == Last(q)
           n == Depth[q[1]]
           new == [i \in n..(n + Len(q) - 1) |-> q[i - n + 1]]
           best == Merge(u.best, new)
           sib == u.siblings \ Range(q)
           r == AddToBestChain(u, q)
<1>1. q \in Seq(Header) /\ Len(q) \in Nat \ {0} /\ DOMAIN q = 1..Len(q) /\ Head(q) = q[1]
      /\ e = q[Len(q)]
  BY DEF Linked, Last
<1>2. r = [u EXCEPT !.siblings = @ \ Range(q), !.best = Merge(@, new)]
  BY <1>1 DEF AddToBestChain
<1>3. /\ IsWork(r) /\ r.best = best /\ r.siblings = sib /\ r.reorg = u.reorg /\ r.from = u.from
      /\ r.headers = u.headers /\ r.disconnected = u.disconnected /\ r.checkpoint = u.checkpoint
  <2>1. PICK hs, s, dis, cp, b, g, f : u = Tx(hs, s, dis, cp, b, g, f)
    BY DEF IsWork
  <2> HIDE DEF new, r, e
  <2>2. /\ u.headers = hs /\ u.siblings = s /\ u.disconnected = dis /\ u.checkpoint = cp
        /\ u.best = b /\ u.reorg = g /\ u.from = f
    BY <2>1, TxIs
  <2>3. ASSUME NEW x, NEW y, NEW t, t = [u EXCEPT !.siblings = x, !.best = y]
        PROVE  t = Tx(hs, x, dis, cp, y, g, f)
    BY <2>1, <2>3 DEF Tx
  <2>4. r = Tx(hs, sib, dis, cp, best, g, f)
    BY <1>2, <2>3
  <2> HIDE DEF sib, best
  <2>5. /\ IsWork(r) /\ r.best = best /\ r.reorg = g /\ r.from = f
        /\ r.headers = hs /\ r.siblings = sib
        /\ r.disconnected = dis /\ r.checkpoint = cp
    BY <2>4, TxIs
  <2> QED BY <2>2, <2>5
<1> HIDE DEF r
<1>4. /\ \A k \in 1..Len(q) : q[k] \in Header /\ Depth[q[k]] = n + k - 1
      /\ n \in Nat /\ n = Depth[z] + 1 /\ Depth[z] \in Nat /\ z \in Header
  <2>1. n \in Nat /\ n = Depth[z] + 1 /\ Depth[z] \in Nat /\ z \in Header
    BY LineStep DEF Trunk
  <2> QED BY <2>1, LinkedLine
<1>5. Depth[e] = n + Len(q) - 1 /\ e \in Header /\ n <= Depth[e] /\ Depth[e] \in Nat
  BY <1>1, <1>4
<1>6. DOMAIN new = n..Depth[e] /\ \A k \in 1..Len(q) : Depth[q[k]] \in DOMAIN new /\ new[Depth[q[k]]] = q[k]
  <2>1. ASSUME NEW k \in 1..Len(q) PROVE Depth[q[k]] \in DOMAIN new /\ new[Depth[q[k]]] = q[k]
    <3>1. n + k - 1 \in n..(n + Len(q) - 1) /\ (n + k - 1) - n + 1 = k
      BY <1>1, <1>4
    <3> QED BY <1>4, <3>1
  <2> QED BY <1>5, <2>1
<1> HIDE DEF new
<1>7. /\ Base(u) <= Depth[z] /\ DOMAIN u.best = (Base(u) + 1)..Depth[z]
      /\ \A h \in Line[z] : Shown(u, h)
      /\ Base(r) = Base(u) /\ Base(u) \in Nat
  BY <1>3 DEF Trunk, Base, Table
<1>8. DOMAIN r.best = (Base(r) + 1)..Depth[e]
  <2>1. \A m : m \in DOMAIN u.best \cup DOMAIN new <=> m \in (Base(r) + 1)..Depth[e]
    BY <1>4, <1>5, <1>6, <1>7
  <2>2. DOMAIN best = DOMAIN u.best \cup DOMAIN new
    BY DEF Merge
  <2> QED BY <1>3, <2>1, <2>2
<1>9. \A m \in DOMAIN u.best \cup DOMAIN new :
         r.best[m] = IF m \in DOMAIN u.best THEN u.best[m] ELSE new[m]
  BY <1>3 DEF Merge
<1>10. ASSUME NEW k \in 1..Len(q)
       PROVE  Depth[q[k]] \in DOMAIN r.best /\ r.best[Depth[q[k]]] = q[k]
  <2>1. Depth[q[k]] \notin DOMAIN u.best
    BY <1>4, <1>7
  <2>2. Depth[q[k]] \in DOMAIN new /\ new[Depth[q[k]]] = q[k]
    BY <1>6
  <2>3. DOMAIN r.best = DOMAIN u.best \cup DOMAIN new
    BY <1>3 DEF Merge
  <2> QED BY <1>9, <2>1, <2>2, <2>3
<1>11. Line[e] = Line[z] \cup Range(q)
  <2>1. Line[q[Len(q)]] = Line[q[1]] \cup {q[j] : j \in 1..Len(q)}
    <3>1. Len(q) \in 1..Len(q)
      BY <1>1
    <3> QED BY <3>1, LinkedLine
  <2>2. Line[q[1]] = Line[z] \cup {q[1]}
    BY LineStep
  <2>3. Range(q) = {q[j] : j \in 1..Len(q)}
    BY <1>1 DEF Range
  <2>4. q[1] \in Range(q)
    BY <1>1, <2>3
  <2> QED BY <1>1, <2>1, <2>2, <2>3, <2>4
<1>12. ASSUME NEW h \in Line[e] PROVE Shown(r, h)
  <2>1. CASE h \in Range(q)
    <3>1. PICK k \in 1..Len(q) : h = q[k]
      BY <1>1, <2>1 DEF Range
    <3> QED BY <1>10, <3>1 DEF Shown, EffectiveBestBlock
  <2>2. CASE h \in Line[z]
    <3>1. Depth[h] \in Nat /\ Depth[h] <= Depth[z] /\ EffectiveBestBlock(u, Depth[h]) = h
      BY <1>4, <1>7, <2>2, LineIsLower, LineRoot DEF Shown
    <3>2. Depth[h] \notin DOMAIN new
      BY <1>4, <1>5, <1>6, <3>1
    <3>3. DOMAIN r.best = DOMAIN u.best \cup DOMAIN new
      BY <1>3 DEF Merge
    <3>4. EffectiveBestBlock(r, Depth[h]) = EffectiveBestBlock(u, Depth[h])
      BY <1>9, <3>2, <3>3 DEF EffectiveBestBlock
    <3> QED BY <3>1, <3>4 DEF Shown
  <2> QED BY <1>11, <2>1, <2>2
<1>13. Base(r) <= Depth[e] /\ Depth[e] \in DOMAIN r.best /\ \A m \in DOMAIN r.best : m \in Nat /\ m <= Depth[e]
  BY <1>4, <1>5, <1>7, <1>8
<1>14. Current(r) = e
  <2> DEFINE Is(m) == m \in DOMAIN r.best /\ \A i \in DOMAIN r.best : i <= m
  <2>1. Is(Depth[e]) /\ \A m \in DOMAIN r.best : Is(m) => m = Depth[e]
    BY <1>5, <1>13
  <2> DEFINE top == CHOOSE m \in DOMAIN r.best : \A i \in DOMAIN r.best : i <= m
  <2>2. top = Depth[e]
    BY <1>13, <2>1
  <2>3. Current(r) = r.best[top]
    BY <1>13 DEF Current
  <2>4. r.best[Depth[e]] = e
    BY <1>1, <1>10
  <2> HIDE DEF top
  <2> QED BY <2>2, <2>3, <2>4
<1>15. Trunk(r, e)
  <2> HIDE DEF e
  <2> QED BY <1>3, <1>5, <1>8, <1>12, <1>13 DEF Trunk
<1>16. BestIs(r, e) /\ DOMAIN r.best # {}
  BY <1>13, <1>14, <1>15 DEF BestIs
<1> QED BY <1>3, <1>11, <1>16 DEF r

\* Other siblings change nothing else.
LEMMA SiblingsIs ==
  ASSUME NEW v, IsWork(v), NEW X, NEW r, r = [v EXCEPT !.siblings = X]
  PROVE  /\ IsWork(r) /\ SameBest(r, v) /\ r.siblings = X
         /\ r.headers = v.headers /\ r.disconnected = v.disconnected
<1>1. PICK a, b, c, e, f, g, k : v = Tx(a, b, c, e, f, g, k)
  BY DEF IsWork
<1>2. r = Tx(a, X, c, e, f, g, k)
  BY <1>1 DEF Tx
<1> QED BY <1>1, <1>2, TxIs DEF SameBest

\* A transaction that has the best chain of another one shows the same.
LEMMA SameTrunk ==
  ASSUME NEW v, NEW u, SameBest(v, u)
  PROVE  /\ \A h : Shown(v, h) <=> Shown(u, h)
         /\ \A n : EffectiveBestBlock(v, n) = EffectiveBestBlock(u, n)
         /\ \A c : Trunk(v, c) <=> Trunk(u, c)
         /\ Current(v) = Current(u)
         /\ \A c : BestIs(v, c) <=> BestIs(u, c)
<1>1. v.best = u.best /\ v.reorg = u.reorg /\ v.from = u.from
  BY DEF SameBest
<1>2. \A n : EffectiveBestBlock(v, n) = EffectiveBestBlock(u, n)
  BY <1>1 DEF EffectiveBestBlock
<1>3. \A h : Shown(v, h) <=> Shown(u, h)
  BY <1>2 DEF Shown
<1>4. Base(v) = Base(u)
  BY <1>1 DEF Base
<1>5. \A c : Trunk(v, c) <=> Trunk(u, c)
  BY <1>1, <1>3, <1>4 DEF Trunk
<1>6. Current(v) = Current(u)
  BY <1>1 DEF Current
<1> QED BY <1>2, <1>3, <1>5, <1>6 DEF BestIs

\* The new best chain has the header z in common with the old one, and the
\* headers f above it.
Grown(r, v, c, q, f) ==
  LET z == Parent[f[1]]
  IN /\ Linked(f) /\ Last(f) = Last(q)
     /\ \A k \in 1..Len(f) : f[k] \in Known(v) /\ ~Shown(v, f[k])
     /\ f[1] \in Header \ {Genesis} /\ z \in Line[c]
     /\ IsWork(r) /\ BestIs(r, Last(q)) /\ DOMAIN r.best # {}
     /\ r.headers = v.headers /\ r.disconnected = v.disconnected
     /\ r.checkpoint = v.checkpoint
     /\ Line[Last(q)] = Line[z] \cup Range(f)
     /\ r.siblings = (v.siblings \cup (IF z = c THEN {} ELSE {c})) \ Range(f)

\* extend_best_chain keeps what the winner has in common with the best chain.
LEMMA ExtendIs ==
  ASSUME Table, NEW u, NEW c, BestIs(u, c), NEW v, IsWork(v), SameBest(v, u),
         Consistent(v.headers, v.disconnected), c \in Known(v), Line[c] \subseteq Known(u),
         NEW q, Arm(u, c, Known(v), q), Last(q) \notin Known(u)
  PROVE  \E f : Grown(ExtendBestChain(v, c, q), v, c, q, f)
<1> DEFINE f == Fresh(v, c, q)
           z == Parent[f[1]]
           p == Fork(v, f)
           r == ExtendBestChain(v, c, q)
           base == IF Leaves(v, c, f) THEN AddSibling(SetReorgParent(v, p), c) ELSE v
<1>1. /\ Linked(f) /\ Last(f) = Last(q)
      /\ \A k \in 1..Len(f) : f[k] \in Known(v) /\ ~Shown(u, f[k])
      /\ f[1] \in Header \ {Genesis} /\ z \in Line[c]
  BY FreshIs
<1>2. r = AddToBestChain(base, f)
  BY DEF ExtendBestChain
<1> HIDE DEF f, r
<1>3. f \in Seq(Header) /\ Len(f) \in Nat \ {0} /\ Head(f) = f[1]
  BY <1>1 DEF Linked
<1>4. /\ c \in Header /\ Depth[c] \in Nat /\ z \in Header /\ Depth[z] \in Nat
      /\ Depth[z] <= Depth[c] /\ (z # c => Depth[z] < Depth[c]) /\ Depth[f[1]] = Depth[z] + 1
  <2>1. c \in Header
    BY DEF BestIs, Trunk
  <2> QED BY <1>1, <2>1, LineIsLower, LineStep, LineRoot
<1>5. v.headers[f[1]].height = Depth[f[1]] /\ v.headers[c].height = Depth[c]
  <2>1. f[1] \in Known(v)
    BY <1>1, <1>3
  <2>2. v.headers[f[1]] = Data(f[1]) /\ v.headers[c] = Data(c)
    BY <2>1 DEF Consistent, Known
  <2> QED BY <2>2 DEF Data
<1>6. Leaves(v, c, f) <=> z # c
  BY <1>3, <1>4, <1>5 DEF Leaves
<1>7. BestIs(v, c) /\ Trunk(v, c) /\ \A h : Shown(v, h) <=> Shown(u, h)
  BY SameTrunk DEF BestIs
<1>8. p = [height |-> Depth[z], hash |-> z]
  <2>1. Depth[f[1]] - 1 = Depth[z]
    BY <1>4
  <2>2. EffectiveBestBlock(v, Depth[z]) = z
    BY <1>1, <1>7 DEF Trunk, Shown
  <2>3. p = [height |-> Depth[f[1]] - 1, hash |-> EffectiveBestBlock(v, Depth[f[1]] - 1)]
    BY <1>3, <1>5 DEF Fork
  <2> QED BY <2>1, <2>2, <2>3
<1>9. /\ IsWork(base) /\ Trunk(base, z) /\ base.headers = v.headers
      /\ base.disconnected = v.disconnected /\ base.checkpoint = v.checkpoint
      /\ base.siblings = v.siblings \cup (IF z = c THEN {} ELSE {c})
  <2>1. CASE z = c
    BY <1>6, <1>7, <2>1
  <2>2. CASE z # c
    <3> DEFINE s == SetReorgParent(v, p)
    <3>1. /\ IsWork(s) /\ Trunk(s, z)
          /\ s.headers = v.headers /\ s.siblings = v.siblings
          /\ s.disconnected = v.disconnected /\ s.checkpoint = v.checkpoint
      BY <1>1, <1>7, <1>8, RollBack
    <3>2. base = [s EXCEPT !.siblings = s.siblings \cup {c}]
      BY <1>6, <2>2 DEF AddSibling
    <3> HIDE DEF s, base
    <3>3. /\ IsWork(base) /\ SameBest(base, s) /\ base.siblings = s.siblings \cup {c}
          /\ base.headers = s.headers /\ base.disconnected = s.disconnected
      BY <3>1, <3>2, SiblingsIs
    <3>4. Trunk(base, z)
      BY <3>1, <3>3, SameTrunk
    <3> QED BY <2>2, <3>1, <3>3, <3>4 DEF SameBest
  <2> QED BY <2>1, <2>2
<1> HIDE DEF base, p
<1>10. /\ IsWork(r) /\ BestIs(r, Last(f)) /\ DOMAIN r.best # {}
       /\ r.headers = base.headers /\ r.siblings = base.siblings \ Range(f)
       /\ r.disconnected = base.disconnected /\ r.checkpoint = base.checkpoint
       /\ Line[Last(f)] = Line[z] \cup Range(f)
  <2>1. base.headers[f[1]].height = Depth[f[1]]
    BY <1>5, <1>9
  <2> QED BY <1>1, <1>2, <1>9, <2>1, Grow
<1>11. Grown(r, v, c, q, f)
  BY <1>1, <1>7, <1>9, <1>10 DEF Grown
<1> QED BY <1>11 DEF r

\* The choice keeps what a transaction promises.
LEMMA ChooseCandidateIs ==
  ASSUME Table, NEW u, Good(u), NEW h \in Header, Parent[h] \in Known(u), h # Genesis,
         h \notin Known(u), NEW w, Reached(u, h, w, Known(w)), Complete(w.headers),
         NEW cs \in Seq(CandidateType), Searched(u, Current(u), Known(w), cs)
  PROVE  LET r == ChooseCandidate(w, Current(u), cs)
         IN /\ Good(r) /\ r.headers = w.headers
            /\ \/ DOMAIN r.best = DOMAIN u.best /\ Current(r) = Current(u)
               \/ /\ DOMAIN r.best # {} /\ Current(r) \in Known(r) \ Known(u)
                  /\ Weight[Current(u)] < Weight[Current(r)]
<1> DEFINE c == Current(u)
           K == Known(w)
           r == ChooseCandidate(w, c, cs)
           Ends(I) == {Last(cs[i].chain) : i \in I}
           Remember(v, I) == [v EXCEPT !.siblings = @ \cup Ends(I)]
           n == Winner(w, c, cs)
           N == Len(cs)
<1>1. /\ IsWork(w) /\ SameBest(w, u) /\ w.siblings = u.siblings \ {Parent[h]}
      /\ Consistent(w.headers, w.disconnected) /\ Known(u) \subseteq K /\ h \in K
      /\ \A y \in K \ Known(u) : h \in Line[y]
  BY DEF Reached
<1>2. /\ IsWork(u) /\ u.checkpoint = NoCheckpoint /\ Attached(headers) \subseteq Known(u)
      /\ BestIs(u, c) /\ c \in Known(u)
      /\ \A y \in Known(u) : Weight[y] <= Weight[c]
      /\ u.siblings \subseteq Known(u) \ Line[c]
      /\ \A y \in Known(u) :
           (\A d \in Known(u) \ {Genesis} : Parent[d] # y) => y \in u.siblings \cup {c}
  BY DEF Good, Selected
<1>3. /\ \A i \in 1..N :
           /\ cs[i] = Candidate(cs[i].chain) /\ Arm(u, c, K, cs[i].chain)
           /\ End(cs, i) \in K \ Known(u)
           /\ \A d \in K \ {Genesis} : Parent[d] # End(cs, i)
           /\ \A j \in 1..N : i # j => End(cs, i) # End(cs, j)
      /\ \A y \in K \ Known(u) : \E i \in 1..N : y \in Line[End(cs, i)]
  BY DEF Searched
<1>4. /\ K \subseteq Header /\ Line[c] \subseteq Known(u) /\ c \in Header
      /\ \A y \in K : Line[y] \subseteq K /\ w.headers[y].work = Weight[y] /\ Weight[y] \in Nat
  <2>1. K = Attached(w.headers) /\ Known(u) = Attached(u.headers)
    BY DEF Known
  <2>2. Attached(w.headers) \subseteq Header
        /\ \A y \in Attached(w.headers) : Line[y] \subseteq Attached(w.headers)
    BY <1>1, AttachedLines
  <2>3. \A y \in Attached(u.headers) : Line[y] \subseteq Attached(u.headers)
    BY AttachedLines DEF Good
  <2>4. ASSUME NEW y \in Attached(w.headers)
        PROVE  w.headers[y].work = Weight[y] /\ Weight[y] \in Nat
    <3>1. w.headers[y] = Data(y)
      BY <1>1 DEF Consistent
    <3> QED BY <2>2, <3>1, WeightIs DEF Data
  <2> HIDE DEF K
  <2> QED BY <1>1, <1>2, <2>1, <2>2, <2>3, <2>4
<1>5. N \in Nat /\ DOMAIN cs = 1..N
  OBVIOUS
<1>6. \A I : Ends(I) = {End(cs, i) : i \in I}
  BY DEF End
<1>7. \/ n = 0 /\ \A i \in 1..N : Weight[End(cs, i)] <= Weight[c]
      \/ /\ n \in 1..N /\ Weight[c] < Weight[End(cs, n)]
         /\ \A i \in 1..N : Weight[End(cs, i)] <= Weight[End(cs, n)]
  <2>1. \A i \in 1..N :
          /\ ~cs[i].banned /\ End(cs, i) \in Header
          /\ w.headers[End(cs, i)].work = Weight[End(cs, i)]
    <3>1. ASSUME NEW i \in 1..N PROVE ~cs[i].banned
      <4>1. cs[i] = Candidate(cs[i].chain)
        BY <1>3
      <4>2. Candidate(cs[i].chain).banned = FALSE
        BY DEF Candidate
      <4> QED BY <4>1, <4>2, Zenon
    <3> QED BY <1>3, <1>4, <3>1
  <2>2. w.headers[c].work = Weight[c]
    BY <1>1, <1>2, <1>4
  <2> HIDE DEF N, c
  <2> QED BY <1>4, <1>5, <2>1, <2>2, WinnerIs DEF N
<1>8. r = LET placed == IF n = 0 THEN w
                        ELSE ExtendBestChain(Remember(w, 1..(n - 1)), c, cs[n].chain)
          IN Remember(placed, (n + 1)..N)
  BY DEF ChooseCandidate
<1> HIDE DEF r, n, Ends, N, c
\* A header without child is as before, or the end of a candidate.
<1>9. ASSUME NEW y \in K, \A d \in K \ {Genesis} : Parent[d] # y
      PROVE  y \in (u.siblings \ {Parent[h]}) \cup {c} \cup {End(cs, i) : i \in 1..N}
  <2>1. y # Parent[h]
    BY <1>1, <1>9
  <2>2. CASE y \in Known(u)
    BY <1>1, <1>2, <1>9, <2>1, <2>2
  <2>3. CASE y \notin Known(u)
    <3>1. PICK i \in 1..N : y \in Line[End(cs, i)]
      BY <1>3, <2>3
    <3>2. End(cs, i) \in K /\ End(cs, i) \in Header
      BY <1>3, <1>4
    <3>3. CASE y = End(cs, i)
      BY <3>3
    <3>4. CASE y # End(cs, i)
      <4>1. PICK d \in Line[End(cs, i)] \ {Genesis} : Parent[d] = y
        BY <3>1, <3>2, <3>4, LineHasChild
      <4> QED BY <1>4, <1>9, <3>2, <4>1
    <3> QED BY <3>3, <3>4
  <2> QED BY <2>2, <2>3
\* No header has more work than the best one, or the best candidate.
<1>10. ASSUME NEW x \in Header, Weight[c] <= Weight[x],
              \A i \in 1..N : Weight[End(cs, i)] <= Weight[x], NEW y \in K
       PROVE  Weight[y] <= Weight[x]
  <2>1. Weight[x] \in Nat /\ Weight[c] \in Nat /\ Weight[y] \in Nat
    BY <1>4, WeightIs
  <2>2. CASE y \in Known(u)
    BY <1>2, <1>10, <2>1, <2>2
  <2>3. CASE y \notin Known(u)
    <3>1. PICK i \in 1..N : y \in Line[End(cs, i)]
      BY <1>3, <2>3
    <3>2. End(cs, i) \in Header /\ Weight[End(cs, i)] \in Nat
      BY <1>3, <1>4
    <3>3. Weight[y] <= Weight[End(cs, i)]
      BY <3>1, <3>2, LineIsLower
    <3> QED BY <1>10, <2>1, <3>2, <3>3
  <2> QED BY <2>2, <2>3
<1>11. ASSUME NEW e, IsWork(r), r.headers = w.headers, r.disconnected = w.disconnected,
              r.checkpoint = w.checkpoint, BestIs(r, e), Selected(r, e)
       PROVE  Good(r)
  <2>1. e = Current(r) /\ r.checkpoint = NoCheckpoint /\ Known(r) = K
    BY <1>1, <1>2, <1>11 DEF BestIs, SameBest, Known
  <2> QED BY <1>1, <1>2, <1>11, <2>1 DEF Good
<1>12. CASE n = 0
  <2> DEFINE X == w.siblings \cup Ends(1..N)
  <2>1. r = [w EXCEPT !.siblings = X]
    BY <1>8, <1>12
  <2>2. /\ IsWork(r) /\ SameBest(r, w) /\ r.siblings = X
        /\ r.headers = w.headers /\ r.disconnected = w.disconnected
    <3> HIDE DEF X
    <3> QED BY <1>1, <2>1, SiblingsIs
  <2>3. BestIs(r, c) /\ r.checkpoint = w.checkpoint /\ r.best = u.best
    BY <1>1, <1>2, <2>2, SameTrunk DEF SameBest
  <2>4. Known(r) = K
    BY <2>2 DEF Known
  <2>5. c \in K
    BY <1>1, <1>2
  <2>6. \A y \in K : Weight[y] <= Weight[c]
    <3>1. \A i \in 1..N : Weight[End(cs, i)] <= Weight[c]
      BY <1>5, <1>7, <1>12
    <3>2. Weight[c] <= Weight[c]
      BY <1>4, <2>5
    <3> QED BY <1>4, <1>10, <3>1, <3>2
  <2>7. X \subseteq K \ Line[c]
    <3>1. ASSUME NEW i \in 1..N PROVE End(cs, i) \in K \ Line[c]
      BY <1>3, <1>4
    <3> QED BY <1>1, <1>2, <1>6, <3>1
  <2>8. \A y \in K : (\A d \in K \ {Genesis} : Parent[d] # y) => y \in X \cup {c}
    BY <1>1, <1>6, <1>9
  <2>9. Selected(r, c)
    BY <2>2, <2>4, <2>5, <2>6, <2>7, <2>8 DEF Selected
  <2>10. Good(r)
    BY <1>11, <2>2, <2>3, <2>9
  <2>11. Current(r) = c
    BY <2>3 DEF BestIs
  <2> QED BY <2>2, <2>3, <2>10, <2>11 DEF r, c
<1>13. CASE n \in 1..N
  <2> DEFINE X == w.siblings \cup Ends(1..(n - 1))
             v == [w EXCEPT !.siblings = X]
             q == cs[n].chain
             t == ExtendBestChain(v, c, q)
             e == End(cs, n)
  <2>1. r = [t EXCEPT !.siblings = t.siblings \cup Ends((n + 1)..N)]
    <3>1. n # 0
      BY <1>5, <1>13
    <3> QED BY <1>8, <3>1
  <2>2. /\ IsWork(v) /\ SameBest(v, w) /\ v.siblings = X
        /\ v.headers = w.headers /\ v.disconnected = w.disconnected
    <3> HIDE DEF X, v
    <3> QED BY <1>1, SiblingsIs DEF v
  <2> HIDE DEF v, t
  <2>3. Known(v) = K /\ SameBest(v, u) /\ v.checkpoint = w.checkpoint
    BY <1>1, <2>2 DEF Known, SameBest
  <2>4. Arm(u, c, K, q) /\ Last(q) = e /\ e \in K \ Known(u) /\ e \in Header
    BY <1>3, <1>4, <1>13 DEF End
  <2> HIDE DEF q, e, X
  <2>5. PICK f : Grown(t, v, c, q, f)
    <3>1. Consistent(v.headers, v.disconnected) /\ c \in Known(v)
      BY <1>1, <1>2, <2>2, <2>3
    <3> QED BY <1>2, <1>4, <2>2, <2>3, <2>4, <3>1, ExtendIs DEF t
  <2> DEFINE z == Parent[f[1]]
             Y == t.siblings \cup Ends((n + 1)..N)
  <2>6. /\ Linked(f) /\ Last(f) = e
        /\ \A k \in 1..Len(f) : f[k] \in K
        /\ f[1] \in Header \ {Genesis} /\ z \in Line[c]
        /\ IsWork(t) /\ BestIs(t, e) /\ DOMAIN t.best # {}
        /\ t.headers = w.headers /\ t.disconnected = w.disconnected
        /\ t.checkpoint = w.checkpoint
        /\ Line[e] = Line[z] \cup Range(f)
        /\ t.siblings = (X \cup (IF z = c THEN {} ELSE {c})) \ Range(f)
    BY <2>2, <2>3, <2>4, <2>5 DEF Grown
  <2>6a. \A k \in 1..Len(f) : ~Shown(u, f[k])
    BY <2>3, <2>5, SameTrunk DEF Grown
  <2>7. /\ IsWork(r) /\ SameBest(r, t) /\ r.siblings = Y
        /\ r.headers = t.headers /\ r.disconnected = t.disconnected
    <3>1. r = [t EXCEPT !.siblings = Y]
      BY <2>1
    <3>2. IsWork(t)
      BY <2>6
    <3> HIDE DEF Y
    <3>3. PICK hs, sib, dis, cp, b, g, o : t = Tx(hs, sib, dis, cp, b, g, o)
      BY <3>2 DEF IsWork
    <3>4. r = Tx(hs, Y, dis, cp, b, g, o)
      BY ONLY <3>1, <3>3 DEF Tx
    <3> QED BY ONLY <3>3, <3>4, TxIs DEF SameBest
  <2>8. BestIs(r, e) /\ DOMAIN r.best # {} /\ r.checkpoint = w.checkpoint
    BY <2>6, <2>7, SameTrunk DEF SameBest
  <2>9. Known(r) = K
    BY <2>6, <2>7 DEF Known
  <2>10. f \in Seq(Header) /\ Len(f) \in Nat \ {0} /\ Range(f) = {f[k] : k \in 1..Len(f)}
         /\ f[Len(f)] = e
    BY <2>6 DEF Linked, Range, Last
  <2>11. ASSUME NEW x \in Range(f) PROVE x = e \/ \E d \in K \ {Genesis} : Parent[d] = x
    <3>1. PICK k \in 1..Len(f) : x = f[k]
      BY <2>10
    <3>2. CASE k = Len(f)
      BY <2>10, <3>1, <3>2
    <3>3. CASE k # Len(f)
      <4>1. k + 1 \in 2..Len(f) /\ (k + 1) - 1 = k /\ k + 1 \in 1..Len(f)
        BY <2>10, <3>3
      <4>2. f[k + 1] # Genesis /\ Parent[f[k + 1]] = f[k]
        BY <2>6, <4>1 DEF Linked
      <4> QED BY <2>6, <3>1, <4>1, <4>2
    <3> QED BY <3>2, <3>3
  <2>12. c \notin Range(f)
    <3>1. Shown(u, c)
      BY <1>2, <1>4, LineEnd DEF BestIs, Trunk
    <3> QED BY <2>6a, <2>10, <3>1
  <2>13. Line[z] \subseteq Line[c] /\ (z # c => c \notin Line[z])
    <3>1. Line[z] \subseteq Line[c]
      BY <1>4, <2>6, LineOfLine
    <3>2. ASSUME z # c, c \in Line[z] PROVE FALSE
      <4>1. z \in Header /\ Depth[z] < Depth[c] /\ Depth[z] \in Nat /\ Depth[c] \in Nat
        BY <1>4, <2>6, <3>2, LineIsLower, LineRoot
      <4>2. Depth[c] <= Depth[z]
        BY <3>2, <4>1, LineIsLower
      <4> QED BY <4>1, <4>2
    <3> QED BY <3>1, <3>2
  <2>14. ASSUME NEW i \in 1..N, i # n PROVE End(cs, i) \in K \ Line[e]
    <3>1. End(cs, i) # e /\ End(cs, i) \in K \ Known(u)
      BY <1>3, <1>13, <2>14 DEF e
    <3>2. End(cs, i) \notin Range(f)
      BY <1>3, <2>11, <3>1
    <3> QED BY <1>4, <2>6, <2>13, <3>1, <3>2
  <2>15. Y \subseteq K \ Line[e]
    <3>1. ASSUME NEW x \in Y PROVE x \in K \ Line[e]
      <4>1. CASE x \in u.siblings /\ x \notin Range(f)
        BY <1>1, <1>2, <2>6, <2>13, <4>1
      <4>2. CASE \E i \in 1..N : i # n /\ x = End(cs, i)
        BY <2>14, <4>2
      <4>3. CASE x = c /\ z # c
        BY <1>1, <1>2, <2>6, <2>12, <2>13, <4>3
      <4>4. \/ x \in u.siblings /\ x \notin Range(f)
            \/ x = c /\ z # c
            \/ x \in Ends(1..(n - 1)) \/ x \in Ends((n + 1)..N)
        <5>1. x \in t.siblings \/ x \in Ends((n + 1)..N)
          BY <3>1
        <5>2. t.siblings = (X \cup (IF z = c THEN {} ELSE {c})) \ Range(f)
          BY <2>6
        <5>3. w.siblings \subseteq u.siblings
          BY <1>1
        <5>4. x \in t.siblings => x \notin Range(f) /\ (x \in X \/ (x = c /\ z # c))
          BY <5>2
        <5>5. x \in X => x \in u.siblings \/ x \in Ends(1..(n - 1))
          BY <5>3 DEF X
        <5> QED BY <5>1, <5>4, <5>5, Zenon
      <4>5. x \in Ends(1..(n - 1)) \/ x \in Ends((n + 1)..N) => \E i \in 1..N : i # n /\ x = End(cs, i)
        BY <1>5, <1>6, <1>13
      <4> QED BY <4>1, <4>2, <4>3, <4>4, <4>5
    <3> QED BY <3>1
  <2>16. ASSUME NEW y \in K, \A d \in K \ {Genesis} : Parent[d] # y
         PROVE  y \in Y \cup {e}
    <3>1. y \in Range(f) => y = e
      BY <2>11, <2>16
    <3>2. CASE y \in u.siblings \ {Parent[h]}
      BY <1>1, <2>6, <3>1, <3>2 DEF X
    <3>3. CASE y = c
      <4>1. z # c
        <5>1. SUFFICES ASSUME z = c PROVE FALSE
          OBVIOUS
        <5>2. f[1] \in K \ {Genesis} /\ Parent[f[1]] = c
          BY <2>6, <2>10, <5>1
        <5> QED BY <2>16, <3>3, <5>2
      <4> QED BY <2>6, <2>12, <3>3, <4>1
    <3>4. CASE \E i \in 1..N : y = End(cs, i)
      <4>1. PICK i \in 1..N : y = End(cs, i)
        BY <3>4
      <4>2. CASE i = n
        BY <4>1, <4>2 DEF e
      <4>3. CASE i \in 1..(n - 1)
        BY <1>6, <2>6, <3>1, <4>1, <4>3 DEF X
      <4>4. CASE i \in (n + 1)..N
        BY <1>6, <4>1, <4>4
      <4>5. i = n \/ i \in 1..(n - 1) \/ i \in (n + 1)..N
        BY <1>5, <1>13
      <4> QED BY <4>2, <4>3, <4>4, <4>5
    <3> QED BY <1>9, <2>16, <3>2, <3>3, <3>4
  <2>17. \A y \in K : Weight[y] <= Weight[e]
    <3>1. Weight[c] < Weight[e] /\ \A i \in 1..N : Weight[End(cs, i)] <= Weight[e]
      BY <1>5, <1>7, <1>13 DEF e
    <3>2. Weight[c] <= Weight[e]
      BY <1>4, <2>4, <3>1, WeightIs
    <3> QED BY <1>10, <2>4, <3>1, <3>2
  <2>18. Selected(r, e)
    BY <2>4, <2>7, <2>9, <2>15, <2>16, <2>17 DEF Selected
  <2>19. Good(r)
    BY <1>11, <2>6, <2>7, <2>8, <2>18
  <2>20. Current(r) = e
    BY <2>8 DEF BestIs
  <2>21. Weight[c] < Weight[e]
    BY <1>5, <1>7, <1>13 DEF e
  <2> QED BY <2>4, <2>6, <2>7, <2>8, <2>9, <2>19, <2>20, <2>21 DEF r, c
<1>14. n = 0 \/ n \in 1..N
  BY <1>7
<1> QED BY <1>12, <1>13, <1>14 DEF r

-----------------------------------------------------------------------------
(***************************************************************************)
(* One header, and a batch.                                                *)
(***************************************************************************)
\* A header that has to wait leaves the best chain as it is.
LEMMA DisconnectIsGood ==
  ASSUME NEW u, Good(u), NEW h \in Header \ DOMAIN u.headers, Parent[h] \notin Known(u)
  PROVE  LET r == DisconnectBlock(u, h)
         IN /\ Good(r) /\ SameBest(r, u) /\ Known(r) = Known(u)
            /\ DOMAIN r.headers = DOMAIN u.headers \cup {h}
<1> DEFINE r == DisconnectBlock(u, h)
<1>1. /\ IsWork(u) /\ u.checkpoint = NoCheckpoint
      /\ Consistent(u.headers, u.disconnected) /\ Complete(u.headers)
      /\ Attached(headers) \subseteq Known(u)
      /\ BestIs(u, Current(u)) /\ Selected(u, Current(u))
  BY DEF Good
<1>2. /\ IsWork(r) /\ SameBest(r, u)
      /\ r.headers = Put(u.headers, h, Waiting(h))
      /\ r.siblings = u.siblings
      /\ r.disconnected = u.disconnected \cup {<<Parent[h], h>>}
  BY <1>1, DisconnectBlockIs
<1> HIDE DEF r
<1>3. /\ Consistent(r.headers, r.disconnected)
      /\ Attached(r.headers) = Attached(u.headers)
      /\ DOMAIN r.headers = DOMAIN u.headers \cup {h}
  <2> DEFINE hs == u.headers
             ds == u.disconnected
             g == Put(hs, h, Waiting(h))
  <2>1. Parent[h] \notin Attached(hs) /\ Consistent(hs, ds) /\ h \in Header \ DOMAIN hs
    BY <1>1 DEF Known
  <2>2. r.headers = g /\ r.disconnected = ds \cup {<<Parent[h], h>>}
    BY <1>2
  <2>3. /\ Consistent(g, ds \cup {<<Parent[h], h>>})
        /\ Attached(g) = Attached(hs)
        /\ DOMAIN g = DOMAIN hs \cup {h}
    <3> HIDE DEF hs, ds
    <3> QED BY ONLY HeaderAssumption, <2>1, PutWaiting DEF g
  <2> QED BY <2>2, <2>3
<1>4. Complete(r.headers)
  BY <1>1, <1>3 DEF Complete, Known
<1>5. Known(r) = Known(u)
  BY <1>3 DEF Known
<1>6. Current(r) = Current(u) /\ BestIs(r, Current(u))
  BY <1>1, <1>2, SameTrunk
<1>7. Selected(r, Current(u))
  BY <1>1, <1>2, <1>5 DEF Selected
<1>8. Good(r)
  BY <1>1, <1>2, <1>3, <1>4, <1>5, <1>6, <1>7 DEF Good, SameBest
<1> QED BY <1>2, <1>3, <1>5, <1>8 DEF r

\* One header, whether it is known, waits for its parent, or is connected.
LEMMA AddHeaderIs ==
  ASSUME Table, NEW u, Good(u), NEW h \in Header \ {Genesis}, Rooted(u, Parent[h])
  PROVE  LET r == AddHeader(u, h)
         IN Good(r) /\ Rooted(r, h) /\ DOMAIN r.headers = DOMAIN u.headers \cup {h}
<1> DEFINE p == Parent[h]
           r == AddHeader(u, h)
           new == Known(u) \ Attached(headers)
<1>1. /\ Consistent(u.headers, u.disconnected) /\ Attached(headers) \subseteq Known(u)
      /\ Known(u) = Attached(u.headers) /\ Known(u) \subseteq DOMAIN u.headers
      /\ DOMAIN u.headers \subseteq Header
  BY DEF Good, Known, Attached, Consistent
<1>2. Line[h] = Line[p] \cup {h} /\ h \in Line[h] /\ p \in Header
  BY LineStep, LineEnd
<1>3. /\ new = {} \/ \E x \in new : x \in Line[p] /\ \A y \in new : x \in Line[y]
      /\ \/ DOMAIN u.best = {}
         \/ Current(u) \in new /\ Weight[best_chain[tip]] < Weight[Current(u)]
  BY DEF Rooted
<1>4. Rooted(u, h)
  BY <1>2, <1>3 DEF Rooted
<1>5. p \in DOMAIN u.headers =>
        (EffectiveState(u.headers[p]) = "disconnected" <=> p \notin Known(u))
  <2>1. CASE p \in Known(u)
    <3>1. u.headers[p] = Data(p)
      BY <1>1, <2>1 DEF Consistent
    <3>2. EffectiveState(Data(p)) = "normal"
      BY DEF EffectiveState, Data
    <3> QED BY <2>1, <3>1, <3>2
  <2>2. CASE p \in DOMAIN u.headers \ Known(u)
    <3>1. u.headers[p] = Waiting(p)
      BY <1>1, <2>2 DEF Consistent
    <3>2. EffectiveState(Waiting(p)) = "disconnected"
      BY DEF EffectiveState, Waiting
    <3> QED BY <2>2, <3>1, <3>2
  <2> QED BY <2>1, <2>2
<1>6. CASE h \in DOMAIN u.headers
  <2>1. r = u
    BY <1>6 DEF AddHeader
  <2>2. DOMAIN u.headers = DOMAIN u.headers \cup {h}
    BY <1>6
  <2> HIDE DEF r
  <2> QED BY <1>4, <2>1, <2>2 DEF r
<1>7. CASE h \notin DOMAIN u.headers /\ p \notin Known(u)
  <2>1. r = DisconnectBlock(u, h)
    BY <1>1, <1>5, <1>7 DEF AddHeader
  <2> HIDE DEF r
  <2>2. /\ Good(r) /\ SameBest(r, u) /\ Known(r) = Known(u)
        /\ DOMAIN r.headers = DOMAIN u.headers \cup {h}
    BY <1>7, <2>1, DisconnectIsGood
  <2>3. Current(r) = Current(u) /\ r.best = u.best
    BY <2>2, SameTrunk DEF SameBest
  <2>4. Rooted(r, h)
    BY <1>4, <2>2, <2>3 DEF Rooted
  <2> QED BY <2>2, <2>4 DEF r
<1>8. CASE h \notin DOMAIN u.headers /\ p \in Known(u)
  <2> DEFINE cs == <<InitializeCandidate(Staged(u, h), p, h)>>
             s0 == [update |-> Staged(u, h), candidates |-> cs, calls |-> <<>>]
             s == ConnectChildren(s0, h, 1)
             w == s.update
             ds == s.candidates
  <2>1. r = ChooseCandidate(w, Current(u), ds)
    BY <1>1, <1>5, <1>8 DEF AddHeader, Staged
  <2>2. Searching(u, h, s) /\ s.calls = <<>>
    <3> HIDE DEF cs
    <3>1. h \in Header \ DOMAIN u.headers /\ h # Genesis /\ Parent[h] \in Known(u)
          /\ cs = <<InitializeCandidate(Staged(u, h), Parent[h], h)>>
      BY <1>8 DEF cs
    <3> QED BY <3>1, ConnectChildrenIs
  <2> HIDE DEF s, s0, cs
  <2>3. /\ Reached(u, h, w, Known(w)) /\ ds \in Seq(CandidateType)
        /\ Searched(u, Current(u), Known(w), ds)
        /\ Awaited(w.headers, Known(w), s.calls)
    BY <2>2 DEF Searching
  <2>4. Complete(w.headers)
    <3>1. ASSUME NEW d \in DOMAIN w.headers \ Attached(w.headers), Parent[d] \in Attached(w.headers)
          PROVE  FALSE
      <4>1. PICK m \in 1..Len(s.calls) : s.calls[m].parent = Parent[d]
        BY <2>3, <3>1 DEF Awaited, Known
      <4>2. Len(s.calls) = 0
        BY <2>2
      <4> QED BY <4>1, <4>2
    <3> QED BY <3>1 DEF Complete
  <2> HIDE DEF w, ds, r
  <2>5. h \notin Known(u)
    BY <1>1, <1>8
  <2>6. /\ Good(r) /\ r.headers = w.headers
        /\ \/ DOMAIN r.best = DOMAIN u.best /\ Current(r) = Current(u)
           \/ /\ DOMAIN r.best # {} /\ Current(r) \in Known(r) \ Known(u)
              /\ Weight[Current(u)] < Weight[Current(r)]
    BY <1>8, <2>1, <2>3, <2>4, <2>5, ChooseCandidateIs
  <2>7. Known(r) = Known(w)
    BY <2>6 DEF Known
  <2>8. /\ DOMAIN r.headers = DOMAIN u.headers \cup {h} /\ Known(u) \cup {h} \subseteq Known(r)
        /\ \A y \in Known(r) \ Known(u) : h \in Line[y]
    BY <2>3, <2>6, <2>7 DEF Reached
  <2>9. Known(r) \subseteq Header
    BY <2>6 DEF Good, Known, Consistent, Attached
  <2> DEFINE later == Known(r) \ Attached(headers)
  <2>10. later = {} \/ \E x \in later : x \in Line[h] /\ \A y \in later : x \in Line[y]
    <3>1. CASE new = {}
      <4>1. h \in later /\ \A y \in later : h \in Line[y]
        BY <1>1, <1>8, <2>8, <3>1
      <4> QED BY <1>2, <4>1
    <3>2. CASE new # {}
      <4>1. PICK x \in new : x \in Line[p] /\ \A y \in new : x \in Line[y]
        BY <1>3, <3>2
      <4>2. x \in later /\ x \in Line[h]
        BY <1>2, <2>8, <4>1
      <4>3. ASSUME NEW y \in later PROVE x \in Line[y]
        <5>1. CASE y \in Known(u)
          BY <4>1, <5>1
        <5>2. CASE y \notin Known(u)
          <6>1. h \in Line[y] /\ y \in Header
            BY <2>8, <2>9, <5>2
          <6>2. Line[h] \subseteq Line[y]
            BY <6>1, LineOfLine
          <6> QED BY <4>2, <6>2
        <5> QED BY <5>1, <5>2
      <4> QED BY <4>2, <4>3
    <3> QED BY <3>1, <3>2
  <2>11. \/ DOMAIN r.best = {}
         \/ Current(r) \in later /\ Weight[best_chain[tip]] < Weight[Current(r)]
    <3>1. CASE DOMAIN r.best = DOMAIN u.best /\ Current(r) = Current(u)
      BY <1>3, <2>8, <3>1
    <3>2. CASE Current(r) \in Known(r) \ Known(u) /\ Weight[Current(u)] < Weight[Current(r)]
      <4>1. Current(r) \in later
        BY <1>1, <3>2
      <4>2. Weight[best_chain[tip]] <= Weight[Current(u)]
        <5>1. best_chain[tip] \in Known(u)
          BY <1>1 DEF Table
        <5> QED BY <5>1 DEF Good, Selected
      <4>3. Weight[best_chain[tip]] \in Nat /\ Weight[Current(u)] \in Nat /\ Weight[Current(r)] \in Nat
        <5>1. best_chain[tip] \in Header /\ Current(u) \in Header /\ Current(r) \in Header
          BY <1>1, <2>9, <3>2 DEF Good, Selected, Table
        <5> QED BY <5>1, WeightIs
      <4>4. Weight[best_chain[tip]] < Weight[Current(r)]
        BY <3>2, <4>2, <4>3
      <4> QED BY <4>1, <4>4
    <3> QED BY <2>6, <3>1, <3>2
  <2>12. Rooted(r, h)
    BY <2>10, <2>11 DEF Rooted
  <2> QED BY <2>6, <2>8, <2>12 DEF r
<1> QED BY <1>6, <1>7, <1>8

-----------------------------------------------------------------------------
(***************************************************************************)
(* The specification, without checkpoints.                                 *)
(***************************************************************************)
\* The table holds the best chain, the stored headers are consistent, no chain
\* is forgotten, none has more work than the best one, and the reorg published
\* last leads to a header that is known.
Inv ==
  /\ Table /\ Complete(headers)
  /\ Selected(Transaction, best_chain[tip])
  /\ checkpoint = NoCheckpoint /\ checkpointed \in 0..MaxCheckpoint
  /\ last_update = NoSignal
     \/ (last_update.type = "reorg" /\ last_update.tip.hash \in Attached(headers))
  /\ signal.type \in {"none", "tip", "reorg"}

\* An operation starts with what is stored.
LEMMA StartIs ==
  ASSUME Inv
  PROVE  /\ Good(Transaction) /\ Transaction.headers = headers
         /\ \A p : Rooted(Transaction, p)
<1> DEFINE none == [n \in {} |-> None]
           c == best_chain[tip]
<1>1. PICK no \in BOOLEAN : no = FALSE
  OBVIOUS
<1> DEFINE u == Tx(headers, siblings, disconnected, checkpoint, none, no, NoPosition)
<1>2. Transaction = u
  BY <1>1 DEF Transaction, Tx
<1>3. /\ IsWork(u) /\ u.headers = headers /\ u.siblings = siblings
      /\ u.disconnected = disconnected /\ u.checkpoint = checkpoint
      /\ u.best = none /\ u.reorg = no /\ u.from = NoPosition
  <2> HIDE DEF none
  <2> QED BY TxIs
<1>4. DOMAIN none = {}
  OBVIOUS
<1> HIDE DEF u, none
<1>5. /\ Table /\ Complete(headers) /\ Selected(u, c) /\ checkpoint = NoCheckpoint
  BY <1>2 DEF Inv
<1>6. c = Current(u) /\ Base(u) = tip
  BY <1>1, <1>3, <1>4 DEF Current, Base
<1>7. c \in Header /\ Depth[c] = tip /\ tip \in Nat
  BY <1>5 DEF Table, Consistent, Attached
<1>8. ASSUME NEW h \in Line[c] PROVE Shown(u, h)
  <2>1. Depth[h] \in Nat /\ Depth[h] <= tip
    BY <1>7, LineIsLower, LineRoot
  <2>2. Depth[h] \in DOMAIN best_chain /\ best_chain[Depth[h]] = h
    BY <1>5, <1>7, <2>1 DEF Table
  <2> QED BY <1>3, <1>4, <2>2 DEF Shown, EffectiveBestBlock
<1>9. Trunk(u, c)
  <2>1. DOMAIN u.best = (Base(u) + 1)..Depth[c]
    <3>1. (tip + 1)..tip = {}
      BY <1>7
    <3> QED BY <1>3, <1>4, <1>6, <1>7, <3>1
  <2> QED BY <1>1, <1>3, <1>6, <1>7, <1>8, <2>1 DEF Trunk
<1>10. Good(u)
  BY <1>3, <1>5, <1>6, <1>9 DEF Good, BestIs, Known, Table
<1>11. \A p : Rooted(u, p)
  BY <1>3, <1>4 DEF Rooted, Known
<1> QED BY <1>2, <1>3, <1>10, <1>11

\* Each header of a batch continues the one before it.
LEMMA BatchIs ==
  ASSUME Inv, NEW batch \in Batches
  PROVE  LET after[n \in 0..Len(batch)] ==
               IF n = 0 THEN Transaction ELSE AddHeader(after[n - 1], batch[n])
             u == after[Len(batch)]
         IN /\ Good(u) /\ Rooted(u, batch[Len(batch)])
            /\ DOMAIN headers \subseteq DOMAIN u.headers
<1> DEFINE steps == Len(batch)
           start == Transaction
           Body(f) == [n \in 0..steps |-> IF n = 0 THEN start ELSE AddHeader(f[n - 1], batch[n])]
           Upto(f, m) == \A n \in 0..m : f[n] = IF n = 0 THEN start ELSE AddHeader(f[n - 1], batch[n])
           after == CHOOSE f : f = Body(f)
<1>1. /\ steps \in Nat \ {0}
      /\ \A n \in 1..steps : batch[n] \in Header \ {Genesis}
      /\ \A n \in 2..steps : Parent[batch[n]] = batch[n - 1]
  <2>1. batch \in BoundedSeq(Header \ {Genesis}, MaxBatch) /\ batch # <<>>
        /\ \A i \in 2..Len(batch) : Parent[batch[i]] = batch[i - 1]
    BY DEF Batches
  <2>2. PICK m \in 0..MaxBatch : batch \in [1..m -> Header \ {Genesis}]
    BY <2>1 DEF BoundedSeq, SeqOf
  <2>3. batch \in Seq(Header \ {Genesis})
    BY <2>2, HeaderAssumption
  <2> QED BY <2>1, <2>3
<1> HIDE DEF steps, start
<1>2. \A m \in Nat : \E f : f = [n \in 0..m |-> f[n]] /\ Upto(f, m)
  <2> DEFINE G == {m \in Nat : \E f : f = [n \in 0..m |-> f[n]] /\ Upto(f, m)}
  <2>1. 0 \in G
    <3> DEFINE f == [n \in 0..0 |-> start]
    <3>1. f = [n \in 0..0 |-> f[n]] /\ Upto(f, 0)
      OBVIOUS
    <3> QED BY <3>1
  <2>2. ASSUME NEW m \in Nat, m \in G PROVE m + 1 \in G
    <3>1. PICK f : f = [n \in 0..m |-> f[n]] /\ Upto(f, m)
      BY <2>2
    <3> DEFINE g == [n \in 0..(m + 1) |-> IF n = m + 1 THEN AddHeader(f[m], batch[n]) ELSE f[n]]
    <3>2. g = [n \in 0..(m + 1) |-> g[n]]
      OBVIOUS
    <3>3. Upto(g, m + 1)
      <4>1. ASSUME NEW n \in 0..(m + 1)
            PROVE g[n] = IF n = 0 THEN start ELSE AddHeader(g[n - 1], batch[n])
        <5>1. CASE n = m + 1
          <6>1. n # 0 /\ n - 1 = m /\ m \in 0..(m + 1) /\ m # m + 1
            BY <5>1
          <6> QED BY <5>1, <6>1
        <5>2. CASE n # m + 1
          <6>1. n \in 0..m /\ g[n] = f[n] /\ (n # 0 => n - 1 \in 0..(m + 1) /\ n - 1 # m + 1)
            BY <5>2
          <6> QED BY <3>1, <6>1
        <5> QED BY <5>1, <5>2
      <4> QED BY <4>1
    <3> HIDE DEF g, Upto
    <3> QED BY <3>2, <3>3
  <2> HIDE DEF G
  <2>3. Nat \subseteq G
    BY <2>1, <2>2, Induction
  <2> QED BY <2>3 DEF G
<1>3. after = Body(after)
  <2>1. PICK f : f = [n \in 0..steps |-> f[n]] /\ Upto(f, steps)
    BY <1>1, <1>2
  <2>2. f = Body(f)
    BY <2>1
  <2> HIDE DEF Body
  <2> QED BY <2>2, Zenon
<1> HIDE DEF after
<1>4. after[0] = start /\ \A n \in 1..steps : after[n] = AddHeader(after[n - 1], batch[n])
  BY <1>1, <1>3
<1> DEFINE Is(n) == /\ Good(after[n])
                    /\ n < steps => Rooted(after[n], Parent[batch[n + 1]])
                    /\ n # 0 => Rooted(after[n], batch[n])
                    /\ DOMAIN headers \subseteq DOMAIN after[n].headers
           G == {n \in Nat : n <= steps => Is(n)}
<1>5. 0 \in G
  BY <1>4, StartIs DEF start
<1>6. ASSUME NEW n \in Nat, n \in G PROVE n + 1 \in G
  <2>1. SUFFICES ASSUME n + 1 <= steps PROVE Is(n + 1)
    OBVIOUS
  <2>2. n + 1 \in 1..steps /\ (n + 1) - 1 = n /\ n <= steps /\ n < steps
    BY <1>1, <2>1
  <2> DEFINE u == after[n]
             h == batch[n + 1]
             r == AddHeader(u, h)
  <2>3. after[n + 1] = r
    BY <1>4, <2>2
  <2>4. Good(u) /\ Rooted(u, Parent[h]) /\ h \in Header \ {Genesis}
        /\ DOMAIN headers \subseteq DOMAIN u.headers
    BY <1>1, <1>6, <2>2
  <2>5. Table
    BY DEF Inv
  <2>6. Good(r) /\ Rooted(r, h) /\ DOMAIN r.headers = DOMAIN u.headers \cup {h}
    <3> HIDE DEF u, h
    <3> QED BY ONLY HeaderAssumption, <2>4, <2>5, AddHeaderIs DEF r
  <2>7. n + 1 < steps => Parent[batch[(n + 1) + 1]] = h
    BY <1>1, <2>2
  <2> HIDE DEF r, u
  <2> QED BY <2>3, <2>4, <2>6, <2>7
<1> HIDE DEF G
<1>7. Nat \subseteq G
  BY <1>5, <1>6, Induction
<1>8. Good(after[steps]) /\ Rooted(after[steps], batch[steps])
      /\ DOMAIN headers \subseteq DOMAIN after[steps].headers
  BY <1>1, <1>7 DEF G
<1> QED BY <1>8 DEF after, steps, start

\* What is stored when an operation has changed the best chain.
LEMMA ApplyIs ==
  ASSUME Table, NEW u, Good(u), ApplyUpdate(u)
  PROVE  LET c == Current(u)
         IN /\ headers' = u.headers /\ siblings' = u.siblings
            /\ disconnected' = u.disconnected /\ checkpoint' = NoCheckpoint
            /\ tip' = Depth[c] /\ best_chain'[tip'] = c
            /\ \A n \in 0..Base(u) : best_chain'[n] = best_chain[n]
            /\ Base(u) <= Depth[c] /\ Base(u) \in 0..tip
            /\ Table'
<1> DEFINE c == Current(u)
           d == Depth[c]
           b == Base(u)
           kept == [n \in Kept(u) |-> best_chain[n]]
<1>1. /\ u.checkpoint = NoCheckpoint /\ Consistent(u.headers, u.disconnected)
      /\ c \in Attached(u.headers) /\ Trunk(u, c) /\ c \in Header
  BY DEF Good, BestIs, Selected, Known, Trunk
<1>2. u.headers[c].height = d /\ d \in Nat
  <2>1. u.headers[c] = Data(c)
    BY <1>1 DEF Consistent
  <2> QED BY <1>1, <2>1, DepthIs DEF Data
<1>3. tip \in Nat /\ DOMAIN best_chain = 0..tip
  BY DEF Table
<1>4. /\ b <= d /\ b \in 0..tip /\ DOMAIN u.best = (b + 1)..d
      /\ Kept(u) = 0..b
  <2>1. CASE u.reorg
    BY <1>1, <1>2, <1>3, <2>1 DEF Trunk, Base, Kept
  <2>2. CASE ~u.reorg
    BY <1>1, <1>2, <1>3, <2>2 DEF Trunk, Base, Kept
  <2> QED BY <2>1, <2>2
<1>5. /\ headers' = u.headers /\ siblings' = u.siblings
      /\ disconnected' = u.disconnected /\ checkpoint' = NoCheckpoint
      /\ best_chain' = Merge(u.best, kept) /\ tip' = d
  BY <1>1, <1>2 DEF ApplyUpdate, Store, PositionOf
<1> HIDE DEF c, d, b
<1>6. DOMAIN best_chain' = 0..d
  <2>1. DOMAIN kept = 0..b
    BY <1>4
  <2>2. DOMAIN best_chain' = ((b + 1)..d) \cup (0..b)
    <3> HIDE DEF kept
    <3> QED BY <1>4, <1>5, <2>1 DEF Merge
  <2> QED BY <1>2, <1>3, <1>4, <2>2
<1>7. ASSUME NEW n \in 0..d PROVE best_chain'[n] = EffectiveBestBlock(u, n)
  <2>1. CASE n \in DOMAIN u.best
    <3>1. best_chain'[n] = u.best[n]
      <4> HIDE DEF kept
      <4> QED BY <1>5, <2>1 DEF Merge
    <3> QED BY <2>1, <3>1 DEF EffectiveBestBlock
  <2>2. CASE n \notin DOMAIN u.best
    <3>1. n \in Kept(u) /\ n \in DOMAIN best_chain
      BY <1>2, <1>3, <1>4, <2>2
    <3>2. kept[n] = best_chain[n] /\ n \in DOMAIN kept
      BY <3>1
    <3>3. best_chain'[n] = kept[n]
      <4> HIDE DEF kept
      <4> QED BY <1>5, <2>2, <3>2 DEF Merge
    <3> QED BY <2>2, <3>1, <3>2, <3>3 DEF EffectiveBestBlock
  <2> QED BY <2>1, <2>2
<1>8. ASSUME NEW n \in 0..b PROVE best_chain'[n] = best_chain[n]
  <2>1. n \notin DOMAIN u.best /\ n \in DOMAIN best_chain /\ n \in 0..d
    BY <1>2, <1>3, <1>4
  <2> QED BY <1>7, <2>1 DEF EffectiveBestBlock
<1>9. ASSUME NEW h \in Line[c] PROVE best_chain'[Depth[h]] = h
  <2>1. Depth[h] \in 0..d
    BY <1>1, LineIsLower, LineRoot DEF d
  <2>2. Shown(u, h)
    BY <1>1 DEF Trunk
  <2> QED BY <1>7, <2>1, <2>2 DEF Shown
<1>10. best_chain'[d] = c
  BY <1>1, <1>9, LineEnd DEF d
<1>11. IsMap(best_chain')
  BY <1>5 DEF IsMap, Merge
<1>12. Table'
  BY <1>1, <1>2, <1>5, <1>6, <1>9, <1>10, <1>11 DEF Table, d
<1> QED BY <1>4, <1>5, <1>8, <1>10, <1>12 DEF c, d, b

\* An operation keeps the invariant.
LEMMA ApplyKeeps ==
  ASSUME Inv, NEW u, Good(u), ApplyUpdate(u), UNCHANGED checkpointed
  PROVE  Inv'
<1> DEFINE c == Current(u)
<1>1. Table /\ Inv
  BY DEF Inv
<1>2. /\ headers' = u.headers /\ siblings' = u.siblings
      /\ checkpoint' = NoCheckpoint /\ best_chain'[tip'] = c /\ Table'
  BY <1>1, ApplyIs
<1>3. Complete(u.headers) /\ Selected(u, c) /\ Attached(headers) \subseteq Attached(u.headers)
  BY DEF Good, Known
<1>4. Selected(Transaction, best_chain[tip])'
  <2>1. Transaction'.headers = u.headers /\ Transaction'.siblings = u.siblings
    BY <1>2 DEF Transaction
  <2> HIDE DEF c
  <2> QED BY <1>2, <1>3, <2>1 DEF Selected, Known
<1>5. c \in Attached(headers')
  BY <1>2, <1>3 DEF Selected, Known
<1> DEFINE position == PositionOf(u, c)
           reorg == ReorgSignal(u.from, position)
<1>6. /\ reorg.type = "reorg" /\ reorg.tip.hash = c
      /\ TipSignal(position).type = "tip" /\ NoSignal.type = "none"
  BY DEF ReorgSignal, TipSignal, NoSignal, PositionOf
<1>7. \/ /\ signal' = IF last_update = reorg THEN NoSignal ELSE reorg
         /\ last_update' = reorg
      \/ signal' = TipSignal(position) /\ last_update' = last_update
  BY DEF ApplyUpdate, Store
<1> HIDE DEF reorg, position, c
<1>8. signal'.type \in {"none", "tip", "reorg"}
  BY <1>6, <1>7
<1>9. last_update' = NoSignal
      \/ (last_update'.type = "reorg" /\ last_update'.tip.hash \in Attached(headers'))
  BY <1>1, <1>2, <1>3, <1>5, <1>6, <1>7 DEF Inv
<1> QED BY <1>1, <1>2, <1>3, <1>4, <1>8, <1>9 DEF Inv

\* The invariant holds of the genesis header.
LEMMA InitIs ==
  ASSUME Init
  PROVE  Inv
<1>1. DOMAIN headers = {Genesis} /\ headers[Genesis] = Data(Genesis) /\ IsMap(headers)
  BY LineRoot, WeightIs DEF Init, GenesisData, Data, IsMap
<1>2. Attached(headers) = {Genesis}
  BY <1>1 DEF Attached, Data
<1>3. /\ DOMAIN best_chain = {0} /\ best_chain[0] = Genesis /\ IsMap(best_chain)
      /\ tip = 0 /\ siblings = {} /\ disconnected = {}
      /\ checkpoint = NoCheckpoint /\ last_update = NoSignal /\ signal = NoSignal
      /\ checkpointed = 0
  BY DEF Init, IsMap
<1>4. Consistent(headers, disconnected)
  BY <1>1, <1>2, <1>3, HeaderAssumption DEF Consistent
<1>5. Table
  <2>1. 0..0 = {0}
    OBVIOUS
  <2> QED BY <1>2, <1>3, <1>4, <2>1, LineRoot DEF Table
<1>6. Complete(headers)
  BY <1>1, <1>2 DEF Complete
<1>7. Selected(Transaction, best_chain[tip])
  <2>1. Transaction.headers = headers /\ Transaction.siblings = siblings
    BY DEF Transaction
  <2>2. Weight[Genesis] <= Weight[Genesis]
    BY LineRoot
  <2> QED BY <1>2, <1>3, <2>1, <2>2 DEF Selected, Known
<1>8. checkpointed \in 0..MaxCheckpoint
  BY <1>3, HeaderAssumption
<1>9. signal.type = "none"
  BY <1>3 DEF NoSignal
<1> QED BY <1>3, <1>5, <1>6, <1>7, <1>8, <1>9 DEF Inv

\* An operation stores the transaction u, in which a batch has been added.
Stores(u) ==
  /\ Good(u) /\ (\E h : Rooted(u, h)) /\ ApplyUpdate(u)
  /\ DOMAIN headers \subseteq DOMAIN u.headers /\ UNCHANGED checkpointed

\* Without checkpoints headers are added, or the oracle is started again.
LEMMA NextIs ==
  ASSUME Checkpoints = {}, Inv, Next
  PROVE  (\E u : Stores(u)) \/ Restart
<1>1. ASSUME NEW batch \in Batches, AddHeaders(batch) PROVE \E u : Stores(u)
  <2> DEFINE steps == Len(batch)
             after == CHOOSE f : f = [n \in 0..steps |->
                        IF n = 0 THEN Transaction ELSE AddHeader(f[n - 1], batch[n])]
             u == after[steps]
  <2>1. ApplyUpdate(u) /\ UNCHANGED checkpointed
    BY <1>1 DEF AddHeaders
  <2>2. /\ Good(u) /\ Rooted(u, batch[steps])
        /\ DOMAIN headers \subseteq DOMAIN u.headers
    BY BatchIs
  <2> HIDE DEF u, steps
  <2> QED BY <2>1, <2>2 DEF Stores
<1>2. ~DeleteCheckpoint
  BY DEF DeleteCheckpoint, HaveCheckpoint, Inv, NoCheckpoint
<1> QED BY <1>1, <1>2 DEF Next

\* Every step keeps the invariant.
LEMMA StepIs ==
  ASSUME Checkpoints = {}, Inv, [Next]_vars
  PROVE  Inv'
<1>1. ASSUME NEW u, Stores(u) PROVE Inv'
  BY <1>1, ApplyKeeps DEF Stores
<1>2. ASSUME \/ UNCHANGED vars
             \/ Restart
      PROVE  Inv'
  <2>1. /\ UNCHANGED <<headers, best_chain, tip, siblings, disconnected, checkpoint,
                       checkpointed>>
        /\ \/ last_update' = last_update /\ signal' = signal
           \/ last_update' = NoSignal /\ signal' = NoSignal
    BY <1>2 DEF vars, Restart
  <2>2. Table' /\ Complete(headers')
    BY <2>1 DEF Inv, Table
  <2>3. Selected(Transaction, best_chain[tip])'
    <3>1. Transaction' = Transaction
      BY <2>1 DEF Transaction
    <3> QED BY <2>1, <3>1 DEF Inv
  <2>4. NoSignal.type = "none"
    BY DEF NoSignal
  <2> QED BY <2>1, <2>2, <2>3, <2>4 DEF Inv
<1> QED BY <1>1, <1>2, NextIs

\* Without checkpoints the oracle keeps the invariant, whatever headers come in
\* whatever order.
THEOREM Invariant ==
  ASSUME Checkpoints = {}
  PROVE  Spec => []Inv
<1>1. Init => Inv
  BY InitIs
<1>2. Inv /\ [Next]_vars => Inv'
  BY StepIs
<1> QED BY <1>1, <1>2, PTL DEF Spec

-----------------------------------------------------------------------------
(***************************************************************************)
(* What follows from the invariant.                                        *)
(***************************************************************************)
\* The table has the chain of the tip, and nothing else.
LEMMA TableIs ==
  ASSUME Table
  PROVE  LET c == best_chain[tip]
         IN /\ c \in Header /\ Line[c] \subseteq Attached(headers)
            /\ \A n \in 0..tip : best_chain[n] \in Line[c] /\ Depth[best_chain[n]] = n
            /\ BestHeaders = Line[c]
<1> DEFINE c == best_chain[tip]
<1>1. c \in Header /\ Line[c] \subseteq Attached(headers)
  BY AttachedLines DEF Table
<1>2. tip \in Nat /\ Depth[c] = tip /\ \A h \in Line[c] : best_chain[Depth[h]] = h
  BY DEF Table
<1> HIDE DEF c
<1>3. ASSUME NEW n \in 0..tip PROVE best_chain[n] \in Line[c] /\ Depth[best_chain[n]] = n
  <2>1. PICK x \in Line[c] : Depth[x] = n
    BY <1>1, <1>2, LineHasAll
  <2> QED BY <1>2, <2>1
<1>4. ASSUME NEW h \in Line[c] PROVE \E n \in 0..tip : h = best_chain[n]
  <2>1. Depth[h] \in Nat /\ Depth[h] <= tip
    BY <1>1, <1>2, LineIsLower, LineRoot
  <2> QED BY <1>2, <2>1
<1>5. BestHeaders = Line[c]
  BY <1>3, <1>4 DEF BestHeaders
<1> QED BY <1>1, <1>3, <1>5 DEF c

\* The headers that can be traced back to the genesis header are those connected.
LEMMA ConnectedIs ==
  ASSUME Inv
  PROVE  Connected = Attached(headers) /\ Connected \subseteq DOMAIN headers
<1>1. Consistent(headers, disconnected) /\ Complete(headers)
  BY DEF Inv, Table
<1> QED BY <1>1, AttachedLines DEF Connected

\* The types.
LEMMA TypeFollows ==
  ASSUME Inv
  PROVE  TypeOK
<1>1. /\ Table /\ Consistent(headers, disconnected) /\ IsMap(headers)
      /\ DOMAIN headers \subseteq Header
      /\ IsMap(best_chain) /\ DOMAIN best_chain = 0..tip /\ tip \in Nat
      /\ best_chain[tip] \in Header /\ Depth[best_chain[tip]] = tip
  BY DEF Inv, Table, Consistent, Attached
<1>2. ASSUME NEW h \in DOMAIN headers PROVE headers[h] \in Metadata
  <2>1. h \in Header /\ Depth[h] \in Height /\ Weight[h] \in Nat /\ Proof[h] \in Nat
    BY <1>1, LineIsFinite, LineRoot, HeaderAssumption
  <2>2. 0 \in Height
    BY HeaderAssumption, FS_CardinalityType DEF Height
  <2>3. Data(h) \in Metadata
    BY <2>1 DEF Data, Metadata, Status
  <2>4. Waiting(h) \in Metadata
    BY <2>1, <2>2 DEF Waiting, Metadata, Status
  <2>5. headers[h] = Data(h) \/ headers[h] = Waiting(h)
    BY <1>1 DEF Consistent
  <2> QED BY <2>3, <2>4, <2>5
<1>3. headers \in [DOMAIN headers -> Metadata]
  BY <1>1, <1>2 DEF IsMap
<1>4. DOMAIN best_chain \subseteq Height /\ tip \in DOMAIN best_chain
  <2>1. tip \in Height /\ Cardinality(Header) \in Nat
    BY <1>1, LineIsFinite, HeaderAssumption, FS_CardinalityType
  <2> QED BY <1>1, <2>1 DEF Height
<1>5. best_chain \in [DOMAIN best_chain -> DOMAIN headers]
  <2>1. \A n \in 0..tip : best_chain[n] \in DOMAIN headers
    BY <1>1, TableIs DEF Attached
  <2> QED BY <1>1, <2>1 DEF IsMap
<1>6. siblings \subseteq DOMAIN headers
  <2>1. Selected(Transaction, best_chain[tip])
    BY DEF Inv
  <2>2. Transaction.headers = headers /\ Transaction.siblings = siblings
    BY DEF Transaction
  <2> QED BY <2>1, <2>2 DEF Selected, Known, Attached
<1>7. disconnected \subseteq Header \X DOMAIN headers
  <2>1. ASSUME NEW h \in DOMAIN headers \ Attached(headers) PROVE Parent[h] \in Header
    BY <1>1, ParentType DEF Consistent
  <2>2. disconnected = {<<Parent[h], h>> : h \in DOMAIN headers \ Attached(headers)}
    BY <1>1 DEF Consistent
  <2> QED BY <2>1, <2>2
<1> QED BY <1>1, <1>3, <1>4, <1>5, <1>6, <1>7 DEF TypeOK, Inv

\* The table is a chain.
LEMMA BestChainFollows ==
  ASSUME Inv
  PROVE  BestChainIsLinked
<1> DEFINE c == best_chain[tip]
<1>1. /\ Table /\ DOMAIN best_chain = 0..tip /\ tip \in Nat
      /\ \A h \in Line[c] : best_chain[Depth[h]] = h
  BY DEF Inv, Table
<1>2. c \in Header /\ \A n \in 0..tip : best_chain[n] \in Line[c] /\ Depth[best_chain[n]] = n
  BY <1>1, TableIs
<1> HIDE DEF c
<1>3. best_chain[0] = Genesis
  BY <1>1, <1>2, GenesisInLine, LineRoot
<1>4. ASSUME NEW n \in 1..tip PROVE Parent[best_chain[n]] = best_chain[n - 1]
  <2> DEFINE h == best_chain[n]
  <2>1. h \in Line[c] /\ h \in Header /\ Depth[h] = n /\ h # Genesis
    BY <1>1, <1>2, LineRoot
  <2>2. Parent[h] \in Line[h] /\ Depth[Parent[h]] = n - 1
    BY <2>1, LineStep, LineEnd
  <2>3. Parent[h] \in Line[c]
    BY <1>2, <2>1, <2>2, LineOfLine
  <2> QED BY <1>1, <2>2, <2>3
<1> QED BY <1>1, <1>3, <1>4 DEF BestChainIsLinked

\* Height and work, and who waits.
LEMMA MetadataFollows ==
  ASSUME Inv
  PROVE  MetadataCorrect
<1>1. /\ Consistent(headers, disconnected) /\ Connected = Attached(headers)
      /\ Connected \subseteq Header /\ DOMAIN headers \subseteq Header
  BY ConnectedIs DEF Inv, Table, Consistent
<1>2. ASSUME NEW h \in Connected
      PROVE  /\ headers[h].height = Cardinality(Line[h]) - 1
             /\ headers[h].work = SumFunctionOnSet(Proof, Line[h])
  <2>1. headers[h] = Data(h) /\ h \in Header
    BY <1>1 DEF Consistent
  <2>2. Depth[h] \in Nat /\ Cardinality(Line[h]) = Depth[h] + 1
    BY <2>1, LineIsFinite, LineRoot
  <2>3. SumFunctionOnSet(Proof, Line[h]) = Weight[h]
    BY <2>1, WeightIsSum
  <2>4. headers[h].height = Depth[h] /\ headers[h].work = Weight[h]
    BY <2>1 DEF Data
  <2> QED BY <2>2, <2>3, <2>4
<1>3. ASSUME NEW h \in DOMAIN headers \ Connected
      PROVE  EffectiveState(headers[h]) = "disconnected"
  <2>1. headers[h] = Waiting(h)
    BY <1>1 DEF Consistent
  <2>2. EffectiveState(Waiting(h)) = "disconnected"
    BY DEF EffectiveState, Waiting
  <2> QED BY <2>1, <2>2
<1>4. disconnected = {<<Parent[h], h>> : h \in DOMAIN headers \ Connected}
  BY <1>1 DEF Consistent
<1> QED BY <1>2, <1>3, <1>4 DEF MetadataCorrect

\* No chain is forgotten.
LEMMA LeavesFollow ==
  ASSUME Inv
  PROVE  LeavesKept
<1>1. Transaction.headers = headers /\ Transaction.siblings = siblings
  BY DEF Transaction
<1>2. Selected(Transaction, best_chain[tip]) /\ Table
  BY DEF Inv
<1>3. Connected = Attached(headers) /\ BestHeaders = Line[best_chain[tip]]
  BY <1>2, ConnectedIs, TableIs
<1> QED BY <1>1, <1>2, <1>3 DEF Selected, Known, LeavesKept

\* A transaction that has changed the tip has found one that was not connected
\* before, with more work.
LEMMA StoresIs ==
  ASSUME Inv, NEW u, Stores(u)
  PROVE  LET c == Current(u)
         IN /\ headers' = u.headers /\ best_chain'[tip'] = c /\ tip' = Depth[c]
            /\ \A n \in 0..Base(u) : best_chain'[n] = best_chain[n]
            /\ Base(u) \in 0..tip /\ Base(u) \in 0..tip'
            /\ c # best_chain[tip] =>
                 c \notin Attached(headers) /\ Weight[best_chain[tip]] < Weight[c]
<1> DEFINE c == Current(u)
<1>1. Good(u) /\ ApplyUpdate(u) /\ Table
  BY DEF Stores, Inv
<1>2. /\ headers' = u.headers /\ best_chain'[tip'] = c /\ tip' = Depth[c]
      /\ \A n \in 0..Base(u) : best_chain'[n] = best_chain[n]
      /\ Base(u) <= Depth[c] /\ Base(u) \in 0..tip
  BY <1>1, ApplyIs
<1>3. Base(u) \in 0..tip'
  <2>1. c \in Header
    BY <1>1 DEF Good, BestIs, Trunk
  <2>2. Depth[c] \in Nat /\ tip \in Nat
    BY <1>1, <2>1, LineRoot DEF Table
  <2> HIDE DEF c
  <2> QED BY <1>2, <2>2
<1>4. PICK h : Rooted(u, h)
  BY DEF Stores
<1>5. DOMAIN u.best = {} => c = best_chain[tip]
  BY DEF Current
<1>6. c # best_chain[tip] => c \notin Attached(headers) /\ Weight[best_chain[tip]] < Weight[c]
  BY <1>4, <1>5 DEF Rooted
<1> QED BY <1>2, <1>3, <1>6

\* A reorg is published unless the new chain extends the old one.
LEMMA SignalsStep ==
  ASSUME Checkpoints = {}, Inv, Next, best_chain[tip] # best_chain'[tip']
  PROVE  \/ best_chain[tip] \in BestHeaders'
         \/ /\ signal'.type = "reorg"
            /\ signal'.parent.hash \in BestHeaders \cap BestHeaders'
            /\ signal'.tip.hash = best_chain'[tip']
<1>1. ~Restart
  BY DEF Restart
<1>2. PICK u : Stores(u)
  BY <1>1, NextIs
<1> DEFINE c == Current(u)
           b == Base(u)
<1>3. /\ best_chain'[tip'] = c /\ c # best_chain[tip] /\ c \notin Attached(headers)
      /\ b \in 0..tip /\ b \in 0..tip' /\ best_chain'[b] = best_chain[b]
  BY <1>2, StoresIs
<1> HIDE DEF b
<1>4. best_chain[b] \in BestHeaders /\ best_chain[b] \in BestHeaders'
  <2>1. best_chain[b] \in BestHeaders
    BY <1>3 DEF BestHeaders
  <2>2. BestHeaders' = {best_chain'[n] : n \in 0..tip'}
    BY DEF BestHeaders
  <2> QED BY <1>3, <2>1, <2>2
<1>5. CASE b = tip
  BY <1>4, <1>5
<1>6. CASE b # tip
  <2>1. u.reorg /\ u.from.height = b /\ u.from.height <= tip
    <3>1. tip \in Nat
      BY DEF Inv, Table
    <3>2. u.reorg /\ u.from.height < tip /\ u.from.height = b
      BY <1>6 DEF Base, b
    <3> QED BY <1>3, <3>1, <3>2
  <2>2. u.from.hash = best_chain[b]
    BY <1>2, <2>1 DEF Stores, Good, BestIs, Trunk
  <2> DEFINE position == PositionOf(u, c)
             reorg == ReorgSignal(u.from, position)
  <2>3. /\ reorg.type = "reorg" /\ reorg.tip.hash = c /\ reorg.parent.hash = best_chain[b]
        /\ NoSignal.type = "none"
    BY <2>2 DEF ReorgSignal, NoSignal, PositionOf
  <2>4. signal' = IF last_update = reorg THEN NoSignal ELSE reorg
    BY <1>2, <2>1 DEF Stores, ApplyUpdate, Store
  <2> HIDE DEF reorg, position
  <2>5. last_update # reorg
    BY <1>3, <2>3 DEF Inv
  <2> QED BY <1>3, <1>4, <2>3, <2>4, <2>5
<1> QED BY <1>5, <1>6

\* Every step is one of ChainSelection, or changes nothing there.
LEMMA SelectionStep ==
  ASSUME Checkpoints = {}, Inv, Inv', Next
  PROVE  [Selection!Learn]_(Selection!chainVars)
<1>1. Selection!Line = Line
  BY DEF Selection!Line, Line
<1>2. ASSUME NEW h \in Header PROVE Selection!Total(h) = Weight[h]
  <2>1. Selection!Total(h) = Selection!SumFunctionOnSet(Proof, Line[h])
    BY <1>1 DEF Selection!Total
  <2>2. Selection!SumFunctionOnSet(Proof, Line[h]) = SumFunctionOnSet(Proof, Line[h])
    BY Zenon DEF SumFunctionOnSet, FoldFunctionOnSet, MapThenFoldSet,
      Selection!SumFunctionOnSet, Selection!FoldFunctionOnSet, Selection!MapThenFoldSet
  <2> QED BY <2>1, <2>2, WeightIsSum
<1>3. CASE Restart
  BY <1>3 DEF Restart, Selection!chainVars
<1>4. ASSUME NEW u, Stores(u) PROVE Selection!Learn
  <2> DEFINE c == Current(u)
  <2>1. /\ headers' = u.headers /\ best_chain'[tip'] = c
        /\ c # best_chain[tip] => Weight[best_chain[tip]] < Weight[c]
    BY <1>4, StoresIs
  <2>2. /\ Consistent(u.headers, u.disconnected) /\ Complete(u.headers)
        /\ Selected(u, c) /\ DOMAIN headers \subseteq DOMAIN u.headers
    BY <1>4 DEF Stores, Good
  <2>3. Attached(u.headers) \subseteq Header
        /\ Attached(u.headers) = {h \in DOMAIN u.headers : Line[h] \subseteq DOMAIN u.headers}
    BY <2>2, AttachedLines
  <2>4. Selection!Connected(DOMAIN u.headers) = Attached(u.headers)
    BY <1>1, <2>3 DEF Selection!Connected
  <2>5. best_chain[tip] \in Header
    BY DEF Inv, Table, Consistent, Attached
  <2> HIDE DEF c
  <2>6. c \in Attached(u.headers) /\ \A h \in Attached(u.headers) : Weight[h] <= Weight[c]
    BY <2>2 DEF Selected, Known
  <2>7. Weight[c] \in Nat /\ Weight[best_chain[tip]] \in Nat
    BY <2>3, <2>5, <2>6, LineRoot
  <2>8. \A h \in Attached(u.headers) : Selection!Total(h) <= Selection!Total(c)
    BY <1>2, <2>3, <2>6
  <2>9. c # best_chain[tip] => Selection!Total(c) > Selection!Total(best_chain[tip])
    BY <1>2, <2>1, <2>3, <2>5, <2>6, <2>7
  <2> QED BY <2>1, <2>2, <2>4, <2>6, <2>8, <2>9 DEF Selection!Learn
<1> QED BY <1>3, <1>4, NextIs

-----------------------------------------------------------------------------
(***************************************************************************)
(* Questions about stored headers.                                         *)
(***************************************************************************)
LEMMA InBestChainIs ==
  ASSUME Table, NEW h \in Attached(headers)
  PROVE  /\ h \in Header /\ headers[h].height = Depth[h] /\ Depth[h] \in Nat
         /\ IsInBestChain(h) <=> h \in Line[best_chain[tip]]
         /\ Line[h] \subseteq Attached(headers)
         /\ h # Genesis => Parent[h] \in Attached(headers) /\ Depth[h] # 0
<1>1. Consistent(headers, disconnected)
  BY DEF Table
<1>2. h \in Header /\ headers[h] = Data(h)
  BY <1>1 DEF Consistent, Attached
<1>3. headers[h].height = Depth[h] /\ Depth[h] \in Nat
  BY <1>2, LineRoot DEF Data
<1>4. IsInBestChain(h) <=> h \in Line[best_chain[tip]]
  <2>1. ASSUME IsInBestChain(h) PROVE h \in Line[best_chain[tip]]
    <3>1. Depth[h] \in 0..tip /\ best_chain[Depth[h]] = h
      BY <1>3, <2>1 DEF IsInBestChain, Table
    <3> QED BY <3>1, TableIs
  <2>2. ASSUME h \in Line[best_chain[tip]] PROVE IsInBestChain(h)
    <3>1. best_chain[tip] \in Header /\ Depth[best_chain[tip]] = tip /\ tip \in Nat
      BY TableIs DEF Table
    <3>2. Depth[h] <= tip
      BY <2>2, <3>1, LineIsLower
    <3> QED BY <1>3, <2>2, <3>1, <3>2 DEF IsInBestChain, Table
  <2> QED BY <2>1, <2>2
<1>5. h # Genesis => Parent[h] \in Attached(headers) /\ Depth[h] # 0
  BY <1>1, <1>2, LineStep DEF Consistent
<1> QED BY <1>1, <1>2, <1>3, <1>4, <1>5, AttachedLines

\* The genesis header is in every best chain.
LEMMA GenesisIsBest ==
  ASSUME Table
  PROVE  /\ headers[Genesis].height = 0 /\ IsInBestChain(Genesis)
         /\ Genesis \in Attached(headers)
<1>1. Genesis \in Attached(headers)
  BY DEF Table, Consistent
<1>2. best_chain[tip] \in Header
  BY TableIs
<1> QED BY <1>1, <1>2, InBestChainIs, GenesisInLine, LineRoot

\* CommonParent is defined by recursion that ends.
LEMMA CommonParentIs ==
  ASSUME Table
  PROVE  \A h \in Header :
           CommonParent[h] = IF headers[h].height = 0 THEN Genesis
                             ELSE IF IsInBestChain(h) THEN h ELSE CommonParent[Parent[h]]
<1> DEFINE T == Header
           S == {x \in Header : headers[x].height = 0 \/ IsInBestChain(x)}
           b == [x \in S |-> IF headers[x].height = 0 THEN Genesis ELSE x]
           H == [x \in Header \ S |-> [t \in T |-> t]]
           Body(f) == [h \in Header |-> IF headers[h].height = 0 THEN Genesis
                                        ELSE IF IsInBestChain(h) THEN h ELSE f[Parent[h]]]
<1>1. S \in SUBSET Header /\ Genesis \in S /\ b \in [S -> T] /\ H \in [Header \ S -> [T -> T]]
  BY HeaderAssumption, GenesisIsBest
<1>2. PICK f \in [Header -> T] : Descends(f, S, b, H)
  <2> HIDE DEF S, T, b, H
  <2> QED BY <1>1, TreeRecursion
<1>3. ASSUME NEW h \in Header
      PROVE  f[h] = IF headers[h].height = 0 THEN Genesis
                    ELSE IF IsInBestChain(h) THEN h ELSE f[Parent[h]]
  <2>1. CASE h \in S
    <3>1. f[h] = b[h]
      <4> HIDE DEF S, b, H
      <4> QED BY <1>2, <2>1 DEF Descends
    <3> QED BY <2>1, <3>1
  <2>2. CASE h \notin S
    <3>1. h # Genesis
      BY <1>1, <2>2
    <3>2. Parent[h] \in Header /\ f[Parent[h]] \in T
      BY <3>1, ParentType
    <3>3. f[h] = H[h][f[Parent[h]]]
      <4> HIDE DEF S, b, H
      <4> QED BY <1>2, <2>2 DEF Descends
    <3> QED BY <2>2, <3>2, <3>3
  <2> QED BY <2>1, <2>2
<1>4. f = Body(f)
  BY <1>3
<1>5. CommonParent = CHOOSE g : g = Body(g)
  BY DEF CommonParent
<1>6. CommonParent = Body(CommonParent)
  <2> HIDE DEF Body
  <2> QED BY <1>4, <1>5, Zenon
<1>7. \A h \in Header : Body(CommonParent)[h] =
        IF headers[h].height = 0 THEN Genesis
        ELSE IF IsInBestChain(h) THEN h ELSE CommonParent[Parent[h]]
  OBVIOUS
<1> HIDE DEF Body
<1> QED BY <1>6, <1>7, Zenon

\* CalculateReorg, likewise.
LEMMA CalculateReorgIs ==
  ASSUME Table, NEW h \in Header
  PROVE  /\ CalculateReorg[h] \in Seq(Header)
         /\ CalculateReorg[h] =
              IF IsInBestChain(h) THEN <<>> ELSE <<h>> \o CalculateReorg[Parent[h]]
         /\ ~IsInBestChain(h) => h # Genesis /\ CalculateReorg[Parent[h]] \in Seq(Header)
<1> DEFINE T == Seq(Header)
           S == {x \in Header : IsInBestChain(x)}
           b == [x \in S |-> <<>>]
           H == [x \in Header \ S |-> [t \in T |-> <<x>> \o t]]
           Body(f) == [x \in Header |-> IF IsInBestChain(x) THEN <<>> ELSE <<x>> \o f[Parent[x]]]
<1>1. S \in SUBSET Header /\ Genesis \in S /\ b \in [S -> T] /\ H \in [Header \ S -> [T -> T]]
  BY HeaderAssumption, GenesisIsBest
<1>2. PICK f \in [Header -> T] : Descends(f, S, b, H)
  <2> HIDE DEF S, T, b, H
  <2> QED BY <1>1, TreeRecursion
<1>3. ASSUME NEW x \in Header
      PROVE  f[x] = IF IsInBestChain(x) THEN <<>> ELSE <<x>> \o f[Parent[x]]
  <2>1. CASE x \in S
    <3>1. f[x] = b[x]
      <4> HIDE DEF S, b, H
      <4> QED BY <1>2, <2>1 DEF Descends
    <3> QED BY <2>1, <3>1
  <2>2. CASE x \notin S
    <3>1. x # Genesis
      BY <1>1, <2>2
    <3>2. Parent[x] \in Header /\ f[Parent[x]] \in T
      BY <3>1, ParentType
    <3>3. f[x] = H[x][f[Parent[x]]]
      <4> HIDE DEF S, b, H
      <4> QED BY <1>2, <2>2 DEF Descends
    <3> QED BY <2>2, <3>2, <3>3
  <2> QED BY <2>1, <2>2
<1>4. f = Body(f)
  BY <1>3
<1>5. CalculateReorg = CHOOSE g : g = Body(g)
  BY DEF CalculateReorg
<1>6. CalculateReorg = Body(CalculateReorg)
  <2> HIDE DEF Body
  <2> QED BY <1>4, <1>5, Zenon
<1>7. \A x \in Header : Body(CalculateReorg)[x] =
        IF IsInBestChain(x) THEN <<>> ELSE <<x>> \o CalculateReorg[Parent[x]]
  OBVIOUS
<1>8. \A x \in Header : CalculateReorg[x] =
        IF IsInBestChain(x) THEN <<>> ELSE <<x>> \o CalculateReorg[Parent[x]]
  <2> HIDE DEF Body
  <2> QED BY <1>6, <1>7, Zenon
<1> DEFINE G == {x \in Header : CalculateReorg[x] \in Seq(Header)}
<1>9. Header \subseteq G
  <2>1. Genesis \in G
    <3>1. CalculateReorg[Genesis] = <<>>
      BY <1>8, GenesisIsBest, LineRoot
    <3>2. <<>> \in Seq(Header)
      OBVIOUS
    <3> QED BY <3>1, <3>2, LineRoot
  <2>2. ASSUME NEW x \in Header \ {Genesis}, Parent[x] \in G PROVE x \in G
    <3> DEFINE t == CalculateReorg[Parent[x]]
    <3>1. CalculateReorg[x] = <<>> \/ CalculateReorg[x] = <<x>> \o t
      BY <1>8
    <3>2. t \in Seq(Header)
      BY <2>2
    <3> HIDE DEF t
    <3>3. <<>> \in Seq(Header) /\ <<x>> \o t \in Seq(Header)
      BY <3>2
    <3> QED BY <3>1, <3>3
  <2> HIDE DEF G
  <2> QED BY <2>1, <2>2, TreeInduction
<1>10. ~IsInBestChain(h) => h # Genesis
  BY GenesisIsBest
<1> QED BY <1>8, <1>9, <1>10, ParentType

\* Each header of q is the parent of the one before it.
Descending(q) == \A i \in 2..Len(q) : q[i] = Parent[q[i - 1]]

\* The first part of QueriesCorrect, for one header.
ReorgCorrect(h) ==
  LET q == CalculateReorg[h]
  IN /\ Range(q) = Line[h] \ BestHeaders
     /\ Descending(q)
     /\ q # <<>> => q[1] = h /\ CommonParent[h] = Parent[Last(q)]

\* It holds of the best chain, and of a header when it does of its parent.
LEMMA ReorgFollows ==
  ASSUME Table, NEW h \in Attached(headers)
  PROVE  ReorgCorrect(h)
<1> DEFINE L == Line[best_chain[tip]]
           G == {x \in Header : x \in Attached(headers) => ReorgCorrect(x)}
<1>1. BestHeaders = L /\ best_chain[tip] \in Header
  BY TableIs
<1>2. ASSUME NEW x \in Attached(headers), x \in L PROVE ReorgCorrect(x)
  <2>1. x \in Header /\ CalculateReorg[x] = <<>>
    BY <1>2, InBestChainIs, CalculateReorgIs
  <2>2. Line[x] \subseteq L
    BY <1>1, <1>2, LineOfLine
  <2>3. Range(<<>>) = {} /\ Descending(<<>>)
    BY DEF Range, Descending
  <2> QED BY <1>1, <2>1, <2>2, <2>3 DEF ReorgCorrect
<1>3. Genesis \in G
  BY <1>1, <1>2, GenesisInLine, LineRoot
<1>4. ASSUME NEW x \in Header \ {Genesis}, Parent[x] \in G PROVE x \in G
  <2>1. SUFFICES ASSUME x \in Attached(headers), x \notin L PROVE ReorgCorrect(x)
    BY <1>2
  <2> DEFINE y == Parent[x]
             p == CalculateReorg[y]
             q == CalculateReorg[x]
  <2>2. /\ y \in Attached(headers) /\ y \in Header /\ y \in Line[y]
        /\ Line[x] = Line[y] \cup {x} /\ ReorgCorrect(y)
        /\ headers[x].height # 0 /\ ~IsInBestChain(x)
    BY <1>4, <2>1, InBestChainIs, LineStep, LineEnd
  <2>3. p \in Seq(Header) /\ q = <<x>> \o p
    BY <2>2, CalculateReorgIs
  <2>4. /\ Range(p) = Line[y] \ L /\ Descending(p)
        /\ p # <<>> => p[1] = y /\ CommonParent[y] = Parent[Last(p)]
    BY <1>1, <2>2 DEF ReorgCorrect
  <2>5. CommonParent[x] = CommonParent[y]
    BY <2>2, CommonParentIs
  <2> HIDE DEF p, q
  <2>6. /\ q \in Seq(Header) /\ Len(q) = Len(p) + 1 /\ Len(p) \in Nat /\ q[1] = x /\ q # <<>>
        /\ \A i \in 1..Len(p) : q[i + 1] = p[i]
    BY <2>3
  <2>7. Range(q) = Line[x] \ L
    <3>1. Range(p) = {p[i] : i \in 1..Len(p)} /\ Range(q) = {q[i] : i \in 1..Len(q)}
      <4>1. DOMAIN p = 1..Len(p) /\ DOMAIN q = 1..Len(q)
        BY <2>3, <2>6
      <4> QED BY <4>1 DEF Range
    <3>2. Range(q) = {x} \cup Range(p)
      <4>1. ASSUME NEW i \in 1..Len(q) PROVE q[i] \in {x} \cup Range(p)
        <5>1. i = 1 \/ (i - 1 \in 1..Len(p) /\ i = (i - 1) + 1)
          BY <2>6
        <5> QED BY <2>6, <3>1, <5>1
      <4>2. ASSUME NEW i \in 1..Len(p) PROVE p[i] \in Range(q)
        <5>1. i + 1 \in 1..Len(q)
          BY <2>6
        <5> QED BY <2>6, <3>1, <5>1
      <4>3. 1 \in 1..Len(q)
        BY <2>6
      <4> QED BY <2>6, <3>1, <4>1, <4>2, <4>3
    <3> QED BY <2>1, <2>2, <2>4, <3>2
  <2>8. Descending(q)
    <3>1. ASSUME NEW i \in 2..Len(q) PROVE q[i] = Parent[q[i - 1]]
      <4>1. i - 1 \in 1..Len(p) /\ q[i] = p[i - 1]
        BY <2>6
      <4>2. CASE i = 2
        <5>1. p # <<>>
          BY <2>3, <4>1
        <5>2. q[2] = p[1] /\ i - 1 = 1
          BY <4>1, <4>2
        <5> QED BY <2>4, <2>6, <4>2, <5>1, <5>2
      <4>3. CASE i # 2
        <5>1. i - 1 \in 2..Len(p) /\ i - 2 \in 1..Len(p) /\ (i - 1) - 1 = i - 2 /\ (i - 2) + 1 = i - 1
          BY <2>6, <4>3
        <5>2. p[i - 1] = Parent[p[i - 2]] /\ q[i - 1] = p[i - 2]
          BY <2>4, <2>6, <5>1 DEF Descending
        <5> QED BY <4>1, <5>2
      <4> QED BY <4>2, <4>3
    <3> QED BY <3>1 DEF Descending
  <2>9. CommonParent[x] = Parent[Last(q)]
    <3>1. CASE p = <<>>
      <4>1. y \in L
        <5>1. Range(p) = {}
          BY <3>1 DEF Range
        <5> QED BY <2>2, <2>4, <5>1
      <4>2. CommonParent[y] = y
        <5>1. headers[y].height = 0 => y = Genesis
          BY <2>2, InBestChainIs
        <5>2. IsInBestChain(y)
          BY <2>2, <4>1, InBestChainIs
        <5> QED BY <2>2, <5>1, <5>2, CommonParentIs
      <4>3. Last(q) = x
        BY <2>6, <3>1 DEF Last
      <4> QED BY <2>5, <4>2, <4>3
    <3>2. CASE p # <<>>
      <4>1. Last(q) = Last(p)
        <5>1. Len(p) \in 1..Len(p)
          BY <2>3, <3>2
        <5> QED BY <2>6, <5>1 DEF Last
      <4> QED BY <2>4, <2>5, <3>2, <4>1
    <3> QED BY <3>1, <3>2
  <2> HIDE DEF y
  <2> QED BY <1>1, <2>6, <2>7, <2>8, <2>9 DEF ReorgCorrect, q
<1>5. Header \subseteq G
  <2> HIDE DEF G
  <2> QED BY <1>3, <1>4, TreeInduction
<1>6. h \in Header
  BY InBestChainIs
<1> QED BY <1>5, <1>6

\* The second part of QueriesCorrect, for a way from the chain of h to t.
WayCorrect(q, h, t) ==
  LET common == Line[h] \cap Line[t]
  IN /\ Range(q) \cap common = {q[1]}
     /\ common = Line[q[1]]
     /\ Last(q) = t
     /\ Descending(Reverse(q))

\* A chain that starts on the chain of h and has no other header of it.
LEMMA WayIs ==
  ASSUME NEW h \in Header, NEW t \in Header, NEW q, Linked(q), Last(q) = t,
         q[1] \in Line[h], \A k \in 2..Len(q) : q[k] \notin Line[h]
  PROVE  WayCorrect(q, h, t)
<1> DEFINE n == Len(q)
           z == q[1]
<1>1. q \in Seq(Header) /\ n \in Nat \ {0} /\ DOMAIN q = 1..n /\ q[n] = t
  BY DEF Linked, Last
<1> HIDE DEF n
<1>2. Line[t] = Line[z] \cup {q[j] : j \in 1..n} /\ z \in Header
  BY <1>1, LinkedLine DEF n
<1>3. Line[z] \subseteq Line[h] /\ z \in Line[z]
  BY <1>2, LineOfLine, LineEnd
<1>4. \A j \in 1..n : j = 1 \/ q[j] \notin Line[h]
  BY <1>1 DEF n
<1>5. Line[h] \cap Line[t] = Line[z]
  BY <1>2, <1>3, <1>4
<1>6. Range(q) = {q[j] : j \in 1..n}
  BY <1>1 DEF Range
<1>7. Range(q) \cap (Line[h] \cap Line[t]) = {z}
  <2>1. 1 \in 1..n
    BY <1>1
  <2> QED BY <1>3, <1>4, <1>5, <1>6, <2>1
<1>8. Descending(Reverse(q))
  <2> DEFINE r == Reverse(q)
  <2>1. Len(r) = n /\ \A i \in 1..n : r[i] = q[n - i + 1]
    BY <1>1 DEF Reverse, n
  <2> HIDE DEF r
  <2>2. ASSUME NEW i \in 2..n PROVE r[i] = Parent[r[i - 1]]
    <3>1. /\ i \in 1..n /\ i - 1 \in 1..n
          /\ n - (i - 1) + 1 \in 2..n /\ (n - (i - 1) + 1) - 1 = n - i + 1
      BY <1>1
    <3>2. Parent[q[n - (i - 1) + 1]] = q[n - i + 1]
      BY <3>1 DEF Linked, n
    <3> QED BY <2>1, <3>1, <3>2
  <2> QED BY <2>1, <2>2 DEF Descending, r
<1> QED BY <1>5, <1>7, <1>8 DEF WayCorrect

\* The ancestor of h that is no higher than m.
LEMMA LowerIs ==
  ASSUME Table, NEW h \in Attached(headers), NEW m \in Nat
  PROVE  LET l == Lower(h, m)
         IN /\ l \in Line[h] /\ Depth[l] <= m
            /\ (Depth[h] <= m /\ l = h) \/ Depth[l] = m
<1> DEFINE T == Header
           Stays(x) == ~(headers[x].height > m)
           S == {x \in Header : Stays(x)}
           b == [x \in S |-> x]
           H == [x \in Header \ S |-> [t \in T |-> t]]
           Body(f) == [x \in Header |-> IF headers[x].height > m THEN f[Parent[x]] ELSE x]
           down == CHOOSE f : f = Body(f)
<1>1. S \in SUBSET Header /\ Genesis \in S /\ b \in [S -> T] /\ H \in [Header \ S -> [T -> T]]
  <2>1. ~(0 > m)
    OBVIOUS
  <2> QED BY <2>1, HeaderAssumption, GenesisIsBest
<1>2. PICK f \in [Header -> T] : Descends(f, S, b, H)
  <2> HIDE DEF S, T, b, H
  <2> QED BY <1>1, TreeRecursion
<1>3. ASSUME NEW x \in Header
      PROVE  f[x] = IF headers[x].height > m THEN f[Parent[x]] ELSE x
  <2>1. CASE x \in S
    <3>1. f[x] = b[x]
      <4> HIDE DEF S, b, H
      <4> QED BY <1>2, <2>1 DEF Descends
    <3> QED BY <2>1, <3>1
  <2>2. CASE x \notin S
    <3>1. x # Genesis
      BY <1>1, <2>2
    <3>2. Parent[x] \in Header /\ f[Parent[x]] \in T
      BY <3>1, ParentType
    <3>3. f[x] = H[x][f[Parent[x]]]
      <4> HIDE DEF S, b, H
      <4> QED BY <1>2, <2>2 DEF Descends
    <3> QED BY <2>2, <3>2, <3>3
  <2> QED BY <2>1, <2>2
<1>4. f = Body(f)
  BY <1>3
<1>5. down = Body(down)
  <2> HIDE DEF Body
  <2> QED BY <1>4, Zenon
<1>6. Lower(h, m) = down[h]
  BY DEF Lower
<1> HIDE DEF down
<1>7. \A x \in Header : Body(down)[x] = IF headers[x].height > m THEN down[Parent[x]] ELSE x
  OBVIOUS
<1>8. \A x \in Header : down[x] = IF headers[x].height > m THEN down[Parent[x]] ELSE x
  <2> HIDE DEF Body
  <2> QED BY <1>5, <1>7, Zenon
<1> DEFINE Fits(x) == /\ down[x] \in Line[x] /\ Depth[down[x]] <= m
                      /\ (Depth[x] <= m /\ down[x] = x) \/ Depth[down[x]] = m
           G == {x \in Header : x \in Attached(headers) => Fits(x)}
<1>9. ASSUME NEW x \in Attached(headers), Depth[x] <= m PROVE Fits(x)
  <2>1. x \in Header /\ headers[x].height = Depth[x] /\ Depth[x] \in Nat /\ x \in Line[x]
    BY InBestChainIs, LineEnd
  <2>2. down[x] = x
    BY <1>8, <1>9, <2>1
  <2> QED BY <1>9, <2>1, <2>2
<1>10. Genesis \in G
  BY <1>9, LineRoot
<1>11. ASSUME NEW x \in Header \ {Genesis}, Parent[x] \in G PROVE x \in G
  <2>1. SUFFICES ASSUME x \in Attached(headers), ~(Depth[x] <= m) PROVE Fits(x)
    BY <1>9
  <2>2. /\ headers[x].height = Depth[x] /\ Parent[x] \in Attached(headers)
        /\ Line[Parent[x]] \subseteq Line[x] /\ Depth[x] = Depth[Parent[x]] + 1
        /\ Depth[x] \in Nat /\ Depth[Parent[x]] \in Nat
    BY <2>1, InBestChainIs, LineStep
  <2>3. down[x] = down[Parent[x]]
    BY <1>8, <2>1, <2>2
  <2>4. Fits(Parent[x])
    BY <1>11, <2>2
  <2>5. Depth[Parent[x]] <= m => Depth[Parent[x]] = m
    BY <2>1, <2>2
  <2> QED BY <2>2, <2>3, <2>4, <2>5
<1>12. Header \subseteq G
  <2> HIDE DEF G
  <2> QED BY <1>10, <1>11, TreeInduction
<1>13. h \in Header
  BY InBestChainIs
<1> QED BY <1>6, <1>12, <1>13

\* The way back from t until it meets the chain of s.
LEMMA MeetIs ==
  ASSUME Table, NEW t \in Attached(headers), NEW s \in Attached(headers), Depth[s] <= Depth[t]
  PROVE  LET q == Meet(t, s)
         IN /\ Linked(q) /\ Last(q) = t /\ q[1] \in Line[s]
            /\ \A k \in 2..Len(q) : q[k] \notin Line[s]
<1> DEFINE T == [Header -> Seq(Header)]
           Next1(x, y) == IF headers[x].height = headers[y].height THEN ParentOf(y) ELSE y
           S == {Genesis}
           b == [x \in S |-> [y \in Header |-> <<Genesis>>]]
           H == [x \in Header \ S |-> [f \in T |-> [y \in Header |->
                   IF x = y THEN <<x>> ELSE Append(f[Next1(x, y)], x)]]]
           Body(f) == [x \in Header |-> [y \in Header |->
                         IF x = y \/ x = Genesis THEN <<x>>
                         ELSE Append(f[Parent[x]][IF headers[x].height = headers[y].height
                                                  THEN ParentOf(y) ELSE y], x)]]
           way == CHOOSE f : f = Body(f)
<1>1. \A x, y : y \in Header => Next1(x, y) \in Header
  BY ParentType, HeaderAssumption DEF ParentOf
<1>2. S \in SUBSET Header /\ Genesis \in S /\ b \in [S -> T] /\ H \in [Header \ S -> [T -> T]]
  <2> HIDE DEF Next1
  <2>1. <<Genesis>> \in Seq(Header)
    BY HeaderAssumption
  <2>2. b \in [S -> T]
    BY <2>1
  <2>3. ASSUME NEW x \in Header \ S, NEW f \in T, NEW y \in Header
        PROVE  (IF x = y THEN <<x>> ELSE Append(f[Next1(x, y)], x)) \in Seq(Header)
    <3>1. f[Next1(x, y)] \in Seq(Header)
      BY <1>1
    <3> QED BY <3>1
  <2>4. H \in [Header \ S -> [T -> T]]
    BY <2>3
  <2> QED BY <2>2, <2>4, HeaderAssumption
<1>3. PICK f \in [Header -> T] : Descends(f, S, b, H)
  <2> HIDE DEF S, T, b, H
  <2> QED BY <1>2, TreeRecursion
<1>4. ASSUME NEW x \in Header, NEW y \in Header
      PROVE  f[x][y] = IF x = y \/ x = Genesis THEN <<x>>
                       ELSE Append(f[Parent[x]][Next1(x, y)], x)
  <2> HIDE DEF Next1
  <2>1. CASE x \in S
    <3>1. f[x] = b[x]
      <4> HIDE DEF S, b, H
      <4> QED BY <1>3, <2>1 DEF Descends
    <3> QED BY <2>1, <3>1
  <2>2. CASE x \notin S
    <3>1. Parent[x] \in Header /\ f[Parent[x]] \in T
      BY <2>2, ParentType
    <3>2. f[x] = H[x][f[Parent[x]]]
      <4> HIDE DEF S, b, H
      <4> QED BY <1>3, <2>2 DEF Descends
    <3> QED BY <2>2, <3>1, <3>2
  <2> QED BY <2>1, <2>2
<1>5. f = Body(f)
  <2>1. \A x \in Header : f[x] = [y \in Header |-> f[x][y]]
    OBVIOUS
  <2>2. \A x \in Header : f[x] = Body(f)[x]
    BY <1>4, <2>1
  <2>3. Body(f) = [x \in Header |-> Body(f)[x]] /\ f = [x \in Header |-> f[x]]
    OBVIOUS
  <2> HIDE DEF Body
  <2> QED BY <2>2, <2>3
<1>6. way = Body(way)
  <2> HIDE DEF Body
  <2> QED BY <1>5, Zenon
<1>7. Meet(t, s) = way[t][s]
  BY DEF Meet
<1> HIDE DEF way
<1>8. \A x, y \in Header : Body(way)[x][y] =
        IF x = y \/ x = Genesis THEN <<x>> ELSE Append(way[Parent[x]][Next1(x, y)], x)
  OBVIOUS
<1>9. \A x, y \in Header : way[x][y] =
        IF x = y \/ x = Genesis THEN <<x>> ELSE Append(way[Parent[x]][Next1(x, y)], x)
  <2> HIDE DEF Body, Next1
  <2> QED BY <1>6, <1>8, Zenon
<1> DEFINE Fits(x, y) ==
             LET q == way[x][y]
             IN /\ Linked(q) /\ Last(q) = x /\ q[1] \in Line[y]
                /\ \A k \in 2..Len(q) : q[k] \notin Line[y]
           G == {x \in Header : x \in Attached(headers) =>
                   \A y \in Attached(headers) : Depth[y] <= Depth[x] => Fits(x, y)}
<1>10. ASSUME NEW x \in Attached(headers), NEW y \in Attached(headers), x = y PROVE Fits(x, y)
  <2>1. x \in Header /\ x \in Line[y]
    BY <1>10, InBestChainIs, LineEnd
  <2>2. way[x][y] = <<x>>
    BY <1>9, <1>10, <2>1
  <2>3. Linked(<<x>>) /\ Last(<<x>>) = x /\ Len(<<x>>) = 1 /\ <<x>>[1] = x
    BY <2>1, LinkedOne
  <2> DEFINE q == <<x>>
  <2> HIDE DEF q
  <2> QED BY <2>1, <2>2, <2>3 DEF q
<1>11. Genesis \in G
  <2>1. ASSUME NEW y \in Attached(headers), Depth[y] <= Depth[Genesis] PROVE y = Genesis
    BY <2>1, InBestChainIs, LineRoot
  <2> HIDE DEF Fits
  <2> QED BY <1>10, <2>1, LineRoot
<1>12. ASSUME NEW x \in Header \ {Genesis}, Parent[x] \in G PROVE x \in G
  <2>1. SUFFICES ASSUME x \in Attached(headers), NEW y \in Attached(headers),
                        Depth[y] <= Depth[x], x # y
                 PROVE  Fits(x, y)
    <3> HIDE DEF Fits
    <3> QED BY <1>10
  <2> DEFINE p == Parent[x]
             z == Next1(x, y)
             q == way[p][z]
  <2>2. /\ x \in Header /\ y \in Header /\ headers[x].height = Depth[x] /\ headers[y].height = Depth[y]
        /\ p \in Attached(headers) /\ p \in Header /\ Depth[x] = Depth[p] + 1
        /\ Depth[x] \in Nat /\ Depth[p] \in Nat /\ Depth[y] \in Nat /\ x \in Line[x]
    BY <2>1, InBestChainIs, LineStep, LineEnd
  <2>3. /\ z \in Attached(headers) /\ Depth[z] <= Depth[p]
        /\ Line[z] \subseteq Line[y] /\ \A w \in Line[y] : w \in Line[z] \/ (w = y /\ Depth[y] = Depth[x])
    <3>1. CASE Depth[x] = Depth[y]
      <4>1. y # Genesis /\ z = Parent[y]
        BY <2>2, <3>1, LineRoot DEF ParentOf
      <4>2. z \in Attached(headers) /\ Line[y] = Line[z] \cup {y} /\ Depth[y] = Depth[z] + 1 /\ Depth[z] \in Nat
        BY <2>2, <4>1, InBestChainIs, LineStep
      <4> HIDE DEF z
      <4> QED BY <2>2, <3>1, <4>2
    <3>2. CASE Depth[x] # Depth[y]
      <4>1. z = y /\ Depth[y] <= Depth[p]
        BY <2>1, <2>2, <3>2
      <4> QED BY <4>1
    <3> QED BY <3>1, <3>2
  <2> HIDE DEF z
  <2>4. Fits(p, z)
    <3> HIDE DEF Fits
    <3> QED BY <1>12, <2>2, <2>3
  <2>5. way[x][y] = Append(q, x)
    <3> HIDE DEF Next1
    <3> QED BY <1>9, <2>1, <2>2 DEF z
  <2>6. /\ Linked(q) /\ Last(q) = p /\ q[1] \in Line[z] /\ q \in Seq(Header)
        /\ \A k \in 2..Len(q) : q[k] \notin Line[z]
    BY <2>4 DEF Linked
  <2> HIDE DEF q, p
  <2> DEFINE r == Append(q, x)
  <2>7. /\ Linked(r) /\ Last(r) = x /\ r[1] = q[1] /\ Len(r) = Len(q) + 1
        /\ \A k \in 1..Len(q) : r[k] = q[k]
        /\ r[Len(q) + 1] = x
    BY <2>6, LinkedAppend DEF p
  <2> HIDE DEF r
  <2>8. x \notin Line[y]
    <3>1. ASSUME x \in Line[y] PROVE FALSE
      <4>1. Depth[x] < Depth[y]
        BY <2>1, <2>2, <3>1, LineIsLower
      <4> QED BY <2>1, <2>2, <4>1
    <3> QED BY <3>1
  <2>9. ASSUME NEW k \in 2..Len(q) PROVE q[k] \notin Line[y]
    <3>1. SUFFICES ASSUME q[k] = y, Depth[y] = Depth[x] PROVE FALSE
      BY <2>3, <2>6
    <3>2. q[k] \in Line[p]
      <4>1. k \in 1..Len(q) /\ Linked(q) /\ Last(q) = p
        BY <2>6
      <4> QED BY ONLY <4>1, LinkedEnd
    <3>3. Depth[y] <= Depth[p]
      BY <2>2, <3>1, <3>2, LineIsLower
    <3> QED BY <2>2, <3>1, <3>3
  <2>10. ASSUME NEW k \in 2..Len(r) PROVE r[k] \notin Line[y]
    <3>1. k \in 2..Len(q) \/ k = Len(q) + 1
      BY <2>6, <2>7
    <3> QED BY <2>7, <2>8, <2>9, <3>1
  <2> QED BY <2>3, <2>5, <2>6, <2>7, <2>10 DEF r
<1>13. Header \subseteq G
  <2> HIDE DEF G
  <2> QED BY <1>11, <1>12, TreeInduction
<1>14. t \in Header
  BY InBestChainIs
<1>15. Fits(t, s)
  <2> HIDE DEF Fits
  <2> QED BY <1>13, <1>14
<1> QED BY <1>7, <1>15

\* The way between two headers of the best chain, as it is taken from the table.
LEMMA BestChainUpToIs ==
  ASSUME Table, NEW h \in Line[best_chain[tip]], NEW t \in Line[best_chain[tip]],
         Depth[h] < Depth[t]
  PROVE  LET q == BestChainUpTo(h, Depth[t])
         IN /\ Linked(q) /\ Last(q) = t /\ q[1] = h
            /\ \A k \in 2..Len(q) : q[k] \notin Line[h]
<1> DEFINE c == best_chain[tip]
           n == Depth[h]
           m == Depth[t]
           q == BestChain(h)
           Above(k) == headers[q[k]].height > m
           Fits(k) == /\ k = 1 \/ ~Above(k)
                      /\ \A j \in (k + 1)..Len(q) : Above(j)
           k0 == m - n + 1
           k1 == CHOOSE k \in DOMAIN q : Fits(k)
           r == BestChainUpTo(h, m)
<1>1. /\ tip \in Nat /\ c \in Header /\ Depth[c] = tip /\ Line[c] \subseteq Attached(headers)
      /\ \A i \in 0..tip : best_chain[i] \in Line[c] /\ Depth[best_chain[i]] = i
      /\ \A x \in Line[c] : best_chain[Depth[x]] = x
  BY TableIs DEF Table
<1>2. /\ h \in Header /\ t \in Header /\ n \in Nat /\ m \in Nat /\ n < m /\ m <= tip
      /\ best_chain[n] = h /\ best_chain[m] = t
      /\ h \in Attached(headers) /\ headers[h].height = n
  <2>1. h \in Attached(headers)
    BY <1>1
  <2> QED BY <1>1, <2>1, LineIsLower, LineRoot, InBestChainIs
<1>3. CommonParent[h] = h
  <2>1. IsInBestChain(h) /\ (headers[h].height = 0 => h = Genesis)
    BY <1>2, InBestChainIs
  <2> QED BY <1>2, <2>1, CommonParentIs
<1>4. q = [i \in 1..(tip - n + 1) |-> best_chain[n + i - 1]]
  BY <1>2, <1>3 DEF BestChain
<1>5. r = SubSeq(q, 1, k1)
  BY DEF BestChainUpTo
<1> HIDE DEF c, n, m, q, r, k1, k0
<1>6. Len(q) = tip - n + 1 /\ DOMAIN q = 1..(tip - n + 1) /\ q \in Seq(Header) /\ tip - n + 1 \in Nat
  <2>1. tip - n + 1 \in Nat
    BY <1>1, <1>2
  <2>2. \A i \in 1..(tip - n + 1) : best_chain[n + i - 1] \in Header
    <3>1. \A i \in 1..(tip - n + 1) : n + i - 1 \in 0..tip
      BY <1>1, <1>2
    <3>2. \A i \in 0..tip : best_chain[i] \in Header
      BY <1>1, LineRoot
    <3> QED BY <3>1, <3>2
  <2> QED BY <1>4, <2>1, <2>2
<1>7. ASSUME NEW i \in 1..Len(q)
      PROVE  /\ q[i] = best_chain[n + i - 1] /\ n + i - 1 \in 0..tip
             /\ Depth[q[i]] = n + i - 1 /\ headers[q[i]].height = n + i - 1
  <2>1. n + i - 1 \in 0..tip /\ q[i] = best_chain[n + i - 1]
    BY <1>1, <1>2, <1>4, <1>6
  <2>2. q[i] \in Attached(headers) /\ Depth[q[i]] = n + i - 1
    BY <1>1, <2>1
  <2> QED BY <2>1, <2>2, InBestChainIs
<1>8. k0 \in DOMAIN q /\ k0 \in 2..Len(q) /\ n + k0 - 1 = m
  BY <1>1, <1>2, <1>6 DEF k0
<1>9. \A i \in 1..Len(q) : Above(i) <=> i > k0
  BY <1>1, <1>2, <1>6, <1>7, <1>8 DEF k0
<1>10. Fits(k0)
  <2>1. \A j \in (k0 + 1)..Len(q) : j \in 1..Len(q) /\ j > k0
    BY <1>6, <1>8
  <2>2. ~(k0 > k0) /\ k0 \in 1..Len(q)
    BY <1>6, <1>8
  <2> HIDE DEF Above
  <2> QED BY <1>9, <2>1, <2>2
<1>11. k1 \in DOMAIN q /\ Fits(k1)
  <2> HIDE DEF Fits
  <2> QED BY <1>8, <1>10 DEF k1
<1>12. k1 = k0
  <2>1. k1 \in 1..Len(q) /\ k0 \in 1..Len(q)
    BY <1>6, <1>8, <1>11
  <2>2. k1 <= k0
    <3>1. k1 = 1 \/ ~(k1 > k0)
      <4> HIDE DEF Above
      <4> QED BY <1>9, <1>11, <2>1
    <3> QED BY <1>6, <1>8, <2>1, <3>1
  <2>3. ~(k1 < k0)
    <3>1. ASSUME k1 < k0 PROVE FALSE
      <4>1. k0 \in (k1 + 1)..Len(q) /\ ~(k0 > k0)
        BY <1>6, <1>8, <2>1, <3>1
      <4> HIDE DEF Above
      <4> QED BY <1>9, <1>11, <2>1, <4>1
    <3> QED BY <3>1
  <2> QED BY <1>6, <2>1, <2>2, <2>3
<1>13. r \in Seq(Header) /\ Len(r) = k0 /\ \A i \in 1..k0 : r[i] = q[i]
  <2>1. k0 <= Len(q) /\ k0 \in Nat /\ Len(q) \in Nat
    BY <1>6, <1>8
  <2> QED BY <1>5, <1>6, <1>12, <2>1
<1>14. ASSUME NEW i \in 2..k0 PROVE r[i] # Genesis /\ Parent[r[i]] = r[i - 1]
  <2> DEFINE x == r[i]
             y == r[i - 1]
  <2>1. /\ i \in 1..Len(q) /\ i - 1 \in 1..Len(q) /\ i \in 1..k0 /\ i - 1 \in 1..k0
        /\ n + (i - 1) - 1 = (n + i - 1) - 1 /\ n + i - 1 \in Nat \ {0}
    BY <1>2, <1>6, <1>8
  <2>2. /\ x = best_chain[n + i - 1] /\ Depth[x] = n + i - 1 /\ n + i - 1 \in 0..tip
        /\ y = best_chain[(n + i - 1) - 1] /\ (n + i - 1) - 1 \in 0..tip
    BY <1>7, <1>13, <2>1
  <2>3. x \in Line[c] /\ x \in Header /\ x # Genesis
    BY <1>1, <2>1, <2>2, LineRoot
  <2>4. Parent[x] \in Line[c] /\ Depth[Parent[x]] = (n + i - 1) - 1
    <3> HIDE DEF x
    <3> DEFINE e == Depth[Parent[x]]
    <3>1. Parent[x] \in Line[x] /\ Depth[x] = e + 1 /\ e \in Nat
      BY <2>3, LineStep, LineEnd
    <3>2. Parent[x] \in Line[c]
      BY <1>1, <2>3, <3>1, LineOfLine
    <3> HIDE DEF e
    <3>3. e = (n + i - 1) - 1
      BY <2>1, <2>2, <3>1
    <3> QED BY <3>2, <3>3 DEF e
  <2> QED BY <1>1, <2>2, <2>3, <2>4
<1>15. Linked(r)
  <2>1. r # <<>>
    BY <1>8, <1>13
  <2> QED BY <1>13, <1>14, <2>1 DEF Linked
<1>16. Last(r) = t
  <2>1. k0 \in 1..k0 /\ k0 \in 1..Len(q)
    BY <1>6, <1>8
  <2> QED BY <1>2, <1>7, <1>8, <1>13, <2>1 DEF Last
<1>17. r[1] = h
  <2>1. 1 \in 1..k0 /\ 1 \in 1..Len(q) /\ n + 1 - 1 = n
    BY <1>2, <1>6, <1>8
  <2> QED BY <1>2, <1>7, <1>13, <2>1
<1>18. ASSUME NEW k \in 2..Len(r) PROVE r[k] \notin Line[h]
  <2>1. k \in 1..k0 /\ k \in 1..Len(q) /\ n + k - 1 > n
    BY <1>2, <1>6, <1>8, <1>13
  <2>2. Depth[r[k]] = n + k - 1
    BY <1>7, <1>13, <2>1
  <2>3. r[k] \in Line[h] => Depth[r[k]] <= n
    BY <1>2, LineIsLower DEF n
  <2> QED BY <1>2, <2>1, <2>2, <2>3
<1> QED BY <1>15, <1>16, <1>17, <1>18 DEF r, m

\* Both ways that ancestors() takes are correct.
LEMMA AncestorsFollow ==
  ASSUME Table, NEW h \in Attached(headers), NEW t \in Attached(headers)
  PROVE  WayCorrect(Ancestors(h, t), h, t)
<1> DEFINE c == best_chain[tip]
           n == Depth[h]
           m == Depth[t]
<1>1. /\ h \in Header /\ headers[h].height = n /\ n \in Nat /\ (IsInBestChain(h) <=> h \in Line[c])
      /\ t \in Header /\ headers[t].height = m /\ m \in Nat /\ (IsInBestChain(t) <=> t \in Line[c])
  BY InBestChainIs
<1>2. CASE h \in Line[c] /\ t \in Line[c] /\ n < m
  <2> DEFINE q == BestChainUpTo(h, m)
  <2>1. Ancestors(h, t) = q
    BY <1>1, <1>2 DEF Ancestors
  <2>2. Linked(q) /\ Last(q) = t /\ q[1] = h /\ \A k \in 2..Len(q) : q[k] \notin Line[h]
    BY <1>2, BestChainUpToIs
  <2> HIDE DEF q
  <2>3. h \in Line[h]
    BY <1>1, LineEnd
  <2> QED BY <1>1, <2>1, <2>2, <2>3, WayIs
<1>3. CASE ~(h \in Line[c] /\ t \in Line[c] /\ n < m)
  <2> DEFINE l == Lower(h, m)
             q == Meet(t, l)
  <2>1. Ancestors(h, t) = q
    BY <1>1, <1>3 DEF Ancestors
  <2>2. l \in Line[h] /\ Depth[l] <= m /\ ((n <= m /\ l = h) \/ Depth[l] = m)
    BY <1>1, LowerIs
  <2> HIDE DEF l
  <2>3. l \in Attached(headers) /\ Line[l] \subseteq Line[h]
    BY <1>1, <2>2, InBestChainIs, LineOfLine
  <2>4. Linked(q) /\ Last(q) = t /\ q[1] \in Line[l] /\ \A k \in 2..Len(q) : q[k] \notin Line[l]
    BY <2>2, <2>3, MeetIs
  <2> HIDE DEF q
  <2>5. ASSUME NEW k \in 2..Len(q) PROVE q[k] \notin Line[h]
    <3>1. CASE l = h
      BY <2>4, <3>1
    <3>2. CASE Depth[l] = m
      <4>1. k \in 1..Len(q)
        BY <2>4 DEF Linked
      <4>2. Linked(q) /\ Last(q) = t
        BY <2>4
      <4>3. q[k] \in Line[t]
        BY ONLY <4>1, <4>2, LinkedEnd
      <4>4. Depth[q[k]] <= Depth[l]
        BY <1>1, <3>2, <4>3, LineIsLower
      <4>5. q[k] \in Line[h] => q[k] \in Line[l]
        BY <1>1, <2>2, <4>4, LineIsOrdered
      <4> QED BY <2>4, <4>5
    <3> QED BY <2>2, <3>1, <3>2
  <2>6. q[1] \in Line[h]
    BY <2>3, <2>4
  <2> QED BY <1>1, <2>1, <2>4, <2>5, <2>6, WayIs
<1> QED BY <1>2, <1>3

\* The invariant answers both questions.
LEMMA QueriesFollow ==
  ASSUME Inv
  PROVE  QueriesCorrect
<1>1. Table /\ Connected = Attached(headers)
  BY ConnectedIs DEF Inv
<1>2. \A h \in Connected : ReorgCorrect(h)
  BY <1>1, ReorgFollows
<1>3. \A h, t \in Connected : WayCorrect(Ancestors(h, t), h, t)
  BY <1>1, AncestorsFollow
<1> QED BY <1>2, <1>3 DEF QueriesCorrect, ReorgCorrect, WayCorrect, Descending

-----------------------------------------------------------------------------
(***************************************************************************)
(* Theorems.                                                               *)
(***************************************************************************)
\* Every state of the specification is of its type, whatever the tree of headers,
\* the order in which they arrive and the size of the batches.
THEOREM TypeCorrect ==
  ASSUME Checkpoints = {}
  PROVE  Spec => []TypeOK
<1>1. Inv => TypeOK
  BY TypeFollows
<1> QED BY <1>1, Invariant, PTL

\* The table of best headers is a chain from the genesis header to the tip, through
\* all reorgs: what apply_update pops and adds always fits together.
THEOREM BestChainAlwaysLinked ==
  ASSUME Checkpoints = {}
  PROVE  Spec => []BestChainIsLinked
<1>1. Inv => BestChainIsLinked
  BY BestChainFollows
<1> QED BY <1>1, Invariant, PTL

\* Height and work of a connected header are those of its chain, however its
\* ancestors arrived, and all other headers wait for their parents.
THEOREM MetadataAlwaysCorrect ==
  ASSUME Checkpoints = {}
  PROVE  Spec => []MetadataCorrect
<1>1. Inv => MetadataCorrect
  BY MetadataFollows
<1> QED BY <1>1, Invariant, PTL

\* What the wallet and the filters ask for before they roll back: calculate_reorg
\* and common_parent, and the way between any two connected headers.
THEOREM QueriesAlwaysCorrect ==
  ASSUME Checkpoints = {}
  PROVE  Spec => []QueriesCorrect
<1>1. Inv => QueriesCorrect
  BY QueriesFollow
<1> QED BY <1>1, Invariant, PTL

\* choose_candidate forgets no chain: each leaf of the tree is the tip or a sibling.
THEOREM LeavesAlwaysKept ==
  ASSUME Checkpoints = {}
  PROVE  Spec => []LeavesKept
<1>1. Inv => LeavesKept
  BY LeavesFollow
<1> QED BY <1>1, Invariant, PTL

\* Whenever the tip changes the new chain extends the old one, or a reorg is
\* published whose parent is in both.
THEOREM SignalsAlwaysFollow ==
  ASSUME Checkpoints = {}
  PROVE  Spec => SignalsFollow
<1>1. Inv /\ [Next]_vars =>
        [best_chain[tip] # best_chain'[tip'] =>
           \/ best_chain[tip] \in BestHeaders'
           \/ /\ signal'.type = "reorg"
              /\ signal'.parent.hash \in BestHeaders \cap BestHeaders'
              /\ signal'.tip.hash = best_chain'[tip']]_vars
  BY SignalsStep
<1> QED BY <1>1, Invariant, PTL DEF Spec, SignalsFollow

\* The oracle implements ChainSelection: the best chain is one with the most work
\* among those that are known, and only more work replaces it.
THEOREM SelectionImplemented ==
  ASSUME Checkpoints = {}
  PROVE  Spec => ImplementsSelection
<1>1. Init => Selection!Init
  <2>1. ASSUME Init PROVE Selection!Init
    <3>1. DOMAIN headers = {Genesis} /\ best_chain[tip] = Genesis
      BY <2>1 DEF Init
    <3> QED BY <3>1 DEF Selection!Init
  <2> QED BY <2>1
<1>2. Inv /\ Inv' /\ [Next]_vars => [Selection!Learn]_(Selection!chainVars)
  <2>1. ASSUME UNCHANGED vars PROVE UNCHANGED Selection!chainVars
    BY <2>1 DEF vars, Selection!chainVars
  <2> QED BY <2>1, SelectionStep
<1> QED BY <1>1, <1>2, Invariant, PTL DEF Spec, ImplementsSelection, Selection!Spec
=============================================================================
