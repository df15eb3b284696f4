---------------------------- MODULE Downloader_proof ----------------------------
(***************************************************************************)
(* Proofs about Downloader, for every tree of blocks, every limit and any  *)
(* sequence of reorgs and arriving blocks.                                 *)
(***************************************************************************)
EXTENDS Downloader, WellFoundedInduction, TLAPS

(***************************************************************************)
(* Facts about the tree.                                                   *)
(***************************************************************************)

\* A set of natural numbers that is not empty has a least element.
LEMMA NatMin ==
  ASSUME NEW T \in SUBSET Nat, T # {}
  PROVE  \E x \in T : \A y \in T : x <= y
<1> DEFINE R == {ss \in Nat \X Nat : ss[1] < ss[2]}
<1>1. IsWellFoundedOn(R, Nat)
  BY NatLessThanWellFounded, Zenon DEF OpToRel
<1>2. \A x, y \in Nat : x < y => <<x, y>> \in R
  BY SMT
<1> HIDE DEF R
<1>3. PICK x \in T : \A y \in T : ~ (<<y, x>> \in R)
  BY <1>1, WFMin
<1>4. \A y \in T : ~ (y < x)
  BY <1>2, <1>3
<1>5. \A y \in T : x <= y
  BY <1>4
<1> QED
  BY <1>5

\* The blocks of a chain that are in S have a highest one.
LEMMA HighestExists ==
  ASSUME NEW x \in Block, NEW S \in SUBSET Chain[x], S # {}
  PROVE  /\ Highest(S) \in S
         /\ \A c \in S : Height[c] <= Height[Highest(S)]
<1>1. \A c \in S : c \in Block /\ Height[c] \in Nat /\ Height[c] <= Height[x]
  BY TreeAssumption
<1> DEFINE Depth == {Height[x] - Height[c] : c \in S}
<1>2. Height[x] \in Nat
  BY TreeAssumption
<1>3. Depth \in SUBSET Nat /\ Depth # {}
  BY <1>1, <1>2
<1>4. PICK d \in Depth : \A e \in Depth : d <= e
  <2> HIDE DEF Depth
  <2> QED BY <1>3, NatMin
<1>5. PICK b \in S : d = Height[x] - Height[b]
  BY <1>4
<1>6. ASSUME NEW c \in S PROVE Height[c] <= Height[b]
  <2>1. d <= Height[x] - Height[c]
    BY <1>4
  <2> HIDE DEF Depth
  <2> QED BY <1>1, <1>2, <1>5, <2>1
<1> QED
  BY <1>6 DEF Highest

\* A block of S that is as high as any other is the highest one.
LEMMA HighestIs ==
  ASSUME NEW x \in Block, NEW S \in SUBSET Chain[x], NEW b \in S,
         \A c \in S : Height[c] <= Height[b]
  PROVE  Highest(S) = b
<1>1. /\ Highest(S) \in S
      /\ \A c \in S : Height[c] <= Height[Highest(S)]
  BY HighestExists
<1>2. Height[Highest(S)] = Height[b]
  BY <1>1, TreeAssumption
<1> QED
  BY <1>1, <1>2, TreeAssumption

\* The chain of a block of a chain is the lower part of that chain.
LEMMA Prefix ==
  ASSUME NEW x \in Block, NEW a \in Chain[x]
  PROVE  /\ a \in Block
         /\ Chain[a] \subseteq Chain[x]
         /\ \A c \in Chain[x] : Height[c] <= Height[a] <=> c \in Chain[a]
  BY TreeAssumption

\* Two chains are the same up to the common ancestor of their tips.
LEMMA CommonAncestorCorrect ==
  ASSUME NEW x \in Block, NEW y \in Block
  PROVE  /\ CommonAncestor(x, y) \in Chain[x] \cap Chain[y]
         /\ CommonAncestor(x, y) \in Block
<1>1. Chain[x] \cap Chain[y] # {} /\ Chain[x] \subseteq Block
  BY TreeAssumption
<1>2. CommonAncestor(x, y) \in Chain[x] \cap Chain[y]
  BY <1>1, HighestExists DEF CommonAncestor
<1> QED
  BY <1>1, <1>2

\* Where a queue that holds the chain from t to e ends.
LEMMA NextOf ==
  ASSUME NEW e \in Block, NEW t \in Chain[e], NEW Q, Q = After(t, e)
  PROVE  (IF Q = {} THEN t ELSE Highest(Q)) = e
<1>1. t \in Block /\ Height[t] \in Nat /\ Height[e] \in Nat /\ e \in Chain[e]
  BY TreeAssumption
<1>2. Height[t] <= Height[e]
  BY TreeAssumption
<1>3. CASE Height[t] = Height[e]
  <2>1. t = e
    BY <1>1, <1>3, TreeAssumption
  <2>2. Q = {}
    BY <2>1, TreeAssumption DEF After
  <2> QED
    BY <2>1, <2>2
<1>4. CASE Height[t] # Height[e]
  <2>1. e \in Q
    BY <1>1, <1>2, <1>4 DEF After
  <2>2. Q \in SUBSET Chain[e] /\ \A c \in Q : Height[c] <= Height[e]
    BY TreeAssumption DEF After
  <2>3. Highest(Q) = e
    BY <2>1, <2>2, HighestIs
  <2> QED
    BY <2>1, <2>3
<1> QED
  BY <1>3, <1>4

(***************************************************************************)
(* The inductive invariant.                                                *)
(***************************************************************************)
Inv ==
  /\ TypeOK
  /\ NextPosition \in Block
  /\ QueueIsChain
  /\ AwaitedIsIndexed

\* A queue from the tip to e makes e the next position.
LEMMA QueueEndsAt ==
  ASSUME NEW e \in Block, tip \in Chain[e], Queue = After(tip, e)
  PROVE  NextPosition = e
BY NextOf DEF NextPosition

\* The same in the state after a step.
LEMMA QueueEndsAtPrime ==
  ASSUME NEW e \in Block, tip' \in Chain[e], Queue' = After(tip', e)
  PROVE  NextPosition' = e
BY NextOf DEF NextPosition

\* The invariant holds before the first call.
LEMMA InitInv == Init => Inv
<1> SUFFICES ASSUME Init PROVE Inv
  OBVIOUS
<1>1. TypeOK /\ AwaitedIsIndexed /\ Queue = {}
  BY DEF Init, TypeOK, AwaitedIsIndexed, Queue
<1>2. NextPosition = tip
  BY <1>1 DEF NextPosition
<1>3. After(tip, tip) = {}
  BY <1>1, TreeAssumption DEF After, TypeOK
<1>4. tip \in Chain[tip]
  BY <1>1, TreeAssumption DEF TypeOK
<1> QED
  BY <1>1, <1>2, <1>3, <1>4 DEF Inv, QueueIsChain, TypeOK, Init

\* The position at which the queue ends after AddBlocks.
End == IF New = {} THEN Ancestor ELSE Highest(New)

\* AddBlocks queues the chain from the ancestor to that position.
LEMMA NewIsChain ==
  ASSUME Inv
  PROVE  /\ Ancestor \in Chain[NextPosition] /\ Ancestor \in Block
         /\ End \in Block
         /\ Ancestor \in Chain[End]
         /\ New = After(Ancestor, End)
<1>1. best \in Block /\ NextPosition \in Block
  BY DEF Inv, TypeOK
<1>2. /\ Ancestor \in Chain[NextPosition] \cap Chain[best]
      /\ Ancestor \in Block
  BY <1>1, CommonAncestorCorrect DEF Ancestor
<1> DEFINE a == Ancestor
<1>3. \A b \in New : /\ b \in Chain[best] /\ b \in Block
                     /\ Height[b] > Height[a] /\ Height[b] <= Height[a] + Limit
  BY <1>1, TreeAssumption DEF New, After
<1>4. Height[a] \in Nat /\ Limit \in Nat /\ a \in Chain[a]
  BY <1>2, TreeAssumption, LimitAssumption
<1>5. CASE New = {}
  <2>1. End = a
    BY <1>5 DEF End
  <2>2. After(a, a) = {}
    BY <1>2, TreeAssumption DEF After
  <2> QED
    BY <1>2, <1>4, <1>5, <2>1, <2>2
<1>6. CASE New # {}
  <2>1. End \in New /\ \A c \in New : Height[c] <= Height[End]
    BY <1>1, <1>3, <1>6, HighestExists DEF End
  <2>2. End \in Chain[best] /\ End \in Block /\ Height[End] \in Nat
    BY <1>3, <2>1, TreeAssumption
  <2>3. \A c \in Chain[best] : Height[c] \in Nat /\ (Height[c] <= Height[End] <=> c \in Chain[End])
    BY <1>1, <2>2, TreeAssumption
  <2>4. Chain[End] \subseteq Chain[best]
    BY <1>1, <2>2, TreeAssumption
  <2>5. a \in Chain[End]
    BY <1>2, <1>3, <1>4, <2>1, <2>2, <2>3
  <2>6. ASSUME NEW b \in New PROVE b \in After(a, End)
    BY <1>3, <2>1, <2>3, <2>6 DEF After
  <2>7. ASSUME NEW b \in After(a, End) PROVE b \in New
    <3>1. b \in Chain[best] /\ Height[b] > Height[a] /\ Height[b] <= Height[End]
      BY <2>3, <2>4, <2>7 DEF After
    <3>2. Height[b] <= Height[a] + Limit
      BY <1>3, <1>4, <2>1, <2>2, <2>3, <3>1
    <3> QED
      BY <3>1, <3>2 DEF New, After
  <2> QED
    BY <1>2, <2>2, <2>5, <2>6, <2>7
<1> QED
  BY <1>5, <1>6

\* If an ancestor a of n does not replace t, what it leaves of the chain from
\* t to n is the chain from t to a.
LEMMA KeptOfChain ==
  ASSUME NEW n \in Block, NEW t \in Chain[n], NEW a \in Chain[n],
         ~ Replaces(a, t)
  PROVE  /\ t \in Chain[a]
         /\ Kept(After(t, n), a) = After(t, a)
<1>1. /\ Height[t] \in Nat /\ Height[a] \in Nat /\ t \in Block /\ a \in Block
      /\ \A c \in Chain[n] : c \in Block /\ Height[c] \in Nat
  BY TreeAssumption
<1>2. Height[t] <= Height[a]
  BY <1>1 DEF Replaces
<1>3. t \in Chain[a]
  BY <1>2, Prefix
<1>4. \A c \in Chain[n] : Height[c] <= Height[a] <=> c \in Chain[a]
  BY Prefix
<1>5. Chain[a] \subseteq Chain[n]
  BY Prefix
<1>6. \A c \in Chain[n] : Height[c] = Height[a] => c = a
  BY TreeAssumption
<1>7. \A c \in Chain[a] : Height[c] < Height[a] \/ c = a
  BY <1>1, <1>4, <1>5, <1>6
<1>8. a \in Chain[a]
  BY <1>1, TreeAssumption
<1>9. \A b : b \in Kept(After(t, n), a) => b \in After(t, a)
  BY <1>1, <1>4, <1>8 DEF Kept, After
<1>10. \A b : b \in After(t, a) => b \in Kept(After(t, n), a)
  BY <1>5, <1>7 DEF Kept, After
<1> QED
  BY <1>3, <1>9, <1>10

\* What adjust_tip keeps is the chain from the tip to the ancestor.
LEMMA KeptIsChain ==
  ASSUME Inv, ~ Replaces(Ancestor, tip)
  PROVE  /\ tip \in Chain[Ancestor]
         /\ Kept(Queue, Ancestor) = After(tip, Ancestor)
<1>1. /\ NextPosition \in Block /\ tip \in Chain[NextPosition]
      /\ Queue = After(tip, NextPosition)
      /\ Ancestor \in Chain[NextPosition]
  BY NewIsChain DEF Inv, QueueIsChain
<1> QED
  BY <1>1, KeptOfChain

\* AddBlocks replaces the queue above the ancestor by the new chain.
LEMMA AddBlocksInv ==
  ASSUME Inv, AddBlocks, UNCHANGED best
  PROVE  Inv' /\ NextPosition' = End
<1> DEFINE a == Ancestor
<1>1. /\ a \in Chain[NextPosition] /\ a \in Block
      /\ End \in Block /\ a \in Chain[End] /\ New = After(a, End)
  BY NewIsChain
<1>2. /\ \A c \in Chain[End] : c \in Block /\ Height[c] \in Nat
      /\ Height[a] \in Nat
      /\ Chain[a] \subseteq Chain[End]
      /\ \A c \in Chain[End] : Height[c] <= Height[a] <=> c \in Chain[a]
  BY <1>1, TreeAssumption, Prefix
<1>3. CASE Replaces(a, tip)
  <2>1. /\ tip' = a /\ downloading' = New /\ ready' = {}
        /\ index' = index \cup New
    BY <1>3 DEF AddBlocks
  <2>2. Queue' = After(tip', End) /\ tip' \in Chain[End]
    BY <1>1, <2>1 DEF Queue
  <2>3. NextPosition' = End
    BY <1>1, <2>2, QueueEndsAtPrime
  <2>4. New \subseteq Block \ {Genesis}
    BY <1>1, <1>2, TreeAssumption DEF After
  <2>5. TypeOK' /\ AwaitedIsIndexed'
    BY <1>1, <2>1, <2>4 DEF Inv, TypeOK, AwaitedIsIndexed
  <2>6. QueueIsChain'
    BY <2>1, <2>2, <2>3 DEF QueueIsChain
  <2> QED
    BY <1>1, <2>3, <2>5, <2>6 DEF Inv
<1>4. CASE ~ Replaces(a, tip)
  <2>1. /\ tip' = tip
        /\ downloading' = Kept(downloading, a) \cup New
        /\ ready' = Kept(ready, a)
        /\ index' = (index \ (Queue \ Kept(Queue, a))) \cup New
    BY <1>4 DEF AddBlocks
  <2>2. tip \in Chain[a] /\ Kept(Queue, a) = After(tip, a)
    BY <1>4, KeptIsChain
  <2>3. Kept(Queue, a) = Kept(downloading, a) \cup Kept(ready, a)
    BY DEF Kept, Queue
  <2>4. After(tip, a) \cup After(a, End) = After(tip, End)
    <3>1. Height[tip] \in Nat /\ Height[tip] <= Height[a]
      BY <1>1, <2>2, TreeAssumption
    <3>2. \A c \in Chain[End] : Height[c] > Height[a] => Height[c] > Height[tip]
      BY <1>2, <3>1
    <3>3. \A c \in Chain[End] : c \in Chain[a] \/ Height[c] > Height[a]
      BY <1>2
    <3> QED
      BY <1>2, <3>2, <3>3 DEF After
  <2>5. Queue' = After(tip', End) /\ tip' \in Chain[End]
    BY <1>1, <1>2, <2>1, <2>2, <2>3, <2>4 DEF Queue
  <2>6. NextPosition' = End
    BY <1>1, <2>5, QueueEndsAtPrime
  <2>7. New \subseteq Block \ {Genesis}
    BY <1>1, <1>2, TreeAssumption DEF After
  <2>8. TypeOK'
    BY <2>1, <2>7 DEF Inv, TypeOK, Kept
  <2>9. AwaitedIsIndexed'
    <3>1. Kept(downloading, a) \subseteq index
      BY DEF Inv, AwaitedIsIndexed, Kept
    <3> QED
      BY <2>1, <2>3, <3>1 DEF AwaitedIsIndexed
  <2>10. downloading' \cap ready' = {}
    <3>1. \A b \in ready' : b \in ready /\ b \in Chain[a]
      BY <2>1, <2>2, <2>3 DEF Kept, After
    <3>2. \A b \in New : b \notin Chain[a]
      BY <1>1, <1>2 DEF After
    <3>3. Kept(downloading, a) \cap ready = {}
      BY DEF Inv, QueueIsChain, Kept
    <3> QED
      BY <2>1, <3>1, <3>2, <3>3
  <2> QED
    BY <1>1, <2>5, <2>6, <2>8, <2>9, <2>10 DEF Inv, QueueIsChain
<1> QED
  BY <1>3, <1>4

\* A block that arrives only changes the map it is in.
LEMMA SameQueue ==
  ASSUME Inv, Queue' = Queue, tip' = tip
  PROVE  NextPosition' = NextPosition
BY DEF NextPosition

\* An arriving block moves from one map to the other or is ignored.
LEMMA ReceiveInv ==
  ASSUME Inv, NEW b \in Block, ReceiveAt(b), UNCHANGED best
  PROVE  Inv' /\ NextPosition' = NextPosition
<1>1. tip' = tip /\ best' = best
  BY DEF ReceiveAt
<1>2. CASE b \in downloading
  <2>1. /\ downloading' = downloading \ {b} /\ ready' = ready \cup {b}
        /\ index' = index \ {b}
    BY <1>2 DEF ReceiveAt
  <2>2. Queue' = Queue
    BY <1>2, <2>1 DEF Queue
  <2>3. NextPosition' = NextPosition
    BY <1>1, <2>2, SameQueue
  <2>4. TypeOK'
    <3>1. TypeOK
      BY DEF Inv
    <3> QED
      BY <1>1, <1>2, <2>1, <3>1 DEF TypeOK
  <2>5. AwaitedIsIndexed' /\ downloading' \cap ready' = {}
    BY <1>1, <1>2, <2>1 DEF Inv, AwaitedIsIndexed, QueueIsChain
  <2> QED
    BY <1>1, <2>2, <2>3, <2>4, <2>5 DEF Inv, QueueIsChain
<1>3. CASE b \notin downloading
  <2>1. UNCHANGED vars
    BY <1>1, <1>3 DEF ReceiveAt, vars
  <2> QED
    BY <2>1 DEF Inv, TypeOK, QueueIsChain, AwaitedIsIndexed, NextPosition,
                Queue, vars
<1> QED
  BY <1>2, <1>3

\* The ready blocks that follow the tip are the chain up to the new tip.
LEMMA RunIsChain ==
  ASSUME Inv
  PROVE  /\ Reached \in Chain[NextPosition] /\ Reached \in Block
         /\ tip \in Chain[Reached]
         /\ Run = After(tip, Reached)
<1> DEFINE n == NextPosition
<1>1. /\ n \in Block /\ tip \in Chain[n] /\ tip \in Block
      /\ Queue = After(tip, n) /\ ready \subseteq Queue
  BY DEF Inv, QueueIsChain, TypeOK, Queue
<1>2. /\ \A c \in Chain[n] : c \in Block /\ Height[c] \in Nat
      /\ \A c, d \in Chain[n] : Height[c] = Height[d] => c = d
      /\ Height[tip] \in Nat
  BY <1>1, TreeAssumption
<1>3. \A c \in Run : c \in ready /\ c \in Chain[n] /\ Height[c] > Height[tip]
  BY <1>1 DEF Run, After
<1>4. CASE Run = {}
  <2>1. Reached = tip
    BY <1>4 DEF Reached
  <2>2. After(tip, tip) = {} /\ tip \in Chain[tip]
    BY <1>1, TreeAssumption DEF After
  <2> QED
    BY <1>1, <1>4, <2>1, <2>2
<1>5. CASE Run # {}
  <2>1. Reached \in Run /\ \A c \in Run : Height[c] <= Height[Reached]
    BY <1>1, <1>3, <1>5, HighestExists DEF Reached
  <2>2. Reached \in Chain[n] /\ Reached \in Block /\ Height[Reached] \in Nat
    BY <1>2, <1>3, <2>1
  <2>3. /\ Chain[Reached] \subseteq Chain[n]
        /\ \A c \in Chain[n] : Height[c] <= Height[Reached] <=> c \in Chain[Reached]
    BY <1>1, <2>2, Prefix
  <2>4. tip \in Chain[Reached]
    BY <1>1, <1>2, <1>3, <2>1, <2>2, <2>3
  <2>5. ASSUME NEW b \in Run PROVE b \in After(tip, Reached)
    BY <1>3, <2>1, <2>3, <2>5 DEF After
  <2>6. ASSUME NEW b \in After(tip, Reached) PROVE b \in Run
    <3>1. /\ b \in Chain[n] /\ Height[b] \in Nat
          /\ Height[b] > Height[tip] /\ Height[b] <= Height[Reached]
      BY <1>2, <2>3, <2>6 DEF After
    <3>2. \A h \in Height[tip] + 1 .. Height[Reached] :
            \E c \in ready : Height[c] = h
      BY <2>1 DEF Run
    <3>3. Height[b] \in Height[tip] + 1 .. Height[Reached]
      BY <1>2, <2>2, <3>1
    <3>4. b \in ready
      BY <1>1, <1>2, <3>1, <3>2, <3>3 DEF After
    <3>5. \A h \in Height[tip] + 1 .. Height[b] :
            h \in Height[tip] + 1 .. Height[Reached]
      BY <1>2, <2>2, <3>1
    <3> QED
      BY <3>2, <3>4, <3>5 DEF Run
  <2> QED
    BY <2>2, <2>4, <2>5, <2>6
<1> QED
  BY <1>4, <1>5

\* Update cuts the front off the queue.
LEMMA UpdateInv ==
  ASSUME Inv, Update, UNCHANGED best
  PROVE  Inv' /\ NextPosition' = NextPosition
<1> DEFINE n == NextPosition
           r == Reached
<1>1. /\ r \in Chain[n] /\ r \in Block /\ tip \in Chain[r]
      /\ Run = After(tip, r)
  BY RunIsChain
<1>2. /\ n \in Block /\ Queue = After(tip, n) /\ downloading \cap ready = {}
      /\ TypeOK /\ downloading \subseteq index
  BY DEF Inv, QueueIsChain, AwaitedIsIndexed
<1>3. /\ tip' = r /\ ready' = ready \ Run /\ downloading' = downloading
      /\ index' = IF downloading = {} /\ ready' = {} THEN {} ELSE index
  BY DEF Update
<1>4. /\ \A c \in Chain[n] : c \in Block /\ Height[c] \in Nat
      /\ \A c \in Chain[n] : Height[c] <= Height[r] <=> c \in Chain[r]
      /\ Chain[r] \subseteq Chain[n]
      /\ Height[r] \in Nat /\ Height[tip] \in Nat /\ Height[tip] <= Height[r]
  BY <1>1, <1>2, TreeAssumption, Prefix
<1>5. Run \subseteq ready
  BY DEF Run
<1>6. Queue' = Queue \ Run
  BY <1>2, <1>3, <1>5 DEF Queue
<1>7. After(tip, n) \ After(tip, r) = After(r, n)
  BY <1>4 DEF After
<1>8. Queue' = After(tip', n) /\ tip' \in Chain[n]
  BY <1>1, <1>2, <1>3, <1>6, <1>7
<1>9. NextPosition' = n
  BY <1>2, <1>8, QueueEndsAtPrime
<1>10. TypeOK' /\ AwaitedIsIndexed' /\ downloading' \cap ready' = {}
  BY <1>1, <1>2, <1>3 DEF TypeOK, AwaitedIsIndexed
<1> QED
  BY <1>2, <1>8, <1>9, <1>10 DEF Inv, QueueIsChain

\* The invariant does not depend on the best chain.
LEMMA StutterInv ==
  ASSUME Inv, UNCHANGED <<tip, downloading, ready, index>>, best' \in Block
  PROVE  Inv' /\ NextPosition' = NextPosition
BY DEF Inv, TypeOK, QueueIsChain, AwaitedIsIndexed, NextPosition, Queue

\* Every step preserves the invariant.
LEMMA NextInv == Inv /\ [Next]_vars => Inv'
<1> SUFFICES ASSUME Inv, [Next]_vars PROVE Inv'
  OBVIOUS
<1>1. CASE AddBlocks /\ UNCHANGED best
  BY <1>1, AddBlocksInv
<1>2. CASE Update /\ UNCHANGED best
  BY <1>2, UpdateInv
<1>3. ASSUME NEW b \in Block, NewBest(b) PROVE Inv'
  BY <1>3, StutterInv DEF NewBest
<1>4. ASSUME NEW b \in Block, ReceiveAt(b), UNCHANGED best PROVE Inv'
  BY <1>4, ReceiveInv
<1>5. ASSUME NEW b \in Block, Receive(b), UNCHANGED best PROVE Inv'
  <2>1. CASE b \in index
    BY <1>5, <2>1, ReceiveInv DEF Receive
  <2>2. CASE b \notin index
    BY <1>5, <2>2, StutterInv DEF Receive, Inv, TypeOK
  <2> QED
    BY <2>1, <2>2
<1>6. CASE UNCHANGED vars
  BY <1>6, StutterInv DEF vars, Inv, TypeOK
<1> QED
  BY <1>1, <1>2, <1>3, <1>4, <1>5, <1>6 DEF Next

(***************************************************************************)
(* What follows from the invariant.                                        *)
(***************************************************************************)

\* The assertions of receive_block and Update hold in every state.
LEMMA InvChecks ==
  ASSUME Inv
  PROVE  AssertionsHold
<1> DEFINE n == NextPosition
           r == Reached
<1>1. /\ r \in Chain[n] /\ r \in Block /\ tip \in Chain[r]
      /\ Run = After(tip, r)
  BY RunIsChain
<1>2. /\ n \in Block /\ Queue = After(tip, n) /\ downloading \cap ready = {}
      /\ downloading \cup ready = Queue
  BY DEF Inv, QueueIsChain, Queue
<1>3. /\ \A c \in Chain[n] : c \in Block /\ Height[c] \in Nat
      /\ \A c, d \in Chain[n] : Height[c] = Height[d] => c = d
      /\ \A c \in Chain[n] : Height[c] <= Height[r] <=> c \in Chain[r]
      /\ Height[r] \in Nat /\ Height[tip] \in Nat /\ Height[tip] <= Height[r]
      /\ Height[n] \in Nat
  BY <1>1, <1>2, TreeAssumption
<1>4. \A c \in Queue : c \in Chain[n] /\ Height[c] > Height[tip]
  BY <1>2 DEF After
<1>5. ASSUME NEW b \in Block PROVE ReceiveCheck(b)
  BY <1>2, <1>3, <1>4 DEF ReceiveCheck
<1>6. ASSUME ready # Run
      PROVE  \E b \in downloading : Height[b] = Height[r] + 1
  <2>1. PICK b \in ready : b \notin Run
    BY <1>6 DEF Run
  <2>2. b \in Chain[n] /\ Height[b] > Height[tip] /\ Height[b] \in Nat
    BY <1>2, <1>3, <1>4, <2>1
  <2>3. Height[b] > Height[r]
    BY <1>1, <1>3, <2>1, <2>2 DEF After
  <2>4. Height[b] <= Height[n]
    BY <1>2, <2>2, TreeAssumption
  <2>5. PICK d \in Chain[n] : Height[d] = Height[r] + 1
    <3>1. Height[r] + 1 \in 0 .. Height[n]
      BY <1>3, <2>2, <2>3, <2>4
    <3> QED
      BY <1>2, <3>1, TreeAssumption
  <2>6. d \in Queue
    BY <1>2, <1>3, <2>5 DEF After
  <2>7. ASSUME d \in ready PROVE FALSE
    <3>1. ASSUME NEW h \in Height[tip] + 1 .. Height[d]
          PROVE  \E c \in ready : Height[c] = h
      <4>1. CASE h = Height[d]
        BY <2>7, <4>1
      <4>2. CASE h # Height[d]
        <5>1. h \in 0 .. Height[r] /\ h > Height[tip]
          BY <1>3, <2>5, <3>1, <4>2
        <5>2. PICK c \in Chain[r] : Height[c] = h
          BY <1>1, <5>1, TreeAssumption
        <5>3. c \in Run
          BY <1>1, <5>1, <5>2 DEF After
        <5> QED
          BY <5>2, <5>3 DEF Run
      <4> QED
        BY <4>1, <4>2
    <3>2. d \in Run
      BY <2>7, <3>1 DEF Run
    <3>3. d \in Chain[r]
      BY <1>1, <3>2 DEF After
    <3> QED
      BY <1>3, <2>5, <3>3
  <2> QED
    BY <1>2, <2>5, <2>6, <2>7
<1>7. UpdateCheck
  BY <1>2, <1>4, <1>6 DEF UpdateCheck
<1> QED
  BY <1>5, <1>7 DEF AssertionsHold

\* A step of Downloader moves the tip along one chain or not at all.
LEMMA NextFollows ==
  ASSUME Inv, [Next]_vars
  PROVE  [Follower!Next]_tip
<1>1. tip \in Block /\ tip \in Chain[NextPosition] /\ NextPosition \in Block
  BY DEF Inv, TypeOK, QueueIsChain
<1>2. CASE AddBlocks
  <2>1. CASE Replaces(Ancestor, tip)
    <3>1. tip' = Ancestor
      BY <1>2, <2>1 DEF AddBlocks
    <3>2. Ancestor \in Chain[NextPosition]
      BY NewIsChain
    <3>3. Height[Ancestor] <= Height[tip]
      BY <2>1, <3>2, <1>1, TreeAssumption DEF Replaces
    <3>4. Ancestor \in Chain[tip]
      BY <1>1, <3>2, <3>3, Prefix
    <3> QED
      BY <3>1, <3>4 DEF Follower!Next, Follower!Rewind
  <2>2. CASE ~ Replaces(Ancestor, tip)
    BY <1>2, <2>2 DEF AddBlocks
  <2> QED
    BY <2>1, <2>2
<1>3. CASE Update
  <2>1. tip' = Reached
    BY <1>3 DEF Update
  <2>2. Reached \in Block /\ tip \in Chain[Reached]
    BY RunIsChain
  <2> QED
    BY <2>1, <2>2 DEF Follower!Next, Follower!Advance
<1>4. CASE tip' = tip
  BY <1>4
<1>5. ASSUME NEW b \in Block, NewBest(b) \/ Receive(b) \/ ReceiveAt(b)
      PROVE  tip' = tip
  BY <1>5 DEF NewBest, Receive, ReceiveAt
<1> QED
  BY <1>2, <1>3, <1>4, <1>5 DEF Next, vars

(***************************************************************************)
(* The theorems.                                                           *)
(***************************************************************************)

\* The strengthened invariant: reorgs, new blocks and late blocks in any
\* order leave the maps of the Downloader a chain that starts at tip_.
THEOREM Invariant == Spec => []Inv
<1> QED
  BY InitInv, NextInv, PTL DEF Spec

\* The maps hold blocks, and nothing else gets into them.
THEOREM TypeCorrect == Spec => []TypeOK
<1>1. Inv => TypeOK
  BY DEF Inv
<1> QED
  BY <1>1, Invariant, PTL

\* downloading_ and ready_ hold each block between tip_ and the next position
\* once, in one chain, whatever adjust_tip had to remove.
THEOREM QueueCorrect == Spec => []QueueIsChain
<1>1. Inv => QueueIsChain
  BY DEF Inv
<1> QED
  BY <1>1, Invariant, PTL

\* ReceiveBlock finds each block that is being downloaded in index_.
THEOREM IndexCorrect == Spec => []AwaitedIsIndexed
<1>1. Inv => AwaitedIsIndexed
  BY DEF Inv
<1> QED
  BY <1>1, Invariant, PTL

\* Neither receive_block nor Update can reach its abort.
THEOREM AssertionsCorrect == Spec => []AssertionsHold
<1>1. Inv => AssertionsHold
  BY InvChecks
<1> QED
  BY <1>1, Invariant, PTL

\* Downloader implements ChainFollower: set_tip_ is only ever called with a
\* descendant or an ancestor of the position that was reached before.
THEOREM TipCorrect == Spec => TipFollowsChain
<1>1. Init => Follower!Init
  BY DEF Init, Follower!Init
<1>2. Inv /\ [Next]_vars => [Follower!Next]_tip
  BY NextFollows
<1> QED
  BY <1>1, <1>2, Invariant, PTL DEF Spec, TipFollowsChain, Follower!Spec
=============================================================================
