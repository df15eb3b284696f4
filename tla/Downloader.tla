------------------------------ MODULE Downloader ------------------------------
(***************************************************************************)
(* Downloader (node/Downloader.cpp): the queue of blocks between the tip   *)
(* that a component has reached and the tip of the best chain.  The actor  *)
(* of the block oracle and the block indexer each own one and call it from *)
(* their own thread only, so that a call is one action.                    *)
(*                                                                         *)
(* The maps downloading_ and ready_ have the height as their key.  Here    *)
(* they are sets of blocks; that there is one block per height follows     *)
(* from an invariant.  The environment is the header oracle, whose best    *)
(* chain may change in any way between two calls, and the blocks that      *)
(* arrive, wanted or not.                                                  *)
(*                                                                         *)
(* Where an assertion of the code ends the process the action is guarded,  *)
(* and AssertionsHold states that the guard holds whenever it is reached.  *)
(***************************************************************************)
EXTENDS BlockTree

CONSTANT Limit   \* the most blocks that one AddBlocks adds

ASSUME LimitAssumption == Limit \in Nat \ {0}

VARIABLES
  best,          \* the tip of the best chain of the header oracle
  tip,           \* tip_
  downloading,   \* downloading_
  ready,         \* ready_
  index          \* index_; the height it maps a block to is that of the block

vars == <<best, tip, downloading, ready, index>>

Init ==
  /\ best \in Block
  /\ tip \in Block
  /\ downloading = {} /\ ready = {} /\ index = {}

Queue == downloading \cup ready

NextPositionReady ==  \* mutant: a ready block hides those being downloaded
  IF ready # {} THEN Highest(ready)
  ELSE IF downloading # {} THEN Highest(downloading) ELSE tip

NextPosition == IF Queue = {} THEN tip ELSE Highest(Queue)

AncestorByHeight ==  \* mutant: the best chain is taken for an extension
  Highest({b \in Chain[best] : Height[b] <= Height[NextPosition]})

\* The first of the positions that HeaderOracle::Ancestors returns.
Ancestor == CommonAncestor(NextPosition, best)

\* An ancestor makes the tip obsolete if it is lower, or another block.
Replaces(a, p) ==
  \/ Height[a] < Height[p]
  \/ Height[a] = Height[p] /\ a # p

\* What adjust_tip leaves of a map: the entries below the ancestor, and the
\* one of its height if it is the ancestor.
Kept(S, a) == {b \in S : Height[b] < Height[a] \/ b = a}

NewInclusive ==  \* mutant: the ancestor itself is queued again
  {b \in Chain[best] : Height[b] >= Height[Ancestor]
                        /\ Height[b] <= Height[Ancestor] + Limit}

\* The blocks that AddBlocks queues, and whether more are to come.  They are
\* above all that is kept, as the assertion of AddBlocks demands.
New == {b \in After(Ancestor, best) : Height[b] <= Height[Ancestor] + Limit}
More == New # After(Ancestor, best)

AddBlocks ==
  LET a == Ancestor
  IN IF Replaces(a, tip)
     THEN /\ tip' = a
          /\ downloading' = New
          /\ ready' = {}
          /\ index' = index \cup New
     ELSE /\ downloading' = Kept(downloading, a) \cup New
          /\ ready' = Kept(ready, a)
          /\ index' = (index \ (Queue \ Kept(Queue, a))) \cup New
          /\ UNCHANGED tip

\* No entry of ready_ is at the height of a block that is moved there.
ReceiveCheck(b) ==
  b \in downloading => \A c \in ready : Height[c] # Height[b]

\* receive_block, for a caller that knows the height of the block.
ReceiveAt(b) ==
  /\ ReceiveCheck(b)
  /\ IF b \in downloading
     THEN /\ downloading' = downloading \ {b}
          /\ ready' = ready \cup {b}
          /\ index' = index \ {b}
     ELSE UNCHANGED <<downloading, ready, index>>
  /\ UNCHANGED tip

\* ReceiveBlock, which finds the height in the index.
Receive(b) ==
  IF b \in index THEN ReceiveAt(b)
                 ELSE UNCHANGED <<tip, downloading, ready, index>>

\* The ready blocks that follow the tip without a gap.
Run ==
  {b \in ready : \A h \in Height[tip] + 1 .. Height[b] :
                   \E c \in ready : Height[c] = h}

Reached == IF Run = {} THEN tip ELSE Highest(Run)

\* No ready block was passed by, and the first gap is being downloaded.
UpdateCheck ==
  /\ \A b \in ready : Height[b] > Height[tip]
  /\ ready # Run =>
       \E b \in downloading : Height[b] = Height[Reached] + 1

UpdatePastGap ==  \* mutant: the tip moves to the highest block that is ready
  /\ UpdateCheck
  /\ tip' = IF ready = {} THEN tip ELSE Highest(ready)
  /\ ready' = {}
  /\ index' = IF downloading = {} THEN {} ELSE index
  /\ UNCHANGED downloading

UpdateForgetful ==  \* mutant: the index is cleared while blocks are missing
  /\ UpdateCheck
  /\ tip' = Reached
  /\ ready' = ready \ Run
  /\ index' = IF ready' = {} THEN {} ELSE index
  /\ UNCHANGED downloading

Update ==
  /\ UpdateCheck
  /\ tip' = Reached
  /\ ready' = ready \ Run
  /\ index' = IF downloading = {} /\ ready' = {} THEN {} ELSE index
  /\ UNCHANGED downloading

\* The header oracle changes its mind.
NewBest(b) ==
  /\ best' = b
  /\ UNCHANGED <<tip, downloading, ready, index>>

Next ==
  \/ AddBlocks /\ UNCHANGED best
  \/ Update /\ UNCHANGED best
  \/ \E b \in Block :
       \/ NewBest(b)
       \/ Receive(b) /\ UNCHANGED best
       \/ ReceiveAt(b) /\ UNCHANGED best

Spec == Init /\ [][Next]_vars

-----------------------------------------------------------------------------
(***************************************************************************)
(* Properties.                                                             *)
(***************************************************************************)
\* Types of the variables; the genesis block is never downloaded.
TypeOK ==
  /\ best \in Block
  /\ tip \in Block
  /\ downloading \subseteq Block \ {Genesis}
  /\ ready \subseteq Block \ {Genesis}
  /\ index \subseteq Block \ {Genesis}

\* The two maps together hold the chain from the tip to the next position,
\* each block once, whatever reorgs happened while blocks were under way.
QueueIsChain ==
  /\ downloading \cap ready = {}
  /\ tip \in Chain[NextPosition]
  /\ Queue = After(tip, NextPosition)

\* A block that is being downloaded is recognised when it arrives, although
\* stale and finished entries are removed from the index.
AwaitedIsIndexed == downloading \subseteq index

\* No assertion of receive_block or Update can fail.
AssertionsHold ==
  /\ \A b \in Block : ReceiveCheck(b)
  /\ UpdateCheck

\* The tip moves along one chain.
Follower == INSTANCE ChainFollower WITH reached <- tip
TipFollowsChain == Follower!Spec
=============================================================================
