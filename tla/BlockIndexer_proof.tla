--------------------------- MODULE BlockIndexer_proof ---------------------------
(***************************************************************************)
(* Proofs about BlockIndexer, for every tree of blocks, every size of its  *)
(* batches, any number of threads, reorgs, blocks that cannot be read and  *)
(* restarts.                                                               *)
(***************************************************************************)
EXTENDS BlockIndexer, FiniteSetTheorems, TLAPS

\* The downloader of the indexer with what has been proved about it.
P == INSTANCE Downloader_proof WITH tip <- dl_tip, downloading <- dl_downloading,
                                    ready <- dl_ready, index <- dl_index

(***************************************************************************)
(* Facts about the tree.                                                   *)
(***************************************************************************)

\* What the facts about Downloader assume.
LEMMA Assumptions == P!TreeAssumption /\ P!LimitAssumption
BY TreeAssumption, BoundsAssumption DEF P!TreeAssumption, P!LimitAssumption

\* The chain of a block of a chain is the lower part of that chain.
LEMMA Prefix ==
  ASSUME NEW x \in Block, NEW a \in Chain[x]
  PROVE  /\ a \in Block
         /\ Chain[a] \subseteq Chain[x]
         /\ \A c \in Chain[x] : Height[c] <= Height[a] <=> c \in Chain[a]
BY TreeAssumption

\* The blocks of a chain that are in S have a highest one.
LEMMA HighestExists ==
  ASSUME NEW x \in Block, NEW S \in SUBSET Chain[x], S # {}
  PROVE  /\ Highest(S) \in S
         /\ \A c \in S : Height[c] <= Height[Highest(S)]
<1>1. P!Highest(S) = Highest(S)
  BY DEF P!Highest, Highest
<1>2. /\ P!Highest(S) \in S
      /\ \A c \in S : Height[c] <= Height[P!Highest(S)]
  BY P!HighestExists, Assumptions
<1> QED
  BY <1>1, <1>2

\* Where a queue that holds the chain from t to e ends.
LEMMA NextOf ==
  ASSUME NEW e \in Block, NEW t \in Chain[e], NEW Q, Q = After(t, e)
  PROVE  (IF Q = {} THEN t ELSE Highest(Q)) = e
BY P!NextOf, Assumptions DEF P!Highest, Highest, P!After, After

\* If an ancestor a of n does not replace t, what it leaves of the chain from
\* t to n is the chain from t to a.
LEMMA KeptOfChain ==
  ASSUME NEW n \in Block, NEW t \in Chain[n], NEW a \in Chain[n],
         ~ D!Replaces(a, t)
  PROVE  /\ t \in Chain[a]
         /\ D!Kept(After(t, n), a) = After(t, a)
BY P!KeptOfChain, Assumptions
   DEF P!After, After, P!Kept, D!Kept, P!Replaces, D!Replaces

\* The genesis block is the lowest one.
LEMMA GenesisIsLowest ==
  /\ Height[Genesis] = 0
  /\ Chain[Genesis] = {Genesis}
<1>1. Genesis \in Block /\ Height[Genesis] \in Nat
  BY TreeAssumption
<1>2. PICK a \in Chain[Genesis] : Height[a] = 0
  BY <1>1, TreeAssumption
<1>3. a \in Block /\ Genesis \in Chain[a]
  BY <1>1, TreeAssumption
<1>4. Height[Genesis] = 0
  BY <1>1, <1>2, <1>3, TreeAssumption
<1>5. \A c \in Chain[Genesis] : c \in Block /\ Height[c] \in Nat /\ Height[c] <= 0
  BY <1>1, <1>4, TreeAssumption
<1>6. \A c \in Chain[Genesis] : c = Genesis
  BY <1>1, <1>4, <1>5, TreeAssumption
<1> QED
  BY <1>1, <1>4, <1>6, TreeAssumption

\* The parent of a block of a chain is the block of that chain below it.
LEMMA ParentIs ==
  ASSUME NEW x \in Block, NEW b \in Chain[x], NEW c \in Chain[x],
         Height[c] + 1 = Height[b]
  PROVE  Parent(b) = c
<1>1. /\ Height[c] \in Nat /\ Height[b] \in Nat /\ b \in Block
  BY TreeAssumption
<1>2. c \in Chain[b] /\ Chain[b] \subseteq Chain[x]
  BY <1>1, Prefix
<1>3. ASSUME NEW d \in Chain[b], Height[d] + 1 = Height[b] PROVE d = c
  <2>1. d \in Block /\ Height[d] \in Nat
    BY <1>1, TreeAssumption
  <2>2. Height[d] = Height[c]
    BY <1>1, <1>3, <2>1
  <2> QED
    BY <1>1, <1>2, <2>2, TreeAssumption
<1> QED
  BY <1>2, <1>3 DEF Parent

\* Every other block has a parent.
LEMMA ParentExists ==
  ASSUME NEW b \in Block, b # Genesis
  PROVE  Parent(b) \in Chain[b] /\ Height[Parent(b)] + 1 = Height[b]
<1>1. Height[b] \in Nat /\ Genesis \in Chain[b] /\ b \in Chain[b]
  BY TreeAssumption
<1>2. Height[b] # 0
  BY <1>1, GenesisIsLowest, TreeAssumption
<1>3. PICK c \in Chain[b] : Height[c] = Height[b] - 1
  <2>1. Height[b] - 1 \in 0 .. Height[b]
    BY <1>1, <1>2
  <2> QED
    BY <2>1, TreeAssumption
<1>4. Height[c] + 1 = Height[b]
  BY <1>1, <1>3
<1> QED
  BY <1>4 DEF Parent

(***************************************************************************)
(* The inductive invariant.                                                *)
(***************************************************************************)

\* What has been proved of every Downloader holds of this one.
DownloaderInv ==
  /\ D!TypeOK
  /\ D!NextPosition \in Block
  /\ D!QueueIsChain
  /\ D!AwaitedIsIndexed

\* A job is in one map, and in one state.
JobsAreDistinct ==
  /\ queued \cap downloading = {}
  /\ (queued \cup downloading) \cap processing = {}
  /\ (queued \cup downloading \cup processing) \cap finished = {}
  /\ running \cup parsed \cup redownload \subseteq processing
  /\ running \cap (parsed \cup redownload) = {}
  /\ parsed \cap redownload = {}

\* The jobs are the chain from the tip to where the downloader has got to.
JobsAreChain ==
  /\ tip \in Chain[D!NextPosition]
  /\ Jobs = After(tip, D!NextPosition)
  /\ previous \in [Jobs -> Block]
  /\ \A b \in Jobs : previous[b] = Parent(b)

\* With a block its whole chain is in the database.
StoredIsClosed ==
  /\ DOMAIN stored \subseteq Block
  /\ stored \in [DOMAIN stored -> Block]
  /\ \A b \in DOMAIN stored : Chain[b] \subseteq DOMAIN stored

\* Between the two parts of StoreFilters the run does not change.
RunIsStored == stage = "tips" => Run \subseteq DOMAIN stored

\* Together they are inductive.
Inv ==
  /\ DownloaderInv
  /\ JobsAreDistinct
  /\ JobsAreChain
  /\ StoredIsClosed
  /\ StoredIsLinked
  /\ RunIsStored

(***************************************************************************)
(* The downloader.                                                         *)
(***************************************************************************)

\* The position at which its queue ends after AddBlocks.
End == IF D!New = {} THEN D!Ancestor ELSE Highest(D!New)

\* The instances of Downloader and of its proofs are the same.
LEMMA SameDownloader ==
  /\ DownloaderInv <=> P!Inv
  /\ D!NextPosition = P!NextPosition
  /\ D!Ancestor = P!Ancestor
  /\ D!New = P!New
  /\ End = P!End
<1> USE DEF D!Queue, P!Queue, D!Highest, P!Highest, Highest,
            D!CommonAncestor, P!CommonAncestor, D!After, P!After
<1>1. D!NextPosition = P!NextPosition
  BY DEF D!NextPosition, P!NextPosition
<1>2. D!Ancestor = P!Ancestor
  BY <1>1 DEF D!Ancestor, P!Ancestor
<1>3. D!New = P!New
  BY <1>2 DEF D!New, P!New
<1>4. End = P!End
  BY <1>2, <1>3 DEF End, P!End
<1>5. DownloaderInv <=> P!Inv
  BY <1>1 DEF DownloaderInv, P!Inv, D!TypeOK, P!TypeOK, D!QueueIsChain,
              P!QueueIsChain, D!AwaitedIsIndexed, P!AwaitedIsIndexed
<1> QED
  BY <1>1, <1>2, <1>3, <1>4, <1>5

\* So they are in the state after a step.
LEMMA SameDownloaderPrime ==
  /\ DownloaderInv' <=> P!Inv'
  /\ D!NextPosition' = P!NextPosition'
<1> USE DEF D!Queue, P!Queue, D!Highest, P!Highest
<1>1. D!NextPosition' = P!NextPosition'
  BY DEF D!NextPosition, P!NextPosition
<1>2. DownloaderInv' <=> P!Inv'
  BY <1>1 DEF DownloaderInv, P!Inv, D!TypeOK, P!TypeOK, D!QueueIsChain,
              P!QueueIsChain, D!AwaitedIsIndexed, P!AwaitedIsIndexed,
              D!After, P!After
<1> QED
  BY <1>1, <1>2

\* What AddBlocks queues is the chain from the ancestor to the new end.
LEMMA NewIsChain ==
  ASSUME DownloaderInv
  PROVE  /\ D!Ancestor \in Chain[D!NextPosition] /\ D!Ancestor \in Block
         /\ End \in Block
         /\ D!Ancestor \in Chain[End]
         /\ D!New = After(D!Ancestor, End)
BY P!NewIsChain, Assumptions, SameDownloader DEF P!After, After

\* AddBlocks of Downloader.
LEMMA AddBlocksStep ==
  ASSUME DownloaderInv, D!AddBlocks, UNCHANGED best
  PROVE  DownloaderInv' /\ D!NextPosition' = End
<1>1. P!AddBlocks
  BY SameDownloader DEF D!AddBlocks, P!AddBlocks, D!Replaces, P!Replaces,
                        D!Kept, P!Kept, D!Queue, P!Queue
<1> QED
  BY <1>1, P!AddBlocksInv, Assumptions, SameDownloader, SameDownloaderPrime

\* Update of Downloader.
LEMMA UpdateStep ==
  ASSUME DownloaderInv, D!Update, UNCHANGED best
  PROVE  DownloaderInv' /\ D!NextPosition' = D!NextPosition
<1> USE DEF D!Run, P!Run, D!Reached, P!Reached, D!Highest, P!Highest
<1>1. P!Update
  BY DEF D!Update, P!Update, D!UpdateCheck, P!UpdateCheck
<1> QED
  BY <1>1, P!UpdateInv, Assumptions, SameDownloader, SameDownloaderPrime

\* Receive of Downloader.
LEMMA ReceiveStep ==
  ASSUME DownloaderInv, NEW b \in Block, D!Receive(b), UNCHANGED best
  PROVE  DownloaderInv' /\ D!NextPosition' = D!NextPosition
<1>1. CASE b \in dl_index
  <2>1. P!ReceiveAt(b)
    BY <1>1 DEF D!Receive, D!ReceiveAt, P!ReceiveAt, D!ReceiveCheck, P!ReceiveCheck
  <2> QED
    BY <2>1, P!ReceiveInv, Assumptions, SameDownloader, SameDownloaderPrime
<1>2. CASE b \notin dl_index
  <2>1. UNCHANGED <<dl_tip, dl_downloading, dl_ready, dl_index>> /\ best' \in Block
    BY <1>2 DEF D!Receive, DownloaderInv, D!TypeOK
  <2> QED
    BY <2>1, P!StutterInv, Assumptions, SameDownloader, SameDownloaderPrime
<1> QED
  BY <1>1, <1>2

\* The downloader does not look at the best chain in between.
LEMMA DownloaderStutters ==
  ASSUME DownloaderInv, UNCHANGED dl, best' \in Block
  PROVE  DownloaderInv' /\ D!NextPosition' = D!NextPosition
BY P!StutterInv, Assumptions, SameDownloader, SameDownloaderPrime DEF dl

(***************************************************************************)
(* Chains of jobs.                                                         *)
(***************************************************************************)

\* Two pieces of a chain, one after the other.
LEMMA AfterJoins ==
  ASSUME NEW e \in Block, NEW a \in Chain[e], NEW t \in Chain[a]
  PROVE  /\ t \in Chain[e]
         /\ After(t, a) \cup After(a, e) = After(t, e)
         /\ After(t, e) \ After(t, a) = After(a, e)
         /\ After(t, a) \cap After(a, e) = {}
<1>1. /\ a \in Block /\ t \in Chain[e] /\ Chain[a] \subseteq Chain[e]
      /\ \A c \in Chain[e] : Height[c] <= Height[a] <=> c \in Chain[a]
  BY Prefix
<1>2. /\ Height[t] \in Nat /\ Height[a] \in Nat /\ Height[t] <= Height[a]
      /\ \A c \in Chain[e] : Height[c] \in Nat
  BY <1>1, TreeAssumption
<1> QED
  BY <1>1, <1>2 DEF After

\* The genesis block does not come after any block, so that the blocks which
\* do have a parent.
LEMMA AfterHasParent ==
  ASSUME NEW e \in Block, NEW t \in Chain[e], NEW b \in After(t, e)
  PROVE  /\ b \in Block /\ b # Genesis /\ b \in Chain[e]
         /\ Parent(b) \in Chain[b] /\ Parent(b) \in Block
         /\ Height[Parent(b)] + 1 = Height[b]
<1>1. /\ b \in Block /\ b \in Chain[e] /\ Height[b] > Height[t]
      /\ t \in Block /\ Height[t] \in Nat
  BY TreeAssumption DEF After
<1>2. b # Genesis
  BY <1>1, GenesisIsLowest
<1> QED
  BY <1>1, <1>2, ParentExists, TreeAssumption

\* The finished jobs that calculate_cfheaders takes are the chain from the tip
\* to the position that it reaches.
LEMMA RunIsChain ==
  ASSUME DownloaderInv, JobsAreChain
  PROVE  /\ Reached \in Chain[D!NextPosition] /\ Reached \in Block
         /\ tip \in Chain[Reached]
         /\ Run = After(tip, Reached)
<1> DEFINE n == D!NextPosition
<1>1. /\ n \in Block /\ tip \in Chain[n] /\ tip \in Block
      /\ \A b \in finished : b \in Chain[n] /\ Height[b] > Height[tip]
  <2>1. n \in Block /\ tip \in Chain[n] /\ Jobs = After(tip, n)
    BY DEF DownloaderInv, JobsAreChain
  <2>2. finished \subseteq Jobs
    BY DEF Jobs
  <2> QED
    BY <2>1, <2>2, TreeAssumption DEF After
<1>2. /\ \A c \in Chain[n] : c \in Block /\ Height[c] \in Nat
      /\ \A c, d \in Chain[n] : Height[c] = Height[d] => c = d
      /\ Height[tip] \in Nat /\ Batch \in Nat
  BY <1>1, TreeAssumption, BoundsAssumption
<1>3. \A c \in Run : /\ c \in finished /\ c \in Chain[n]
                     /\ Height[c] > Height[tip] /\ Height[c] <= Height[tip] + Batch
  BY <1>1 DEF Run
<1>4. CASE Run = {}
  <2>1. Reached = tip
    BY <1>4 DEF Reached
  <2>2. After(tip, tip) = {} /\ tip \in Chain[tip]
    BY <1>1, TreeAssumption DEF After
  <2> QED
    BY <1>1, <1>4, <2>1, <2>2
<1>5. CASE Run # {}
  <2>1. Reached \in Run /\ \A c \in Run : Height[c] <= Height[Reached]
    BY <1>1, <1>3, <1>5, HighestExists DEF Reached
  <2>2. /\ Reached \in Chain[n] /\ Reached \in Block /\ Height[Reached] \in Nat
        /\ Height[Reached] <= Height[tip] + Batch
    BY <1>2, <1>3, <2>1
  <2>3. /\ Chain[Reached] \subseteq Chain[n]
        /\ \A c \in Chain[n] : Height[c] <= Height[Reached] <=> c \in Chain[Reached]
    BY <1>1, <2>2, Prefix
  <2>4. tip \in Chain[Reached]
    BY <1>1, <1>2, <1>3, <2>1, <2>2, <2>3
  <2>5. ASSUME NEW b \in Run PROVE b \in After(tip, Reached)
    BY <1>3, <2>1, <2>3, <2>5 DEF After
  <2>6. ASSUME NEW b \in After(tip, Reached) PROVE b \in Run
    <3>1. /\ b \in Chain[n] /\ Height[b] \in Nat
          /\ Height[b] > Height[tip] /\ Height[b] <= Height[Reached]
      BY <1>2, <2>3, <2>6 DEF After
    <3>2. \A h \in Height[tip] + 1 .. Height[Reached] :
            \E c \in finished : Height[c] = h
      BY <2>1 DEF Run
    <3>3. Height[b] \in Height[tip] + 1 .. Height[Reached]
      BY <1>2, <2>2, <3>1
    <3>4. b \in finished
      BY <1>1, <1>2, <3>1, <3>2, <3>3
    <3>5. \A h \in Height[tip] + 1 .. Height[b] :
            h \in Height[tip] + 1 .. Height[Reached]
      BY <1>2, <2>2, <3>1
    <3>6. Height[b] <= Height[tip] + Batch
      BY <1>2, <2>2, <3>1
    <3> QED
      BY <3>2, <3>4, <3>5, <3>6 DEF Run
  <2> QED
    BY <2>2, <2>4, <2>5, <2>6
<1> QED
  BY <1>4, <1>5

\* What adjust_tip leaves of the jobs ends at the ancestor.
LEMMA KeptJobsAreChain ==
  ASSUME DownloaderInv, JobsAreChain,
         NEW t, t = IF Reset THEN D!Ancestor ELSE tip
  PROVE  /\ t \in Chain[D!Ancestor]
         /\ KeptJobs = After(t, D!Ancestor)
         /\ KeptJobs \subseteq Jobs
         /\ LastJob = D!Ancestor
<1> DEFINE a == D!Ancestor
           n == D!NextPosition
<1>1. /\ n \in Block /\ tip \in Chain[n] /\ a \in Chain[n] /\ a \in Block
      /\ Jobs = After(tip, n)
  BY NewIsChain DEF DownloaderInv, JobsAreChain
<1>2. t \in Chain[a] /\ KeptJobs = After(t, a)
  <2>1. CASE Reset
    <3>1. KeptJobs = {} /\ t = a
      BY <2>1 DEF KeptJobs, Keep
    <3>2. a \in Chain[a] /\ After(a, a) = {}
      BY <1>1, TreeAssumption DEF After
    <3> QED
      BY <3>1, <3>2
  <2>2. CASE ~ Reset
    <3>1. KeptJobs = D!Kept(Jobs, a) /\ t = tip
      BY <2>2 DEF KeptJobs, Keep, Jobs, D!Kept
    <3> QED
      BY <1>1, <2>2, <3>1, KeptOfChain DEF Reset
  <2> QED
    BY <2>1, <2>2
<1>3. KeptJobs \subseteq Jobs
  BY DEF KeptJobs, Keep, Jobs, D!Kept
<1>4. (IF KeptJobs = {} THEN t ELSE Highest(KeptJobs)) = a
  BY <1>1, <1>2, NextOf
<1>5. LastJob = a
  BY <1>4 DEF LastJob
<1> QED
  BY <1>2, <1>3, <1>5

\* A new job waits for the cfheader of the parent of its block.
LEMMA PreviousIsParent ==
  ASSUME DownloaderInv, JobsAreChain, NEW b \in D!New
  PROVE  Previous(b) = Parent(b)
<1> DEFINE a == D!Ancestor
<1>1. /\ End \in Block /\ a \in Chain[End] /\ a \in Block
      /\ D!New = After(a, End) /\ LastJob = a
  BY NewIsChain, KeptJobsAreChain
<1>2. /\ \A c \in Chain[End] : c \in Block /\ Height[c] \in Nat
      /\ \A c, d \in Chain[End] : Height[c] = Height[d] => c = d
      /\ b \in Chain[End] /\ Height[b] > Height[a]
  BY <1>1, TreeAssumption DEF After
<1>3. CASE Height[b] = Height[a] + 1
  <2>1. Parent(b) = a
    BY <1>1, <1>2, <1>3, ParentIs
  <2> QED
    BY <1>1, <1>3, <2>1 DEF Previous
<1>4. CASE Height[b] # Height[a] + 1
  <2>1. Height[b] - 1 \in 0 .. Height[End] /\ Height[b] - 1 > Height[a]
    BY <1>1, <1>2, <1>4, TreeAssumption
  <2>2. PICK c \in Chain[End] : Height[c] = Height[b] - 1
    BY <1>1, <2>1, TreeAssumption
  <2>3. c \in D!New
    BY <1>1, <2>1, <2>2 DEF After
  <2>4. \A d \in D!New : Height[d] = Height[b] - 1 => d = c
    BY <1>1, <1>2, <2>2 DEF After
  <2>5. Previous(b) = c
    BY <1>4, <2>2, <2>3, <2>4 DEF Previous
  <2>6. Parent(b) = c
    BY <1>1, <1>2, <2>2, ParentIs
  <2> QED
    BY <2>5, <2>6
<1> QED
  BY <1>3, <1>4

(***************************************************************************)
(* Every step preserves the invariant.                                     *)
(***************************************************************************)

\* The chain of jobs does not depend on the maps that they are in.
LEMMA JobsKept ==
  ASSUME JobsAreChain, D!NextPosition' = D!NextPosition, Jobs' = Jobs,
         UNCHANGED <<tip, previous>>
  PROVE  JobsAreChain'
BY DEF JobsAreChain

\* A step that does not touch the tip, the finished jobs or the database.
LEMMA StoredKept ==
  ASSUME StoredIsClosed, StoredIsLinked, RunIsStored,
         UNCHANGED <<tip, finished, database>>, stage' = "tips" => stage = "tips"
  PROVE  StoredIsClosed' /\ StoredIsLinked' /\ RunIsStored'
<1>1. Run' = Run
  BY DEF Run
<1> QED
  BY <1>1 DEF StoredIsClosed, StoredIsLinked, RunIsStored, database

\* A step that touches neither the jobs nor the downloader.
LEMMA InvKept ==
  ASSUME Inv, UNCHANGED <<dl, maps, running, parsed, redownload, tip, database>>,
         best' \in Block, stage' = "tips" => stage = "tips"
  PROVE  Inv'
<1>1. DownloaderInv' /\ D!NextPosition' = D!NextPosition
  BY DownloaderStutters DEF Inv
<1>2. JobsAreDistinct'
  BY DEF Inv, JobsAreDistinct, maps
<1>3. Jobs' = Jobs /\ UNCHANGED <<tip, previous, finished>>
  BY DEF Jobs, maps
<1> QED
  BY <1>1, <1>2, <1>3, JobsKept, StoredKept DEF Inv

\* queue_blocks keeps the jobs up to the ancestor and adds the new ones.
LEMMA QueueBlocksInv ==
  ASSUME Inv, QueueBlocks
  PROVE  Inv'
<1> DEFINE a == D!Ancestor
<1>1. DownloaderInv /\ JobsAreChain /\ JobsAreDistinct
  BY DEF Inv
<1>2. DownloaderInv' /\ D!NextPosition' = End
  BY <1>1, AddBlocksStep DEF QueueBlocks
<1>3. tip' = IF Reset THEN a ELSE tip
  BY DEF QueueBlocks
<1>4. /\ tip' \in Chain[a] /\ KeptJobs = After(tip', a) /\ KeptJobs \subseteq Jobs
  BY <1>1, <1>3, KeptJobsAreChain
<1>5. End \in Block /\ a \in Chain[End] /\ D!New = After(a, End)
  BY <1>1, NewIsChain
<1>6. Jobs' = KeptJobs \cup D!New
  BY DEF QueueBlocks, Jobs, KeptJobs
<1>7. JobsAreChain'
  <2>1. tip' \in Chain[End] /\ Jobs' = After(tip', End)
    BY <1>4, <1>5, <1>6, AfterJoins
  <2>2. previous' = [b \in KeptJobs \cup D!New |->
                       IF b \in KeptJobs THEN previous[b] ELSE Previous(b)]
    BY DEF QueueBlocks
  <2>3. ASSUME NEW b \in Jobs' PROVE previous'[b] = Parent(b)
    <3>1. CASE b \in KeptJobs
      BY <1>1, <1>4, <2>2, <3>1 DEF JobsAreChain
    <3>2. CASE b \notin KeptJobs
      BY <1>1, <1>6, <2>2, <2>3, <3>2, PreviousIsParent
    <3> QED
      BY <3>1, <3>2
  <2>4. \A b \in Jobs' : Parent(b) \in Block
    BY <1>5, <2>1, AfterHasParent
  <2>5. previous' \in [Jobs' -> Block]
    BY <1>6, <2>2, <2>3, <2>4
  <2> QED
    BY <1>2, <2>1, <2>3, <2>5 DEF JobsAreChain
<1>8. JobsAreDistinct'
  <2>1. KeptJobs \cap D!New = {}
    BY <1>4, <1>5, AfterJoins
  <2>2. /\ queued' = Keep(queued) \cup D!New /\ downloading' = Keep(downloading)
        /\ processing' = Keep(processing) /\ finished' = Keep(finished)
        /\ running' = Keep(running) /\ parsed' = Keep(parsed)
        /\ redownload' = Keep(redownload)
    BY DEF QueueBlocks
  <2>3. /\ Keep(queued) \subseteq queued /\ Keep(downloading) \subseteq downloading
        /\ Keep(processing) \subseteq processing /\ Keep(finished) \subseteq finished
        /\ Keep(running) \subseteq running /\ Keep(parsed) \subseteq parsed
        /\ Keep(redownload) \subseteq redownload
    BY DEF Keep, D!Kept
  <2>4. Keep(running) \cup Keep(parsed) \cup Keep(redownload) \subseteq Keep(processing)
    BY <1>1 DEF Keep, D!Kept, JobsAreDistinct
  <2>5. (Keep(downloading) \cup Keep(processing) \cup Keep(finished)) \cap D!New = {}
    BY <2>1 DEF KeptJobs
  <2> QED
    BY <1>1, <2>2, <2>3, <2>4, <2>5 DEF JobsAreDistinct
<1>9. StoredIsClosed' /\ StoredIsLinked' /\ RunIsStored'
  <2>1. tip' \in DOMAIN stored
    BY <1>3 DEF QueueBlocks, QueueCheck, Inv, StoredIsLinked
  <2>2. stored' = stored /\ db_tip' = db_tip /\ stage' = "fetch"
    BY DEF QueueBlocks, database
  <2> QED
    BY <2>1, <2>2 DEF Inv, StoredIsClosed, StoredIsLinked, RunIsStored
<1> QED
  BY <1>2, <1>7, <1>8, <1>9 DEF Inv

\* A step that moves jobs that are not finished from map to map.
LEMMA MoveInv ==
  ASSUME Inv, UNCHANGED <<dl, best, tip, previous, database>>,
         JobsAreDistinct', Jobs' = Jobs, finished' = finished,
         stage' = "tips" => stage = "tips"
  PROVE  Inv'
<1>1. DownloaderInv' /\ D!NextPosition' = D!NextPosition
  BY DownloaderStutters DEF Inv, DownloaderInv, D!TypeOK
<1> QED
  BY <1>1, JobsKept, StoredKept DEF Inv

\* fetch_blocks moves queued jobs to downloading_.
LEMMA FetchBlocksInv ==
  ASSUME Inv, FetchBlocks
  PROVE  Inv'
<1> DEFINE next == IF Open < MaxBlocks THEN Lowest(queued, MaxBlocks - Open) ELSE {}
<1>1. /\ queued' = queued \ next /\ downloading' = downloading \cup next
      /\ UNCHANGED <<dl, best, tip, previous, database, processing, finished,
                     running, parsed, redownload>>
      /\ stage' = "filters"
  BY DEF FetchBlocks, memory, states
<1>2. next \subseteq queued
  BY DEF Lowest
<1> HIDE DEF next
<1>3. JobsAreDistinct' /\ Jobs' = Jobs
  BY <1>1, <1>2 DEF Inv, JobsAreDistinct, Jobs
<1> QED
  BY <1>1, <1>3, MoveInv

\* calculate_cfilters only starts threads.
LEMMA CalculateCfiltersInv ==
  ASSUME Inv, CalculateCfilters
  PROVE  Inv'
<1>1. PICK start \in SUBSET Downloaded : running' = running \cup start
  BY DEF CalculateCfilters, Lowest
<1>2. /\ UNCHANGED <<dl, best, tip, previous, database, queued, downloading,
                     processing, finished, parsed, redownload>>
      /\ stage' = "find"
  BY DEF CalculateCfilters, memory, maps
<1>3. JobsAreDistinct' /\ Jobs' = Jobs
  BY <1>1, <1>2 DEF Inv, JobsAreDistinct, Jobs, Downloaded
<1> QED
  BY <1>2, <1>3, MoveInv

\* Here jobs become finished, but nothing is being stored.
LEMMA FindFinishedInv ==
  ASSUME Inv, FindFinished
  PROVE  Inv'
<1>1. DownloaderInv' /\ D!NextPosition' = D!NextPosition
  BY DownloaderStutters DEF FindFinished, Inv, DownloaderInv, D!TypeOK
<1>2. JobsAreDistinct' /\ Jobs' = Jobs
  BY DEF FindFinished, Inv, JobsAreDistinct, Jobs
<1>3. UNCHANGED <<tip, previous, database>> /\ stage' = "headers"
  BY DEF FindFinished
<1>4. JobsAreChain'
  BY <1>1, <1>2, <1>3, JobsKept DEF Inv
<1> QED
  BY <1>1, <1>2, <1>3, <1>4
     DEF Inv, StoredIsClosed, StoredIsLinked, RunIsStored, database

\* A work() that stores nothing still updates the downloader.
LEMMA SkipCfheadersInv ==
  ASSUME Inv, SkipCfheaders
  PROVE  Inv'
<1>1. D!Update /\ UNCHANGED <<best, maps, states, memory, database>> /\ stage' = "idle"
  BY DEF SkipCfheaders
<1>2. DownloaderInv' /\ D!NextPosition' = D!NextPosition
  BY <1>1, UpdateStep DEF Inv
<1>3. Jobs' = Jobs /\ JobsAreDistinct' /\ UNCHANGED <<tip, previous, finished>>
  BY <1>1 DEF Inv, Jobs, JobsAreDistinct, maps, states, memory
<1> QED
  BY <1>1, <1>2, <1>3, JobsKept, StoredKept DEF Inv

\* The run continues the chain that is stored, and each of its jobs waits for
\* the block below, which is stored or in the run.
LEMMA StoreDataInv ==
  ASSUME Inv, StoreData
  PROVE  Inv'
<1>1. /\ stored' = [b \in DOMAIN stored \cup Run |->
                      IF b \in Run THEN previous[b] ELSE stored[b]]
      /\ UNCHANGED <<dl, best, maps, states, memory, db_tip>>
  BY DEF StoreData
<1>2. DownloaderInv' /\ D!NextPosition' = D!NextPosition
  BY <1>1, DownloaderStutters DEF Inv, DownloaderInv, D!TypeOK
<1>3. /\ Jobs' = Jobs /\ JobsAreDistinct' /\ UNCHANGED <<tip, previous, finished>>
  BY <1>1 DEF Inv, Jobs, JobsAreDistinct, maps, states, memory
<1>4. JobsAreChain'
  BY <1>2, <1>3, JobsKept DEF Inv
<1>5. /\ Reached \in Block /\ tip \in Chain[Reached] /\ tip \in Block
      /\ Run = After(tip, Reached)
      /\ tip \in DOMAIN stored
  BY RunIsChain, Prefix DEF Inv, StoredIsLinked
<1>6. \A b \in Run : /\ b \in Block /\ b # Genesis
                     /\ Chain[b] \subseteq DOMAIN stored'
  <2>1. SUFFICES ASSUME NEW b \in Run
                 PROVE  b \in Block /\ b # Genesis /\ Chain[b] \subseteq DOMAIN stored'
    OBVIOUS
  <2>2. b \in Chain[Reached] /\ b \in Block /\ b # Genesis
    BY <1>5, AfterHasParent
  <2>3. ASSUME NEW c \in Chain[b] PROVE c \in Chain[tip] \/ c \in Run
    <3>1. c \in Chain[Reached] /\ Height[c] \in Nat /\ Height[tip] \in Nat
      BY <1>5, <2>2, Prefix, TreeAssumption
    <3> QED
      BY <1>5, <3>1, Prefix DEF After
  <2>4. Chain[tip] \subseteq DOMAIN stored
    BY <1>5 DEF Inv, StoredIsClosed
  <2> QED
    BY <1>1, <2>2, <2>3, <2>4
<1>7. StoredIsClosed'
  <2>1. \A b \in Run : previous[b] \in Block
    BY DEF Inv, JobsAreChain, Run, Jobs
  <2> QED
    BY <1>1, <1>6, <2>1 DEF Inv, StoredIsClosed
<1>8. StoredIsLinked'
  <2>1. ASSUME NEW b \in Run
        PROVE  stored'[b] = Parent(b) /\ stored'[b] \in DOMAIN stored'
    <3>1. stored'[b] = Parent(b)
      BY <1>1 DEF Inv, JobsAreChain, Run, Jobs
    <3>2. Parent(b) \in Chain[b]
      BY <1>6, ParentExists
    <3> QED
      BY <1>6, <3>1, <3>2
  <2>2. ASSUME NEW b \in DOMAIN stored \ {Genesis}, b \notin Run
        PROVE  stored'[b] = Parent(b) /\ stored'[b] \in DOMAIN stored'
    BY <1>1, <2>2 DEF Inv, StoredIsLinked
  <2>3. {tip', db_tip'} \subseteq DOMAIN stored'
    BY <1>1, <1>3 DEF Inv, StoredIsLinked
  <2> QED
    BY <1>1, <2>1, <2>2, <2>3 DEF StoredIsLinked
<1>9. RunIsStored'
  <2>1. Run' = Run
    BY <1>3 DEF Run
  <2> QED
    BY <1>1, <2>1 DEF RunIsStored
<1> QED
  BY <1>2, <1>3, <1>4, <1>7, <1>8, <1>9 DEF Inv

\* The tip moves to the end of the run, whose jobs leave the maps.
LEMMA StoreTipsInv ==
  ASSUME Inv, StoreTips
  PROVE  Inv'
<1>1. /\ D!Update /\ UNCHANGED <<best, queued, downloading, processing, states, stored>>
      /\ db_tip' = Reached /\ tip' = Reached /\ finished' = finished \ Run
      /\ previous' = [b \in Jobs \ Run |-> previous[b]]
      /\ stage = "tips" /\ stage' = "idle"
  BY DEF StoreTips
<1>2. DownloaderInv' /\ D!NextPosition' = D!NextPosition
  BY <1>1, UpdateStep DEF Inv
<1>3. /\ D!NextPosition \in Block /\ Reached \in Chain[D!NextPosition]
      /\ Reached \in Block /\ tip \in Chain[Reached] /\ Run = After(tip, Reached)
      /\ Jobs = After(tip, D!NextPosition)
  BY RunIsChain DEF Inv, DownloaderInv, JobsAreChain
<1>4. Jobs' = Jobs \ Run
  BY <1>1 DEF Inv, JobsAreDistinct, Jobs, Run
<1>5. Jobs' = After(tip', D!NextPosition')
  BY <1>1, <1>2, <1>3, <1>4, AfterJoins
<1>6. JobsAreChain'
  BY <1>1, <1>2, <1>3, <1>4, <1>5 DEF JobsAreChain, Inv
<1>7. JobsAreDistinct'
  BY <1>1 DEF Inv, JobsAreDistinct, states
<1>8. Reached \in DOMAIN stored
  <2>1. CASE Run = {}
    BY <2>1 DEF Reached, Inv, StoredIsLinked
  <2>2. CASE Run # {}
    <3>1. Run \in SUBSET Chain[Reached]
      BY <1>3 DEF After
    <3>2. Reached \in Run
      BY <1>3, <2>2, <3>1, HighestExists DEF Reached
    <3> QED
      BY <1>1, <3>2 DEF Inv, RunIsStored
  <2> QED
    BY <2>1, <2>2
<1>9. StoredIsClosed' /\ StoredIsLinked' /\ RunIsStored'
  BY <1>1, <1>8 DEF Inv, StoredIsClosed, StoredIsLinked, RunIsStored
<1> QED
  BY <1>2, <1>6, <1>7, <1>9 DEF Inv

\* A block that arrives moves the job of its height.
LEMMA ReceiveBlockInv ==
  ASSUME Inv, NEW b \in Block, ReceiveBlock(b)
  PROVE  Inv'
<1>1. /\ downloading' = downloading \ JobAt(b)
      /\ processing' = processing \cup JobAt(b)
      /\ UNCHANGED <<best, queued, finished, previous, running, parsed,
                     redownload, tip, database>>
      /\ D!Receive(b) /\ stage' # "tips"
  BY DEF ReceiveBlock
<1>2. DownloaderInv' /\ D!NextPosition' = D!NextPosition
  BY <1>1, ReceiveStep DEF Inv
<1>3. JobsAreDistinct' /\ Jobs' = Jobs
  BY <1>1 DEF Inv, JobsAreDistinct, Jobs, JobAt
<1> QED
  BY <1>1, <1>2, <1>3, JobsKept, StoredKept DEF Inv

\* A thread sets the state of its job.
LEMMA CalculateInv ==
  ASSUME Inv, NEW b \in Block, Calculate(b)
  PROVE  Inv'
<1>1. /\ UNCHANGED <<dl, best, tip, previous, database, queued, downloading,
                     processing, finished, stage>>
      /\ b \in running /\ running' = running \ {b}
      /\ \/ parsed' = parsed \cup {b} /\ redownload' = redownload
         \/ redownload' = redownload \cup {b} /\ parsed' = parsed
  BY DEF Calculate, maps, memory
<1>2. JobsAreDistinct' /\ Jobs' = Jobs
  BY <1>1 DEF Inv, JobsAreDistinct, Jobs
<1> QED
  BY <1>1, <1>2, MoveInv

\* The indexer starts with empty maps at a block that is stored.
LEMMA StartInv ==
  ASSUME StoredIsClosed', StoredIsLinked', best' \in Block, tip' \in Block,
         dl_tip' = tip', dl_downloading' = {}, dl_ready' = {}, dl_index' = {},
         queued' = {}, downloading' = {}, processing' = {}, finished' = {},
         previous' = [b \in {} |-> b],
         running' = {}, parsed' = {}, redownload' = {}, stage' = "queue"
  PROVE  Inv'
<1>1. After(tip', tip') = {} /\ tip' \in Chain[tip']
  BY TreeAssumption DEF After
<1>2. D!NextPosition' = tip'
  BY DEF D!NextPosition, D!Queue
<1>3. D!After(tip', tip') = {}
  BY <1>1 DEF D!After, After
<1>4. DownloaderInv'
  BY <1>1, <1>2, <1>3 DEF DownloaderInv, D!TypeOK, D!QueueIsChain, D!AwaitedIsIndexed, D!Queue
<1>5. JobsAreDistinct'
  BY DEF JobsAreDistinct
<1>6. JobsAreChain'
  BY <1>1, <1>2 DEF JobsAreChain, Jobs
<1> QED
  BY <1>4, <1>5, <1>6 DEF Inv, RunIsStored

\* There is always a block that is acceptable as the tip: the genesis block.
LEMMA RestartTip ==
  ASSUME Inv, Restart
  PROVE  db_tip' \in Chain[best] /\ db_tip' \in DOMAIN stored
<1> DEFINE S == {b \in Block : Acceptable(b)}
<1>1. best \in Block /\ db_tip \in DOMAIN stored /\ db_tip \in Block
  BY DEF Inv, DownloaderInv, D!TypeOK, StoredIsLinked, StoredIsClosed
<1>2. Genesis \in DOMAIN stored
  BY <1>1, TreeAssumption DEF Inv, StoredIsClosed
<1>3. S \in SUBSET Chain[best] /\ S \subseteq DOMAIN stored
  <2>1. ASSUME NEW b \in S PROVE b \in Chain[best] /\ b \in DOMAIN stored
    <3>1. /\ b \in Chain[best] /\ b \in Chain[b] /\ Height[b] \in Nat
          /\ \A c \in Chain[b] : Height[c] + 1 >= Height[b] => c \in DOMAIN stored
      BY TreeAssumption DEF Acceptable
    <3> QED
      BY <3>1
  <2> QED
    BY <2>1
<1>4. S # {}
  <2>1. Genesis \in Chain[best] /\ Genesis \in Block /\ Height[Genesis] = 0
    BY <1>1, GenesisIsLowest, TreeAssumption
  <2>2. Genesis = db_tip \/ Height[Genesis] < Height[db_tip]
    <3>1. Genesis \in Chain[db_tip] /\ db_tip \in Chain[db_tip] /\ Height[db_tip] \in Nat
      BY <1>1, TreeAssumption
    <3> QED
      BY <1>1, <2>1, <3>1, TreeAssumption
  <2>3. \A c \in Chain[Genesis] : c \in DOMAIN stored
    BY <1>2, GenesisIsLowest
  <2>4. Acceptable(Genesis)
    BY <2>1, <2>2, <2>3 DEF Acceptable
  <2> QED
    BY <2>1, <2>4
<1>5. db_tip' \in S
  BY <1>1, <1>3, <1>4, HighestExists DEF Restart
<1> QED
  BY <1>3, <1>5

\* A restart begins again from the database, whatever was lost.
LEMMA RestartInv ==
  ASSUME Inv, Restart
  PROVE  Inv'
<1>1. best \in Block /\ db_tip' \in DOMAIN stored /\ db_tip' \in Block
  BY RestartTip DEF Inv, DownloaderInv, D!TypeOK, StoredIsClosed
<1>2. StoredIsClosed' /\ StoredIsLinked' /\ best' \in Block /\ tip' \in Block
  BY <1>1 DEF Restart, Inv, StoredIsClosed, StoredIsLinked
<1> QED
  BY <1>2, StartInv DEF Restart

\* The node starts with an empty database.
LEMMA InitInv == Init => Inv
<1> SUFFICES ASSUME Init PROVE Inv
  OBVIOUS
<1>1. /\ Genesis \in Block /\ best = Genesis /\ tip = Genesis /\ dl_tip = Genesis
      /\ db_tip = Genesis /\ stored = [b \in {Genesis} |-> Genesis]
      /\ Chain[Genesis] = {Genesis}
  BY GenesisIsLowest, TreeAssumption DEF Init
<1>2. StoredIsClosed /\ StoredIsLinked
  BY <1>1 DEF StoredIsClosed, StoredIsLinked
<1>3. D!NextPosition = Genesis
  BY <1>1 DEF Init, D!NextPosition, D!Queue
<1>4. After(Genesis, Genesis) = {} /\ D!After(Genesis, Genesis) = {}
  BY <1>1, TreeAssumption DEF After, D!After
<1>5. DownloaderInv
  BY <1>1, <1>3, <1>4 DEF Init, DownloaderInv, D!TypeOK, D!QueueIsChain,
                         D!AwaitedIsIndexed, D!Queue
<1>6. JobsAreDistinct /\ JobsAreChain /\ RunIsStored
  BY <1>1, <1>3, <1>4 DEF Init, JobsAreDistinct, JobsAreChain, Jobs, RunIsStored
<1> QED
  BY <1>2, <1>5, <1>6 DEF Inv

\* All actions together.
LEMMA NextInv == Inv /\ [Next]_vars => Inv'
<1> SUFFICES ASSUME Inv, [Next]_vars PROVE Inv'
  OBVIOUS
<1>1. best \in Block
  BY DEF Inv, DownloaderInv, D!TypeOK
<1>2. CASE QueueBlocks
  BY <1>2, QueueBlocksInv
<1>3. CASE FetchBlocks
  BY <1>3, FetchBlocksInv
<1>4. CASE CalculateCfilters
  BY <1>4, CalculateCfiltersInv
<1>5. CASE FindFinished
  BY <1>5, FindFinishedInv
<1>6. CASE SkipCfheaders
  BY <1>6, SkipCfheadersInv
<1>7. CASE StoreData
  BY <1>7, StoreDataInv
<1>8. CASE StoreTips
  BY <1>8, StoreTipsInv
<1>9. CASE Repeat
  BY <1>1, <1>9, InvKept DEF Repeat, states, memory
<1>10. ASSUME NEW b \in Block, ReceiveBlock(b) PROVE Inv'
  BY <1>10, ReceiveBlockInv
<1>11. CASE Abort
  BY <1>1, <1>11, InvKept DEF Abort, states, memory
<1>12. CASE Message
  BY <1>1, <1>12, InvKept
     DEF Message, ProcessHeader, ProcessJobFinished, ProcessBlockReady, states, memory
<1>13. ASSUME NEW b \in Block, Calculate(b) PROVE Inv'
  BY <1>13, CalculateInv
<1>14. ASSUME NEW b \in Block, Answer(b) PROVE Inv'
  BY <1>1, <1>14, InvKept DEF Answer, states, memory
<1>15. ASSUME NEW b \in Block, NewBest(b) PROVE Inv'
  BY <1>1, <1>15, InvKept DEF NewBest, states, memory
<1>16. CASE Leave
  BY <1>1, <1>16, InvKept DEF Leave, states, memory
<1>17. CASE Restart
  BY <1>17, RestartInv
<1>18. CASE UNCHANGED vars
  BY <1>1, <1>18, InvKept DEF vars, states, memory
<1> QED
  BY <1>2, <1>3, <1>4, <1>5, <1>6, <1>7, <1>8, <1>9, <1>10, <1>11, <1>12,
     <1>13, <1>14, <1>15, <1>16, <1>17, <1>18 DEF Next, Work

(***************************************************************************)
(* The counters, and the blocks that are requested.                        *)
(***************************************************************************)

\* A chain is finite: a block is determined by its height.
LEMMA ChainIsFinite ==
  ASSUME NEW b \in Block
  PROVE  IsFiniteSet(Chain[b])
<1> DEFINE f == [c \in Chain[b] |-> Height[c]]
<1>1. Height[b] \in Nat /\ \A c \in Chain[b] : Height[c] \in 0 .. Height[b]
  BY TreeAssumption
<1>2. f \in Injection(Chain[b], 0 .. Height[b])
  BY <1>1, TreeAssumption DEF Injection, IsInjective
<1>3. IsFiniteSet(0 .. Height[b])
  BY <1>1, FS_Interval
<1> QED
  BY <1>2, <1>3, FS_Injection

\* So all maps are finite, and the genesis block is in none.
LEMMA JobsAreFinite ==
  ASSUME Inv
  PROVE  IsFiniteSet(Jobs) /\ Jobs \subseteq Block \ {Genesis}
<1>1. /\ D!NextPosition \in Block /\ tip \in Chain[D!NextPosition]
      /\ Jobs = After(tip, D!NextPosition)
  BY DEF Inv, DownloaderInv, JobsAreChain
<1>2. IsFiniteSet(Chain[D!NextPosition]) /\ Jobs \in SUBSET Chain[D!NextPosition]
  BY <1>1, ChainIsFinite DEF After
<1>3. IsFiniteSet(Jobs)
  BY <1>2, FS_Subset
<1>4. Jobs \subseteq Block \ {Genesis}
  BY <1>1, AfterHasParent
<1> QED
  BY <1>3, <1>4

\* The size of a part of the jobs is a number.
LEMMA PartIsFinite ==
  ASSUME Inv, NEW S \in SUBSET Jobs
  PROVE  IsFiniteSet(S) /\ Cardinality(S) \in Nat
BY JobsAreFinite, FS_Subset, FS_CardinalityType

\* What the counters and flags hold, and where a block is that is awaited.
Bookkeeping ==
  /\ index \cup frames \cup requested \subseteq Block \ {Genesis}
  /\ replies \in [Block -> Nat] /\ replies[Genesis] = 0
  /\ leaving \in Nat
  /\ cached = Cardinality(finished)
  /\ {notified, header, again} \subseteq BOOLEAN
  /\ stage \in {"queue", "fetch", "filters", "find", "headers", "tips",
                "idle", "frames", "aborted"}
  /\ stage \notin {"frames", "aborted"} => frames = {}
  /\ AwaitedIsRequested

\* adjust_tip takes what it removes off the counters.
LEMMA QueueBlocksBooks ==
  ASSUME Inv, Bookkeeping, QueueBlocks
  PROVE  Bookkeeping'
<1>1. /\ stage = "queue" /\ stage' = "fetch" /\ again' = D!More
      /\ finished' = Keep(finished) /\ downloading' = Keep(downloading)
      /\ cached' = IF Reset THEN 0
                   ELSE cached - Cardinality(finished \ Keep(finished))
      /\ leaving' = leaving + Cardinality(running \ Keep(running))
      /\ index' = index \cup D!New
      /\ UNCHANGED <<notified, header, frames, requested, replies>>
  BY DEF QueueBlocks, oracle
<1>2. D!New \subseteq Block \ {Genesis}
  BY NewIsChain, AfterHasParent DEF Inv
<1>3. cached' = Cardinality(finished')
  <2>1. CASE Reset
    BY <1>1, <2>1, FS_EmptySet DEF Keep
  <2>2. CASE ~ Reset
    <3>1. Keep(finished) \subseteq finished /\ finished \subseteq Jobs
      BY DEF Keep, D!Kept, Jobs
    <3>2. IsFiniteSet(finished) /\ Cardinality(finished) \in Nat
      BY <3>1, PartIsFinite
    <3>3. Cardinality(finished \ Keep(finished))
            = Cardinality(finished) - Cardinality(finished \cap Keep(finished))
      BY <3>2, FS_Difference
    <3>4. finished \cap Keep(finished) = Keep(finished)
      BY <3>1
    <3>5. Cardinality(Keep(finished)) \in Nat
      BY <3>1, PartIsFinite
    <3>6. cached = Cardinality(finished)
      BY DEF Bookkeeping
    <3>7. cached' = Cardinality(Keep(finished))
      BY <1>1, <2>2, <3>2, <3>3, <3>4, <3>5, <3>6
    <3> QED
      BY <1>1, <3>7
  <2> QED
    BY <2>1, <2>2
<1>4. leaving' \in Nat
  <2>1. running \ Keep(running) \in SUBSET Jobs
    BY DEF Inv, JobsAreDistinct, Jobs
  <2>2. Cardinality(running \ Keep(running)) \in Nat
    BY <2>1, PartIsFinite
  <2> QED
    BY <1>1, <2>2 DEF Bookkeeping
<1>5. Keep(downloading) \subseteq downloading
  BY DEF Keep, D!Kept
<1>6. D!More \in BOOLEAN
  BY DEF D!More
<1>7. AwaitedIsRequested'
  BY <1>1, <1>5 DEF AwaitedIsRequested, Bookkeeping
<1> QED
  BY <1>1, <1>2, <1>3, <1>4, <1>6, <1>7 DEF Bookkeeping

\* find_finished counts the filters, and requests damaged blocks again.
LEMMA FindFinishedBooks ==
  ASSUME Inv, Bookkeeping, FindFinished
  PROVE  Bookkeeping'
<1>1. /\ stage = "find" /\ stage' = "headers"
      /\ finished' = finished \cup parsed
      /\ downloading' = downloading \cup redownload
      /\ cached' = cached + Cardinality(parsed)
      /\ index' = index \cup redownload
      /\ requested' = requested \cup redownload
      /\ UNCHANGED <<leaving, notified, header, again, frames, replies>>
  BY DEF FindFinished, threads
<1>2. finished \subseteq Jobs /\ parsed \subseteq Jobs /\ redownload \subseteq Jobs
  BY DEF Inv, JobsAreDistinct, Jobs
<1>3. finished \cap parsed = {}
  BY DEF Inv, JobsAreDistinct
<1>4. cached' = Cardinality(finished')
  <2>1. /\ IsFiniteSet(finished) /\ Cardinality(finished) \in Nat
        /\ IsFiniteSet(parsed) /\ Cardinality(parsed) \in Nat
    BY <1>2, PartIsFinite
  <2>2. Cardinality(finished \cup parsed)
          = Cardinality(finished) + Cardinality(parsed) - Cardinality(finished \cap parsed)
    BY <2>1, FS_Union
  <2>3. Cardinality(finished \cap parsed) = 0
    BY <1>3, FS_EmptySet
  <2>4. cached = Cardinality(finished)
    BY DEF Bookkeeping
  <2>5. cached' = Cardinality(finished \cup parsed)
    BY <1>1, <2>1, <2>2, <2>3, <2>4
  <2> QED
    BY <1>1, <2>5
<1>5. redownload \subseteq Block \ {Genesis}
  BY <1>2, JobsAreFinite
<1>6. AwaitedIsRequested'
  BY <1>1 DEF AwaitedIsRequested, Bookkeeping
<1> QED
  BY <1>1, <1>4, <1>5, <1>6 DEF Bookkeeping

\* The filters of the run are not counted any more.
LEMMA StoreTipsBooks ==
  ASSUME Inv, Bookkeeping, StoreTips
  PROVE  Bookkeeping'
<1>1. /\ stage = "tips" /\ stage' = "idle" /\ finished' = finished \ Run
      /\ cached' = cached - Cardinality(Run)
      /\ again' = (again \/ Cardinality(Run) >= Batch)
      /\ UNCHANGED <<downloading, index, leaving, notified, header, frames,
                     requested, replies>>
  BY DEF StoreTips, threads, oracle
<1>2. Run \subseteq finished /\ finished \subseteq Jobs
  BY DEF Run, Jobs
<1>3. cached' = Cardinality(finished')
  <2>1. IsFiniteSet(finished) /\ Cardinality(finished) \in Nat
    BY <1>2, PartIsFinite
  <2>2. Cardinality(finished \ Run) = Cardinality(finished) - Cardinality(finished \cap Run)
    BY <2>1, FS_Difference
  <2>3. finished \cap Run = Run
    BY <1>2
  <2> QED
    BY <1>1, <2>1, <2>2, <2>3 DEF Bookkeeping
<1>4. AwaitedIsRequested'
  BY <1>1 DEF AwaitedIsRequested, Bookkeeping
<1>5. again' \in BOOLEAN
  BY <1>1 DEF Bookkeeping
<1> QED
  BY <1>1, <1>3, <1>4, <1>5 DEF Bookkeeping

\* The block of a message was awaited by the job of its height.
LEMMA ReceiveBlockBooks ==
  ASSUME Inv, Bookkeeping, NEW b \in Block, ReceiveBlock(b)
  PROVE  Bookkeeping'
<1>1. /\ stage' = IF frames' = {} THEN "queue" ELSE "frames"
      /\ frames' = frames \ {b}
      /\ downloading' = downloading \ JobAt(b)
      /\ index' = index \ {b}
      /\ UNCHANGED <<finished, cached, leaving, notified, header, again,
                     requested, replies>>
  BY DEF ReceiveBlock, threads, oracle
<1>2. b \notin downloading'
  BY <1>1 DEF JobAt
<1>3. AwaitedIsRequested'
  BY <1>1, <1>2 DEF AwaitedIsRequested, Bookkeeping
<1> QED
  BY <1>1, <1>3 DEF Bookkeeping

\* The replies of the message were under way before.
LEMMA ProcessBlockReadyBooks ==
  ASSUME Inv, Bookkeeping, ProcessBlockReady
  PROVE  Bookkeeping'
<1>1. PICK S \in SUBSET {b \in Block : replies[b] > 0} :
        /\ frames' = S
        /\ replies' = [b \in Block |-> replies[b] - (IF b \in S THEN 1 ELSE 0)]
  BY DEF ProcessBlockReady
<1>2. /\ stage = "idle" /\ stage' = "frames"
      /\ UNCHANGED <<downloading, finished, index, cached, leaving, notified,
                     header, again, requested>>
  BY DEF ProcessBlockReady, maps, memory, threads
<1>3. replies \in [Block -> Nat] /\ replies[Genesis] = 0 /\ frames = {}
  BY <1>2 DEF Bookkeeping
<1>4. S \subseteq Block \ {Genesis}
  BY <1>3
<1>5. replies' \in [Block -> Nat]
  BY <1>1, <1>3
<1>6. replies'[Genesis] = 0
  BY <1>1, <1>3, <1>4, TreeAssumption
<1>7. downloading \subseteq Block
  BY JobsAreFinite DEF Jobs
<1>8. \A b \in Block : replies[b] > 0 => replies'[b] > 0 \/ b \in frames'
  BY <1>1, <1>3
<1>9. AwaitedIsRequested'
  BY <1>2, <1>3, <1>7, <1>8 DEF AwaitedIsRequested, Bookkeeping
<1> QED
  BY <1>1, <1>2, <1>4, <1>5, <1>6, <1>9 DEF Bookkeeping

\* Calculate and Leave count the thread that ends.
LEMMA ThreadBooks ==
  ASSUME Bookkeeping, (\E b \in Block : Calculate(b)) \/ Leave
  PROVE  Bookkeeping'
<1>1. /\ UNCHANGED <<downloading, finished, index, cached, header, stage,
                     again, frames, requested, replies>>
      /\ \/ leaving' = leaving + 1 /\ notified' = notified
         \/ leaving > 0 /\ leaving' = leaving - 1 /\ notified' = TRUE
  BY DEF Calculate, Leave, maps, memory, oracle
<1>2. AwaitedIsRequested'
  BY <1>1 DEF AwaitedIsRequested, Bookkeeping
<1>3. leaving' \in Nat
  BY <1>1 DEF Bookkeeping
<1>4. {notified', header', again'} \subseteq BOOLEAN
  BY <1>1 DEF Bookkeeping
<1>5. UNCHANGED <<finished, index, cached, stage, frames, requested, replies>>
  BY <1>1
<1> QED
  BY <1>2, <1>3, <1>4, <1>5 DEF Bookkeeping

\* A request becomes a reply.
LEMMA AnswerBooks ==
  ASSUME Bookkeeping, NEW b \in Block, Answer(b)
  PROVE  Bookkeeping'
<1>1. /\ b \in requested /\ requested' = requested \ {b}
      /\ replies' = [replies EXCEPT ![b] = @ + 1]
      /\ UNCHANGED <<downloading, finished, index, cached, leaving, notified,
                     header, stage, again, frames>>
  BY DEF Answer, maps, memory, threads
<1>2. replies \in [Block -> Nat] /\ b # Genesis
  BY <1>1 DEF Bookkeeping
<1>3. /\ replies' \in [Block -> Nat] /\ replies'[Genesis] = replies[Genesis]
      /\ replies'[b] > 0 /\ \A c \in Block : c # b => replies'[c] = replies[c]
  BY <1>1, <1>2, TreeAssumption
<1>4. ASSUME NEW c \in downloading'
      PROVE  c \in requested' \/ replies'[c] > 0 \/ c \in frames'
  <2>1. CASE c = b
    BY <1>3, <2>1
  <2>2. CASE c # b
    BY <1>1, <1>4, <2>2 DEF AwaitedIsRequested, Bookkeeping
  <2> QED
    BY <2>1, <2>2
<1>5. AwaitedIsRequested'
  BY <1>4 DEF AwaitedIsRequested
<1> QED
  BY <1>1, <1>3, <1>5 DEF Bookkeeping

\* All counters start anew.
LEMMA RestartBooks ==
  ASSUME Restart
  PROVE  Bookkeeping'
<1>1. /\ downloading' = {} /\ finished' = {} /\ index' = {} /\ cached' = 0
      /\ leaving' = 0 /\ notified' = FALSE /\ header' = FALSE
      /\ stage' = "queue" /\ again' = FALSE
      /\ frames' = {} /\ requested' = {} /\ replies' = [b \in Block |-> 0]
  BY DEF Restart
<1>2. Cardinality({}) = 0
  BY FS_EmptySet
<1> QED
  BY <1>1, <1>2, TreeAssumption DEF Bookkeeping, AwaitedIsRequested

\* All counters start at zero.
LEMMA InitBooks == Init => Bookkeeping
<1> SUFFICES ASSUME Init PROVE Bookkeeping
  OBVIOUS
<1>1. Cardinality({}) = 0
  BY FS_EmptySet
<1> QED
  BY <1>1, TreeAssumption DEF Init, Bookkeeping, AwaitedIsRequested

\* The parts of work() that do not count anything.
LEMMA FetchBlocksBooks ==
  ASSUME Inv, Bookkeeping, FetchBlocks
  PROVE  Bookkeeping'
<1>1. PICK next \in SUBSET queued :
        downloading' = downloading \cup next /\ requested' = requested \cup next
  BY DEF FetchBlocks, Lowest
<1>2. /\ stage = "fetch" /\ stage' = "filters" /\ again' \in BOOLEAN
      /\ UNCHANGED <<finished, index, cached, leaving, notified, header,
                     frames, replies>>
  BY DEF FetchBlocks, memory, threads, Bookkeeping
<1>3. next \subseteq Block \ {Genesis}
  BY JobsAreFinite DEF Jobs
<1>4. AwaitedIsRequested'
  BY <1>1, <1>2 DEF AwaitedIsRequested, Bookkeeping
<1> QED
  BY <1>1, <1>2, <1>3, <1>4 DEF Bookkeeping

\* The steps that touch neither the counters nor the requests.
LEMMA OtherBooks ==
  ASSUME Bookkeeping,
         \/ CalculateCfilters \/ SkipCfheaders \/ StoreData \/ Repeat \/ Abort
         \/ ProcessHeader \/ ProcessJobFinished
         \/ \E b \in Block : NewBest(b)
         \/ UNCHANGED vars
  PROVE  Bookkeeping'
<1>1. /\ UNCHANGED <<downloading, finished, index, cached, leaving, frames,
                     requested, replies>>
      /\ {notified', header', again'} \subseteq BOOLEAN
  BY DEF CalculateCfilters, SkipCfheaders, StoreData, Repeat, Abort,
         ProcessHeader, ProcessJobFinished, NewBest, vars, maps, memory,
         threads, oracle, Bookkeeping
<1>2. /\ stage' \in {"queue", "fetch", "filters", "find", "headers", "tips",
                     "idle", "frames", "aborted"}
      /\ stage' \notin {"frames", "aborted"} => stage \notin {"frames", "aborted"}
  BY DEF CalculateCfilters, SkipCfheaders, StoreData, Repeat, Abort,
         ProcessHeader, ProcessJobFinished, NewBest, vars, Bookkeeping
<1>3. AwaitedIsRequested'
  BY <1>1 DEF AwaitedIsRequested, Bookkeeping
<1> QED
  BY <1>1, <1>2, <1>3 DEF Bookkeeping

\* All actions together.
LEMMA NextBooks == Inv /\ Bookkeeping /\ [Next]_vars => Bookkeeping'
BY QueueBlocksBooks, FetchBlocksBooks, FindFinishedBooks, StoreTipsBooks,
   ReceiveBlockBooks, ProcessBlockReadyBooks, ThreadBooks, AnswerBooks,
   RestartBooks, OtherBooks
   DEF Next, Work, Message

(***************************************************************************)
(* What follows from the two invariants.                                   *)
(***************************************************************************)

\* The types follow, since all maps are finite.
LEMMA TypesFollow == Inv /\ Bookkeeping => TypeOK
<1> SUFFICES ASSUME Inv, Bookkeeping PROVE TypeOK
  OBVIOUS
<1>1. /\ best \in Block /\ dl_tip \in Block
      /\ D!NextPosition \in Block /\ tip \in Chain[D!NextPosition]
      /\ db_tip \in Block
  BY DEF Inv, DownloaderInv, D!TypeOK, JobsAreChain, StoredIsLinked, StoredIsClosed
<1>2. tip \in Block
  BY <1>1, TreeAssumption
<1>3. Jobs \subseteq Block \ {Genesis} /\ IsFiniteSet(finished) /\ Cardinality(finished) \in Nat
  BY JobsAreFinite, PartIsFinite DEF Jobs
<1>4. /\ running \cup parsed \cup redownload \subseteq processing
      /\ previous \in [Jobs -> Block]
      /\ stored \in [DOMAIN stored -> Block] /\ DOMAIN stored \subseteq Block
  BY DEF Inv, JobsAreDistinct, JobsAreChain, StoredIsClosed
<1> QED
  BY <1>1, <1>2, <1>3, <1>4 DEF TypeOK, Bookkeeping

\* The size of two sets that have no element in common.
LEMMA DisjointUnion ==
  ASSUME NEW S, NEW T, IsFiniteSet(S), IsFiniteSet(T), S \cap T = {}
  PROVE  /\ IsFiniteSet(S \cup T)
         /\ Cardinality(S \cup T) = Cardinality(S) + Cardinality(T)
<1>1. /\ IsFiniteSet(S \cup T)
      /\ Cardinality(S \cup T)
           = Cardinality(S) + Cardinality(T) - Cardinality(S \cap T)
  BY FS_Union
<1>2. Cardinality(S \cap T) = 0
  BY FS_EmptySet
<1>3. Cardinality(S) \in Nat /\ Cardinality(T) \in Nat
  BY FS_CardinalityType
<1> QED
  BY <1>1, <1>2, <1>3

\* The maps are disjoint, so that their sizes add up.
LEMMA QueuesFollow == Inv /\ Bookkeeping => QueuesAgree
<1> SUFFICES ASSUME Inv, Bookkeeping PROVE QueuesAgree
  OBVIOUS
<1>1. /\ IsFiniteSet(queued) /\ Cardinality(queued) \in Nat
      /\ IsFiniteSet(downloading) /\ Cardinality(downloading) \in Nat
      /\ IsFiniteSet(processing) /\ Cardinality(processing) \in Nat
      /\ IsFiniteSet(finished) /\ Cardinality(finished) \in Nat
  BY PartIsFinite DEF Jobs
<1>2. /\ queued \cap downloading = {}
      /\ (queued \cup downloading) \cap processing = {}
      /\ (queued \cup downloading \cup processing) \cap finished = {}
  BY DEF Inv, JobsAreDistinct
<1>3. /\ IsFiniteSet(queued \cup downloading)
      /\ Cardinality(queued \cup downloading)
           = Cardinality(queued) + Cardinality(downloading)
  BY <1>1, <1>2, DisjointUnion
<1>4. /\ IsFiniteSet(queued \cup downloading \cup processing)
      /\ Cardinality(queued \cup downloading \cup processing)
           = Cardinality(queued \cup downloading) + Cardinality(processing)
  BY <1>1, <1>2, <1>3, DisjointUnion
<1>5. Cardinality(Jobs) = Cardinality(queued \cup downloading \cup processing)
                            + Cardinality(finished)
  BY <1>1, <1>2, <1>4, DisjointUnion DEF Jobs
<1> QED
  BY <1>3, <1>4, <1>5 DEF QueuesAgree, Inv, JobsAreChain, Bookkeeping

\* previous_cfheader and load_tip find what they look for.
LEMMA QueueCheckFollows == Inv => QueueCheck
<1> SUFFICES ASSUME Inv PROVE QueueCheck
  OBVIOUS
<1> DEFINE a == D!Ancestor
           n == D!NextPosition
<1>1. /\ n \in Block /\ a \in Chain[n] /\ a \in Block /\ tip \in Chain[n]
      /\ tip \in DOMAIN stored
      /\ End \in Block /\ a \in Chain[End] /\ D!New = After(a, End)
  BY NewIsChain DEF Inv, DownloaderInv, JobsAreChain, StoredIsLinked
<1>2. ASSUME Reset PROVE a \in DOMAIN stored
  <2>1. Height[a] <= Height[tip]
    BY <1>1, <1>2, TreeAssumption DEF Reset, D!Replaces
  <2>2. a \in Chain[tip]
    BY <1>1, <2>1, Prefix
  <2> QED
    BY <1>1, <2>2 DEF Inv, StoredIsClosed
<1>3. PICK t : t \in Chain[a] /\ KeptJobs = After(t, a) /\ LastJob = a
  BY KeptJobsAreChain DEF Inv
<1>4. KeptJobs \subseteq Chain[a]
  BY <1>3 DEF After
<1>5. \A b, c \in KeptJobs : Height[b] = Height[c] => b = c
  BY <1>1, <1>4, TreeAssumption
<1>6. ASSUME NEW b \in KeptJobs, NEW c \in D!New PROVE Height[b] # Height[c]
  <2>1. Height[b] \in Nat /\ Height[a] \in Nat /\ Height[b] <= Height[a]
    BY <1>1, <1>4, TreeAssumption
  <2>2. Height[c] \in Nat /\ Height[c] > Height[a]
    BY <1>1, TreeAssumption DEF After
  <2> QED
    BY <2>1, <2>2
<1> QED
  BY <1>2, <1>3, <1>5, <1>6 DEF QueueCheck

\* The chain from one block to another has as many blocks as heights.
LEMMA LengthOfChain ==
  ASSUME NEW r \in Block, NEW t \in Chain[r]
  PROVE  Cardinality(After(t, r)) = Height[r] - Height[t]
<1> DEFINE S == After(t, r)
           I == Height[t] + 1 .. Height[r]
           f == [b \in S |-> Height[b]]
<1>1. /\ Height[t] \in Nat /\ Height[r] \in Nat /\ Height[t] <= Height[r]
      /\ \A c \in Chain[r] : Height[c] \in Nat /\ Height[c] <= Height[r]
      /\ \A c, d \in Chain[r] : Height[c] = Height[d] => c = d
  BY TreeAssumption
<1>2. S \subseteq Chain[r] /\ \A b \in S : Height[b] \in I
  BY <1>1 DEF After
<1>3. f \in Injection(S, I)
  BY <1>1, <1>2 DEF Injection, IsInjective
<1>4. \A h \in I : \E b \in S : f[b] = h
  <2>1. SUFFICES ASSUME NEW h \in I PROVE \E b \in S : f[b] = h
    OBVIOUS
  <2>2. h \in 0 .. Height[r] /\ h > Height[t]
    BY <1>1
  <2>3. PICK b \in Chain[r] : Height[b] = h
    BY <2>2, TreeAssumption
  <2>4. b \in S
    BY <2>2, <2>3 DEF After
  <2> QED
    BY <2>3, <2>4
<1>5. f \in Surjection(S, I)
  BY <1>2, <1>4 DEF Surjection
<1>6. IsFiniteSet(I) /\ Cardinality(I) = Height[r] - Height[t]
  <2>1. Height[t] + 1 \in Int /\ Height[r] \in Int
    BY <1>1
  <2>2. /\ IsFiniteSet(I)
        /\ Cardinality(I) = IF Height[t] + 1 > Height[r] THEN 0
                            ELSE Height[r] - (Height[t] + 1) + 1
    BY <2>1, FS_Interval
  <2> HIDE DEF I
  <2> QED
    BY <1>1, <2>2
<1> HIDE DEF S, I, f
<1>7. Cardinality(S) = Cardinality(I)
  BY <1>3, <1>5, <1>6, FS_Injection
<1> QED
  BY <1>6, <1>7 DEF S

\* calculate_cfheaders passes no finished job by, stops at a job that is not
\* finished or at the limit, and has the future of each job of the run.
LEMMA CfheadersCheckFollows == Inv => CfheadersCheck
<1> SUFFICES ASSUME Inv PROVE CfheadersCheck
  OBVIOUS
<1> DEFINE n == D!NextPosition
           r == Reached
<1>1. /\ n \in Block /\ r \in Chain[n] /\ r \in Block /\ tip \in Chain[r]
      /\ Run = After(tip, r) /\ Jobs = After(tip, n)
  BY RunIsChain DEF Inv, DownloaderInv, JobsAreChain
<1>2. /\ \A c \in Chain[n] : c \in Block /\ Height[c] \in Nat
      /\ \A c, d \in Chain[n] : Height[c] = Height[d] => c = d
      /\ \A c \in Chain[n] : Height[c] <= Height[r] <=> c \in Chain[r]
      /\ Chain[r] \subseteq Chain[n]
      /\ Height[r] \in Nat /\ Height[tip] \in Nat /\ Height[tip] <= Height[r]
      /\ Height[n] \in Nat /\ Batch \in Nat
  BY <1>1, TreeAssumption, BoundsAssumption
<1>3. \A b \in Jobs : b \in Chain[n] /\ Height[b] > Height[tip]
  BY <1>1 DEF After
<1>4. finished \subseteq Jobs /\ Jobs = (queued \cup downloading \cup processing) \cup finished
  BY DEF Jobs
<1>5. ASSUME Run # finished, Cardinality(Run) < Batch
      PROVE  \E b \in queued \cup downloading \cup processing : Height[b] = Height[r] + 1
  <2>1. Height[r] < Height[tip] + Batch
    BY <1>1, <1>2, <1>5, LengthOfChain
  <2>2. PICK b \in finished : b \notin Run
    BY <1>5 DEF Run
  <2>3. b \in Chain[n] /\ Height[b] > Height[tip] /\ Height[b] \in Nat
    BY <1>2, <1>3, <1>4, <2>2
  <2>4. Height[b] > Height[r] /\ Height[b] <= Height[n]
    BY <1>1, <1>2, <2>2, <2>3, TreeAssumption DEF After
  <2>5. Height[r] + 1 \in 0 .. Height[n]
    BY <1>2, <2>3, <2>4
  <2>6. PICK d \in Chain[n] : Height[d] = Height[r] + 1
    BY <1>1, <2>5, TreeAssumption
  <2>7. d \in Jobs
    BY <1>1, <1>2, <2>6 DEF After
  <2>8. ASSUME d \in finished PROVE FALSE
    <3>1. ASSUME NEW h \in Height[tip] + 1 .. Height[d]
          PROVE  \E c \in finished : Height[c] = h
      <4>1. CASE h = Height[d]
        BY <2>8, <4>1
      <4>2. CASE h # Height[d]
        <5>1. h \in 0 .. Height[r] /\ h > Height[tip]
          BY <1>2, <2>6, <3>1, <4>2
        <5>2. PICK c \in Chain[r] : Height[c] = h
          BY <1>1, <5>1, TreeAssumption
        <5>3. c \in Run
          BY <1>1, <5>1, <5>2 DEF After
        <5> QED
          BY <5>2, <5>3 DEF Run
      <4> QED
        BY <4>1, <4>2
    <3>2. Height[d] <= Height[tip] + Batch
      BY <1>2, <2>1, <2>6
    <3>3. d \in Run
      BY <2>8, <3>1, <3>2 DEF Run
    <3>4. d \in Chain[r]
      BY <1>1, <3>3 DEF After
    <3> QED
      BY <1>2, <2>6, <3>4
  <2> QED
    BY <1>4, <2>6, <2>7, <2>8
<1>6. ASSUME NEW b \in Run
      PROVE  \/ previous[b] \in Run /\ Height[previous[b]] < Height[b]
             \/ previous[b] = tip
  <2> DEFINE c == Parent(b)
  <2>1. previous[b] = c
    BY DEF Inv, JobsAreChain, Run, Jobs
  <2>2. /\ b \in Chain[r] /\ b \in Block /\ c \in Chain[b] /\ Height[c] + 1 = Height[b]
    BY <1>1, AfterHasParent
  <2>3. c \in Chain[r] /\ Height[c] \in Nat /\ Height[b] > Height[tip] /\ Height[b] \in Nat
    BY <1>1, <1>2, <2>2, Prefix DEF After
  <2> HIDE DEF c
  <2>4. CASE Height[c] > Height[tip]
    BY <1>1, <2>1, <2>2, <2>3, <2>4 DEF After
  <2>5. CASE ~ (Height[c] > Height[tip])
    <3>1. Height[c] = Height[tip]
      BY <1>2, <2>2, <2>3, <2>5
    <3>2. c = tip
      BY <1>1, <1>2, <2>3, <3>1
    <3> QED
      BY <2>1, <3>2
  <2> QED
    BY <2>4, <2>5
<1> QED
  BY <1>3, <1>4, <1>5, <1>6 DEF CfheadersCheck

\* All assertions together; those of Downloader are known to hold.
LEMMA AssertionsFollow == Inv /\ Bookkeeping => AssertionsHold
<1> SUFFICES ASSUME Inv, Bookkeeping PROVE AssertionsHold
  OBVIOUS
<1>1. P!AssertionsHold
  BY P!InvChecks, Assumptions, SameDownloader DEF Inv
<1>2. D!UpdateCheck
  BY <1>1 DEF P!AssertionsHold, D!UpdateCheck, P!UpdateCheck, D!Run, P!Run,
              D!Reached, P!Reached, D!Highest, P!Highest
<1>3. \A b \in frames : D!ReceiveCheck(b)
  BY <1>1 DEF P!AssertionsHold, D!ReceiveCheck, P!ReceiveCheck, Bookkeeping
<1> QED
  BY <1>2, <1>3, QueueCheckFollows, CfheadersCheckFollows DEF AssertionsHold

(***************************************************************************)
(* While the best chain only grows.                                        *)
(***************************************************************************)

\* Nothing is cut off the jobs, and each request is on its way once and for a
\* block that is awaited.
Undisturbed ==
  /\ D!NextPosition \in Chain[best]
  /\ queued \cup downloading \subseteq index
  /\ frames \cup requested \subseteq downloading
  /\ frames \cap requested = {}
  /\ \A b \in Block : /\ replies[b] <= 1
                      /\ replies[b] = 1 => b \in downloading \ (frames \cup requested)

\* This lasts until the first reorg.
UntilReorg ==
  /\ reorgs \in Nat
  /\ reorgs = 0 => stage # "aborted" /\ Undisturbed

\* Without a reorg the ancestor is where the downloader has got to, so that
\* adjust_tip keeps all jobs.
LEMMA NothingIsCut ==
  ASSUME Inv, Undisturbed
  PROVE  /\ D!Ancestor = D!NextPosition
         /\ \A S \in SUBSET Jobs : Keep(S) = S
         /\ End \in Chain[best]
<1> DEFINE n == D!NextPosition
<1>1. /\ best \in Block /\ n \in Block /\ n \in Chain[best] /\ tip \in Chain[n]
      /\ Jobs = After(tip, n)
  BY DEF Inv, DownloaderInv, D!TypeOK, JobsAreChain, Undisturbed
<1>2. /\ Chain[n] \subseteq Chain[best] /\ n \in Chain[n]
      /\ \A c \in Chain[n] : c \in Block /\ Height[c] \in Nat /\ Height[c] <= Height[n]
      /\ \A c, d \in Chain[n] : Height[c] = Height[d] => c = d
  BY <1>1, Prefix, TreeAssumption
<1>3. D!Ancestor = n
  <2>1. Chain[n] \cap Chain[best] = Chain[n]
    BY <1>2
  <2>2. D!Ancestor = Highest(Chain[n])
    BY <2>1 DEF D!Ancestor, D!CommonAncestor, D!Highest, Highest
  <2>3. /\ Highest(Chain[n]) \in Chain[n]
        /\ \A c \in Chain[n] : Height[c] <= Height[Highest(Chain[n])]
    BY <1>1, <1>2, HighestExists
  <2>4. Height[Highest(Chain[n])] = Height[n]
    BY <1>2, <2>3
  <2> QED
    BY <1>2, <2>2, <2>3, <2>4
<1>4. ~ Reset
  BY <1>1, <1>2, <1>3 DEF Reset, D!Replaces
<1>5. ASSUME NEW S \in SUBSET Jobs PROVE Keep(S) = S
  <2>1. \A b \in S : b \in Chain[n]
    BY <1>1 DEF After
  <2>2. \A b \in S : Height[b] < Height[n] \/ b = n
    BY <1>2, <2>1
  <2> QED
    BY <1>3, <1>4, <2>2 DEF Keep, D!Kept
<1>6. End \in Chain[best]
  <2>1. D!New \subseteq Chain[best]
    BY DEF D!New, D!After
  <2>2. CASE D!New = {}
    BY <1>1, <1>3, <2>2 DEF End
  <2>3. CASE D!New # {}
    BY <1>1, <2>1, <2>3, HighestExists DEF End
  <2> QED
    BY <2>2, <2>3
<1> QED
  BY <1>3, <1>5, <1>6

\* queue_blocks only adds to the jobs.
LEMMA QueueBlocksUndisturbed ==
  ASSUME Inv, Undisturbed, QueueBlocks
  PROVE  Undisturbed'
<1>1. D!NextPosition' = End /\ best' = best
  BY AddBlocksStep DEF QueueBlocks, Inv
<1>2. /\ queued' = Keep(queued) \cup D!New /\ downloading' = Keep(downloading)
      /\ index' = index \cup D!New
      /\ UNCHANGED <<frames, requested, replies>>
  BY DEF QueueBlocks, oracle
<1>3. Keep(queued) = queued /\ Keep(downloading) = downloading
  BY NothingIsCut DEF Jobs
<1>4. D!NextPosition' \in Chain[best']
  BY <1>1, NothingIsCut
<1> QED
  BY <1>2, <1>3, <1>4 DEF Undisturbed

\* A step that requests blocks that were not awaited.
LEMMA RequestUndisturbed ==
  ASSUME Undisturbed, UNCHANGED <<frames, replies, best>>,
         D!NextPosition' = D!NextPosition,
         NEW S, S \cap downloading = {},
         downloading' = downloading \cup S, requested' = requested \cup S,
         queued' \cup downloading' \subseteq index'
  PROVE  Undisturbed'
BY DEF Undisturbed

\* The block that arrives is the one that its job waits for.
LEMMA ReceiveBlockUndisturbed ==
  ASSUME Inv, Undisturbed, NEW b \in Block, ReceiveBlock(b)
  PROVE  Undisturbed'
<1>1. /\ b \in frames /\ frames' = frames \ {b}
      /\ downloading' = downloading \ JobAt(b)
      /\ index' = index \ {b}
      /\ UNCHANGED <<best, queued, requested, replies>>
      /\ D!Receive(b)
  BY DEF ReceiveBlock, oracle
<1>2. D!NextPosition' = D!NextPosition
  BY <1>1, ReceiveStep DEF Inv
<1>3. b \in downloading /\ b \notin requested /\ replies[b] # 1
  BY <1>1 DEF Undisturbed
<1>4. JobAt(b) = {b}
  <2>1. \A c, d \in Jobs : Height[c] = Height[d] => c = d
    BY TreeAssumption DEF Inv, DownloaderInv, JobsAreChain, After
  <2> QED
    BY <1>3, <2>1 DEF JobAt, Jobs
<1>5. b \notin queued
  BY <1>3 DEF Inv, JobsAreDistinct
<1> QED
  BY <1>1, <1>2, <1>3, <1>4, <1>5 DEF Undisturbed

\* The blocks of a message were replies before.
LEMMA ProcessBlockReadyUndisturbed ==
  ASSUME Bookkeeping, Undisturbed, ProcessBlockReady, D!NextPosition' = D!NextPosition
  PROVE  Undisturbed'
<1>1. PICK S \in SUBSET {b \in Block : replies[b] > 0} :
        /\ frames' = S
        /\ replies' = [b \in Block |-> replies[b] - (IF b \in S THEN 1 ELSE 0)]
  BY DEF ProcessBlockReady
<1>2. /\ frames = {} /\ replies \in [Block -> Nat]
      /\ UNCHANGED <<best, queued, downloading, index, requested>>
  BY DEF ProcessBlockReady, maps, memory, Bookkeeping
<1>3. \A b \in S : replies[b] = 1 /\ replies'[b] = 0
  BY <1>1, <1>2 DEF Undisturbed
<1>4. \A b \in Block : b \notin S => replies'[b] = replies[b]
  BY <1>1, <1>2
<1>5. \A b \in Block : /\ replies'[b] <= 1
                       /\ replies'[b] = 1 => b \in downloading \ (S \cup requested)
  BY <1>3, <1>4, <1>2 DEF Undisturbed
<1>6. S \subseteq downloading /\ S \cap requested = {}
  BY <1>3 DEF Undisturbed
<1> QED
  BY <1>1, <1>2, <1>5, <1>6 DEF Undisturbed

\* A request is answered once.
LEMMA AnswerUndisturbed ==
  ASSUME Bookkeeping, Undisturbed, NEW b \in Block, Answer(b),
         D!NextPosition' = D!NextPosition
  PROVE  Undisturbed'
<1>1. /\ b \in requested /\ requested' = requested \ {b}
      /\ replies' = [replies EXCEPT ![b] = @ + 1]
      /\ UNCHANGED <<best, queued, downloading, index, frames>>
  BY DEF Answer, maps, memory
<1>2. replies \in [Block -> Nat]
  BY DEF Bookkeeping
<1>3. b \in downloading /\ b \notin frames /\ replies[b] = 0
  BY <1>1, <1>2 DEF Undisturbed
<1>4. replies'[b] = 1 /\ \A c \in Block : c # b => replies'[c] = replies[c]
  BY <1>1, <1>2, <1>3
<1>5. \A c \in Block : /\ replies'[c] <= 1
                       /\ replies'[c] = 1 => c \in downloading \ (frames \cup requested')
  BY <1>1, <1>3, <1>4 DEF Undisturbed
<1> QED
  BY <1>1, <1>5 DEF Undisturbed

\* After a restart the indexer follows the best chain again.
LEMMA RestartUndisturbed ==
  ASSUME Inv, Restart
  PROVE  Undisturbed'
<1>1. /\ best' = best /\ tip' \in Chain[best]
  BY RestartTip DEF Restart
<1>2. D!NextPosition' = tip'
  BY DEF Restart, D!NextPosition, D!Queue
<1>3. /\ queued' = {} /\ downloading' = {} /\ frames' = {} /\ requested' = {}
      /\ replies' = [b \in Block |-> 0]
  BY DEF Restart
<1> QED
  BY <1>1, <1>2, <1>3 DEF Undisturbed

\* A step that leaves the requests and the queue alone.
LEMMA RestUndisturbed ==
  ASSUME Undisturbed, D!NextPosition' = D!NextPosition,
         UNCHANGED <<best, queued, downloading, index, frames, requested, replies>>
  PROVE  Undisturbed'
BY DEF Undisturbed

\* No part of work() can end the process before a reorg.
LEMMA WorkUntilReorg ==
  ASSUME Inv, Bookkeeping, Undisturbed, stage # "aborted", Work
  PROVE  reorgs' = reorgs /\ stage' # "aborted" /\ Undisturbed'
<1>1. CASE QueueBlocks
  BY <1>1, QueueBlocksUndisturbed DEF QueueBlocks, counts
<1>2. CASE FetchBlocks
  <2>1. PICK next \in SUBSET queued :
          /\ downloading' = downloading \cup next
          /\ requested' = requested \cup next
          /\ queued' = queued \ next
    BY <1>2 DEF FetchBlocks, Lowest
  <2>2. /\ UNCHANGED <<dl, best, index, frames, replies, reorgs>>
        /\ stage' = "filters"
    BY <1>2 DEF FetchBlocks, memory, counts
  <2>3. D!NextPosition' = D!NextPosition
    BY <2>2, DownloaderStutters DEF Inv, DownloaderInv, D!TypeOK
  <2>4. next \cap downloading = {} /\ queued' \cup downloading' \subseteq index'
    BY <2>1, <2>2 DEF Inv, JobsAreDistinct, Undisturbed
  <2>5. Undisturbed'
    BY <2>1, <2>2, <2>3, <2>4, RequestUndisturbed
  <2> QED
    BY <2>2, <2>5
<1>3. CASE FindFinished
  <2>1. /\ downloading' = downloading \cup redownload
        /\ requested' = requested \cup redownload
        /\ index' = index \cup redownload
        /\ UNCHANGED <<dl, best, queued, frames, replies, reorgs>>
        /\ stage' = "headers"
    BY <1>3 DEF FindFinished, counts
  <2>2. D!NextPosition' = D!NextPosition
    BY <2>1, DownloaderStutters DEF Inv, DownloaderInv, D!TypeOK
  <2>3. redownload \cap downloading = {} /\ queued' \cup downloading' \subseteq index'
    BY <2>1 DEF Inv, JobsAreDistinct, Undisturbed
  <2>4. Undisturbed'
    BY <2>1, <2>2, <2>3, RequestUndisturbed
  <2> QED
    BY <2>1, <2>4
<1>4. CASE SkipCfheaders \/ StoreTips
  <2>1. /\ D!Update
        /\ UNCHANGED <<best, queued, downloading, index, frames, requested, replies,
                       reorgs>>
        /\ stage' = "idle"
    BY <1>4 DEF SkipCfheaders, StoreTips, maps, memory, oracle, counts
  <2>2. D!NextPosition' = D!NextPosition
    BY <2>1, UpdateStep DEF Inv
  <2> QED
    BY <2>1, <2>2, RestUndisturbed
<1>5. CASE CalculateCfilters \/ StoreData \/ Repeat
  <2>1. /\ UNCHANGED <<dl, best, queued, downloading, index, frames, requested,
                       replies, reorgs>>
        /\ stage' # "aborted"
    BY <1>5 DEF CalculateCfilters, StoreData, Repeat, maps, memory, oracle, counts
  <2>2. D!NextPosition' = D!NextPosition
    BY <2>1, DownloaderStutters DEF Inv, DownloaderInv, D!TypeOK
  <2> QED
    BY <2>1, <2>2, RestUndisturbed
<1>6. ASSUME NEW b \in Block, ReceiveBlock(b)
      PROVE  reorgs' = reorgs /\ stage' # "aborted" /\ Undisturbed'
  BY <1>6, ReceiveBlockUndisturbed DEF ReceiveBlock
<1>7. CASE Abort
  <2>1. PICK b \in frames : ~ ReadyCheck(b)
    BY <1>7 DEF Abort
  <2>2. b \in downloading /\ b \in index
    BY <2>1 DEF Undisturbed
  <2> QED
    BY <2>1, <2>2 DEF ReadyCheck, JobAt
<1> QED
  BY <1>1, <1>2, <1>3, <1>4, <1>5, <1>6, <1>7 DEF Work

\* All actions together.
LEMMA NextUntilReorg == Inv /\ Bookkeeping /\ UntilReorg /\ [Next]_vars => UntilReorg'
<1> SUFFICES ASSUME Inv, Bookkeeping, UntilReorg, [Next]_vars PROVE UntilReorg'
  OBVIOUS
<1>1. reorgs \in Nat /\ (reorgs = 0 => stage # "aborted" /\ Undisturbed) /\ best \in Block
  BY DEF UntilReorg, Inv, DownloaderInv, D!TypeOK
<1>2. CASE Work
  <2>1. reorgs' = reorgs
    BY <1>2 DEF Work, QueueBlocks, FetchBlocks, CalculateCfilters, FindFinished,
                SkipCfheaders, StoreData, StoreTips, Repeat, ReceiveBlock, Abort, counts
  <2> QED
    BY <1>1, <1>2, <2>1, WorkUntilReorg DEF UntilReorg
<1>3. CASE ProcessBlockReady
  <2>1. UNCHANGED <<dl, best, reorgs>> /\ stage' = "frames"
    BY <1>3 DEF ProcessBlockReady, counts
  <2>2. D!NextPosition' = D!NextPosition
    BY <1>1, <2>1, DownloaderStutters DEF Inv
  <2> QED
    BY <1>1, <1>3, <2>1, <2>2, ProcessBlockReadyUndisturbed DEF UntilReorg
<1>4. ASSUME NEW b \in Block, Answer(b) PROVE UntilReorg'
  <2>1. UNCHANGED <<dl, best, reorgs, stage>>
    BY <1>4 DEF Answer, counts
  <2>2. D!NextPosition' = D!NextPosition
    BY <1>1, <2>1, DownloaderStutters DEF Inv
  <2> QED
    BY <1>1, <1>4, <2>1, <2>2, AnswerUndisturbed DEF UntilReorg
<1>5. ASSUME NEW b \in Block, NewBest(b) PROVE UntilReorg'
  <2>1. /\ UNCHANGED <<dl, queued, downloading, index, frames, requested, replies, stage>>
        /\ best' = b
        /\ \/ best \in Chain[b] /\ reorgs' = reorgs
           \/ reorgs' = reorgs + 1
    BY <1>5 DEF NewBest, maps, memory, oracle
  <2>2. D!NextPosition' = D!NextPosition
    BY <2>1, DownloaderStutters DEF Inv
  <2>3. ASSUME reorgs' = 0 PROVE stage' # "aborted" /\ Undisturbed'
    <3>1. best \in Chain[b] /\ stage # "aborted" /\ Undisturbed
      BY <1>1, <2>1, <2>3
    <3>2. Chain[best] \subseteq Chain[b]
      BY <3>1, Prefix
    <3> QED
      BY <2>1, <2>2, <3>1, <3>2 DEF Undisturbed
  <2> QED
    BY <1>1, <2>1, <2>3 DEF UntilReorg
<1>6. CASE \/ ProcessHeader \/ ProcessJobFinished \/ Leave \/ UNCHANGED vars
           \/ \E b \in Block : Calculate(b)
  <2>1. /\ UNCHANGED <<dl, best, queued, downloading, index, frames, requested,
                       replies, reorgs>>
        /\ stage' = "aborted" => stage = "aborted"
    BY <1>6 DEF ProcessHeader, ProcessJobFinished, Leave, Calculate, vars, maps,
                memory, oracle, counts
  <2>2. D!NextPosition' = D!NextPosition
    BY <1>1, <2>1, DownloaderStutters DEF Inv
  <2> QED
    BY <1>1, <2>1, <2>2, RestUndisturbed DEF UntilReorg
<1>7. CASE Restart
  <2>1. reorgs' = reorgs /\ stage' = "queue"
    BY <1>7 DEF Restart
  <2> QED
    BY <1>1, <1>7, <2>1, RestartUndisturbed DEF UntilReorg
<1> QED
  BY <1>2, <1>3, <1>4, <1>5, <1>6, <1>7 DEF Next, Message

\* The node starts without requests.
LEMMA InitUntilReorg == Init => UntilReorg
<1> SUFFICES ASSUME Init PROVE UntilReorg
  OBVIOUS
<1>1. D!NextPosition = Genesis
  BY DEF Init, D!NextPosition, D!Queue
<1>2. Genesis \in Chain[best]
  BY TreeAssumption DEF Init
<1> QED
  BY <1>1, <1>2 DEF Init, UntilReorg, Undisturbed

(***************************************************************************)
(* The theorems.                                                           *)
(***************************************************************************)

\* Between the tip of the indexer and the position of its downloader each
\* block has one job, linked to the job or the tip below it, and what is
\* stored is closed under parents: after any reorgs, failures and restarts.
THEOREM Invariant == Spec => []Inv
<1> QED
  BY InitInv, NextInv, PTL DEF Spec

\* Each cfheader that calculate_cfheaders has ever stored was calculated from
\* that of the parent block, down to the genesis block.
THEOREM HeadersAreLinked == Spec => []StoredIsLinked
<1>1. Inv => StoredIsLinked
  BY DEF Inv
<1> QED
  BY <1>1, Invariant, PTL

\* The counters of the indexer and the requests of its blocks are kept too.
THEOREM BookkeepingInvariant == Spec => []Bookkeeping
<1> QED
  BY InitBooks, NextBooks, Invariant, PTL DEF Spec

\* cached_cfilter_bytes_ and the number of running jobs never go below zero,
\* and only blocks above the genesis block are requested.
THEOREM TypeCorrect == Spec => []TypeOK
<1> QED
  BY TypesFollow, Invariant, BookkeepingInvariant, PTL

\* The two calls of adjust_tip agree: each block that the downloader counts as
\* queued has a job, in one map, and the sizes of the filters add up.
THEOREM QueuesCorrect == Spec => []QueuesAgree
<1> QED
  BY QueuesFollow, Invariant, BookkeepingInvariant, PTL

\* No block in downloading_ is forgotten by request_blocks.
THEOREM RequestsCorrect == Spec => []AwaitedIsRequested
<1>1. Bookkeeping => AwaitedIsRequested
  BY DEF Bookkeeping
<1> QED
  BY <1>1, BookkeepingInvariant, PTL

\* The assertions of load_tip, previous_cfheader, queue_blocks,
\* calculate_cfheaders and Downloader hold whenever they are evaluated.
THEOREM AssertionsCorrect == Spec => []AssertionsHold
<1> QED
  BY AssertionsFollow, Invariant, BookkeepingInvariant, PTL

\* process_block_ready ends the process only after the best chain has changed
\* to another branch.
THEOREM EndIsAfterReorg == Spec => []EndsOnlyAfterReorg
<1>1. UntilReorg => EndsOnlyAfterReorg
  BY DEF UntilReorg, EndsOnlyAfterReorg
<1>2. Spec => []UntilReorg
  BY InitUntilReorg, NextUntilReorg, Invariant, BookkeepingInvariant, PTL DEF Spec
<1> QED
  BY <1>1, <1>2, PTL
=============================================================================
