----------------------------- MODULE BlockIndexer -----------------------------
(***************************************************************************)
(* The block indexer of the filter oracle                                  *)
(* (node/filteroracle/BlockIndexer.cpp): on a node that stores all blocks  *)
(* it requests each block of the best chain from the block oracle, lets    *)
(* background threads calculate its filter, calculates the filter headers, *)
(* each of which depends on the one before, and stores both.               *)
(*                                                                         *)
(* The actor runs work() after every message.  The variable stage is the   *)
(* next part of work(); between two parts the threads, the block oracle    *)
(* and the header oracle go on, and the process may be killed.  As in      *)
(* Downloader the maps by height are sets of blocks.                       *)
(***************************************************************************)
EXTENDS BlockTree, FiniteSets

CONSTANTS
  Limit,       \* the most blocks one AddBlocks adds
  MaxBlocks,   \* max_blocks_: requested and not yet stored
  MaxThreads,  \* the limit of running_
  MaxCached,   \* max_cached_cfilters_, where each filter has size one
  Batch,       \* calculation_batch_
  MaxReorg,    \* bound: changes of the best chain that are not extensions
  MaxFault     \* bound: blocks that cannot be read, and restarts

ASSUME BoundsAssumption == {Limit, MaxBlocks, Batch} \subseteq Nat \ {0}

VARIABLES
  best,                                  \* of the header oracle
  dl_tip, dl_downloading, dl_ready, dl_index,  \* downloader_
  tip,                                   \* tip_.position_
  queued, downloading, processing, finished,   \* the maps of jobs
  previous,     \* previous_cfheader_ of each job: the block it is the future of
  running, parsed, redownload,  \* the states of jobs in processing
  unreadable,   \* jobs whose block_ is not the block of the job, or damaged
  index,        \* index_
  cached,       \* cached_cfilter_bytes_
  leaving,      \* threads that will not touch a job any more
  notified,     \* notified_: a job_finished message is under way
  header,       \* a header or reorg message is under way
  stage, again, \* the next part of work(), and what it will return
  frames,       \* blocks in the message that is being handled
  requested,    \* requests_ of the block oracle
  replies,      \* number of replies under way for each block
  stored,       \* database: cfheaders, and the block each was calculated from
  db_tip,       \* database: BlockFilterHeaderBest and BlockFilterBest
  reorgs, faults

dl == <<dl_tip, dl_downloading, dl_ready, dl_index>>
maps == <<queued, downloading, processing, finished, previous>>
states == <<running, parsed, redownload, unreadable>>
memory == <<tip, index, cached>>
threads == <<leaving, notified>>
oracle == <<requested, replies>>
database == <<stored, db_tip>>
counts == <<reorgs, faults>>
vars == <<best, dl, maps, states, memory, threads, header, stage, again, frames,
          oracle, database, counts>>

D == INSTANCE Downloader WITH tip <- dl_tip, downloading <- dl_downloading,
                              ready <- dl_ready, index <- dl_index

Jobs == queued \cup downloading \cup processing \cup finished

Init ==
  /\ best = Genesis /\ tip = Genesis /\ dl_tip = Genesis /\ db_tip = Genesis
  /\ dl_downloading = {} /\ dl_ready = {} /\ dl_index = {}
  /\ queued = {} /\ downloading = {} /\ processing = {} /\ finished = {}
  /\ previous = [b \in {} |-> b]
  /\ running = {} /\ parsed = {} /\ redownload = {} /\ unreadable = {}
  /\ index = {} /\ cached = 0
  /\ leaving = 0 /\ notified = FALSE /\ header = FALSE
  /\ stage = "queue" /\ again = FALSE
  /\ frames = {} /\ requested = {} /\ replies = [b \in Block |-> 0]
  /\ stored = [b \in {Genesis} |-> Genesis]
  /\ reorgs = 0 /\ faults = 0

-----------------------------------------------------------------------------
(***************************************************************************)
(* The parts of work().                                                    *)
(***************************************************************************)

\* adjust_tip, which is called with the ancestor that AddBlocks found.
Reset == D!Replaces(D!Ancestor, tip)

KeepAll(S) == IF Reset THEN {} ELSE S  \* mutant: stale jobs stay in the maps

Keep(S) == IF Reset THEN {} ELSE D!Kept(S, D!Ancestor)

KeptJobs == Keep(queued) \cup Keep(downloading) \cup Keep(processing)
              \cup Keep(finished)

LastJobUnfinished ==  \* mutant: jobs that are finished are overlooked
  LET jobs == KeptJobs \ finished
  IN IF jobs # {} THEN Highest(jobs)
     ELSE IF Reset THEN D!Ancestor ELSE tip

\* previous_cfheader: the last job, or the tip.
LastJob ==
  IF KeptJobs # {} THEN Highest(KeptJobs)
  ELSE IF Reset THEN D!Ancestor ELSE tip

PreviousFixed(b) == LastJob  \* mutant: new jobs are not linked to each other

\* Whose cfheader the job of a new block waits for.
Previous(b) ==
  IF Height[b] = Height[D!Ancestor] + 1 THEN LastJob
  ELSE CHOOSE c \in D!New : Height[c] = Height[b] - 1

\* The assertions of load_tip, previous_cfheader and queue_blocks.
QueueCheck ==
  /\ Reset => D!Ancestor \in DOMAIN stored
  /\ D!New # {} => /\ Height[LastJob] = Height[D!Ancestor]
                   /\ \A b, c \in KeptJobs : Height[b] = Height[c] => b = c
                   /\ \A b \in KeptJobs, c \in D!New : Height[b] # Height[c]

QueueBlocks ==
  /\ stage = "queue" /\ stage' = "fetch"
  /\ QueueCheck
  /\ D!AddBlocks
  /\ again' = D!More
  /\ tip' = IF Reset THEN D!Ancestor ELSE tip
  /\ queued' = Keep(queued) \cup D!New
  /\ downloading' = Keep(downloading)
  /\ processing' = Keep(processing)
  /\ finished' = Keep(finished)
  /\ previous' = [b \in KeptJobs \cup D!New |->
                    IF b \in KeptJobs THEN previous[b] ELSE Previous(b)]
  /\ cached' = IF Reset THEN 0
               ELSE cached - Cardinality(finished \ Keep(finished))
  /\ running' = Keep(running)
  /\ leaving' = leaving + Cardinality(running \ Keep(running))
  /\ parsed' = Keep(parsed)
  /\ redownload' = Keep(redownload)
  /\ unreadable' = Keep(unreadable)
  /\ index' = index \cup D!New
  /\ UNCHANGED <<best, notified, header, frames, oracle, database, counts>>

\* The blocks of S with the k lowest heights.
Lowest(S, k) ==
  {b \in S : Cardinality({c \in S : Height[c] < Height[b]}) < k}

\* open_blocks
Open == Cardinality(downloading \cup processing \cup finished)

FetchBlocks ==
  LET next == IF Open < MaxBlocks THEN Lowest(queued, MaxBlocks - Open) ELSE {}
  IN /\ stage = "fetch" /\ stage' = "filters"
     /\ queued' = queued \ next
     /\ downloading' = downloading \cup next
     /\ requested' = requested \cup next
     /\ again' = (again \/ queued' # {})
     /\ UNCHANGED <<best, dl, processing, finished, previous, states, memory,
                    threads, header, frames, replies, database, counts>>

Downloaded == processing \ (running \cup parsed \cup redownload)

\* The loop visits jobs that run already, too, before it meets the limit.
CalculateCfilters ==
  LET free == MaxThreads - (Cardinality(running) + leaving)
      start == IF free > 0 THEN Lowest(Downloaded, free) ELSE {}
      limited == /\ Cardinality(start) >= free
                 /\ \E b \in processing : \A c \in start : Height[c] < Height[b]
  IN /\ stage = "filters" /\ stage' = "find"
     /\ running' = running \cup start
     /\ again' = (again \/ limited)
     /\ UNCHANGED <<best, dl, maps, parsed, redownload, unreadable, memory,
                    threads, header, frames, oracle, database, counts>>

FindFinishedState ==  \* mutant: the state of a job is not reset
  /\ stage = "find" /\ stage' = "headers"
  /\ processing' = processing \ (parsed \cup redownload)
  /\ finished' = finished \cup parsed
  /\ downloading' = downloading \cup redownload
  /\ cached' = cached + Cardinality(parsed)
  /\ index' = index \cup redownload
  /\ requested' = requested \cup redownload
  /\ unreadable' = unreadable \ redownload
  /\ parsed' = {}
  /\ UNCHANGED <<best, dl, queued, previous, running, redownload, tip, threads, header,
                 again, frames, replies, database, counts>>

FindFinishedSilent ==  \* mutant: the block is not requested again
  /\ stage = "find" /\ stage' = "headers"
  /\ processing' = processing \ (parsed \cup redownload)
  /\ finished' = finished \cup parsed
  /\ downloading' = downloading \cup redownload
  /\ cached' = cached + Cardinality(parsed)
  /\ index' = index \cup redownload
  /\ unreadable' = unreadable \ redownload
  /\ parsed' = {} /\ redownload' = {}
  /\ UNCHANGED <<best, dl, queued, previous, running, tip, threads, header,
                 again, frames, oracle, database, counts>>

FindFinishedUnindexed ==  \* mutant: the block is not put into the index
  /\ stage = "find" /\ stage' = "headers"
  /\ processing' = processing \ (parsed \cup redownload)
  /\ finished' = finished \cup parsed
  /\ downloading' = downloading \cup redownload
  /\ cached' = cached + Cardinality(parsed)
  /\ requested' = requested \cup redownload
  /\ unreadable' = unreadable \ redownload
  /\ parsed' = {} /\ redownload' = {}
  /\ UNCHANGED <<best, dl, queued, previous, running, index, tip, threads, header,
                 again, frames, replies, database, counts>>

FindFinished ==
  /\ stage = "find" /\ stage' = "headers"
  /\ processing' = processing \ (parsed \cup redownload)
  /\ finished' = finished \cup parsed
  /\ downloading' = downloading \cup redownload
  /\ cached' = cached + Cardinality(parsed)
  /\ index' = index \cup redownload
  /\ requested' = requested \cup redownload
  /\ unreadable' = unreadable \ redownload
  /\ parsed' = {} /\ redownload' = {}
  /\ UNCHANGED <<best, dl, queued, previous, running, tip, threads, header,
                 again, frames, replies, database, counts>>

\* ready(): it is worth while to calculate cfheaders.
Ready ==
  /\ finished # {}
  /\ \/ cached >= MaxCached
     \/ downloading = {} /\ processing = {}
     \/ Cardinality(finished) >= Batch

\* The finished jobs that follow the tip without a gap, up to the limit.
Run ==
  {b \in finished :
     /\ Height[b] <= Height[tip] + Batch
     /\ \A h \in Height[tip] + 1 .. Height[b] :
          \E c \in finished : Height[c] = h}

Reached == IF Run = {} THEN tip ELSE Highest(Run)

\* The assertions of calculate_cfheaders: no block was passed by, the first
\* gap is in another map, and the future of each job is ready when it is used.
CfheadersCheck ==
  /\ \A b \in finished : Height[b] > Height[tip]
  /\ Run # finished /\ Cardinality(Run) < Batch =>
       \E b \in queued \cup downloading \cup processing :
         Height[b] = Height[Reached] + 1
  /\ \A b \in Run :
       \/ previous[b] \in Run /\ Height[previous[b]] < Height[b]
       \/ previous[b] = tip

\* Otherwise work() ends with the Update of the downloader.
SkipCfheaders ==
  /\ stage = "headers" /\ stage' = "idle"
  /\ ~ Ready
  /\ D!Update
  /\ UNCHANGED <<best, maps, states, memory, threads, header, again,
                 frames, oracle, database, counts>>

\* StoreFilters first writes the filters and headers ...
StoreData ==
  /\ stage = "headers" /\ stage' = "tips"
  /\ Ready
  /\ CfheadersCheck
  /\ stored' = [b \in DOMAIN stored \cup Run |->
                  IF b \in Run THEN previous[b] ELSE stored[b]]
  /\ UNCHANGED <<best, dl, maps, states, memory, threads, header, again,
                 frames, oracle, db_tip, counts>>

\* ... and then both tips.  What it stored leaves the memory.  Here, too,
\* Update is the end of work().
StoreTips ==
  /\ stage = "tips" /\ stage' = "idle"
  /\ D!Update
  /\ db_tip' = Reached
  /\ tip' = Reached
  /\ finished' = finished \ Run
  /\ previous' = [b \in Jobs \ Run |-> previous[b]]
  /\ cached' = cached - Cardinality(Run)
  /\ again' = (again \/ Cardinality(Run) >= Batch)
  /\ UNCHANGED <<best, queued, downloading, processing, states, index,
                 threads, header, frames, oracle, stored, counts>>

-----------------------------------------------------------------------------
(***************************************************************************)
(* Messages.                                                               *)
(***************************************************************************)

RepeatOnMessage ==  \* mutant: work() is not repeated without a message
  /\ stage = "idle" /\ again /\ header
  /\ stage' = "queue"
  /\ UNCHANGED <<best, dl, maps, states, memory, threads, header, again, frames,
                 oracle, database, counts>>

\* The trigger after work() returned true.
Repeat ==
  /\ stage = "idle" /\ again
  /\ stage' = "queue"
  /\ UNCHANGED <<best, dl, maps, states, memory, threads, header, again, frames,
                 oracle, database, counts>>

\* A new header, a reorg: nothing to do, but work() runs.
ProcessHeader ==
  /\ stage = "idle" /\ header
  /\ header' = FALSE
  /\ stage' = "queue"
  /\ UNCHANGED <<best, dl, maps, states, memory, threads, again, frames, oracle,
                 database, counts>>

ProcessJobFinished ==
  /\ stage = "idle" /\ notified
  /\ notified' = FALSE
  /\ stage' = "queue"
  /\ UNCHANGED <<best, dl, maps, states, memory, leaving, header, again, frames,
                 oracle, database, counts>>

\* A block_ready message holds one block or more.
ProcessBlockReady ==
  /\ stage = "idle"
  /\ \E S \in SUBSET {b \in Block : replies[b] > 0} :
       /\ S # {}
       /\ frames' = S
       /\ replies' = [b \in Block |-> replies[b] - (IF b \in S THEN 1 ELSE 0)]
  /\ stage' = "frames"
  /\ UNCHANGED <<best, dl, maps, states, memory, threads, header, again,
                 requested, database, counts>>

\* The job that the height of a block selects.
JobAt(b) == {j \in downloading : Height[j] = Height[b]}

\* The conditions under which the callback does not throw.
ReadyCheck(b) == b \in index /\ JobAt(b) # {}

\* The callback takes the block by its height, then Downloader receives it.
ReceiveBlock(b) ==
  /\ stage = "frames" /\ b \in frames
  /\ ReadyCheck(b)
  /\ downloading' = downloading \ JobAt(b)
  /\ processing' = processing \cup JobAt(b)
  /\ index' = index \ {b}
  /\ \/ b \in JobAt(b) /\ UNCHANGED <<unreadable, faults>>
     \/ /\ b \notin JobAt(b)
        /\ unreadable' = unreadable \cup JobAt(b)
        /\ UNCHANGED faults
     \/ /\ faults < MaxFault
        /\ faults' = faults + 1
        /\ unreadable' = unreadable \cup JobAt(b)
  /\ D!Receive(b)
  /\ frames' = frames \ {b}
  /\ stage' = IF frames' = {} THEN "queue" ELSE "frames"
  /\ UNCHANGED <<best, queued, finished, previous, running, parsed, redownload,
                 tip, cached, threads, header, again, oracle, database,
                 reorgs>>

\* The exception is caught, and LogAbort ends the process.
Abort ==
  /\ stage = "frames"
  /\ \E b \in frames : ~ ReadyCheck(b)
  /\ stage' = "aborted"
  /\ UNCHANGED <<best, dl, maps, states, memory, threads, header, again, frames,
                 oracle, database, counts>>

-----------------------------------------------------------------------------
(***************************************************************************)
(* Background threads.                                                     *)
(***************************************************************************)

\* The block is parsed, or it turns out not to be the one of the job.
Calculate(b) ==
  /\ b \in running
  /\ running' = running \ {b}
  /\ leaving' = leaving + 1
  /\ IF b \in unreadable
     THEN redownload' = redownload \cup {b} /\ UNCHANGED parsed
     ELSE parsed' = parsed \cup {b} /\ UNCHANGED redownload
  /\ UNCHANGED <<best, dl, maps, unreadable, memory, notified, header, stage,
                 again, frames, oracle, database, counts>>

\* The guard of the thread, when the state of its job has been set.
Leave ==
  /\ leaving > 0
  /\ leaving' = leaving - 1
  /\ notified' = TRUE
  /\ UNCHANGED <<best, dl, maps, states, memory, header, stage, again, frames,
                 oracle, database, counts>>

-----------------------------------------------------------------------------
(***************************************************************************)
(* The block oracle, the header oracle, and the process.                   *)
(***************************************************************************)
Answer(b) ==
  /\ b \in requested
  /\ requested' = requested \ {b}
  /\ replies' = [replies EXCEPT ![b] = @ + 1]
  /\ UNCHANGED <<best, dl, maps, states, memory, threads, header, stage, again,
                 frames, database, counts>>

NewBest(b) ==
  /\ b # best
  /\ best' = b
  /\ \/ best \in Chain[b] /\ UNCHANGED reorgs
     \/ /\ best \notin Chain[b]
        /\ reorgs < MaxReorg
        /\ reorgs' = reorgs + 1
  /\ header' = TRUE
  /\ UNCHANGED <<dl, maps, states, memory, threads, stage, again, frames,
                 oracle, database, faults>>

\* find_acceptable_cfheader and find_acceptable_cfilter: the stored tip, if it
\* is in the best chain, or the next lower block there that has all data.
Acceptable(b) ==
  /\ b \in Chain[best]
  /\ b = db_tip \/ Height[b] < Height[db_tip]
  /\ \A c \in Chain[b] : Height[c] + 1 >= Height[b] => c \in DOMAIN stored

Restart ==
  /\ faults < MaxFault
  /\ faults' = faults + 1
  /\ db_tip' = Highest({b \in Block : Acceptable(b)})
  /\ tip' = db_tip' /\ dl_tip' = db_tip'
  /\ dl_downloading' = {} /\ dl_ready' = {} /\ dl_index' = {}
  /\ queued' = {} /\ downloading' = {} /\ processing' = {} /\ finished' = {}
  /\ previous' = [b \in {} |-> b]
  /\ running' = {} /\ parsed' = {} /\ redownload' = {} /\ unreadable' = {}
  /\ index' = {} /\ cached' = 0
  /\ leaving' = 0 /\ notified' = FALSE /\ header' = FALSE
  /\ stage' = "queue" /\ again' = FALSE
  /\ frames' = {} /\ requested' = {} /\ replies' = [b \in Block |-> 0]
  /\ UNCHANGED <<best, stored, reorgs>>

-----------------------------------------------------------------------------
Work ==
  \/ QueueBlocks
  \/ FetchBlocks
  \/ CalculateCfilters
  \/ FindFinished
  \/ SkipCfheaders
  \/ StoreData
  \/ StoreTips
  \/ Repeat
  \/ \E b \in Block : ReceiveBlock(b)
  \/ Abort

Message == ProcessHeader \/ ProcessJobFinished \/ ProcessBlockReady

Next ==
  \/ Work
  \/ Message
  \/ \E b \in Block : Calculate(b) \/ Answer(b) \/ NewBest(b)
  \/ Leave
  \/ Restart

Spec == Init /\ [][Next]_vars

\* The actor empties its mailbox in order, its threads end, and the block
\* oracle gets each block of the best chain from some peer in the end.
Fairness ==
  /\ WF_vars(Work)
  /\ SF_vars(Message)
  /\ WF_vars(\E b \in Block : Calculate(b))
  /\ WF_vars(Leave)
  /\ WF_vars(\E b \in Chain[best] : Answer(b))

FairSpec == Spec /\ Fairness

-----------------------------------------------------------------------------
(***************************************************************************)
(* Properties.                                                             *)
(***************************************************************************)
\* Types of the variables; the states of jobs belong to jobs in processing_.
TypeOK ==
  /\ {best, tip, dl_tip, db_tip} \subseteq Block
  /\ Jobs \cup index \cup frames \cup requested \subseteq Block \ {Genesis}
  /\ running \cup parsed \cup redownload \subseteq processing
  /\ previous \in [Jobs -> Block]
  /\ replies \in [Block -> Nat]
  /\ stored \in [DOMAIN stored -> Block] /\ DOMAIN stored \subseteq Block
  /\ leaving \in Nat /\ cached \in Nat
  /\ {notified, header, again} \subseteq BOOLEAN
  /\ stage \in {"queue", "fetch", "filters", "find", "headers", "tips",
                "idle", "frames", "aborted"}

Parent(b) == CHOOSE c \in Chain[b] : Height[c] + 1 = Height[b]

\* Each block between the tip and the position that the downloader has
\* reached is in one map, and its job waits for the cfheader of its parent:
\* adjust_tip of the indexer and that of the downloader agree, although each
\* compares the ancestor with a tip of its own.
QueuesAgree ==
  /\ tip \in Chain[D!NextPosition]
  /\ Jobs = After(tip, D!NextPosition)
  /\ Cardinality(Jobs) = Cardinality(queued) + Cardinality(downloading)
                           + Cardinality(processing) + Cardinality(finished)
  /\ cached = Cardinality(finished)
  /\ \A b \in Jobs : previous[b] = Parent(b)

\* Every cfheader in the database was calculated from that of the parent
\* block, all the way down from every block that ever was the tip.
StoredIsLinked ==
  /\ {tip, db_tip} \subseteq DOMAIN stored
  /\ \A b \in DOMAIN stored \ {Genesis} :
       stored[b] = Parent(b) /\ stored[b] \in DOMAIN stored

\* A block in downloading_ is requested, or its answer is under way: reorgs,
\* unreadable blocks and merged requests do not lose it.
AwaitedIsRequested ==
  \A b \in downloading : b \in requested \/ replies[b] > 0 \/ b \in frames

\* The assertions of the parts of work() and of both receivers of a block hold
\* when they are reached, but for the one about blocks that are not awaited.
AssertionsHold ==
  /\ stage = "queue" => QueueCheck
  /\ stage = "headers" /\ Ready => CfheadersCheck
  /\ \A b \in frames : D!ReceiveCheck(b)
  /\ stage \in {"headers", "tips"} => D!UpdateCheck

\* No block arrives that the indexer does not wait for, as the callback of
\* process_block_ready takes for granted.
BlockReadyIsExpected == \A b \in frames : ReadyCheck(b)

\* When the best chain does not change any more the indexer catches up with
\* it, and so does the database unless the new best chain is a part of the old.
CatchesUp ==
  <>[](stage = "aborted" \/ (tip = best /\ best \in Chain[db_tip]))

\* Unless there is a reorg the indexer does not end the process.
EndsOnlyAfterReorg == stage = "aborted" => reorgs > 0
=============================================================================
