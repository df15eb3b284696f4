--------------------------- MODULE SubchainPipeline ---------------------------
(***************************************************************************)
(* The jobs that find the transactions of one subchain: Scan tests the     *)
(* cfilters of the blocks, Process downloads those that match and stores   *)
(* what they contain, Index derives the elements of new keys, Rescan tests *)
(* again the blocks above one whose processing revealed new elements, and  *)
(* Progress saves how far everything is done                               *)
(* (src/blockchain/node/wallet/subchain).                                  *)
(*                                                                         *)
(* Each job handles its messages in order, one at a time, and runs its     *)
(* state machine (work) later than the message that asked for it: do_work  *)
(* is limited to once per millisecond.  The jobs share the elements, the   *)
(* results of the tests (MatchCache), scan_dirty_ and progress_position_.  *)
(***************************************************************************)
EXTENDS Integers, Sequences, FiniteSets, FiniteSetsExt, SequencesExt

CONSTANTS
  Element,        \* keys and outputs
  Block,          \* the elements that occur in the block of each height
  Filter,         \* the elements its cfilter matches
  Reveals,        \* the elements the wallet learns by storing an element
  Txo,            \* those that are outputs: known when they are stored
  Initial,        \* the elements known from the start
  Threshold,      \* scan_threshold_
  MaxScan,        \* maximum_scan_
  Batch,          \* the blocks one run of work tests, at most MaxScan
  PutOff,         \* whether the work of Index may be put off by the rate limit
  \* bounds of the exploration
  FirstTip, MaxTip,
  Events,         \* what may happen besides: each of these once, except that
                  \* "contract" lets Rescan ask for a rescan as often as it does
  MaxEvents       \* how many of them happen in one behaviour

ASSUME ConstantsAssumption ==
  /\ {FirstTip, MaxTip, MaxEvents, Threshold} \subseteq Nat /\ FirstTip <= MaxTip
  /\ Events \subseteq {"filter", "rescan", "failure", "contract", "restart", "reorg"}
  /\ Batch \in Nat \ {0} /\ MaxScan \in Nat /\ Batch <= MaxScan /\ PutOff \in BOOLEAN
  /\ Block \in [0..MaxTip -> SUBSET Element]
  /\ Filter \in [0..MaxTip -> SUBSET Element]
  /\ \A h \in 0..MaxTip : Block[h] \subseteq Filter[h]
  /\ Reveals \in [Element -> SUBSET Element]
  /\ Txo \cup Initial \subseteq Element

VARIABLES
  tip,            \* the filter tip of the filter oracle
  known,          \* element_cache_
  tested,         \* match_cache_: the elements tested for each block
  stored,         \* the matches in the database
  saved,          \* SubchainLastScanned in the database
  progress,       \* progress_position_
  scan,           \* Scan: last_scanned_, filter_tip_
  rescan,         \* Rescan: last_scanned_, filter_tip_, dirty_, highest_dirty_
  scan_dirty,     \* parent_.scan_dirty_
  pending,        \* rescan_pending_
  process,        \* Process: waiting_ and downloading_, ready_, processing_
  jobs,           \* the blocks the threads of Process are working at
  finished,       \* process messages of these threads
  cache,          \* DeterministicStateData::cache_: blocks and matches
  awake,          \* the jobs whose work is due
  asked,          \* do_rescan messages on their way to Scan
  toProcess, reprocess, toRescan, toProgress,  \* messages between the jobs
  happened        \* the events there have been

wallet == <<known, tested, stored>>
position == <<saved, progress>>
flags == <<scan_dirty, pending>>
worker == <<process, jobs, finished, cache>>
queues == <<toProcess, reprocess, toRescan, toProgress>>
vars == <<tip, wallet, position, scan, rescan, flags, worker, awake, asked,
          queues, happened>>

Nothing == -2     \* an empty std::optional
Null == -1        \* the height of null_position_
Height == 0..MaxTip
Current(last) == IF last = Nothing THEN Null ELSE last
FinishRescan == Threshold + MaxScan
Before(h) == IF h > 0 THEN h - 1 ELSE 0

\* highest_clean: the last position below the first dirty one.
HighestClean(clean, dirty) ==
  LET S == {c \in clean : \A d \in dirty : c < d}
  IN IF S = {} THEN Nothing ELSE Max(S)

Happens(event) ==
  /\ event \in Events \ happened /\ Cardinality(happened) < MaxEvents
  /\ happened' = happened \cup {event}

Matches(h) == (known \ tested[h]) \cap Filter[h] # {}
Test(S) == [h \in Height |-> IF h \in S THEN tested[h] \cup known ELSE tested[h]]
Contents(h) == {h} \X Block[h]
Generated == Initial \cup UNION {Reveals[m[2]] : m \in stored}

Msg(t, s) == [type |-> t, at |-> s]
Post(q, m) == IF q # <<>> /\ Last(q) = m THEN q ELSE Append(q, m)

-----------------------------------------------------------------------------
(* Scan.                                                                   *)

\* work: Scan waits while it is too far ahead of the rescan.
Waits == scan_dirty /\ Current(scan.last) - Current(progress) > Threshold

ScanWork ==
  LET first == Current(scan.last) + 1
      b == Min({first + Batch - 1, scan.tip})
      dirty == {h \in first..b : Matches(h)}
      clean == HighestClean((first..b) \ dirty, dirty)
  IN /\ "scan" \in awake
     /\ \/ /\ Current(scan.last) = scan.tip \/ Waits
           /\ awake' = awake \ {"scan"}
           /\ UNCHANGED <<scan, toProcess, tested>>
        \/ /\ Current(scan.last) # scan.tip /\ ~Waits
           /\ scan' = [scan EXCEPT !.last = b]
           /\ tested' = Test(first..b)
           /\ toProcess' = toProcess
                \o (IF dirty = {} THEN <<>> ELSE <<Msg("dirty", dirty)>>)
                \o (IF clean = Nothing THEN <<>> ELSE <<Msg("clean", {clean})>>)
           /\ awake' = IF b = scan.tip THEN awake \ {"scan"} ELSE awake
     /\ UNCHANGED <<tip, known, stored, position, rescan, flags, worker, asked,
                    reprocess, toRescan, toProgress, happened>>

\* A new cfilter: process_filter
NewFilter ==
  /\ tip < MaxTip /\ Happens("filter")
  /\ tip' = tip + 1
  /\ scan' = [scan EXCEPT !.tip = tip + 1]
  /\ toProcess' = Append(toProcess, Msg("filter", {tip + 1}))
  /\ awake' = awake \cup {"scan"}
  /\ UNCHANGED <<wallet, position, rescan, flags, worker, asked, reprocess,
                 toRescan, toProgress>>

\* process_do_rescan
ScanRescan ==
  /\ asked > 0
  /\ asked' = asked - 1
  /\ scan' = [scan EXCEPT !.last = Nothing]
  /\ tested' = [h \in Height |-> {}]
  /\ toProcess' = Append(toProcess, Msg("rescan", {}))
  /\ UNCHANGED <<tip, known, stored, position, rescan, flags, worker, awake,
                 reprocess, toRescan, toProgress, happened>>

\* The user asks for it, here once all work is done: a failure to store asks
\* for it amid the work.
UserRescan ==
  /\ saved = tip /\ awake = {} /\ cache.at = {} /\ finished = {}
  /\ toProcess = <<>> /\ toRescan = <<>>
  /\ Happens("rescan")
  /\ asked' = asked + 1
  /\ UNCHANGED <<tip, wallet, position, scan, rescan, flags, worker, awake,
                 queues>>

\* TriggerRescan
Trigger ==
  /\ pending' = TRUE
  /\ asked' = IF pending THEN asked ELSE asked + 1

-----------------------------------------------------------------------------
(* Process.  Its download queue is not full: waiting_ and downloading_ are *)
(* one set.                                                                *)

NoCache == [at |-> {}, found |-> {}]
NoBlocks == [downloading |-> {}, ready |-> {}, processing |-> {}]

\* do_process_update, forwarding; process_do_rescan
ProcessMessage ==
  LET m == Head(toProcess)
  IN /\ toProcess # <<>>
     /\ toProcess' = Tail(toProcess)
     /\ toRescan' = Append(toRescan, m)
     /\ process' = CASE m.type = "dirty" -> [process EXCEPT !.downloading = @ \cup m.at]
                     [] m.type = "rescan" -> NoBlocks
                     [] OTHER -> process
     /\ awake' = IF m.type \in {"dirty", "clean"} THEN awake \cup {"process"} ELSE awake
     /\ UNCHANGED <<tip, wallet, position, scan, rescan, flags, jobs, finished,
                    cache, asked, reprocess, toProgress, happened>>

\* Mutant: forgets what it was waiting for.
ReprocessOnly ==
  /\ reprocess # <<>>
  /\ reprocess' = Tail(reprocess)
  /\ process' = [process EXCEPT !.downloading = Head(reprocess)]
  /\ awake' = awake \cup {"process"}
  /\ UNCHANGED <<tip, wallet, position, scan, rescan, flags, jobs, finished,
                 cache, asked, toProcess, toRescan, toProgress, happened>>

\* process_reprocess
Reprocess ==
  /\ reprocess # <<>>
  /\ reprocess' = Tail(reprocess)
  /\ process' = [process EXCEPT !.downloading = @ \cup Head(reprocess)]
  /\ awake' = awake \cup {"process"}
  /\ UNCHANGED <<tip, wallet, position, scan, rescan, flags, jobs, finished,
                 cache, asked, toProcess, toRescan, toProgress, happened>>

\* process_blocks
BlockArrives(h) ==
  /\ h \in process.downloading
  /\ process' = [process EXCEPT !.downloading = @ \ {h}, !.ready = @ \cup {h}]
  /\ awake' = awake \cup {"process"}
  /\ UNCHANGED <<tip, wallet, position, scan, rescan, flags, jobs, finished,
                 cache, asked, queues, happened>>

\* ProcessBlock on another thread: the elements the tests have matched are
\* looked for, all known ones if the tests have been forgotten.
ProcessBlock(h) ==
  LET among == IF tested[h] = {} THEN known ELSE known \cap tested[h] \cap Filter[h]
      found == {m \in Contents(h) : m[2] \in among}
  IN /\ h \in jobs
     /\ jobs' = jobs \ {h}
     /\ finished' = finished \cup {h}
     /\ cache' = [at |-> cache.at \cup {h}, found |-> cache.found \cup found]
     /\ UNCHANGED <<tip, wallet, position, scan, rescan, flags, process, awake,
                    asked, queues, happened>>

\* process_process
BlockFinished(h) ==
  /\ h \in finished
  /\ finished' = finished \ {h}
  /\ process' = [process EXCEPT !.processing = @ \ {h}]
  /\ awake' = awake \cup {"process"}
  /\ UNCHANGED <<tip, wallet, position, scan, rescan, flags, jobs, cache, asked,
                 queues, happened>>

\* CheckCache, flush_cache: nothing is left to do, or it is ten seconds since
\* the cache was last stored.
Flush ==
  /\ stored' = stored \cup cache.found
  /\ known' = known \cup ((UNION {Reveals[m[2]] : m \in cache.found}) \cap Txo)
  /\ cache' = NoCache
  /\ toRescan' = IF cache.at = {} THEN toRescan
                 ELSE Append(toRescan, Msg("processed", cache.at))
  /\ UNCHANGED <<pending, asked, happened>>

FlushFails ==
  /\ cache.at # {} /\ Happens("failure")
  /\ cache' = NoCache
  /\ Trigger
  /\ UNCHANGED <<stored, known, toRescan>>

\* Mutant: starts a block while another one is being processed.
ProcessWorkAll ==
  LET Lowest(S) == {Min(S)}
      starts == process.ready # {}
  IN /\ "process" \in awake
     /\ \/ Flush
        \/ FlushFails
        \/ /\ process.downloading \cup process.ready # {}
           /\ UNCHANGED <<stored, known, cache, toRescan, pending, asked, happened>>
     /\ process' = IF starts THEN [process EXCEPT !.ready = @ \ Lowest(@),
                                                  !.processing = @ \cup Lowest(process.ready)]
                   ELSE process
     /\ jobs' = IF starts THEN jobs \cup Lowest(process.ready) ELSE jobs
     /\ awake' = IF process'.ready = {} THEN awake \ {"process"} ELSE awake
     /\ UNCHANGED <<tip, tested, position, scan, rescan, scan_dirty, finished,
                    toProcess, reprocess, toProgress>>

\* work: check_cache, then queue_process, one block at a time.
ProcessWork ==
  LET Lowest(S) == {Min(S)}
      starts == process.processing = {} /\ process.ready # {}
  IN /\ "process" \in awake
     /\ \/ Flush
        \/ FlushFails
        \/ /\ process.downloading \cup process.ready # {}
           /\ UNCHANGED <<stored, known, cache, toRescan, pending, asked, happened>>
     /\ process' = IF starts THEN [process EXCEPT !.ready = @ \ Lowest(@),
                                                  !.processing = @ \cup Lowest(process.ready)]
                   ELSE process
     /\ jobs' = IF starts THEN jobs \cup Lowest(process.ready) ELSE jobs
     /\ awake' = IF process'.ready = {} THEN awake \ {"process"} ELSE awake
     /\ UNCHANGED <<tip, tested, position, scan, rescan, scan_dirty, finished,
                    toProcess, reprocess, toProgress>>

-----------------------------------------------------------------------------
(* Index: what it forwards stays in the same order, toRescan is what is on *)
(* its way to either of the two.                                           *)

\* work, for a key message or one that passes.
IndexWork ==
  /\ ~(Generated \subseteq known \cup Txo)
  /\ known' = known \cup (Generated \ Txo)
  /\ UNCHANGED <<tip, tested, stored, position, scan, rescan, flags, worker,
                 awake, asked, queues, happened>>

-----------------------------------------------------------------------------
(* Rescan.                                                                 *)

\* do_process_update: adjust_last_scanned, process_dirty, process_clean
RescanUpdate(m) ==
  LET clean == IF m.type = "dirty" THEN {} ELSE m.at
      highest == HighestClean(clean, rescan.dirty)
      dirty == IF m.type = "dirty" THEN rescan.dirty \cup m.at ELSE rescan.dirty
      moved == IF scan_dirty \/ highest = Nothing THEN rescan.last ELSE highest
  IN /\ scan_dirty' = (scan_dirty \/ m.type = "dirty")
     /\ rescan' = [rescan EXCEPT
          !.last = IF dirty # {} /\ Current(moved) > Before(Min(dirty))
                   THEN Before(Min(dirty)) ELSE moved,
          !.dirty = IF m.type = "processed" THEN dirty \ m.at ELSE dirty,
          !.highest = Max(dirty \cup {@})]
     /\ awake' = IF scan_dirty' THEN awake \cup {"rescan"} ELSE awake
     /\ toProgress' = IF scan_dirty' \/ clean = {} THEN toProgress
                      ELSE Post(toProgress, Max(clean))

\* Index has run its work before it forwards what was processed, unless the
\* rate limit put that off.
RescanMessage ==
  LET m == Head(toRescan)
  IN /\ toRescan # <<>>
     /\ m.type = "processed" => PutOff \/ Generated \subseteq known \cup Txo
     /\ toRescan' = Tail(toRescan)
     /\ \/ m.type \in {"dirty", "clean", "processed"} /\ RescanUpdate(m)
        \/ /\ m.type = "filter"
           /\ rescan' = [rescan EXCEPT !.tip = Max(m.at)]
           /\ awake' = awake \cup {"rescan"}
           /\ UNCHANGED <<scan_dirty, toProgress>>
        \/ /\ m.type = "rescan"
           /\ rescan' = [rescan EXCEPT !.last = Nothing, !.dirty = {}, !.highest = Null]
           /\ toProgress' = Append(toProgress, Nothing)
           /\ UNCHANGED <<scan_dirty, awake>>
     /\ UNCHANGED <<tip, wallet, position, scan, pending, worker, asked,
                    toProcess, reprocess, happened>>

\* Mutant: ends at the highest dirty block.
RescanFinishedSoon ==
  \/ rescan.last = rescan.tip
  \/ rescan.dirty = {} /\ rescan.last - rescan.highest >= 0

\* rescan_finished
RescanFinished ==
  \/ rescan.last = rescan.tip
  \/ /\ rescan.dirty = {}
     /\ rescan.last - rescan.highest > FinishRescan

\* Progress is told where the rescan is, again if it has not moved.
Tell(last) ==
  toProgress' = IF last = Nothing THEN toProgress ELSE Post(toProgress, last)

\* The blocks up to b are tested with the elements that are new for them.
RescanTo(b) ==
  LET first == Current(rescan.last) + 1
      dirty == {h \in first..b : Matches(h)}
      clean == HighestClean((first..b) \ dirty, dirty)
      last == IF clean = Nothing THEN rescan.last ELSE clean
      kept == {h \in rescan.dirty : h > last} \cup dirty
      target == IF kept = {} THEN rescan.tip ELSE Before(Min(kept))
  IN /\ rescan' = [rescan EXCEPT !.last = last, !.dirty = kept]
     /\ tested' = Test(first..b)
     /\ reprocess' = IF dirty = {} THEN reprocess ELSE Append(reprocess, dirty)
     /\ awake' = IF last = target THEN awake \ {"rescan"} ELSE awake
     /\ Tell(last)
     /\ UNCHANGED <<scan_dirty, pending, asked, happened>>

RescanWork ==
  LET first == Current(rescan.last) + 1
      stop == IF rescan.dirty = {} THEN rescan.tip ELSE Before(Min(rescan.dirty))
      Rest(dirty) == /\ scan_dirty' = dirty
                     /\ awake' = awake \ {"rescan"}
                     /\ UNCHANGED <<rescan, tested, reprocess>>
  IN /\ "rescan" \in awake
     /\ \/ /\ ~scan_dirty
           /\ Rest(FALSE) /\ Tell(rescan.last) /\ UNCHANGED <<pending, asked, happened>>
        \/ /\ scan_dirty /\ rescan.last = Nothing
           /\ pending \/ "contract" \in Events  \* a bound: see Events
           /\ Rest(FALSE) /\ Trigger /\ UNCHANGED <<toProgress, happened>>
        \/ /\ scan_dirty /\ rescan.last # Nothing /\ RescanFinished
           /\ Rest(FALSE) /\ Tell(rescan.last) /\ UNCHANGED <<pending, asked, happened>>
        \/ /\ scan_dirty /\ rescan.last # Nothing /\ ~RescanFinished
           /\ IF first > stop
              THEN Rest(TRUE) /\ Tell(rescan.last) /\ UNCHANGED <<pending, asked, happened>>
              ELSE RescanTo(Min({first + Batch - 1, rescan.tip, stop}))
     /\ UNCHANGED <<tip, known, stored, position, scan, worker, toProcess,
                    toRescan>>

-----------------------------------------------------------------------------
(* Progress.                                                               *)

\* Mutant: does not tell Scan that there is progress.
ProgressMessageSilent ==
  LET best == Head(toProgress)
  IN /\ toProgress # <<>>
     /\ toProgress' = Tail(toProgress)
     /\ saved' = Current(best)
     /\ progress' = best
     /\ pending' = IF best = Nothing THEN FALSE ELSE pending
     /\ awake' = IF best = Nothing THEN awake \cup {"scan"} ELSE awake
     /\ tested' = [h \in Height |-> IF h <= best THEN {} ELSE tested[h]]
     /\ UNCHANGED <<tip, known, stored, scan, rescan, scan_dirty, worker, asked,
                    toProcess, reprocess, toRescan, happened>>

\* do_process_update, process_do_rescan
ProgressMessage ==
  LET best == Head(toProgress)
  IN /\ toProgress # <<>>
     /\ toProgress' = Tail(toProgress)
     /\ saved' = Current(best)
     /\ progress' = best
     /\ pending' = IF best = Nothing THEN FALSE ELSE pending
     /\ awake' = IF best = Nothing \/ progress # best THEN awake \cup {"scan"} ELSE awake
     /\ tested' = [h \in Height |-> IF h <= best THEN {} ELSE tested[h]]
     /\ UNCHANGED <<tip, known, stored, scan, rescan, scan_dirty, worker, asked,
                    toProcess, reprocess, toRescan, happened>>

-----------------------------------------------------------------------------
(* Failures.                                                               *)

\* What is in memory is lost; the elements, what was stored and the saved
\* position are loaded from the database.  Scan tells the position it starts
\* from.
Opened(last) == [last |-> last, tip |-> tip]
RescanOpened(last) == [last |-> last, tip |-> tip, dirty |-> {}, highest |-> Null]

Restart ==
  /\ Happens("restart")
  /\ scan' = Opened(saved)
  /\ rescan' = RescanOpened(saved)
  /\ known' = Generated
  /\ tested' = [h \in Height |-> {}]
  /\ progress' = Nothing
  /\ scan_dirty' = FALSE /\ pending' = FALSE
  /\ process' = NoBlocks /\ jobs' = {} /\ finished' = {} /\ cache' = NoCache
  /\ awake' = {"scan", "process"} /\ asked' = 0
  /\ toProcess' = <<Msg("clean", {saved})>>
  /\ reprocess' = <<>> /\ toRescan' = <<>> /\ toProgress' = <<>>
  /\ UNCHANGED <<tip, stored, saved>>

\* A reorg above the blocks that have a cfilter: no job has anything to roll
\* back, but updates and cfilters on their way are from before it.  What stays
\* in a queue are the messages about a rescan, which are all alike.
Reorg ==
  LET Kept(q, m) == [i \in 1..Cardinality({i \in DOMAIN q : q[i] = m}) |-> m]
  IN /\ Happens("reorg")
     /\ toProcess' = Kept(toProcess, Msg("rescan", {}))
     /\ toRescan' = Kept(toRescan, Msg("rescan", {}))
     /\ toProgress' = Kept(toProgress, Nothing)
     /\ awake' = {"scan", "process", "rescan"}
     /\ UNCHANGED <<tip, wallet, position, scan, rescan, flags, worker, asked,
                    reprocess>>

-----------------------------------------------------------------------------
Init ==
  /\ tip = FirstTip /\ stored = {} /\ saved = Null
  /\ scan = Opened(Null)
  /\ rescan = RescanOpened(Null)
  /\ known = Initial /\ tested = [h \in Height |-> {}]
  /\ progress = Nothing /\ scan_dirty = FALSE /\ pending = FALSE
  /\ process = NoBlocks /\ jobs = {} /\ finished = {} /\ cache = NoCache
  /\ awake = {"scan", "process"} /\ asked = 0
  /\ toProcess = <<Msg("clean", {Null})>>
  /\ reprocess = <<>> /\ toRescan = <<>> /\ toProgress = <<>>
  /\ happened = {}

Next ==
  \/ ScanWork \/ NewFilter \/ ScanRescan \/ UserRescan
  \/ ProcessMessage \/ Reprocess \/ ProcessWork
  \/ \E h \in Height : BlockArrives(h) \/ ProcessBlock(h) \/ BlockFinished(h)
  \/ IndexWork \/ RescanMessage \/ RescanWork \/ ProgressMessage
  \/ Restart \/ Reorg

Spec == Init /\ [][Next]_vars

\* Every job handles its messages and runs its state machine, requested blocks
\* arrive and threads finish.
Fairness ==
  /\ WF_vars(ScanWork) /\ WF_vars(ScanRescan)
  /\ WF_vars(ProcessMessage) /\ WF_vars(Reprocess) /\ WF_vars(ProcessWork)
  /\ \A h \in Height : /\ WF_vars(BlockArrives(h))
                       /\ WF_vars(ProcessBlock(h))
                       /\ WF_vars(BlockFinished(h))
  /\ WF_vars(IndexWork)
  /\ WF_vars(RescanMessage) /\ WF_vars(RescanWork) /\ WF_vars(ProgressMessage)

FairSpec == Spec /\ Fairness

-----------------------------------------------------------------------------
(* Properties.                                                             *)

\* The state is well formed; one block is being processed at a time.
TypeOK ==
  /\ tip \in Height
  /\ known \subseteq Element
  /\ tested \in [Height -> SUBSET Element]
  /\ stored \subseteq Height \X Element
  /\ saved \in Null..tip /\ progress \in Nothing..tip
  /\ scan.last \in Nothing..tip /\ rescan.last \in Nothing..tip
  /\ scan.tip \in Height /\ rescan.tip \in Height
  /\ rescan.dirty \subseteq Height /\ rescan.highest \in Null..tip
  /\ process.downloading \cup process.ready \cup jobs \cup finished \subseteq Height
  /\ Cardinality(process.processing) <= 1
  /\ cache.at \subseteq Height /\ cache.found \subseteq stored \cup (Height \X Element)
  /\ scan_dirty \in BOOLEAN /\ pending \in BOOLEAN

\* Blocks whose processing will be reported to Rescan, or that Rescan will
\* forget since it is to start again.
Reported ==
  LET reports == {i \in DOMAIN toRescan : toRescan[i].type = "processed"}
  IN process.downloading \cup process.ready \cup jobs \cup cache.at
       \cup (UNION {reprocess[i] : i \in DOMAIN reprocess})
       \cup (UNION {toRescan[i].at : i \in reports})

Restarting ==
  asked > 0 \/ \E q \in {toProcess, toRescan} : \E i \in DOMAIN q : q[i].type = "rescan"

\* Rescan stops below the lowest of its dirty blocks until it is processed:
\* every one of them is on its way, whatever was stored, failed or started
\* again meanwhile.
DirtyIsReported ==
  "reorg" \notin happened /\ ~Restarting => rescan.dirty \subseteq Reported

Everything ==
  {m \in Height \X Element : m[1] <= tip /\ m[2] \in Block[m[1]]}

\* Every transaction of the wallet in a block that had a cfilter when the jobs
\* started is found, also those of keys it learns by storing others, in whatever
\* order blocks arrive, results are stored and positions pass between the jobs.
EverythingIsFound == <>[](happened = {} => stored = Everything)

\* The position in the database reaches the filter tip and stays there.
ReachesTip == <>[](happened \subseteq {"filter", "restart"} => saved = tip)

-----------------------------------------------------------------------------
(* Properties that the code does not have, for the further configurations. *)

\* No block below the position in the database has a transaction that is not
\* stored: after a restart nobody looks there again.
SavedIsStored ==
  \A m \in Everything : m[1] <= saved => m \in stored

\* EverythingIsFound, whatever happens meanwhile.
FoundInTheEnd == <>[](stored = Everything)

\* Rescan comes to an end, whatever happens meanwhile.
RescanEnds == <>[](rescan.dirty = {} /\ rescan.last = rescan.tip)
=============================================================================
