------------------------ MODULE SubchainPipeline_proof ------------------------
(***************************************************************************)
(* Proofs about SubchainPipeline, for every chain of blocks, every         *)
(* dependency between elements and any sequence of events, as long as      *)
(* either storing never fails or Rescan never asks for a rescan itself.    *)
(***************************************************************************)
EXTENDS SubchainPipeline, FiniteSetTheorems, WellFoundedInduction, TLAPS

(***************************************************************************)
(* Facts about the least and the greatest element of a set.                *)
(***************************************************************************)

\* A set of integers that is bounded from below has a least element.
LEMMA LeastExists ==
  ASSUME NEW n \in Int, NEW S \in SUBSET Int, S # {}, \A x \in S : n <= x
  PROVE  \E x \in S : \A y \in S : x <= y
<1> DEFINE Pairs == {p \in Nat \X Nat : p[1] < p[2]}
           Distance == {x - n : x \in S}
<1>1. IsWellFoundedOn(Pairs, Nat)
  BY NatLessThanWellFounded, Zenon DEF OpToRel
<1>2. \A x, y \in Nat : x < y => <<x, y>> \in Pairs
  BY SMT
<1>3. Distance \subseteq Nat /\ Distance # {}
  <2>1. \A x \in S : x - n \in Nat
    OBVIOUS
  <2> QED BY <2>1, Zenon
<1> HIDE DEF Pairs
<1>4. PICK d \in Distance : \A e \in Distance : ~ (<<e, d>> \in Pairs)
  BY <1>1, <1>3, WFMin
<1>5. PICK x \in S : d = x - n
  BY <1>4
<1>6. ASSUME NEW y \in S PROVE x <= y
  <2>1. y - n \in Distance
    OBVIOUS
  <2>2. ~ (y - n < x - n)
    BY <1>2, <1>3, <1>4, <1>5, <2>1
  <2> QED BY <2>2
<1> QED BY <1>5, <1>6

\* Min returns the least element of such a set.
LEMMA MinIsLeast ==
  ASSUME NEW n \in Int, NEW S \in SUBSET Int, S # {}, \A x \in S : n <= x
  PROVE  Min(S) \in S /\ \A y \in S : Min(S) <= y
<1>1. \E x \in S : \A y \in S : x <= y
  BY LeastExists
<1> QED BY <1>1 DEF Min

\* Max returns the greatest element of a set that is bounded from above.
LEMMA MaxIsGreatest ==
  ASSUME NEW n \in Int, NEW S \in SUBSET Int, S # {}, \A x \in S : x <= n
  PROVE  Max(S) \in S /\ \A y \in S : y <= Max(S)
<1> DEFINE Negated == {-x : x \in S}
<1>1. Negated \in SUBSET Int /\ Negated # {} /\ \A x \in Negated : -n <= x
  <2>1. \A x \in S : -x \in Int /\ -n <= -x
    OBVIOUS
  <2> QED BY <2>1, Zenon
<1>2. PICK x \in Negated : \A y \in Negated : x <= y
  <2> HIDE DEF Negated
  <2> QED BY <1>1, LeastExists, -n \in Int
<1>3. -x \in S
  BY <1>2
<1>4. ASSUME NEW y \in S PROVE -x >= y
  <2>1. -y \in Negated
    OBVIOUS
  <2> QED BY <1>1, <1>2, <2>1
<1>5. \E z \in S : \A y \in S : z >= y
  BY <1>3, <1>4
<1>6. Max(S) \in S /\ \A y \in S : Max(S) >= y
  BY <1>5 DEF Max
<1> QED BY <1>6

\* The position below the first dirty block is one of the clean ones.
LEMMA HighestCleanIsClean ==
  ASSUME NEW n \in Int, NEW clean \in SUBSET (Null..n), NEW dirty \in SUBSET Int
  PROVE  \/ HighestClean(clean, dirty) = Nothing
         \/ HighestClean(clean, dirty) \in clean
<1> DEFINE S == {c \in clean : \A d \in dirty : c < d}
<1>1. CASE S = {}
  BY <1>1 DEF HighestClean
<1>2. CASE S # {}
  <2>1. S \in SUBSET Int /\ \A x \in S : x <= n
    <3>1. \A c \in clean : c \in Int /\ c <= n
      BY DEF Null
    <3> QED BY <3>1, Zenon
  <2>2. Max(S) \in S
    <3> HIDE DEF S
    <3> QED BY <1>2, <2>1, MaxIsGreatest
  <2> QED BY <1>2, <2>2 DEF HighestClean
<1> QED BY <1>1, <1>2

(***************************************************************************)
(* Facts about queues of messages.                                         *)
(***************************************************************************)

\* What is sent is behind what was there.
LEMMA SentIsLast ==
  ASSUME NEW X, NEW q \in Seq(X), NEW m \in X
  PROVE  /\ Append(q, m) \in Seq(X)
         /\ Len(Append(q, m)) = Len(q) + 1
         /\ \A i \in 1..Len(q) : Append(q, m)[i] = q[i]
         /\ Append(q, m)[Len(q) + 1] = m
OBVIOUS

\* What is received was the first.
LEMMA ReceivedIsFirst ==
  ASSUME NEW X, NEW q \in Seq(X), q # <<>>
  PROVE  /\ Head(q) \in X /\ Head(q) = q[1]
         /\ Tail(q) \in Seq(X)
         /\ Len(q) \in Nat \ {0} /\ Len(Tail(q)) = Len(q) - 1
         /\ \A i \in 1..Len(Tail(q)) : Tail(q)[i] = q[i + 1]
OBVIOUS

\* A queue of some kind of messages is one of a wider kind.
LEMMA WiderQueue ==
  ASSUME NEW X, NEW Y, X \subseteq Y, NEW q \in Seq(X)
  PROVE  q \in Seq(Y)
OBVIOUS

\* A position that was just sent is not sent again.
LEMMA PostIsQueue ==
  ASSUME NEW X, NEW q \in Seq(X), NEW m \in X
  PROVE  Post(q, m) \in Seq(X)
BY SentIsLast DEF Post

(***************************************************************************)
(* Types.                                                                  *)
(***************************************************************************)

Message(n) ==
  [type : {"dirty", "processed"}, at : SUBSET (0..n)]
    \cup [type : {"clean"}, at : SUBSET (Null..n)]
    \cup [type : {"filter"}, at : (SUBSET (0..n)) \ {{}}]
    \cup [type : {"rescan"}, at : {{}}]

ElementsOK ==
  /\ tip \in Height /\ known \in SUBSET Element
  /\ tested \in [Height -> SUBSET Element]
  /\ stored \in SUBSET (Height \X Element)

PositionsOK ==
  /\ saved \in Null..tip /\ progress \in Nothing..tip
  /\ scan \in [last : Nothing..tip, tip : 0..tip]
  /\ rescan \in [last : Nothing..tip, tip : 0..tip, dirty : SUBSET (0..tip),
                 highest : Null..tip]
  /\ scan_dirty \in BOOLEAN /\ pending \in BOOLEAN

WorkOK ==
  /\ process \in [downloading : SUBSET (0..tip), ready : SUBSET (0..tip),
                  processing : SUBSET Int]
  /\ process.processing = {} \/ \E h \in 0..tip : process.processing = {h}
  /\ jobs \in SUBSET (0..tip) /\ finished \in SUBSET (0..tip)
  /\ cache \in [at : SUBSET (0..tip), found : SUBSET (Height \X Element)]

QueuesOK ==
  /\ toProcess \in Seq(Message(tip)) /\ toRescan \in Seq(Message(tip))
  /\ reprocess \in Seq(SUBSET (0..tip)) /\ toProgress \in Seq(Nothing..tip)
  /\ asked \in Nat

TypeInv == ElementsOK /\ PositionsOK /\ WorkOK /\ QueuesOK

\* The elements the wallet has derived are elements.
LEMMA GeneratedAreElements ==
  ASSUME ElementsOK
  PROVE  Generated \subseteq Element
<1>1. ASSUME NEW m \in stored PROVE Reveals[m[2]] \subseteq Element
  BY ConstantsAssumption DEF ElementsOK
<1> QED BY <1>1, ConstantsAssumption DEF Generated

\* Forgetting or adding tests leaves sets of elements.
LEMMA TestedAreElements ==
  ASSUME ElementsOK, NEW S
  PROVE  /\ Test(S) \in [Height -> SUBSET Element]
         /\ [h \in Height |-> {}] \in [Height -> SUBSET Element]
         /\ \A best : [h \in Height |-> IF h <= best THEN {} ELSE tested[h]]
                        \in [Height -> SUBSET Element]
BY DEF ElementsOK, Test

\* Messages that the jobs send.
LEMMA MessagesOK ==
  ASSUME NEW n \in Nat
  PROVE  /\ \A S \in SUBSET (0..n) : /\ Msg("dirty", S) \in Message(n)
                                     /\ Msg("processed", S) \in Message(n)
         /\ \A c \in Null..n : Msg("clean", {c}) \in Message(n)
         /\ \A c \in 0..n : Msg("filter", {c}) \in Message(n)
         /\ Msg("rescan", {}) \in Message(n)
BY DEF Msg, Message, Null

\* Before the first block there is nothing.
LEMMA InitTyped == Init => TypeInv
<1> SUFFICES ASSUME Init PROVE TypeInv
  OBVIOUS
<1>1. FirstTip \in Height /\ FirstTip \in Nat
  BY ConstantsAssumption DEF Height
<1>2. ElementsOK
  BY <1>1, ConstantsAssumption DEF Init, ElementsOK
<1>3. PositionsOK
  <2>1. Null \in Nothing..tip /\ Null \in Null..tip /\ Nothing \in Nothing..tip
        /\ tip \in 0..tip
    BY <1>1 DEF Init, Null, Nothing
  <2>2. scan \in [last : Nothing..tip, tip : 0..tip]
    BY <2>1 DEF Init, Opened
  <2>3. rescan \in [last : Nothing..tip, tip : 0..tip, dirty : SUBSET (0..tip),
                    highest : Null..tip]
    BY <2>1 DEF Init, RescanOpened
  <2> QED BY <2>1, <2>2, <2>3 DEF Init, PositionsOK
<1>4. WorkOK
  BY <1>1 DEF Init, WorkOK, NoBlocks, NoCache
<1>5. QueuesOK
  <2>1. Msg("clean", {Null}) \in Message(tip)
    BY <1>1, MessagesOK DEF Init, Null
  <2> QED BY <2>1 DEF Init, QueuesOK
<1> QED BY <1>2, <1>3, <1>4, <1>5 DEF TypeInv

\* TypeOK is what these say.
LEMMA TypedIsTypeOK == TypeInv => TypeOK
<1> SUFFICES ASSUME TypeInv PROVE TypeOK
  OBVIOUS
<1> USE DEF TypeInv
<1>1. tip \in Nat /\ 0..tip \subseteq Height
  BY ConstantsAssumption DEF ElementsOK, Height
<1>2. Cardinality(process.processing) <= 1
  <2>1. CASE process.processing = {}
    BY <2>1, FS_EmptySet
  <2>2. ASSUME NEW h \in 0..tip, process.processing = {h}
        PROVE  Cardinality(process.processing) <= 1
    BY <2>2, FS_Singleton
  <2> QED BY <2>1, <2>2 DEF WorkOK
<1>3. /\ process.downloading \cup process.ready \cup jobs \cup finished \subseteq Height
      /\ cache.at \subseteq Height
      /\ cache.found \subseteq stored \cup (Height \X Element)
  BY <1>1 DEF WorkOK
<1>4. /\ scan.last \in Nothing..tip /\ rescan.last \in Nothing..tip
      /\ scan.tip \in Height /\ rescan.tip \in Height
      /\ rescan.dirty \subseteq Height /\ rescan.highest \in Null..tip
  BY <1>1 DEF PositionsOK
<1> QED BY <1>2, <1>3, <1>4 DEF TypeOK, ElementsOK, PositionsOK

(***************************************************************************)
(* Every action keeps the types.                                           *)
(***************************************************************************)

\* The block at which a run of work ends is not above any of the bounds.
LEMMA EndOfBatch ==
  ASSUME NEW n \in Nat, NEW S \in SUBSET (Null..n), S # {}
  PROVE  Min(S) \in S /\ Max(S) \in S /\ \A y \in S : Min(S) <= y /\ y <= Max(S)
<1>1. S \in SUBSET Int /\ Null \in Int /\ \A x \in S : Null <= x /\ x <= n
  BY SMT DEF Null
<1>2. Min(S) \in S /\ \A y \in S : Min(S) <= y
  BY <1>1, MinIsLeast, Zenon
<1>3. Max(S) \in S /\ \A y \in S : y <= Max(S)
  BY <1>1, MaxIsGreatest, n \in Int
<1> QED BY <1>2, <1>3

\* A position that may be empty, made one that is not.
LEMMA CurrentIsPosition ==
  ASSUME NEW n \in Nat, NEW last \in Nothing..n
  PROVE  /\ Current(last) \in Null..n
         /\ last # Nothing => Current(last) = last
BY DEF Current, Nothing, Null

\* The position below a block that is not the first.
LEMMA BeforeIsPosition ==
  ASSUME NEW n \in Nat, NEW h \in 0..n
  PROVE  Before(h) \in 0..n
BY DEF Before

\* Scan only tests blocks that have a cfilter.
LEMMA ScanWorkTyped ==
  ASSUME TypeInv, ScanWork
  PROVE  TypeInv'
<1> USE DEF TypeInv
<1> DEFINE first == Current(scan.last) + 1
           b == Min({first + Batch - 1, scan.tip})
           dirty == {h \in first..b : Matches(h)}
           clean == HighestClean((first..b) \ dirty, dirty)
<1>1. tip \in Nat
  BY ConstantsAssumption DEF ElementsOK, Height
<1>2. first \in 0..(tip + 1) /\ scan.tip \in 0..tip /\ first + Batch - 1 \in Nat
  <2>1. scan.last \in Nothing..tip /\ scan.tip \in 0..tip
    BY DEF PositionsOK
  <2>2. Current(scan.last) \in Null..tip
    BY <1>1, <2>1, CurrentIsPosition
  <2>3. Batch \in Nat \ {0}
    BY ConstantsAssumption
  <2> QED BY <1>1, <2>1, <2>2, <2>3 DEF Null
<1>3. b \in 0..tip
  <2>1. b \in {first + Batch - 1, scan.tip} /\ b <= scan.tip
    <3>1. {first + Batch - 1, scan.tip} \in SUBSET Int
          /\ \A x \in {first + Batch - 1, scan.tip} : 0 <= x
      BY <1>2
    <3> HIDE DEF first
    <3> QED BY <3>1, MinIsLeast
  <2> HIDE DEF b
  <2> QED BY <1>1, <1>2, <2>1
<1> HIDE DEF first, b
<1>4. dirty \subseteq 0..tip /\ (first..b) \ dirty \in SUBSET (Null..tip)
      /\ (first..b) \ dirty \subseteq 0..tip
  <2>1. first..b \subseteq 0..tip /\ first..b \subseteq Null..tip
    BY <1>1, <1>2, <1>3 DEF Null
  <2> QED BY <2>1
<1>5. clean = Nothing \/ clean \in 0..tip
  <2>1. dirty \in SUBSET Int
    BY <1>4
  <2> HIDE DEF dirty
  <2> QED BY <1>1, <1>4, <2>1, HighestCleanIsClean
<1> HIDE DEF dirty, clean
<1>6. /\ UNCHANGED <<tip, known, stored, position, rescan, flags, worker, asked,
                    reprocess, toRescan, toProgress, happened>>
      /\ \/ UNCHANGED <<scan, toProcess, tested>>
         \/ /\ scan' = [scan EXCEPT !.last = b]
            /\ tested' = Test(first..b)
            /\ toProcess' = toProcess
                \o (IF dirty = {} THEN <<>> ELSE <<Msg("dirty", dirty)>>)
                \o (IF clean = Nothing THEN <<>> ELSE <<Msg("clean", {clean})>>)
  BY DEF ScanWork, first, b, dirty, clean
<1>7. ElementsOK'
  BY <1>6, TestedAreElements DEF ElementsOK
<1>8. PositionsOK'
  <2>1. scan' \in [last : Nothing..tip, tip : 0..tip]
    <3>1. b \in Nothing..tip /\ scan \in [last : Nothing..tip, tip : 0..tip]
      BY <1>1, <1>3 DEF PositionsOK, Nothing
    <3> QED BY <1>6, <3>1
  <2> QED BY <1>6, <2>1 DEF PositionsOK, position, flags
<1>9. WorkOK'
  BY <1>6 DEF WorkOK, worker
<1>10. QueuesOK'
  <2>1. toProcess \in Seq(Message(tip))
    BY DEF QueuesOK
  <2>2. (IF dirty = {} THEN <<>> ELSE <<Msg("dirty", dirty)>>) \in Seq(Message(tip))
    BY <1>1, <1>4, MessagesOK
  <2>3. (IF clean = Nothing THEN <<>> ELSE <<Msg("clean", {clean})>>)
          \in Seq(Message(tip))
    <3>1. clean # Nothing => clean \in Null..tip
      BY <1>1, <1>5 DEF Null
    <3> QED BY <1>1, <3>1, MessagesOK
  <2>4. toProcess' \in Seq(Message(tip))
    <3>1. \A q, r, t \in Seq(Message(tip)) : q \o r \o t \in Seq(Message(tip))
      OBVIOUS
    <3> QED BY <1>6, <2>1, <2>2, <2>3, <3>1
  <2> QED BY <1>6, <2>4 DEF QueuesOK
<1> QED BY <1>7, <1>8, <1>9, <1>10

\* A new cfilter is one block above the last.
LEMMA NewFilterTyped ==
  ASSUME TypeInv, NewFilter
  PROVE  TypeInv'
<1> USE DEF TypeInv
<1>1. tip \in Nat /\ tip' = tip + 1 /\ tip' \in Nat /\ tip' \in Height
  BY ConstantsAssumption DEF ElementsOK, Height, NewFilter
<1>2. /\ 0..tip \subseteq 0..tip' /\ Null..tip \subseteq Null..tip'
      /\ Nothing..tip \subseteq Nothing..tip' /\ tip' \in 0..tip'
  BY <1>1 DEF Null, Nothing
<1>3. Message(tip) \subseteq Message(tip')
  BY <1>2 DEF Message
<1>4. ElementsOK'
  BY <1>1 DEF ElementsOK, NewFilter, wallet
<1>5. PositionsOK'
  <2>1. scan' \in [last : Nothing..tip', tip : 0..tip']
    BY <1>1, <1>2 DEF PositionsOK, NewFilter
  <2>2. rescan' \in [last : Nothing..tip', tip : 0..tip', dirty : SUBSET (0..tip'),
                     highest : Null..tip']
    BY <1>2 DEF PositionsOK, NewFilter
  <2> QED BY <1>2, <2>1, <2>2 DEF PositionsOK, NewFilter, position, flags
<1>6. WorkOK'
  BY <1>2 DEF WorkOK, NewFilter, worker
<1>7. QueuesOK'
  <2>1. toProcess \in Seq(Message(tip')) /\ toRescan' \in Seq(Message(tip'))
    BY <1>3, WiderQueue DEF QueuesOK, NewFilter
  <2>2. toProcess' \in Seq(Message(tip'))
    <3>1. Msg("filter", {tip'}) \in Message(tip')
      BY <1>1, <1>2, MessagesOK
    <3> QED BY <1>1, <2>1, <3>1, SentIsLast DEF NewFilter
  <2>3. SUBSET (0..tip) \subseteq SUBSET (0..tip')
    BY <1>2
  <2>4. reprocess' \in Seq(SUBSET (0..tip')) /\ toProgress' \in Seq(Nothing..tip')
    BY <1>2, <2>3, WiderQueue DEF QueuesOK, NewFilter
  <2> QED BY <2>1, <2>2, <2>4 DEF QueuesOK, NewFilter
<1> QED BY <1>4, <1>5, <1>6, <1>7

\* Scan starts again.
LEMMA ScanRescanTyped ==
  ASSUME TypeInv, ScanRescan \/ UserRescan
  PROVE  TypeInv'
<1> USE DEF TypeInv
<1>1. tip \in Nat
  BY ConstantsAssumption DEF ElementsOK, Height
<1>2. ElementsOK'
  BY TestedAreElements DEF ElementsOK, ScanRescan, UserRescan, wallet
<1>3. PositionsOK'
  <2>1. scan' \in [last : Nothing..tip, tip : 0..tip]
    BY <1>1 DEF PositionsOK, ScanRescan, UserRescan, Nothing
  <2> QED BY <2>1 DEF PositionsOK, ScanRescan, UserRescan, position, flags
<1>4. WorkOK'
  BY DEF WorkOK, ScanRescan, UserRescan, worker
<1>5. QueuesOK'
  <2>1. toProcess' \in Seq(Message(tip))
    <3>1. toProcess \in Seq(Message(tip)) /\ Msg("rescan", {}) \in Message(tip)
      BY <1>1, MessagesOK DEF QueuesOK
    <3>2. Append(toProcess, Msg("rescan", {})) \in Seq(Message(tip))
      BY <3>1, SentIsLast
    <3> QED BY <3>1, <3>2 DEF ScanRescan, UserRescan, queues
  <2> QED BY <2>1 DEF QueuesOK, ScanRescan, UserRescan, queues
<1> QED BY <1>2, <1>3, <1>4, <1>5

\* What Scan says reaches Rescan through Process.
LEMMA ProcessMessageTyped ==
  ASSUME TypeInv, ProcessMessage
  PROVE  TypeInv'
<1> USE DEF TypeInv
<1> DEFINE m == Head(toProcess)
<1>1. /\ m \in Message(tip)
      /\ toProcess' \in Seq(Message(tip)) /\ toRescan' \in Seq(Message(tip))
  <2>1. toProcess \in Seq(Message(tip)) /\ toRescan \in Seq(Message(tip))
        /\ toProcess # <<>>
    BY DEF QueuesOK, ProcessMessage
  <2>2. m \in Message(tip) /\ Tail(toProcess) \in Seq(Message(tip))
    BY <2>1, ReceivedIsFirst
  <2>3. Append(toRescan, m) \in Seq(Message(tip))
    BY <2>1, <2>2, SentIsLast
  <2> QED BY <2>2, <2>3 DEF ProcessMessage
<1>2. ElementsOK' /\ PositionsOK'
  BY DEF ElementsOK, PositionsOK, ProcessMessage, wallet, position, flags
<1>3. WorkOK'
  <2>1. m.type = "dirty" => m.at \in SUBSET (0..tip)
    BY <1>1 DEF Message
  <2>2. process' \in {process, NoBlocks, [process EXCEPT !.downloading = @ \cup m.at]}
        /\ (process' = [process EXCEPT !.downloading = @ \cup m.at]
              => m.type = "dirty" \/ process' \in {process, NoBlocks})
    BY DEF ProcessMessage
  <2>3. CASE process' = [process EXCEPT !.downloading = @ \cup m.at] /\ m.type = "dirty"
    BY <2>1, <2>3 DEF WorkOK, ProcessMessage
  <2>4. CASE process' \in {process, NoBlocks}
    BY <2>4 DEF WorkOK, ProcessMessage, NoBlocks
  <2> QED BY <2>2, <2>3, <2>4
<1>4. QueuesOK'
  BY <1>1 DEF QueuesOK, ProcessMessage
<1> QED BY <1>2, <1>3, <1>4

\* Rescan asks for blocks to be processed again.
LEMMA ReprocessTyped ==
  ASSUME TypeInv, Reprocess
  PROVE  TypeInv'
<1> USE DEF TypeInv
<1>1. Head(reprocess) \in SUBSET (0..tip) /\ reprocess' \in Seq(SUBSET (0..tip))
  BY ReceivedIsFirst DEF QueuesOK, Reprocess
<1>2. ElementsOK' /\ PositionsOK'
  BY DEF ElementsOK, PositionsOK, Reprocess, wallet, position, flags
<1>3. WorkOK'
  BY <1>1 DEF WorkOK, Reprocess
<1>4. QueuesOK'
  BY <1>1 DEF QueuesOK, Reprocess
<1> QED BY <1>2, <1>3, <1>4

\* A block arrives, is processed on a thread, and the thread is done.
LEMMA BlockTyped ==
  ASSUME TypeInv, NEW h \in Height,
         BlockArrives(h) \/ ProcessBlock(h) \/ BlockFinished(h)
  PROVE  TypeInv'
<1> USE DEF TypeInv
<1>1. ElementsOK' /\ PositionsOK'
  BY DEF ElementsOK, PositionsOK, BlockArrives, ProcessBlock, BlockFinished, wallet,
         position, flags
<1>2. QueuesOK'
  BY DEF QueuesOK, BlockArrives, ProcessBlock, BlockFinished, queues
<1>3. WorkOK'
  <2>1. CASE BlockArrives(h)
    BY <2>1 DEF WorkOK, BlockArrives
  <2>2. CASE ProcessBlock(h)
    <3> DEFINE among == IF tested[h] = {} THEN known
                        ELSE known \cap tested[h] \cap Filter[h]
               found == {m \in Contents(h) : m[2] \in among}
    <3>1. Contents(h) \subseteq Height \X Element
      BY ConstantsAssumption DEF Contents, Height
    <3>2. found \subseteq Height \X Element
      BY <3>1
    <3>3. cache' = [at |-> cache.at \cup {h}, found |-> cache.found \cup found]
      BY <2>2 DEF ProcessBlock
    <3> HIDE DEF found
    <3>4. cache' \in [at : SUBSET (0..tip), found : SUBSET (Height \X Element)]
      <4>1. cache.at \cup {h} \in SUBSET (0..tip)
        BY <2>2 DEF WorkOK, ProcessBlock
      <4>2. cache.found \cup found \in SUBSET (Height \X Element)
        BY <3>2 DEF WorkOK
      <4> QED BY <3>3, <4>1, <4>2
    <3> QED BY <2>2, <3>4 DEF WorkOK, ProcessBlock
  <2>3. CASE BlockFinished(h)
    <3>1. process' = [process EXCEPT !.processing = @ \ {h}]
      BY <2>3 DEF BlockFinished
    <3>2. process'.processing = {} \/ \E k \in 0..tip : process'.processing = {k}
      BY <3>1 DEF WorkOK
    <3> QED BY <2>3, <3>1, <3>2 DEF WorkOK, BlockFinished
  <2> QED BY <2>1, <2>2, <2>3
<1> QED BY <1>1, <1>2, <1>3

\* The cache is stored or given up, and one block goes to a thread.
LEMMA ProcessWorkTyped ==
  ASSUME TypeInv, ProcessWork
  PROVE  TypeInv'
<1> USE DEF TypeInv
<1>1. /\ \/ Flush
         \/ FlushFails
         \/ UNCHANGED <<stored, known, cache, toRescan, pending, asked, happened>>
      /\ \/ process' = process /\ jobs' = jobs
         \/ /\ process.processing = {} /\ process.ready # {}
            /\ process' = [process EXCEPT !.ready = @ \ {Min(@)},
                                          !.processing = @ \cup {Min(process.ready)}]
            /\ jobs' = jobs \cup {Min(process.ready)}
      /\ UNCHANGED <<tip, tested, position, scan, rescan, scan_dirty, finished,
                     toProcess, reprocess, toProgress>>
  BY DEF ProcessWork
<1>2. tip \in Nat
  BY ConstantsAssumption DEF ElementsOK, Height
<1>3. ElementsOK'
  <2>1. stored' \in SUBSET (Height \X Element)
    BY <1>1 DEF Flush, FlushFails, ElementsOK, WorkOK
  <2>2. known' \in SUBSET Element
    <3>1. known \subseteq Element /\ Txo \subseteq Element
      BY ConstantsAssumption DEF ElementsOK
    <3> DEFINE S == UNION {Reveals[m[2]] : m \in cache.found}
    <3>a. Flush => known' = known \cup (S \cap Txo)
      BY Zenon DEF Flush
    <3>b. ~ Flush => known' = known
      BY <1>1 DEF FlushFails
    <3>2. known' = known \/ known' = known \cup (S \cap Txo)
      BY <3>a, <3>b, Zenon
    <3> HIDE DEF S
    <3> QED BY <3>1, <3>2
  <2> QED BY <1>1, <2>1, <2>2 DEF ElementsOK
<1>4. PositionsOK'
  <2>1. pending' \in BOOLEAN
    BY <1>1 DEF Flush, FlushFails, Trigger, PositionsOK
  <2> QED BY <1>1, <2>1 DEF PositionsOK, position
<1>5. WorkOK'
  <2>1. cache' \in [at : SUBSET (0..tip), found : SUBSET (Height \X Element)]
    BY <1>1 DEF Flush, FlushFails, WorkOK, NoCache
  <2>2. CASE process' = process /\ jobs' = jobs
    BY <1>1, <2>1, <2>2 DEF WorkOK
  <2>3. CASE /\ process.processing = {} /\ process.ready # {}
             /\ process' = [process EXCEPT !.ready = @ \ {Min(@)},
                                           !.processing = @ \cup {Min(process.ready)}]
             /\ jobs' = jobs \cup {Min(process.ready)}
    <3>1. Min(process.ready) \in 0..tip
      <4>1. process.ready \in SUBSET (0..tip) /\ process.ready \in SUBSET (Null..tip)
        BY <1>2 DEF WorkOK, Null
      <4>2. Min(process.ready) \in process.ready
        BY <1>2, <2>3, <4>1, EndOfBatch
      <4> QED BY <4>1, <4>2
    <3>2. process'.processing = {Min(process.ready)}
      BY <2>3 DEF WorkOK
    <3>3. process' \in [downloading : SUBSET (0..tip), ready : SUBSET (0..tip),
                        processing : SUBSET Int]
      <4> DEFINE low == Min(process.ready)
      <4>1. process \in [downloading : SUBSET (0..tip), ready : SUBSET (0..tip),
                         processing : SUBSET Int]
        BY DEF WorkOK
      <4>2. low \in Int
        BY <3>1
      <4> HIDE DEF low
      <4>3. process.ready \ {low} \in SUBSET (0..tip)
            /\ process.processing \cup {low} \in SUBSET Int
        BY <4>1, <4>2
      <4>4. process' = [process EXCEPT !.ready = process.ready \ {low},
                                       !.processing = process.processing \cup {low}]
        BY <2>3, <4>1 DEF low
      <4> QED BY <4>1, <4>3, <4>4
    <3> QED BY <1>1, <2>1, <2>3, <3>1, <3>2, <3>3 DEF WorkOK
  <2> QED BY <1>1, <2>2, <2>3
<1>6. QueuesOK'
  <2>1. toRescan' \in Seq(Message(tip))
    <3>1. toRescan \in Seq(Message(tip)) /\ Msg("processed", cache.at) \in Message(tip)
      BY <1>2, MessagesOK DEF QueuesOK, WorkOK
    <3>2. Append(toRescan, Msg("processed", cache.at)) \in Seq(Message(tip))
      BY <3>1, SentIsLast
    <3> QED BY <1>1, <3>1, <3>2 DEF Flush, FlushFails
  <2>2. asked' \in Nat
    BY <1>1 DEF Flush, FlushFails, Trigger, QueuesOK
  <2> QED BY <1>1, <2>1, <2>2 DEF QueuesOK
<1> QED BY <1>3, <1>4, <1>5, <1>6

\* The elements of new keys are derived.
LEMMA IndexWorkTyped ==
  ASSUME TypeInv, IndexWork
  PROVE  TypeInv'
<1> USE DEF TypeInv
<1>1. ElementsOK'
  BY GeneratedAreElements DEF ElementsOK, IndexWork
<1>2. PositionsOK' /\ WorkOK' /\ QueuesOK'
  BY DEF PositionsOK, WorkOK, QueuesOK, IndexWork, position, flags, worker, queues
<1> QED BY <1>1, <1>2

\* Where a job is may be told, or need not.
LEMMA TellTyped ==
  ASSUME TypeInv, NEW last \in Nothing..tip, Tell(last)
  PROVE  toProgress' \in Seq(Nothing..tip)
BY PostIsQueue DEF TypeInv, QueuesOK, Tell

\* What Process says about blocks moves the position of Rescan.
LEMMA RescanUpdateTyped ==
  ASSUME TypeInv, NEW m \in Message(tip), m.type \in {"dirty", "clean", "processed"},
         RescanUpdate(m)
  PROVE  /\ rescan' \in [last : Nothing..tip, tip : 0..tip, dirty : SUBSET (0..tip),
                         highest : Null..tip]
         /\ scan_dirty' \in BOOLEAN
         /\ toProgress' \in Seq(Nothing..tip)
<1> USE DEF TypeInv
<1> DEFINE clean == IF m.type = "dirty" THEN {} ELSE m.at
           highest == HighestClean(clean, rescan.dirty)
           dirty == IF m.type = "dirty" THEN rescan.dirty \cup m.at ELSE rescan.dirty
           moved == IF scan_dirty \/ highest = Nothing THEN rescan.last ELSE highest
           last == IF dirty # {} /\ Current(moved) > Before(Min(dirty))
                   THEN Before(Min(dirty)) ELSE moved
           kept == IF m.type = "processed" THEN dirty \ m.at ELSE dirty
<1>1. tip \in Nat
  BY ConstantsAssumption DEF ElementsOK, Height
<1>a. /\ 0..tip \subseteq Null..tip /\ Null..tip \subseteq Nothing..tip
      /\ 0..tip \subseteq Int /\ tip \in Int
  BY <1>1 DEF Null, Nothing
<1>2. clean \in SUBSET (Null..tip) /\ (m.type = "dirty" => m.at \subseteq 0..tip)
  BY <1>1 DEF Message, Null
<1>3. rescan.dirty \in SUBSET (0..tip) /\ rescan.last \in Nothing..tip
      /\ rescan.tip \in 0..tip /\ rescan.highest \in Null..tip
  BY DEF PositionsOK
<1>4. highest = Nothing \/ highest \in Null..tip
  <2>1. rescan.dirty \in SUBSET Int
    BY <1>3
  <2> HIDE DEF clean
  <2>2. highest = Nothing \/ highest \in clean
    BY <1>a, <1>2, <2>1, HighestCleanIsClean, Zenon
  <2> HIDE DEF highest
  <2> QED BY <1>2, <2>2
<1>5. dirty \in SUBSET (0..tip)
  BY <1>2, <1>3
<1> HIDE DEF highest
<1>6. moved \in Nothing..tip
  BY <1>1, <1>3, <1>4 DEF Null, Nothing
<1>7. dirty # {} => Before(Min(dirty)) \in 0..tip
  <2> HIDE DEF dirty
  <2>1. dirty # {} => Min(dirty) \in dirty
    <3>1. dirty \in SUBSET (Null..tip)
      BY <1>1, <1>5 DEF Null
    <3> QED BY <1>1, <3>1, EndOfBatch
  <2> QED BY <1>1, <1>5, <2>1, BeforeIsPosition
<1>8. Max(dirty \cup {rescan.highest}) \in Null..tip
  <2> DEFINE S == dirty \cup {rescan.highest}
  <2>1. S \in SUBSET (Null..tip) /\ S # {}
    <3> HIDE DEF dirty
    <3> QED BY <1>a, <1>3, <1>5
  <2> HIDE DEF S
  <2>2. Max(S) \in Null..tip
    BY <1>1, <2>1, EndOfBatch
  <2> QED BY <2>2 DEF S
<1> HIDE DEF dirty, moved
<1>9. last \in Nothing..tip
  BY <1>1, <1>6, <1>7 DEF Nothing
<1>10. kept \in SUBSET (0..tip)
  BY <1>5
<1>11. rescan' = [rescan EXCEPT !.last = last, !.dirty = kept,
                                !.highest = Max(dirty \cup {rescan.highest})]
  BY DEF RescanUpdate, clean, highest, dirty, moved, last, kept, PositionsOK
<1> HIDE DEF last, kept
<1>12. rescan' \in [last : Nothing..tip, tip : 0..tip, dirty : SUBSET (0..tip),
                    highest : Null..tip]
  BY <1>8, <1>9, <1>10, <1>11 DEF PositionsOK
<1>13. scan_dirty' \in BOOLEAN
  BY DEF RescanUpdate
<1>14. toProgress' \in Seq(Nothing..tip)
  <2>1. clean # {} => Max(clean) \in Nothing..tip
    <3>1. clean # {} => Max(clean) \in clean
      <4> HIDE DEF clean
      <4> QED BY <1>1, <1>2, EndOfBatch
    <3> HIDE DEF clean
    <3> QED BY <1>a, <1>2, <3>1
  <2>2. toProgress' = toProgress \/ (clean # {} /\ toProgress' = Post(toProgress, Max(clean)))
    BY DEF RescanUpdate
  <2> HIDE DEF clean
  <2> QED BY <2>1, <2>2, PostIsQueue DEF QueuesOK
<1> QED BY <1>12, <1>13, <1>14

\* Rescan handles its messages.
LEMMA RescanMessageTyped ==
  ASSUME TypeInv, RescanMessage
  PROVE  TypeInv'
<1> USE DEF TypeInv
<1> DEFINE m == Head(toRescan)
<1>1. tip \in Nat
  BY ConstantsAssumption DEF ElementsOK, Height
<1>2. m \in Message(tip) /\ toRescan' \in Seq(Message(tip))
  BY ReceivedIsFirst DEF QueuesOK, RescanMessage
<1>3. /\ rescan' \in [last : Nothing..tip, tip : 0..tip, dirty : SUBSET (0..tip),
                      highest : Null..tip]
      /\ scan_dirty' \in BOOLEAN
      /\ toProgress' \in Seq(Nothing..tip)
  <2> HIDE DEF m
  <2>1. CASE m.type \in {"dirty", "clean", "processed"}
    <3>1. RescanUpdate(m)
      BY <2>1 DEF RescanMessage, m
    <3> QED BY <1>2, <2>1, <3>1, RescanUpdateTyped
  <2>2. CASE m.type = "filter"
    <3>1. m.at \in SUBSET (0..tip) /\ m.at # {}
      BY <1>2, <2>2 DEF Message
    <3>2. Max(m.at) \in 0..tip
      <4>1. m.at \in SUBSET (Null..tip)
        BY <1>1, <3>1 DEF Null
      <4>2. Max(m.at) \in m.at
        BY <1>1, <3>1, <4>1, EndOfBatch
      <4> QED BY <3>1, <4>2
    <3>3. rescan' = [rescan EXCEPT !.tip = Max(m.at)] /\ UNCHANGED <<scan_dirty, toProgress>>
      BY <2>2 DEF RescanMessage, m
    <3> QED BY <3>2, <3>3 DEF PositionsOK, QueuesOK
  <2>3. CASE m.type = "rescan"
    <3>1. /\ rescan' = [rescan EXCEPT !.last = Nothing, !.dirty = {}, !.highest = Null]
          /\ toProgress' = Append(toProgress, Nothing)
          /\ UNCHANGED scan_dirty
      BY <2>3 DEF RescanMessage, m
    <3>2. Nothing \in Nothing..tip /\ Null \in Null..tip
      BY <1>1 DEF Nothing, Null
    <3>3. toProgress' \in Seq(Nothing..tip)
      BY <3>1, <3>2, SentIsLast DEF QueuesOK
    <3>4. rescan' \in [last : Nothing..tip, tip : 0..tip, dirty : SUBSET (0..tip),
                       highest : Null..tip]
      BY <3>1, <3>2 DEF PositionsOK
    <3> QED BY <3>1, <3>3, <3>4 DEF PositionsOK
  <2> QED BY <1>2, <2>1, <2>2, <2>3 DEF Message
<1>4. UNCHANGED <<tip, wallet, position, scan, pending, worker, asked, toProcess,
                  reprocess, happened>>
  BY DEF RescanMessage
<1>5. ElementsOK' /\ WorkOK'
  BY <1>4 DEF ElementsOK, WorkOK, wallet, worker
<1>6. PositionsOK'
  BY <1>3, <1>4 DEF PositionsOK, position
<1>7. QueuesOK'
  BY <1>2, <1>3, <1>4 DEF QueuesOK
<1> QED BY <1>5, <1>6, <1>7

\* The state machine of Rescan.
LEMMA RescanToTyped ==
  ASSUME TypeInv, NEW b \in 0..tip, RescanTo(b)
  PROVE  /\ tested' \in [Height -> SUBSET Element]
         /\ rescan' \in [last : Nothing..tip, tip : 0..tip, dirty : SUBSET (0..tip),
                         highest : Null..tip]
         /\ reprocess' \in Seq(SUBSET (0..tip)) /\ toProgress' \in Seq(Nothing..tip)
<1> USE DEF TypeInv
<1> DEFINE first == Current(rescan.last) + 1
           dirty == {h \in first..b : Matches(h)}
           clean == HighestClean((first..b) \ dirty, dirty)
           last == IF clean = Nothing THEN rescan.last ELSE clean
           kept == {h \in rescan.dirty : h > last} \cup dirty
<1>1. tip \in Nat /\ tip \in Int
  BY ConstantsAssumption DEF ElementsOK, Height
<1>2. rescan.dirty \in SUBSET (0..tip) /\ rescan.last \in Nothing..tip
  BY DEF PositionsOK
<1>3. first..b \subseteq 0..tip /\ 0..tip \subseteq Null..tip /\ 0..tip \subseteq Nothing..tip
  <2>1. Current(rescan.last) \in Null..tip
    BY <1>1, <1>2, CurrentIsPosition
  <2> QED BY <1>1, <2>1 DEF Null, Nothing
<1> HIDE DEF first
<1>4. /\ dirty \in SUBSET (0..tip) /\ dirty \in SUBSET Int
      /\ (first..b) \ dirty \in SUBSET (Null..tip) /\ (first..b) \ dirty \subseteq 0..tip
  BY <1>3
<1> HIDE DEF dirty
<1>5. clean = Nothing \/ clean \in 0..tip
  <2>1. clean = Nothing \/ clean \in (first..b) \ dirty
    BY <1>1, <1>4, HighestCleanIsClean, Zenon
  <2> QED BY <1>4, <2>1
<1> HIDE DEF clean
<1>6. last \in Nothing..tip
  BY <1>2, <1>3, <1>5
<1>7. kept \in SUBSET (0..tip)
  BY <1>2, <1>4
<1>8. /\ rescan' = [rescan EXCEPT !.last = last, !.dirty = kept]
      /\ tested' = Test(first..b)
      /\ reprocess' = reprocess \/ reprocess' = Append(reprocess, dirty)
      /\ Tell(last)
  BY DEF RescanTo, first, dirty, clean, last, kept
<1> HIDE DEF last, kept
<1>9. rescan' \in [last : Nothing..tip, tip : 0..tip, dirty : SUBSET (0..tip),
                   highest : Null..tip]
  BY <1>6, <1>7, <1>8 DEF PositionsOK
<1>10. reprocess' \in Seq(SUBSET (0..tip))
  <2>1. Append(reprocess, dirty) \in Seq(SUBSET (0..tip))
    BY <1>4, SentIsLast DEF QueuesOK
  <2> QED BY <1>8, <2>1 DEF QueuesOK
<1>11. toProgress' \in Seq(Nothing..tip)
  BY <1>6, <1>8, TellTyped
<1>12. tested' \in [Height -> SUBSET Element]
  BY <1>8, TestedAreElements
<1> QED BY <1>9, <1>10, <1>11, <1>12

\* What a run of the state machine of Rescan may do: come to rest, ask for a
\* rescan, or test blocks.
LEMMA RescanWorkCases ==
  ASSUME RescanWork
  PROVE  /\ UNCHANGED <<tip, known, stored, position, scan, worker, toProcess,
                        toRescan, happened>>
         /\ \/ /\ UNCHANGED <<rescan, tested, reprocess, pending, asked>>
               /\ Tell(rescan.last)
               /\ scan_dirty' \in BOOLEAN
            \/ /\ UNCHANGED <<rescan, tested, reprocess, toProgress>>
               /\ pending \/ "contract" \in Events
               /\ Trigger
               /\ scan_dirty' \in BOOLEAN
            \/ LET stop == IF rescan.dirty = {} THEN rescan.tip
                           ELSE Before(Min(rescan.dirty))
                   first == Current(rescan.last) + 1
               IN /\ ~ (first > stop)
                  /\ RescanTo(Min({first + Batch - 1, rescan.tip, stop}))
<1>1. UNCHANGED <<tip, known, stored, position, scan, worker, toProcess, toRescan>>
  BY DEF RescanWork
<1>2. CASE ~ scan_dirty
  BY <1>1, <1>2 DEF RescanWork
<1>3. CASE scan_dirty /\ rescan.last = Nothing
  BY <1>1, <1>3 DEF RescanWork
<1>4. CASE scan_dirty /\ rescan.last # Nothing /\ RescanFinished
  BY <1>1, <1>4 DEF RescanWork
<1>5. CASE scan_dirty /\ rescan.last # Nothing /\ ~ RescanFinished
  BY <1>1, <1>5 DEF RescanWork, RescanTo
<1> QED BY <1>2, <1>3, <1>4, <1>5

\* Rescan does not test above its filter tip.
LEMMA RescanWorkTyped ==
  ASSUME TypeInv, RescanWork
  PROVE  TypeInv'
<1> USE DEF TypeInv
<1> DEFINE first == Current(rescan.last) + 1
           stop == IF rescan.dirty = {} THEN rescan.tip ELSE Before(Min(rescan.dirty))
           ends == {first + Batch - 1, rescan.tip, stop}
<1>1. tip \in Nat /\ 0..tip \subseteq Null..tip /\ rescan.last \in Nothing..tip
      /\ rescan.tip \in 0..tip /\ rescan.dirty \in SUBSET (0..tip)
  BY ConstantsAssumption DEF ElementsOK, Height, PositionsOK, Null
<1>2. Min(ends) \in 0..tip
  <2>1. stop \in 0..tip
    <3>1. CASE rescan.dirty # {}
      <4>1. Min(rescan.dirty) \in rescan.dirty
        BY <1>1, <3>1, EndOfBatch
      <4> QED BY <1>1, <3>1, <4>1, BeforeIsPosition
    <3> QED BY <1>1, <3>1
  <2>2. first + Batch - 1 \in Nat
    <3>1. Current(rescan.last) \in Null..tip /\ Batch \in Nat \ {0}
      BY <1>1, CurrentIsPosition, ConstantsAssumption
    <3> QED BY <1>1, <3>1 DEF Null
  <2> HIDE DEF first, stop
  <2>3. ends \in SUBSET Int /\ ends # {} /\ \A x \in ends : 0 <= x
    BY <1>1, <2>1, <2>2
  <2>4. rescan.tip \in ends
    OBVIOUS
  <2> HIDE DEF ends
  <2>5. Min(ends) \in ends /\ \A y \in ends : Min(ends) <= y
    BY <2>3, MinIsLeast, 0 \in Int
  <2>6. Min(ends) \in Int /\ 0 <= Min(ends) /\ Min(ends) <= rescan.tip
    BY <2>3, <2>4, <2>5
  <2> QED BY <1>1, <2>6
<1>3. /\ UNCHANGED <<tip, known, stored, position, scan, worker, toProcess,
                     toRescan, happened>>
      /\ \/ /\ UNCHANGED <<rescan, tested, reprocess, pending, asked>>
            /\ Tell(rescan.last)
            /\ scan_dirty' \in BOOLEAN
         \/ /\ UNCHANGED <<rescan, tested, reprocess, toProgress>>
            /\ Trigger
            /\ scan_dirty' \in BOOLEAN
         \/ RescanTo(Min(ends))
  BY RescanWorkCases
<1> HIDE DEF ends
<1>4. /\ tested' \in [Height -> SUBSET Element]
      /\ rescan' \in [last : Nothing..tip, tip : 0..tip, dirty : SUBSET (0..tip),
                      highest : Null..tip]
      /\ reprocess' \in Seq(SUBSET (0..tip)) /\ toProgress' \in Seq(Nothing..tip)
      /\ scan_dirty' \in BOOLEAN /\ pending' \in BOOLEAN /\ asked' \in Nat
  <2>1. CASE RescanTo(Min(ends))
    <3>1. UNCHANGED <<scan_dirty, pending, asked>>
      BY <2>1 DEF RescanTo
    <3> QED BY <1>2, <2>1, <3>1, RescanToTyped DEF PositionsOK, QueuesOK
  <2>2. CASE /\ UNCHANGED <<rescan, tested, reprocess, pending, asked>>
             /\ Tell(rescan.last)
             /\ scan_dirty' \in BOOLEAN
    <3>1. toProgress' \in Seq(Nothing..tip)
      BY <1>1, <2>2, TellTyped
    <3> QED BY <2>2, <3>1 DEF ElementsOK, PositionsOK, QueuesOK
  <2>3. CASE /\ UNCHANGED <<rescan, tested, reprocess, toProgress>>
             /\ Trigger
             /\ scan_dirty' \in BOOLEAN
    BY <2>3 DEF Trigger, ElementsOK, PositionsOK, QueuesOK
  <2> QED BY <1>3, <2>1, <2>2, <2>3
<1>5. ElementsOK' /\ WorkOK'
  BY <1>3, <1>4 DEF ElementsOK, WorkOK, worker
<1>6. PositionsOK'
  BY <1>3, <1>4 DEF PositionsOK, position
<1>7. QueuesOK'
  BY <1>3, <1>4 DEF QueuesOK
<1> QED BY <1>5, <1>6, <1>7

\* Progress saves the position it is told.
LEMMA ProgressMessageTyped ==
  ASSUME TypeInv, ProgressMessage
  PROVE  TypeInv'
<1> USE DEF TypeInv
<1> DEFINE best == Head(toProgress)
<1>1. tip \in Nat
  BY ConstantsAssumption DEF ElementsOK, Height
<1>2. best \in Nothing..tip /\ toProgress' \in Seq(Nothing..tip)
  BY ReceivedIsFirst DEF QueuesOK, ProgressMessage
<1>3. Current(best) \in Null..tip
  <2> HIDE DEF best
  <2> QED BY <1>1, <1>2, CurrentIsPosition
<1>4. ElementsOK' /\ WorkOK'
  BY TestedAreElements DEF ElementsOK, WorkOK, ProgressMessage, worker
<1>5. PositionsOK'
  <2> HIDE DEF best
  <2>1. saved' = Current(best) /\ progress' = best /\ pending' \in {FALSE, pending}
    BY DEF ProgressMessage, best
  <2> QED BY <1>2, <1>3, <2>1 DEF PositionsOK, ProgressMessage
<1>6. QueuesOK'
  BY <1>2 DEF QueuesOK, ProgressMessage
<1> QED BY <1>4, <1>5, <1>6

\* What is loaded from the database.
LEMMA RestartTyped ==
  ASSUME TypeInv, Restart
  PROVE  TypeInv'
<1> USE DEF TypeInv
<1>1. /\ tip \in Nat /\ tip \in 0..tip /\ Null \in Null..tip /\ Nothing \in Nothing..tip
      /\ saved \in Null..tip /\ saved \in Nothing..tip
  BY ConstantsAssumption DEF ElementsOK, PositionsOK, Height, Null, Nothing
<1>2. ElementsOK'
  BY GeneratedAreElements, TestedAreElements DEF ElementsOK, Restart
<1>3. PositionsOK'
  <2>1. scan' \in [last : Nothing..tip, tip : 0..tip]
    BY <1>1 DEF Restart, Opened
  <2>2. rescan' \in [last : Nothing..tip, tip : 0..tip, dirty : SUBSET (0..tip),
                     highest : Null..tip]
    BY <1>1 DEF Restart, RescanOpened
  <2> QED BY <1>1, <2>1, <2>2 DEF PositionsOK, Restart
<1>4. WorkOK'
  BY DEF WorkOK, Restart, NoBlocks, NoCache
<1>5. QueuesOK'
  <2>1. <<Msg("clean", {saved})>> \in Seq(Message(tip))
    BY <1>1, MessagesOK
  <2> QED BY <2>1 DEF QueuesOK, Restart
<1> QED BY <1>2, <1>3, <1>4, <1>5

\* What a reorg leaves in a queue are messages of the same kind.
LEMMA ReorgTyped ==
  ASSUME TypeInv, Reorg
  PROVE  TypeInv'
<1> USE DEF TypeInv
<1>1. tip \in Nat
  BY ConstantsAssumption DEF ElementsOK, Height
<1>2. ASSUME NEW X, NEW q \in Seq(X), NEW m \in X
      PROVE  [i \in 1..Cardinality({i \in DOMAIN q : q[i] = m}) |-> m] \in Seq(X)
  <2>1. Cardinality({i \in DOMAIN q : q[i] = m}) \in Nat
    <3>1. IsFiniteSet(1..Len(q)) /\ DOMAIN q = 1..Len(q)
      BY FS_Interval
    <3>2. IsFiniteSet({i \in DOMAIN q : q[i] = m})
      BY <3>1, FS_Subset
    <3> QED BY <3>2, FS_CardinalityType
  <2> QED BY <2>1
<1>3. ElementsOK' /\ PositionsOK' /\ WorkOK'
  BY DEF ElementsOK, PositionsOK, WorkOK, Reorg, wallet, position, flags, worker
<1>4. QueuesOK'
  <2>1. Msg("rescan", {}) \in Message(tip) /\ Nothing \in Nothing..tip
    BY <1>1, MessagesOK DEF Nothing
  <2>2. toProcess' \in Seq(Message(tip)) /\ toRescan' \in Seq(Message(tip))
        /\ toProgress' \in Seq(Nothing..tip)
    BY <1>2, <2>1 DEF QueuesOK, Reorg
  <2> QED BY <2>2 DEF QueuesOK, Reorg
<1> QED BY <1>3, <1>4

\* The types are kept by every step.
LEMMA StepTyped ==
  ASSUME TypeInv, [Next]_vars
  PROVE  TypeInv'
<1>1. ASSUME NEW h \in Height, BlockArrives(h) \/ ProcessBlock(h) \/ BlockFinished(h)
      PROVE  TypeInv'
  BY <1>1, BlockTyped
<1>2. CASE UNCHANGED vars
  BY <1>2 DEF vars, TypeInv, ElementsOK, PositionsOK, WorkOK, QueuesOK, wallet, position,
              flags, worker, queues
<1> QED BY <1>1, <1>2, ScanWorkTyped, NewFilterTyped, ScanRescanTyped,
           ProcessMessageTyped, ReprocessTyped, ProcessWorkTyped, IndexWorkTyped,
           RescanMessageTyped, RescanWorkTyped, ProgressMessageTyped, RestartTyped,
           ReorgTyped DEF Next

\* The state of the jobs, of their messages and of the database is well formed,
\* and Process works at one block at a time, in every behaviour.
THEOREM TypeCorrect == Spec => []TypeOK
<1>1. TypeInv /\ [Next]_vars => TypeInv'
  BY StepTyped
<1> QED BY <1>1, InitTyped, TypedIsTypeOK, PTL DEF Spec

(***************************************************************************)
(* What Rescan waits for is on its way.                                    *)
(***************************************************************************)

\* Blocks that Process has or is told to have, and has not stored.
Working ==
  process.downloading \cup process.ready \cup jobs \cup cache.at
    \cup (UNION {reprocess[i] : i \in DOMAIN reprocess})

\* A rescan that Rescan will hear of behind all that it is told now.
Coming ==
  asked > 0 \/ \E i \in DOMAIN toProcess : toProcess[i].type = "rescan"

\* Blocks that Rescan has to wait for: those it knows (i = 0), and those of
\* which the message i will tell it.
Claims(i) ==
  IF i = 0 THEN rescan.dirty
  ELSE IF toRescan[i].type = "dirty" THEN toRescan[i].at ELSE {}

\* Behind message i Rescan will be told to forget them, or that h is processed.
Forgotten(i) ==
  Coming \/ \E k \in 1..Len(toRescan) : k > i /\ toRescan[k].type = "rescan"
Told(h, i) ==
  \/ h \in Working
  \/ \E k \in 1..Len(toRescan) :
        k > i /\ toRescan[k].type = "processed" /\ h \in toRescan[k].at

ClaimsMet ==
  \A i \in 0..Len(toRescan) : Forgotten(i) \/ \A h \in Claims(i) : Told(h, i)

\* A rescan has been asked for because of a failure, or because of Rescan.
PendingFails == pending => "failure" \in happened \/ "contract" \in Events

Inv ==
  /\ TypeInv
  /\ PendingFails
  /\ "reorg" \in happened \/ ClaimsMet

\* Either storing never fails or Rescan does not ask for a rescan itself.
OneAsks == ~ ({"failure", "contract"} \subseteq Events)

\* A step that sends nothing to Rescan, and after which Rescan waits only for
\* blocks it waited for before or that Process is told to have.
LEMMA ClaimsKept ==
  ASSUME toRescan' = toRescan, rescan'.dirty \subseteq rescan.dirty \cup Working',
         Coming => Coming', Working \subseteq Working', ClaimsMet
  PROVE  ClaimsMet'
<1> SUFFICES ASSUME NEW i \in 0..Len(toRescan), ~ Forgotten(i)', NEW h \in Claims(i)'
             PROVE  Told(h, i)'
  BY DEF ClaimsMet
<1>1. ~ Forgotten(i)
  BY DEF Forgotten
<1>2. h \in Working' \/ h \in Claims(i)
  BY DEF Claims
<1>3. h \in Working' \/ Told(h, i)
  BY <1>1, <1>2 DEF ClaimsMet
<1> QED BY <1>3 DEF Told

\* A step that sends a message to Rescan.
LEMMA ClaimsSent ==
  ASSUME NEW X, toRescan \in Seq(X), NEW m \in X, toRescan' = Append(toRescan, m),
         rescan' = rescan,
         m.type = "dirty" => m.at \subseteq Working',
         m.type = "rescan" \/ (Coming => Coming'),
         m.type = "rescan" \/ Working \subseteq Working'
           \/ (m.type = "processed" /\ Working \subseteq Working' \cup m.at),
         ClaimsMet
  PROVE  ClaimsMet'
<1>1. /\ Len(toRescan) \in Nat /\ Len(toRescan') = Len(toRescan) + 1
      /\ \A k \in 1..Len(toRescan) : toRescan'[k] = toRescan[k]
      /\ toRescan'[Len(toRescan) + 1] = m
  BY SentIsLast
<1> DEFINE n == Len(toRescan)
<1> SUFFICES ASSUME NEW i \in 0..(n + 1), ~ Forgotten(i)', NEW h \in Claims(i)'
             PROVE  Told(h, i)'
  BY <1>1 DEF ClaimsMet
<1>2. CASE i = n + 1
  <2>1. h \in Working'
    BY <1>1, <1>2 DEF Claims
  <2> QED BY <2>1 DEF Told
<1>3. CASE i \in 0..n
  <2>1. n + 1 \in 1..Len(toRescan') /\ n + 1 > i
    BY <1>1, <1>3
  <2>2. m.type # "rescan"
    BY <1>1, <2>1 DEF Forgotten
  <2>3. ~ Forgotten(i)
    <3>1. ~ Coming
      BY <2>2 DEF Forgotten
    <3>2. ASSUME NEW k \in 1..n, k > i PROVE toRescan[k].type # "rescan"
      <4>1. k \in 1..Len(toRescan') /\ toRescan'[k] = toRescan[k]
        BY <1>1
      <4> QED BY <3>2, <4>1 DEF Forgotten
    <3> QED BY <3>1, <3>2 DEF Forgotten
  <2>4. h \in Claims(i)
    <3>1. i # 0 => toRescan'[i] = toRescan[i]
      BY <1>1, <1>3
    <3> QED BY <3>1 DEF Claims
  <2>5. Told(h, i)
    BY <1>3, <2>3, <2>4 DEF ClaimsMet
  <2>6. CASE h \in Working
    <3>1. h \in Working' \/ (m.type = "processed" /\ h \in m.at)
      BY <2>2, <2>6
    <3> QED BY <1>1, <2>1, <3>1 DEF Told
  <2>7. ASSUME NEW k \in 1..n, k > i, toRescan[k].type = "processed", h \in toRescan[k].at
        PROVE  Told(h, i)'
    <3>1. k \in 1..Len(toRescan') /\ toRescan'[k] = toRescan[k]
      BY <1>1
    <3> QED BY <2>7, <3>1 DEF Told
  <2> QED BY <2>5, <2>6, <2>7 DEF Told
<1> QED BY <1>1, <1>2, <1>3

\* Rescan handles a message: what it forgets is what the message says.
LEMMA ClaimsReceived ==
  ASSUME NEW X, toRescan \in Seq(X), toRescan # <<>>, toRescan' = Tail(toRescan),
         NEW m, m = Head(toRescan),
         \A h \in rescan'.dirty : /\ m.type # "rescan"
                                  /\ m.type = "processed" => h \notin m.at
                                  /\ h \in rescan.dirty \/ (m.type = "dirty" /\ h \in m.at),
         Coming' = Coming, Working' = Working, ClaimsMet
  PROVE  ClaimsMet'
<1> DEFINE n == Len(toRescan)
<1>1. /\ n \in Nat \ {0} /\ Len(toRescan') = n - 1 /\ m = toRescan[1]
      /\ \A k \in 1..(n - 1) : toRescan'[k] = toRescan[k + 1]
  BY ReceivedIsFirst
<1> SUFFICES ASSUME NEW i \in 0..(n - 1), ~ Forgotten(i)', NEW h \in Claims(i)'
             PROVE  Told(h, i)'
  BY <1>1 DEF ClaimsMet
<1>2. ASSUME NEW k \in 1..n, k > i + 1
      PROVE  k - 1 \in 1..Len(toRescan') /\ k - 1 > i /\ toRescan'[k - 1] = toRescan[k]
  BY <1>1, <1>2
<1>3. ~ Forgotten(i + 1)
  <2>1. ASSUME NEW k \in 1..n, k > i + 1 PROVE toRescan[k].type # "rescan"
    BY <1>2, <2>1 DEF Forgotten
  <2> QED BY <2>1 DEF Forgotten
<1>4. ASSUME NEW j \in {i, i + 1}, Told(h, j),
             j = i => i = 0 /\ (m.type = "processed" => h \notin m.at)
      PROVE  Told(h, i)'
  <2>1. CASE h \in Working
    BY <2>1 DEF Told
  <2>2. ASSUME NEW k \in 1..n, k > j, toRescan[k].type = "processed", h \in toRescan[k].at
        PROVE  Told(h, i)'
    <3>1. k > i + 1
      BY <1>1, <1>4, <2>2
    <3> QED BY <1>2, <2>2, <3>1 DEF Told
  <2> QED BY <1>4, <2>1, <2>2 DEF Told
<1>5. CASE i # 0
  <2>1. h \in Claims(i + 1) /\ i + 1 \in 0..n
    BY <1>1, <1>5 DEF Claims
  <2> QED BY <1>3, <1>4, <2>1 DEF ClaimsMet
<1>6. CASE i = 0
  <2>1. h \in rescan'.dirty
    BY <1>6 DEF Claims
  <2>2. CASE h \in rescan.dirty
    <3>1. ~ Forgotten(0)
      <4>1. ASSUME NEW k \in 1..n PROVE toRescan[k].type # "rescan"
        <5>1. CASE k = 1
          BY <1>1, <2>1, <5>1
        <5>2. CASE k > 1
          BY <1>3, <1>6, <5>2 DEF Forgotten
        <5> QED BY <5>1, <5>2
      <4> QED BY <1>3, <4>1 DEF Forgotten
    <3>2. h \in Claims(0) /\ 0 \in 0..n
      BY <1>1, <2>2 DEF Claims
    <3>3. Told(h, 0)
      BY <3>1, <3>2 DEF ClaimsMet
    <3> QED BY <1>4, <1>6, <2>1, <3>3
  <2>3. CASE m.type = "dirty" /\ h \in m.at
    <3>1. h \in Claims(1) /\ 1 \in 0..n
      BY <1>1, <2>3 DEF Claims
    <3>2. Told(h, 1)
      BY <1>3, <1>6, <3>1 DEF ClaimsMet
    <3> QED BY <1>4, <1>6, <3>2
  <2> QED BY <2>1, <2>2, <2>3
<1> QED BY <1>5, <1>6

\* Blocks that move between the places where Process has them remain its own.
LEMMA WorkingKept ==
  ASSUME process.downloading \cup process.ready \cup jobs \cup cache.at
           \subseteq process'.downloading \cup process'.ready \cup jobs' \cup cache'.at,
         reprocess' = reprocess
  PROVE  Working \subseteq Working'
BY DEF Working

\* Scan, a new filter, a rescan that is asked for.
LEMMA ScanClaims ==
  ASSUME TypeInv, TypeInv', ClaimsMet, ScanWork \/ NewFilter \/ ScanRescan \/ UserRescan
  PROVE  ClaimsMet'
<1>1. toRescan' = toRescan /\ rescan' = rescan /\ Working' = Working
  BY DEF ScanWork, NewFilter, ScanRescan, UserRescan, worker, queues, Working
<1>2. tip \in Nat /\ toProcess \in Seq(Message(tip)) /\ asked \in Nat
  BY ConstantsAssumption DEF TypeInv, ElementsOK, QueuesOK, Height
<1>3. Coming => Coming'
  <2>1. CASE ScanWork
    <3>1. toProcess' \in Seq(Message(tip)) /\ asked' = asked
      BY <2>1 DEF TypeInv, QueuesOK, ScanWork
    <3>2. \A i \in DOMAIN toProcess : i \in DOMAIN toProcess' /\ toProcess'[i] = toProcess[i]
      <4> DEFINE first == Current(scan.last) + 1
                 b == Min({first + Batch - 1, scan.tip})
                 dirty == {h \in first..b : Matches(h)}
                 clean == HighestClean((first..b) \ dirty, dirty)
                 r == IF dirty = {} THEN <<>> ELSE <<Msg("dirty", dirty)>>
                 t == IF clean = Nothing THEN <<>> ELSE <<Msg("clean", {clean})>>
      <4>1. toProcess' = toProcess \/ toProcess' = toProcess \o r \o t
        BY <2>1 DEF ScanWork
      <4>2. \A x : <<>> \in Seq({x}) /\ <<x>> \in Seq({x})
        OBVIOUS
      <4>3. r \in Seq({Msg("dirty", dirty)})
        BY <4>2, Zenon
      <4>4. t \in Seq({Msg("clean", {clean})})
        BY <4>2, Zenon
      <4> HIDE DEF r, t
      <4> QED BY <1>2, <4>1, <4>3, <4>4
    <3> QED BY <3>1, <3>2 DEF Coming
  <2>2. CASE NewFilter
    <3>1. asked' = asked /\ toProcess' = Append(toProcess, Msg("filter", {tip + 1}))
      BY <2>2 DEF NewFilter
    <3>2. \A i \in DOMAIN toProcess : i \in DOMAIN toProcess' /\ toProcess'[i] = toProcess[i]
      BY <1>2, <3>1
    <3> QED BY <3>1, <3>2 DEF Coming
  <2>3. CASE ScanRescan
    <3>1. toProcess' = Append(toProcess, Msg("rescan", {}))
      BY <2>3 DEF ScanRescan
    <3>2. /\ Len(toProcess) + 1 \in DOMAIN toProcess'
          /\ toProcess'[Len(toProcess) + 1] = Msg("rescan", {})
      BY <1>2, <3>1
    <3> QED BY <3>2 DEF Coming, Msg
  <2>4. CASE UserRescan
    BY <1>2, <2>4 DEF UserRescan, Coming
  <2> QED BY <2>1, <2>2, <2>3, <2>4
<1> QED BY <1>1, <1>3, ClaimsKept

\* Process receives what Scan says: blocks to download, or a rescan.
LEMMA ProcessMessageClaims ==
  ASSUME TypeInv, ClaimsMet, ProcessMessage
  PROVE  ClaimsMet'
<1> DEFINE m == Head(toProcess)
<1>1. /\ toProcess \in Seq(Message(tip)) /\ toProcess # <<>>
      /\ toRescan \in Seq(Message(tip)) /\ toRescan' = Append(toRescan, m)
      /\ toProcess' = Tail(toProcess)
      /\ UNCHANGED <<rescan, jobs, cache, reprocess, asked>>
  BY DEF TypeInv, QueuesOK, ProcessMessage, worker
<1>2. /\ m \in Message(tip) /\ m = toProcess[1] /\ Len(toProcess) \in Nat \ {0}
      /\ Len(toProcess') = Len(toProcess) - 1
      /\ \A i \in 1..Len(toProcess') : toProcess'[i] = toProcess[i + 1]
      /\ DOMAIN toProcess = 1..Len(toProcess) /\ DOMAIN toProcess' = 1..Len(toProcess')
  BY <1>1, ReceivedIsFirst
<1>3. m.type = "rescan" \/ (Coming => Coming')
  <2>1. ASSUME NEW i \in DOMAIN toProcess, toProcess[i].type = "rescan", m.type # "rescan"
        PROVE  \E j \in DOMAIN toProcess' : toProcess'[j].type = "rescan"
    <3>1. i # 1
      BY <1>2, <2>1
    <3>2. i - 1 \in DOMAIN toProcess' /\ toProcess'[i - 1] = toProcess[i]
      BY <1>2, <3>1
    <3> QED BY <2>1, <3>2
  <2> QED BY <1>1, <2>1 DEF Coming
<1>4. process' = IF m.type = "dirty" THEN [process EXCEPT !.downloading = @ \cup m.at]
                 ELSE IF m.type = "rescan" THEN NoBlocks ELSE process
  BY DEF ProcessMessage
<1> HIDE DEF m
<1>5. m.type = "rescan" \/ Working \subseteq Working'
  <2>1. m.type = "rescan" \/ process.downloading \cup process.ready
                               \subseteq process'.downloading \cup process'.ready
    BY <1>4 DEF TypeInv, WorkOK
  <2> QED BY <1>1, <2>1, WorkingKept
<1>6. m.type = "dirty" => m.at \subseteq Working'
  BY <1>4 DEF TypeInv, WorkOK, Working
<1> QED BY <1>1, <1>2, <1>3, <1>5, <1>6, ClaimsSent

\* A message of Rescan to Process becomes downloads.
LEMMA ReprocessClaims ==
  ASSUME TypeInv, ClaimsMet, Reprocess
  PROVE  ClaimsMet'
<1>1. /\ reprocess \in Seq(SUBSET (0..tip)) /\ reprocess # <<>>
      /\ reprocess' = Tail(reprocess)
      /\ process'.downloading = process.downloading \cup Head(reprocess)
      /\ process'.ready = process.ready
      /\ UNCHANGED <<rescan, jobs, cache, asked, toProcess, toRescan>>
  BY DEF TypeInv, QueuesOK, WorkOK, Reprocess
<1>2. ASSUME NEW i \in DOMAIN reprocess, NEW h \in reprocess[i]
      PROVE  h \in Working'
  <2>1. /\ Head(reprocess) = reprocess[1]
        /\ \A j \in DOMAIN reprocess : j # 1 =>
             j - 1 \in DOMAIN reprocess' /\ reprocess'[j - 1] = reprocess[j]
    BY <1>1
  <2> QED BY <1>1, <1>2, <2>1 DEF Working
<1>3. Working \subseteq Working'
  <2>1. process.downloading \cup process.ready \cup jobs \cup cache.at \subseteq Working'
    BY <1>1 DEF Working
  <2> QED BY <1>2, <2>1 DEF Working
<1>4. Coming => Coming'
  BY <1>1 DEF Coming
<1> QED BY <1>1, <1>3, <1>4, ClaimsKept

\* A block arrives, is processed on a thread, and the thread is done.
LEMMA BlockClaims ==
  ASSUME TypeInv, ClaimsMet, NEW h \in Height,
         BlockArrives(h) \/ ProcessBlock(h) \/ BlockFinished(h)
  PROVE  ClaimsMet'
<1>1. UNCHANGED <<toRescan, toProcess, reprocess, rescan, asked>>
  BY DEF BlockArrives, ProcessBlock, BlockFinished, queues
<1>2. process.downloading \cup process.ready \cup jobs \cup cache.at
        \subseteq process'.downloading \cup process'.ready \cup jobs' \cup cache'.at
  <2>1. CASE BlockArrives(h)
    BY <2>1 DEF BlockArrives, TypeInv, WorkOK
  <2>2. CASE ProcessBlock(h)
    BY <2>2 DEF ProcessBlock
  <2>3. CASE BlockFinished(h)
    BY <2>3 DEF BlockFinished, TypeInv, WorkOK
  <2> QED BY <2>1, <2>2, <2>3
<1>3. Working \subseteq Working'
  BY <1>1, <1>2, WorkingKept
<1>4. Coming => Coming'
  BY <1>1 DEF Coming
<1> QED BY <1>1, <1>3, <1>4, ClaimsKept

\* What leaves the cache is reported, or forgotten because of a rescan.
LEMMA ProcessWorkClaims ==
  ASSUME TypeInv, PendingFails, OneAsks, ClaimsMet, ProcessWork
  PROVE  ClaimsMet'
<1> DEFINE started == process.downloading \cup process.ready \cup jobs
<1>1. /\ \/ Flush
         \/ FlushFails
         \/ UNCHANGED <<stored, known, cache, toRescan, pending, asked, happened>>
      /\ \/ process' = process /\ jobs' = jobs
         \/ /\ process' = [process EXCEPT !.ready = @ \ {Min(@)},
                                          !.processing = @ \cup {Min(process.ready)}]
            /\ jobs' = jobs \cup {Min(process.ready)}
      /\ UNCHANGED <<rescan, toProcess, reprocess>>
  BY DEF ProcessWork
<1>2. started \subseteq process'.downloading \cup process'.ready \cup jobs'
  <2>1. CASE process' = process /\ jobs' = jobs
    BY <2>1
  <2>2. CASE /\ process' = [process EXCEPT !.ready = @ \ {Min(@)},
                                           !.processing = @ \cup {Min(process.ready)}]
             /\ jobs' = jobs \cup {Min(process.ready)}
    <3>1. /\ process'.downloading = process.downloading
          /\ process'.ready = process.ready \ {Min(process.ready)}
      BY <2>2 DEF TypeInv, WorkOK
    <3> QED BY <2>2, <3>1
  <2> QED BY <1>1, <2>1, <2>2
<1>3. Working \subseteq Working' \cup cache.at
  BY <1>1, <1>2 DEF Working
<1>4. CASE FlushFails
  <2>1. ~ pending
    BY <1>4 DEF FlushFails, Happens, PendingFails, OneAsks
  <2>2. asked' > 0
    BY <1>4, <2>1 DEF FlushFails, Trigger, TypeInv, QueuesOK
  <2> QED BY <2>2 DEF ClaimsMet, Forgotten, Coming
<1>5. CASE Flush /\ cache.at # {}
  <2>1. /\ toRescan' = Append(toRescan, Msg("processed", cache.at))
        /\ asked' = asked
    BY <1>5 DEF Flush
  <2>2. /\ toRescan \in Seq(Message(tip)) /\ Msg("processed", cache.at) \in Message(tip)
        /\ Msg("processed", cache.at).type = "processed"
        /\ Msg("processed", cache.at).at = cache.at
    <3>1. tip \in Nat /\ cache.at \in SUBSET (0..tip)
      BY ConstantsAssumption DEF TypeInv, ElementsOK, WorkOK, Height
    <3> QED BY <3>1, MessagesOK DEF TypeInv, QueuesOK, Msg
  <2>3. Coming => Coming'
    BY <1>1, <2>1 DEF Coming
  <2> QED BY <1>1, <1>3, <2>1, <2>2, <2>3, ClaimsSent
<1>6. CASE /\ \/ Flush /\ cache.at = {}
              \/ UNCHANGED <<stored, known, cache, toRescan, pending, asked, happened>>
  <2>1. toRescan' = toRescan /\ asked' = asked /\ cache.at \subseteq cache'.at
    BY <1>6 DEF Flush
  <2>2. Working \subseteq Working'
    BY <1>3, <2>1 DEF Working
  <2>3. Coming => Coming'
    BY <1>1, <2>1 DEF Coming
  <2> QED BY <1>1, <2>1, <2>2, <2>3, ClaimsKept
<1> QED BY <1>1, <1>4, <1>5, <1>6

\* Rescan forgets a block when it is told that it is processed, and all of them
\* when it starts again.
LEMMA RescanMessageClaims ==
  ASSUME TypeInv, ClaimsMet, RescanMessage
  PROVE  ClaimsMet'
<1> DEFINE m == Head(toRescan)
<1>1. /\ toRescan \in Seq(Message(tip)) /\ toRescan # <<>>
      /\ toRescan' = Tail(toRescan)
      /\ Coming' = Coming /\ Working' = Working
  BY DEF TypeInv, QueuesOK, RescanMessage, Coming, Working, worker
<1>2. m \in Message(tip)
  BY <1>1, ReceivedIsFirst
<1>3. rescan'.dirty = IF m.type = "dirty" THEN rescan.dirty \cup m.at
                      ELSE IF m.type = "processed" THEN rescan.dirty \ m.at
                      ELSE IF m.type = "rescan" THEN {} ELSE rescan.dirty
  <2>1. CASE m.type \in {"dirty", "clean", "processed"}
    <3>1. RescanUpdate(m)
      BY <2>1 DEF RescanMessage
    <3> QED BY <2>1, <3>1 DEF RescanUpdate, TypeInv, PositionsOK
  <2>2. CASE m.type = "filter"
    BY <2>2 DEF RescanMessage, TypeInv, PositionsOK
  <2>3. CASE m.type = "rescan"
    BY <2>3 DEF RescanMessage, TypeInv, PositionsOK
  <2> QED BY <1>2, <2>1, <2>2, <2>3 DEF Message
<1>4. \A h \in rescan'.dirty : /\ m.type # "rescan"
                               /\ m.type = "processed" => h \notin m.at
                               /\ h \in rescan.dirty \/ (m.type = "dirty" /\ h \in m.at)
  BY <1>3
<1> QED BY <1>1, <1>4, ClaimsReceived

\* What Rescan finds dirty it tells Process.
LEMMA RescanWorkClaims ==
  ASSUME TypeInv, ClaimsMet, RescanWork
  PROVE  ClaimsMet'
<1>1. /\ UNCHANGED <<worker, toProcess, toRescan>>
      /\ \/ UNCHANGED <<rescan, reprocess, asked>>
         \/ UNCHANGED <<rescan, reprocess>> /\ Trigger
         \/ \E b : RescanTo(b)
  BY RescanWorkCases
<1>2. Coming => Coming'
  <2>1. asked \in Nat /\ asked' \in {asked, asked + 1}
    BY <1>1 DEF Trigger, RescanTo, TypeInv, QueuesOK
  <2> QED BY <1>1, <2>1 DEF Coming
<1>3. CASE UNCHANGED <<rescan, reprocess>>
  <2>1. Working \subseteq Working'
    BY <1>1, <1>3 DEF Working, worker
  <2> QED BY <1>1, <1>2, <1>3, <2>1, ClaimsKept
<1>4. ASSUME NEW b, RescanTo(b) PROVE ClaimsMet'
  <2> DEFINE first == Current(rescan.last) + 1
             dirty == {h \in first..b : Matches(h)}
             clean == HighestClean((first..b) \ dirty, dirty)
             last == IF clean = Nothing THEN rescan.last ELSE clean
             kept == {h \in rescan.dirty : h > last} \cup dirty
  <2>1. /\ rescan' = [rescan EXCEPT !.last = last, !.dirty = kept]
        /\ reprocess' = IF dirty = {} THEN reprocess ELSE Append(reprocess, dirty)
    BY <1>4 DEF RescanTo
  <2> HIDE DEF dirty, last
  <2>2. rescan'.dirty \subseteq rescan.dirty \cup dirty
    BY <2>1 DEF TypeInv, PositionsOK
  <2>3. /\ \A i \in DOMAIN reprocess : i \in DOMAIN reprocess' /\ reprocess'[i] = reprocess[i]
        /\ dirty # {} => \E i \in DOMAIN reprocess' : reprocess'[i] = dirty
    <3>1. reprocess \in Seq(SUBSET (0..tip))
      BY DEF TypeInv, QueuesOK
    <3>2. CASE dirty = {}
      BY <2>1, <3>2
    <3>3. CASE dirty # {}
      <4>1. /\ Len(reprocess) + 1 \in DOMAIN reprocess'
            /\ reprocess'[Len(reprocess) + 1] = dirty
        BY <2>1, <3>1, <3>3
      <4> QED BY <2>1, <3>1, <3>3, <4>1
    <3> QED BY <3>2, <3>3
  <2>4. Working \subseteq Working' /\ dirty \subseteq Working'
    <3>1. process' = process /\ jobs' = jobs /\ cache' = cache
      BY <1>1 DEF worker
    <3> QED BY <2>3, <3>1 DEF Working
  <2> QED BY <1>1, <1>2, <2>2, <2>4, ClaimsKept
<1> QED BY <1>1, <1>3, <1>4

\* Nothing else changes what Rescan waits for.
LEMMA OtherClaims ==
  ASSUME TypeInv, ClaimsMet, IndexWork \/ ProgressMessage \/ UNCHANGED vars
  PROVE  ClaimsMet'
<1>1. UNCHANGED <<toRescan, toProcess, reprocess, rescan, asked, process, jobs, cache>>
  BY DEF IndexWork, ProgressMessage, vars, worker, queues
<1>2. Working' = Working /\ Coming' = Coming
  BY <1>1 DEF Working, Coming
<1> QED BY <1>1, <1>2, ClaimsKept

\* After a restart Rescan waits for nothing.
LEMMA RestartClaims ==
  ASSUME Restart
  PROVE  ClaimsMet'
BY DEF Restart, RescanOpened, ClaimsMet, Claims

\* What has happened remains so; a reorg is the only step that makes it one.
LEMMA HappenedGrows ==
  ASSUME [Next]_vars
  PROVE  happened \subseteq happened' /\ (Reorg => "reorg" \in happened')
<1>1. ASSUME NEW h \in Height, BlockArrives(h) \/ ProcessBlock(h) \/ BlockFinished(h)
      PROVE  happened' = happened
  BY <1>1 DEF BlockArrives, ProcessBlock, BlockFinished
<1>2. CASE ProcessWork
  BY <1>2 DEF ProcessWork, Flush, FlushFails, Happens, Reorg
<1>3. CASE RescanWork
  BY <1>3, RescanWorkCases DEF Reorg, Happens
<1>4. CASE NewFilter \/ UserRescan \/ Restart \/ Reorg
  BY <1>4 DEF NewFilter, UserRescan, Restart, Reorg, Happens
<1>5. CASE \/ ScanWork \/ ScanRescan \/ ProcessMessage \/ Reprocess \/ IndexWork
           \/ RescanMessage \/ ProgressMessage
  BY <1>5 DEF ScanWork, ScanRescan, ProcessMessage, Reprocess, IndexWork, RescanMessage,
              ProgressMessage, Reorg, Happens
<1>6. Reorg => "reorg" \in happened'
  BY DEF Reorg, Happens
<1> QED BY <1>1, <1>2, <1>3, <1>4, <1>5, <1>6 DEF Next, vars

\* A rescan is only pending if storing failed or Rescan asks for it itself.
LEMMA PendingStep ==
  ASSUME TypeInv, PendingFails, [Next]_vars
  PROVE  PendingFails'
<1>1. happened \subseteq happened'
  BY HappenedGrows
<1> SUFFICES ASSUME pending' PROVE pending \/ "failure" \in happened' \/ "contract" \in Events
  BY <1>1 DEF PendingFails
<1>2. ASSUME NEW h \in Height, BlockArrives(h) \/ ProcessBlock(h) \/ BlockFinished(h)
      PROVE  pending
  BY <1>2 DEF BlockArrives, ProcessBlock, BlockFinished, flags
<1>3. CASE ProcessWork
  BY <1>3 DEF ProcessWork, Flush, FlushFails, Happens
<1>4. CASE RescanWork
  BY <1>4, RescanWorkCases DEF RescanTo
<1>5. CASE Restart \/ ProgressMessage
  BY <1>5 DEF Restart, ProgressMessage, TypeInv, PositionsOK
<1>6. CASE \/ ScanWork \/ NewFilter \/ ScanRescan \/ UserRescan \/ ProcessMessage
           \/ Reprocess \/ IndexWork \/ RescanMessage \/ Reorg \/ UNCHANGED vars
  BY <1>6 DEF ScanWork, NewFilter, ScanRescan, UserRescan, ProcessMessage, Reprocess,
              IndexWork, RescanMessage, Reorg, vars, flags
<1> QED BY <1>2, <1>3, <1>4, <1>5, <1>6 DEF Next

\* Every step keeps what Rescan waits for on its way.
LEMMA ClaimsStep ==
  ASSUME TypeInv, TypeInv', PendingFails, OneAsks, ClaimsMet, [Next]_vars
  PROVE  "reorg" \in happened' \/ ClaimsMet'
<1>1. ASSUME NEW h \in Height, BlockArrives(h) \/ ProcessBlock(h) \/ BlockFinished(h)
      PROVE  ClaimsMet'
  BY <1>1, BlockClaims
<1> QED BY <1>1, ScanClaims, ProcessMessageClaims, ReprocessClaims, ProcessWorkClaims,
           RescanMessageClaims, RescanWorkClaims, OtherClaims, RestartClaims,
           HappenedGrows DEF Next

\* What is claimed is what DirtyIsReported says of the blocks Rescan knows.
LEMMA ClaimsAreReported == Inv => DirtyIsReported
<1> SUFFICES ASSUME TypeInv, ClaimsMet, ~ Restarting, NEW h \in rescan.dirty
             PROVE  h \in Reported
  BY DEF Inv, DirtyIsReported
<1>1. DOMAIN toRescan = 1..Len(toRescan) /\ Len(toRescan) \in Nat
  BY DEF TypeInv, QueuesOK
<1>2. ~ Forgotten(0)
  BY <1>1 DEF Forgotten, Coming, Restarting
<1>3. h \in Claims(0) /\ 0 \in 0..Len(toRescan)
  BY <1>1 DEF Claims
<1>4. Told(h, 0)
  BY <1>2, <1>3 DEF ClaimsMet
<1>5. CASE h \in Working
  BY <1>5 DEF Working, Reported
<1>6. ASSUME NEW k \in 1..Len(toRescan), toRescan[k].type = "processed",
             h \in toRescan[k].at
      PROVE  h \in Reported
  BY <1>1, <1>6 DEF Reported
<1> QED BY <1>4, <1>5, <1>6 DEF Told

\* The inductive invariant holds in every behaviour.
THEOREM Invariant ==
  ASSUME OneAsks
  PROVE  Spec => []Inv
<1>1. Init => Inv
  <2> SUFFICES ASSUME Init PROVE Inv
    OBVIOUS
  <2>1. PendingFails
    BY DEF Init, PendingFails
  <2>2. ClaimsMet
    BY DEF Init, RescanOpened, ClaimsMet, Claims
  <2> QED BY <2>1, <2>2, InitTyped DEF Inv
<1>2. Inv /\ [Next]_vars => Inv'
  BY OneAsks, StepTyped, PendingStep, ClaimsStep, HappenedGrows DEF Inv
<1> QED BY <1>1, <1>2, PTL DEF Spec

\* As long as no reorg drops reports, every block that Rescan waits for is on its
\* way to it, or Rescan is about to start again: if storing never fails, or
\* Rescan does not itself ask for a rescan, it cannot wait forever for a block
\* that nobody has.
THEOREM WaitsForBlocksOnTheirWay ==
  ASSUME OneAsks
  PROVE  Spec => []DirtyIsReported
BY Invariant, ClaimsAreReported, PTL

=============================================================================
