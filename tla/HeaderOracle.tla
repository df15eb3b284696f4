------------------------------ MODULE HeaderOracle ------------------------------
(***************************************************************************)
(* The header oracle of a blockchain node (node/headeroracle/Shared.cpp):  *)
(* it receives block headers in any order, keeps the tree they form in the *)
(* node's database (database/Headers.cpp), selects the best chain, obeys a *)
(* checkpoint, and tells the rest of the node when the best chain changes. *)
(*                                                                         *)
(* Every operation holds the lock of the oracle from beginning to end and  *)
(* collects its changes in an UpdateTransaction, which ApplyUpdate then    *)
(* stores in one database transaction: each operation is one action.       *)
(*                                                                         *)
(* A header is identified by its hash, which determines its parent and the *)
(* work it proves.  Headers that are invalid by themselves are refused     *)
(* before they get here and are left out.                                  *)
(***************************************************************************)
EXTENDS Naturals, FiniteSets, SequencesExt

CONSTANTS
  Header,        \* the headers that may arrive, and the genesis header
  Genesis,
  Parent,        \* the parent of every other header
  Proof,         \* the work a header proves
  Order,         \* all headers in the order of their hashes
  Checkpoints,   \* the pairs of height and hash that may be required
  None,          \* no header
  MaxBatch,      \* bound: headers in one call of AddHeaders
  MaxWaiting,    \* bound: headers that wait for the same parent
  MaxCheckpoint  \* bound: checkpoints set

ASSUME HeaderAssumption ==
  /\ IsFiniteSet(Header)
  /\ Genesis \in Header
  /\ None \notin Header
  /\ Parent \in [Header \ {Genesis} -> Header]
  /\ \A S \in SUBSET (Header \ {Genesis}) : S # {} => \E h \in S : Parent[h] \notin S
  /\ Proof \in [Header -> Nat \ {0}]
  /\ Order \in [1..Cardinality(Header) -> Header] /\ Range(Order) = Header
  /\ Checkpoints \subseteq [height : Nat \ {0, 1}, hash : Header]
  /\ MaxBatch \in Nat /\ MaxWaiting \in Nat /\ MaxCheckpoint \in Nat

VARIABLES
  headers,       \* the metadata of every stored header
  best_chain,    \* BlockHeaderBest: the best header for each height
  tip,           \* TipHeight
  siblings, disconnected, checkpoint,
  last_update,   \* the reorg published last, lost in a restart
  signal,        \* the message that the last update has published
  checkpointed   \* how many checkpoints have been set

vars == <<headers, best_chain, tip, siblings, disconnected, checkpoint,
          last_update, signal, checkpointed>>

(***************************************************************************)
(* Data.                                                                   *)
(***************************************************************************)
Height == 0..Cardinality(Header)
Status == {"normal", "disconnected", "checkpoint", "banned", "error"}
Metadata == [height : Height, work : Nat, status : Status, inherit : Status]
Position == [height : Height, hash : Header]

NoCheckpoint == [height |-> 0, hash |-> None]
NoPosition == [height |-> 0, hash |-> None]

TipSignal(p) == [type |-> "tip", parent |-> NoPosition, tip |-> p]
ReorgSignal(parent, p) == [type |-> "reorg", parent |-> parent, tip |-> p]
NoSignal == [type |-> "none", parent |-> NoPosition, tip |-> NoPosition]

\* A map with one more entry, and two maps where the first one decides.
Put(f, x, v) == [y \in DOMAIN f \cup {x} |-> IF y = x THEN v ELSE f[y]]
Merge(f, g) ==
  [x \in DOMAIN f \cup DOMAIN g |-> IF x \in DOMAIN f THEN f[x] ELSE g[x]]

\* A header and its ancestors.  Since a hash commits to the parent, every line
\* of ancestors ends.
Line[h \in Header] == IF h = Genesis THEN {h} ELSE Line[Parent[h]] \cup {h}

InOrder(S) == SelectSeq(Order, LAMBDA h : h \in S)
FirstOf(S) ==
  Order[CHOOSE i \in DOMAIN Order :
          Order[i] \in S /\ \A j \in 1..(i - 1) : Order[j] \notin S]

GenesisData ==
  [height |-> 0, work |-> Proof[Genesis], status |-> "normal",
   inherit |-> "normal"]

Init ==
  /\ headers = [h \in {Genesis} |-> GenesisData]
  /\ best_chain = [n \in {0} |-> Genesis]
  /\ tip = 0
  /\ siblings = {} /\ disconnected = {}
  /\ checkpoint = NoCheckpoint
  /\ last_update = NoSignal /\ signal = NoSignal
  /\ checkpointed = 0

-----------------------------------------------------------------------------
(***************************************************************************)
(* UpdateTransaction.  add_sib_ and delete_sib_ are disjoint, like         *)
(* connect_ and disconnected_: the cached sets are what will be stored.    *)
(***************************************************************************)
Transaction ==
  [headers |-> headers, siblings |-> siblings,
   disconnected |-> disconnected, checkpoint |-> checkpoint,
   best |-> [n \in {} |-> None], reorg |-> FALSE, from |-> NoPosition]

\* Above the last header of best_ the table in the database shows through.
EffectiveBestBlock(u, n) ==
  IF n \in DOMAIN u.best THEN u.best[n]
  ELSE IF n \in DOMAIN best_chain THEN best_chain[n] ELSE None

InBestChain(u, h) == EffectiveBestBlock(u, u.headers[h].height) = h

PositionOf(u, h) == [height |-> u.headers[h].height, hash |-> h]

\* Stage(): the tip of the best chain.
Current(u) ==
  IF DOMAIN u.best = {} THEN best_chain[tip]
  ELSE u.best[CHOOSE n \in DOMAIN u.best : \A m \in DOMAIN u.best : m <= n]

AddSibling(u, h) == [u EXCEPT !.siblings = @ \cup {h}]
RemoveSibling(u, h) == [u EXCEPT !.siblings = @ \ {h}]

\* For all headers of a chain, whose heights are consecutive.
\* std::map::emplace keeps an entry that is there already.
AddToBestChain(u, chain) ==
  LET n == u.headers[Head(chain)].height
  IN [u EXCEPT !.siblings = @ \ Range(chain),
               !.best = Merge(@, [i \in n..(n + Len(chain) - 1) |-> chain[i - n + 1]])]

SetReorgParent(u, p) ==
  [u EXCEPT !.best = [n \in {m \in DOMAIN @ : m <= p.height} |-> @[n]],
            !.reorg = TRUE,
            !.from = IF @ = NoPosition \/ p.height <= @.height THEN p ELSE @]

-----------------------------------------------------------------------------
(***************************************************************************)
(* block/header/Imp.cpp: what a header takes over from its parent.         *)
(***************************************************************************)
EffectiveState(d) ==
  IF d.inherit \in {"banned", "disconnected"} THEN d.inherit
  ELSE IF d.status = "checkpoint" THEN "normal" ELSE d.status

Banned(u, h) == EffectiveState(u.headers[h]) = "banned"

CompareToCheckpoint(u, p) ==
  CASE p.height # u.checkpoint.height -> "normal"
    [] p = u.checkpoint -> "checkpoint"
    [] OTHER -> "banned"

ConnectToParentFlat(u, parent, h) ==  \* mutant: work is not inherited
  LET d == u.headers[parent]
  IN [u EXCEPT !.headers = Put(@, h, [height |-> d.height + 1,
                                      work |-> Proof[h],
                                      status |-> "normal",
                                      inherit |-> EffectiveState(d)])]

ConnectToParent(u, parent, h) ==
  LET d == u.headers[parent]
      p == [height |-> d.height + 1, hash |-> h]
  IN [u EXCEPT !.headers = Put(@, h, [height |-> p.height,
                                      work |-> d.work + Proof[h],
                                      status |-> CompareToCheckpoint(u, p),
                                      inherit |-> EffectiveState(d)])]

DisconnectBlockSwapped(u, h) ==  \* mutant: the pair is swapped
  [u EXCEPT !.headers = Put(@, h, [height |-> 0, work |-> Proof[h],
                                   status |-> "disconnected",
                                   inherit |-> "error"]),
            !.disconnected = @ \cup {<<h, Parent[h]>>}]

\* Headers are staged before they are connected to a parent.
DisconnectBlock(u, h) ==
  [u EXCEPT !.headers = Put(@, h, [height |-> 0, work |-> Proof[h],
                                   status |-> "disconnected",
                                   inherit |-> "error"]),
            !.disconnected = @ \cup {<<Parent[h], h>>}]

-----------------------------------------------------------------------------
(***************************************************************************)
(* Candidates.  A candidate is a chain of headers that leaves the best     *)
(* chain at its first header, or at its first header's successor.          *)
(***************************************************************************)
\* The ancestors of h, and h itself, down to the first one that is in stop.
Branch(h, stop) ==
  LET path[x \in Header] ==
        IF x \in stop THEN <<>> ELSE Append(path[Parent[x]], x)
  IN path[h]

InitializeCandidateShort(u, parent, h) ==  \* mutant: only the parent
  [banned |-> Banned(u, h), chain |-> <<parent>>]

InitializeCandidate(u, parent, h) ==
  LET chain == Branch(parent, {x \in DOMAIN u.headers : InBestChain(u, x)})
  IN [banned |-> Banned(u, h),
      chain |-> IF chain = <<>> THEN <<parent>> ELSE chain]

\* A call of connect_children: h is appended to candidate i of s.  s.calls are
\* the calls that have not returned, the latest one first.
Call(s, h, i) ==
  LET t == [s EXCEPT !.candidates[i].chain = Append(@, h)]
  IN [t EXCEPT !.calls = <<[parent |-> h, candidate |-> i, first |-> TRUE,
                            original |-> t.candidates[i]]>> \o @]

\* The latest call connects the next disconnected child and calls itself for
\* it, or returns.  Every child but the first opens a candidate of its own; yet
\* it is the candidate of the parent that records whether the child is banned.
\* (When the vector of candidates has grown before, by a third child or by a fork
\* further up, that record goes through a dangling reference; trees of headers
\* in which that happens are not considered.)
ConnectNext(s) ==
  LET call == Head(s.calls)
      children == {c \in Header : <<call.parent, c>> \in s.update.disconnected}
      c == FirstOf(children)
      u == ConnectToParent([s.update EXCEPT !.disconnected = @ \ {<<call.parent, c>>}],
                           call.parent, c)
      t == [update |-> u,
            candidates |-> [s.candidates EXCEPT ![call.candidate].banned = Banned(u, c)],
            calls |-> [s.calls EXCEPT ![1].first = FALSE]]
  IN IF children = {} THEN [s EXCEPT !.calls = Tail(@)]
     ELSE IF call.first THEN Call(t, c, call.candidate)
     ELSE Call([t EXCEPT !.candidates = Append(@, call.original)],
               c, Len(t.candidates) + 1)

\* Appends h to candidate i of s, then all disconnected descendants of h, depth
\* first.  Each of them is connected once, and its call returns once.
ConnectChildren(s, h, i) ==
  LET steps == 2 * Cardinality(s.update.disconnected) + 1
      after[n \in 0..steps] ==
        IF n = 0 THEN Call(s, h, i)
        ELSE LET t == after[n - 1]
             IN IF t.calls = <<>> THEN t ELSE ConnectNext(t)
  IN after[steps]

HeaviestOf(u, candidates, S) ==
  LET Work(i) == u.headers[Last(candidates[i].chain)].work
  IN IF S = {} THEN 0
     ELSE CHOOSE i \in S : \A j \in S :
            Work(j) < Work(i) \/ (Work(j) = Work(i) /\ i <= j)

WinnerEqual(u, current, candidates) ==  \* mutant: as much work is enough
  HeaviestOf(u, candidates,
             {i \in DOMAIN candidates :
                /\ ~candidates[i].banned
                /\ u.headers[Last(candidates[i].chain)].work
                     >= u.headers[current].work})

\* The header that will be the tip: the candidates are compared in order and
\* only more work than the current best counts.  0 stands for current.
Winner(u, current, candidates) ==
  HeaviestOf(u, candidates,
             {i \in DOMAIN candidates :
                /\ ~candidates[i].banned
                /\ u.headers[Last(candidates[i].chain)].work
                     > u.headers[current].work})

\* A candidate without the headers it has in common with the best chain.
Fresh(u, current, chain) ==
  LET IsNew(h) == u.headers[h].height > u.headers[current].height
                    \/ ~InBestChain(u, h)
      first == CHOOSE k \in DOMAIN chain :
                 IsNew(chain[k]) /\ \A j \in 1..(k - 1) : ~IsNew(chain[j])
  IN SubSeq(chain, first, Len(chain))

\* The position before the first of them.
Fork(u, fresh) ==
  LET n == u.headers[Head(fresh)].height - 1
  IN [height |-> n, hash |-> EffectiveBestBlock(u, n)]

Leaves(u, current, fresh) ==
  u.headers[Head(fresh)].height <= u.headers[current].height

ExtendBestChainForget(u, current, chain) ==  \* mutant: the old tip is lost
  LET fresh == Fresh(u, current, chain)
      base == IF Leaves(u, current, fresh)
              THEN SetReorgParent(u, Fork(u, fresh))
              ELSE u
  IN AddToBestChain(base, fresh)

ExtendBestChainQuiet(u, current, chain) ==  \* mutant: not marked as reorg
  LET fresh == Fresh(u, current, chain)
      base == IF Leaves(u, current, fresh) THEN AddSibling(u, current) ELSE u
  IN AddToBestChain(base, fresh)

ExtendBestChain(u, current, chain) ==
  LET fresh == Fresh(u, current, chain)
      base == IF Leaves(u, current, fresh)
              THEN AddSibling(SetReorgParent(u, Fork(u, fresh)), current)
              ELSE u
  IN AddToBestChain(base, fresh)

\* Candidates that lose become siblings, in order, before and after the winner.
ChooseCandidate(u, current, candidates) ==
  LET winner == Winner(u, current, candidates)
      Remember(v, I) ==
        [v EXCEPT !.siblings = @ \cup {Last(candidates[i].chain) : i \in I}]
      placed == IF winner = 0 THEN u
                ELSE ExtendBestChain(Remember(u, 1..(winner - 1)), current,
                                     candidates[winner].chain)
  IN Remember(placed, (winner + 1)..Len(candidates))

-----------------------------------------------------------------------------
(***************************************************************************)
(* Headers::ApplyUpdate.                                                   *)
(***************************************************************************)
\* What is left of the table of best headers: pop_best takes away everything
\* from the old tip down to the parent of the reorg.
Kept(u) ==
  {n \in DOMAIN best_chain : u.reorg => ~(u.from.height < n /\ n <= tip)}

Store(u, kept) ==
  LET position == PositionOf(u, Current(u))
      reorg == ReorgSignal(u.from, position)
  IN /\ headers' = u.headers
     /\ siblings' = u.siblings
     /\ disconnected' = u.disconnected
     /\ checkpoint' = u.checkpoint
     /\ best_chain' = Merge(u.best, [n \in kept |-> best_chain[n]])
     /\ tip' = position.height
     /\ IF u.reorg
        THEN /\ signal' = IF last_update = reorg THEN NoSignal ELSE reorg
             /\ last_update' = reorg
        ELSE /\ signal' = TipSignal(position)
             /\ last_update' = last_update

ApplyUpdate(u) == Store(u, Kept(u))

-----------------------------------------------------------------------------
(***************************************************************************)
(* AddHeaders: a peer, or a sync server, sends a run of headers.           *)
(***************************************************************************)
AddHeader(u, h) ==
  IF h \in DOMAIN u.headers THEN u
  ELSE IF \/ Parent[h] \notin DOMAIN u.headers
          \/ EffectiveState(u.headers[Parent[h]]) = "disconnected"
  THEN DisconnectBlock(u, h)
  ELSE LET staged == ConnectToParent(RemoveSibling(u, Parent[h]), Parent[h], h)
           first == InitializeCandidate(staged, Parent[h], h)
           connected ==
             ConnectChildren([update |-> staged, candidates |-> <<first>>,
                              calls |-> <<>>], h, 1)
       IN ChooseCandidate(connected.update, Current(u), connected.candidates)

\* A peer answers with consecutive headers.
Batches ==
  {b \in BoundedSeq(Header \ {Genesis}, MaxBatch) :
     /\ b # <<>>
     /\ \A i \in 2..Len(b) : Parent[b[i]] = b[i - 1]}

AddHeaders(batch) ==
  LET after[n \in 0..Len(batch)] ==
        IF n = 0 THEN Transaction ELSE AddHeader(after[n - 1], batch[n])
      u == after[Len(batch)]
  IN /\ \A p \in Header :
          Cardinality({c \in Header : <<p, c>> \in u.disconnected}) <= MaxWaiting
     /\ ApplyUpdate(u)
     /\ UNCHANGED checkpointed

(***************************************************************************)
(* Checkpoints.  From the height before the checkpoint on, the tip and all *)
(* sibling chains are evaluated again.                                     *)
(***************************************************************************)
\* The chains that stage_candidate considers, and the headers they end with.
StagedTips(u, position) ==
  SelectSeq(<<Current(u)>> \o InOrder(u.siblings),
            LAMBDA h : u.headers[h].height >= position)

\* A staged chain that does not contain the ancestor leads to an exception,
\* and the call fails; when it is as high as the checkpoint, and no longer,
\* the exception leaves a noexcept function and ends the process.
ApplyCheckpointCheck(u, position) ==
  position <= u.headers[Current(u)].height =>
    \A h \in Range(StagedTips(u, position)) :
      EffectiveBestBlock(u, position - 1) \in Line[h]

Reconnect(v, h) == ConnectToParent(v, Parent[h], h)

\* The staged chains, connected again below the ancestor.
Reevaluated(u, ancestor, tips) ==
  LET chains == [i \in DOMAIN tips |-> Branch(tips[i], {ancestor})]
      connected == FoldLeft(Reconnect, u, FlattenSeq(chains))
  IN [update |-> connected,
      candidates |-> [i \in DOMAIN tips |->
                        [banned |-> Banned(connected, tips[i]),
                         chain |-> chains[i]]]]

FallBack(u, ancestor) ==
  AddToBestChain(SetReorgParent(u, PositionOf(u, ancestor)), <<ancestor>>)

ApplyCheckpointLate(u, position) ==  \* mutant: not at the tip itself
  IF position >= u.headers[Current(u)].height THEN u
  ELSE
  LET ancestor == EffectiveBestBlock(u, position - 1)
      r == Reevaluated(u, ancestor, StagedTips(u, position))
      chosen == ChooseCandidate(r.update, ancestor, r.candidates)
  IN IF Winner(r.update, ancestor, r.candidates) # 0 THEN chosen
     ELSE FallBack(chosen, ancestor)

ApplyCheckpoint(u, position) ==
  IF position > u.headers[Current(u)].height THEN u
  ELSE
  LET ancestor == EffectiveBestBlock(u, position - 1)
      r == Reevaluated(u, ancestor, StagedTips(u, position))
      chosen == ChooseCandidate(r.update, ancestor, r.candidates)
  IN IF Winner(r.update, ancestor, r.candidates) # 0 THEN chosen
     ELSE FallBack(chosen, ancestor)

HaveCheckpoint == checkpoint.height > 0

AddCheckpoint(c) ==
  LET u == [Transaction EXCEPT !.checkpoint = c]
  IN /\ checkpointed < MaxCheckpoint
     /\ ~HaveCheckpoint
     /\ ApplyCheckpointCheck(u, c.height)
     /\ ApplyUpdate(ApplyCheckpoint(u, c.height))
     /\ checkpointed' = checkpointed + 1

DeleteCheckpoint ==
  LET u == [Transaction EXCEPT !.checkpoint = NoCheckpoint]
  IN /\ HaveCheckpoint
     /\ ApplyCheckpointCheck(u, checkpoint.height)
     /\ ApplyUpdate(ApplyCheckpoint(u, checkpoint.height))
     /\ UNCHANGED checkpointed

\* The node is stopped, or crashes, and is started again.
Restart ==
  /\ last_update' = NoSignal
  /\ signal' = NoSignal
  /\ UNCHANGED <<headers, best_chain, tip, siblings, disconnected,
                 checkpoint, checkpointed>>

Next ==
  \/ \E b \in Batches : AddHeaders(b)
  \/ \E c \in Checkpoints : AddCheckpoint(c)
  \/ DeleteCheckpoint
  \/ Restart

Spec == Init /\ [][Next]_vars

-----------------------------------------------------------------------------
(***************************************************************************)
(* Questions that the rest of the node asks about stored headers.          *)
(***************************************************************************)
IsInBestChain(h) ==
  headers[h].height \in DOMAIN best_chain /\ best_chain[headers[h].height] = h

CommonParent[h \in Header] ==
  IF headers[h].height = 0 THEN Genesis
  ELSE IF IsInBestChain(h) THEN h ELSE CommonParent[Parent[h]]

CalculateReorg[h \in Header] ==
  IF IsInBestChain(h) THEN <<>> ELSE <<h>> \o CalculateReorg[Parent[h]]

BestChainAfter(h) ==  \* mutant: off by one
  LET n == headers[CommonParent[h]].height
  IN [i \in 1..(tip - n) |-> best_chain[n + i]]

\* The best chain from the common parent of h on.
BestChain(h) ==
  LET n == headers[CommonParent[h]].height
  IN [i \in 1..(tip - n + 1) |-> best_chain[n + i - 1]]

\* The ancestor of h that is no higher than n.
Lower(h, n) ==
  LET down[x \in Header] ==
        IF headers[x].height > n THEN down[Parent[x]] ELSE x
  IN down[h]

\* The genesis header stands in for the parent that it does not have.
ParentOf(h) == IF h = Genesis THEN Genesis ELSE Parent[h]

\* Goes back from h until it meets the chain of sibling.
Meet(h, sibling) ==
  LET way[x \in Header] ==
        [s \in Header |->
          IF x = s \/ x = Genesis THEN <<x>>
          ELSE Append(way[Parent[x]][IF headers[x].height = headers[s].height
                                     THEN ParentOf(s) ELSE s], x)]
  IN way[h][sibling]

\* The best chain from start on, without the last headers that are above n.
BestChainUpTo(start, n) ==
  LET q == BestChain(start)
      Above(k) == headers[q[k]].height > n
  IN SubSeq(q, 1, CHOOSE k \in DOMAIN q :
                    /\ k = 1 \/ ~Above(k)
                    /\ \A j \in (k + 1)..Len(q) : Above(j))

\* The way from the chain of start to target; when both are in the best chain
\* it is taken from the table.
Ancestors(start, target) ==
  LET n == headers[start].height
      m == headers[target].height
  IN IF IsInBestChain(start) /\ IsInBestChain(target) /\ n < m
     THEN BestChainUpTo(start, m)
     ELSE Meet(target, Lower(start, m))

-----------------------------------------------------------------------------
(***************************************************************************)
(* Properties.                                                             *)
(***************************************************************************)
TypeOK ==
  /\ DOMAIN headers \subseteq Header
  /\ headers \in [DOMAIN headers -> Metadata]
  /\ DOMAIN best_chain \subseteq Height
  /\ best_chain \in [DOMAIN best_chain -> DOMAIN headers]
  /\ tip \in DOMAIN best_chain
  /\ siblings \subseteq DOMAIN headers
  /\ disconnected \subseteq Header \X DOMAIN headers
  /\ checkpoint \in Checkpoints \cup {NoCheckpoint}
  /\ last_update = NoSignal \/ last_update.type = "reorg"
  /\ signal.type \in {"none", "tip", "reorg"}
  /\ checkpointed \in 0..MaxCheckpoint

\* The stored headers that can be traced back to the genesis header.
Connected == {h \in DOMAIN headers : Line[h] \subseteq DOMAIN headers}

BestHeaders == {best_chain[n] : n \in 0..tip}

\* The table of best headers is a chain: each entry up to the tip is the
\* parent of the next one, whatever reorgs and checkpoints have rewritten it,
\* and a reorg leaves no header of the old chain above the new tip.
BestChainIsLinked ==
  /\ DOMAIN best_chain = 0..tip
  /\ best_chain[0] = Genesis
  /\ \A n \in 1..tip : Parent[best_chain[n]] = best_chain[n - 1]

\* Height and work, inherited along chains that were connected in any order,
\* are those of the chain; what is not connected waits for its parent.
MetadataCorrect ==
  /\ \A h \in Connected :
       /\ headers[h].height = Cardinality(Line[h]) - 1
       /\ headers[h].work = SumFunctionOnSet(Proof, Line[h])
  /\ \A h \in DOMAIN headers \ Connected :
       EffectiveState(headers[h]) = "disconnected"
  /\ disconnected = {<<Parent[h], h>> : h \in DOMAIN headers \ Connected}

\* No chain is forgotten: a connected header without connected child is the
\* tip or a sibling, and no sibling is in the best chain.
LeavesKept ==
  /\ \A h \in Connected :
       (\A c \in Connected \ {Genesis} : Parent[c] # h)
         => h \in siblings \cup {best_chain[tip]}
  /\ siblings \subseteq Connected \ BestHeaders

\* The best chain does not pass the checkpoint with another header, and none
\* of its headers is banned, also after bans were taken back.
CheckpointRespected ==
  /\ HaveCheckpoint /\ checkpoint.height <= tip
       => best_chain[checkpoint.height] = checkpoint.hash
  /\ \A h \in BestHeaders : EffectiveState(headers[h]) # "banned"

\* A checkpoint can be set whatever has been received before: neither does
\* AddCheckpoint fail, which Init asserts, nor does it end the process.
CheckpointAccepted ==
  \A c \in Checkpoints :
    ~HaveCheckpoint
      => ApplyCheckpointCheck([Transaction EXCEPT !.checkpoint = c], c.height)

\* What the wallet and the filters ask before they roll back: the headers to
\* undo are those outside the best chain, newest first; and the way between
\* two positions starts at their newest common ancestor.
QueriesCorrect ==
  LET Descending(q) == \A i \in 2..Len(q) : q[i] = Parent[q[i - 1]]
  IN /\ \A h \in Connected :
          LET q == CalculateReorg[h]
          IN /\ Range(q) = Line[h] \ BestHeaders
             /\ Descending(q)
             /\ q # <<>> => q[1] = h /\ CommonParent[h] = Parent[Last(q)]
     /\ \A h, t \in Connected :
          LET q == Ancestors(h, t)
              common == Line[h] \cap Line[t]
          IN /\ Range(q) \cap common = {q[1]}
             /\ common = Line[q[1]]
             /\ Last(q) = t
             /\ Descending(Reverse(q))

\* A subscriber that knows the old best chain can follow: the new best chain
\* extends the old one, or a reorg is announced whose parent is in both
\* (action property).
SignalsFollow ==
  [][best_chain[tip] # best_chain'[tip'] =>
       \/ best_chain[tip] \in BestHeaders'
       \/ /\ signal'.type = "reorg"
          /\ signal'.parent.hash \in BestHeaders \cap BestHeaders'
          /\ signal'.tip.hash = best_chain'[tip']]_vars

\* Without checkpoints the oracle implements ChainSelection.
Selection == INSTANCE ChainSelection WITH
  seen <- DOMAIN headers, best <- best_chain[tip]

ImplementsSelection == Selection!Spec

=============================================================================
