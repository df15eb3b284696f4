---------------------------- MODULE WalletOutputs ----------------------------
(***************************************************************************)
(* The wallet database of a blockchain: the state of every transaction     *)
(* output that belongs to the wallet, the indices by position and by       *)
(* maturity, and the proposals that reserve and create outputs             *)
(* (src/blockchain/database/wallet), driven by the jobs of one subchain,   *)
(* by the mempool, by the transaction builder and by the reorg protocol.   *)
(*                                                                         *)
(* Every operation works on two copies: the cache in memory (OutputCache)  *)
(* and the tables of the database.  The tables change when the database    *)
(* transaction of the operation commits; the cache changes at once, and    *)
(* when the operation fails it is cleared, in part, and loaded again.      *)
(***************************************************************************)
EXTENDS Integers, Sequences, FiniteSets, FiniteSetsExt, SequencesExt

CONSTANTS
  Outpoint,        \* the outputs with a key of this wallet
  Transaction,     \* transactions made by others
  Proposal,        \* transactions this wallet may make
  Pays,            \* the wallet's outputs each of them creates
  Spends,          \* the wallet's outputs a transaction of others spends
  Generation,      \* the transactions that are coinbases
  Sweep,           \* the proposals that spend everything there is
  SpendUnconfirmed,\* whether proposals may spend unconfirmed outputs
  Maturity,        \* maturation_target_
  Batch,           \* most blocks in one call of AddConfirmedTransactions
  Eager,           \* whether the subchain may process blocks of a new branch
                   \* before Accounts has handled the message about it
  \* bounds of the exploration
  MaxHeight, MaxReorg, MaxRestart

ASSUME ConstantsAssumption ==
  /\ IsFiniteSet(Outpoint) /\ IsFiniteSet(Transaction \cup Proposal)
  /\ Transaction \cap Proposal = {}
  /\ Pays \in [Transaction \cup Proposal -> SUBSET Outpoint]
  /\ \A t, u \in Transaction \cup Proposal : t # u => Pays[t] \cap Pays[u] = {}
  /\ Spends \in [Transaction -> SUBSET Outpoint]
  /\ Generation \subseteq Transaction
  /\ Sweep \subseteq Proposal
  /\ SpendUnconfirmed \in BOOLEAN /\ Eager \in BOOLEAN
  /\ Maturity \in Nat /\ Batch \in Nat \ {0}
  /\ {MaxHeight, MaxReorg, MaxRestart} \subseteq Nat

VARIABLES
  chain,      \* the best chain: the branch and the transactions of each block
  mem,        \* the cache: OutputCache
  disk,       \* the tables of the database
  row,        \* the table of proposals
  inputs,     \* what the stored transaction of a proposal spends
  cancelled,  \* Proposal::Imp::Data::cancelled_, lost at a restart
  scanned,    \* the last block the subchain has processed
  saved,      \* SubchainLastScanned in the database
  known,      \* Process::txid_cache_
  heard,      \* transactions the mempool delivered since the start
  sent,       \* proposals whose transaction was broadcast
  builder,    \* the proposal being built, with the inputs it has
  pending,    \* ProposalsPrivate::Data::pending_
  news,       \* reorgs Accounts has not handled: ancestor and tip
  rejected,   \* AddConfirmedTransactions has failed for blocks of the chain
  alive,      \* FALSE once the process has ended itself
  reorgs, restarts

vars == <<chain, mem, disk, row, inputs, cancelled, scanned, saved, known,
          heard, sent, builder, pending, news, rejected, alive, reorgs,
          restarts>>

jobs == <<scanned, saved, known, rejected>>
payer == <<sent, builder, pending, inputs>>
world == <<chain, heard, news, alive, reorgs, restarts>>

-----------------------------------------------------------------------------
(* Positions.  The hash of a block commits to its ancestors: a position is *)
(* the sequence of the branches of the blocks up to it.                    *)

Blank == <<-1>>
Height(q) == IF q = Blank THEN -1 ELSE Len(q)
Tip == [h \in DOMAIN chain |-> chain[h].branch]
InBestChain(q) == q # Blank /\ IsPrefix(q, Tip)
Upto(h) == SubSeq(Tip, 1, h)
CommonParent(q) == IF q = Blank THEN <<>> ELSE LongestCommonPrefix({q, Tip})

Tx == Transaction \cup Proposal
Inputs(t) == IF t \in Proposal THEN inputs[t] ELSE Spends[t]
Mined == UNION {chain[h].txs : h \in DOMAIN chain}
Created(txs) == UNION {Pays[t] : t \in txs}
Consumed(txs) == UNION {Inputs(t) : t \in txs}

New == {"UnconfirmedNew", "ConfirmedNew", "OrphanedNew", "Immature"}
Spent == {"UnconfirmedSpend", "ConfirmedSpend", "OrphanedSpend"}
Confirmed == {"ConfirmedNew", "ConfirmedSpend"}
TxoState == New \cup Spent

Empty == [state |-> [o \in Outpoint |-> "absent"],
          pos   |-> [o \in Outpoint |-> Blank],
          at    |-> {},
          gen   |-> {},
          twice |-> {},
          assoc |-> [o \in Outpoint |-> <<>>],
          made  |-> [p \in Proposal |-> {}],
          used  |-> [p \in Proposal |-> {}],
          tip   |-> Blank]

-----------------------------------------------------------------------------
(* A database transaction: the cache, the tables as the transaction sees   *)
(* them, the proposals, and whether an exception was thrown.               *)

Begin == [m |-> mem, d |-> disk, row |-> row, cancelled |-> cancelled,
          ok |-> TRUE]
Throw(w) == [w EXCEPT !.ok = FALSE]
Then(w, next(_)) == IF w.ok THEN next(w) ELSE w
ForEach(S, step(_, _), w) ==
  FoldSet(LAMBDA x, v : IF v.ok THEN step(x, v) ELSE v, w, S)

\* What is left of the maps Clear() forgets to clear is merged with the tables
\* by Populate(): rows of the multimap of generation outputs appear twice.  The
\* tables list one proposal for an output, which is appended if it is new.
Reload(m, d) ==
  [d EXCEPT !.gen = m.gen \cup d.gen,
            !.twice = m.twice \cup (m.gen \cap d.gen),
            !.assoc = [o \in Outpoint |->
                         IF ToSet(d.assoc[o]) \subseteq ToSet(m.assoc[o])
                         THEN m.assoc[o] ELSE m.assoc[o] \o d.assoc[o]],
            !.made = [p \in Proposal |-> m.made[p] \cup d.made[p]],
            !.used = [p \in Proposal |-> m.used[p] \cup d.used[p]]]

\* transaction_success, fail_transaction
Finish(w, stored) ==
  /\ cancelled' = w.cancelled
  /\ IF w.ok THEN mem' = w.m /\ disk' = w.d /\ row' = w.row
             ELSE mem' = Reload(w.m, disk) /\ disk' = disk /\ row' = stored

Effective(s, old, new) ==
  IF s \in {"UnconfirmedNew", "UnconfirmedSpend"} THEN old ELSE new

ChangePositionStale(w, o, old, new) ==  \* mutant: the index in the database is forgotten
  [w EXCEPT !.m.pos[o] = new, !.m.at = (@ \ {<<old, o>>}) \cup {<<new, o>>},
            !.d.pos[o] = new]

\* The row of the old position is deleted if the committed tables have it.
ChangePosition(w, o, old, new) ==
  [w EXCEPT !.m.pos[o] = new,
            !.m.at = (@ \ {<<old, o>>}) \cup {<<new, o>>},
            !.d.pos[o] = new,
            !.d.at = (@ \ (disk.at \cap {<<old, o>>})) \cup {<<new, o>>},
            !.ok = <<old, o>> \in disk.at => <<old, o>> \in w.d.at]

ChangeState(w, o, s, q) ==
  LET old == w.m.pos[o]
      new == Effective(s, old, q)
      v == [w EXCEPT !.m.state[o] = s, !.d.state[o] = s]
  IN IF w.m.state[o] = "absent" THEN Throw(w)
     ELSE IF new = old THEN v ELSE ChangePosition(v, o, old, new)

CreateStateCached(w, o, s, q, generation) ==  \* mutant: the output is not stored
  IF w.m.state[o] # "absent" THEN Throw(w)
  ELSE [w EXCEPT !.m.state[o] = s, !.m.pos[o] = Effective(s, Blank, q)]

CreateState(w, o, s, q, generation) ==
  LET p == Effective(s, Blank, q)
      entry == IF generation THEN {<<Height(p), o>>} ELSE {}
      Add(tab) == [tab EXCEPT !.state[o] = s, !.pos[o] = p,
                              !.at = @ \cup {<<p, o>>},
                              !.gen = @ \cup entry]
  IN IF w.m.state[o] # "absent" THEN Throw(w)
     ELSE [w EXCEPT !.m = Add([@ EXCEPT !.twice = w.m.twice \cup (w.m.gen \cap entry)]),
                    !.d = Add(@)]

-----------------------------------------------------------------------------
(* Proposals and the outputs associated with them.                         *)

Associate(w, o, p, allowed) ==
  IF w.m.assoc[o] # <<>> /\ ~allowed THEN Throw(w)
  ELSE [w EXCEPT !.m.assoc[o] = Append(@, p), !.d.assoc[o] = <<p>>]

ConsumeOutput(w, o, p) ==
  LET v == [w EXCEPT !.m.used[p] = @ \cup {o}, !.d.used[p] = @ \cup {o}]
  IN IF o \in w.m.used[p] THEN Throw(w)
     ELSE Associate(v, o, p,
            w.m.assoc[o] # <<>> => o \in w.m.made[Head(w.m.assoc[o])])

CreateOutput(w, o, p) ==
  LET v == [w EXCEPT !.m.made[p] = @ \cup {o}, !.d.made[p] = @ \cup {o}]
  IN IF o \in w.m.made[p] THEN Throw(w) ELSE Associate(v, o, p, FALSE)

Dissociate(w, o, p) ==
  IF w.m.assoc[o] = <<>> \/ w.d.assoc[o] = <<>> \/ Head(w.m.assoc[o]) # p
  THEN Throw(w)
  ELSE [w EXCEPT !.m.assoc[o] = <<>>, !.d.assoc[o] = <<>>]

ConfirmCreated(w, o, p) ==
  IF o \notin w.m.made[p] \/ o \notin w.d.made[p] THEN Throw(w)
  ELSE Then(Dissociate([w EXCEPT !.d.made[p] = @ \ {o}], o, p),
            LAMBDA v : [v EXCEPT !.m.made[p] = @ \ {o}])

ConfirmConsumed(w, o, p) ==
  IF o \notin w.m.used[p] \/ o \notin w.d.used[p] THEN Throw(w)
  ELSE Then(Dissociate([w EXCEPT !.d.used[p] = @ \ {o}], o, p),
            LAMBDA v : [v EXCEPT !.m.used[p] = @ \ {o}])

ConfirmProposal(w, o, p) ==
  IF o \in w.m.made[p] THEN ConfirmCreated(w, o, p) ELSE ConfirmConsumed(w, o, p)

\* Proposal::Imp::cancel: cancelled_ keeps the name although the transaction
\* that deletes the row may not commit.
CloseRow(w, p) ==
  IF p \in w.cancelled THEN w
  ELSE [w EXCEPT !.row[p] = "none", !.cancelled = @ \cup {p}]

FinishProposal(w, p) ==
  LET created == ForEach(w.m.made[p], LAMBDA o, v : ConfirmCreated(v, o, p), w)
  IN Then(created, LAMBDA u :
       ForEach(u.m.used[p], LAMBDA o, v : ConfirmConsumed(v, o, p), u))

-----------------------------------------------------------------------------
(* ParsedBlockMatches: what the transactions of a block, or one of the     *)
(* mempool, do to the outputs they create and consume.                     *)

TransitionOverwrites(from, to) ==  \* mutant: creation overrides the spend that came first
  IF from \in {"UnconfirmedSpend", "ConfirmedSpend"} /\ to = "ConfirmedNew" THEN "allowed"
  ELSE IF from = to THEN "unnecessary" ELSE "allowed"

TransitionStrict(from, to) ==  \* mutant: an expected spend is taken for an error
  IF from = "UnconfirmedSpend" /\ to = "ConfirmedSpend" THEN "disallowed"
  ELSE IF from = to THEN "unnecessary" ELSE "allowed"

\* check_transition
Transition(from, to) ==
  CASE to = "UnconfirmedNew" ->
         IF from \in {"UnconfirmedNew", "UnconfirmedSpend"}
         THEN "unnecessary" ELSE "disallowed"
    [] to = "ConfirmedNew" ->
         IF from = "UnconfirmedNew" THEN "allowed"
         ELSE IF from \in {"UnconfirmedSpend", "ConfirmedSpend", "ConfirmedNew"}
         THEN "unnecessary" ELSE "disallowed"
    [] to = "Immature" ->
         IF from = "OrphanedNew" THEN "allowed"
         ELSE IF from = "Immature" THEN "unnecessary" ELSE "disallowed"
    [] to \in {"UnconfirmedSpend", "ConfirmedSpend"} ->
         IF from = to THEN "unnecessary"
         ELSE IF from \in {"UnconfirmedNew", "ConfirmedNew", "Immature"}
                 \/ (from = "UnconfirmedSpend" /\ to = "ConfirmedSpend")
         THEN "allowed" ELSE "disallowed"

IsMature(best, mined) == best - mined >= Maturity

\* The state in which a transaction of the set creates an output.
CreatedState(m, txs, o, q, mempool) ==
  IF \E t \in txs \cap Generation : o \in Pays[t]
  THEN IF IsMature(Height(m.tip), Height(q)) THEN "ConfirmedNew" ELSE "Immature"
  ELSE IF mempool THEN "UnconfirmedNew" ELSE "ConfirmedNew"

Parse(m, txs, q, mempool) ==
  LET spend == IF mempool THEN "UnconfirmedSpend" ELSE "ConfirmedSpend"
      new == [o \in Created(txs) |-> CreatedState(m, txs, o, q, mempool)]
      To(o) == IF m.state[o] = "absent" THEN "allowed"
               ELSE Transition(m.state[o], new[o])
      creates == {o \in Created(txs) : To(o) = "allowed"}
      from == [o \in Consumed(txs) |->
                 IF o \in creates THEN new[o] ELSE m.state[o]]
      consumes == {o \in Consumed(txs) :
                     from[o] # "absent" /\ Transition(from[o], spend) = "allowed"}
  IN [ok |-> /\ \A o \in Created(txs) : To(o) # "disallowed"
             /\ \A o \in Consumed(txs) :
                  from[o] # "absent" /\ Transition(from[o], spend) # "disallowed",
      final |-> [o \in creates \cup consumes |->
                   IF o \in consumes THEN spend ELSE new[o]]]

\* Output::process: check_proposals, then create_state or change_state.
ProcessOutput(w, o, s, q, mempool) ==
  LET proposals == IF mempool THEN {} ELSE ToSet(w.m.assoc[o])
  IN Then(ForEach(proposals, LAMBDA p, v : ConfirmProposal(v, o, p), w),
       LAMBDA u : IF w.m.state[o] = "absent" THEN CreateState(u, o, s, q, TRUE)
                  ELSE ChangeState(u, o, s, q))

\* add_transactions_in_block
AddTransactions(w, q, txs, mempool) ==
  LET parsed == Parse(w.m, txs, q, mempool)
      touched == UNION {ToSet(w.m.assoc[o]) : o \in DOMAIN parsed.final}
      Finished(m) == {p \in touched : m.made[p] = {} /\ m.used[p] = {}}
  IN IF ~parsed.ok THEN Throw(w)
     ELSE Then(ForEach(DOMAIN parsed.final,
                 LAMBDA o, v : ProcessOutput(v, o, parsed.final[o], q, mempool), w),
            LAMBDA u : IF mempool THEN u
                       ELSE ForEach(Finished(u.m), LAMBDA p, v : CloseRow(v, p), u))

\* AddConfirmedTransactions for the blocks of heights a to b.
AddBlocks(w, a, b) ==
  LET upto[n \in 0..(b - a + 1)] ==
        IF n = 0 THEN w
        ELSE Then(upto[n - 1], LAMBDA v :
               AddTransactions(v, Upto(a + n - 1), chain[a + n - 1].txs, FALSE))
  IN upto[b - a + 1]

-----------------------------------------------------------------------------
(* Operations of Output other than those of the subchain.                  *)

\* AdvanceTo: w is left as it is when there is nothing to do.
Advances(m, q) ==
  /\ Height(q) > Height(m.tip)
  /\ Height(q) >= Maturity

AdvanceTo(w, q) ==
  LET first == IF Height(w.m.tip) > Maturity THEN Height(w.m.tip) - Maturity ELSE 0
      matured == {g[2] : g \in {g \in w.m.gen :
                    first <= g[1] /\ g[1] <= Height(q) - Maturity}}
      Mature(o, v) == IF v.m.state[o] = "ConfirmedNew" THEN v
                      ELSE ChangeState(v, o, "ConfirmedNew", q)
  IN IF ~Advances(w.m, q) THEN w
     ELSE Then(ForEach(matured, Mature, w),
               LAMBDA v : [v EXCEPT !.m.tip = q, !.d.tip = q])

UnconfirmNew(w, q) ==  \* mutant: spends are not rolled back
  ForEach({o \in Outpoint : <<q, o>> \in w.m.at /\ w.m.state[o] = "ConfirmedNew"},
          LAMBDA o, v : ChangeState(v, o, "UnconfirmedNew", q), w)

\* StartReorg
Unconfirm(w, q) ==
  LET Back(o, v) ==
        CASE v.m.state[o] \in {"ConfirmedNew", "OrphanedNew"} ->
               ChangeState(v, o, "UnconfirmedNew", q)
          [] v.m.state[o] \in {"ConfirmedSpend", "OrphanedSpend"} ->
               ChangeState(v, o, "UnconfirmedSpend", q)
          [] OTHER -> v
  IN ForEach({o \in Outpoint : <<q, o>> \in w.m.at}, Back, w)

\* DeleteGenerationAbove: of the rows at the good height only the first is
\* skipped; deleting a key removes all rows at that height, so that the
\* deletion for a second row at the same height finds none and throws.
DeleteGenerationAbove(w, good, skip) ==
  LET rows == (w.m.gen \X {1}) \cup (w.m.twice \X {2})
      above == {r \in rows : r[1][1] >= good} \ (skip \X {1})
      gone == {r[1] : r \in above}
      heights == {g[1] : g \in gone}
  IN IF /\ \A h \in heights : \E g \in w.d.gen : g[1] = h
        /\ \A r, s \in above : r[1][1] = s[1][1] => r = s
     THEN [w EXCEPT !.m.gen = {r[1] : r \in rows \ above},
                    !.m.twice = @ \ gone,
                    !.d.gen = {g \in @ : g[1] \notin heights}]
     ELSE Throw(w)

\* The row that std::next skips: one at the good height, if there is any.
Skipped(m, good) ==
  LET there == {g \in m.gen : g[1] = good}
  IN IF there = {} THEN {{}} ELSE {{g} : g \in there}

FinalizeReorg(w, q, skip) ==
  LET v == DeleteGenerationAbove(w, Height(q), skip)
      orphans == {g[2] : g \in {g \in w.m.gen \ skip : g[1] >= Height(q)}}
  IN IF w.m.tip = q THEN w
     ELSE Then(v, LAMBDA u :
            Then(ForEach(orphans, LAMBDA o, x : ChangeState(x, o, "OrphanedNew", q), u),
                 LAMBDA x : [x EXCEPT !.m.tip = q, !.d.tip = q]))

-----------------------------------------------------------------------------
(* The chain and the network.                                              *)

\* A set of transactions the rules of the chain allow in the next block.
Valid(before, txs) ==
  LET mined == UNION {before[h].txs : h \in DOMAIN before}
      all == mined \cup txs
      Ripe(o) == \A h \in DOMAIN before :
                   (\E t \in before[h].txs \cap Generation : o \in Pays[t])
                     => IsMature(Len(before) + 1, h)
  IN /\ txs \cap mined = {}
     /\ txs \cap Proposal \subseteq sent
     /\ Cardinality(txs \cap Generation) <= 1
     /\ Consumed(txs) \subseteq Created(all)
     /\ Consumed(txs) \cap Created(txs \cap Generation) = {}
     /\ \A o \in Consumed(txs) : Ripe(o)
     /\ \A t \in txs, u \in all : t # u => Inputs(t) \cap Inputs(u) = {}

Mine ==
  /\ Len(chain) < MaxHeight
  /\ \E txs \in SUBSET Tx :
       /\ Valid(chain, txs)
       /\ chain' = Append(chain, [branch |-> reorgs, txs |-> txs])
  /\ UNCHANGED <<mem, disk, row, cancelled, jobs, payer, heard, news, alive,
                 reorgs, restarts>>

\* A longer branch replaces the blocks above a common ancestor.  Accounts
\* receives the message about it later.
Fork ==
  /\ reorgs < MaxReorg
  /\ Len(chain) < MaxHeight
  /\ \E a \in 0..(Len(chain) - 1), txs \in SUBSET Tx :
       LET kept == SubSeq(chain, 1, a)
           Next(i) == [branch |-> reorgs + 1, txs |-> IF i = 1 THEN txs ELSE {}]
       IN /\ Valid(kept, txs)
          /\ chain' = kept \o [i \in 1..(Len(chain) + 1 - a) |-> Next(i)]
          /\ news' = Append(news, [ancestor |-> Upto(a), tip |-> Tip'])
  /\ reorgs' = reorgs + 1
  /\ UNCHANGED <<mem, disk, row, cancelled, jobs, payer, heard, alive, restarts>>

\* Process::process_mempool and DeterministicStateData::handle_mempool_match:
\* inputs and outputs are matched by their keys, also an input whose output is
\* not on record; the process ends when the transaction cannot be stored.
HandleMempool(t) ==
  LET w == AddTransactions(Begin, Blank, {t}, TRUE)
  IN /\ alive
     /\ t \in (Transaction \ Generation) \cup sent
     /\ t \notin heard \cup known
     /\ Inputs(t) \subseteq Created(Mined \cup heard \cup sent)
     /\ \A u \in (Mined \cup heard \cup sent) \ {t} : Inputs(t) \cap Inputs(u) = {}
     /\ Finish(w, row)
     /\ heard' = heard \cup {t}
     /\ alive' = w.ok
     /\ UNCHANGED <<chain, jobs, payer, news, reorgs, restarts>>

-----------------------------------------------------------------------------
(* The jobs of the subchain: the matches of up to Batch blocks above the   *)
(* last one are stored in one database transaction; when that fails the    *)
(* subchain is scanned again from the beginning.                           *)

ProcessBlocks(n) ==
  LET a == Len(scanned) + 1
      b == Len(scanned) + n
      w == AddBlocks(Begin, a, b)
  IN /\ alive
     /\ news = <<>> \/ (Eager /\ IsPrefix(scanned, Tip))
     /\ b <= Len(chain)
     /\ Finish(w, row)
     /\ IF w.ok
        THEN /\ scanned' = Upto(b)
             /\ known' = known \cup UNION {chain[h].txs : h \in a..b}
             /\ rejected' = rejected
        ELSE /\ scanned' = <<>>
             /\ known' = {}
             /\ rejected' = TRUE
     /\ saved' = scanned'
     /\ UNCHANGED <<payer, world>>

\* Accounts::process_block_header: a failure is ignored.  AdvanceTo asserts
\* that a position at the height of the wallet's is the wallet's.
ProcessHeader(h) ==
  /\ alive /\ news = <<>>
  /\ mem.tip # Upto(h) /\ h >= Height(mem.tip)
  /\ h = Height(mem.tip) \/ h >= Maturity
  /\ Finish(AdvanceTo(Begin, Upto(h)), row)
  /\ alive' = (h > Height(mem.tip))
  /\ UNCHANGED <<jobs, payer, chain, heard, news, reorgs, restarts>>

-----------------------------------------------------------------------------
(* A reorg: every subchain rolls back the blocks between its position in   *)
(* the database and the best chain, Accounts finalizes, the database       *)
(* transaction of both is destroyed without having been committed, and     *)
(* the wallet advances to the new tip in a transaction of its own.         *)

OrphanedTip(q) ==  \* mutant: only the last block is rolled back
  IF InBestChain(q) THEN {} ELSE {q}

\* CalculateReorg for the position in the database
Orphaned(q) ==
  IF InBestChain(q) THEN {}
  ELSE {SubSeq(q, 1, h) : h \in (Len(CommonParent(q)) + 1)..Len(q)}

HandleReorg(skip) ==
  LET ancestor == Head(news).ancestor
      back == ForEach(Orphaned(saved), LAMBDA q, v : Unconfirm(v, q), Begin)
      final == Then(back, LAMBDA v : FinalizeReorg(v, ancestor, skip))
      aborted == [final EXCEPT !.d = disk, !.row = row]
      w == Then(aborted, LAMBDA v : AdvanceTo(v, Head(news).tip))
      need == Orphaned(saved) # {}
  IN /\ alive /\ news # <<>>
     /\ skip \in Skipped(mem, Height(ancestor))
     /\ Finish(w, row)
     /\ alive' = w.ok
     /\ news' = Tail(news)
     /\ scanned' = IF need /\ Len(scanned) > Len(ancestor) THEN ancestor ELSE scanned
     /\ known' = IF need THEN {} ELSE known
     /\ UNCHANGED <<saved, rejected, payer, chain, heard, reorgs, restarts>>

\* Everything in memory is lost.  Scan starts at the position in the database,
\* Accounts looks for a reorg at the wallet's position, the stored proposals
\* are built or broadcast again.
Idle == [proposal |-> "none", in |-> {}, todo |-> {}, step |-> "idle"]

Restart ==
  LET stale == disk.tip # Blank /\ ~InBestChain(disk.tip)
  IN /\ restarts < MaxRestart
     /\ restarts' = restarts + 1
     /\ alive' = TRUE
     /\ mem' = disk
     /\ cancelled' = {}
     /\ known' = {} /\ heard' = {}
     /\ scanned' = IF Len(saved) >= Len(chain) /\ saved # Tip THEN Tip ELSE saved
     /\ news' = IF stale THEN <<[ancestor |-> CommonParent(disk.tip), tip |-> Tip]>>
                ELSE <<>>
     /\ builder' = Idle
     /\ pending' = {p \in Proposal : row[p] = "open"}
     /\ sent' = sent \cup {p \in Proposal : row[p] = "built"}
     /\ UNCHANGED <<chain, disk, row, inputs, saved, rejected, reorgs>>

-----------------------------------------------------------------------------
(* The proposals: ProposalsPrivate builds one at a time.                   *)

SendTo(p) ==
  /\ alive
  /\ row[p] = "none" /\ p \notin sent \cup cancelled \cup pending
  /\ inputs[p] = {}
  /\ row' = [row EXCEPT ![p] = "open"]
  /\ pending' = pending \cup {p}
  /\ UNCHANGED <<mem, disk, inputs, cancelled, jobs, sent, builder, world>>

Available(m) ==
  LET In(s) == {o \in Outpoint : m.state[o] = s}
  IN IF In("ConfirmedNew") # {} \/ ~SpendUnconfirmed THEN In("ConfirmedNew")
     ELSE In("UnconfirmedNew")

\* The inputs reserved earlier are used again.  A sweep lists what it spends.
\* A proposal without a row is never built: cleanup(), which forgets it, is
\* left out.
StartBuild(p) ==
  /\ alive /\ builder = Idle
  /\ p \in pending /\ row[p] # "none"
  /\ builder' = [proposal |-> p, in |-> mem.used[p], step |-> "build",
                 todo |-> IF p \in Sweep THEN Available(mem) ELSE {}]
  /\ UNCHANGED <<mem, disk, row, cancelled, jobs, inputs, sent, pending, world>>

Reserve(o) ==
  LET p == builder.proposal
      w == ConsumeOutput(Begin, o, p)
  IN /\ Finish(w, row)
     /\ builder' = [builder EXCEPT !.in = IF w.ok THEN @ \cup {o} ELSE @,
                                   !.todo = @ \ {o}]

ReserveAnyUnconfirmed ==  \* mutant: the policy is not asked
  /\ alive /\ builder.step = "build" /\ builder.proposal \notin Sweep
  /\ \E o \in Outpoint \ UNION {mem.used[p] : p \in Proposal} :
       mem.state[o] \in {"ConfirmedNew", "UnconfirmedNew"} /\ Reserve(o)
  /\ UNCHANGED <<jobs, inputs, sent, pending, world>>

\* Output::ReserveUTXO for a policy: the oldest output no proposal reserves,
\* unconfirmed ones only when no confirmed one is left.
ReserveAny ==
  LET reserved == UNION {mem.used[p] : p \in Proposal}
      In(s) == {o \in Outpoint : mem.state[o] = s} \ reserved
      free == IF In("ConfirmedNew") # {} THEN In("ConfirmedNew")
              ELSE IF SpendUnconfirmed THEN In("UnconfirmedNew") ELSE {}
  IN /\ alive /\ builder.step = "build" /\ builder.proposal \notin Sweep
     /\ \/ \E o \in free :
             /\ \A x \in free : Height(mem.pos[o]) <= Height(mem.pos[x])
             /\ Reserve(o)
        \/ /\ free = {}
           /\ Finish(Throw(Begin), row)
           /\ builder' = [builder EXCEPT !.step = "failed"]
     /\ UNCHANGED <<jobs, inputs, sent, pending, world>>

\* Output::ReserveUTXO for an output the sweep has listed.
ReserveListed ==
  /\ alive /\ builder.step = "build"
  /\ \E o \in builder.todo : Reserve(o)
  /\ UNCHANGED <<jobs, inputs, sent, pending, world>>

\* release_unused_inputs: Release throws when the output is reserved.
ReleaseUnused(w, p, in) ==
  IF in \subseteq w.m.used[p] /\ w.m.used[p] \subseteq in THEN w ELSE Throw(w)

ValidateInputs(w, in) ==
  IF \A o \in in : w.m.state[o] \in {"ConfirmedNew", "UnconfirmedNew"}
  THEN w ELSE Throw(w)

ValidateOutputs(w, out) ==
  IF \A o \in out : w.m.assoc[o] = <<>> /\ w.m.state[o] \in {"absent", "OrphanedNew"}
  THEN w ELSE Throw(w)

\* set_output_state
Issue(w, o, p) ==
  Then(CreateOutput(w, o, p), LAMBDA v :
    IF v.m.state[o] = "absent" THEN CreateState(v, o, "UnconfirmedNew", Blank, FALSE)
    ELSE ChangeState(v, o, "UnconfirmedNew", Blank))

Finalized(w, p, in) ==
  LET checked == Then(Then(ReleaseUnused(w, p, in), LAMBDA v : ValidateInputs(v, in)),
                      LAMBDA v : ValidateOutputs(v, Pays[p]))
      Spend(o, v) == ChangeState(v, o, "UnconfirmedSpend", Blank)
  IN Then(Then(checked, LAMBDA v : ForEach(in, Spend, v)),
          LAMBDA v : ForEach(Pays[p], LAMBDA o, x : Issue(x, o, p), v))

\* FinalizeProposal: the finished transaction is stored on its own first.
FinalizeProposal ==
  LET p == builder.proposal
      stored == [row EXCEPT ![p] = "built"]
      w == Finalized([Begin EXCEPT !.row = stored], p, builder.in)
  IN /\ alive /\ builder.step = "build"
     /\ builder.todo = {}
     /\ builder.in # {}
     /\ Finish(w, stored)
     /\ inputs' = [inputs EXCEPT ![p] = builder.in]
     /\ builder' = [builder EXCEPT !.step = IF w.ok THEN "built" ELSE "failed"]
     /\ UNCHANGED <<jobs, sent, pending, world>>

\* A sweep that found nothing to spend.
NothingToSweep ==
  /\ alive /\ builder.step = "build" /\ builder.proposal \in Sweep
  /\ builder.todo = {} /\ builder.in = {}
  /\ builder' = [builder EXCEPT !.step = "failed"]
  /\ UNCHANGED <<mem, disk, row, cancelled, jobs, inputs, sent, pending, world>>

Broadcast ==
  /\ alive /\ builder.step = "built"
  /\ \/ /\ sent' = sent \cup {builder.proposal}
        /\ pending' = pending \ {builder.proposal}
        /\ builder' = Idle
     \/ /\ builder' = [builder EXCEPT !.step = "failed"]
        /\ UNCHANGED <<sent, pending>>
  /\ UNCHANGED <<mem, disk, row, cancelled, jobs, inputs, world>>

CancelProposalRow(p) ==  \* mutant: what the proposal reserved is not released
  /\ alive
  /\ \/ builder.step = "failed" /\ p = builder.proposal
     \/ builder = Idle /\ p \in pending /\ row[p] # "none"
  /\ Finish(CloseRow(Begin, p), row)
  /\ pending' = pending \ {p}
  /\ builder' = Idle
  /\ UNCHANGED <<jobs, inputs, sent, world>>

\* CancelProposal after a permanent failure, or because the proposal expired.
CancelProposal(p) ==
  LET w == Then(FinishProposal(Begin, p), LAMBDA v : CloseRow(v, p))
  IN /\ alive
     /\ \/ builder.step = "failed" /\ p = builder.proposal
        \/ builder = Idle /\ p \in pending /\ row[p] # "none"
     /\ Finish(w, row)
     /\ pending' = pending \ {p}
     /\ builder' = Idle
     /\ UNCHANGED <<jobs, inputs, sent, world>>

-----------------------------------------------------------------------------
Init ==
  /\ chain = <<>> /\ news = <<>>
  /\ mem = Empty /\ disk = Empty
  /\ row = [p \in Proposal |-> "none"]
  /\ inputs = [p \in Proposal |-> {}]
  /\ cancelled = {} /\ pending = {} /\ builder = Idle
  /\ scanned = <<>> /\ saved = <<>> /\ known = {} /\ rejected = FALSE
  /\ heard = {} /\ sent = {}
  /\ alive = TRUE
  /\ reorgs = 0 /\ restarts = 0

Next ==
  \/ Mine \/ Fork \/ Restart
  \/ \E t \in Tx : HandleMempool(t)
  \/ \E n \in 1..Batch : ProcessBlocks(n)
  \/ \E h \in DOMAIN chain : ProcessHeader(h)
  \/ \E skip \in SUBSET mem.gen : HandleReorg(skip)
  \/ \E p \in Proposal : SendTo(p) \/ StartBuild(p) \/ CancelProposal(p)
  \/ ReserveAny \/ ReserveListed \/ FinalizeProposal \/ NothingToSweep \/ Broadcast

Spec == Init /\ [][Next]_vars

-----------------------------------------------------------------------------
(* Properties.                                                             *)

Table ==
  [state : [Outpoint -> TxoState \cup {"absent"}],
   pos   : [Outpoint -> Seq(Nat) \cup {Blank}],
   at    : SUBSET ((Seq(Nat) \cup {Blank}) \X Outpoint),
   gen   : SUBSET (Int \X Outpoint),
   twice : SUBSET (Int \X Outpoint),
   assoc : [Outpoint -> Seq(Proposal)],
   made  : [Proposal -> SUBSET Outpoint],
   used  : [Proposal -> SUBSET Outpoint],
   tip   : Seq(Nat) \cup {Blank}]

\* The state is well formed; the database keeps one proposal for each output,
\* and outputs in memory are on record in the database.
TypeOK ==
  /\ mem \in Table /\ disk \in Table
  /\ disk.twice = {}
  /\ \A o \in Outpoint : /\ Len(disk.assoc[o]) <= 1
                         /\ (mem.state[o] = "absent") = (disk.state[o] = "absent")
  /\ row \in [Proposal -> {"none", "open", "built"}]
  /\ scanned \in Seq(Nat) /\ saved \in Seq(Nat)
  /\ known \cup heard \subseteq Tx
  /\ sent \cup pending \cup cancelled \subseteq Proposal
  /\ builder.step \in {"idle", "build", "built", "failed"}
  /\ alive \in BOOLEAN /\ rejected \in BOOLEAN

CaughtUp == alive /\ ~rejected /\ news = <<>> /\ scanned = Tip
Claimed == UNION {Inputs(t) : t \in Tx}

\* Once every block of the best chain has been processed, none of them having
\* been refused, the cache holds what the chain says: outputs spent there are
\* spent, those unspent are available unless a transaction not yet in a block
\* claims them, and nothing else is confirmed; the proposals whose transaction
\* is in the chain are closed, their rows and their reservations gone.
\* Whatever order blocks, mempool, proposals and restarts came in.
LedgerCorrect ==
  CaughtUp =>
    /\ \A o \in Outpoint :
         CASE o \in Consumed(Mined) -> mem.state[o] = "ConfirmedSpend"
           [] o \in Created(Mined) \ Consumed(Mined) ->
                \/ mem.state[o] = "ConfirmedNew"
                \/ mem.state[o] = "UnconfirmedSpend" /\ o \in Claimed
                \/ mem.state[o] = "Immature" /\ o \in Created(Mined \cap Generation)
           [] OTHER -> mem.state[o] \notin Confirmed
    /\ \A p \in Proposal \cap Mined :
         row[p] = "none" /\ disk.made[p] = {} /\ disk.used[p] = {}

\* While no block was refused, an output that is confirmed, in memory, lies in
\* the best chain once Accounts has handled the reorgs: the rollback found
\* everything the blocks that were left had confirmed.
NothingConfirmedOffChain ==
  alive /\ ~rejected /\ news = <<>> =>
    \A o \in Outpoint :
      mem.state[o] \in Confirmed => InBestChain(mem.pos[o])

\* The index by position, from which StartReorg takes what it rolls back, has
\* every output at the position the output itself records, in memory and in
\* the database, also after a failed transaction and after a restart.
PositionIndexComplete ==
  \A tab \in {mem, disk} : \A o \in Outpoint :
    tab.state[o] # "absent" => <<tab.pos[o], o>> \in tab.at

\* No output is reserved by two proposals in the database, a sweep included
\* that listed its outputs earlier.
ReservedOnce ==
  \A p, q \in Proposal : p # q => disk.used[p] \cap disk.used[q] = {}

\* No two transactions this wallet has broadcast spend the same output.
NoDoubleSpend ==
  \A p, q \in sent : p # q => inputs[p] \cap inputs[q] = {}

\* The database lists for an output the proposal that made or reserved it.
AssociationsAgree ==
  \A o \in Outpoint :
    LET holders == {p \in Proposal : o \in disk.made[p] \cup disk.used[p]}
    IN ToSet(disk.assoc[o]) = holders

\* What the tables say of reservations fits together after every step: what a
\* proposal reserved no other one has, and the list that a confirmation or a
\* cancellation follows is the reverse of the sets of the proposals.
ReservationsCorrect ==
  /\ ReservedOnce
  /\ AssociationsAgree

\* A block of the best chain is never refused by the database.
BlocksAccepted == ~rejected

\* The process does not end itself.
AssertionsHold == alive

\* An output stays reserved for a proposal until its transaction is in a block
\* or the proposal is given up, and no longer than the proposal is stored: once
\* its row is gone nothing would ever release the output.
ReservedUntilConfirmed ==
  [][\A p \in Proposal :
       /\ ~(disk.used[p] \subseteq disk'.used[p]) => p \in Mined \/ p \notin pending'
       /\ disk'.made[p] \cup disk'.used[p] # {} => row'[p] # "none"]_vars

\* A coinbase is available exactly when the wallet's position is Maturity
\* blocks above it, whichever of the block and the headers came first.
CoinbaseMatures ==
  alive /\ ~rejected /\ news = <<>> /\ mem.tip # Blank =>
    \A h \in DOMAIN chain : \A o \in Created(chain[h].txs \cap Generation) :
      CASE mem.state[o] = "Immature" -> ~IsMature(Height(mem.tip), h)
        [] mem.state[o] = "ConfirmedNew" -> IsMature(Height(mem.tip), h)
        [] OTHER -> TRUE

\* A reorg orphans coinbases only: what a regular transaction paid becomes
\* unconfirmed and can be confirmed again.
OrphansAreCoinbases ==
  \A o \in Outpoint :
    mem.state[o] = "OrphanedNew" => o \in Created(Generation)

\* What was spent in a block becomes unspent only because of a reorg.
SpentStaysSpent ==
  [][\A o \in Outpoint :
       mem.state[o] = "ConfirmedSpend" /\ mem'.state[o] # "ConfirmedSpend"
         => news' # news \/ restarts' # restarts]_vars

\* The transaction of a proposal that was cancelled makes no claim: its inputs
\* are not held as spent and its outputs are not counted as incoming.
CancelledIsUndone ==
  \A p \in cancelled \ (sent \cup Mined) :
    /\ \A o \in inputs[p] : mem.state[o] # "UnconfirmedSpend"
    /\ \A o \in Pays[p] : mem.state[o] # "UnconfirmedNew"
=============================================================================
