------------------------------ MODULE WalletReorg ------------------------------
(***************************************************************************)
(* The protocol with which the wallet of a blockchain node stops all of    *)
(* its actors, rolls their data back to the fork point of a chain          *)
(* reorganisation, and starts them again; and with which it shuts down.    *)
(*                                                                         *)
(* Accounts (wallet/Accounts.cpp) drives the protocol through a            *)
(* ReorgMaster (wallet/ReorgMaster.cpp), a record behind one mutex.  The   *)
(* other actors (an Account per nym, a SubchainStateData per subchain, the *)
(* five Jobs of a subchain) each hold a ReorgSlave and answer the messages *)
(* that the master pushes to their pipelines.                              *)
(*                                                                         *)
(* A critical section of the master's mutex is one action.  A pipeline is  *)
(* a FIFO queue per slave.  Accounts hears from several sockets whose      *)
(* relative order is unspecified: its mailbox counts the pending messages  *)
(* of each kind, the payload of a message being irrelevant here.           *)
(*                                                                         *)
(* Where the code ends the process because an assertion of the protocol    *)
(* fails (LogAbort, assert_true, an exception leaving a noexcept function) *)
(* the action has a guard, and NoAbort states that the guard holds         *)
(* whenever the handler runs.                                              *)
(***************************************************************************)
EXTENDS Naturals, Sequences, FiniteSets

CONSTANTS
  Slave,        \* every actor that ever holds a ReorgSlave
  Late,         \* the slaves that are created while the wallet is running
  Root,         \* stands for Accounts, the creator of the Account actors
  Parent,       \* the actor that creates a late slave
  MaxReorg,     \* bound: reorgs announced by the header oracle
  MaxShutdown   \* bound: shutdown messages (api and node endpoints)

ASSUME SlaveAssumption ==
  /\ IsFiniteSet(Slave)
  /\ Late \subseteq Slave
  /\ Root \notin Slave
  /\ Parent \in [Late -> (Slave \ Late) \cup {Root}]
  /\ MaxReorg \in Nat
  /\ MaxShutdown \in Nat

VARIABLES
  \* ReorgMasterPrivate::Data
  state, shutdown_slaves, reorg_slaves, actions, shutdown_acks, reorg_acks,
  params,
  \* Accounts::Imp and the Actor it derives from
  mode, pending, top, flush, cache, step, reorg_data, reorg_counter,
  startup_reorg,
  \* the slaves
  slave, inbox, last, rolled,
  \* how often the environment has spoken
  announced, stops

master == <<state, shutdown_slaves, reorg_slaves, actions, shutdown_acks,
            reorg_acks, params>>
mailbox == <<pending, top, flush, cache>>
accounts == <<mode, mailbox, step, reorg_data, reorg_counter, startup_reorg>>
slaves == <<slave, inbox, last, rolled>>
environment == <<announced, stops>>
vars == <<master, accounts, slaves, environment>>

(***************************************************************************)
(* Messages.  Only prepare_reorg carries data: the number of the reorg.    *)
(***************************************************************************)
AccountsWork ==
  {"reorg", "shutdown", "reorg_ready", "shutdown_ready", "statemachine"}
Deferrable == {"reorg", "shutdown"}

PrepareReorgMessage(n) == [work |-> "prepare_reorg", id |-> n]
FinishReorgMessage == [work |-> "finish_reorg", id |-> 0]
PrepareShutdownMessage == [work |-> "prepare_shutdown", id |-> 0]
ShutdownMessage == [work |-> "shutdown", id |-> 0]

SlaveWork ==
  [work : {"prepare_reorg", "finish_reorg", "prepare_shutdown", "shutdown"},
   id : Nat]

\* A slave whose do_startup has run and whose pipeline is open.  Before that
\* an actor drops what it receives, after that its pipeline is closed.
Running == {s \in Slave : slave[s] \in {"normal", "reorg", "pre_shutdown"}}

\* The inboxes after message m was pushed to the slaves in S.
Broadcast(S, m) ==
  [s \in Slave |-> IF s \in S \cap Running THEN Append(inbox[s], m)
                                           ELSE inbox[s]]

\* The mailbox of Accounts after message m was pushed, unless it is closed.
Push(m) ==
  [pending EXCEPT ![m] = IF mode = "shutdown" THEN @ ELSE @ + 1]

CompleteEarly(members, acks) ==  \* mutant: the first answer is enough
  members = {} \/ acks # {}

\* check_condition compares sizes, not sets.
Complete(members, acks) ==
  \/ Cardinality(members) = 0
  \/ Cardinality(acks) = Cardinality(members)

(***************************************************************************)
(* The wallet is running: every slave that is not late has registered.     *)
(* When the stored position is no longer on the best chain do_startup has  *)
(* numbered a first reorg and pushed its message.                          *)
(***************************************************************************)
Init ==
  /\ state = "normal"
  /\ shutdown_slaves = Slave \ Late
  /\ reorg_slaves = Slave \ Late
  /\ actions = {} /\ shutdown_acks = {} /\ reorg_acks = {}
  /\ params = FALSE
  /\ mode = "normal" /\ top = "none" /\ flush = <<>> /\ cache = <<>>
  /\ step = "idle" /\ reorg_data = FALSE
  /\ startup_reorg \in BOOLEAN
  /\ reorg_counter = IF startup_reorg THEN 1 ELSE 0
  /\ pending = [m \in AccountsWork |->
                  IF m = "reorg" /\ startup_reorg THEN 1 ELSE 0]
  /\ slave = [s \in Slave |-> IF s \in Late THEN "absent" ELSE "normal"]
  /\ inbox = [s \in Slave |-> <<>>]
  /\ last = [s \in Slave |-> 0]
  /\ rolled = [s \in Slave |-> 0]
  /\ announced = 0 /\ stops = 0

-----------------------------------------------------------------------------
(***************************************************************************)
(* The environment: the header oracle announces reorgs, the api and the    *)
(* node ask for shutdown.                                                  *)
(***************************************************************************)
AnnounceReorg ==
  /\ announced < MaxReorg
  /\ announced' = announced + 1
  /\ pending' = Push("reorg")
  /\ UNCHANGED <<master, mode, top, flush, cache, step, reorg_data,
                 reorg_counter, startup_reorg, slaves, stops>>

RequestShutdown ==
  /\ stops < MaxShutdown
  /\ stops' = stops + 1
  /\ pending' = Push("shutdown")
  /\ UNCHANGED <<master, mode, top, flush, cache, step, reorg_data,
                 reorg_counter, startup_reorg, slaves, announced>>

-----------------------------------------------------------------------------
(***************************************************************************)
(* Accounts.  A message taken from the pipeline first flushes the messages *)
(* deferred so far, each of which may be deferred again.                   *)
(***************************************************************************)
ReceiveAny(m) ==  \* mutant: a message that nobody has sent
  /\ mode # "shutdown" /\ top = "none"
  /\ pending' = [pending EXCEPT ![m] = @ - 1]
  /\ top' = m
  /\ flush' = cache
  /\ cache' = <<>>
  /\ UNCHANGED <<master, mode, step, reorg_data, reorg_counter, startup_reorg,
                 slaves, environment>>

Receive(m) ==
  /\ mode # "shutdown" /\ top = "none"
  /\ pending[m] > 0
  /\ pending' = [pending EXCEPT ![m] = @ - 1]
  /\ top' = m
  /\ flush' = cache
  /\ cache' = <<>>
  /\ UNCHANGED <<master, mode, step, reorg_data, reorg_counter, startup_reorg,
                 slaves, environment>>

\* The message that handle_message is working on.
Handling(m) ==
  /\ step = "idle"
  /\ m = IF flush # <<>> THEN Head(flush) ELSE top

Handled ==
  IF flush # <<>> THEN flush' = Tail(flush) /\ top' = top
                  ELSE flush' = flush /\ top' = "none"

\* shutdown_actor: do_shutdown, ReorgMaster::Stop, and the pipeline closes.
ShutdownActor ==
  /\ mode' = "shutdown"
  /\ inbox' = Broadcast(shutdown_slaves, ShutdownMessage)
  /\ pending' = [m \in AccountsWork |-> 0]
  /\ top' = "none" /\ flush' = <<>> /\ cache' = <<>>

\* The state machine of Accounts has no work; its message only flushes.
Work ==
  /\ Handling("statemachine")
  /\ Handled
  /\ UNCHANGED <<master, mode, pending, cache, step, reorg_data,
                 reorg_counter, startup_reorg, slaves, environment>>

Defer(m) ==
  /\ Handling(m) /\ mode = "pre_reorg"
  /\ Handled
  /\ cache' = Append(cache, m)
  /\ UNCHANGED <<master, mode, pending, step, reorg_data, reorg_counter,
                 startup_reorg, slaves, environment>>

Ignore ==
  /\ Handling("reorg") /\ mode = "pre_shutdown"
  /\ Handled
  /\ UNCHANGED <<master, mode, pending, cache, step, reorg_data,
                 reorg_counter, startup_reorg, slaves, environment>>

\* process_reorg, transition_state_pre_reorg and PrepareReorg of the master.
ProcessReorgCheck == ~reorg_data /\ state = "normal" /\ actions = {}

ReorgId == IF startup_reorg THEN reorg_counter ELSE reorg_counter + 1

ProcessReorg ==
  /\ Handling("reorg") /\ mode = "normal"
  /\ ProcessReorgCheck
  /\ Handled
  /\ reorg_data' = TRUE
  /\ mode' = "pre_reorg"
  /\ reorg_counter' = ReorgId
  /\ startup_reorg' = FALSE
  /\ state' = "pre_reorg"
  /\ reorg_acks' = {}
  /\ IF Complete(reorg_slaves, {})
     THEN pending' = Push("reorg_ready") /\ inbox' = inbox
     ELSE pending' = pending
          /\ inbox' = Broadcast(reorg_slaves, PrepareReorgMessage(ReorgId))
  /\ UNCHANGED <<shutdown_slaves, reorg_slaves, actions, shutdown_acks,
                 params, cache, step, slave, last, rolled, environment>>

\* do_reorg holds the mutex four times: GetReorg, PerformReorg (after which
\* the jobs run), ClearReorg and FinishReorg.
GetReorgCheck ==
  /\ mode = "pre_reorg" /\ reorg_data
  /\ state = "pre_reorg" /\ ~params

GetReorg ==
  /\ Handling("reorg_ready")
  /\ GetReorgCheck
  /\ params' = TRUE
  /\ step' = "perform"
  /\ UNCHANGED <<state, shutdown_slaves, reorg_slaves, actions,
                 shutdown_acks, reorg_acks, mode, mailbox, reorg_data,
                 reorg_counter, startup_reorg, slaves, environment>>

PerformReorgCheckAny ==  \* mutant: no count
  state = "pre_reorg" /\ params

PerformReorgCheckAcks ==  \* mutant: counts against the wrong set
  /\ state = "pre_reorg" /\ params
  /\ Cardinality(actions) = Cardinality(reorg_acks)

PerformReorgCheck ==
  /\ state = "pre_reorg" /\ params
  /\ Cardinality(actions) = Cardinality(reorg_slaves)

PerformReorgCleared ==  \* mutant: the jobs are cleared before they are run
  /\ step = "perform"
  /\ PerformReorgCheck
  /\ state' = "reorg"
  /\ reorg_acks' = {}
  /\ actions' = {}
  /\ rolled' = [s \in Slave |-> IF s \in actions' THEN reorg_counter
                                                  ELSE rolled[s]]
  /\ step' = "clear"
  /\ UNCHANGED <<shutdown_slaves, reorg_slaves, shutdown_acks, params, mode,
                 mailbox, reorg_data, reorg_counter, startup_reorg, slave,
                 inbox, last, environment>>

PerformReorgFirst ==  \* mutant: the loop over the jobs ends early
  /\ step = "perform"
  /\ PerformReorgCheck
  /\ state' = "reorg"
  /\ reorg_acks' = {}
  /\ actions' = {}
  /\ \E s \in actions : rolled' = [rolled EXCEPT ![s] = reorg_counter]
  /\ step' = "clear"
  /\ UNCHANGED <<shutdown_slaves, reorg_slaves, shutdown_acks, params, mode,
                 mailbox, reorg_data, reorg_counter, startup_reorg, slave,
                 inbox, last, environment>>

PerformReorgKept ==  \* mutant: the acknowledgements are not reset
  /\ step = "perform"
  /\ PerformReorgCheck
  /\ state' = "reorg"
  /\ rolled' = [s \in Slave |-> IF s \in actions THEN reorg_counter
                                                 ELSE rolled[s]]
  /\ step' = "clear"
  /\ UNCHANGED <<shutdown_slaves, reorg_slaves, actions, shutdown_acks,
                 reorg_acks, params, mode, mailbox, reorg_data,
                 reorg_counter, startup_reorg, slave, inbox, last,
                 environment>>

PerformReorg ==
  /\ step = "perform"
  /\ PerformReorgCheck
  /\ state' = "reorg"
  /\ reorg_acks' = {}
  /\ actions' = {}
  /\ rolled' = [s \in Slave |-> IF s \in actions THEN reorg_counter
                                                 ELSE rolled[s]]
  /\ step' = "clear"
  /\ UNCHANGED <<shutdown_slaves, reorg_slaves, shutdown_acks, params, mode,
                 mailbox, reorg_data, reorg_counter, startup_reorg, slave,
                 inbox, last, environment>>

ClearReorgCheck == state = "reorg" /\ params

ClearReorg ==
  /\ step = "clear"
  /\ ClearReorgCheck
  /\ params' = FALSE
  /\ step' = "finish"
  /\ UNCHANGED <<state, shutdown_slaves, reorg_slaves, actions,
                 shutdown_acks, reorg_acks, mode, mailbox, reorg_data,
                 reorg_counter, startup_reorg, slaves, environment>>

\* FinishReorg, then transition_state_normal, whose trigger() queues one
\* state machine message unless one is queued already.
FinishReorgCheck ==
  /\ state = "reorg" /\ ~params /\ reorg_acks = {} /\ actions = {}
  /\ reorg_data

CompleteReorgSilent ==  \* mutant: no trigger() after the reorg
  /\ step = "finish"
  /\ FinishReorgCheck
  /\ state' = "normal"
  /\ inbox' = Broadcast(reorg_slaves, FinishReorgMessage)
  /\ mode' = "normal"
  /\ reorg_data' = FALSE
  /\ top' = "none"
  /\ step' = "idle"
  /\ UNCHANGED <<shutdown_slaves, reorg_slaves, actions, shutdown_acks,
                 reorg_acks, params, pending, flush, cache, reorg_counter,
                 startup_reorg, slave, last, rolled, environment>>

CompleteReorg ==
  /\ step = "finish"
  /\ FinishReorgCheck
  /\ state' = "normal"
  /\ inbox' = Broadcast(reorg_slaves, FinishReorgMessage)
  /\ mode' = "normal"
  /\ reorg_data' = FALSE
  /\ pending' = [pending EXCEPT !["statemachine"] = 1]
  /\ top' = "none"
  /\ step' = "idle"
  /\ UNCHANGED <<shutdown_slaves, reorg_slaves, actions, shutdown_acks,
                 reorg_acks, params, flush, cache, reorg_counter,
                 startup_reorg, slave, last, rolled, environment>>

\* transition_state_pre_shutdown and PrepareShutdown of the master.
ProcessShutdownCheck == state = "normal"

ProcessShutdown ==
  /\ Handling("shutdown") /\ mode = "normal"
  /\ ProcessShutdownCheck
  /\ state' = "shutdown"
  /\ shutdown_acks' = {}
  /\ IF Complete(shutdown_slaves, {})
     THEN ShutdownActor
     ELSE /\ Handled
          /\ mode' = "pre_shutdown"
          /\ inbox' = Broadcast(shutdown_slaves, PrepareShutdownMessage)
          /\ UNCHANGED <<pending, cache>>
  /\ UNCHANGED <<shutdown_slaves, reorg_slaves, actions, reorg_acks, params,
                 step, reorg_data, reorg_counter, startup_reorg, slave, last,
                 rolled, environment>>

\* A repeated shutdown message.  CheckShutdown tells the slaves to stop at
\* once when some of them have not acknowledged.
CheckShutdown ==
  /\ Handling("shutdown") /\ mode = "pre_shutdown"
  /\ IF Complete(shutdown_slaves, shutdown_acks)
     THEN ShutdownActor
     ELSE /\ Handled
          /\ inbox' = Broadcast(shutdown_slaves, ShutdownMessage)
          /\ UNCHANGED <<mode, pending, cache>>
  /\ UNCHANGED <<master, step, reorg_data, reorg_counter, startup_reorg,
                 slave, last, rolled, environment>>

Terminate ==
  /\ Handling("shutdown_ready")
  /\ ShutdownActor
  /\ UNCHANGED <<master, step, reorg_data, reorg_counter, startup_reorg,
                 slave, last, rolled, environment>>

-----------------------------------------------------------------------------
(***************************************************************************)
(* The slaves.  Account, SubchainStateData and Job handle these messages   *)
(* alike.                                                                  *)
(***************************************************************************)
AtHead(s, m) == inbox[s] # <<>> /\ Head(inbox[s]).work = m

\* transition_state_reorg and AcknowledgePrepareReorg.  reorgs_ is the set of
\* the numbers seen; they arrive in increasing order, so the greatest one
\* stands for the set, which makes the check stricter than the code's.
PrepareReorgCheck(s) ==
  /\ slave[s] = "normal"
  /\ last[s] < Head(inbox[s]).id
  /\ s \notin actions
  /\ state = "pre_reorg"
  /\ s \in reorg_slaves
  /\ s \notin reorg_acks

SlavePrepareReorg(s) ==
  /\ AtHead(s, "prepare_reorg")
  /\ PrepareReorgCheck(s)
  /\ inbox' = [inbox EXCEPT ![s] = Tail(@)]
  /\ last' = [last EXCEPT ![s] = Head(inbox[s]).id]
  /\ slave' = [slave EXCEPT ![s] = "reorg"]
  /\ actions' = actions \cup {s}
  /\ reorg_acks' = reorg_acks \cup {s}
  /\ pending' = IF Complete(reorg_slaves, reorg_acks \cup {s})
                THEN Push("reorg_ready") ELSE pending
  /\ UNCHANGED <<state, shutdown_slaves, reorg_slaves, shutdown_acks, params,
                 mode, top, flush, cache, step, reorg_data, reorg_counter,
                 startup_reorg, rolled, environment>>

FinishReorgSlaveCheck(s) == slave[s] = "reorg"

SlaveFinishReorg(s) ==
  /\ AtHead(s, "finish_reorg")
  /\ FinishReorgSlaveCheck(s)
  /\ inbox' = [inbox EXCEPT ![s] = Tail(@)]
  /\ slave' = [slave EXCEPT ![s] = "normal"]
  /\ UNCHANGED <<master, accounts, last, rolled, environment>>

\* transition_state_pre_shutdown and AcknowledgeShutdown.
PrepareShutdownCheck(s) ==
  /\ slave[s] = "normal"
  /\ state = "shutdown"
  /\ s \in shutdown_slaves
  /\ s \notin shutdown_acks

SlavePrepareShutdown(s) ==
  /\ AtHead(s, "prepare_shutdown")
  /\ PrepareShutdownCheck(s)
  /\ inbox' = [inbox EXCEPT ![s] = Tail(@)]
  /\ slave' = [slave EXCEPT ![s] = "pre_shutdown"]
  /\ shutdown_acks' = shutdown_acks \cup {s}
  /\ pending' = IF Complete(shutdown_slaves, shutdown_acks \cup {s})
                THEN Push("shutdown_ready") ELSE pending
  /\ UNCHANGED <<state, shutdown_slaves, reorg_slaves, actions, reorg_acks,
                 params, mode, top, flush, cache, step, reorg_data,
                 reorg_counter, startup_reorg, last, rolled, environment>>

\* ReorgSlave::Stop.  The master forgets the slave, and does not look whether
\* it was the one the others were waiting for.
Unregister(s) ==
  /\ shutdown_slaves' = shutdown_slaves \ {s}
  /\ actions' = actions \ {s}
  /\ shutdown_acks' = shutdown_acks \ {s}
  /\ reorg_acks' = reorg_acks \ {s}
  /\ reorg_slaves' = reorg_slaves \ {s}

\* The termination message of the Actor, in any state: do_shutdown.
SlaveShutdown(s) ==
  /\ AtHead(s, "shutdown")
  /\ Unregister(s)
  /\ slave' = [slave EXCEPT ![s] = "shutdown"]
  /\ inbox' = [inbox EXCEPT ![s] = <<>>]
  /\ UNCHANGED <<state, params, accounts, last, rolled, environment>>

\* The constructor of a late slave calls GetSlave on the thread of its
\* parent: Accounts for a new nym, an Account for a new subaccount.  Both
\* defer these messages during a reorg and ignore them when shutting down.
GetSlave(s) ==
  /\ slave[s] = "absent"
  /\ IF Parent[s] = Root
     THEN mode = "normal" /\ top = "none" /\ cache = <<>>
     ELSE slave[Parent[s]] = "normal"
  /\ slave' = [slave EXCEPT ![s] = "constructed"]
  /\ shutdown_slaves' = shutdown_slaves \cup {s}
  /\ UNCHANGED <<state, reorg_slaves, actions, shutdown_acks, reorg_acks,
                 params, accounts, inbox, last, rolled, environment>>

\* do_startup calls ReorgSlave::Start, which registers, and unregisters again
\* if the master is shutting down.  Any other state of it is not looked at.
Start(s) ==
  /\ slave[s] = "constructed"
  /\ IF state = "shutdown"
     THEN /\ Unregister(s)
          /\ slave' = [slave EXCEPT ![s] = "shutdown"]
     ELSE /\ reorg_slaves' = reorg_slaves \cup {s}
          /\ slave' = [slave EXCEPT ![s] = "normal"]
          /\ UNCHANGED <<shutdown_slaves, actions, shutdown_acks, reorg_acks>>
  /\ UNCHANGED <<state, params, accounts, inbox, last, rolled, environment>>

-----------------------------------------------------------------------------
AccountsNext ==
  \/ \E m \in AccountsWork : Receive(m)
  \/ Work
  \/ \E m \in Deferrable : Defer(m)
  \/ Ignore
  \/ ProcessReorg \/ GetReorg \/ PerformReorg \/ ClearReorg \/ CompleteReorg
  \/ ProcessShutdown \/ CheckShutdown \/ Terminate

SlaveNext(s) ==
  \/ SlavePrepareReorg(s) \/ SlaveFinishReorg(s)
  \/ SlavePrepareShutdown(s) \/ SlaveShutdown(s)

LateNext(s) == GetSlave(s) \/ Start(s)

Next ==
  \/ AnnounceReorg \/ RequestShutdown
  \/ AccountsNext
  \/ \E s \in Slave : SlaveNext(s)
  \/ \E s \in Late : LateNext(s)

Spec == Init /\ [][Next]_vars

\* Every actor runs on a thread that keeps emptying its pipeline.
FairSpec ==
  /\ Spec
  /\ WF_vars(AccountsNext)
  /\ \A s \in Slave : WF_vars(SlaveNext(s))

-----------------------------------------------------------------------------
(***************************************************************************)
(* Properties.                                                             *)
(***************************************************************************)
TypeOK ==
  /\ state \in {"normal", "pre_reorg", "reorg", "shutdown"}
  /\ shutdown_slaves \subseteq Slave
  /\ reorg_slaves \subseteq Slave
  /\ actions \subseteq Slave
  /\ shutdown_acks \subseteq Slave
  /\ reorg_acks \subseteq Slave
  /\ params \in BOOLEAN
  /\ mode \in {"normal", "pre_reorg", "pre_shutdown", "shutdown"}
  /\ pending \in [AccountsWork -> Nat]
  /\ top \in AccountsWork \cup {"none"}
  /\ flush \in Seq(Deferrable)
  /\ cache \in Seq(Deferrable)
  /\ step \in {"idle", "perform", "clear", "finish"}
  /\ reorg_data \in BOOLEAN
  /\ reorg_counter \in Nat
  /\ startup_reorg \in BOOLEAN
  /\ slave \in [Slave -> {"absent", "constructed", "normal", "reorg",
                          "pre_shutdown", "shutdown"}]
  /\ inbox \in [Slave -> Seq(SlaveWork)]
  /\ last \in [Slave -> Nat]
  /\ rolled \in [Slave -> Nat]
  /\ announced \in 0..MaxReorg
  /\ stops \in 0..MaxShutdown

\* A finish_reorg message finds its slave in state reorg: the branch of
\* state_normal and state_pre_shutdown that ends the process is dead.
FinishFindsReorg ==
  \A s \in Slave : AtHead(s, "finish_reorg") => FinishReorgSlaveCheck(s)

\* When the jobs are collected every registered slave has supplied one: the
\* exception in PerformReorg, which is noexcept, is never thrown.
AllSlavesSupplied == step = "perform" => PerformReorgCheck

\* No assertion of the protocol fails: whenever a handler of Accounts or of a
\* slave is about to run, everything it checks before it acts is true.
NoAbort ==
  /\ FinishFindsReorg
  /\ AllSlavesSupplied
  /\ Handling("reorg") /\ mode = "normal" => ProcessReorgCheck
  /\ Handling("shutdown") /\ mode = "normal" => ProcessShutdownCheck
  /\ Handling("reorg_ready") => GetReorgCheck
  /\ step = "clear" => ClearReorgCheck
  /\ step = "finish" => FinishReorgCheck
  /\ \A s \in Slave :
       /\ AtHead(s, "prepare_reorg") => PrepareReorgCheck(s)
       /\ AtHead(s, "prepare_shutdown") => PrepareShutdownCheck(s)

\* While a slave handles wallet messages (state normal) its data have been
\* rolled back for every reorg it was asked to stop for.
WorksOnRolledBackData ==
  \A s \in Slave : slave[s] = "normal" => rolled[s] = last[s]

\* The data of two slaves are never rolled back for different reorgs.
RolledBackTogether ==
  \A s, t \in Running : rolled[s] = rolled[t]

\* Jobs run only while every slave that is registered waits in state reorg
\* for the reorg that is performed (action property).
RollbackFindsAllFrozen ==
  [][rolled' # rolled =>
       \A s \in reorg_slaves : slave[s] = "reorg" /\ last[s] = reorg_counter]_vars

\* The states of a slave in the terms of ReorgBarrier.
PhaseOf(st) ==
  CASE st \in {"absent", "constructed"} -> "outside"
    [] st = "normal" -> "working"
    [] st = "reorg" -> "frozen"
    [] st \in {"pre_shutdown", "shutdown"} -> "gone"

Phase == [s \in Slave |-> PhaseOf(slave[s])]

\* The protocol implements the barrier: rollbacks happen only while all
\* registered slaves are stopped for the same reorg.
Barrier == INSTANCE ReorgBarrier WITH
  Worker <- Slave, phase <- Phase, joined <- last

ImplementsBarrier == Barrier!Spec

\* A reorg that Accounts has begun is completed, and the slaves that stopped
\* for it go on.
ReorgCompletes ==
  /\ mode = "pre_reorg" ~> mode # "pre_reorg"
  /\ \A s \in Slave : slave[s] = "reorg" ~> slave[s] # "reorg"

\* A shutdown message is obeyed, also when it arrives in the middle of a
\* reorg and is deferred: Accounts and every slave stop.
ShutdownCompletes ==
  pending["shutdown"] > 0
    ~> mode = "shutdown" /\ \A s \in Slave : slave[s] = "shutdown"

=============================================================================
