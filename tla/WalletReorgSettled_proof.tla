----------------------- MODULE WalletReorgSettled_proof -----------------------
(***************************************************************************)
(* What holds of WalletReorg when no slave is created while the wallet     *)
(* runs (Late = {}): no assertion of the protocol ever fails, and all      *)
(* running slaves were rolled back for the same reorg.                     *)
(***************************************************************************)
EXTENDS WalletReorg_proof

\* The state of Accounts and the state of its master belong together.
ControlAgrees ==
  /\ mode = "normal" =>
       state = "normal" /\ step = "idle" /\ ~params /\ ~reorg_data
  /\ mode = "pre_reorg" =>
       /\ reorg_data
       /\ step \in {"idle", "perform"} => state = "pre_reorg"
       /\ step \in {"clear", "finish"} => state = "reorg"
       /\ params <=> step \in {"perform", "clear"}
  /\ mode \in {"pre_shutdown", "shutdown"} =>
       state = "shutdown" /\ step = "idle"
  /\ step # "idle" => top = "reorg_ready" /\ flush = <<>>

\* The sets of the master that change together.
MembersAgree ==
  /\ reorg_acks = actions
  /\ shutdown_slaves = reorg_slaves
  /\ \A s \in Slave : slave[s] \notin {"absent", "constructed"}

\* There is one reorg_ready message, sent when the last slave has answered,
\* and none outside a reorg.
ReadyOnce ==
  /\ pending["reorg_ready"] > 0 =>
       /\ pending["reorg_ready"] = 1
       /\ mode = "pre_reorg" /\ step = "idle" /\ top # "reorg_ready"
       /\ actions = reorg_slaves
  /\ top = "reorg_ready" =>
       /\ mode = "pre_reorg"
       /\ step \in {"idle", "perform"} => actions = reorg_slaves
  /\ pending["shutdown_ready"] > 0 \/ top = "shutdown_ready" =>
       state = "shutdown"

\* The reorg that a slave is asked to stop for is new to it.
ReorgIsNew ==
  \A s \in Slave :
    /\ last[s] <= reorg_counter
    /\ startup_reorg \/ (state = "pre_reorg" /\ s \notin actions)
         => last[s] < reorg_counter
    /\ startup_reorg => state \in {"normal", "shutdown"}

\* A slave is in state reorg for a reason: it has supplied its job, or the
\* jobs have run, or the message that releases it is the next it handles.
FrozenForAReason ==
  /\ \A s \in Slave : slave[s] = "reorg" =>
       \/ s \in actions
       \/ state = "reorg"
       \/ AtHead(s, "finish_reorg")
  /\ \A s \in Running : state = "reorg" =>
       slave[s] = "reorg" /\ inbox[s] = <<>>
  /\ \A s \in Slave : \A i \in 1..Len(inbox[s]) :
       inbox[s][i].work = "finish_reorg" => i = 1 /\ slave[s] = "reorg"

\* Messages about shutdown come after its beginning, and only one of them
\* asks a slave to prepare.
ShutdownOnce ==
  /\ \A s \in Slave : slave[s] = "pre_shutdown" => state = "shutdown"
  /\ \A s \in Slave : \A i \in 1..Len(inbox[s]) :
       /\ inbox[s][i].work \in {"prepare_shutdown", "shutdown"} =>
            state = "shutdown"
       /\ inbox[s][i].work = "prepare_shutdown" =>
            /\ s \notin shutdown_acks
            /\ slave[s] # "pre_shutdown"
            /\ \A j \in (i + 1)..Len(inbox[s]) :
                 inbox[s][j].work # "prepare_shutdown"

SettledInv ==
  /\ Inv
  /\ ControlAgrees
  /\ MembersAgree
  /\ ReadyOnce
  /\ ReorgIsNew
  /\ FrozenForAReason
  /\ ShutdownOnce

-----------------------------------------------------------------------------
\* The invariant holds in the initial states.
LEMMA SettledInit == ASSUME Late = {} PROVE Init => SettledInv
<1> SUFFICES ASSUME Init PROVE SettledInv
  OBVIOUS
<1>1. Inv
  BY InitInv
<1>2. ControlAgrees
  BY DEF Init, ControlAgrees
<1>3. MembersAgree
  BY DEF Init, MembersAgree
<1>4. ReadyOnce
  BY DEF Init, ReadyOnce, AccountsWork
<1>5. ReorgIsNew
  BY DEF Init, ReorgIsNew
<1>6. FrozenForAReason
  BY DEF Init, FrozenForAReason
<1>7. ShutdownOnce
  BY DEF Init, ShutdownOnce
<1> QED
  BY <1>1, <1>2, <1>3, <1>4, <1>5, <1>6, <1>7 DEF SettledInv

slaveSide == <<state, shutdown_slaves, reorg_slaves, actions, shutdown_acks,
               reorg_acks, reorg_counter, startup_reorg, slave, inbox, last>>

\* Most steps of Accounts disturb only what is said of Accounts.
LEMMA SlaveSideFrame ==
  ASSUME SettledInv, UNCHANGED slaveSide
  PROVE  MembersAgree' /\ ReorgIsNew' /\ FrozenForAReason' /\ ShutdownOnce'
<1> USE DEF SettledInv, slaveSide
<1>1. MembersAgree'
  BY DEF MembersAgree
<1>2. ReorgIsNew'
  BY DEF ReorgIsNew
<1>3. FrozenForAReason'
  BY DEF FrozenForAReason, AtHead, Running
<1>4. ShutdownOnce'
  BY DEF ShutdownOnce
<1> QED
  BY <1>1, <1>2, <1>3, <1>4

\* The kinds of messages of Accounts.
LEMMA WorkKinds ==
  {"reorg", "shutdown", "reorg_ready", "shutdown_ready", "statemachine"}
    = AccountsWork
BY DEF AccountsWork

\* A step that only takes a message from the mailbox, or adds one from
\* outside.
LEMMA MailboxSettled ==
  ASSUME SettledInv, Inv',
         \/ AnnounceReorg \/ RequestShutdown
         \/ \E m \in AccountsWork : Receive(m)
         \/ Work \/ (\E m \in Deferrable : Defer(m)) \/ Ignore
  PROVE  SettledInv'
<1> USE DEF SettledInv
<1>1. /\ UNCHANGED slaveSide
      /\ UNCHANGED <<mode, step, params, reorg_data>>
  BY DEF AnnounceReorg, RequestShutdown, Receive, Work, Defer, Ignore,
         slaveSide, master, slaves
<1>2. pending \in [AccountsWork -> Nat] /\ pending' \in [AccountsWork -> Nat]
      /\ flush \in Seq(Deferrable)
  BY DEF Inv, TypeOK
<1>3. ControlAgrees'
  <2>1. CASE AnnounceReorg \/ RequestShutdown
    BY <1>1, <2>1 DEF AnnounceReorg, RequestShutdown, ControlAgrees,
                        slaveSide
  <2>2. ASSUME NEW m \in AccountsWork, Receive(m) PROVE ControlAgrees'
    BY <1>1, <2>2 DEF Receive, ControlAgrees, slaveSide
  <2>3. CASE Work \/ (\E m \in Deferrable : Defer(m)) \/ Ignore
    BY <1>1, <2>3 DEF Work, Defer, Ignore, Handling, ControlAgrees, slaveSide
  <2> QED
    BY <2>1, <2>2, <2>3
<1>4. ReadyOnce'
  <2>1. CASE AnnounceReorg \/ RequestShutdown
    <3>1. /\ pending'["reorg_ready"] = pending["reorg_ready"]
          /\ pending'["shutdown_ready"] = pending["shutdown_ready"]
          /\ top' = top
      BY <1>2, <2>1, WorkKinds DEF AnnounceReorg, RequestShutdown, Push
    <3> QED
      BY <1>1, <3>1 DEF ReadyOnce, slaveSide
  <2>2. ASSUME NEW m \in AccountsWork, Receive(m) PROVE ReadyOnce'
    <3>1. /\ top = "none" /\ top' = m /\ pending[m] > 0
          /\ pending'[m] = pending[m] - 1
          /\ \A n \in AccountsWork \ {m} : pending'[n] = pending[n]
      BY <1>2, <2>2 DEF Receive
    <3>2. pending["reorg_ready"] \in Nat /\ pending["shutdown_ready"] \in Nat
      BY <1>2, WorkKinds
    <3> QED
      BY <1>1, <3>1, <3>2, WorkKinds DEF ReadyOnce, slaveSide
  <2>3. CASE Work \/ (\E m \in Deferrable : Defer(m)) \/ Ignore
    <3>1. pending' = pending /\ top' \in {top, "none"}
      BY <2>3 DEF Work, Defer, Ignore, Handled
    <3>2. ~(top = "reorg_ready" /\ top' = "none")
          /\ ~(top = "shutdown_ready" /\ top' = "none")
      BY <2>3 DEF Work, Defer, Ignore, Handled, Handling, Deferrable
    <3> QED
      BY <1>1, <3>1, <3>2 DEF ReadyOnce, slaveSide
  <2> QED
    BY <2>1, <2>2, <2>3
<1> QED
  BY <1>1, <1>3, <1>4, SlaveSideFrame

\* A broadcast does not change which message a slave handles next.
LEMMA BroadcastHead ==
  ASSUME inbox \in [Slave -> Seq(SlaveWork)],
         NEW S, NEW m \in SlaveWork, NEW s \in Slave, inbox[s] # <<>>
  PROVE  Broadcast(S, m)[s] # <<>> /\ Head(Broadcast(S, m)[s]) = Head(inbox[s])
<1>1. Broadcast(S, m)[s] \in {inbox[s], Append(inbox[s], m)}
  BY DEF Broadcast
<1>2. Append(inbox[s], m) # <<>> /\ Head(Append(inbox[s], m)) = Head(inbox[s])
  <2>1. inbox[s] \in Seq(SlaveWork) /\ Len(inbox[s]) \in Nat \ {0}
    BY TailElements
  <2>2. /\ Append(inbox[s], m) \in Seq(SlaveWork)
        /\ Len(Append(inbox[s], m)) = Len(inbox[s]) + 1
        /\ Append(inbox[s], m)[1] = inbox[s][1]
    BY <2>1, AppendProperties
  <2>3. Append(inbox[s], m) # <<>>
    BY <2>1, <2>2
  <2> QED
    BY <2>1, <2>2, <2>3
<1> QED
  BY <1>1, <1>2

\* When the message handled is not one that can be deferred, it came from the
\* pipeline itself.
LEMMA HandlingTop ==
  ASSUME TypeOK, NEW m, m \notin Deferrable, Handling(m)
  PROVE  flush = <<>> /\ top = m /\ step = "idle"
<1>1. flush = <<>>
  <2> SUFFICES ASSUME flush # <<>> PROVE FALSE
    OBVIOUS
  <2>1. Head(flush) \in Deferrable
    BY HeadTailProperties DEF TypeOK
  <2> QED
    BY <2>1 DEF Handling
<1> QED
  BY <1>1 DEF Handling

\* A reorg begins.
LEMMA ProcessReorgSettled ==
  ASSUME SettledInv, Inv', ProcessReorg PROVE SettledInv'
<1> USE DEF SettledInv
<1>1. /\ mode = "normal" /\ mode' = "pre_reorg" /\ step = "idle"
      /\ state = "normal" /\ state' = "pre_reorg"
      /\ ~params /\ reorg_data' = TRUE
      /\ actions = {} /\ reorg_acks' = {}
      /\ reorg_counter' = ReorgId /\ startup_reorg' = FALSE
      /\ top' \in {top, "none"}
      /\ UNCHANGED <<shutdown_slaves, reorg_slaves, actions, shutdown_acks,
                     params, step, slave, last>>
  BY DEF ProcessReorg, ProcessReorgCheck, Handling, Handled, ControlAgrees
<1>2. /\ pending \in [AccountsWork -> Nat] /\ reorg_counter \in Nat
      /\ inbox \in [Slave -> Seq(SlaveWork)]
      /\ inbox' \in [Slave -> Seq(SlaveWork)]
      /\ last \in [Slave -> Nat]
  BY DEF Inv, TypeOK
<1>3. \/ inbox' = inbox
      \/ inbox' = Broadcast(reorg_slaves, PrepareReorgMessage(ReorgId))
  BY DEF ProcessReorg
<1>4. /\ PrepareReorgMessage(ReorgId) \in SlaveWork
      /\ PrepareReorgMessage(ReorgId).work = "prepare_reorg"
  BY <1>2 DEF PrepareReorgMessage, SlaveWork, ReorgId
<1>5. ASSUME NEW s \in Slave, NEW i \in 1..Len(inbox'[s]),
             inbox'[s][i].work # "prepare_reorg"
      PROVE  i \in 1..Len(inbox[s]) /\ inbox'[s][i] = inbox[s][i]
  BY <1>2, <1>3, <1>4, <1>5, BroadcastElements
<1>6. ControlAgrees'
  BY <1>1 DEF ControlAgrees
<1>7. MembersAgree'
  BY <1>1 DEF MembersAgree
<1>8. ReadyOnce'
  <2>1. pending["reorg_ready"] = 0 /\ pending["shutdown_ready"] = 0
        /\ top \notin {"reorg_ready", "shutdown_ready"}
    BY <1>1, <1>2, WorkKinds DEF ReadyOnce
  <2>2. CASE Complete(reorg_slaves, {})
    <3>1. reorg_slaves = {}
      <4>1. IsFiniteSet(reorg_slaves) /\ Cardinality(reorg_slaves) = 0
        BY <2>2, SlaveAssumption, FS_Subset, FS_EmptySet
        DEF Complete, Inv, TypeOK
      <4> QED
        BY <4>1, FS_EmptySet
    <3>2. pending'["reorg_ready"] = 1 /\ pending'["shutdown_ready"] = 0
      BY <1>1, <1>2, <2>1, <2>2, WorkKinds DEF ProcessReorg, Push
    <3> QED
      BY <1>1, <2>1, <3>1, <3>2 DEF ReadyOnce
  <2>3. CASE ~Complete(reorg_slaves, {})
    BY <1>1, <2>1, <2>3 DEF ProcessReorg, ReadyOnce
  <2> QED
    BY <2>2, <2>3
<1>9. ReorgIsNew'
  BY <1>1, <1>2 DEF ReorgIsNew, ReorgId
<1>10. FrozenForAReason'
  <2>1. ASSUME NEW s \in Slave, slave[s] = "reorg"
        PROVE  inbox'[s] # <<>> /\ Head(inbox'[s]).work = "finish_reorg"
    <3>1. inbox[s] # <<>> /\ Head(inbox[s]).work = "finish_reorg"
      BY <1>1, <2>1 DEF FrozenForAReason, AtHead
    <3>2. inbox'[s] # <<>> /\ Head(inbox'[s]) = Head(inbox[s])
      BY <1>2, <1>3, <1>4, <3>1, BroadcastHead
    <3> QED
      BY <3>1, <3>2
  <2>2. ASSUME NEW s \in Slave, NEW i \in 1..Len(inbox'[s]),
               inbox'[s][i].work = "finish_reorg"
        PROVE  i = 1 /\ slave[s] = "reorg"
    BY <1>5, <2>2 DEF FrozenForAReason
  <2> QED
    BY <1>1, <2>1, <2>2 DEF FrozenForAReason, AtHead
<1>11. ShutdownOnce'
  BY <1>1, <1>5 DEF ShutdownOnce
<1> QED
  BY <1>6, <1>7, <1>8, <1>9, <1>10, <1>11

\* The master hands out its data, and takes them back.
LEMMA GetClearSettled ==
  ASSUME SettledInv, Inv', GetReorg \/ ClearReorg PROVE SettledInv'
<1> USE DEF SettledInv
<1>1. UNCHANGED slaveSide
  BY DEF GetReorg, ClearReorg, slaveSide, slaves
<1>2. ControlAgrees' /\ ReadyOnce'
  <2>1. CASE GetReorg
    <3>1. top = "reorg_ready" /\ flush = <<>> /\ step = "idle"
      BY <2>1, HandlingTop DEF GetReorg, Deferrable, Inv
    <3>2. pending["reorg_ready"] = 0
      BY <3>1, WorkKinds DEF ReadyOnce, Inv, TypeOK
    <3> QED
      BY <2>1, <3>1, <3>2
      DEF GetReorg, GetReorgCheck, mailbox, ControlAgrees, ReadyOnce
  <2>2. CASE ClearReorg
    BY <2>2 DEF ClearReorg, ClearReorgCheck, mailbox, ControlAgrees, ReadyOnce
  <2> QED
    BY <2>1, <2>2
<1> QED
  BY <1>1, <1>2, SlaveSideFrame

\* The jobs run.  Every slave has stopped, and its inbox is empty.
LEMMA PerformReorgSettled ==
  ASSUME SettledInv, Inv', PerformReorg PROVE SettledInv'
<1> USE DEF SettledInv
<1>1. /\ step = "perform" /\ state' = "reorg" /\ step' = "clear"
      /\ actions' = {} /\ reorg_acks' = {}
      /\ state = "pre_reorg" /\ params
      /\ UNCHANGED <<shutdown_slaves, reorg_slaves, shutdown_acks, params, mode,
                     pending, top, flush, reorg_data, reorg_counter,
                     startup_reorg, slave, inbox, last>>
  BY DEF PerformReorg, PerformReorgCheck, mailbox
<1>2. actions = Running
  BY AllSupplied DEF PerformReorg
<1>3. mode = "pre_reorg"
  BY <1>1 DEF ControlAgrees, Inv, TypeOK
<1>4. ControlAgrees' /\ MembersAgree'
  BY <1>1, <1>3 DEF ControlAgrees, MembersAgree
<1>5. ReadyOnce'
  BY <1>1 DEF ReadyOnce
<1>6. ReorgIsNew'
  BY <1>1 DEF ReorgIsNew
<1>7. FrozenForAReason'
  <2>1. ASSUME NEW s \in Running
        PROVE  slave[s] = "reorg" /\ inbox[s] = <<>>
    <3>1. s \in Slave /\ slave[s] = "reorg" /\ inbox[s] \in Seq(SlaveWork)
      BY <1>2 DEF Inv, SuppliersAreFrozen, TypeOK, Running
    <3>2. ASSUME NEW i \in 1..Len(inbox[s]) PROVE FALSE
      <4>1. inbox[s][i].work \in {"prepare_reorg", "finish_reorg",
                                  "prepare_shutdown", "shutdown"}
        <5>1. inbox[s][i] \in SlaveWork
          BY <3>1
        <5> QED
          BY <5>1 DEF SlaveWork
      <4>2. inbox[s][i].work \notin {"prepare_reorg", "finish_reorg"}
        BY <1>2, <3>1 DEF Inv, PrepareIsCurrent, FinishIsAfterRollback
      <4> QED
        BY <1>1, <3>1, <4>1, <4>2 DEF ShutdownOnce
    <3> QED
      BY <3>1, <3>2
  <2>2. Running' = Running
    BY <1>1 DEF Running
  <2> QED
    BY <1>1, <2>1, <2>2 DEF FrozenForAReason
<1>8. ShutdownOnce'
  BY <1>1, <1>3 DEF ShutdownOnce, ControlAgrees
<1> QED
  BY <1>4, <1>5, <1>6, <1>7, <1>8

\* The reorg is over.  The message that releases a slave is alone in its
\* inbox.
LEMMA CompleteReorgSettled ==
  ASSUME SettledInv, Inv', CompleteReorg PROVE SettledInv'
<1> USE DEF SettledInv
<1>1. /\ step = "finish" /\ state = "reorg" /\ ~params
      /\ state' = "normal" /\ mode' = "normal" /\ reorg_data' = FALSE
      /\ top' = "none" /\ step' = "idle" /\ actions = {}
      /\ inbox' = Broadcast(reorg_slaves, FinishReorgMessage)
      /\ UNCHANGED <<shutdown_slaves, reorg_slaves, actions, shutdown_acks,
                     reorg_acks, params, flush, cache, reorg_counter,
                     startup_reorg, slave, last>>
  BY DEF CompleteReorg, FinishReorgCheck
<1>2. inbox \in [Slave -> Seq(SlaveWork)]
      /\ pending \in [AccountsWork -> Nat]
      /\ pending' = [pending EXCEPT !["statemachine"] = 1]
  BY DEF Inv, TypeOK, CompleteReorg
<1>3. ControlAgrees' /\ MembersAgree'
  BY <1>1 DEF ControlAgrees, MembersAgree
<1>4. ReadyOnce'
  <2>1. pending'["reorg_ready"] = pending["reorg_ready"]
        /\ pending'["shutdown_ready"] = pending["shutdown_ready"]
    BY <1>2, WorkKinds
  <2> QED
    BY <1>1, <1>2, <2>1, WorkKinds DEF ReadyOnce
<1>5. ReorgIsNew'
  BY <1>1 DEF ReorgIsNew
<1>6. ASSUME NEW s \in Slave
      PROVE  \/ /\ s \in Running /\ slave[s] = "reorg"
                /\ inbox'[s] # <<>> /\ Len(inbox'[s]) = 1
                /\ Head(inbox'[s]).work = "finish_reorg"
                /\ inbox'[s][1].work = "finish_reorg"
             \/ s \notin Running /\ Len(inbox'[s]) = 0
  <2>1. CASE s \in Running
    <3>1. inbox[s] = <<>> /\ slave[s] = "reorg" /\ s \in reorg_slaves
      BY <1>1, <2>1 DEF FrozenForAReason, Inv, RegisteredAreRunning
    <3>2. inbox'[s] = Append(inbox[s], FinishReorgMessage)
      BY <1>1, <2>1, <3>1 DEF Broadcast
    <3>3. inbox'[s] = <<FinishReorgMessage>>
      BY <3>1, <3>2
    <3> QED
      BY <2>1, <3>1, <3>3 DEF FinishReorgMessage
  <2>2. CASE s \notin Running
    BY <1>1, <2>2 DEF Broadcast, Inv, RegisteredAreRunning
  <2> QED
    BY <2>1, <2>2
<1>7. FrozenForAReason'
  <2>1. ASSUME NEW s \in Slave, slave[s] = "reorg"
        PROVE  inbox'[s] # <<>> /\ Head(inbox'[s]).work = "finish_reorg"
    BY <1>6, <2>1 DEF Running
  <2>2. ASSUME NEW s \in Slave, NEW i \in 1..Len(inbox'[s])
        PROVE  i = 1 /\ slave[s] = "reorg"
    <3>1. Len(inbox'[s]) # 0
      OBVIOUS
    <3>2. Len(inbox'[s]) = 1 /\ slave[s] = "reorg"
      BY <1>6, <3>1
    <3> QED
      BY <3>2
  <2> QED
    BY <1>1, <2>1, <2>2 DEF FrozenForAReason, AtHead
<1>8. ShutdownOnce'
  <2>1. ASSUME NEW s \in Slave, NEW i \in 1..Len(inbox'[s])
        PROVE  inbox'[s][i].work = "finish_reorg"
    BY <1>6, <2>1
  <2> QED
    BY <1>1, <2>1 DEF ShutdownOnce
<1> QED
  BY <1>3, <1>4, <1>5, <1>7, <1>8

\* What a broadcast about shutdown does to the slaves.
LEMMA ShutdownBroadcastSettled ==
  ASSUME SettledInv, Inv', state' = "shutdown", state \in {"normal", "shutdown"},
         NEW S, NEW m \in {PrepareShutdownMessage, ShutdownMessage},
         inbox' = Broadcast(S, m),
         \/ state = "normal" /\ shutdown_acks' = {}
         \/ state = "shutdown" /\ shutdown_acks' = shutdown_acks
            /\ m = ShutdownMessage,
         UNCHANGED <<shutdown_slaves, reorg_slaves, actions, reorg_acks,
                     reorg_counter, startup_reorg, slave, last>>
  PROVE  MembersAgree' /\ ReorgIsNew' /\ FrozenForAReason' /\ ShutdownOnce'
<1> USE DEF SettledInv
<1>1. inbox \in [Slave -> Seq(SlaveWork)]
  BY DEF Inv, TypeOK
<1>2. /\ m \in SlaveWork /\ m.work \in {"prepare_shutdown", "shutdown"}
      /\ m = ShutdownMessage => m.work = "shutdown"
  BY MessageType DEF PrepareShutdownMessage, ShutdownMessage
<1>3. MembersAgree' /\ ReorgIsNew'
  BY DEF MembersAgree, ReorgIsNew
<1>4. FrozenForAReason'
  <2>1. ASSUME NEW s \in Slave, slave[s] = "reorg"
        PROVE  \/ s \in actions
               \/ inbox'[s] # <<>> /\ Head(inbox'[s]).work = "finish_reorg"
    <3>1. \/ s \in actions
          \/ inbox[s] # <<>> /\ Head(inbox[s]).work = "finish_reorg"
      BY <2>1 DEF FrozenForAReason, AtHead
    <3> QED
      BY <1>1, <1>2, <3>1, BroadcastHead
  <2>2. ASSUME NEW s \in Slave, NEW i \in 1..Len(inbox'[s]),
               inbox'[s][i].work = "finish_reorg"
        PROVE  i = 1 /\ slave[s] = "reorg"
    BY <1>1, <1>2, <2>2, BroadcastElements, SMTT(40) DEF FrozenForAReason
  <2> QED
    BY <2>1, <2>2 DEF FrozenForAReason, AtHead
<1>5. ShutdownOnce'
  <2>1. ASSUME NEW s \in Slave, NEW i \in 1..Len(inbox'[s]),
               inbox'[s][i].work = "prepare_shutdown"
        PROVE  /\ s \notin shutdown_acks' /\ slave[s] # "pre_shutdown"
               /\ \A j \in (i + 1)..Len(inbox'[s]) :
                    inbox'[s][j].work # "prepare_shutdown"
    <3>1. Len(inbox[s]) \in Nat /\ Len(inbox'[s]) \in Nat
          /\ Len(inbox'[s]) <= Len(inbox[s]) + 1
      BY <1>1, <1>2, BroadcastElements
    <3>2. CASE state = "normal"
      <4>1. \A j \in 1..Len(inbox[s]) : inbox[s][j].work # "prepare_shutdown"
        BY <3>2 DEF ShutdownOnce
      <4>2. i = Len(inbox[s]) + 1
        BY <1>1, <1>2, <2>1, <4>1, BroadcastElements
      <4> QED
        BY <3>1, <3>2, <4>2 DEF ShutdownOnce
    <3>3. CASE state = "shutdown"
      <4>1. \A j \in 1..Len(inbox'[s]) :
              inbox'[s][j].work = "prepare_shutdown" =>
                j \in 1..Len(inbox[s]) /\ inbox'[s][j] = inbox[s][j]
        BY <1>1, <1>2, <3>3, BroadcastElements
      <4>2. \A j \in (i + 1)..Len(inbox'[s]) : j \in 1..Len(inbox'[s])
        BY <3>1
      <4>3. /\ s \notin shutdown_acks /\ slave[s] # "pre_shutdown"
            /\ \A j \in (i + 1)..Len(inbox[s]) :
                 inbox[s][j].work # "prepare_shutdown"
        BY <2>1, <4>1 DEF ShutdownOnce
      <4> QED
        BY <3>1, <3>3, <4>1, <4>2, <4>3
    <3> QED
      BY <3>2, <3>3
  <2> QED
    BY <2>1 DEF ShutdownOnce
<1> QED
  BY <1>3, <1>4, <1>5

\* Accounts is told to shut down, again or at last.
LEMMA AccountsShutdownSettled ==
  ASSUME SettledInv, Inv', ProcessShutdown \/ CheckShutdown \/ Terminate
  PROVE  SettledInv'
<1> USE DEF SettledInv
<1>1. TypeOK /\ pending \in [AccountsWork -> Nat]
  BY DEF Inv, TypeOK
<1>2. /\ step = "idle"
      /\ UNCHANGED <<shutdown_slaves, reorg_slaves, actions, reorg_acks, params,
                     step, reorg_data, reorg_counter, startup_reorg, slave,
                     last>>
  BY DEF ProcessShutdown, CheckShutdown, Terminate, Handling, master
<1>3. /\ state' = "shutdown" /\ state \in {"normal", "shutdown"}
      /\ \/ state = "normal" /\ shutdown_acks' = {}
         \/ state = "shutdown" /\ shutdown_acks' = shutdown_acks
  <2>1. CASE ProcessShutdown
    BY <2>1 DEF ProcessShutdown, ProcessShutdownCheck
  <2>2. CASE CheckShutdown
    BY <2>2 DEF CheckShutdown, ControlAgrees, master
  <2>3. CASE Terminate
    <3>1. top = "shutdown_ready"
      BY <1>1, <2>3, HandlingTop DEF Terminate, Deferrable
    <3> QED
      BY <2>3, <3>1 DEF Terminate, ReadyOnce, master
  <2> QED
    BY <2>1, <2>2, <2>3
<1>4. \/ inbox' = Broadcast(shutdown_slaves, ShutdownMessage)
      \/ /\ state = "normal"
         /\ inbox' = Broadcast(shutdown_slaves, PrepareShutdownMessage)
  BY DEF ProcessShutdown, ProcessShutdownCheck, CheckShutdown, Terminate,
         ShutdownActor
<1>5. MembersAgree' /\ ReorgIsNew' /\ FrozenForAReason' /\ ShutdownOnce'
  BY <1>2, <1>3, <1>4, ShutdownBroadcastSettled
<1>6. \/ /\ mode' = "shutdown" /\ top' = "none"
         /\ pending' = [m \in AccountsWork |-> 0]
      \/ /\ mode' = "pre_shutdown" /\ top' \in {top, "none"}
         /\ pending' = pending
         /\ mode \in {"normal", "pre_shutdown"}
  BY DEF ProcessShutdown, CheckShutdown, Terminate, ShutdownActor, Handled
<1>7. ControlAgrees'
  BY <1>2, <1>3, <1>6 DEF ControlAgrees
<1>8. ReadyOnce'
  <2>1. CASE top' = "none" /\ pending' = [m \in AccountsWork |-> 0]
    BY <2>1, WorkKinds DEF ReadyOnce
  <2>2. CASE /\ mode' = "pre_shutdown" /\ top' \in {top, "none"}
             /\ pending' = pending /\ mode \in {"normal", "pre_shutdown"}
    <3>1. top # "reorg_ready" /\ ~(pending["reorg_ready"] > 0)
      BY <2>2 DEF ReadyOnce
    <3> QED
      BY <1>3, <2>2, <3>1 DEF ReadyOnce
  <2> QED
    BY <1>6, <2>1, <2>2
<1> QED
  BY <1>5, <1>7, <1>8

\* A slave stops for the reorg.  The last one to do so reports it.
LEMMA SlavePrepareReorgSettled ==
  ASSUME SettledInv, Inv', NEW s \in Slave, SlavePrepareReorg(s)
  PROVE  SettledInv'
<1> USE DEF SettledInv
<1>1. /\ inbox[s] # <<>> /\ Head(inbox[s]).work = "prepare_reorg"
      /\ slave[s] = "normal" /\ state = "pre_reorg"
      /\ s \notin actions /\ s \in reorg_slaves
      /\ inbox' = [inbox EXCEPT ![s] = Tail(@)]
      /\ last' = [last EXCEPT ![s] = Head(inbox[s]).id]
      /\ slave' = [slave EXCEPT ![s] = "reorg"]
      /\ actions' = actions \cup {s} /\ reorg_acks' = reorg_acks \cup {s}
      /\ pending' = IF Complete(reorg_slaves, reorg_acks \cup {s})
                    THEN Push("reorg_ready") ELSE pending
      /\ UNCHANGED <<state, shutdown_slaves, reorg_slaves, shutdown_acks,
                     params, mode, top, flush, cache, step, reorg_data,
                     reorg_counter, startup_reorg>>
  BY DEF SlavePrepareReorg, PrepareReorgCheck, AtHead
<1>2. /\ inbox \in [Slave -> Seq(SlaveWork)] /\ DOMAIN slave = Slave
      /\ last \in [Slave -> Nat] /\ reorg_counter \in Nat
      /\ pending \in [AccountsWork -> Nat]
      /\ actions \subseteq Slave /\ reorg_slaves \subseteq Slave
  BY DEF Inv, TypeOK
<1>3. /\ Len(inbox[s]) \in Nat \ {0} /\ Head(inbox[s]) = inbox[s][1]
      /\ Len(inbox'[s]) = Len(inbox[s]) - 1
      /\ \A i \in 1..Len(inbox'[s]) : inbox'[s][i] = inbox[s][i + 1]
  BY <1>1, <1>2, TailElements
<1>4. /\ slave'[s] = "reorg" /\ last'[s] = reorg_counter
      /\ \A t \in Slave \ {s} : /\ inbox'[t] = inbox[t] /\ last'[t] = last[t]
                              /\ slave'[t] = slave[t]
  BY <1>1, <1>2, <1>3 DEF Inv, PrepareIsCurrent
<1>5. mode = "pre_reorg" /\ step \in {"idle", "perform"}
  BY <1>1 DEF ControlAgrees, Inv, TypeOK
<1>6. ControlAgrees' /\ MembersAgree'
  BY <1>1, <1>4 DEF ControlAgrees, MembersAgree
<1>7. ReadyOnce'
  <2>1. actions # reorg_slaves
    BY <1>1
  <2>2. step = "idle" /\ top # "reorg_ready" /\ pending["reorg_ready"] = 0
    BY <1>2, <1>5, <2>1, WorkKinds DEF ReadyOnce, ControlAgrees
  <2>3. CASE Complete(reorg_slaves, reorg_acks \cup {s})
    <3>1. reorg_acks \cup {s} = reorg_slaves
      <4>1. reorg_acks \cup {s} \subseteq reorg_slaves
        BY <1>1 DEF MembersAgree, Inv, SuppliersAreFrozen, RegisteredAreRunning
      <4>2. IsFiniteSet(reorg_slaves)
        BY <1>2, SlaveAssumption, FS_Subset
      <4>3. Cardinality(reorg_slaves) # 0
        BY <1>1, <4>2, FS_EmptySet
      <4> QED
        BY <2>3, <4>1, <4>2, <4>3, FS_Subset DEF Complete
    <3>2. /\ pending'["reorg_ready"] = 1
          /\ pending'["shutdown_ready"] = pending["shutdown_ready"]
      BY <1>1, <1>2, <1>5, <2>2, <2>3, WorkKinds DEF Push
    <3> QED
      BY <1>1, <1>5, <2>2, <3>1, <3>2 DEF ReadyOnce, MembersAgree
  <2>4. CASE ~Complete(reorg_slaves, reorg_acks \cup {s})
    BY <1>1, <2>2, <2>4 DEF ReadyOnce
  <2> QED
    BY <2>3, <2>4
<1>8. ReorgIsNew'
  BY <1>1, <1>2, <1>4 DEF ReorgIsNew
<1>9. \A i \in 1..Len(inbox'[s]) :
        inbox'[s][i].work \notin {"prepare_shutdown", "shutdown",
                                 "finish_reorg"}
  <2> SUFFICES ASSUME NEW i \in 1..Len(inbox'[s])
               PROVE  inbox'[s][i].work \notin
                        {"prepare_shutdown", "shutdown", "finish_reorg"}
    OBVIOUS
  <2>1. i + 1 \in 2..Len(inbox[s]) /\ inbox'[s][i] = inbox[s][i + 1]
    BY <1>3
  <2> QED
    BY <1>1, <2>1 DEF FrozenForAReason, ShutdownOnce
<1>10. FrozenForAReason'
  BY <1>1, <1>4, <1>9 DEF FrozenForAReason, AtHead
<1>11. ShutdownOnce'
  BY <1>1, <1>4, <1>9 DEF ShutdownOnce
<1> QED
  BY <1>6, <1>7, <1>8, <1>10, <1>11

\* A slave goes on after the reorg.
LEMMA SlaveFinishReorgSettled ==
  ASSUME SettledInv, Inv', NEW s \in Slave, SlaveFinishReorg(s)
  PROVE  SettledInv'
<1> USE DEF SettledInv
<1>1. /\ inbox[s] # <<>> /\ Head(inbox[s]).work = "finish_reorg"
      /\ slave[s] = "reorg"
      /\ inbox' = [inbox EXCEPT ![s] = Tail(@)]
      /\ slave' = [slave EXCEPT ![s] = "normal"]
      /\ UNCHANGED <<state, shutdown_slaves, reorg_slaves, actions,
                     shutdown_acks, reorg_acks, params, mode, pending, top,
                     flush, step, reorg_data, reorg_counter, startup_reorg,
                     last>>
  BY DEF SlaveFinishReorg, FinishReorgSlaveCheck, AtHead, master, accounts,
         mailbox
<1>2. inbox \in [Slave -> Seq(SlaveWork)] /\ DOMAIN slave = Slave
  BY DEF Inv, TypeOK
<1>3. /\ Len(inbox[s]) \in Nat \ {0} /\ Head(inbox[s]) = inbox[s][1]
      /\ Len(inbox'[s]) = Len(inbox[s]) - 1
      /\ \A i \in 1..Len(inbox'[s]) : inbox'[s][i] = inbox[s][i + 1]
  BY <1>1, <1>2, TailElements
<1>4. /\ slave'[s] = "normal"
      /\ \A t \in Slave \ {s} : inbox'[t] = inbox[t] /\ slave'[t] = slave[t]
  BY <1>1, <1>2
<1>5. state # "reorg"
  BY <1>1 DEF FrozenForAReason, Running
<1>6. ControlAgrees' /\ MembersAgree' /\ ReadyOnce' /\ ReorgIsNew'
  BY <1>1, <1>4 DEF ControlAgrees, MembersAgree, ReadyOnce, ReorgIsNew
<1>7. ASSUME NEW i \in 1..Len(inbox'[s])
      PROVE  /\ inbox'[s][i].work # "finish_reorg"
             /\ i + 1 \in 1..Len(inbox[s]) /\ inbox'[s][i] = inbox[s][i + 1]
  BY <1>3 DEF FrozenForAReason
<1>8. FrozenForAReason'
  BY <1>1, <1>4, <1>5, <1>7 DEF FrozenForAReason, AtHead
<1>9. ShutdownOnce'
  <2>1. ASSUME NEW i \in 1..Len(inbox'[s])
        PROVE  /\ inbox'[s][i].work \in {"prepare_shutdown", "shutdown"} =>
                    state = "shutdown"
               /\ inbox'[s][i].work = "prepare_shutdown" =>
                    /\ s \notin shutdown_acks
                    /\ \A j \in (i + 1)..Len(inbox'[s]) :
                         inbox'[s][j].work # "prepare_shutdown"
    <3>1. ASSUME NEW j \in (i + 1)..Len(inbox'[s])
          PROVE  j + 1 \in (i + 2)..Len(inbox[s])
                 /\ inbox'[s][j] = inbox[s][j + 1]
      BY <1>3, SMTT(40)
    <3>2. /\ i + 1 \in 1..Len(inbox[s])
          /\ inbox'[s][i] = inbox[s][i + 1]
          /\ (i + 1) + 1 = i + 2
      BY <1>7
    <3>3. /\ inbox[s][i + 1].work \in {"prepare_shutdown", "shutdown"} =>
               state = "shutdown"
          /\ inbox[s][i + 1].work = "prepare_shutdown" =>
               /\ s \notin shutdown_acks
               /\ \A j \in (i + 2)..Len(inbox[s]) :
                    inbox[s][j].work # "prepare_shutdown"
      BY <3>2, SMTT(40) DEF ShutdownOnce
    <3> QED
      BY <3>1, <3>2, <3>3
  <2> QED
    BY <1>1, <1>4, <2>1 DEF ShutdownOnce
<1> QED
  BY <1>6, <1>8, <1>9

\* A slave gets ready to stop.  The last one to do so reports it.
LEMMA SlavePrepareShutdownSettled ==
  ASSUME SettledInv, Inv', NEW s \in Slave, SlavePrepareShutdown(s)
  PROVE  SettledInv'
<1> USE DEF SettledInv
<1>1. /\ inbox[s] # <<>> /\ Head(inbox[s]).work = "prepare_shutdown"
      /\ slave[s] = "normal" /\ state = "shutdown"
      /\ inbox' = [inbox EXCEPT ![s] = Tail(@)]
      /\ slave' = [slave EXCEPT ![s] = "pre_shutdown"]
      /\ shutdown_acks' = shutdown_acks \cup {s}
      /\ \/ pending' = pending
         \/ pending' = Push("shutdown_ready")
      /\ UNCHANGED <<state, shutdown_slaves, reorg_slaves, actions, reorg_acks,
                     params, mode, top, flush, step, reorg_data,
                     reorg_counter, startup_reorg, last>>
  BY DEF SlavePrepareShutdown, PrepareShutdownCheck, AtHead
<1>2. /\ inbox \in [Slave -> Seq(SlaveWork)] /\ DOMAIN slave = Slave
      /\ pending \in [AccountsWork -> Nat]
  BY DEF Inv, TypeOK
<1>3. /\ Len(inbox[s]) \in Nat \ {0} /\ Head(inbox[s]) = inbox[s][1]
      /\ Len(inbox'[s]) = Len(inbox[s]) - 1
      /\ \A i \in 1..Len(inbox'[s]) : inbox'[s][i] = inbox[s][i + 1]
  BY <1>1, <1>2, TailElements
<1>4. /\ slave'[s] = "pre_shutdown"
      /\ \A t \in Slave \ {s} : inbox'[t] = inbox[t] /\ slave'[t] = slave[t]
  BY <1>1, <1>2
<1>5. ControlAgrees' /\ MembersAgree' /\ ReorgIsNew'
  BY <1>1, <1>4 DEF ControlAgrees, MembersAgree, ReorgIsNew
<1>6. ReadyOnce'
  <2>1. pending'["reorg_ready"] = pending["reorg_ready"]
    BY <1>1, <1>2, WorkKinds DEF Push
  <2> QED
    BY <1>1, <2>1 DEF ReadyOnce
<1>7. ASSUME NEW i \in 1..Len(inbox'[s])
      PROVE  inbox'[s][i].work \notin {"prepare_shutdown", "finish_reorg"}
  <2>1. i + 1 \in 2..Len(inbox[s]) /\ inbox'[s][i] = inbox[s][i + 1]
    BY <1>3
  <2>2. inbox[s][i + 1].work # "prepare_shutdown"
    BY <1>1, <1>3, <2>1 DEF ShutdownOnce
  <2> QED
    BY <2>1, <2>2 DEF FrozenForAReason
<1>8. FrozenForAReason'
  BY <1>1, <1>4, <1>7 DEF FrozenForAReason, AtHead
<1>9. ShutdownOnce'
  BY <1>1, <1>4, <1>7 DEF ShutdownOnce
<1> QED
  BY <1>5, <1>6, <1>8, <1>9

\* A slave stops: this happens only after the shutdown has begun.
LEMMA SlaveShutdownSettled ==
  ASSUME SettledInv, Inv', NEW s \in Slave, SlaveShutdown(s)
  PROVE  SettledInv'
<1> USE DEF SettledInv
<1>1. /\ inbox[s] # <<>> /\ Head(inbox[s]).work = "shutdown"
      /\ inbox' = [inbox EXCEPT ![s] = <<>>]
      /\ slave' = [slave EXCEPT ![s] = "shutdown"]
      /\ shutdown_slaves' = shutdown_slaves \ {s}
      /\ actions' = actions \ {s}
      /\ shutdown_acks' = shutdown_acks \ {s}
      /\ reorg_acks' = reorg_acks \ {s}
      /\ reorg_slaves' = reorg_slaves \ {s}
      /\ UNCHANGED <<state, params, mode, pending, top, flush, step,
                     reorg_data, reorg_counter, startup_reorg, last>>
  BY DEF SlaveShutdown, Unregister, AtHead, accounts, mailbox
<1>2. inbox \in [Slave -> Seq(SlaveWork)] /\ DOMAIN slave = Slave
  BY DEF Inv, TypeOK
<1>3. state = "shutdown"
  <2>1. Len(inbox[s]) \in Nat \ {0} /\ Head(inbox[s]) = inbox[s][1]
    BY <1>1, <1>2, TailElements
  <2> QED
    BY <1>1, <2>1 DEF ShutdownOnce
<1>4. /\ slave'[s] = "shutdown" /\ inbox'[s] = <<>>
      /\ \A t \in Slave \ {s} : inbox'[t] = inbox[t] /\ slave'[t] = slave[t]
  BY <1>1, <1>2
<1>5. ControlAgrees' /\ MembersAgree' /\ ReorgIsNew'
  BY <1>1, <1>3, <1>4 DEF ControlAgrees, MembersAgree, ReorgIsNew
<1>6. ReadyOnce'
  BY <1>1, <1>3 DEF ReadyOnce, ControlAgrees
<1>7. FrozenForAReason'
  BY <1>1, <1>3, <1>4 DEF FrozenForAReason, AtHead
<1>8. ShutdownOnce'
  BY <1>1, <1>3, <1>4 DEF ShutdownOnce
<1> QED
  BY <1>5, <1>6, <1>7, <1>8

\* Every step keeps the invariant.
LEMMA SettledNext ==
  ASSUME Late = {} PROVE SettledInv /\ [Next]_vars => SettledInv'
<1> SUFFICES ASSUME SettledInv, [Next]_vars PROVE SettledInv'
  OBVIOUS
<1>0. Inv'
  BY NextInv DEF SettledInv
<1>1. ASSUME NEW s \in Slave, SlaveNext(s) PROVE SettledInv'
  BY <1>0, <1>1, SlavePrepareReorgSettled, SlaveFinishReorgSettled,
     SlavePrepareShutdownSettled, SlaveShutdownSettled
  DEF SlaveNext
<1>2. CASE UNCHANGED vars
  <2>1. UNCHANGED slaveSide
    BY <1>2 DEF vars, master, accounts, slaves, slaveSide
  <2>2. ControlAgrees' /\ ReadyOnce'
    BY <1>2
    DEF vars, master, accounts, mailbox, ControlAgrees, ReadyOnce, SettledInv
  <2> QED
    BY <1>0, <2>1, <2>2, SlaveSideFrame DEF SettledInv
<1>3. CASE AccountsNext
  BY <1>0, <1>3, MailboxSettled, ProcessReorgSettled, GetClearSettled,
     PerformReorgSettled, CompleteReorgSettled, AccountsShutdownSettled
  DEF AccountsNext
<1> QED
  BY <1>0, <1>1, <1>2, <1>3, MailboxSettled DEF Next

\* With a fixed population of slaves the invariant always holds.
THEOREM SettledInvariant == ASSUME Late = {} PROVE Spec => []SettledInv
BY SettledInit, SettledNext, PTL DEF Spec

-----------------------------------------------------------------------------
\* Whatever a handler checks before it acts is true when the handler runs.
LEMMA SettledNoAbort == SettledInv => NoAbort
<1> SUFFICES ASSUME SettledInv PROVE NoAbort
  OBVIOUS
<1> USE DEF SettledInv
<1>1. /\ TypeOK /\ inbox \in [Slave -> Seq(SlaveWork)]
      /\ slave \in [Slave -> {"absent", "constructed", "normal", "reorg",
                              "pre_shutdown", "shutdown"}]
  BY DEF Inv, TypeOK
<1>2. ASSUME NEW s \in Slave, NEW m, AtHead(s, m)
      PROVE  /\ 1 \in 1..Len(inbox[s]) /\ inbox[s][1].work = m
             /\ Head(inbox[s]) = inbox[s][1] /\ s \in Running
  BY <1>1, <1>2, TailElements DEF AtHead, Inv, RegisteredAreRunning
<1>3. FinishFindsReorg
  BY <1>2 DEF FinishFindsReorg, FinishReorgSlaveCheck, FrozenForAReason
<1>4. AllSlavesSupplied
  <2> SUFFICES ASSUME step = "perform" PROVE PerformReorgCheck
    BY DEF AllSlavesSupplied
  <2>1. top = "reorg_ready" /\ mode = "pre_reorg"
    BY DEF ControlAgrees, ReadyOnce
  <2> QED
    BY <2>1 DEF ControlAgrees, ReadyOnce, PerformReorgCheck
<1>5. mode = "normal" => ProcessReorgCheck /\ ProcessShutdownCheck
  BY DEF ControlAgrees, ProcessReorgCheck, ProcessShutdownCheck, Inv,
         SuppliersAreFrozen
<1>6. Handling("reorg_ready") => GetReorgCheck
  BY <1>1, HandlingTop
  DEF Deferrable, ReadyOnce, ControlAgrees, GetReorgCheck
<1>7. /\ step = "clear" => ClearReorgCheck
      /\ step = "finish" => FinishReorgCheck
  BY DEF ControlAgrees, ReadyOnce, MembersAgree, ClearReorgCheck,
         FinishReorgCheck, Inv, SuppliersAreFrozen
<1>8. ASSUME NEW s \in Slave, AtHead(s, "prepare_reorg")
      PROVE  PrepareReorgCheck(s)
  <2>1. /\ state = "pre_reorg" /\ Head(inbox[s]).id = reorg_counter
        /\ s \notin actions /\ s \in Running
    BY <1>2, <1>8 DEF Inv, PrepareIsCurrent
  <2>2. slave[s] = "normal"
    BY <1>1, <1>8, <2>1
    DEF FrozenForAReason, ShutdownOnce, AtHead, Running
  <2> QED
    BY <2>1, <2>2
    DEF PrepareReorgCheck, ReorgIsNew, MembersAgree, Inv,
        RegisteredAreRunning
<1>9. ASSUME NEW s \in Slave, AtHead(s, "prepare_shutdown")
      PROVE  PrepareShutdownCheck(s)
  <2>1. /\ state = "shutdown" /\ s \notin shutdown_acks
        /\ slave[s] # "pre_shutdown" /\ s \in Running
    BY <1>2, <1>9 DEF ShutdownOnce
  <2>2. slave[s] = "normal"
    BY <1>1, <1>9, <2>1
    DEF FrozenForAReason, AtHead, Running, Inv, SuppliersAreFrozen
  <2> QED
    BY <2>1, <2>2
    DEF PrepareShutdownCheck, MembersAgree, Inv, RegisteredAreRunning
<1> QED
  BY <1>3, <1>4, <1>5, <1>6, <1>7, <1>8, <1>9 DEF NoAbort

\* With a fixed population of slaves no assertion of the protocol fails.
THEOREM NoAbortCorrect == ASSUME Late = {} PROVE Spec => []NoAbort
BY SettledInvariant, SettledNoAbort, PTL

\* A step of a fixed population never takes the slaves apart.
LEMMA TogetherNext ==
  ASSUME Late = {}, Inv, RolledBackTogether, [Next]_vars
  PROVE  RolledBackTogether'
<1>1. CASE PerformReorg
  <2>1. actions = Running
    BY <1>1, AllSupplied DEF PerformReorg
  <2>2. Running' = Running
    BY <1>1 DEF PerformReorg, Running
  <2>3. \A s \in Running : rolled'[s] = reorg_counter
    BY <1>1, <2>1 DEF PerformReorg, Running
  <2> QED
    BY <2>2, <2>3 DEF RolledBackTogether
<1>2. CASE ~PerformReorg
  <2>1. rolled' = rolled
    BY <1>2, OnlyPerformReorg
  <2>2. Running' \subseteq Running
    <3>1. CASE UNCHANGED slave
      BY <3>1 DEF Running
    <3>2. ASSUME NEW s \in Slave, SlaveNext(s) PROVE Running' \subseteq Running
      <4>1. /\ inbox[s] # <<>>
            /\ \A t \in Slave \ {s} : slave'[t] = slave[t]
        BY <3>2
        DEF SlaveNext, SlavePrepareReorg, SlaveFinishReorg,
            SlavePrepareShutdown, SlaveShutdown, AtHead, Inv, TypeOK
      <4>2. s \in Running
        BY <4>1 DEF Inv, RegisteredAreRunning
      <4> QED
        BY <4>1, <4>2 DEF Running
    <3> QED
      BY <3>1, <3>2
      DEF Next, AccountsNext, vars, slaves, AnnounceReorg, RequestShutdown,
          Receive, Work, Defer, Ignore, ProcessReorg, GetReorg, PerformReorg,
          ClearReorg, CompleteReorg, ProcessShutdown, CheckShutdown,
          Terminate
  <2> QED
    BY <2>1, <2>2 DEF RolledBackTogether
<1> QED
  BY <1>1, <1>2

\* With a fixed population of slaves all of them are rolled back for the same
\* reorgs.
THEOREM TogetherCorrect == ASSUME Late = {} PROVE Spec => []RolledBackTogether
<1>1. Init => RolledBackTogether
  BY DEF Init, RolledBackTogether, Running
<1> QED
  BY <1>1, TogetherNext, Invariant, PTL DEF Spec

=============================================================================
