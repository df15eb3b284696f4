-------------------------- MODULE WalletReorg_proof --------------------------
(***************************************************************************)
(* Theorems about WalletReorg, for every finite set of slaves, whichever   *)
(* of them are late, and without a bound on the number of reorgs.          *)
(***************************************************************************)
EXTENDS WalletReorg, FiniteSetTheorems, SequenceTheorems, TLAPS

-----------------------------------------------------------------------------
(***************************************************************************)
(* The operators the actions are built from.                               *)
(***************************************************************************)

\* Whatever is pushed to slaves, every inbox stays a sequence of messages.
LEMMA BroadcastType ==
  ASSUME inbox \in [Slave -> Seq(SlaveWork)],
         NEW S, NEW m \in SlaveWork
  PROVE  Broadcast(S, m) \in [Slave -> Seq(SlaveWork)]
BY DEF Broadcast

\* A push changes nothing but a count in the mailbox of Accounts.
LEMMA PushType ==
  ASSUME pending \in [AccountsWork -> Nat], NEW m \in AccountsWork
  PROVE  Push(m) \in [AccountsWork -> Nat]
BY DEF Push

\* The messages that the master sends are messages of the protocol.
LEMMA MessageType ==
  /\ \A n \in Nat : PrepareReorgMessage(n) \in SlaveWork
  /\ FinishReorgMessage \in SlaveWork
  /\ PrepareShutdownMessage \in SlaveWork
  /\ ShutdownMessage \in SlaveWork
BY DEF PrepareReorgMessage, FinishReorgMessage, PrepareShutdownMessage,
       ShutdownMessage, SlaveWork

-----------------------------------------------------------------------------
(***************************************************************************)
(* Type correctness.                                                       *)
(***************************************************************************)

\* The initial values have their types.
LEMMA InitType == Init => TypeOK
<1> SUFFICES ASSUME Init PROVE TypeOK
  OBVIOUS
<1>1. /\ flush \in Seq(Deferrable) /\ cache \in Seq(Deferrable)
      /\ inbox \in [Slave -> Seq(SlaveWork)]
  BY DEF Init
<1>2. pending \in [AccountsWork -> Nat] /\ reorg_counter \in Nat
  BY DEF Init
<1>3. /\ slave \in [Slave -> {"absent", "constructed", "normal", "reorg",
                              "pre_shutdown", "shutdown"}]
      /\ last \in [Slave -> Nat] /\ rolled \in [Slave -> Nat]
  BY DEF Init
<1>4. /\ state = "normal" /\ mode = "normal" /\ step = "idle"
      /\ top = "none"
      /\ shutdown_slaves = Slave \ Late /\ reorg_slaves = Slave \ Late
      /\ actions = {} /\ shutdown_acks = {} /\ reorg_acks = {}
  BY DEF Init
<1>5. announced \in 0..MaxReorg /\ stops \in 0..MaxShutdown
  BY SlaveAssumption DEF Init
<1>6. params = FALSE /\ reorg_data = FALSE /\ startup_reorg \in BOOLEAN
  BY DEF Init
<1> QED
  BY <1>1, <1>2, <1>3, <1>4, <1>5, <1>6, SlaveAssumption DEF TypeOK

\* Every step keeps the types.
LEMMA NextType == TypeOK /\ [Next]_vars => TypeOK'
<1> SUFFICES ASSUME TypeOK, [Next]_vars PROVE TypeOK'
  OBVIOUS
<1> USE SlaveAssumption, MessageType DEF TypeOK
<1> "reorg" \in AccountsWork /\ "shutdown" \in AccountsWork
    /\ "reorg_ready" \in AccountsWork /\ "shutdown_ready" \in AccountsWork
    /\ "statemachine" \in AccountsWork
  BY DEF AccountsWork
<1>0. Handled => flush' \in Seq(Deferrable)
                 /\ top' \in AccountsWork \cup {"none"}
  <2>1. CASE flush # <<>>
    <3>1. Tail(flush) \in Seq(Deferrable)
      BY <2>1, HeadTailProperties
    <3> QED
      BY <2>1, <3>1 DEF Handled
  <2>2. CASE flush = <<>>
    BY <2>2 DEF Handled
  <2> QED
    BY <2>1, <2>2
<1>1. CASE AnnounceReorg
  <2>1. pending' \in [AccountsWork -> Nat]
    BY <1>1, PushType DEF AnnounceReorg
  <2> QED
    BY <1>1, <2>1, SMTT(40) DEF AnnounceReorg, master, slaves
<1>2. CASE RequestShutdown
  <2>1. pending' \in [AccountsWork -> Nat]
    BY <1>2, PushType DEF RequestShutdown
  <2> QED
    BY <1>2, <2>1, SMTT(40) DEF RequestShutdown, master, slaves
<1>3. ASSUME NEW m \in AccountsWork, Receive(m) PROVE TypeOK'
  BY <1>3 DEF Receive, master, slaves, environment
<1>4. CASE Work
  BY <1>0, <1>4 DEF Work, master, slaves, environment
<1>5. ASSUME NEW m \in Deferrable, Defer(m) PROVE TypeOK'
  BY <1>0, <1>5 DEF Defer, master, slaves, environment
<1>6. CASE Ignore
  BY <1>0, <1>6 DEF Ignore, master, slaves, environment
<1>7. CASE ProcessReorg
  <2>1. ReorgId \in Nat
    BY DEF ReorgId
  <2>2. pending' \in [AccountsWork -> Nat]
    BY <1>7, PushType DEF ProcessReorg
  <2>3. inbox' \in [Slave -> Seq(SlaveWork)]
    BY <1>7, <2>1, BroadcastType DEF ProcessReorg
  <2> QED
    BY <1>0, <1>7, <2>1, <2>2, <2>3 DEF ProcessReorg, environment
<1>8. CASE GetReorg
  BY <1>8 DEF GetReorg, mailbox, slaves, environment
<1>9. CASE PerformReorg
  BY <1>9 DEF PerformReorg, mailbox, environment
<1>10. CASE ClearReorg
  BY <1>10 DEF ClearReorg, mailbox, slaves, environment
<1>11. CASE CompleteReorg
  <2>1. inbox' \in [Slave -> Seq(SlaveWork)]
    BY <1>11, BroadcastType DEF CompleteReorg
  <2> QED
    BY <1>11, <2>1 DEF CompleteReorg, environment
<1>12. ShutdownActor =>
         /\ inbox' \in [Slave -> Seq(SlaveWork)]
         /\ pending' \in [AccountsWork -> Nat]
         /\ mode' = "shutdown" /\ top' = "none"
         /\ flush' = <<>> /\ cache' = <<>>
  BY BroadcastType DEF ShutdownActor
<1>13. CASE ProcessShutdown
  <2>1. inbox' \in [Slave -> Seq(SlaveWork)]
    BY <1>13, <1>12, BroadcastType DEF ProcessShutdown
  <2> QED
    <3>1. CASE Complete(shutdown_slaves, {})
      BY <1>13, <1>12, <2>1, <3>1, SMTT(40) DEF ProcessShutdown, environment
    <3>2. CASE ~Complete(shutdown_slaves, {})
      BY <1>0, <1>13, <2>1, <3>2 DEF ProcessShutdown, environment
    <3> QED
      BY <3>1, <3>2
<1>14. CASE CheckShutdown
  <2>1. inbox' \in [Slave -> Seq(SlaveWork)]
    BY <1>14, <1>12, BroadcastType DEF CheckShutdown
  <2> QED
    <3>1. CASE Complete(shutdown_slaves, shutdown_acks)
      BY <1>14, <1>12, <2>1, <3>1, SMTT(40) DEF CheckShutdown, master, environment
    <3>2. CASE ~Complete(shutdown_slaves, shutdown_acks)
      BY <1>0, <1>14, <2>1, <3>2 DEF CheckShutdown, master, environment
    <3> QED
      BY <3>1, <3>2
<1>15. CASE Terminate
  BY <1>15, <1>12, SMTT(40) DEF Terminate, master, environment
<1>16. ASSUME NEW s \in Slave, SlavePrepareReorg(s) PROVE TypeOK'
  <2>1. Head(inbox[s]) \in SlaveWork /\ Tail(inbox[s]) \in Seq(SlaveWork)
    BY <1>16 DEF SlavePrepareReorg, AtHead
  <2>2. Head(inbox[s]).id \in Nat
    BY <2>1 DEF SlaveWork
  <2>3. pending' \in [AccountsWork -> Nat]
    BY <1>16, PushType DEF SlavePrepareReorg
  <2>4. /\ UNCHANGED <<state, shutdown_slaves, reorg_slaves, shutdown_acks,
                       params, mode, top, flush, cache, step, reorg_data,
                       reorg_counter, startup_reorg, rolled>>
        /\ UNCHANGED <<announced, stops>>
    BY <1>16 DEF SlavePrepareReorg, environment
  <2>5. inbox' \in [Slave -> Seq(SlaveWork)]
    BY <1>16, <2>1 DEF SlavePrepareReorg
  <2>6. slave' \in [Slave -> {"absent", "constructed", "normal", "reorg",
                              "pre_shutdown", "shutdown"}]
    BY <1>16 DEF SlavePrepareReorg
  <2>7. last' \in [Slave -> Nat]
    BY <1>16, <2>2 DEF SlavePrepareReorg
  <2>8. actions' \subseteq Slave /\ reorg_acks' \subseteq Slave
    BY <1>16 DEF SlavePrepareReorg
  <2> QED
    BY <2>3, <2>4, <2>5, <2>6, <2>7, <2>8, ZenonT(40)
<1>17. ASSUME NEW s \in Slave, SlaveFinishReorg(s) PROVE TypeOK'
  <2>1. Tail(inbox[s]) \in Seq(SlaveWork)
    BY <1>17 DEF SlaveFinishReorg, AtHead
  <2> QED
    BY <1>17, <2>1
    DEF SlaveFinishReorg, master, accounts, mailbox, environment
<1>18. ASSUME NEW s \in Slave, SlavePrepareShutdown(s) PROVE TypeOK'
  <2>1. Tail(inbox[s]) \in Seq(SlaveWork)
    BY <1>18 DEF SlavePrepareShutdown, AtHead
  <2>2. pending' \in [AccountsWork -> Nat]
    BY <1>18, PushType DEF SlavePrepareShutdown
  <2>3. /\ UNCHANGED <<state, shutdown_slaves, reorg_slaves, actions,
                       reorg_acks, params, mode, top, flush, cache, step,
                       reorg_data, reorg_counter, startup_reorg, last, rolled>>
        /\ UNCHANGED <<announced, stops>>
    BY <1>18 DEF SlavePrepareShutdown, environment
  <2>4. inbox' \in [Slave -> Seq(SlaveWork)]
    BY <1>18, <2>1 DEF SlavePrepareShutdown
  <2>5. slave' \in [Slave -> {"absent", "constructed", "normal", "reorg",
                              "pre_shutdown", "shutdown"}]
    BY <1>18 DEF SlavePrepareShutdown
  <2>6. shutdown_acks' \subseteq Slave
    BY <1>18 DEF SlavePrepareShutdown
  <2> QED
    BY <2>2, <2>3, <2>4, <2>5, <2>6, ZenonT(40)
<1>19. ASSUME NEW s \in Slave, SlaveShutdown(s) PROVE TypeOK'
  BY <1>19
  DEF SlaveShutdown, Unregister, accounts, mailbox, environment
<1>20. ASSUME NEW s \in Late, LateNext(s) PROVE TypeOK'
  <2>1. CASE GetSlave(s)
    BY <2>1 DEF GetSlave, accounts, mailbox, environment
  <2>2. CASE Start(s)
    <3>1. CASE state = "shutdown"
      BY <2>2, <3>1
      DEF Start, Unregister, accounts, mailbox, environment
    <3>2. CASE state # "shutdown"
      BY <2>2, <3>2, SMTT(40) DEF Start, accounts, mailbox, environment
    <3> QED
      BY <3>1, <3>2
  <2> QED
    BY <1>20, <2>1, <2>2 DEF LateNext
<1>21. CASE UNCHANGED vars
  BY <1>21
  DEF vars, master, accounts, mailbox, slaves, environment
<1> QED
  BY <1>1, <1>2, <1>3, <1>4, <1>5, <1>6, <1>7, <1>8, <1>9, <1>10, <1>11,
     <1>13, <1>14, <1>15, <1>16, <1>17, <1>18, <1>19, <1>20, <1>21
  DEF Next, AccountsNext, SlaveNext

\* The variables of the master, of Accounts and of the slaves always have
\* their types.
THEOREM TypeCorrect == Spec => []TypeOK
BY InitType, NextType, PTL DEF Spec

-----------------------------------------------------------------------------
(***************************************************************************)
(* The inductive invariant.  It says of every slave which messages can be  *)
(* in its inbox, and what the master knows about it.                       *)
(***************************************************************************)

\* The master has exactly the slaves whose pipelines are open.
RegisteredAreRunning ==
  /\ reorg_slaves = Running
  /\ \A s \in Slave \ Running : inbox[s] = <<>>

\* The master holds jobs only while it prepares a reorg, and only of slaves
\* that have stopped for this reorg.
SuppliersAreFrozen ==
  \A s \in actions :
    /\ state = "pre_reorg"
    /\ s \in Running
    /\ slave[s] = "reorg"
    /\ last[s] = reorg_counter

\* A prepare_reorg message is about the present reorg, its slave has not yet
\* answered, and nothing but shutdown comes after it.
PrepareIsCurrent ==
  \A s \in Slave : \A i \in 1..Len(inbox[s]) :
    inbox[s][i].work = "prepare_reorg" =>
      /\ state = "pre_reorg"
      /\ inbox[s][i].id = reorg_counter
      /\ s \notin actions
      /\ \A j \in (i + 1)..Len(inbox[s]) :
           inbox[s][j].work \notin {"prepare_reorg", "finish_reorg"}

\* When a finish_reorg message is under way its slave is rolled back.
FinishIsAfterRollback ==
  \A s \in Slave : \A i \in 1..Len(inbox[s]) :
    inbox[s][i].work = "finish_reorg" =>
      s \notin actions /\ rolled[s] = last[s]

\* A slave that may touch the data, or will without hearing from the master,
\* is rolled back; after PerformReorg every slave is.
WorkingIsRolledBack ==
  \A s \in Slave :
    \/ slave[s] \in {"absent", "constructed", "normal"}
    \/ state = "reorg" /\ s \in Running
    => rolled[s] = last[s]

Inv ==
  /\ TypeOK
  /\ RegisteredAreRunning
  /\ SuppliersAreFrozen
  /\ PrepareIsCurrent
  /\ FinishIsAfterRollback
  /\ WorkingIsRolledBack

\* A broadcast appends one message to the inboxes of running slaves.
LEMMA BroadcastElements ==
  ASSUME inbox \in [Slave -> Seq(SlaveWork)],
         NEW S, NEW m \in SlaveWork, NEW s \in Slave
  PROVE  LET new == Broadcast(S, m)[s] IN
         /\ s \notin Running => new = inbox[s]
         /\ Len(new) \in Len(inbox[s])..Len(inbox[s]) + 1
         /\ \A i \in 1..Len(new) :
              \/ i \in 1..Len(inbox[s]) /\ new[i] = inbox[s][i]
              \/ i = Len(inbox[s]) + 1 /\ new[i] = m
                 /\ s \in S /\ s \in Running
BY DEF Broadcast

\* What is left of an inbox when its first message has been handled.
LEMMA TailElements ==
  ASSUME inbox \in [Slave -> Seq(SlaveWork)],
         NEW s \in Slave, inbox[s] # <<>>
  PROVE  /\ Len(inbox[s]) \in Nat \ {0}
         /\ Head(inbox[s]) = inbox[s][1]
         /\ Len(Tail(inbox[s])) = Len(inbox[s]) - 1
         /\ \A i \in 1..Len(Tail(inbox[s])) :
              Tail(inbox[s])[i] = inbox[s][i + 1]
BY HeadTailProperties

\* The invariant holds in the initial states.
LEMMA InitInv == Init => Inv
<1> SUFFICES ASSUME Init PROVE Inv
  OBVIOUS
<1>1. TypeOK
  BY InitType
<1>2. Running = Slave \ Late /\ Late \subseteq Slave
  BY SlaveAssumption DEF Init, Running
<1>3. RegisteredAreRunning
  BY <1>2 DEF Init, RegisteredAreRunning
<1>4. SuppliersAreFrozen
  BY DEF Init, SuppliersAreFrozen
<1>5. PrepareIsCurrent /\ FinishIsAfterRollback
  BY DEF Init, PrepareIsCurrent, FinishIsAfterRollback
<1>6. WorkingIsRolledBack
  BY DEF Init, WorkingIsRolledBack
<1> QED
  BY <1>1, <1>3, <1>4, <1>5, <1>6 DEF Inv

protocol == <<state, reorg_slaves, actions, slave, inbox, last, rolled,
              reorg_counter>>

\* Most steps of Accounts change nothing the invariant speaks of.
LEMMA FrameInv == ASSUME Inv, TypeOK', UNCHANGED protocol PROVE Inv'
<1> USE DEF Inv, protocol
<1>1. Running' = Running
  BY DEF Running
<1>2. RegisteredAreRunning'
  BY <1>1 DEF RegisteredAreRunning
<1>3. SuppliersAreFrozen'
  BY <1>1 DEF SuppliersAreFrozen
<1>4. PrepareIsCurrent'
  BY DEF PrepareIsCurrent
<1>5. FinishIsAfterRollback'
  BY DEF FinishIsAfterRollback
<1>6. WorkingIsRolledBack'
  BY <1>1 DEF WorkingIsRolledBack
<1> QED
  BY <1>2, <1>3, <1>4, <1>5, <1>6

\* The messages about shutdown may come at any place.
LEMMA ShutdownMessagesInv ==
  ASSUME Inv, TypeOK',
         NEW S, NEW m \in {PrepareShutdownMessage, ShutdownMessage},
         inbox' = Broadcast(S, m),
         state' = state \/ (state = "normal" /\ state' = "shutdown"),
         UNCHANGED <<reorg_slaves, actions, slave, last, rolled,
                     reorg_counter>>
  PROVE  Inv'
<1> USE DEF Inv
<1>1. Running' = Running
  BY DEF Running
<1>2. m \in SlaveWork /\ m.work \notin {"prepare_reorg", "finish_reorg"}
  BY MessageType DEF PrepareShutdownMessage, ShutdownMessage
<1>3. inbox \in [Slave -> Seq(SlaveWork)]
  BY DEF TypeOK
<1>4. RegisteredAreRunning'
  BY <1>1, <1>2, <1>3, BroadcastElements DEF RegisteredAreRunning
<1>5. SuppliersAreFrozen'
  BY <1>1 DEF SuppliersAreFrozen
<1>6. PrepareIsCurrent'
  <2> SUFFICES ASSUME NEW s \in Slave, NEW i \in 1..Len(inbox'[s]),
                      inbox'[s][i].work = "prepare_reorg"
               PROVE  /\ state' = "pre_reorg"
                      /\ inbox'[s][i].id = reorg_counter
                      /\ s \notin actions
                      /\ \A j \in (i + 1)..Len(inbox'[s]) :
                           inbox'[s][j].work
                             \notin {"prepare_reorg", "finish_reorg"}
    BY DEF PrepareIsCurrent
  <2>1. i \in 1..Len(inbox[s]) /\ inbox'[s][i] = inbox[s][i]
    BY <1>2, <1>3, BroadcastElements
  <2>2. /\ state = "pre_reorg" /\ inbox[s][i].id = reorg_counter
        /\ s \notin actions
        /\ \A j \in (i + 1)..Len(inbox[s]) :
             inbox[s][j].work \notin {"prepare_reorg", "finish_reorg"}
    BY <2>1 DEF PrepareIsCurrent
  <2>3. ASSUME NEW j \in (i + 1)..Len(inbox'[s])
        PROVE  inbox'[s][j].work \notin {"prepare_reorg", "finish_reorg"}
    <3>1. Len(inbox'[s]) \in Nat /\ Len(inbox[s]) \in Nat
      BY <1>3, SMTT(40) DEF TypeOK
    <3>2. j \in 1..Len(inbox'[s])
      BY <3>1
    <3> QED
      BY <1>2, <1>3, <2>2, <3>1, <3>2, BroadcastElements, SMTT(40)
  <2> QED
    BY <2>1, <2>2, <2>3
<1>7. FinishIsAfterRollback'
  BY <1>2, <1>3, BroadcastElements DEF FinishIsAfterRollback
<1>8. WorkingIsRolledBack'
  BY <1>1 DEF WorkingIsRolledBack
<1> QED
  BY <1>4, <1>5, <1>6, <1>7, <1>8

\* A reorg begins: no slave has a job there or a prepare_reorg message left.
LEMMA ProcessReorgInv == ASSUME Inv, TypeOK', ProcessReorg PROVE Inv'
<1> USE DEF Inv
<1>1. /\ state = "normal" /\ state' = "pre_reorg"
      /\ actions = {} /\ actions' = {}
      /\ reorg_counter' = ReorgId /\ ReorgId \in Nat
      /\ UNCHANGED <<reorg_slaves, slave, last, rolled>>
  BY DEF ProcessReorg, ProcessReorgCheck, ReorgId, TypeOK
<1>2. \/ inbox' = inbox
      \/ inbox' = Broadcast(reorg_slaves, PrepareReorgMessage(ReorgId))
  BY DEF ProcessReorg
<1>3. inbox \in [Slave -> Seq(SlaveWork)] /\ inbox' \in [Slave -> Seq(SlaveWork)]
  BY DEF TypeOK
<1>4. Running' = Running
  BY <1>1 DEF Running
<1>5. /\ PrepareReorgMessage(ReorgId) \in SlaveWork
      /\ PrepareReorgMessage(ReorgId).work = "prepare_reorg"
      /\ PrepareReorgMessage(ReorgId).id = ReorgId
  BY <1>1 DEF PrepareReorgMessage, SlaveWork
<1>6. RegisteredAreRunning'
  BY <1>1, <1>2, <1>3, <1>4, <1>5, BroadcastElements
  DEF RegisteredAreRunning
<1>7. SuppliersAreFrozen'
  BY <1>1 DEF SuppliersAreFrozen
<1>8. ASSUME NEW s \in Slave, NEW i \in 1..Len(inbox'[s])
      PROVE  \/ i \in 1..Len(inbox[s]) /\ inbox'[s][i] = inbox[s][i]
             \/ i = Len(inbox'[s])
                /\ inbox'[s][i] = PrepareReorgMessage(ReorgId)
  <2>1. Len(inbox[s]) \in Nat /\ Len(inbox'[s]) \in Nat
    BY <1>3
  <2> QED
    BY <1>2, <1>3, <1>5, <2>1, BroadcastElements
<1>9. \A s \in Slave : \A i \in 1..Len(inbox[s]) :
        inbox[s][i].work # "prepare_reorg"
  BY <1>1 DEF PrepareIsCurrent
<1>10. PrepareIsCurrent'
  <2> SUFFICES ASSUME NEW s \in Slave, NEW i \in 1..Len(inbox'[s]),
                      inbox'[s][i].work = "prepare_reorg"
               PROVE  /\ inbox'[s][i].id = ReorgId
                      /\ \A j \in (i + 1)..Len(inbox'[s]) :
                           inbox'[s][j].work
                             \notin {"prepare_reorg", "finish_reorg"}
    BY <1>1 DEF PrepareIsCurrent
  <2>1. /\ i = Len(inbox'[s])
        /\ inbox'[s][i] = PrepareReorgMessage(ReorgId)
    BY <1>8, <1>9
  <2>2. Len(inbox'[s]) \in Nat
    BY <1>3
  <2> QED
    BY <1>5, <2>1, <2>2
<1>11. FinishIsAfterRollback'
  BY <1>1, <1>5, <1>8 DEF FinishIsAfterRollback
<1>12. WorkingIsRolledBack'
  BY <1>1, <1>4 DEF WorkingIsRolledBack
<1> QED
  BY <1>6, <1>7, <1>10, <1>11, <1>12

\* The master counts: as many jobs as slaves means a job of every slave.
LEMMA AllSupplied ==
  ASSUME Inv, PerformReorgCheck
  PROVE  actions = Running
<1>1. actions \subseteq reorg_slaves /\ reorg_slaves = Running
  BY DEF Inv, SuppliersAreFrozen, RegisteredAreRunning
<1>2. IsFiniteSet(reorg_slaves)
  BY SlaveAssumption, FS_Subset DEF Inv, TypeOK
<1> QED
  BY <1>1, <1>2, FS_Subset DEF PerformReorgCheck

\* The jobs are run: all slaves are stopped, and all are rolled back.
LEMMA PerformReorgInv == ASSUME Inv, TypeOK', PerformReorg PROVE Inv'
<1> USE DEF Inv
<1>1. /\ state' = "reorg" /\ actions' = {}
      /\ UNCHANGED <<reorg_slaves, slave, inbox, last, reorg_counter>>
  BY DEF PerformReorg
<1>2. actions = Running
  BY AllSupplied DEF PerformReorg
<1>3. \A s \in Slave : rolled'[s] = IF s \in actions THEN reorg_counter
                                                    ELSE rolled[s]
  BY DEF PerformReorg
<1>4. Running' = Running
  BY <1>1 DEF Running
<1>5. RegisteredAreRunning'
  BY <1>1, <1>4 DEF RegisteredAreRunning
<1>6. SuppliersAreFrozen'
  BY <1>1 DEF SuppliersAreFrozen
<1>7. PrepareIsCurrent'
  <2> SUFFICES ASSUME NEW s \in Slave, NEW i \in 1..Len(inbox[s])
               PROVE  inbox[s][i].work # "prepare_reorg"
    BY <1>1 DEF PrepareIsCurrent
  <2>1. s \in Running
    <3> SUFFICES ASSUME s \notin Running PROVE FALSE
      OBVIOUS
    <3>1. inbox[s] = <<>>
      BY DEF RegisteredAreRunning
    <3> QED
      BY <3>1
  <2> QED
    BY <1>2, <2>1 DEF PrepareIsCurrent
<1>8. FinishIsAfterRollback'
  BY <1>1, <1>3 DEF FinishIsAfterRollback
<1>9. WorkingIsRolledBack'
  <2> SUFFICES ASSUME NEW s \in Slave,
                      \/ slave[s] \in {"absent", "constructed", "normal"}
                      \/ s \in Running
               PROVE  rolled'[s] = last[s]
    BY <1>1, <1>4 DEF WorkingIsRolledBack
  <2>1. CASE s \in Running
    BY <1>2, <1>3, <2>1 DEF SuppliersAreFrozen
  <2>2. CASE s \notin Running
    BY <1>2, <1>3, <2>2 DEF WorkingIsRolledBack
  <2> QED
    BY <2>1, <2>2
<1> QED
  BY <1>5, <1>6, <1>7, <1>8, <1>9

\* The reorg is over: whoever is told to go on is rolled back.
LEMMA CompleteReorgInv == ASSUME Inv, TypeOK', CompleteReorg PROVE Inv'
<1> USE DEF Inv
<1>1. /\ state = "reorg" /\ state' = "normal" /\ actions = {}
      /\ inbox' = Broadcast(reorg_slaves, FinishReorgMessage)
      /\ UNCHANGED <<reorg_slaves, actions, slave, last, rolled,
                     reorg_counter>>
  BY DEF CompleteReorg, FinishReorgCheck
<1>2. inbox \in [Slave -> Seq(SlaveWork)]
  BY DEF TypeOK
<1>3. FinishReorgMessage \in SlaveWork
      /\ FinishReorgMessage.work = "finish_reorg"
  BY MessageType DEF FinishReorgMessage
<1>4. Running' = Running
  BY <1>1 DEF Running
<1>5. RegisteredAreRunning'
  BY <1>1, <1>2, <1>3, <1>4, BroadcastElements DEF RegisteredAreRunning
<1>6. SuppliersAreFrozen'
  BY <1>1 DEF SuppliersAreFrozen
<1>7. \A s \in Slave : \A i \in 1..Len(inbox[s]) :
        inbox[s][i].work # "prepare_reorg"
  BY <1>1 DEF PrepareIsCurrent
<1>8. PrepareIsCurrent'
  BY <1>1, <1>2, <1>3, <1>7, BroadcastElements DEF PrepareIsCurrent
<1>9. FinishIsAfterRollback'
  <2> SUFFICES ASSUME NEW s \in Slave, NEW i \in 1..Len(inbox'[s]),
                      inbox'[s][i].work = "finish_reorg"
               PROVE  rolled[s] = last[s]
    BY <1>1 DEF FinishIsAfterRollback
  <2>1. CASE s \in Running
    BY <1>1, <2>1 DEF WorkingIsRolledBack
  <2>2. CASE i \in 1..Len(inbox[s]) /\ inbox'[s][i] = inbox[s][i]
    BY <2>2 DEF FinishIsAfterRollback
  <2> QED
    BY <1>1, <1>2, <1>3, <2>1, <2>2, BroadcastElements
<1>10. WorkingIsRolledBack'
  BY <1>1 DEF WorkingIsRolledBack
<1> QED
  BY <1>5, <1>6, <1>8, <1>9, <1>10

\* A slave stops and hands over its job: there is no second message for it.
LEMMA SlavePrepareReorgInv ==
  ASSUME Inv, TypeOK', NEW s \in Slave, SlavePrepareReorg(s)
  PROVE  Inv'
<1> USE DEF Inv
<1>1. /\ inbox[s] # <<>> /\ Head(inbox[s]).work = "prepare_reorg"
      /\ slave[s] = "normal" /\ state = "pre_reorg"
      /\ inbox' = [inbox EXCEPT ![s] = Tail(@)]
      /\ last' = [last EXCEPT ![s] = Head(inbox[s]).id]
      /\ slave' = [slave EXCEPT ![s] = "reorg"]
      /\ actions' = actions \cup {s}
      /\ UNCHANGED <<state, reorg_slaves, rolled, reorg_counter>>
  BY DEF SlavePrepareReorg, PrepareReorgCheck, AtHead
<1>2. inbox \in [Slave -> Seq(SlaveWork)] /\ DOMAIN slave = Slave
      /\ last \in [Slave -> Nat]
  BY DEF TypeOK
<1>3. /\ Len(inbox[s]) \in Nat \ {0} /\ Head(inbox[s]) = inbox[s][1]
      /\ Len(inbox'[s]) = Len(inbox[s]) - 1
      /\ \A i \in 1..Len(inbox'[s]) : inbox'[s][i] = inbox[s][i + 1]
  BY <1>1, <1>2, TailElements
<1>4. /\ inbox[s][1].id = reorg_counter
      /\ \A j \in 2..Len(inbox[s]) :
           inbox[s][j].work \notin {"prepare_reorg", "finish_reorg"}
  BY <1>1, <1>3 DEF PrepareIsCurrent
<1>5. \A i \in 1..Len(inbox'[s]) :
        inbox'[s][i].work \notin {"prepare_reorg", "finish_reorg"}
  BY <1>3, <1>4
<1>6. \A t \in Slave \ {s} : /\ inbox'[t] = inbox[t] /\ slave'[t] = slave[t]
                            /\ last'[t] = last[t]
  BY <1>1, <1>2
<1>7. slave'[s] = "reorg" /\ last'[s] = reorg_counter
  BY <1>1, <1>2, <1>3, <1>4
<1>8. Running' = Running /\ s \in Running
  BY <1>1, <1>6, <1>7 DEF Running
<1>9. RegisteredAreRunning'
  BY <1>1, <1>6, <1>8 DEF RegisteredAreRunning
<1>10. SuppliersAreFrozen'
  BY <1>1, <1>6, <1>7, <1>8 DEF SuppliersAreFrozen, TypeOK
<1>11. PrepareIsCurrent'
  <2> SUFFICES ASSUME NEW t \in Slave \ {s} PROVE
        \A i \in 1..Len(inbox[t]) :
          inbox[t][i].work = "prepare_reorg" =>
            /\ inbox[t][i].id = reorg_counter
            /\ t \notin actions'
            /\ \A j \in (i + 1)..Len(inbox[t]) :
                 inbox[t][j].work \notin {"prepare_reorg", "finish_reorg"}
    BY <1>1, <1>5, <1>6 DEF PrepareIsCurrent
  <2> QED
    BY <1>1 DEF PrepareIsCurrent
<1>12. FinishIsAfterRollback'
  <2> SUFFICES ASSUME NEW t \in Slave, NEW i \in 1..Len(inbox'[t]),
                      inbox'[t][i].work = "finish_reorg"
               PROVE  t \notin actions' /\ rolled'[t] = last'[t]
    BY DEF FinishIsAfterRollback
  <2>1. t # s
    BY <1>5
  <2>2. inbox'[t] = inbox[t] /\ last'[t] = last[t]
    BY <1>6, <2>1
  <2>3. t \notin actions /\ rolled[t] = last[t]
    BY <2>2 DEF FinishIsAfterRollback
  <2> QED
    BY <1>1, <2>1, <2>2, <2>3
<1>13. WorkingIsRolledBack'
  BY <1>1, <1>6, <1>7, <1>8 DEF WorkingIsRolledBack
<1> QED
  BY <1>9, <1>10, <1>11, <1>12, <1>13

\* A step of one slave that takes its next message and leaves the master's
\* reorg data alone.
LEMMA SlaveStepInv ==
  ASSUME Inv, TypeOK', NEW s \in Slave,
         SlaveFinishReorg(s) \/ SlavePrepareShutdown(s)
  PROVE  Inv'
<1> USE DEF Inv
<1>1. /\ inbox[s] # <<>>
      /\ inbox' = [inbox EXCEPT ![s] = Tail(@)]
      /\ \/ /\ Head(inbox[s]).work = "finish_reorg"
            /\ slave[s] = "reorg"
            /\ slave' = [slave EXCEPT ![s] = "normal"]
         \/ /\ slave[s] = "normal"
            /\ slave' = [slave EXCEPT ![s] = "pre_shutdown"]
      /\ UNCHANGED <<state, reorg_slaves, actions, last, rolled,
                     reorg_counter>>
  BY DEF SlaveFinishReorg, FinishReorgSlaveCheck, SlavePrepareShutdown,
         PrepareShutdownCheck, AtHead, master, accounts
<1>2. inbox \in [Slave -> Seq(SlaveWork)] /\ DOMAIN slave = Slave
  BY DEF TypeOK
<1>3. /\ Len(inbox[s]) \in Nat \ {0} /\ Head(inbox[s]) = inbox[s][1]
      /\ Len(inbox'[s]) = Len(inbox[s]) - 1
      /\ \A i \in 1..Len(inbox'[s]) : inbox'[s][i] = inbox[s][i + 1]
  BY <1>1, <1>2, TailElements
<1>4. \A t \in Slave \ {s} : inbox'[t] = inbox[t] /\ slave'[t] = slave[t]
  BY <1>1, <1>2
<1>5. slave'[s] \in {"normal", "pre_shutdown"}
      /\ slave[s] \in {"normal", "reorg"}
  BY <1>1, <1>2
<1>6. Running' = Running /\ s \in Running
  BY <1>4, <1>5 DEF Running
<1>7. RegisteredAreRunning'
  BY <1>1, <1>4, <1>6 DEF RegisteredAreRunning
<1>8. s \notin actions
  BY <1>1, <1>3 DEF FinishIsAfterRollback, SuppliersAreFrozen
<1>9. SuppliersAreFrozen'
  BY <1>1, <1>4, <1>6, <1>8 DEF SuppliersAreFrozen, TypeOK
<1>10. PrepareIsCurrent'
  <2> SUFFICES ASSUME NEW i \in 1..Len(inbox'[s]),
                      inbox'[s][i].work = "prepare_reorg"
               PROVE  /\ state = "pre_reorg"
                      /\ inbox'[s][i].id = reorg_counter
                      /\ \A j \in (i + 1)..Len(inbox'[s]) :
                           inbox'[s][j].work
                             \notin {"prepare_reorg", "finish_reorg"}
    BY <1>1, <1>4, <1>8 DEF PrepareIsCurrent
  <2>1. i + 1 \in 1..Len(inbox[s]) /\ inbox'[s][i] = inbox[s][i + 1]
    BY <1>3
  <2>2. /\ state = "pre_reorg" /\ inbox[s][i + 1].id = reorg_counter
        /\ \A j \in (i + 2)..Len(inbox[s]) :
             inbox[s][j].work \notin {"prepare_reorg", "finish_reorg"}
    BY <2>1 DEF PrepareIsCurrent
  <2>3. ASSUME NEW j \in (i + 1)..Len(inbox'[s])
        PROVE  j + 1 \in (i + 2)..Len(inbox[s])
               /\ inbox'[s][j] = inbox[s][j + 1]
    BY <1>3
  <2> QED
    BY <2>1, <2>2, <2>3
<1>11. FinishIsAfterRollback'
  BY <1>1, <1>3, <1>4 DEF FinishIsAfterRollback
<1>12. rolled[s] = last[s]
  BY <1>1, <1>3 DEF FinishIsAfterRollback, WorkingIsRolledBack
<1>13. WorkingIsRolledBack'
  BY <1>1, <1>4, <1>6, <1>12 DEF WorkingIsRolledBack
<1> QED
  BY <1>7, <1>9, <1>10, <1>11, <1>13

\* A slave stops for good, and the master forgets it.
LEMMA SlaveShutdownInv ==
  ASSUME Inv, TypeOK', NEW s \in Slave, SlaveShutdown(s)
  PROVE  Inv'
<1> USE DEF Inv
<1>1. /\ inbox' = [inbox EXCEPT ![s] = <<>>]
      /\ slave' = [slave EXCEPT ![s] = "shutdown"]
      /\ actions' = actions \ {s} /\ reorg_slaves' = reorg_slaves \ {s}
      /\ UNCHANGED <<state, last, rolled, reorg_counter>>
  BY DEF SlaveShutdown, Unregister, accounts
<1>2. DOMAIN inbox = Slave /\ DOMAIN slave = Slave
  BY DEF TypeOK
<1>3. /\ inbox'[s] = <<>> /\ slave'[s] = "shutdown"
      /\ \A t \in Slave \ {s} : inbox'[t] = inbox[t] /\ slave'[t] = slave[t]
  BY <1>1, <1>2
<1>4. Running' = Running \ {s}
  BY <1>3 DEF Running
<1>5. RegisteredAreRunning'
  BY <1>1, <1>3, <1>4 DEF RegisteredAreRunning
<1>6. SuppliersAreFrozen'
  BY <1>1, <1>3, <1>4 DEF SuppliersAreFrozen, TypeOK
<1>7. PrepareIsCurrent'
  BY <1>1, <1>3 DEF PrepareIsCurrent
<1>8. FinishIsAfterRollback'
  BY <1>1, <1>3 DEF FinishIsAfterRollback
<1>9. WorkingIsRolledBack'
  BY <1>1, <1>3, <1>4 DEF WorkingIsRolledBack
<1> QED
  BY <1>5, <1>6, <1>7, <1>8, <1>9

\* A late slave is created and, if it is started in time, joins the others.
LEMMA LateInv ==
  ASSUME Inv, TypeOK', NEW s \in Late, LateNext(s)
  PROVE  Inv'
<1> USE DEF Inv
<1>0. s \in Slave
  BY SlaveAssumption
<1>1. /\ slave[s] \in {"absent", "constructed"}
      /\ UNCHANGED <<state, inbox, last, rolled, reorg_counter>>
      /\ \/ /\ slave' = [slave EXCEPT ![s] = "constructed"]
            /\ UNCHANGED <<reorg_slaves, actions>>
         \/ /\ slave' = [slave EXCEPT ![s] = "shutdown"]
            /\ reorg_slaves' = reorg_slaves \ {s}
            /\ actions' = actions \ {s}
         \/ /\ slave' = [slave EXCEPT ![s] = "normal"]
            /\ reorg_slaves' = reorg_slaves \cup {s}
            /\ UNCHANGED actions
  BY DEF LateNext, GetSlave, Start, Unregister, accounts
<1>2. DOMAIN slave = Slave
  BY DEF TypeOK
<1>3. /\ slave'[s] \in {"constructed", "shutdown", "normal"}
      /\ \A t \in Slave \ {s} : slave'[t] = slave[t]
  BY <1>0, <1>1, <1>2
<1>4. s \notin Running /\ inbox[s] = <<>> /\ rolled[s] = last[s]
      /\ s \notin actions
  BY <1>0, <1>1
  DEF Running, RegisteredAreRunning, WorkingIsRolledBack, SuppliersAreFrozen
<1>5. Running' = IF slave'[s] = "normal" THEN Running \cup {s} ELSE Running
  BY <1>0, <1>3, <1>4 DEF Running
<1>6. /\ actions' = actions
      /\ reorg_slaves' = IF slave'[s] = "normal" THEN reorg_slaves \cup {s}
                                                ELSE reorg_slaves
  BY <1>0, <1>1, <1>2, <1>4 DEF RegisteredAreRunning
<1>7. RegisteredAreRunning'
  BY <1>1, <1>5, <1>6 DEF RegisteredAreRunning
<1>8. SuppliersAreFrozen'
  BY <1>1, <1>3, <1>4, <1>5, <1>6 DEF SuppliersAreFrozen, TypeOK
<1>9. PrepareIsCurrent' /\ FinishIsAfterRollback'
  BY <1>1, <1>6 DEF PrepareIsCurrent, FinishIsAfterRollback
<1>10. WorkingIsRolledBack'
  BY <1>1, <1>3, <1>4, <1>5 DEF WorkingIsRolledBack
<1> QED
  BY <1>7, <1>8, <1>9, <1>10

\* Every step keeps the invariant.
LEMMA NextInv == Inv /\ [Next]_vars => Inv'
<1> SUFFICES ASSUME Inv, [Next]_vars PROVE Inv'
  OBVIOUS
<1>0. TypeOK'
  BY NextType DEF Inv
<1>1. CASE AnnounceReorg
  BY <1>0, <1>1, FrameInv DEF AnnounceReorg, master, slaves, protocol
<1>2. CASE RequestShutdown
  BY <1>0, <1>2, FrameInv DEF RequestShutdown, master, slaves, protocol
<1>3. ASSUME NEW m \in AccountsWork, Receive(m) PROVE Inv'
  BY <1>0, <1>3, FrameInv DEF Receive, master, slaves, protocol
<1>4. CASE Work
  BY <1>0, <1>4, FrameInv DEF Work, master, slaves, protocol
<1>5. ASSUME NEW m \in Deferrable, Defer(m) PROVE Inv'
  BY <1>0, <1>5, FrameInv DEF Defer, master, slaves, protocol
<1>6. CASE Ignore
  BY <1>0, <1>6, FrameInv DEF Ignore, master, slaves, protocol
<1>7. CASE ProcessReorg
  BY <1>0, <1>7, ProcessReorgInv
<1>8. CASE GetReorg
  BY <1>0, <1>8, FrameInv DEF GetReorg, slaves, protocol
<1>9. CASE PerformReorg
  BY <1>0, <1>9, PerformReorgInv
<1>10. CASE ClearReorg
  BY <1>0, <1>10, FrameInv DEF ClearReorg, slaves, protocol
<1>11. CASE CompleteReorg
  BY <1>0, <1>11, CompleteReorgInv
<1>12. CASE ProcessShutdown
  BY <1>0, <1>12, ShutdownMessagesInv
  DEF ProcessShutdown, ProcessShutdownCheck, ShutdownActor
<1>13. CASE CheckShutdown
  BY <1>0, <1>13, ShutdownMessagesInv
  DEF CheckShutdown, ShutdownActor, master
<1>14. CASE Terminate
  BY <1>0, <1>14, ShutdownMessagesInv DEF Terminate, ShutdownActor, master
<1>15. ASSUME NEW s \in Slave, SlaveNext(s) PROVE Inv'
  BY <1>0, <1>15, SlavePrepareReorgInv, SlaveStepInv, SlaveShutdownInv
  DEF SlaveNext
<1>16. ASSUME NEW s \in Late, LateNext(s) PROVE Inv'
  BY <1>0, <1>16, LateInv
<1>17. CASE UNCHANGED vars
  BY <1>0, <1>17, FrameInv DEF vars, master, accounts, slaves, protocol
<1> QED
  BY <1>1, <1>2, <1>3, <1>4, <1>5, <1>6, <1>7, <1>8, <1>9, <1>10, <1>11,
     <1>12, <1>13, <1>14, <1>15, <1>16, <1>17
  DEF Next, AccountsNext

\* The invariant holds in every reachable state.
THEOREM Invariant == Spec => []Inv
BY InitInv, NextInv, PTL DEF Spec

-----------------------------------------------------------------------------
(***************************************************************************)
(* What follows from it.                                                   *)
(***************************************************************************)

\* A slave that handles wallet messages works on rolled back data, however
\* many slaves there are and whenever they are created.
THEOREM RolledBackDataCorrect == Spec => []WorksOnRolledBackData
<1>1. Inv => WorksOnRolledBackData
  BY DEF Inv, WorkingIsRolledBack, WorksOnRolledBackData
<1> QED
  BY <1>1, Invariant, PTL

\* Only PerformReorg rolls data back.
LEMMA OnlyPerformReorg ==
  ASSUME [Next]_vars, rolled' # rolled PROVE PerformReorg
BY DEF Next, AccountsNext, SlaveNext, LateNext, vars, slaves, AnnounceReorg,
       RequestShutdown, Receive, Work, Defer, Ignore, ProcessReorg, GetReorg,
       ClearReorg, CompleteReorg, ProcessShutdown, CheckShutdown, Terminate,
       SlavePrepareReorg, SlaveFinishReorg, SlavePrepareShutdown,
       SlaveShutdown, GetSlave, Start

\* When the jobs run, every registered slave waits for this very reorg.
THEOREM AllFrozenCorrect == Spec => RollbackFindsAllFrozen
<1>1. Inv /\ [Next]_vars =>
        [rolled' # rolled =>
           \A s \in reorg_slaves :
             slave[s] = "reorg" /\ last[s] = reorg_counter]_vars
  <2> SUFFICES ASSUME Inv, [Next]_vars, rolled' # rolled,
                      NEW s \in reorg_slaves
               PROVE  slave[s] = "reorg" /\ last[s] = reorg_counter
    OBVIOUS
  <2>1. PerformReorg
    BY OnlyPerformReorg
  <2>2. s \in actions
    BY <2>1, AllSupplied DEF PerformReorg, Inv, RegisteredAreRunning
  <2> QED
    BY <2>2 DEF Inv, SuppliersAreFrozen
<1> QED
  BY <1>1, Invariant, PTL DEF Spec, RollbackFindsAllFrozen

\* The phases that the states of a slave stand for.
LEMMA PhaseValues ==
  /\ PhaseOf("absent") = "outside" /\ PhaseOf("constructed") = "outside"
  /\ PhaseOf("normal") = "working" /\ PhaseOf("reorg") = "frozen"
  /\ PhaseOf("pre_shutdown") = "gone" /\ PhaseOf("shutdown") = "gone"
  /\ \A s \in Slave : Phase[s] = PhaseOf(slave[s])
BY DEF PhaseOf, Phase

\* A step that moves slave s moves worker s.
LEMMA PhaseStep ==
  ASSUME TypeOK, NEW s \in Slave, NEW st, slave' = [slave EXCEPT ![s] = st]
  PROVE  Phase' = [Phase EXCEPT ![s] = PhaseOf(st)]
BY DEF Phase, TypeOK

\* The protocol implements ReorgBarrier.
THEOREM Implementation == Spec => ImplementsBarrier
<1>1. Init => Barrier!Init
  <2> SUFFICES ASSUME Init PROVE Barrier!Init
    OBVIOUS
  <2>1. TypeOK
    BY InitType
  <2>2. ASSUME NEW s \in Slave PROVE Phase[s] \in {"outside", "working"}
    BY PhaseValues DEF Init
  <2>3. Phase \in [Slave -> {"outside", "working"}]
    BY <2>2 DEF Phase
  <2> QED
    BY <2>3 DEF Init, Barrier!Init
<1>2. Inv /\ Inv' /\ [Next]_vars => [Barrier!Next]_(Barrier!barrierVars)
  <2> SUFFICES ASSUME Inv, Inv', [Next]_vars
               PROVE  [Barrier!Next]_(Barrier!barrierVars)
    OBVIOUS
  <2> USE DEF Inv
  <2> DOMAIN slave = Slave /\ DOMAIN last = Slave
    BY DEF TypeOK
  <2>1. ASSUME UNCHANGED <<slave, last, rolled>>
        PROVE  UNCHANGED Barrier!barrierVars
    BY <2>1 DEF Barrier!barrierVars, Phase
  <2>2. CASE PerformReorg
    <3>1. actions = Running
      BY <2>2, AllSupplied DEF PerformReorg
    <3>2. \A s \in Running : slave[s] = "reorg" /\ last[s] = reorg_counter
      BY <3>1 DEF SuppliersAreFrozen
    <3>3. Barrier!Members = Running
      <4>1. ASSUME NEW s \in Slave
            PROVE  Phase[s] \in {"working", "frozen"} <=> s \in Running
        <5>1. slave[s] \in {"absent", "constructed", "shutdown"}
              \/ s \in Running
          BY DEF Running, TypeOK
        <5> QED
          BY <3>2, <5>1, PhaseValues DEF Running
      <4>2. Running \subseteq Slave
        BY DEF Running
      <4> QED
        BY <4>1, <4>2 DEF Barrier!Members
    <3>4. \A s \in Running : Phase[s] = "frozen" /\ last[s] = reorg_counter
      BY <3>2, PhaseValues DEF Running
    <3>5. UNCHANGED <<slave, last>>
          /\ rolled' = [s \in Slave |-> IF s \in Running THEN last[s]
                                                       ELSE rolled[s]]
      BY <2>2, <3>1, <3>4 DEF PerformReorg
    <3>6. Phase' = Phase
      BY <3>5 DEF Phase
    <3> QED
      BY <3>3, <3>4, <3>5, <3>6 DEF Barrier!Next, Barrier!Rollback
  <2>3. ASSUME NEW s \in Slave, SlavePrepareReorg(s) PROVE Barrier!Freeze(s)
    <3>1. /\ slave[s] = "normal" /\ last[s] < Head(inbox[s]).id
          /\ slave' = [slave EXCEPT ![s] = "reorg"]
          /\ last' = [last EXCEPT ![s] = Head(inbox[s]).id]
          /\ rolled' = rolled
      BY <2>3 DEF SlavePrepareReorg, PrepareReorgCheck
    <3>2. Phase[s] = "working" /\ Phase' = [Phase EXCEPT ![s] = "frozen"]
      <4>1. Phase[s] = "working"
        BY <3>1, PhaseValues
      <4>2. Phase' = [Phase EXCEPT ![s] = PhaseOf("reorg")]
        BY <3>1, PhaseStep
      <4> QED
        BY <4>1, <4>2, PhaseValues
    <3>3. last'[s] = Head(inbox[s]).id /\ last[s] \in Nat
          /\ last'[s] \in Nat
      BY <3>1 DEF TypeOK
    <3> QED
      BY <3>1, <3>2, <3>3 DEF Barrier!Freeze
  <2>4. ASSUME NEW s \in Slave, SlaveFinishReorg(s) PROVE Barrier!Thaw(s)
    <3>1. /\ slave[s] = "reorg" /\ slave' = [slave EXCEPT ![s] = "normal"]
          /\ UNCHANGED <<last, rolled>>
      BY <2>4 DEF SlaveFinishReorg, FinishReorgSlaveCheck
    <3>2. Phase[s] = "frozen" /\ Phase' = [Phase EXCEPT ![s] = "working"]
      <4>1. Phase[s] = "frozen"
        BY <3>1, PhaseValues
      <4>2. Phase' = [Phase EXCEPT ![s] = PhaseOf("normal")]
        BY <3>1, PhaseStep
      <4> QED
        BY <4>1, <4>2, PhaseValues
    <3>3. rolled[s] = last[s]
      BY <3>1 DEF WorkingIsRolledBack
    <3> QED
      BY <3>1, <3>2, <3>3 DEF Barrier!Thaw
  <2>5. ASSUME NEW s \in Slave,
               slave' = [slave EXCEPT ![s] = "pre_shutdown"]
               \/ slave' = [slave EXCEPT ![s] = "shutdown"],
               UNCHANGED <<last, rolled>>
        PROVE  Barrier!Leave(s) \/ UNCHANGED Barrier!barrierVars
    <3>1. Phase' = [Phase EXCEPT ![s] = "gone"]
      <4>1. ASSUME NEW st, slave' = [slave EXCEPT ![s] = st]
            PROVE  Phase' = [Phase EXCEPT ![s] = PhaseOf(st)]
        BY <4>1, PhaseStep
      <4> QED
        BY <2>5, <4>1, PhaseValues
    <3>2. Phase[s] = "gone" => Phase' = Phase
      BY <3>1 DEF Phase
    <3> QED
      BY <2>5, <3>1, <3>2 DEF Barrier!Leave, Barrier!barrierVars
  <2>6. ASSUME NEW s \in Late, GetSlave(s)
        PROVE  UNCHANGED Barrier!barrierVars
    <3>1. /\ s \in Slave /\ slave[s] = "absent"
          /\ slave' = [slave EXCEPT ![s] = "constructed"]
          /\ UNCHANGED <<last, rolled>>
      BY <2>6, SlaveAssumption DEF GetSlave
    <3>2. Phase[s] = "outside" /\ Phase' = [Phase EXCEPT ![s] = "outside"]
      <4>1. Phase[s] = "outside"
        BY <3>1, PhaseValues
      <4>2. Phase' = [Phase EXCEPT ![s] = PhaseOf("constructed")]
        BY <3>1, PhaseStep
      <4> QED
        BY <4>1, <4>2, PhaseValues
    <3>3. Phase' = Phase
      BY <3>2 DEF Phase
    <3> QED
      BY <3>1, <3>3 DEF Barrier!barrierVars
  <2>7. ASSUME NEW s \in Late, Start(s), state # "shutdown"
        PROVE  Barrier!Join(s)
    <3>1. /\ s \in Slave /\ slave[s] = "constructed"
          /\ slave' = [slave EXCEPT ![s] = "normal"]
          /\ UNCHANGED <<last, rolled>>
      BY <2>7, SlaveAssumption DEF Start
    <3>2. Phase[s] = "outside" /\ Phase' = [Phase EXCEPT ![s] = "working"]
      <4>1. Phase[s] = "outside"
        BY <3>1, PhaseValues
      <4>2. Phase' = [Phase EXCEPT ![s] = PhaseOf("normal")]
        BY <3>1, PhaseStep
      <4> QED
        BY <4>1, <4>2, PhaseValues
    <3> QED
      BY <3>1, <3>2 DEF Barrier!Join
  <2>8. ASSUME NEW s \in Slave, SlaveNext(s)
        PROVE  [Barrier!Next]_(Barrier!barrierVars)
    BY <2>3, <2>4, <2>5, <2>8
    DEF SlaveNext, SlavePrepareShutdown, SlaveShutdown, Barrier!Next
  <2>9. ASSUME NEW s \in Late, LateNext(s)
        PROVE  [Barrier!Next]_(Barrier!barrierVars)
    <3>1. CASE Start(s) /\ state = "shutdown"
      BY <2>5, <3>1, SlaveAssumption DEF Start, Barrier!Next
    <3> QED
      BY <2>6, <2>7, <2>9, <3>1, SlaveAssumption DEF LateNext, Barrier!Next
  <2>10. \/ PerformReorg
         \/ \E s \in Slave : SlaveNext(s)
         \/ \E s \in Late : LateNext(s)
         \/ UNCHANGED <<slave, last, rolled>>
    BY DEF Next, AccountsNext, vars, slaves, AnnounceReorg, RequestShutdown,
           Receive, Work, Defer, Ignore, ProcessReorg, GetReorg, ClearReorg,
           CompleteReorg, ProcessShutdown, CheckShutdown, Terminate
  <2> QED
    BY <2>1, <2>2, <2>8, <2>9, <2>10
<1> QED
  BY <1>1, <1>2, Invariant, PTL DEF Spec, ImplementsBarrier, Barrier!Spec

=============================================================================
