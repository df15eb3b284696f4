------------------------- MODULE WalletOutputs_proof -------------------------
(***************************************************************************)
(* Proofs about WalletOutputs, for any transactions, proposals and chains, *)
(* any number of reorgs and restarts, and whether or not blocks of a new   *)
(* branch overtake the message about the reorg.                            *)
(*                                                                         *)
(* The operations of the database are functions from what a database       *)
(* transaction has made of cache and tables so far to what it makes of     *)
(* them.  Sound collects what each of them preserves, so that it holds     *)
(* wherever the transaction may fail; Inv says that every transaction      *)
(* starts from a sound state.                                              *)
(***************************************************************************)
EXTENDS WalletOutputs, FoldFacts

\* The types of the parts of the state.
Position == Seq(Nat) \cup {Blank}
Block == [branch : Nat, txs : SUBSET Tx]
Rows == [Proposal -> {"none", "open", "built"}]
Work == [m : Table, d : Table, row : Rows, cancelled : SUBSET Proposal, ok : BOOLEAN]

\* Every output on record is in the index at the position it records.
IndexComplete(tab) ==
  \A o \in Outpoint : tab.state[o] # "absent" => <<tab.pos[o], o>> \in tab.at

\* The database knows the outputs the cache knows, one proposal for each.
OnRecord(m, d) ==
  \A o \in Outpoint : /\ (m.state[o] = "absent") = (d.state[o] = "absent")
                      /\ Len(d.assoc[o]) <= 1

\* What the operations of a database transaction preserve.
Sound ==
  {w \in Work : /\ IndexComplete(w.m) /\ IndexComplete(w.d)
                /\ w.d.twice = {}
                /\ OnRecord(w.m, w.d)}

Builder ==
  [proposal : Proposal \cup {"none"}, in : SUBSET Outpoint,
   todo : SUBSET Outpoint, step : {"idle", "build", "built", "failed"}]

\* The inductive invariant.
Inv ==
  /\ Begin \in Sound
  /\ scanned \in Seq(Nat) /\ saved \in Seq(Nat)
  /\ known \cup heard \subseteq Tx
  /\ sent \cup pending \subseteq Proposal
  /\ alive \in BOOLEAN /\ rejected \in BOOLEAN
  /\ chain \in Seq(Block) /\ reorgs \in Nat
  /\ inputs \in [Proposal -> SUBSET Outpoint]
  /\ builder \in Builder
  /\ builder.step # "idle" => builder.proposal \in Proposal
  /\ news \in Seq([ancestor : Seq(Nat), tip : Seq(Nat)])

-----------------------------------------------------------------------------
(***************************************************************************)
(* Every step of an operation leaves a sound work sound.                   *)
(***************************************************************************)

\* An exception changes neither the cache nor the tables.
LEMMA ThrowSound ==
  ASSUME NEW w \in Sound
  PROVE  Throw(w) \in Sound
BY DEF Throw, Sound, Work

\* Output::change_position: the row of the index moves with the output.
LEMMA ChangePositionSound ==
  ASSUME NEW w \in Sound, NEW o \in Outpoint, NEW old \in Position, NEW new \in Position
  PROVE  ChangePosition(w, o, old, new) \in Sound
<1> DEFINE v == ChangePosition(w, o, old, new)
           at == (w.m.at \ {<<old, o>>}) \cup {<<new, o>>}
           dat == (w.d.at \ (disk.at \cap {<<old, o>>})) \cup {<<new, o>>}
           pos == [w.m.pos EXCEPT ![o] = new]
           dpos == [w.d.pos EXCEPT ![o] = new]
<1>1. w \in Work /\ w.m \in Table /\ w.d \in Table
  BY DEF Sound, Work
<1>2. v = [w EXCEPT !.m = [w.m EXCEPT !.pos = pos, !.at = at],
                    !.d = [w.d EXCEPT !.pos = dpos, !.at = dat],
                    !.ok = <<old, o>> \in disk.at => <<old, o>> \in w.d.at]
  BY <1>1 DEF ChangePosition, Work, Table
<1>3. at \subseteq Position \X Outpoint /\ dat \subseteq Position \X Outpoint
  BY <1>1 DEF Table, Position
<1>4. pos \in [Outpoint -> Position] /\ dpos \in [Outpoint -> Position]
  BY <1>1 DEF Table, Position
<1> HIDE DEF v, at, dat, pos, dpos
<1>5. [w.m EXCEPT !.pos = pos, !.at = at] \in Table
  BY <1>1, <1>3, <1>4 DEF Table, Position
<1>6. [w.d EXCEPT !.pos = dpos, !.at = dat] \in Table
  BY <1>1, <1>3, <1>4 DEF Table, Position
<1>7. v \in Work
  BY <1>1, <1>2, <1>5, <1>6 DEF Work
<1>8. /\ v.m.state = w.m.state /\ v.m.pos = pos /\ v.m.at = at
      /\ v.d.state = w.d.state /\ v.d.pos = dpos /\ v.d.at = dat
      /\ v.d.twice = w.d.twice /\ v.d.assoc = w.d.assoc
  BY <1>1, <1>2 DEF Work, Table
<1>9. IndexComplete(v.m)
  BY <1>1, <1>8 DEF IndexComplete, Sound, Table, pos, at
<1>10. IndexComplete(v.d)
  BY <1>1, <1>8 DEF IndexComplete, Sound, Table, dpos, dat
<1>11. OnRecord(v.m, v.d) /\ v.d.twice = {}
  BY <1>8 DEF OnRecord, Sound
<1> QED BY <1>7, <1>9, <1>10, <1>11 DEF Sound, v

\* The position recorded for a state.
LEMMA EffectiveType ==
  ASSUME NEW s, NEW old \in Position, NEW new \in Position
  PROVE  Effective(s, old, new) \in Position
BY DEF Effective

\* Output::change_state.
LEMMA ChangeStateSound ==
  ASSUME NEW w \in Sound, NEW o \in Outpoint, NEW s \in TxoState, NEW q \in Position
  PROVE  ChangeState(w, o, s, q) \in Sound
<1> DEFINE old == w.m.pos[o]
           new == Effective(s, old, q)
           state == [w.m.state EXCEPT ![o] = s]
           dstate == [w.d.state EXCEPT ![o] = s]
           v == [w EXCEPT !.m.state[o] = s, !.d.state[o] = s]
<1>1. w \in Work /\ w.m \in Table /\ w.d \in Table
  BY DEF Sound, Work
<1>2. v = [w EXCEPT !.m = [w.m EXCEPT !.state = state],
                    !.d = [w.d EXCEPT !.state = dstate]]
  BY <1>1 DEF Work, Table
<1>3. old \in Position /\ new \in Position
  BY <1>1, EffectiveType DEF Table, Position
<1>4. /\ state \in [Outpoint -> TxoState \cup {"absent"}]
      /\ dstate \in [Outpoint -> TxoState \cup {"absent"}]
  BY <1>1 DEF Table
<1>5. s # "absent"
  BY DEF TxoState, New, Spent
<1>6. ASSUME w.m.state[o] # "absent" PROVE v \in Sound
  <2> HIDE DEF v
  <2>1. [w.m EXCEPT !.state = state] \in Table /\ [w.d EXCEPT !.state = dstate] \in Table
    <3> HIDE DEF state, dstate
    <3> QED BY <1>1, <1>4 DEF Table
  <2>2. v \in Work
    <3> HIDE DEF state, dstate
    <3> QED BY <1>1, <1>2, <2>1 DEF Work
  <2>3. /\ v.m.state = state /\ v.m.pos = w.m.pos /\ v.m.at = w.m.at
        /\ v.d.state = dstate /\ v.d.pos = w.d.pos /\ v.d.at = w.d.at
        /\ v.d.twice = w.d.twice /\ v.d.assoc = w.d.assoc
    BY <1>1, <1>2 DEF Work, Table
  <2>4. w.d.state[o] # "absent"
    BY <1>6 DEF Sound, OnRecord
  <2>5. IndexComplete(v.m) /\ IndexComplete(v.d)
    BY <1>1, <1>6, <2>3, <2>4 DEF IndexComplete, Sound, Table
  <2>6. OnRecord(v.m, v.d) /\ v.d.twice = {}
    BY <1>1, <1>5, <2>3 DEF OnRecord, Sound, Table
  <2> QED BY <2>2, <2>5, <2>6 DEF Sound
<1> HIDE DEF v
<1>7. CASE w.m.state[o] = "absent"
  BY <1>7, ThrowSound DEF ChangeState
<1>8. CASE w.m.state[o] # "absent"
  <2>1. ChangePosition(v, o, old, new) \in Sound
    <3> HIDE DEF old, new
    <3> QED BY <1>3, <1>6, <1>8, ChangePositionSound
  <2> QED BY <1>6, <1>8, <2>1 DEF ChangeState, v
<1> QED BY <1>7, <1>8

\* The height of a position, -1 for none.
LEMMA HeightType ==
  ASSUME NEW q \in Position
  PROVE  Height(q) \in Int
BY DEF Height, Position

\* Output::create_state.
LEMMA CreateStateSound ==
  ASSUME NEW w \in Sound, NEW o \in Outpoint, NEW s \in TxoState, NEW q \in Position,
         NEW generation \in BOOLEAN
  PROVE  CreateState(w, o, s, q, generation) \in Sound
<1> DEFINE p == Effective(s, Blank, q)
           entry == IF generation THEN {<<Height(p), o>>} ELSE {}
           Added(tab, twice) ==
             [tab EXCEPT !.state = [tab.state EXCEPT ![o] = s],
                         !.pos = [tab.pos EXCEPT ![o] = p],
                         !.at = tab.at \cup {<<p, o>>},
                         !.gen = tab.gen \cup entry,
                         !.twice = twice]
           v == CreateState(w, o, s, q, generation)
<1>1. w \in Work /\ w.m \in Table /\ w.d \in Table
  BY DEF Sound, Work
<1>2. CASE w.m.state[o] # "absent"
  BY <1>2, ThrowSound DEF CreateState
<1>3. CASE w.m.state[o] = "absent"
  <2> DEFINE twice == w.m.twice \cup (w.m.gen \cap entry)
  <2> DEFINE Add(tab) == [tab EXCEPT !.state[o] = s, !.pos[o] = p,
                                     !.at = @ \cup {<<p, o>>},
                                     !.gen = @ \cup entry]
  <2>1. v = [w EXCEPT !.m = Added(w.m, twice), !.d = Added(w.d, w.d.twice)]
    <3>1. v = [w EXCEPT !.m = Add([@ EXCEPT !.twice = w.m.twice \cup (w.m.gen \cap entry)]),
                        !.d = Add(@)]
      BY <1>3, Zenon DEF CreateState
    <3>2. v = [w EXCEPT !.m = Add([w.m EXCEPT !.twice = twice]), !.d = Add(w.d)]
      <4> HIDE DEF Add, entry, v, p
      <4> QED BY <3>1, <1>1 DEF Work
    <3>3. ASSUME NEW tab \in Table
          PROVE  Add(tab) = Added(tab, tab.twice)
      <4> HIDE DEF p, entry
      <4> QED BY DEF Table
    <3>4. ASSUME NEW two \in SUBSET (Int \X Outpoint)
          PROVE  /\ [w.m EXCEPT !.twice = two] \in Table
                 /\ [w.m EXCEPT !.twice = two].twice = two
                 /\ Added([w.m EXCEPT !.twice = two], two) = Added(w.m, two)
      <4> HIDE DEF p, entry
      <4>1. w.m \in Table
        BY <1>1
      <4> QED BY ONLY <4>1, two \in SUBSET (Int \X Outpoint) DEF Table
    <3>5. twice \in SUBSET (Int \X Outpoint)
      <4> HIDE DEF entry
      <4> QED BY <1>1 DEF Table
    <3> HIDE DEF v, Add, Added, twice
    <3>6. Add([w.m EXCEPT !.twice = twice]) = Added(w.m, twice)
      BY <3>3, <3>4, <3>5
    <3>7. Add(w.d) = Added(w.d, w.d.twice)
      BY <1>1, <3>3
    <3> QED BY <3>2, <3>6, <3>7
  <2>2. p \in Position
    BY EffectiveType DEF Position
  <2>3. Height(p) \in Int
    BY <2>2, HeightType
  <2>4. entry \subseteq Int \X Outpoint
    <3> HIDE DEF p
    <3> QED BY <2>3
  <2> HIDE DEF p, entry
  <2>5. ASSUME NEW tab \in Table, NEW two \in SUBSET (Int \X Outpoint)
        PROVE  /\ Added(tab, two) \in Table
               /\ IndexComplete(tab) => IndexComplete(Added(tab, two))
    <3>1. /\ [tab.state EXCEPT ![o] = s] \in [Outpoint -> TxoState \cup {"absent"}]
          /\ [tab.pos EXCEPT ![o] = p] \in [Outpoint -> Position]
          /\ tab.at \cup {<<p, o>>} \subseteq Position \X Outpoint
          /\ tab.gen \cup entry \subseteq Int \X Outpoint
      BY <2>2, <2>4 DEF Table, Position
    <3>2. Added(tab, two) \in Table
      BY <3>1 DEF Table, Position
    <3>3. /\ Added(tab, two).state = [tab.state EXCEPT ![o] = s]
          /\ Added(tab, two).pos = [tab.pos EXCEPT ![o] = p]
          /\ Added(tab, two).at = tab.at \cup {<<p, o>>}
      BY DEF Table
    <3>4. ASSUME IndexComplete(tab) PROVE IndexComplete(Added(tab, two))
      <4> HIDE DEF Added
      <4> QED BY <3>3, <3>4 DEF IndexComplete, Table
    <3> QED BY <3>2, <3>4
  <2>6. twice \in SUBSET (Int \X Outpoint) /\ w.d.twice \in SUBSET (Int \X Outpoint)
    BY <1>1 DEF Table
  <2>7. v \in Work
    <3> HIDE DEF v, Added, twice
    <3> QED BY <1>1, <2>1, <2>5, <2>6 DEF Work
  <2>8. v.m = Added(w.m, twice) /\ v.d = Added(w.d, w.d.twice)
    <3> HIDE DEF v, Added, twice
    <3> QED BY <1>1, <2>1 DEF Work
  <2>9. IndexComplete(v.m) /\ IndexComplete(v.d)
    <3> HIDE DEF v, Added, twice
    <3> QED BY <1>1, <2>5, <2>6, <2>8 DEF Sound
  <2>10. /\ v.m.state = [w.m.state EXCEPT ![o] = s]
         /\ v.d.state = [w.d.state EXCEPT ![o] = s]
         /\ v.d.twice = w.d.twice /\ v.d.assoc = w.d.assoc
    <3> HIDE DEF v, twice
    <3> QED BY <1>1, <2>8 DEF Table
  <2>11. s # "absent"
    BY DEF TxoState, New, Spent
  <2>12. OnRecord(v.m, v.d) /\ v.d.twice = {}
    <3> HIDE DEF v
    <3> QED BY <1>1, <2>10, <2>11 DEF OnRecord, Sound, Table
  <2> HIDE DEF v
  <2>13. v \in Sound
    BY <2>7, <2>9, <2>12 DEF Sound
  <2> QED BY <2>13 DEF v
<1> QED BY <1>2, <1>3

\* Steps that change neither outputs nor positions.
LEMMA BookkeepingSound ==
  ASSUME NEW w \in Sound, NEW v \in Work,
         v.m.state = w.m.state, v.m.pos = w.m.pos, v.m.at = w.m.at,
         v.d.state = w.d.state, v.d.pos = w.d.pos, v.d.at = w.d.at,
         v.d.twice = w.d.twice, \A o \in Outpoint : Len(v.d.assoc[o]) <= 1
  PROVE  v \in Sound
BY DEF Sound, IndexComplete, OnRecord

\* The proposals listed for an output.
LEMMA SetAssocSound ==
  ASSUME NEW w \in Sound, NEW o \in Outpoint,
         NEW a \in Seq(Proposal), NEW b \in Seq(Proposal), Len(b) <= 1
  PROVE  [w EXCEPT !.m.assoc[o] = a, !.d.assoc[o] = b] \in Sound
<1> DEFINE v == [w EXCEPT !.m.assoc[o] = a, !.d.assoc[o] = b]
           massoc == [w.m.assoc EXCEPT ![o] = a]
           dassoc == [w.d.assoc EXCEPT ![o] = b]
<1>1. w \in Work /\ w.m \in Table /\ w.d \in Table
  BY DEF Sound, Work
<1>2. v = [w EXCEPT !.m = [w.m EXCEPT !.assoc = massoc],
                    !.d = [w.d EXCEPT !.assoc = dassoc]]
  BY <1>1 DEF Work, Table
<1>3. massoc \in [Outpoint -> Seq(Proposal)] /\ dassoc \in [Outpoint -> Seq(Proposal)]
  BY <1>1 DEF Table
<1>4. \A x \in Outpoint : Len(dassoc[x]) <= 1
  BY <1>1 DEF Table, Sound, OnRecord
<1> HIDE DEF v, massoc, dassoc
<1>5. [w.m EXCEPT !.assoc = massoc] \in Table /\ [w.d EXCEPT !.assoc = dassoc] \in Table
  BY <1>1, <1>3 DEF Table
<1>6. v \in Work
  BY <1>1, <1>2, <1>5 DEF Work
<1>7. /\ v.m.state = w.m.state /\ v.m.pos = w.m.pos /\ v.m.at = w.m.at
      /\ v.d.state = w.d.state /\ v.d.pos = w.d.pos /\ v.d.at = w.d.at
      /\ v.d.twice = w.d.twice /\ v.d.assoc = dassoc
  BY <1>1, <1>2 DEF Work, Table
<1>8. v \in Sound
  BY <1>4, <1>6, <1>7, BookkeepingSound
<1> QED BY <1>8 DEF v

\* The outputs a proposal has made.
LEMMA SetMadeSound ==
  ASSUME NEW w \in Sound, NEW p \in Proposal,
         NEW a \in SUBSET Outpoint, NEW b \in SUBSET Outpoint
  PROVE  [w EXCEPT !.m.made[p] = a, !.d.made[p] = b] \in Sound
<1> DEFINE v == [w EXCEPT !.m.made[p] = a, !.d.made[p] = b]
           mmade == [w.m.made EXCEPT ![p] = a]
           dmade == [w.d.made EXCEPT ![p] = b]
<1>1. w \in Work /\ w.m \in Table /\ w.d \in Table
  BY DEF Sound, Work
<1>2. v = [w EXCEPT !.m = [w.m EXCEPT !.made = mmade],
                    !.d = [w.d EXCEPT !.made = dmade]]
  BY <1>1 DEF Work, Table
<1>3. mmade \in [Proposal -> SUBSET Outpoint] /\ dmade \in [Proposal -> SUBSET Outpoint]
  BY <1>1 DEF Table
<1> HIDE DEF v, mmade, dmade
<1>5. [w.m EXCEPT !.made = mmade] \in Table /\ [w.d EXCEPT !.made = dmade] \in Table
  BY <1>1, <1>3 DEF Table
<1>6. v \in Work
  BY <1>1, <1>2, <1>5 DEF Work
<1>7. /\ v.m.state = w.m.state /\ v.m.pos = w.m.pos /\ v.m.at = w.m.at
      /\ v.d.state = w.d.state /\ v.d.pos = w.d.pos /\ v.d.at = w.d.at
      /\ v.d.twice = w.d.twice /\ v.d.assoc = w.d.assoc
  BY <1>1, <1>2 DEF Work, Table
<1>8. v \in Sound
  BY <1>6, <1>7, BookkeepingSound DEF Sound, OnRecord
<1> QED BY <1>8 DEF v

\* The outputs a proposal has reserved.
LEMMA SetUsedSound ==
  ASSUME NEW w \in Sound, NEW p \in Proposal,
         NEW a \in SUBSET Outpoint, NEW b \in SUBSET Outpoint
  PROVE  [w EXCEPT !.m.used[p] = a, !.d.used[p] = b] \in Sound
<1> DEFINE v == [w EXCEPT !.m.used[p] = a, !.d.used[p] = b]
           mused == [w.m.used EXCEPT ![p] = a]
           dused == [w.d.used EXCEPT ![p] = b]
<1>1. w \in Work /\ w.m \in Table /\ w.d \in Table
  BY DEF Sound, Work
<1>2. v = [w EXCEPT !.m = [w.m EXCEPT !.used = mused],
                    !.d = [w.d EXCEPT !.used = dused]]
  BY <1>1 DEF Work, Table
<1>3. mused \in [Proposal -> SUBSET Outpoint] /\ dused \in [Proposal -> SUBSET Outpoint]
  BY <1>1 DEF Table
<1> HIDE DEF v, mused, dused
<1>5. [w.m EXCEPT !.used = mused] \in Table /\ [w.d EXCEPT !.used = dused] \in Table
  BY <1>1, <1>3 DEF Table
<1>6. v \in Work
  BY <1>1, <1>2, <1>5 DEF Work
<1>7. /\ v.m.state = w.m.state /\ v.m.pos = w.m.pos /\ v.m.at = w.m.at
      /\ v.d.state = w.d.state /\ v.d.pos = w.d.pos /\ v.d.at = w.d.at
      /\ v.d.twice = w.d.twice /\ v.d.assoc = w.d.assoc
  BY <1>1, <1>2 DEF Work, Table
<1>8. v \in Sound
  BY <1>6, <1>7, BookkeepingSound DEF Sound, OnRecord
<1> QED BY <1>8 DEF v

\* Proposal and output are associated.
LEMMA AssociateSound ==
  ASSUME NEW w \in Sound, NEW o \in Outpoint, NEW p \in Proposal, NEW allowed \in BOOLEAN
  PROVE  Associate(w, o, p, allowed) \in Sound
<1>1. w.m.assoc[o] \in Seq(Proposal)
  BY DEF Sound, Work, Table
<1>2. Append(w.m.assoc[o], p) \in Seq(Proposal) /\ <<p>> \in Seq(Proposal) /\ Len(<<p>>) <= 1
  BY <1>1
<1>3. [w EXCEPT !.m.assoc[o] = Append(w.m.assoc[o], p), !.d.assoc[o] = <<p>>] \in Sound
  BY <1>2, SetAssocSound
<1> QED BY <1>3, ThrowSound DEF Associate

\* A proposal reserves an output.
LEMMA ConsumeOutputSound ==
  ASSUME NEW w \in Sound, NEW o \in Outpoint, NEW p \in Proposal
  PROVE  ConsumeOutput(w, o, p) \in Sound
<1> DEFINE v == [w EXCEPT !.m.used[p] = @ \cup {o}, !.d.used[p] = @ \cup {o}]
           allowed == w.m.assoc[o] # <<>> => o \in w.m.made[Head(w.m.assoc[o])]
<1>1. w.m.used[p] \cup {o} \in SUBSET Outpoint /\ w.d.used[p] \cup {o} \in SUBSET Outpoint
  BY DEF Sound, Work, Table
<1>2. v = [w EXCEPT !.m.used[p] = w.m.used[p] \cup {o}, !.d.used[p] = w.d.used[p] \cup {o}]
  BY DEF Sound, Work, Table
<1>3. v \in Sound
  BY <1>1, <1>2, SetUsedSound
<1> HIDE DEF v
<1>4. allowed \in BOOLEAN
  OBVIOUS
<1> HIDE DEF allowed
<1>5. Associate(v, o, p, allowed) \in Sound
  BY <1>3, <1>4, AssociateSound
<1> QED BY <1>3, <1>5, ThrowSound DEF ConsumeOutput, v, allowed

\* A proposal creates an output.
LEMMA CreateOutputSound ==
  ASSUME NEW w \in Sound, NEW o \in Outpoint, NEW p \in Proposal
  PROVE  CreateOutput(w, o, p) \in Sound
<1> DEFINE v == [w EXCEPT !.m.made[p] = @ \cup {o}, !.d.made[p] = @ \cup {o}]
<1>1. w.m.made[p] \cup {o} \in SUBSET Outpoint /\ w.d.made[p] \cup {o} \in SUBSET Outpoint
  BY DEF Sound, Work, Table
<1>2. v = [w EXCEPT !.m.made[p] = w.m.made[p] \cup {o}, !.d.made[p] = w.d.made[p] \cup {o}]
  BY DEF Sound, Work, Table
<1>3. v \in Sound
  BY <1>1, <1>2, SetMadeSound
<1> HIDE DEF v
<1>4. Associate(v, o, p, FALSE) \in Sound
  BY <1>3, AssociateSound
<1> QED BY <1>4, ThrowSound DEF CreateOutput, v

\* They are no longer associated.
LEMMA DissociateSound ==
  ASSUME NEW w \in Sound, NEW o \in Outpoint, NEW p \in Proposal
  PROVE  Dissociate(w, o, p) \in Sound
<1> DEFINE none == <<>>
<1>0. none \in Seq(Proposal) /\ Len(none) <= 1
  OBVIOUS
<1> HIDE DEF none
<1>1. [w EXCEPT !.m.assoc[o] = none, !.d.assoc[o] = none] \in Sound
  BY <1>0, SetAssocSound
<1> USE DEF none
<1> QED BY <1>1, ThrowSound DEF Dissociate

\* A table is replaced by one with the same outputs.
LEMMA SetTableSound ==
  ASSUME NEW w \in Sound, NEW tab \in Table
  PROVE  /\ /\ tab.state = w.d.state /\ tab.pos = w.d.pos /\ tab.at = w.d.at
            /\ tab.twice = w.d.twice /\ tab.assoc = w.d.assoc
            => [w EXCEPT !.d = tab] \in Sound
         /\ tab.state = w.m.state /\ tab.pos = w.m.pos /\ tab.at = w.m.at
            => [w EXCEPT !.m = tab] \in Sound
<1>1. w \in Work /\ w.m \in Table /\ w.d \in Table /\ \A o \in Outpoint : Len(w.d.assoc[o]) <= 1
  BY DEF Sound, Work, OnRecord
<1>2. ASSUME tab.state = w.d.state /\ tab.pos = w.d.pos /\ tab.at = w.d.at,
             tab.twice = w.d.twice /\ tab.assoc = w.d.assoc
      PROVE  [w EXCEPT !.d = tab] \in Sound
  <2> DEFINE v == [w EXCEPT !.d = tab]
  <2>1. v \in Work /\ v.m = w.m /\ v.d = tab
    BY <1>1 DEF Work
  <2> HIDE DEF v
  <2>2. v \in Sound
    BY <1>1, <1>2, <2>1, BookkeepingSound
  <2> QED BY <2>2 DEF v
<1>3. ASSUME tab.state = w.m.state /\ tab.pos = w.m.pos /\ tab.at = w.m.at
      PROVE  [w EXCEPT !.m = tab] \in Sound
  <2> DEFINE v == [w EXCEPT !.m = tab]
  <2>1. v \in Work /\ v.m = tab /\ v.d = w.d
    BY <1>1 DEF Work
  <2> HIDE DEF v
  <2>2. v \in Sound
    BY <1>1, <1>3, <2>1, BookkeepingSound
  <2> QED BY <2>2 DEF v
<1> QED BY <1>2, <1>3

\* An output is taken from what a proposal has made or reserved.
LEMMA RemoveSound ==
  ASSUME NEW w \in Sound, NEW o \in Outpoint, NEW p \in Proposal
  PROVE  /\ [w EXCEPT !.d.made[p] = @ \ {o}] \in Sound
         /\ [w EXCEPT !.m.made[p] = @ \ {o}] \in Sound
         /\ [w EXCEPT !.d.used[p] = @ \ {o}] \in Sound
         /\ [w EXCEPT !.m.used[p] = @ \ {o}] \in Sound
<1>1. w \in Work /\ w.m \in Table /\ w.d \in Table
  BY DEF Sound, Work
<1>2. ASSUME NEW t \in Table
      PROVE  LET made == [t EXCEPT !.made[p] = @ \ {o}]
                 used == [t EXCEPT !.used[p] = @ \ {o}]
             IN /\ made \in Table /\ used \in Table
                /\ made.state = t.state /\ made.pos = t.pos /\ made.at = t.at
                /\ made.twice = t.twice /\ made.assoc = t.assoc
                /\ used.state = t.state /\ used.pos = t.pos /\ used.at = t.at
                /\ used.twice = t.twice /\ used.assoc = t.assoc
  BY DEF Table
<1>3. [w EXCEPT !.d = [w.d EXCEPT !.made[p] = @ \ {o}]] \in Sound
  BY <1>1, <1>2, SetTableSound
<1>4. [w EXCEPT !.m = [w.m EXCEPT !.made[p] = @ \ {o}]] \in Sound
  BY <1>1, <1>2, SetTableSound
<1>5. [w EXCEPT !.d = [w.d EXCEPT !.used[p] = @ \ {o}]] \in Sound
  BY <1>1, <1>2, SetTableSound
<1>6. [w EXCEPT !.m = [w.m EXCEPT !.used[p] = @ \ {o}]] \in Sound
  BY <1>1, <1>2, SetTableSound
<1> QED BY <1>1, <1>3, <1>4, <1>5, <1>6 DEF Work, Table

\* What a proposal has made is released.
LEMMA ConfirmCreatedSound ==
  ASSUME NEW w \in Sound, NEW o \in Outpoint, NEW p \in Proposal
  PROVE  ConfirmCreated(w, o, p) \in Sound
<1> DEFINE v == [w EXCEPT !.d.made[p] = @ \ {o}]
           x == Dissociate(v, o, p)
<1>1. v \in Sound
  BY RemoveSound
<1>2. x \in Sound
  <2> HIDE DEF v
  <2> QED BY <1>1, DissociateSound
<1>3. [x EXCEPT !.m.made[p] = @ \ {o}] \in Sound
  <2> HIDE DEF x
  <2> QED BY <1>2, RemoveSound
<1>4. Then(x, LAMBDA z : [z EXCEPT !.m.made[p] = @ \ {o}]) \in Sound
  <2> HIDE DEF x
  <2> QED BY <1>2, <1>3 DEF Then
<1> QED BY <1>4, ThrowSound DEF ConfirmCreated

\* What a proposal has reserved is released.
LEMMA ConfirmConsumedSound ==
  ASSUME NEW w \in Sound, NEW o \in Outpoint, NEW p \in Proposal
  PROVE  ConfirmConsumed(w, o, p) \in Sound
<1> DEFINE v == [w EXCEPT !.d.used[p] = @ \ {o}]
           x == Dissociate(v, o, p)
<1>1. v \in Sound
  BY RemoveSound
<1>2. x \in Sound
  <2> HIDE DEF v
  <2> QED BY <1>1, DissociateSound
<1>3. [x EXCEPT !.m.used[p] = @ \ {o}] \in Sound
  <2> HIDE DEF x
  <2> QED BY <1>2, RemoveSound
<1>4. Then(x, LAMBDA z : [z EXCEPT !.m.used[p] = @ \ {o}]) \in Sound
  <2> HIDE DEF x
  <2> QED BY <1>2, <1>3 DEF Then
<1> QED BY <1>4, ThrowSound DEF ConfirmConsumed

\* Either of them, for an output of a block.
LEMMA ConfirmProposalSound ==
  ASSUME NEW w \in Sound, NEW o \in Outpoint, NEW p \in Proposal
  PROVE  ConfirmProposal(w, o, p) \in Sound
BY ConfirmCreatedSound, ConfirmConsumedSound DEF ConfirmProposal

\* The row of a proposal is deleted.
LEMMA CloseRowSound ==
  ASSUME NEW w \in Sound, NEW p \in Proposal
  PROVE  CloseRow(w, p) \in Sound
<1> DEFINE v == [w EXCEPT !.row[p] = "none", !.cancelled = @ \cup {p}]
<1>1. w \in Work
  BY DEF Sound
<1>2. v \in Work
  BY <1>1 DEF Work, Rows
<1>3. v.m = w.m /\ v.d = w.d
  BY <1>1 DEF Work
<1> HIDE DEF v
<1>4. v \in Sound
  BY <1>2, <1>3 DEF Sound
<1> QED BY <1>4 DEF CloseRow, v

-----------------------------------------------------------------------------
(***************************************************************************)
(* The loops.  A loop has a trace: f[s] is the work when the elements of s *)
(* have been treated.                                                      *)
(***************************************************************************)

\* FinishProposal: the outputs the proposal has made.
ConfirmAllCreated(w, O, p) == ForEach(O, LAMBDA o, v : ConfirmCreated(v, o, p), w)
ConfirmAllCreatedTrace(f, w, O, p) ==
  /\ ConfirmAllCreated(w, O, p) = f[O]
  /\ f[{}] = w
  /\ \A t \in SUBSET O : f[t] \in Sound
  /\ \A t \in SUBSET O : t # {} =>
       f[t] = IF f[Rest(t)].ok THEN ConfirmCreated(f[Rest(t)], Chosen(t), p) ELSE f[Rest(t)]

\* The loop stays sound, and has a trace.
LEMMA ConfirmAllCreatedLoop ==
  ASSUME NEW w \in Sound, NEW O \in SUBSET Outpoint, NEW p \in Proposal
  PROVE  /\ ConfirmAllCreated(w, O, p) \in Sound
         /\ \E f : ConfirmAllCreatedTrace(f, w, O, p)
<1> DEFINE S == O
           Op(x, v) == IF v.ok THEN ConfirmCreated(v, x, p) ELSE v
           F == [x \in S |-> [v \in Sound |-> Op(x, v)]]
           Body(f) == [t \in SUBSET S |->
                         IF t = {} THEN w ELSE Op(Chosen(t), f[Rest(t)])]
           iter == CHOOSE f : f = Body(f)
<1>1. IsFiniteSet(S)
  BY ConstantsAssumption, FS_Subset
<1>2. ConfirmAllCreated(w, O, p) = iter[S]
  BY Zenon DEF ConfirmAllCreated, ForEach, FoldSet, MapThenFoldSet, Chosen, Rest
<1>3. \A x \in S, v \in Sound : Op(x, v) \in Sound
  BY ConfirmCreatedSound
<1> HIDE DEF S, Op
<1>4. F \in [S -> [Sound -> Sound]]
  BY <1>3
<1>5. \E f : f = Body(f)
  <2> HIDE DEF F
  <2>1. PICK g \in [SUBSET S -> Sound] : Steps(g, S, w, F)
    BY <1>1, <1>4, StepsExist
  <2>2. ASSUME NEW t \in SUBSET S
        PROVE  g[t] = IF t = {} THEN w ELSE Op(Chosen(t), g[Rest(t)])
    <3>1. CASE t # {}
      <4>1. Rest(t) \in SUBSET S /\ Chosen(t) \in S /\ g[Rest(t)] \in Sound
        BY <3>1, ChosenIsElement DEF Rest
      <4> QED BY <2>1, <3>1, <4>1 DEF Steps, F
    <3> QED BY <2>1, <3>1 DEF Steps
  <2>3. g = Body(g)
    BY <2>2
  <2> QED BY <2>3, Zenon
<1>6. iter = Body(iter)
  <2> HIDE DEF Body
  <2> QED BY <1>5, Zenon
<1> HIDE DEF iter
<1>7. iter[{}] = w /\ \A t \in SUBSET S : t # {} => iter[t] = Op(Chosen(t), iter[Rest(t)])
  BY <1>6
<1>8. \A t \in SUBSET S : iter[t] \in Sound
  <2>1. ASSUME NEW t \in SUBSET S, t # {}, iter[Rest(t)] \in Sound
        PROVE  iter[t] \in Sound
    BY <1>3, <1>7, <2>1, ChosenIsElement
  <2>2. iter[{}] \in Sound
    BY <1>7
  <2> QED BY <1>1, <2>1, <2>2, TraceKeeps
<1>9. iter[S] \in Sound
  BY <1>8
<1>10. ConfirmAllCreatedTrace(iter, w, O, p)
  BY <1>2, <1>7, <1>8, Zenon DEF ConfirmAllCreatedTrace, S, Op
<1> QED BY <1>2, <1>9, <1>10

\* FinishProposal: the outputs the proposal has reserved.
ConfirmAllConsumed(w, O, p) == ForEach(O, LAMBDA o, v : ConfirmConsumed(v, o, p), w)
ConfirmAllConsumedTrace(f, w, O, p) ==
  /\ ConfirmAllConsumed(w, O, p) = f[O]
  /\ f[{}] = w
  /\ \A t \in SUBSET O : f[t] \in Sound
  /\ \A t \in SUBSET O : t # {} =>
       f[t] = IF f[Rest(t)].ok THEN ConfirmConsumed(f[Rest(t)], Chosen(t), p) ELSE f[Rest(t)]

\* The loop stays sound, and has a trace.
LEMMA ConfirmAllConsumedLoop ==
  ASSUME NEW w \in Sound, NEW O \in SUBSET Outpoint, NEW p \in Proposal
  PROVE  /\ ConfirmAllConsumed(w, O, p) \in Sound
         /\ \E f : ConfirmAllConsumedTrace(f, w, O, p)
<1> DEFINE S == O
           Op(x, v) == IF v.ok THEN ConfirmConsumed(v, x, p) ELSE v
           F == [x \in S |-> [v \in Sound |-> Op(x, v)]]
           Body(f) == [t \in SUBSET S |->
                         IF t = {} THEN w ELSE Op(Chosen(t), f[Rest(t)])]
           iter == CHOOSE f : f = Body(f)
<1>1. IsFiniteSet(S)
  BY ConstantsAssumption, FS_Subset
<1>2. ConfirmAllConsumed(w, O, p) = iter[S]
  BY Zenon DEF ConfirmAllConsumed, ForEach, FoldSet, MapThenFoldSet, Chosen, Rest
<1>3. \A x \in S, v \in Sound : Op(x, v) \in Sound
  BY ConfirmConsumedSound
<1> HIDE DEF S, Op
<1>4. F \in [S -> [Sound -> Sound]]
  BY <1>3
<1>5. \E f : f = Body(f)
  <2> HIDE DEF F
  <2>1. PICK g \in [SUBSET S -> Sound] : Steps(g, S, w, F)
    BY <1>1, <1>4, StepsExist
  <2>2. ASSUME NEW t \in SUBSET S
        PROVE  g[t] = IF t = {} THEN w ELSE Op(Chosen(t), g[Rest(t)])
    <3>1. CASE t # {}
      <4>1. Rest(t) \in SUBSET S /\ Chosen(t) \in S /\ g[Rest(t)] \in Sound
        BY <3>1, ChosenIsElement DEF Rest
      <4> QED BY <2>1, <3>1, <4>1 DEF Steps, F
    <3> QED BY <2>1, <3>1 DEF Steps
  <2>3. g = Body(g)
    BY <2>2
  <2> QED BY <2>3, Zenon
<1>6. iter = Body(iter)
  <2> HIDE DEF Body
  <2> QED BY <1>5, Zenon
<1> HIDE DEF iter
<1>7. iter[{}] = w /\ \A t \in SUBSET S : t # {} => iter[t] = Op(Chosen(t), iter[Rest(t)])
  BY <1>6
<1>8. \A t \in SUBSET S : iter[t] \in Sound
  <2>1. ASSUME NEW t \in SUBSET S, t # {}, iter[Rest(t)] \in Sound
        PROVE  iter[t] \in Sound
    BY <1>3, <1>7, <2>1, ChosenIsElement
  <2>2. iter[{}] \in Sound
    BY <1>7
  <2> QED BY <1>1, <2>1, <2>2, TraceKeeps
<1>9. iter[S] \in Sound
  BY <1>8
<1>10. ConfirmAllConsumedTrace(iter, w, O, p)
  BY <1>2, <1>7, <1>8, Zenon DEF ConfirmAllConsumedTrace, S, Op
<1> QED BY <1>2, <1>9, <1>10

\* FinishProposal: everything a proposal made or reserved is released.
LEMMA FinishProposalSound ==
  ASSUME NEW w \in Sound, NEW p \in Proposal
  PROVE  FinishProposal(w, p) \in Sound
<1> DEFINE created == ConfirmAllCreated(w, w.m.made[p], p)
           consumed(u) == ConfirmAllConsumed(u, u.m.used[p], p)
<1>1. ASSUME NEW u \in Sound
      PROVE  u.m.made[p] \in SUBSET Outpoint /\ u.m.used[p] \in SUBSET Outpoint
  BY DEF Sound, Work, Table
<1>2. created \in Sound
  BY <1>1, ConfirmAllCreatedLoop
<1>3. ASSUME NEW u \in Sound PROVE consumed(u) \in Sound
  BY <1>1, ConfirmAllConsumedLoop
<1> HIDE DEF created, consumed
<1>4. Then(created, LAMBDA u : consumed(u)) \in Sound
  BY <1>2, <1>3 DEF Then
<1> QED BY <1>4, Zenon DEF FinishProposal, created, consumed, ConfirmAllCreated, ConfirmAllConsumed

\* Output::process: the proposals associated with an output.
ConfirmProposals(w, P, o) == ForEach(P, LAMBDA p, v : ConfirmProposal(v, o, p), w)
ConfirmProposalsTrace(f, w, P, o) ==
  /\ ConfirmProposals(w, P, o) = f[P]
  /\ f[{}] = w
  /\ \A t \in SUBSET P : f[t] \in Sound
  /\ \A t \in SUBSET P : t # {} =>
       f[t] = IF f[Rest(t)].ok THEN ConfirmProposal(f[Rest(t)], o, Chosen(t)) ELSE f[Rest(t)]

\* The loop stays sound, and has a trace.
LEMMA ConfirmProposalsLoop ==
  ASSUME NEW w \in Sound, NEW P \in SUBSET Proposal, NEW o \in Outpoint
  PROVE  /\ ConfirmProposals(w, P, o) \in Sound
         /\ \E f : ConfirmProposalsTrace(f, w, P, o)
<1> DEFINE S == P
           Op(x, v) == IF v.ok THEN ConfirmProposal(v, o, x) ELSE v
           F == [x \in S |-> [v \in Sound |-> Op(x, v)]]
           Body(f) == [t \in SUBSET S |->
                         IF t = {} THEN w ELSE Op(Chosen(t), f[Rest(t)])]
           iter == CHOOSE f : f = Body(f)
<1>1. IsFiniteSet(S)
  <2>1. S \subseteq Transaction \cup Proposal
    OBVIOUS
  <2> QED BY <2>1, ConstantsAssumption, FS_Subset
<1>2. ConfirmProposals(w, P, o) = iter[S]
  BY Zenon DEF ConfirmProposals, ForEach, FoldSet, MapThenFoldSet, Chosen, Rest
<1>3. \A x \in S, v \in Sound : Op(x, v) \in Sound
  BY ConfirmProposalSound
<1> HIDE DEF S, Op
<1>4. F \in [S -> [Sound -> Sound]]
  BY <1>3
<1>5. \E f : f = Body(f)
  <2> HIDE DEF F
  <2>1. PICK g \in [SUBSET S -> Sound] : Steps(g, S, w, F)
    BY <1>1, <1>4, StepsExist
  <2>2. ASSUME NEW t \in SUBSET S
        PROVE  g[t] = IF t = {} THEN w ELSE Op(Chosen(t), g[Rest(t)])
    <3>1. CASE t # {}
      <4>1. Rest(t) \in SUBSET S /\ Chosen(t) \in S /\ g[Rest(t)] \in Sound
        BY <3>1, ChosenIsElement DEF Rest
      <4> QED BY <2>1, <3>1, <4>1 DEF Steps, F
    <3> QED BY <2>1, <3>1 DEF Steps
  <2>3. g = Body(g)
    BY <2>2
  <2> QED BY <2>3, Zenon
<1>6. iter = Body(iter)
  <2> HIDE DEF Body
  <2> QED BY <1>5, Zenon
<1> HIDE DEF iter
<1>7. iter[{}] = w /\ \A t \in SUBSET S : t # {} => iter[t] = Op(Chosen(t), iter[Rest(t)])
  BY <1>6
<1>8. \A t \in SUBSET S : iter[t] \in Sound
  <2>1. ASSUME NEW t \in SUBSET S, t # {}, iter[Rest(t)] \in Sound
        PROVE  iter[t] \in Sound
    BY <1>3, <1>7, <2>1, ChosenIsElement
  <2>2. iter[{}] \in Sound
    BY <1>7
  <2> QED BY <1>1, <2>1, <2>2, TraceKeeps
<1>9. iter[S] \in Sound
  BY <1>8
<1>10. ConfirmProposalsTrace(iter, w, P, o)
  BY <1>2, <1>7, <1>8, Zenon DEF ConfirmProposalsTrace, S, Op
<1> QED BY <1>2, <1>9, <1>10

\* add_transactions_in_block: the proposals that are finished.
CloseRows(w, P) == ForEach(P, LAMBDA p, v : CloseRow(v, p), w)
CloseRowsTrace(f, w, P) ==
  /\ CloseRows(w, P) = f[P]
  /\ f[{}] = w
  /\ \A t \in SUBSET P : f[t] \in Sound
  /\ \A t \in SUBSET P : t # {} =>
       f[t] = IF f[Rest(t)].ok THEN CloseRow(f[Rest(t)], Chosen(t)) ELSE f[Rest(t)]

\* The loop stays sound, and has a trace.
LEMMA CloseRowsLoop ==
  ASSUME NEW w \in Sound, NEW P \in SUBSET Proposal
  PROVE  /\ CloseRows(w, P) \in Sound
         /\ \E f : CloseRowsTrace(f, w, P)
<1> DEFINE S == P
           Op(x, v) == IF v.ok THEN CloseRow(v, x) ELSE v
           F == [x \in S |-> [v \in Sound |-> Op(x, v)]]
           Body(f) == [t \in SUBSET S |->
                         IF t = {} THEN w ELSE Op(Chosen(t), f[Rest(t)])]
           iter == CHOOSE f : f = Body(f)
<1>1. IsFiniteSet(S)
  <2>1. S \subseteq Transaction \cup Proposal
    OBVIOUS
  <2> QED BY <2>1, ConstantsAssumption, FS_Subset
<1>2. CloseRows(w, P) = iter[S]
  BY Zenon DEF CloseRows, ForEach, FoldSet, MapThenFoldSet, Chosen, Rest
<1>3. \A x \in S, v \in Sound : Op(x, v) \in Sound
  BY CloseRowSound
<1> HIDE DEF S, Op
<1>4. F \in [S -> [Sound -> Sound]]
  BY <1>3
<1>5. \E f : f = Body(f)
  <2> HIDE DEF F
  <2>1. PICK g \in [SUBSET S -> Sound] : Steps(g, S, w, F)
    BY <1>1, <1>4, StepsExist
  <2>2. ASSUME NEW t \in SUBSET S
        PROVE  g[t] = IF t = {} THEN w ELSE Op(Chosen(t), g[Rest(t)])
    <3>1. CASE t # {}
      <4>1. Rest(t) \in SUBSET S /\ Chosen(t) \in S /\ g[Rest(t)] \in Sound
        BY <3>1, ChosenIsElement DEF Rest
      <4> QED BY <2>1, <3>1, <4>1 DEF Steps, F
    <3> QED BY <2>1, <3>1 DEF Steps
  <2>3. g = Body(g)
    BY <2>2
  <2> QED BY <2>3, Zenon
<1>6. iter = Body(iter)
  <2> HIDE DEF Body
  <2> QED BY <1>5, Zenon
<1> HIDE DEF iter
<1>7. iter[{}] = w /\ \A t \in SUBSET S : t # {} => iter[t] = Op(Chosen(t), iter[Rest(t)])
  BY <1>6
<1>8. \A t \in SUBSET S : iter[t] \in Sound
  <2>1. ASSUME NEW t \in SUBSET S, t # {}, iter[Rest(t)] \in Sound
        PROVE  iter[t] \in Sound
    BY <1>3, <1>7, <2>1, ChosenIsElement
  <2>2. iter[{}] \in Sound
    BY <1>7
  <2> QED BY <1>1, <2>1, <2>2, TraceKeeps
<1>9. iter[S] \in Sound
  BY <1>8
<1>10. CloseRowsTrace(iter, w, P)
  BY <1>2, <1>7, <1>8, Zenon DEF CloseRowsTrace, S, Op
<1> QED BY <1>2, <1>9, <1>10

\* The proposals of an output are proposals.
LEMMA AssociatedType ==
  ASSUME NEW t \in Table, NEW o \in Outpoint
  PROVE  ToSet(t.assoc[o]) \in SUBSET Proposal
<1>1. t.assoc[o] \in Seq(Proposal)
  BY DEF Table
<1> QED BY <1>1 DEF ToSet

\* Output::process.
LEMMA ProcessOutputSound ==
  ASSUME NEW w \in Sound, NEW o \in Outpoint, NEW s \in TxoState,
         NEW q \in Position, NEW mempool \in BOOLEAN
  PROVE  ProcessOutput(w, o, s, q, mempool) \in Sound
<1> DEFINE proposals == IF mempool THEN {} ELSE ToSet(w.m.assoc[o])
           confirmed == ConfirmProposals(w, proposals, o)
           last(u) == IF w.m.state[o] = "absent" THEN CreateState(u, o, s, q, TRUE)
                      ELSE ChangeState(u, o, s, q)
<1>1. proposals \in SUBSET Proposal
  BY AssociatedType DEF Sound, Work
<1>2. confirmed \in Sound
  <2> HIDE DEF proposals
  <2> QED BY <1>1, ConfirmProposalsLoop
<1>3. ASSUME NEW u \in Sound PROVE last(u) \in Sound
  BY CreateStateSound, ChangeStateSound
<1> HIDE DEF confirmed, last, proposals
<1>4. Then(confirmed, LAMBDA u : last(u)) \in Sound
  BY <1>2, <1>3 DEF Then
<1> QED BY <1>4, Zenon DEF ProcessOutput, confirmed, last, proposals, ConfirmProposals

\* add_transactions_in_block: the outputs of a block, each in its final state.
ProcessOutputs(w, O, final, q, mempool) == ForEach(O, LAMBDA o, v : ProcessOutput(v, o, final[o], q, mempool), w)
ProcessOutputsTrace(f, w, O, final, q, mempool) ==
  /\ ProcessOutputs(w, O, final, q, mempool) = f[O]
  /\ f[{}] = w
  /\ \A t \in SUBSET O : f[t] \in Sound
  /\ \A t \in SUBSET O : t # {} =>
       f[t] = IF f[Rest(t)].ok THEN ProcessOutput(f[Rest(t)], Chosen(t), final[Chosen(t)], q, mempool) ELSE f[Rest(t)]

\* The loop stays sound, and has a trace.
LEMMA ProcessOutputsLoop ==
  ASSUME NEW w \in Sound, NEW O \in SUBSET Outpoint,
         NEW final, \A o \in O : final[o] \in TxoState,
         NEW q \in Position, NEW mempool \in BOOLEAN
  PROVE  /\ ProcessOutputs(w, O, final, q, mempool) \in Sound
         /\ \E f : ProcessOutputsTrace(f, w, O, final, q, mempool)
<1> DEFINE S == O
           Op(x, v) == IF v.ok THEN ProcessOutput(v, x, final[x], q, mempool) ELSE v
           F == [x \in S |-> [v \in Sound |-> Op(x, v)]]
           Body(f) == [t \in SUBSET S |->
                         IF t = {} THEN w ELSE Op(Chosen(t), f[Rest(t)])]
           iter == CHOOSE f : f = Body(f)
<1>1. IsFiniteSet(S)
  BY ConstantsAssumption, FS_Subset
<1>2. ProcessOutputs(w, O, final, q, mempool) = iter[S]
  BY Zenon DEF ProcessOutputs, ForEach, FoldSet, MapThenFoldSet, Chosen, Rest
<1>3. \A x \in S, v \in Sound : Op(x, v) \in Sound
  BY ProcessOutputSound
<1> HIDE DEF S, Op
<1>4. F \in [S -> [Sound -> Sound]]
  BY <1>3
<1>5. \E f : f = Body(f)
  <2> HIDE DEF F
  <2>1. PICK g \in [SUBSET S -> Sound] : Steps(g, S, w, F)
    BY <1>1, <1>4, StepsExist
  <2>2. ASSUME NEW t \in SUBSET S
        PROVE  g[t] = IF t = {} THEN w ELSE Op(Chosen(t), g[Rest(t)])
    <3>1. CASE t # {}
      <4>1. Rest(t) \in SUBSET S /\ Chosen(t) \in S /\ g[Rest(t)] \in Sound
        BY <3>1, ChosenIsElement DEF Rest
      <4> QED BY <2>1, <3>1, <4>1 DEF Steps, F
    <3> QED BY <2>1, <3>1 DEF Steps
  <2>3. g = Body(g)
    BY <2>2
  <2> QED BY <2>3, Zenon
<1>6. iter = Body(iter)
  <2> HIDE DEF Body
  <2> QED BY <1>5, Zenon
<1> HIDE DEF iter
<1>7. iter[{}] = w /\ \A t \in SUBSET S : t # {} => iter[t] = Op(Chosen(t), iter[Rest(t)])
  BY <1>6
<1>8. \A t \in SUBSET S : iter[t] \in Sound
  <2>1. ASSUME NEW t \in SUBSET S, t # {}, iter[Rest(t)] \in Sound
        PROVE  iter[t] \in Sound
    BY <1>3, <1>7, <2>1, ChosenIsElement
  <2>2. iter[{}] \in Sound
    BY <1>7
  <2> QED BY <1>1, <2>1, <2>2, TraceKeeps
<1>9. iter[S] \in Sound
  BY <1>8
<1>10. ProcessOutputsTrace(iter, w, O, final, q, mempool)
  BY <1>2, <1>7, <1>8, Zenon DEF ProcessOutputsTrace, S, Op
<1> QED BY <1>2, <1>9, <1>10

\* What transactions create and consume are outputs of the wallet.
LEMMA CreatedConsumedType ==
  ASSUME NEW txs \in SUBSET Tx, inputs \in [Proposal -> SUBSET Outpoint]
  PROVE  Created(txs) \in SUBSET Outpoint /\ Consumed(txs) \in SUBSET Outpoint
BY ConstantsAssumption DEF Created, Consumed, Inputs, Tx

\* ParsedBlockMatches: the state each output of the block ends in.
LEMMA ParseType ==
  ASSUME NEW m \in Table, NEW txs \in SUBSET Tx, NEW q \in Position,
         NEW mempool \in BOOLEAN, inputs \in [Proposal -> SUBSET Outpoint]
  PROVE  LET final == Parse(m, txs, q, mempool).final
         IN /\ DOMAIN final \in SUBSET Outpoint
            /\ final \in [DOMAIN final -> TxoState]
<1> DEFINE spend == IF mempool THEN "UnconfirmedSpend" ELSE "ConfirmedSpend"
           new == [o \in Created(txs) |-> CreatedState(m, txs, o, q, mempool)]
           To(o) == IF m.state[o] = "absent" THEN "allowed"
                    ELSE Transition(m.state[o], new[o])
           creates == {o \in Created(txs) : To(o) = "allowed"}
           from == [o \in Consumed(txs) |->
                      IF o \in creates THEN new[o] ELSE m.state[o]]
           consumes == {o \in Consumed(txs) :
                          from[o] # "absent" /\ Transition(from[o], spend) = "allowed"}
           final == [o \in creates \cup consumes |->
                       IF o \in consumes THEN spend ELSE new[o]]
<1>1. Created(txs) \in SUBSET Outpoint /\ Consumed(txs) \in SUBSET Outpoint
  BY CreatedConsumedType
<1>2. Parse(m, txs, q, mempool).final = final
  BY DEF Parse
<1>3. spend \in TxoState
  BY DEF TxoState, Spent
<1>4. \A o \in creates : new[o] \in TxoState
  BY DEF CreatedState, TxoState, New
<1>5. creates \cup consumes \in SUBSET Outpoint
  BY <1>1
<1> HIDE DEF spend, new, creates, consumes
<1>6. final \in [creates \cup consumes -> TxoState]
  BY <1>3, <1>4
<1>7. DOMAIN final = creates \cup consumes
  OBVIOUS
<1> HIDE DEF final
<1> QED BY <1>2, <1>5, <1>6, <1>7

\* add_transactions_in_block.
LEMMA AddTransactionsSound ==
  ASSUME NEW w \in Sound, NEW q \in Position, NEW txs \in SUBSET Tx,
         NEW mempool \in BOOLEAN, inputs \in [Proposal -> SUBSET Outpoint]
  PROVE  AddTransactions(w, q, txs, mempool) \in Sound
<1> DEFINE parsed == Parse(w.m, txs, q, mempool)
           result == parsed.final
           touched == UNION {ToSet(w.m.assoc[o]) : o \in DOMAIN result}
           Finished(m) == {p \in touched : m.made[p] = {} /\ m.used[p] = {}}
           processed == ProcessOutputs(w, DOMAIN result, result, q, mempool)
           closed(u) == IF mempool THEN u
                        ELSE CloseRows(u, Finished(u.m))
<1>1. w.m \in Table
  BY DEF Sound, Work
<1>2. DOMAIN result \in SUBSET Outpoint /\ result \in [DOMAIN result -> TxoState]
  BY <1>1, ParseType
<1>3. touched \in SUBSET Proposal
  <2> HIDE DEF result
  <2> QED BY <1>1, <1>2, AssociatedType
<1>4. processed \in Sound
  <2> HIDE DEF result
  <2>1. \A o \in DOMAIN result : result[o] \in TxoState
    BY <1>2
  <2> QED BY <1>2, <2>1, ProcessOutputsLoop
<1>5. ASSUME NEW u \in Sound PROVE closed(u) \in Sound
  <2>1. Finished(u.m) \in SUBSET Proposal
    <3> HIDE DEF touched
    <3> QED BY <1>3
  <2> HIDE DEF Finished
  <2>2. CloseRows(u, Finished(u.m)) \in Sound
    BY <2>1, CloseRowsLoop
  <2> QED BY <2>2
<1> HIDE DEF processed, closed
<1>6. Then(processed, LAMBDA u : closed(u)) \in Sound
  BY <1>4, <1>5 DEF Then
<1> QED BY <1>6, ThrowSound, Zenon DEF AddTransactions, processed, closed,
     ProcessOutputs, CloseRows

-----------------------------------------------------------------------------
(* Several blocks in one call. *)

\* A chain of blocks has a sequence of branches as long as it is.
LEMMA BranchesType ==
  ASSUME NEW c \in Seq(Block)
  PROVE  /\ [h \in DOMAIN c |-> c[h].branch] \in Seq(Nat)
         /\ Len([h \in DOMAIN c |-> c[h].branch]) = Len(c)
         /\ \A h \in DOMAIN c : c[h] \in Block /\ c[h].txs \in SUBSET Tx
<1>0. \A h \in DOMAIN c : c[h] \in Block
  OBVIOUS
<1>1. \A h \in DOMAIN c : c[h] \in Block /\ c[h].branch \in Nat /\ c[h].txs \in SUBSET Tx
  BY <1>0 DEF Block
<1>2. DOMAIN c = 1..Len(c) /\ Len(c) \in Nat
  OBVIOUS
<1> DEFINE tip == [h \in DOMAIN c |-> c[h].branch]
<1>3. tip \in [1..Len(c) -> Nat]
  BY <1>1, <1>2
<1> HIDE DEF tip
<1>4. tip \in Seq(Nat) /\ Len(tip) = Len(c)
  BY <1>2, <1>3
<1> QED BY <1>1, <1>4 DEF tip

\* The position of the best chain and of each of its blocks.
LEMMA TipType ==
  ASSUME chain \in Seq(Block)
  PROVE  /\ Tip \in Seq(Nat) /\ Len(Tip) = Len(chain)
         /\ \A h \in 0..Len(chain) : Upto(h) \in Seq(Nat)
         /\ \A h \in DOMAIN chain : chain[h] \in Block /\ chain[h].txs \in SUBSET Tx
<1>1. Tip \in Seq(Nat) /\ Len(Tip) = Len(chain)
  BY BranchesType DEF Tip
<1>2. ASSUME NEW h \in 0..Len(chain) PROVE Upto(h) \in Seq(Nat)
  BY <1>1 DEF Upto
<1> QED BY <1>1, <1>2, BranchesType

\* AddConfirmedTransactions keeps what a block keeps.
LEMMA AddBlocksKeeps ==
  ASSUME NEW T, NEW w \in T, chain \in Seq(Block),
         NEW a \in Nat, NEW b \in Nat, 1 <= a, a <= b, b <= Len(chain),
         \A v \in T, h \in DOMAIN chain :
           v.ok => AddTransactions(v, Upto(h), chain[h].txs, FALSE) \in T
  PROVE  AddBlocks(w, a, b) \in T
<1> DEFINE K == b - a + 1
           Op(n, v) == IF v.ok THEN AddTransactions(v, Upto(a + n - 1), chain[a + n - 1].txs, FALSE)
                       ELSE v
           H == [n \in 1..K |-> [v \in T |-> Op(n, v)]]
           Body(f) == [n \in 0..K |-> IF n = 0 THEN w ELSE Op(n, f[n - 1])]
           iter == CHOOSE f : f = Body(f)
<1>1. K \in Nat /\ \A n \in 1..K : a + n - 1 \in 0..Len(chain) /\ a + n - 1 \in DOMAIN chain
  OBVIOUS
<1>2. AddBlocks(w, a, b) = iter[K]
  BY Zenon DEF AddBlocks, Then
<1>3. \A n \in 1..K, v \in T : Op(n, v) \in T
  <2>1. ASSUME NEW n \in 1..K, NEW v \in T PROVE Op(n, v) \in T
    BY <1>1
  <2> QED BY <2>1
<1> HIDE DEF K, Op
<1>4. H \in [1..K -> [T -> T]]
  BY <1>3
<1>5. \E f : f = Body(f)
  <2>1. PICK g \in [0..K -> T] : g[0] = w /\ \A i \in 1..K : g[i] = H[i][g[i - 1]]
    <3> HIDE DEF H
    <3>1. w \in T /\ H \in [1..K -> [T -> T]] /\ K \in Nat
      BY <1>1, <1>4
    <3>2. \E f \in [0..K -> T] : f[0] = w /\ \A i \in 1..K : f[i] = H[i][f[i - 1]]
      BY ONLY <3>1, Iteration, SMTT(20)
    <3> QED BY <3>2
  <2>2. ASSUME NEW n \in 0..K
        PROVE  g[n] = IF n = 0 THEN w ELSE Op(n, g[n - 1])
    <3>1. CASE n # 0
      <4>1. n \in 1..K /\ n - 1 \in 0..K
        BY <1>1, <3>1
      <4>2. g[n - 1] \in T
        BY <4>1
      <4>3. H[n][g[n - 1]] = Op(n, g[n - 1])
        BY <4>1, <4>2
      <4> QED BY <2>1, <3>1, <4>1, <4>3
    <3> QED BY <2>1, <3>1
  <2>3. g = Body(g)
    BY <2>2
  <2> QED BY <2>3, Zenon
<1>6. iter = Body(iter)
  <2> HIDE DEF Body
  <2> QED BY <1>5, Zenon
<1> HIDE DEF iter
<1>7. iter[0] = w /\ \A n \in 1..K : iter[n] = Op(n, iter[n - 1])
  BY <1>1, <1>6
<1> DEFINE G == {n \in Nat : n <= K => iter[n] \in T}
<1>8. 0 \in G
  BY <1>7
<1>9. ASSUME NEW n \in Nat, n \in G PROVE n + 1 \in G
  <2>1. SUFFICES ASSUME n + 1 <= K PROVE iter[n + 1] \in T
    OBVIOUS
  <2>2. iter[n] \in T /\ n + 1 \in 1..K /\ (n + 1) - 1 = n
    BY <1>1, <1>9, <2>1
  <2> QED BY <1>3, <1>7, <2>2
<1>10. K \in G
  <2> HIDE DEF G
  <2> QED BY <1>1, <1>8, <1>9, Induction
<1> QED BY <1>1, <1>2, <1>10

\* AddConfirmedTransactions.
LEMMA AddBlocksSound ==
  ASSUME NEW w \in Sound, chain \in Seq(Block), inputs \in [Proposal -> SUBSET Outpoint],
         NEW a \in Nat, NEW b \in Nat, 1 <= a, a <= b, b <= Len(chain)
  PROVE  AddBlocks(w, a, b) \in Sound
<1>1. ASSUME NEW v \in Sound, NEW h \in DOMAIN chain
      PROVE  AddTransactions(v, Upto(h), chain[h].txs, FALSE) \in Sound
  <2>1. h \in 0..Len(chain)
    OBVIOUS
  <2>2. Upto(h) \in Position /\ chain[h].txs \in SUBSET Tx
    BY <2>1, TipType DEF Position
  <2> QED BY <2>2, AddTransactionsSound
<1> QED BY <1>1, AddBlocksKeeps

-----------------------------------------------------------------------------
(* The position of the wallet, and reorgs. *)

\* AdvanceTo: an output that has matured.
Mature(v, o, q) ==
  IF v.m.state[o] = "ConfirmedNew" THEN v ELSE ChangeState(v, o, "ConfirmedNew", q)

\* It stays sound.
LEMMA MatureSound ==
  ASSUME NEW w \in Sound, NEW o \in Outpoint, NEW q \in Position
  PROVE  Mature(w, o, q) \in Sound
BY ChangeStateSound DEF Mature, TxoState, New

\* StartReorg: an output at a position that is rolled back.
Back(v, o, q) ==
  CASE v.m.state[o] \in {"ConfirmedNew", "OrphanedNew"} ->
         ChangeState(v, o, "UnconfirmedNew", q)
    [] v.m.state[o] \in {"ConfirmedSpend", "OrphanedSpend"} ->
         ChangeState(v, o, "UnconfirmedSpend", q)
    [] OTHER -> v

\* It stays sound.
LEMMA BackSound ==
  ASSUME NEW w \in Sound, NEW o \in Outpoint, NEW q \in Position
  PROVE  Back(w, o, q) \in Sound
BY ChangeStateSound DEF Back, TxoState, New, Spent

\* AdvanceTo: the outputs that mature.
MatureAll(w, O, q) == ForEach(O, LAMBDA o, v : Mature(v, o, q), w)
MatureAllTrace(f, w, O, q) ==
  /\ MatureAll(w, O, q) = f[O]
  /\ f[{}] = w
  /\ \A t \in SUBSET O : f[t] \in Sound
  /\ \A t \in SUBSET O : t # {} =>
       f[t] = IF f[Rest(t)].ok THEN Mature(f[Rest(t)], Chosen(t), q) ELSE f[Rest(t)]

\* The loop stays sound, and has a trace.
LEMMA MatureAllLoop ==
  ASSUME NEW w \in Sound, NEW O \in SUBSET Outpoint, NEW q \in Position
  PROVE  /\ MatureAll(w, O, q) \in Sound
         /\ \E f : MatureAllTrace(f, w, O, q)
<1> DEFINE S == O
           Op(x, v) == IF v.ok THEN Mature(v, x, q) ELSE v
           F == [x \in S |-> [v \in Sound |-> Op(x, v)]]
           Body(f) == [t \in SUBSET S |->
                         IF t = {} THEN w ELSE Op(Chosen(t), f[Rest(t)])]
           iter == CHOOSE f : f = Body(f)
<1>1. IsFiniteSet(S)
  BY ConstantsAssumption, FS_Subset
<1>2. MatureAll(w, O, q) = iter[S]
  BY Zenon DEF MatureAll, ForEach, FoldSet, MapThenFoldSet, Chosen, Rest
<1>3. \A x \in S, v \in Sound : Op(x, v) \in Sound
  BY MatureSound
<1> HIDE DEF S, Op
<1>4. F \in [S -> [Sound -> Sound]]
  BY <1>3
<1>5. \E f : f = Body(f)
  <2> HIDE DEF F
  <2>1. PICK g \in [SUBSET S -> Sound] : Steps(g, S, w, F)
    BY <1>1, <1>4, StepsExist
  <2>2. ASSUME NEW t \in SUBSET S
        PROVE  g[t] = IF t = {} THEN w ELSE Op(Chosen(t), g[Rest(t)])
    <3>1. CASE t # {}
      <4>1. Rest(t) \in SUBSET S /\ Chosen(t) \in S /\ g[Rest(t)] \in Sound
        BY <3>1, ChosenIsElement DEF Rest
      <4> QED BY <2>1, <3>1, <4>1 DEF Steps, F
    <3> QED BY <2>1, <3>1 DEF Steps
  <2>3. g = Body(g)
    BY <2>2
  <2> QED BY <2>3, Zenon
<1>6. iter = Body(iter)
  <2> HIDE DEF Body
  <2> QED BY <1>5, Zenon
<1> HIDE DEF iter
<1>7. iter[{}] = w /\ \A t \in SUBSET S : t # {} => iter[t] = Op(Chosen(t), iter[Rest(t)])
  BY <1>6
<1>8. \A t \in SUBSET S : iter[t] \in Sound
  <2>1. ASSUME NEW t \in SUBSET S, t # {}, iter[Rest(t)] \in Sound
        PROVE  iter[t] \in Sound
    BY <1>3, <1>7, <2>1, ChosenIsElement
  <2>2. iter[{}] \in Sound
    BY <1>7
  <2> QED BY <1>1, <2>1, <2>2, TraceKeeps
<1>9. iter[S] \in Sound
  BY <1>8
<1>10. MatureAllTrace(iter, w, O, q)
  BY <1>2, <1>7, <1>8, Zenon DEF MatureAllTrace, S, Op
<1> QED BY <1>2, <1>9, <1>10

\* StartReorg: the outputs at the position.
BackAll(w, O, q) == ForEach(O, LAMBDA o, v : Back(v, o, q), w)
BackAllTrace(f, w, O, q) ==
  /\ BackAll(w, O, q) = f[O]
  /\ f[{}] = w
  /\ \A t \in SUBSET O : f[t] \in Sound
  /\ \A t \in SUBSET O : t # {} =>
       f[t] = IF f[Rest(t)].ok THEN Back(f[Rest(t)], Chosen(t), q) ELSE f[Rest(t)]

\* The loop stays sound, and has a trace.
LEMMA BackAllLoop ==
  ASSUME NEW w \in Sound, NEW O \in SUBSET Outpoint, NEW q \in Position
  PROVE  /\ BackAll(w, O, q) \in Sound
         /\ \E f : BackAllTrace(f, w, O, q)
<1> DEFINE S == O
           Op(x, v) == IF v.ok THEN Back(v, x, q) ELSE v
           F == [x \in S |-> [v \in Sound |-> Op(x, v)]]
           Body(f) == [t \in SUBSET S |->
                         IF t = {} THEN w ELSE Op(Chosen(t), f[Rest(t)])]
           iter == CHOOSE f : f = Body(f)
<1>1. IsFiniteSet(S)
  BY ConstantsAssumption, FS_Subset
<1>2. BackAll(w, O, q) = iter[S]
  BY Zenon DEF BackAll, ForEach, FoldSet, MapThenFoldSet, Chosen, Rest
<1>3. \A x \in S, v \in Sound : Op(x, v) \in Sound
  BY BackSound
<1> HIDE DEF S, Op
<1>4. F \in [S -> [Sound -> Sound]]
  BY <1>3
<1>5. \E f : f = Body(f)
  <2> HIDE DEF F
  <2>1. PICK g \in [SUBSET S -> Sound] : Steps(g, S, w, F)
    BY <1>1, <1>4, StepsExist
  <2>2. ASSUME NEW t \in SUBSET S
        PROVE  g[t] = IF t = {} THEN w ELSE Op(Chosen(t), g[Rest(t)])
    <3>1. CASE t # {}
      <4>1. Rest(t) \in SUBSET S /\ Chosen(t) \in S /\ g[Rest(t)] \in Sound
        BY <3>1, ChosenIsElement DEF Rest
      <4> QED BY <2>1, <3>1, <4>1 DEF Steps, F
    <3> QED BY <2>1, <3>1 DEF Steps
  <2>3. g = Body(g)
    BY <2>2
  <2> QED BY <2>3, Zenon
<1>6. iter = Body(iter)
  <2> HIDE DEF Body
  <2> QED BY <1>5, Zenon
<1> HIDE DEF iter
<1>7. iter[{}] = w /\ \A t \in SUBSET S : t # {} => iter[t] = Op(Chosen(t), iter[Rest(t)])
  BY <1>6
<1>8. \A t \in SUBSET S : iter[t] \in Sound
  <2>1. ASSUME NEW t \in SUBSET S, t # {}, iter[Rest(t)] \in Sound
        PROVE  iter[t] \in Sound
    BY <1>3, <1>7, <2>1, ChosenIsElement
  <2>2. iter[{}] \in Sound
    BY <1>7
  <2> QED BY <1>1, <2>1, <2>2, TraceKeeps
<1>9. iter[S] \in Sound
  BY <1>8
<1>10. BackAllTrace(iter, w, O, q)
  BY <1>2, <1>7, <1>8, Zenon DEF BackAllTrace, S, Op
<1> QED BY <1>2, <1>9, <1>10

\* FinalizeReorg and FinalizeProposal: outputs that take the same state.
SetStates(w, O, s, q) == ForEach(O, LAMBDA o, v : ChangeState(v, o, s, q), w)
SetStatesTrace(f, w, O, s, q) ==
  /\ SetStates(w, O, s, q) = f[O]
  /\ f[{}] = w
  /\ \A t \in SUBSET O : f[t] \in Sound
  /\ \A t \in SUBSET O : t # {} =>
       f[t] = IF f[Rest(t)].ok THEN ChangeState(f[Rest(t)], Chosen(t), s, q) ELSE f[Rest(t)]

\* The loop stays sound, and has a trace.
LEMMA SetStatesLoop ==
  ASSUME NEW w \in Sound, NEW O \in SUBSET Outpoint, NEW s \in TxoState, NEW q \in Position
  PROVE  /\ SetStates(w, O, s, q) \in Sound
         /\ \E f : SetStatesTrace(f, w, O, s, q)
<1> DEFINE S == O
           Op(x, v) == IF v.ok THEN ChangeState(v, x, s, q) ELSE v
           F == [x \in S |-> [v \in Sound |-> Op(x, v)]]
           Body(f) == [t \in SUBSET S |->
                         IF t = {} THEN w ELSE Op(Chosen(t), f[Rest(t)])]
           iter == CHOOSE f : f = Body(f)
<1>1. IsFiniteSet(S)
  BY ConstantsAssumption, FS_Subset
<1>2. SetStates(w, O, s, q) = iter[S]
  BY Zenon DEF SetStates, ForEach, FoldSet, MapThenFoldSet, Chosen, Rest
<1>3. \A x \in S, v \in Sound : Op(x, v) \in Sound
  BY ChangeStateSound
<1> HIDE DEF S, Op
<1>4. F \in [S -> [Sound -> Sound]]
  BY <1>3
<1>5. \E f : f = Body(f)
  <2> HIDE DEF F
  <2>1. PICK g \in [SUBSET S -> Sound] : Steps(g, S, w, F)
    BY <1>1, <1>4, StepsExist
  <2>2. ASSUME NEW t \in SUBSET S
        PROVE  g[t] = IF t = {} THEN w ELSE Op(Chosen(t), g[Rest(t)])
    <3>1. CASE t # {}
      <4>1. Rest(t) \in SUBSET S /\ Chosen(t) \in S /\ g[Rest(t)] \in Sound
        BY <3>1, ChosenIsElement DEF Rest
      <4> QED BY <2>1, <3>1, <4>1 DEF Steps, F
    <3> QED BY <2>1, <3>1 DEF Steps
  <2>3. g = Body(g)
    BY <2>2
  <2> QED BY <2>3, Zenon
<1>6. iter = Body(iter)
  <2> HIDE DEF Body
  <2> QED BY <1>5, Zenon
<1> HIDE DEF iter
<1>7. iter[{}] = w /\ \A t \in SUBSET S : t # {} => iter[t] = Op(Chosen(t), iter[Rest(t)])
  BY <1>6
<1>8. \A t \in SUBSET S : iter[t] \in Sound
  <2>1. ASSUME NEW t \in SUBSET S, t # {}, iter[Rest(t)] \in Sound
        PROVE  iter[t] \in Sound
    BY <1>3, <1>7, <2>1, ChosenIsElement
  <2>2. iter[{}] \in Sound
    BY <1>7
  <2> QED BY <1>1, <2>1, <2>2, TraceKeeps
<1>9. iter[S] \in Sound
  BY <1>8
<1>10. SetStatesTrace(iter, w, O, s, q)
  BY <1>2, <1>7, <1>8, Zenon DEF SetStatesTrace, S, Op
<1> QED BY <1>2, <1>9, <1>10

\* The wallet's position alone.
LEMMA TipSound ==
  ASSUME NEW v \in Sound, NEW q \in Seq(Nat)
  PROVE  [v EXCEPT !.m.tip = q, !.d.tip = q] \in Sound
<1> DEFINE x == [v EXCEPT !.m.tip = q, !.d.tip = q]
<1>1. v \in Work /\ v.m \in Table /\ v.d \in Table
  BY DEF Sound, Work
<1>2. x = [v EXCEPT !.m = [v.m EXCEPT !.tip = q], !.d = [v.d EXCEPT !.tip = q]]
  BY <1>1 DEF Work
<1>3. [v.m EXCEPT !.tip = q] \in Table /\ [v.d EXCEPT !.tip = q] \in Table
  BY <1>1 DEF Table
<1>4. x \in Work
  BY <1>1, <1>2, <1>3 DEF Work
<1>5. /\ x.m.state = v.m.state /\ x.m.pos = v.m.pos /\ x.m.at = v.m.at
      /\ x.d.state = v.d.state /\ x.d.pos = v.d.pos /\ x.d.at = v.d.at
      /\ x.d.twice = v.d.twice /\ x.d.assoc = v.d.assoc
  BY <1>1, <1>2 DEF Work, Table
<1> HIDE DEF x
<1>6. x \in Sound
  BY <1>4, <1>5, BookkeepingSound DEF Sound, OnRecord
<1> QED BY <1>6 DEF x

\* Output::AdvanceTo.
LEMMA AdvanceToSound ==
  ASSUME NEW w \in Sound, NEW q \in Seq(Nat)
  PROVE  AdvanceTo(w, q) \in Sound
<1> DEFINE first == IF Height(w.m.tip) > Maturity THEN Height(w.m.tip) - Maturity ELSE 0
           matured == {g[2] : g \in {g \in w.m.gen :
                         first <= g[1] /\ g[1] <= Height(q) - Maturity}}
           all == MatureAll(w, matured, q)
           Moved(v) == [v EXCEPT !.m.tip = q, !.d.tip = q]
<1>1. w.m.gen \subseteq Int \X Outpoint /\ q \in Position
  BY DEF Sound, Work, Table, Position
<1>2. matured \in SUBSET Outpoint
  BY <1>1
<1>3. all \in Sound
  <2> HIDE DEF matured
  <2> QED BY <1>1, <1>2, MatureAllLoop
<1>4. ASSUME NEW v \in Sound PROVE Moved(v) \in Sound
  BY TipSound
<1>5. AdvanceTo(w, q) = IF ~Advances(w.m, q) THEN w ELSE Then(all, LAMBDA v : Moved(v))
  BY Zenon DEF AdvanceTo, MatureAll, Mature
<1> HIDE DEF all, Moved
<1>6. Then(all, LAMBDA v : Moved(v)) \in Sound
  BY <1>3, <1>4 DEF Then
<1> QED BY <1>5, <1>6

\* Output::StartReorg.
LEMMA UnconfirmSound ==
  ASSUME NEW w \in Sound, NEW q \in Position
  PROVE  Unconfirm(w, q) \in Sound
<1> DEFINE O == {o \in Outpoint : <<q, o>> \in w.m.at}
<1>1. BackAll(w, O, q) \in Sound
  BY BackAllLoop
<1>2. Unconfirm(w, q) = BackAll(w, O, q)
  BY Zenon DEF Unconfirm, BackAll, Back
<1> QED BY <1>1, <1>2

\* The common parent of a position and the best chain exists.
LEMMA CommonParentType ==
  ASSUME chain \in Seq(Block), NEW q \in Seq(Nat)
  PROVE  CommonParent(q) \in Seq(Nat)
<1> DEFINE C == CommonPrefixes({q, Tip})
           L == {n \in Nat : \E c \in C : n = Len(q) - Len(c)}
<1>0. Tip \in Seq(Nat)
  BY TipType
<1>1. ASSUME NEW s \in Seq(Nat), NEW l \in 0..Len(s)
      PROVE  SubSeq(s, 1, l) \in Seq(Nat)
  OBVIOUS
<1>2. \A c \in C : c \in Seq(Nat) /\ Len(c) <= Len(q)
  <2>1. ASSUME NEW c \in C PROVE c \in Seq(Nat) /\ Len(c) <= Len(q)
    <3>1. PICK s \in {q, Tip} : c \in Prefixes(s)
      BY <2>1 DEF CommonPrefixes
    <3>2. PICK l \in 0..Len(s) : c = SubSeq(s, 1, l)
      BY <3>1 DEF Prefixes
    <3>3. c \in Seq(Nat)
      BY <1>0, <1>1, <3>2
    <3>4. IsPrefix(c, q)
      BY <2>1 DEF CommonPrefixes
    <3> QED BY <3>3, <3>4 DEF IsPrefix
  <2> QED BY <2>1
<1>3. SubSeq(q, 1, 0) \in C
  <2> DEFINE e == SubSeq(q, 1, 0)
  <2>1. e = <<>> /\ Len(e) = 0
    OBVIOUS
  <2>2. e \in Prefixes(q)
    <3>1. 0 \in 0..Len(q)
      OBVIOUS
    <3> QED BY <3>1, Zenon DEF Prefixes
  <2>3. ASSUME NEW t \in {q, Tip} PROVE IsPrefix(e, t)
    <3>1. t \in Seq(Nat)
      BY <1>0
    <3>2. SubSeq(t, 1, 0) = <<>> /\ SubSeq(<<>>, 1, 0) = <<>> /\ 0 <= Len(t)
      BY <3>1
    <3> HIDE DEF e
    <3> QED BY <2>1, <3>2 DEF IsPrefix
  <2> HIDE DEF e
  <2>4. e \in C
    BY <2>2, <2>3 DEF CommonPrefixes
  <2> QED BY <2>4 DEF e
<1> HIDE DEF C
<1>4. L # {} /\ L \subseteq Nat
  <2>1. Len(q) - Len(SubSeq(q, 1, 0)) \in Nat
    OBVIOUS
  <2> QED BY <1>3, <2>1
<1>5. PICK n \in L : \A k \in L : n <= k
  <2> HIDE DEF L
  <2> QED BY <1>4, NatMinimum
<1>6. PICK c \in C : n = Len(q) - Len(c)
  BY <1>5
<1>7. \A d \in C : Len(d) <= Len(c)
  <2>1. ASSUME NEW d \in C PROVE Len(d) <= Len(c)
    <3>1. c \in Seq(Nat) /\ d \in Seq(Nat) /\ Len(d) <= Len(q)
      BY <1>2
    <3>2. Len(q) - Len(d) \in L
      BY <3>1
    <3>3. n <= Len(q) - Len(d)
      BY <1>5, <3>2
    <3> QED BY <1>6, <3>1, <3>3
  <2> QED BY <2>1
<1>8. LongestCommonPrefix({q, Tip}) \in C
  BY <1>7, Zenon DEF LongestCommonPrefix, C
<1>9. q # Blank
  <2>1. Len(q) = 1 => q[1] \in Nat
    BY Len(q) = 1 => 1 \in 1..Len(q)
  <2>2. Len(Blank) = 1 /\ Blank[1] = -1 /\ -1 \notin Nat
    BY DEF Blank
  <2> QED BY <2>1, <2>2
<1> QED BY <1>2, <1>8, <1>9 DEF CommonParent

\* The blocks between the two are finitely many.
LEMMA OrphanedType ==
  ASSUME chain \in Seq(Block), NEW q \in Seq(Nat)
  PROVE  Orphaned(q) \in SUBSET Position /\ IsFiniteSet(Orphaned(q))
<1> DEFINE I == (Len(CommonParent(q)) + 1)..Len(q)
           T == {SubSeq(q, 1, h) : h \in I}
           f == [h \in I |-> SubSeq(q, 1, h)]
<1>1. Len(CommonParent(q)) \in Nat
  BY CommonParentType
<1>2. I \subseteq 0..Len(q)
  BY <1>1
<1>3. T \in SUBSET Position
  <2>1. ASSUME NEW h \in I PROVE SubSeq(q, 1, h) \in Seq(Nat)
    BY <1>2
  <2> QED BY <2>1 DEF Position
<1>4. IsFiniteSet(I)
  BY <1>1, FS_Interval
<1>5. f \in Surjection(I, T)
  BY DEF Surjection
<1>6. IsFiniteSet(T)
  <2> HIDE DEF f, T, I
  <2> QED BY <1>4, <1>5, FS_Surjection
<1> QED BY <1>3, <1>6, FS_EmptySet DEF Orphaned

\* DeleteGenerationAbove: only the indices of coinbases change.
LEMMA DeleteGenerationAboveSound ==
  ASSUME NEW w \in Sound, NEW good, NEW skip
  PROVE  DeleteGenerationAbove(w, good, skip) \in Sound
<1> DEFINE rows == (w.m.gen \X {1}) \cup (w.m.twice \X {2})
           above == {r \in rows : r[1][1] >= good} \ (skip \X {1})
           gone == {r[1] : r \in above}
           heights == {g[1] : g \in gone}
           mgen == {r[1] : r \in rows \ above}
           mtwice == w.m.twice \ gone
           dgen == {g \in w.d.gen : g[1] \notin heights}
           v == [w EXCEPT !.m.gen = mgen, !.m.twice = mtwice, !.d.gen = dgen]
<1>1. w \in Work /\ w.m \in Table /\ w.d \in Table
  BY DEF Sound, Work
<1>2. mgen \subseteq w.m.gen \cup w.m.twice
  <2> HIDE DEF above
  <2> QED OBVIOUS
<1>3. mgen \in SUBSET (Int \X Outpoint) /\ mtwice \in SUBSET (Int \X Outpoint)
  <2> HIDE DEF mgen, gone
  <2> QED BY <1>1, <1>2 DEF Table
<1>4. dgen \in SUBSET (Int \X Outpoint)
  <2> HIDE DEF heights
  <2> QED BY <1>1 DEF Table
<1> HIDE DEF rows, above, gone, heights, mgen, mtwice, dgen
<1>5. v = [w EXCEPT !.m = [w.m EXCEPT !.gen = mgen, !.twice = mtwice],
                    !.d = [w.d EXCEPT !.gen = dgen]]
  BY <1>1 DEF Work, Table
<1>6. /\ [w.m EXCEPT !.gen = mgen, !.twice = mtwice] \in Table
      /\ [w.d EXCEPT !.gen = dgen] \in Table
  BY <1>1, <1>3, <1>4 DEF Table
<1>7. v \in Work
  BY <1>1, <1>5, <1>6 DEF Work
<1>8. /\ v.m.state = w.m.state /\ v.m.pos = w.m.pos /\ v.m.at = w.m.at
      /\ v.d.state = w.d.state /\ v.d.pos = w.d.pos /\ v.d.at = w.d.at
      /\ v.d.twice = w.d.twice /\ v.d.assoc = w.d.assoc
  BY <1>1, <1>5 DEF Work, Table
<1> HIDE DEF v
<1>9. v \in Sound
  BY <1>7, <1>8, BookkeepingSound DEF Sound, OnRecord
<1>10. DeleteGenerationAbove(w, good, skip) \in {v, Throw(w)}
  BY Zenon DEF DeleteGenerationAbove, v, mgen, mtwice, dgen, rows, above, gone, heights
<1> QED BY <1>9, <1>10, ThrowSound

\* Output::FinalizeReorg.
LEMMA FinalizeReorgSound ==
  ASSUME NEW w \in Sound, NEW q \in Seq(Nat), NEW skip
  PROVE  FinalizeReorg(w, q, skip) \in Sound
<1> DEFINE v == DeleteGenerationAbove(w, Height(q), skip)
           orphans == {g[2] : g \in {g \in w.m.gen \ skip : g[1] >= Height(q)}}
           Moved(x) == [x EXCEPT !.m.tip = q, !.d.tip = q]
           Final(u) == Then(SetStates(u, orphans, "OrphanedNew", q), LAMBDA x : Moved(x))
<1>1. v \in Sound
  BY DeleteGenerationAboveSound
<1>2. orphans \in SUBSET Outpoint /\ q \in Position /\ "OrphanedNew" \in TxoState
  BY DEF Sound, Work, Table, Position, TxoState, New
<1>3. ASSUME NEW x \in Sound PROVE Moved(x) \in Sound
  BY TipSound
<1>4. ASSUME NEW u \in Sound PROVE Final(u) \in Sound
  <2> HIDE DEF orphans
  <2>1. SetStates(u, orphans, "OrphanedNew", q) \in Sound
    BY <1>2, SetStatesLoop
  <2> HIDE DEF Moved
  <2> QED BY <1>3, <2>1 DEF Then
<1>5. FinalizeReorg(w, q, skip) = IF w.m.tip = q THEN w ELSE Then(v, LAMBDA u : Final(u))
  BY Zenon DEF FinalizeReorg, SetStates
<1> HIDE DEF v, Final
<1>6. Then(v, LAMBDA u : Final(u)) \in Sound
  BY <1>1, <1>4 DEF Then
<1> QED BY <1>5, <1>6

\* StartReorg for the blocks that are rolled back.
RollBack(w, Q) == ForEach(Q, LAMBDA q, v : Unconfirm(v, q), w)
RollBackTrace(f, w, Q) ==
  /\ RollBack(w, Q) = f[Q]
  /\ f[{}] = w
  /\ \A t \in SUBSET Q : f[t] \in Sound
  /\ \A t \in SUBSET Q : t # {} =>
       f[t] = IF f[Rest(t)].ok THEN Unconfirm(f[Rest(t)], Chosen(t)) ELSE f[Rest(t)]

\* The loop stays sound, and has a trace.
LEMMA RollBackLoop ==
  ASSUME NEW w \in Sound, NEW Q \in SUBSET Position, IsFiniteSet(Q)
  PROVE  /\ RollBack(w, Q) \in Sound
         /\ \E f : RollBackTrace(f, w, Q)
<1> DEFINE S == Q
           Op(x, v) == IF v.ok THEN Unconfirm(v, x) ELSE v
           F == [x \in S |-> [v \in Sound |-> Op(x, v)]]
           Body(f) == [t \in SUBSET S |->
                         IF t = {} THEN w ELSE Op(Chosen(t), f[Rest(t)])]
           iter == CHOOSE f : f = Body(f)
<1>1. IsFiniteSet(S)
  OBVIOUS
<1>2. RollBack(w, Q) = iter[S]
  BY Zenon DEF RollBack, ForEach, FoldSet, MapThenFoldSet, Chosen, Rest
<1>3. \A x \in S, v \in Sound : Op(x, v) \in Sound
  BY UnconfirmSound
<1> HIDE DEF S, Op
<1>4. F \in [S -> [Sound -> Sound]]
  BY <1>3
<1>5. \E f : f = Body(f)
  <2> HIDE DEF F
  <2>1. PICK g \in [SUBSET S -> Sound] : Steps(g, S, w, F)
    BY <1>1, <1>4, StepsExist
  <2>2. ASSUME NEW t \in SUBSET S
        PROVE  g[t] = IF t = {} THEN w ELSE Op(Chosen(t), g[Rest(t)])
    <3>1. CASE t # {}
      <4>1. Rest(t) \in SUBSET S /\ Chosen(t) \in S /\ g[Rest(t)] \in Sound
        BY <3>1, ChosenIsElement DEF Rest
      <4> QED BY <2>1, <3>1, <4>1 DEF Steps, F
    <3> QED BY <2>1, <3>1 DEF Steps
  <2>3. g = Body(g)
    BY <2>2
  <2> QED BY <2>3, Zenon
<1>6. iter = Body(iter)
  <2> HIDE DEF Body
  <2> QED BY <1>5, Zenon
<1> HIDE DEF iter
<1>7. iter[{}] = w /\ \A t \in SUBSET S : t # {} => iter[t] = Op(Chosen(t), iter[Rest(t)])
  BY <1>6
<1>8. \A t \in SUBSET S : iter[t] \in Sound
  <2>1. ASSUME NEW t \in SUBSET S, t # {}, iter[Rest(t)] \in Sound
        PROVE  iter[t] \in Sound
    BY <1>3, <1>7, <2>1, ChosenIsElement
  <2>2. iter[{}] \in Sound
    BY <1>7
  <2> QED BY <1>1, <2>1, <2>2, TraceKeeps
<1>9. iter[S] \in Sound
  BY <1>8
<1>10. RollBackTrace(iter, w, Q)
  BY <1>2, <1>7, <1>8, Zenon DEF RollBackTrace, S, Op
<1> QED BY <1>2, <1>9, <1>10

\* No output appears or disappears while blocks are rolled back, so that the
\* cache still matches the tables when their changes are dropped.
SameOutputs ==
  {v \in Sound : \A o \in Outpoint : (v.m.state[o] = "absent") = (mem.state[o] = "absent")}

\* A change of state is not the creation of an output.
LEMMA ChangeStateSame ==
  ASSUME NEW w \in SameOutputs, NEW o \in Outpoint, NEW s \in TxoState, NEW q \in Position
  PROVE  ChangeState(w, o, s, q) \in SameOutputs
<1> DEFINE x == ChangeState(w, o, s, q)
<1>1. w \in Sound /\ w \in Work /\ w.m \in Table /\ w.d \in Table
  BY DEF SameOutputs, Sound, Work
<1>2. x \in Sound
  BY <1>1, ChangeStateSound
<1>3. \/ x.m.state = [w.m.state EXCEPT ![o] = s] /\ w.m.state[o] # "absent"
      \/ x.m.state = w.m.state
  <2>1. CASE w.m.state[o] = "absent"
    BY <1>1, <2>1 DEF ChangeState, Throw, Work
  <2>2. CASE w.m.state[o] # "absent"
    <3> DEFINE v == [w EXCEPT !.m.state[o] = s, !.d.state[o] = s]
    <3>1. v.m.state = [w.m.state EXCEPT ![o] = s]
      BY <1>1 DEF Work, Table
    <3>2. DOMAIN v = {"m", "d", "row", "cancelled", "ok"} /\ DOMAIN v.m = DOMAIN w.m
          /\ "pos" \in DOMAIN v.m /\ "at" \in DOMAIN v.m /\ "state" \in DOMAIN v.m
      BY <1>1 DEF Work, Table
    <3> HIDE DEF v
    <3>3. ASSUME NEW old, NEW new
          PROVE  ChangePosition(v, o, old, new).m.state = v.m.state
      BY <3>2 DEF ChangePosition
    <3>4. x \in {v, ChangePosition(v, o, w.m.pos[o], Effective(s, w.m.pos[o], q))}
      BY <2>2, Zenon DEF ChangeState, v
    <3> QED BY <2>2, <3>1, <3>3, <3>4
  <2> QED BY <2>1, <2>2
<1>4. s # "absent"
  BY DEF TxoState, New, Spent
<1>5. w.m.state \in [Outpoint -> TxoState \cup {"absent"}]
  BY <1>1 DEF Table
<1> HIDE DEF x
<1>6. ASSUME NEW z \in Outpoint
      PROVE  (x.m.state[z] = "absent") = (w.m.state[z] = "absent")
  BY ONLY <1>3, <1>4, <1>5, z \in Outpoint, o \in Outpoint
<1>7. \A z \in Outpoint : (w.m.state[z] = "absent") = (mem.state[z] = "absent")
  BY DEF SameOutputs
<1>8. \A z \in Outpoint : (x.m.state[z] = "absent") = (mem.state[z] = "absent")
  BY ONLY <1>6, <1>7
<1>9. x \in SameOutputs
  BY ONLY <1>2, <1>8 DEF SameOutputs
<1> QED BY <1>9 DEF x

\* The rollback of a block creates none.
LEMMA UnconfirmSame ==
  ASSUME NEW w \in SameOutputs, NEW q \in Position
  PROVE  Unconfirm(w, q) \in SameOutputs
<1> DEFINE O == {o \in Outpoint : <<q, o>> \in w.m.at}
<1>1. w \in Sound
  BY DEF SameOutputs
<1>2. Unconfirm(w, q) = BackAll(w, O, q)
  BY Zenon DEF Unconfirm, BackAll, Back
<1>3. O \in SUBSET Outpoint /\ IsFiniteSet(O)
  BY ConstantsAssumption, FS_Subset
<1> HIDE DEF O
<1>4. PICK f : BackAllTrace(f, w, O, q)
  BY <1>1, <1>3, BackAllLoop
<1>5. ASSUME NEW v \in SameOutputs, NEW o \in Outpoint PROVE Back(v, o, q) \in SameOutputs
  BY ChangeStateSame DEF Back, TxoState, New, Spent
<1>6. ASSUME NEW s \in SUBSET O, s # {}, f[Rest(s)] \in SameOutputs
      PROVE  f[s] \in SameOutputs
  <2>1. Chosen(s) \in Outpoint
    BY <1>3, <1>6, ChosenIsElement
  <2>2. Back(f[Rest(s)], Chosen(s), q) \in SameOutputs
    BY <1>5, <1>6, <2>1
  <2> QED BY <1>4, <1>6, <2>2 DEF BackAllTrace
<1>7. \A s \in SUBSET O : f[s] \in SameOutputs
  BY <1>3, <1>4, <1>6, TraceKeeps DEF BackAllTrace
<1> QED BY <1>2, <1>4, <1>7 DEF BackAllTrace

\* The rollback of all of them creates none.
LEMMA RollBackSame ==
  ASSUME NEW w \in SameOutputs, NEW Q \in SUBSET Position, IsFiniteSet(Q)
  PROVE  RollBack(w, Q) \in SameOutputs
<1>1. w \in Sound
  BY DEF SameOutputs
<1>4. PICK f : RollBackTrace(f, w, Q)
  BY <1>1, RollBackLoop
<1>6. ASSUME NEW s \in SUBSET Q, s # {}, f[Rest(s)] \in SameOutputs
      PROVE  f[s] \in SameOutputs
  <2>1. Chosen(s) \in Position
    BY <1>6, ChosenIsElement
  <2>2. Unconfirm(f[Rest(s)], Chosen(s)) \in SameOutputs
    BY <1>6, <2>1, UnconfirmSame
  <2> QED BY <1>4, <1>6, <2>2 DEF RollBackTrace
<1>7. \A s \in SUBSET Q : f[s] \in SameOutputs
  BY <1>4, <1>6, TraceKeeps DEF RollBackTrace
<1> QED BY <1>4, <1>7 DEF RollBackTrace

\* FinalizeReorg creates none.
LEMMA FinalizeReorgSame ==
  ASSUME NEW w \in SameOutputs, NEW q \in Seq(Nat), NEW skip
  PROVE  FinalizeReorg(w, q, skip) \in SameOutputs
<1> DEFINE v == DeleteGenerationAbove(w, Height(q), skip)
           O == {g[2] : g \in {g \in w.m.gen \ skip : g[1] >= Height(q)}}
           Moved(x) == [x EXCEPT !.m.tip = q, !.d.tip = q]
           Final(u) == Then(SetStates(u, O, "OrphanedNew", q), LAMBDA x : Moved(x))
<1>1. w \in Sound /\ w \in Work /\ w.m \in Table
  BY DEF SameOutputs, Sound, Work
<1>2. v \in SameOutputs
  <2>1. v \in Sound
    BY <1>1, DeleteGenerationAboveSound
  <2>2. v.m.state = w.m.state
    BY <1>1 DEF DeleteGenerationAbove, Throw, Work, Table
  <2> HIDE DEF v
  <2> QED BY <2>1, <2>2 DEF SameOutputs
<1>3. O \in SUBSET Outpoint /\ q \in Position /\ "OrphanedNew" \in TxoState
  BY <1>1 DEF Table, Position, TxoState, New
<1>4. IsFiniteSet(O)
  BY <1>3, ConstantsAssumption, FS_Subset
<1> HIDE DEF v, O
<1>5. ASSUME NEW x \in SameOutputs PROVE Moved(x) \in SameOutputs
  <2>1. x \in Sound /\ x \in Work /\ x.m \in Table /\ x.d \in Table
    BY DEF SameOutputs, Sound, Work
  <2>2. Moved(x) \in Sound
    BY <2>1, TipSound
  <2>3. Moved(x).m.state = x.m.state
    BY <2>1 DEF Work, Table
  <2> HIDE DEF Moved
  <2> QED BY <2>2, <2>3 DEF SameOutputs
<1>6. ASSUME NEW u \in SameOutputs PROVE SetStates(u, O, "OrphanedNew", q) \in SameOutputs
  <2>1. u \in Sound
    BY DEF SameOutputs
  <2>2. PICK f : SetStatesTrace(f, u, O, "OrphanedNew", q)
    BY <1>3, <2>1, SetStatesLoop
  <2>3. ASSUME NEW s \in SUBSET O, s # {}, f[Rest(s)] \in SameOutputs
        PROVE  f[s] \in SameOutputs
    <3>1. Chosen(s) \in Outpoint
      BY <1>3, <2>3, ChosenIsElement
    <3>2. ChangeState(f[Rest(s)], Chosen(s), "OrphanedNew", q) \in SameOutputs
      BY <1>3, <2>3, <3>1, ChangeStateSame
    <3> QED BY <2>2, <2>3, <3>2 DEF SetStatesTrace
  <2>4. \A s \in SUBSET O : f[s] \in SameOutputs
    BY <1>4, <2>2, <2>3, TraceKeeps DEF SetStatesTrace
  <2> QED BY <2>2, <2>4 DEF SetStatesTrace
<1>7. ASSUME NEW u \in SameOutputs PROVE Final(u) \in SameOutputs
  <2> HIDE DEF Moved
  <2> QED BY <1>5, <1>6 DEF Then
<1>8. FinalizeReorg(w, q, skip) = IF w.m.tip = q THEN w ELSE Then(v, LAMBDA u : Final(u))
  BY Zenon DEF FinalizeReorg, SetStates, v, O
<1> HIDE DEF Final
<1>9. Then(v, LAMBDA u : Final(u)) \in SameOutputs
  BY <1>2, <1>7 DEF Then
<1> QED BY <1>8, <1>9

-----------------------------------------------------------------------------
(* The proposals. *)

\* FinalizeProposal: one output of the finished transaction.
LEMMA IssueSound ==
  ASSUME NEW w \in Sound, NEW o \in Outpoint, NEW p \in Proposal
  PROVE  Issue(w, o, p) \in Sound
<1> DEFINE created == CreateOutput(w, o, p)
           Final(v) == IF v.m.state[o] = "absent"
                      THEN CreateState(v, o, "UnconfirmedNew", Blank, FALSE)
                      ELSE ChangeState(v, o, "UnconfirmedNew", Blank)
<1>1. created \in Sound
  BY CreateOutputSound
<1>2. Blank \in Position /\ "UnconfirmedNew" \in TxoState
  BY DEF Position, TxoState, New
<1>3. ASSUME NEW v \in Sound PROVE Final(v) \in Sound
  BY <1>2, CreateStateSound, ChangeStateSound
<1> HIDE DEF created, Final
<1>4. Then(created, LAMBDA v : Final(v)) \in Sound
  BY <1>1, <1>3 DEF Then
<1> QED BY <1>4, Zenon DEF Issue, created, Final

\* FinalizeProposal: the outputs of the finished transaction.
IssueAll(w, O, p) == ForEach(O, LAMBDA o, v : Issue(v, o, p), w)
IssueAllTrace(f, w, O, p) ==
  /\ IssueAll(w, O, p) = f[O]
  /\ f[{}] = w
  /\ \A t \in SUBSET O : f[t] \in Sound
  /\ \A t \in SUBSET O : t # {} =>
       f[t] = IF f[Rest(t)].ok THEN Issue(f[Rest(t)], Chosen(t), p) ELSE f[Rest(t)]

\* The loop stays sound, and has a trace.
LEMMA IssueAllLoop ==
  ASSUME NEW w \in Sound, NEW O \in SUBSET Outpoint, NEW p \in Proposal
  PROVE  /\ IssueAll(w, O, p) \in Sound
         /\ \E f : IssueAllTrace(f, w, O, p)
<1> DEFINE S == O
           Op(x, v) == IF v.ok THEN Issue(v, x, p) ELSE v
           F == [x \in S |-> [v \in Sound |-> Op(x, v)]]
           Body(f) == [t \in SUBSET S |->
                         IF t = {} THEN w ELSE Op(Chosen(t), f[Rest(t)])]
           iter == CHOOSE f : f = Body(f)
<1>1. IsFiniteSet(S)
  BY ConstantsAssumption, FS_Subset
<1>2. IssueAll(w, O, p) = iter[S]
  BY Zenon DEF IssueAll, ForEach, FoldSet, MapThenFoldSet, Chosen, Rest
<1>3. \A x \in S, v \in Sound : Op(x, v) \in Sound
  BY IssueSound
<1> HIDE DEF S, Op
<1>4. F \in [S -> [Sound -> Sound]]
  BY <1>3
<1>5. \E f : f = Body(f)
  <2> HIDE DEF F
  <2>1. PICK g \in [SUBSET S -> Sound] : Steps(g, S, w, F)
    BY <1>1, <1>4, StepsExist
  <2>2. ASSUME NEW t \in SUBSET S
        PROVE  g[t] = IF t = {} THEN w ELSE Op(Chosen(t), g[Rest(t)])
    <3>1. CASE t # {}
      <4>1. Rest(t) \in SUBSET S /\ Chosen(t) \in S /\ g[Rest(t)] \in Sound
        BY <3>1, ChosenIsElement DEF Rest
      <4> QED BY <2>1, <3>1, <4>1 DEF Steps, F
    <3> QED BY <2>1, <3>1 DEF Steps
  <2>3. g = Body(g)
    BY <2>2
  <2> QED BY <2>3, Zenon
<1>6. iter = Body(iter)
  <2> HIDE DEF Body
  <2> QED BY <1>5, Zenon
<1> HIDE DEF iter
<1>7. iter[{}] = w /\ \A t \in SUBSET S : t # {} => iter[t] = Op(Chosen(t), iter[Rest(t)])
  BY <1>6
<1>8. \A t \in SUBSET S : iter[t] \in Sound
  <2>1. ASSUME NEW t \in SUBSET S, t # {}, iter[Rest(t)] \in Sound
        PROVE  iter[t] \in Sound
    BY <1>3, <1>7, <2>1, ChosenIsElement
  <2>2. iter[{}] \in Sound
    BY <1>7
  <2> QED BY <1>1, <2>1, <2>2, TraceKeeps
<1>9. iter[S] \in Sound
  BY <1>8
<1>10. IssueAllTrace(iter, w, O, p)
  BY <1>2, <1>7, <1>8, Zenon DEF IssueAllTrace, S, Op
<1> QED BY <1>2, <1>9, <1>10

\* FinalizeProposal after the row of the proposal was stored.
LEMMA FinalizedSound ==
  ASSUME NEW w \in Sound, NEW p \in Proposal, NEW in \in SUBSET Outpoint
  PROVE  Finalized(w, p, in) \in Sound
<1> DEFINE checked == Then(Then(ReleaseUnused(w, p, in), LAMBDA v : ValidateInputs(v, in)),
                           LAMBDA v : ValidateOutputs(v, Pays[p]))
           spent == Then(checked, LAMBDA v : SetStates(v, in, "UnconfirmedSpend", Blank))
<1>1. checked \in Sound
  BY ThrowSound DEF Then, ReleaseUnused, ValidateInputs, ValidateOutputs
<1>2. Blank \in Position /\ "UnconfirmedSpend" \in TxoState
  BY DEF Position, TxoState, Spent
<1>3. Pays[p] \in SUBSET Outpoint
  BY ConstantsAssumption
<1>4. spent \in Sound
  <2> HIDE DEF checked
  <2>1. ASSUME NEW v \in Sound PROVE SetStates(v, in, "UnconfirmedSpend", Blank) \in Sound
    BY <1>2, SetStatesLoop
  <2> QED BY <1>1, <2>1 DEF Then
<1>5. ASSUME NEW v \in Sound PROVE IssueAll(v, Pays[p], p) \in Sound
  BY <1>3, IssueAllLoop
<1>6. Finalized(w, p, in) = Then(spent, LAMBDA v : IssueAll(v, Pays[p], p))
  BY Zenon DEF Finalized, SetStates, IssueAll
<1> HIDE DEF spent
<1>7. Then(spent, LAMBDA v : IssueAll(v, Pays[p], p)) \in Sound
  BY <1>4, <1>5 DEF Then
<1> QED BY <1>6, <1>7

-----------------------------------------------------------------------------
(***************************************************************************)
(* The end of a database transaction.                                      *)
(***************************************************************************)

\* After a failure the cache is read from the tables, and what was left of it
\* concerns proposals and coinbases only.
LEMMA ReloadType ==
  ASSUME NEW m \in Table, NEW d \in Table
  PROVE  /\ Reload(m, d) \in Table
         /\ Reload(m, d).state = d.state /\ Reload(m, d).pos = d.pos /\ Reload(m, d).at = d.at
<1> DEFINE gen == m.gen \cup d.gen
           twice == m.twice \cup (m.gen \cap d.gen)
           assoc == [o \in Outpoint |->
                       IF ToSet(d.assoc[o]) \subseteq ToSet(m.assoc[o])
                       THEN m.assoc[o] ELSE m.assoc[o] \o d.assoc[o]]
           made == [p \in Proposal |-> m.made[p] \cup d.made[p]]
           used == [p \in Proposal |-> m.used[p] \cup d.used[p]]
<1>1. gen \in SUBSET (Int \X Outpoint) /\ twice \in SUBSET (Int \X Outpoint)
  BY DEF Table
<1>2. assoc \in [Outpoint -> Seq(Proposal)]
  <2>1. ASSUME NEW o \in Outpoint
        PROVE  m.assoc[o] \in Seq(Proposal) /\ m.assoc[o] \o d.assoc[o] \in Seq(Proposal)
    BY DEF Table
  <2> QED BY <2>1
<1>3. made \in [Proposal -> SUBSET Outpoint] /\ used \in [Proposal -> SUBSET Outpoint]
  BY DEF Table
<1>4. Reload(m, d) = [d EXCEPT !.gen = gen, !.twice = twice, !.assoc = assoc,
                               !.made = made, !.used = used]
  BY Zenon DEF Reload
<1> HIDE DEF gen, twice, assoc, made, used
<1> QED BY <1>1, <1>2, <1>3, <1>4 DEF Table

\* A database transaction that ends leaves a sound state, whether it commits or not.
LEMMA FinishSound ==
  ASSUME NEW w \in Sound, Begin \in Sound, NEW stored \in Rows, Finish(w, stored)
  PROVE  Begin' \in Sound
<1>1. w \in Work /\ w.m \in Table /\ w.d \in Table
  BY DEF Sound, Work
<1>2. disk \in Table /\ IndexComplete(disk) /\ disk.twice = {}
      /\ \A o \in Outpoint : Len(disk.assoc[o]) <= 1
  BY DEF Sound, Work, Begin, OnRecord
<1>3. mem' \in Table /\ disk' \in Table /\ row' \in Rows /\ cancelled' \in SUBSET Proposal
  BY <1>1, <1>2, ReloadType DEF Finish, Work
<1>4. Begin' \in Work
  BY <1>3 DEF Begin, Work
<1>5. Begin'.m = mem' /\ Begin'.d = disk'
  BY DEF Begin
<1>6. CASE w.ok
  BY <1>4, <1>5, <1>6 DEF Finish, Sound
<1>7. CASE ~w.ok
  <2>1. mem' = Reload(w.m, disk) /\ disk' = disk
    BY <1>7 DEF Finish
  <2>2. mem'.state = disk.state /\ mem'.pos = disk.pos /\ mem'.at = disk.at
    BY <1>1, <1>2, <2>1, ReloadType
  <2>3. IndexComplete(mem') /\ IndexComplete(disk') /\ disk'.twice = {}
    BY <1>2, <2>1, <2>2 DEF IndexComplete
  <2>4. OnRecord(mem', disk')
    BY <1>2, <2>1, <2>2 DEF OnRecord
  <2> QED BY <1>4, <1>5, <2>3, <2>4 DEF Sound
<1> QED BY <1>6, <1>7

-----------------------------------------------------------------------------
(***************************************************************************)
(* Every action keeps the invariant.                                       *)
(***************************************************************************)

\* An empty wallet.
LEMMA InitInv ==
  ASSUME Init
  PROVE  Inv
<1>1. Empty \in Table
  <2>1. [o \in Outpoint |-> "absent"] \in [Outpoint -> TxoState \cup {"absent"}]
    OBVIOUS
  <2>2. [o \in Outpoint |-> Blank] \in [Outpoint -> Seq(Nat) \cup {Blank}]
    OBVIOUS
  <2>3. [o \in Outpoint |-> <<>>] \in [Outpoint -> Seq(Proposal)]
    OBVIOUS
  <2>4. [p \in Proposal |-> {}] \in [Proposal -> SUBSET Outpoint]
    OBVIOUS
  <2> QED BY <2>1, <2>2, <2>3, <2>4 DEF Empty, Table
<1>2. row \in Rows
  BY DEF Init, Rows
<1>3. Begin \in Work
  BY <1>1, <1>2 DEF Init, Begin, Work
<1>4. \A o \in Outpoint : Empty.state[o] = "absent" /\ Len(Empty.assoc[o]) <= 1
  <2>1. Len(<<>>) <= 1
    OBVIOUS
  <2> QED BY <2>1 DEF Empty
<1>5. Empty.twice = {}
  BY DEF Empty
<1>6. Begin.m = Empty /\ Begin.d = Empty
  BY DEF Init, Begin
<1>7. Begin \in Sound
  BY <1>3, <1>4, <1>5, <1>6 DEF Sound, IndexComplete, OnRecord
<1>8. builder \in Builder /\ builder.step = "idle"
  BY DEF Init, Idle, Builder
<1>9. /\ <<>> \in Seq(Nat) /\ <<>> \in Seq(Block)
      /\ <<>> \in Seq([ancestor : Seq(Nat), tip : Seq(Nat)])
  OBVIOUS
<1>10. inputs \in [Proposal -> SUBSET Outpoint]
  BY DEF Init
<1> QED BY <1>7, <1>8, <1>9, <1>10 DEF Init, Inv

\* Actions that do not touch the wallet.
LEMMA BeginKept ==
  ASSUME UNCHANGED <<mem, disk, row, cancelled>>
  PROVE  Begin' = Begin
BY DEF Begin

\* The types of what the database transactions start from.
LEMMA RowsType ==
  ASSUME Inv
  PROVE  row \in Rows /\ mem \in Table /\ disk \in Table /\ cancelled \in SUBSET Proposal
BY DEF Inv, Sound, Work, Begin

\* A block is mined.
LEMMA MineInv ==
  ASSUME Inv, Mine
  PROVE  Inv'
<1>1. Begin' = Begin
  BY BeginKept DEF Mine
<1>2. chain' \in Seq(Block)
  <2>1. PICK txs \in SUBSET Tx : chain' = Append(chain, [branch |-> reorgs, txs |-> txs])
    BY DEF Mine
  <2>2. [branch |-> reorgs, txs |-> txs] \in Block
    BY DEF Inv, Block
  <2> QED BY <2>1, <2>2 DEF Inv
<1> QED BY <1>1, <1>2 DEF Inv, Mine, jobs, payer

\* A longer branch appears.
LEMMA ForkInv ==
  ASSUME Inv, Fork
  PROVE  Inv'
<1>1. Begin' = Begin
  BY BeginKept DEF Fork
<1>2. PICK a \in 0..(Len(chain) - 1), txs \in SUBSET Tx :
        LET kept == SubSeq(chain, 1, a)
            Block1(i) == [branch |-> reorgs + 1, txs |-> IF i = 1 THEN txs ELSE {}]
        IN /\ chain' = kept \o [i \in 1..(Len(chain) + 1 - a) |-> Block1(i)]
           /\ news' = Append(news, [ancestor |-> Upto(a), tip |-> Tip'])
  BY DEF Fork
<1> DEFINE kept == SubSeq(chain, 1, a)
           more == [i \in 1..(Len(chain) + 1 - a) |->
                      [branch |-> reorgs + 1, txs |-> IF i = 1 THEN txs ELSE {}]]
<1>3. chain \in Seq(Block) /\ reorgs \in Nat
  BY DEF Inv
<1>4. a \in 0..Len(chain) /\ Len(chain) + 1 - a \in Nat
  BY <1>3
<1>5. kept \in Seq(Block)
  BY <1>3, <1>4
<1>6. more \in Seq(Block)
  <2>1. \A i \in 1..(Len(chain) + 1 - a) :
          [branch |-> reorgs + 1, txs |-> IF i = 1 THEN txs ELSE {}] \in Block
    BY <1>3 DEF Block
  <2>2. more \in [1..(Len(chain) + 1 - a) -> Block]
    BY <2>1
  <2> HIDE DEF more
  <2> QED BY <1>4, <2>2
<1>7. chain' \in Seq(Block)
  <2>1. chain' = kept \o more
    BY <1>2
  <2> HIDE DEF kept, more
  <2> QED BY <1>5, <1>6, <2>1
<1>8. Tip' \in Seq(Nat)
  BY <1>7, BranchesType DEF Tip
<1>9. Upto(a) \in Seq(Nat)
  BY <1>3, <1>4, TipType
<1>10. news' \in Seq([ancestor : Seq(Nat), tip : Seq(Nat)])
  <2>1. [ancestor |-> Upto(a), tip |-> Tip'] \in [ancestor : Seq(Nat), tip : Seq(Nat)]
    BY <1>8, <1>9
  <2>2. news' = Append(news, [ancestor |-> Upto(a), tip |-> Tip'])
    BY <1>2
  <2> QED BY <2>1, <2>2 DEF Inv
<1>11. reorgs' \in Nat
  BY <1>3 DEF Fork
<1> QED BY <1>1, <1>7, <1>10, <1>11 DEF Inv, Fork, jobs, payer

\* The mempool delivers a transaction.
LEMMA HandleMempoolInv ==
  ASSUME Inv, NEW t \in Tx, HandleMempool(t)
  PROVE  Inv'
<1> DEFINE w == AddTransactions(Begin, Blank, {t}, TRUE)
<1>1. w \in Sound
  BY AddTransactionsSound DEF Inv, Position
<1>2. Finish(w, row)
  BY DEF HandleMempool
<1>3. w.ok \in BOOLEAN
  BY <1>1 DEF Sound, Work
<1> HIDE DEF w
<1>4. Begin' \in Sound
  BY <1>1, <1>2, FinishSound, RowsType DEF Inv
<1>5. alive' = w.ok /\ heard' = heard \cup {t}
  BY DEF HandleMempool, w
<1> QED BY <1>3, <1>4, <1>5 DEF Inv, HandleMempool, jobs, payer

\* The subchain stores the matches of blocks.
LEMMA ProcessBlocksInv ==
  ASSUME Inv, NEW n \in 1..Batch, ProcessBlocks(n)
  PROVE  Inv'
<1> DEFINE a == Len(scanned) + 1
           b == Len(scanned) + n
           w == AddBlocks(Begin, a, b)
<1>1. chain \in Seq(Block) /\ scanned \in Seq(Nat) /\ inputs \in [Proposal -> SUBSET Outpoint]
      /\ Begin \in Sound
  BY DEF Inv
<1>2. b <= Len(chain) /\ Finish(w, row)
  BY DEF ProcessBlocks
<1>3. a \in Nat /\ b \in Nat /\ 1 <= a /\ a <= b /\ b \in 0..Len(chain)
  BY <1>1, <1>2, ConstantsAssumption
<1>4. w \in Sound
  <2> HIDE DEF a, b
  <2> QED BY <1>1, <1>2, <1>3, AddBlocksSound
<1>5. \A h \in a..b : h \in DOMAIN chain /\ chain[h].txs \subseteq Tx
  <2>1. \A h \in a..b : h \in DOMAIN chain
    BY <1>1, <1>3
  <2> QED BY <1>1, <2>1, TipType
<1>6. Upto(b) \in Seq(Nat) /\ <<>> \in Seq(Nat)
  BY <1>1, <1>3, TipType
<1> HIDE DEF w
<1>7. Begin' \in Sound
  BY <1>1, <1>2, <1>4, FinishSound, RowsType
<1>8. \/ scanned' = Upto(b) /\ known' = known \cup UNION {chain[h].txs : h \in a..b}
         /\ rejected' = rejected
      \/ scanned' = <<>> /\ known' = {} /\ rejected' = TRUE
  BY DEF ProcessBlocks, w
<1>9. UNION {chain[h].txs : h \in a..b} \subseteq Tx
  <2> HIDE DEF a, b
  <2> QED BY <1>5
<1> HIDE DEF a, b
<1>10. scanned' \in Seq(Nat) /\ known' \cup heard \subseteq Tx /\ rejected' \in BOOLEAN
  BY <1>6, <1>8, <1>9 DEF Inv
<1>11. saved' = scanned' /\ UNCHANGED <<payer, world>>
  BY DEF ProcessBlocks
<1> QED BY <1>7, <1>10, <1>11 DEF Inv, payer, world

\* Accounts advances the wallet.
LEMMA ProcessHeaderInv ==
  ASSUME Inv, NEW h \in DOMAIN chain, ProcessHeader(h)
  PROVE  Inv'
<1>1. chain \in Seq(Block) /\ Begin \in Sound /\ mem \in Table
  BY RowsType DEF Inv
<1>2. h \in 0..Len(chain)
  BY <1>1
<1>3. Upto(h) \in Seq(Nat)
  BY <1>1, <1>2, TipType
<1>4. AdvanceTo(Begin, Upto(h)) \in Sound
  BY <1>1, <1>3, AdvanceToSound
<1>5. Finish(AdvanceTo(Begin, Upto(h)), row)
  BY DEF ProcessHeader
<1>6. Begin' \in Sound
  BY <1>1, <1>4, <1>5, FinishSound, RowsType
<1>7. alive' \in BOOLEAN
  BY DEF ProcessHeader
<1> QED BY <1>6, <1>7 DEF Inv, ProcessHeader, jobs, payer

\* What a rollback did to the cache fits the tables as they were.
LEMMA AbortedSound ==
  ASSUME Begin \in Sound, NEW w \in SameOutputs
  PROVE  [w EXCEPT !.d = disk, !.row = row] \in Sound
<1> DEFINE v == [w EXCEPT !.d = disk, !.row = row]
<1>1. w \in Sound /\ w \in Work /\ Begin \in Work /\ Begin.m = mem /\ Begin.d = disk
      /\ Begin.row = row
  BY DEF SameOutputs, Sound, Begin
<1>2. disk \in Table /\ row \in Rows
  BY <1>1 DEF Work
<1>3. v \in Work /\ v.m = w.m /\ v.d = disk
  BY <1>1, <1>2 DEF Work
<1>4. OnRecord(w.m, disk)
  BY <1>1 DEF OnRecord, SameOutputs, Sound
<1>5. IndexComplete(w.m) /\ IndexComplete(disk) /\ disk.twice = {}
  BY <1>1 DEF Sound
<1> HIDE DEF v
<1>6. v \in Sound
  BY <1>3, <1>4, <1>5 DEF Sound
<1> QED BY <1>6 DEF v

\* A reorg: rollback, abort, and the advance to the new tip.
LEMMA HandleReorgInv ==
  ASSUME Inv, NEW skip, HandleReorg(skip)
  PROVE  Inv'
<1> DEFINE ancestor == Head(news).ancestor
           back == RollBack(Begin, Orphaned(saved))
           final == Then(back, LAMBDA v : FinalizeReorg(v, ancestor, skip))
           aborted == [final EXCEPT !.d = disk, !.row = row]
           w == Then(aborted, LAMBDA v : AdvanceTo(v, Head(news).tip))
<1>1. chain \in Seq(Block) /\ Begin \in Sound /\ saved \in Seq(Nat)
      /\ news \in Seq([ancestor : Seq(Nat), tip : Seq(Nat)]) /\ news # <<>>
  BY DEF Inv, HandleReorg
<1>2. Head(news) \in [ancestor : Seq(Nat), tip : Seq(Nat)]
      /\ Tail(news) \in Seq([ancestor : Seq(Nat), tip : Seq(Nat)])
  <2> DEFINE N == [ancestor : Seq(Nat), tip : Seq(Nat)]
  <2>1. news \in Seq(N) /\ news # <<>>
    BY <1>1
  <2> HIDE DEF N
  <2>2. Head(news) \in N /\ Tail(news) \in Seq(N)
    BY <2>1
  <2> QED BY <2>2 DEF N
<1>3. ancestor \in Seq(Nat) /\ Head(news).tip \in Seq(Nat)
  BY <1>2
<1>4. Begin \in SameOutputs
  BY <1>1 DEF SameOutputs, Begin
<1>5. back \in SameOutputs
  BY <1>1, <1>4, OrphanedType, RollBackSame
<1>6. final \in SameOutputs
  <2> HIDE DEF back, ancestor
  <2>1. FinalizeReorg(back, ancestor, skip) \in SameOutputs
    BY <1>3, <1>5, FinalizeReorgSame
  <2> QED BY <1>5, <2>1 DEF Then
<1>7. aborted \in Sound
  <2> HIDE DEF final
  <2> QED BY <1>1, <1>6, AbortedSound
<1>8. w \in Sound
  <2> HIDE DEF aborted
  <2>1. AdvanceTo(aborted, Head(news).tip) \in Sound
    BY <1>3, <1>7, AdvanceToSound
  <2> QED BY <1>7, <2>1 DEF Then
<1>9. Finish(w, row) /\ alive' = w.ok
  BY Zenon DEF HandleReorg, RollBack
<1>10. w.ok \in BOOLEAN
  <2> HIDE DEF w
  <2> QED BY <1>8 DEF Sound, Work
<1>11. Begin' \in Sound
  <2> HIDE DEF w
  <2> QED BY <1>1, <1>8, <1>9, FinishSound, RowsType
<1>12. /\ news' = Tail(news)
       /\ scanned' \in {ancestor, scanned} /\ known' \in {{}, known}
       /\ UNCHANGED <<saved, rejected, payer, chain, heard, reorgs, restarts>>
  BY DEF HandleReorg
<1> HIDE DEF w, ancestor
<1> QED BY <1>2, <1>3, <1>9, <1>10, <1>11, <1>12 DEF Inv, payer

\* The process restarts.
LEMMA RestartInv ==
  ASSUME Inv, Restart
  PROVE  Inv'
<1>1. chain \in Seq(Block) /\ Begin \in Sound /\ saved \in Seq(Nat) /\ Tip \in Seq(Nat)
  BY TipType DEF Inv
<1>2. mem' = disk /\ UNCHANGED <<disk, row>> /\ cancelled' = {}
  BY DEF Restart
<1>3. disk \in Table /\ row \in Rows /\ IndexComplete(disk) /\ disk.twice = {}
      /\ \A o \in Outpoint : Len(disk.assoc[o]) <= 1
  BY <1>1, RowsType DEF Begin, Sound, OnRecord
<1>4. Begin' \in Work /\ Begin'.m = disk /\ Begin'.d = disk
  BY <1>2, <1>3 DEF Begin, Work
<1>5. Begin' \in Sound
  BY <1>3, <1>4 DEF Sound, OnRecord
<1>6. builder' \in Builder /\ builder'.step = "idle"
  BY DEF Restart, Idle, Builder
<1>7. scanned' \in Seq(Nat) /\ saved' = saved
  BY <1>1 DEF Restart
<1>8. news' \in Seq([ancestor : Seq(Nat), tip : Seq(Nat)])
  <2>1. CASE disk.tip # Blank /\ ~InBestChain(disk.tip)
    <3>1. disk.tip \in Seq(Nat)
      BY <1>3, <2>1 DEF Table
    <3>2. CommonParent(disk.tip) \in Seq(Nat)
      BY <1>1, <3>1, CommonParentType
    <3>3. news' = <<[ancestor |-> CommonParent(disk.tip), tip |-> Tip]>>
      BY <2>1 DEF Restart
    <3>4. [ancestor |-> CommonParent(disk.tip), tip |-> Tip] \in [ancestor : Seq(Nat), tip : Seq(Nat)]
      BY <1>1, <3>2
    <3> QED BY <3>3, <3>4
  <2>2. CASE ~(disk.tip # Blank /\ ~InBestChain(disk.tip))
    <3>1. news' = <<>>
      BY <2>2 DEF Restart
    <3> QED BY <3>1
  <2> QED BY <2>1, <2>2
<1>9. /\ alive' = TRUE /\ known' = {} /\ heard' = {}
      /\ sent' \cup pending' \subseteq Proposal
      /\ UNCHANGED <<chain, inputs, rejected, reorgs>>
  BY DEF Restart, Inv
<1> QED BY <1>5, <1>6, <1>7, <1>8, <1>9 DEF Inv

\* A proposal is stored.
LEMMA SendToInv ==
  ASSUME Inv, NEW p \in Proposal, SendTo(p)
  PROVE  Inv'
<1>1. row' = [row EXCEPT ![p] = "open"] /\ UNCHANGED <<mem, disk, cancelled>>
  BY DEF SendTo
<1>3. row' \in Rows
  BY <1>1, RowsType DEF Rows
<1>4. Begin \in Sound
  BY DEF Inv
<1>5. Begin' \in Work /\ Begin'.m = Begin.m /\ Begin'.d = Begin.d
  BY <1>1, <1>3, RowsType DEF Begin, Work
<1>6. Begin' \in Sound
  BY <1>4, <1>5 DEF Sound
<1> QED BY <1>6 DEF Inv, SendTo, jobs, world

\* Its construction starts.
LEMMA StartBuildInv ==
  ASSUME Inv, NEW p \in Proposal, StartBuild(p)
  PROVE  Inv'
<1>1. Begin' = Begin
  BY BeginKept DEF StartBuild
<1>2. mem.used[p] \in SUBSET Outpoint
  BY RowsType DEF Table
<1>3. Available(mem) \in SUBSET Outpoint
  BY DEF Available
<1>4. builder' \in Builder /\ builder'.proposal \in Proposal
  BY <1>2, <1>3 DEF StartBuild, Builder
<1> QED BY <1>1, <1>4 DEF Inv, StartBuild, jobs, world

\* An output is reserved for it.
LEMMA ReserveInv ==
  ASSUME Inv, NEW o \in Outpoint, builder.step = "build", Reserve(o)
  PROVE  Begin' \in Sound /\ builder' \in Builder /\ builder'.proposal \in Proposal
<1> DEFINE w == ConsumeOutput(Begin, o, builder.proposal)
<1>1. Begin \in Sound /\ builder \in Builder /\ builder.proposal \in Proposal
  BY DEF Inv
<1>2. w \in Sound
  BY <1>1, ConsumeOutputSound
<1>3. Finish(w, row)
  BY DEF Reserve
<1>4. builder' = [builder EXCEPT !.in = IF w.ok THEN @ \cup {o} ELSE @, !.todo = @ \ {o}]
  BY DEF Reserve
<1> HIDE DEF w
<1>5. Begin' \in Sound
  BY <1>1, <1>2, <1>3, FinishSound, RowsType
<1>6. builder' \in Builder /\ builder'.proposal = builder.proposal
  BY <1>1, <1>4 DEF Builder
<1> QED BY <1>1, <1>5, <1>6

\* One chosen by the policy.
LEMMA ReserveAnyInv ==
  ASSUME Inv, ReserveAny
  PROVE  Inv'
<1>1. builder.step = "build" /\ UNCHANGED <<jobs, inputs, sent, pending, world>>
  BY DEF ReserveAny
<1>2. \/ \E o \in Outpoint : Reserve(o)
      \/ Finish(Throw(Begin), row) /\ builder' = [builder EXCEPT !.step = "failed"]
  BY DEF ReserveAny
<1>3. Begin' \in Sound /\ builder' \in Builder /\ builder'.proposal \in Proposal
  <2>1. CASE \E o \in Outpoint : Reserve(o)
    BY <1>1, <2>1, ReserveInv
  <2>2. CASE Finish(Throw(Begin), row) /\ builder' = [builder EXCEPT !.step = "failed"]
    <3>1. Begin \in Sound /\ builder \in Builder /\ builder.proposal \in Proposal
      BY <1>1 DEF Inv
    <3>2. Throw(Begin) \in Sound
      BY <3>1, ThrowSound
    <3>3. Begin' \in Sound
      BY <2>2, <3>1, <3>2, FinishSound, RowsType
    <3> QED BY <2>2, <3>1, <3>3 DEF Builder
  <2> QED BY <1>2, <2>1, <2>2
<1> QED BY <1>1, <1>3 DEF Inv, jobs, world

\* One a sweep has listed.
LEMMA ReserveListedInv ==
  ASSUME Inv, ReserveListed
  PROVE  Inv'
<1>1. builder.step = "build" /\ UNCHANGED <<jobs, inputs, sent, pending, world>>
  BY DEF ReserveListed
<1>2. PICK o \in builder.todo : Reserve(o)
  BY DEF ReserveListed
<1>3. o \in Outpoint
  BY DEF Inv, Builder
<1>4. Begin' \in Sound /\ builder' \in Builder /\ builder'.proposal \in Proposal
  BY <1>1, <1>2, <1>3, ReserveInv
<1> QED BY <1>1, <1>4 DEF Inv, jobs, world

\* The finished proposal is stored.
LEMMA FinalizeProposalInv ==
  ASSUME Inv, FinalizeProposal
  PROVE  Inv'
<1> DEFINE p == builder.proposal
           stored == [row EXCEPT ![p] = "built"]
           start == [Begin EXCEPT !.row = stored]
           w == Finalized(start, p, builder.in)
<1>1. builder.step = "build" /\ Finish(w, stored) /\ UNCHANGED <<jobs, sent, pending, world>>
  BY DEF FinalizeProposal
<1>2. Begin \in Sound /\ builder \in Builder /\ p \in Proposal /\ builder.in \in SUBSET Outpoint
      /\ inputs \in [Proposal -> SUBSET Outpoint]
  BY <1>1 DEF Inv, Builder
<1>3. stored \in Rows
  BY <1>2, RowsType DEF Rows
<1> HIDE DEF stored
<1>4. start \in Work /\ start.m = Begin.m /\ start.d = Begin.d
  BY <1>2, <1>3 DEF Sound, Work
<1> HIDE DEF start
<1>5. start \in Sound
  BY <1>2, <1>4 DEF Sound
<1>6. w \in Sound
  BY <1>2, <1>5, FinalizedSound
<1>7. builder' = [builder EXCEPT !.step = IF w.ok THEN "built" ELSE "failed"]
      /\ inputs' = [inputs EXCEPT ![p] = builder.in]
  BY DEF FinalizeProposal, start, stored
<1> HIDE DEF w
<1>8. Begin' \in Sound
  BY <1>1, <1>2, <1>3, <1>6, FinishSound
<1>9. builder' \in Builder /\ builder'.proposal \in Proposal
  BY <1>2, <1>7 DEF Builder
<1>10. inputs' \in [Proposal -> SUBSET Outpoint]
  BY <1>2, <1>7
<1> QED BY <1>1, <1>8, <1>9, <1>10 DEF Inv, jobs, world

\* A sweep without inputs fails.
LEMMA NothingToSweepInv ==
  ASSUME Inv, NothingToSweep
  PROVE  Inv'
<1>1. Begin' = Begin
  BY BeginKept DEF NothingToSweep
<1>2. builder' \in Builder /\ builder'.proposal \in Proposal
  BY DEF NothingToSweep, Inv, Builder
<1> QED BY <1>1, <1>2 DEF Inv, NothingToSweep, jobs, world

\* Its transaction is sent.
LEMMA BroadcastInv ==
  ASSUME Inv, Broadcast
  PROVE  Inv'
<1>1. Begin' = Begin
  BY BeginKept DEF Broadcast
<1>2. builder \in Builder /\ builder.proposal \in Proposal
  BY DEF Broadcast, Inv
<1>3. builder' \in Builder /\ (builder'.step # "idle" => builder'.proposal \in Proposal)
  BY <1>2 DEF Broadcast, Builder, Idle
<1>4. sent' \cup pending' \subseteq Proposal
  BY <1>2 DEF Broadcast, Inv
<1> QED BY <1>1, <1>3, <1>4 DEF Inv, Broadcast, jobs, world

\* The proposal is cancelled.
LEMMA CancelProposalInv ==
  ASSUME Inv, NEW p \in Proposal, CancelProposal(p)
  PROVE  Inv'
<1> DEFINE w == Then(FinishProposal(Begin, p), LAMBDA v : CloseRow(v, p))
<1>1. Begin \in Sound
  BY DEF Inv
<1>2. w \in Sound
  BY <1>1, FinishProposalSound, CloseRowSound DEF Then
<1>3. Finish(w, row)
  BY DEF CancelProposal
<1> HIDE DEF w
<1>4. Begin' \in Sound
  BY <1>1, <1>2, <1>3, FinishSound, RowsType
<1>5. builder' \in Builder /\ builder'.step = "idle"
  BY DEF CancelProposal, Idle, Builder
<1> QED BY <1>4, <1>5 DEF Inv, CancelProposal, jobs, world

\* So the invariant is inductive.
LEMMA NextInv ==
  ASSUME Inv, [Next]_vars
  PROVE  Inv'
<1>1. CASE UNCHANGED vars
  <2>1. Begin' = Begin
    BY <1>1, BeginKept DEF vars
  <2> QED BY <1>1, <2>1 DEF Inv, vars
<1>2. CASE Next
  BY <1>2, MineInv, ForkInv, RestartInv, HandleMempoolInv, ProcessBlocksInv, ProcessHeaderInv,
     HandleReorgInv, SendToInv, StartBuildInv, CancelProposalInv, ReserveAnyInv, ReserveListedInv,
     FinalizeProposalInv, NothingToSweepInv, BroadcastInv DEF Next
<1> QED BY <1>1, <1>2

\* It holds in every state of every behaviour.
LEMMA Invariance == Spec => []Inv
<1>1. Init => Inv
  BY InitInv
<1>2. Inv /\ [Next]_vars => Inv'
  BY NextInv
<1> QED BY <1>1, <1>2, PTL DEF Spec

\* What the runs check follows from it.
LEMMA InvImplies ==
  ASSUME Inv
  PROVE  TypeOK /\ PositionIndexComplete
<1>1. Begin \in Sound /\ Begin.m = mem /\ Begin.d = disk
  BY DEF Inv, Begin
<1>2. TypeOK
  <2>1. mem \in Table /\ disk \in Table /\ row \in Rows /\ cancelled \in SUBSET Proposal
    BY RowsType
  <2>2. disk.twice = {} /\ OnRecord(mem, disk)
    BY <1>1 DEF Sound
  <2>3. builder.step \in {"idle", "build", "built", "failed"}
    BY DEF Inv, Builder
  <2> QED BY <2>1, <2>2, <2>3 DEF TypeOK, Inv, OnRecord, Rows
<1>3. PositionIndexComplete
  BY <1>1 DEF PositionIndexComplete, Sound, IndexComplete
<1> QED BY <1>2, <1>3

\* The state of the wallet is well formed: among other things the database
\* keeps at most one proposal for an output, never writes a coinbase twice, and
\* has on record exactly the outputs the cache knows, after every failed
\* operation, reorg and restart.
THEOREM TypeCorrect == Spec => []TypeOK
BY Invariance, InvImplies, PTL

\* The index by position is complete, in the cache and in the database: when
\* StartReorg asks for the outputs of a block that is left it is given all
\* of them.
THEOREM PositionIndexIsComplete == Spec => []PositionIndexComplete
BY Invariance, InvImplies, PTL

-----------------------------------------------------------------------------
(***************************************************************************)
(* Reservations.  When proposals do not spend unconfirmed outputs, what a  *)
(* proposal has made cannot be reserved by another one, so that an output  *)
(* never has two proposals.  The invariant follows the claims on an output *)
(* through the cache m and the tables d of a database transaction, and the *)
(* tables t it started from, to which a failure returns.                   *)
(***************************************************************************)

\* What was paid to the wallet: by others, or by a transaction it has sent.
Received(S) == Created(Transaction \cup S)

\* The output is claimed as one that was paid to the wallet: reserved by a
\* proposal, listed by a sweep, or in the index of coinbases.
Theirs(o, m, d, t, todo) ==
  \/ \E p \in Proposal : o \in m.used[p] \cup t.used[p]
  \/ \E h \in Int : <<h, o>> \in m.gen \cup m.twice \cup d.gen \cup t.gen
  \/ o \in todo

IsAvailable(o, m, d, t) ==
  \/ m.state[o] = "ConfirmedNew"
  \/ d.state[o] = "ConfirmedNew"
  \/ t.state[o] = "ConfirmedNew"

\* The claims on an output: made by a proposal and claimed otherwise exclude
\* each other; what was made is not available, and is on record once sent.
Fits(o, m, d, t, S, todo) ==
  /\ \A p \in Proposal : o \in m.made[p] \cup t.made[p] =>
       /\ o \in Pays[p] /\ ~Theirs(o, m, d, t, todo)
       /\ t.state[o] # "ConfirmedNew"
       /\ (p \in S => t.state[o] # "absent")
  /\ \A p \in Proposal : o \in m.made[p] =>
       /\ m.state[o] # "ConfirmedNew" /\ d.state[o] # "ConfirmedNew"
       /\ p \in ToSet(m.assoc[o])
  /\ \A p \in Proposal : /\ o \in d.made[p] => o \in m.made[p]
                         /\ o \in d.used[p] => o \in m.used[p]
  /\ (Theirs(o, m, d, t, todo) \/ IsAvailable(o, m, d, t)) => o \in Received(S)
  /\ t.state[o] # "absent" => m.state[o] # "absent"

\* The tables list for an output the proposals that claim it, and the cache
\* knows them.
Agrees(o, m, d) ==
  \A p \in Proposal :
    /\ (p \in ToSet(d.assoc[o])) <=> (o \in d.made[p] \cup d.used[p])
    /\ p \in ToSet(d.assoc[o]) => p \in ToSet(m.assoc[o])
    /\ o \in d.made[p] => d.state[o] # "absent"

\* What the operations of a database transaction preserve.
Careful ==
  {w \in Sound :
     /\ \A o \in Outpoint : Fits(o, w.m, w.d, disk, sent, builder.todo)
     /\ w.ok => \A o \in Outpoint : Agrees(o, w.m, w.d)
     /\ \A p \in Proposal : w.row[p] = "open" => row[p] = "open"}

\* Two works that agree about an output.
SameAt(x, w, o) ==
  /\ x.m.state[o] = w.m.state[o] /\ x.d.state[o] = w.d.state[o]
  /\ x.m.assoc[o] = w.m.assoc[o] /\ x.d.assoc[o] = w.d.assoc[o]
  /\ \A p \in Proposal : /\ (o \in x.m.made[p]) <=> (o \in w.m.made[p])
                         /\ (o \in x.d.made[p]) <=> (o \in w.d.made[p])
                         /\ (o \in x.m.used[p]) <=> (o \in w.m.used[p])
                         /\ (o \in x.d.used[p]) <=> (o \in w.d.used[p])
  /\ \A h \in Int : <<h, o>> \in x.m.gen \cup x.m.twice \cup x.d.gen =>
                      <<h, o>> \in w.m.gen \cup w.m.twice \cup w.d.gen

\* What is paid to the wallet by a proposal was received if that was sent.
LEMMA ReceivedFromSent ==
  ASSUME NEW p \in Proposal, NEW o \in Pays[p], NEW S \in SUBSET Proposal, o \in Received(S)
  PROVE  p \in S
<1>1. PICK u \in Transaction \cup S : o \in Pays[u]
  BY DEF Received, Created
<1>2. u = p
  BY <1>1, ConstantsAssumption
<1> QED BY <1>1, <1>2, ConstantsAssumption

\* The list of the proposals of an output.
LEMMA AssociatedFacts ==
  ASSUME NEW q \in Seq(Proposal)
  PROVE  /\ (ToSet(q) = {}) <=> (q = <<>>)
         /\ q # <<>> => Head(q) \in ToSet(q)
         /\ \A p \in ToSet(q) : Len(q) <= 1 => ToSet(q) = {p}
         /\ \A p \in Proposal : ToSet(Append(q, p)) = ToSet(q) \cup {p}
         /\ \A p \in Proposal : ToSet(<<p>>) = {p}
         /\ \A r \in Seq(Proposal) : ToSet(q \o r) = ToSet(q) \cup ToSet(r)
<1>1. (ToSet(q) = {}) <=> (q = <<>>)
  <2>1. CASE q = <<>>
    BY <2>1 DEF ToSet
  <2>2. CASE q # <<>>
    <3>1. 1 \in DOMAIN q
      BY <2>2
    <3>2. q[1] \in ToSet(q)
      BY <3>1 DEF ToSet
    <3> QED BY <2>2, <3>2
  <2> QED BY <2>1, <2>2
<1>2. q # <<>> => Head(q) \in ToSet(q)
  BY DEF ToSet
<1>3. ASSUME NEW p \in ToSet(q), Len(q) <= 1 PROVE ToSet(q) = {p}
  BY <1>3 DEF ToSet
<1>4. ASSUME NEW p \in Proposal PROVE ToSet(Append(q, p)) = ToSet(q) \cup {p}
  <2>1. \A i \in 1..Len(q) : Append(q, p)[i] = q[i]
    OBVIOUS
  <2>2. Append(q, p)[Len(q) + 1] = p /\ DOMAIN Append(q, p) = 1..(Len(q) + 1)
        /\ DOMAIN q = 1..Len(q)
    OBVIOUS
  <2>3. 1..(Len(q) + 1) = (1..Len(q)) \cup {Len(q) + 1}
    OBVIOUS
  <2> QED BY <2>1, <2>2, <2>3 DEF ToSet
<1>5. ASSUME NEW p \in Proposal PROVE ToSet(<<p>>) = {p}
  BY DEF ToSet
<1>6. ASSUME NEW r \in Seq(Proposal) PROVE ToSet(q \o r) = ToSet(q) \cup ToSet(r)
  <2>1. \A i \in 1..Len(q) : (q \o r)[i] = q[i]
    OBVIOUS
  <2>2. \A i \in 1..Len(r) : (q \o r)[Len(q) + i] = r[i] /\ Len(q) + i \in DOMAIN (q \o r)
    OBVIOUS
  <2>3. DOMAIN (q \o r) = 1..(Len(q) + Len(r)) /\ DOMAIN q = 1..Len(q) /\ DOMAIN r = 1..Len(r)
    OBVIOUS
  <2>4. \A j \in DOMAIN (q \o r) : j \in DOMAIN q \/ (j - Len(q) \in DOMAIN r /\ (q \o r)[j] = r[j - Len(q)])
    OBVIOUS
  <2>5. ToSet(q) \subseteq ToSet(q \o r)
    BY <2>1, <2>3 DEF ToSet
  <2>6. ToSet(r) \subseteq ToSet(q \o r)
    <3>1. ASSUME NEW e \in ToSet(r) PROVE e \in ToSet(q \o r)
      <4>1. PICK i \in DOMAIN r : e = r[i]
        BY <3>1 DEF ToSet
      <4>2. e = (q \o r)[Len(q) + i] /\ Len(q) + i \in DOMAIN (q \o r)
        BY ONLY <2>2, <2>3, <4>1
      <4> QED BY <4>2, Zenon DEF ToSet
    <3> QED BY <3>1
  <2>7. ToSet(q \o r) \subseteq ToSet(q) \cup ToSet(r)
    BY <2>1, <2>3, <2>4 DEF ToSet
  <2> QED BY <2>5, <2>6, <2>7
<1> QED BY <1>1, <1>2, <1>3, <1>4, <1>5, <1>6

\* A step that concerns one output keeps the claims on the others.
LEMMA BesideCareful ==
  ASSUME NEW w \in Careful, NEW x \in Sound, NEW o \in Outpoint,
         \A z \in Outpoint \ {o} : SameAt(x, w, z),
         Fits(o, x.m, x.d, disk, sent, builder.todo),
         x.ok => Agrees(o, x.m, x.d) /\ w.ok,
         \A p \in Proposal : x.row[p] = "open" => w.row[p] = "open"
  PROVE  x \in Careful
<1>1. ASSUME NEW z \in Outpoint \ {o} PROVE Fits(z, x.m, x.d, disk, sent, builder.todo)
  <2>1. SameAt(x, w, z) /\ Fits(z, w.m, w.d, disk, sent, builder.todo)
    BY <1>1 DEF Careful
  <2>2. Theirs(z, x.m, x.d, disk, builder.todo) => Theirs(z, w.m, w.d, disk, builder.todo)
    BY <2>1 DEF SameAt, Theirs
  <2> QED BY <2>1, <2>2 DEF SameAt, Fits, IsAvailable
<1>2. ASSUME NEW z \in Outpoint \ {o}, x.ok PROVE Agrees(z, x.m, x.d)
  <2>1. SameAt(x, w, z) /\ Agrees(z, w.m, w.d)
    BY <1>2 DEF Careful
  <2> QED BY <2>1 DEF SameAt, Agrees
<1>3. \A p \in Proposal : x.row[p] = "open" => row[p] = "open"
  BY DEF Careful
<1>4. \A z \in Outpoint : Fits(z, x.m, x.d, disk, sent, builder.todo)
  BY ONLY <1>1, Fits(o, x.m, x.d, disk, sent, builder.todo)
<1>5. x.ok => \A z \in Outpoint : Agrees(z, x.m, x.d)
  BY <1>2
<1> QED BY ONLY x \in Sound, <1>3, <1>4, <1>5 DEF Careful

\* A step that concerns no output at all.
LEMMA BookkeepingCareful ==
  ASSUME NEW w \in Careful, NEW x \in Sound,
         \A z \in Outpoint : SameAt(x, w, z),
         x.ok => w.ok,
         \A p \in Proposal : x.row[p] = "open" => w.row[p] = "open"
  PROVE  x \in Careful
<1>1. ASSUME NEW z \in Outpoint PROVE Fits(z, x.m, x.d, disk, sent, builder.todo)
  <2>1. SameAt(x, w, z) /\ Fits(z, w.m, w.d, disk, sent, builder.todo)
    BY <1>1 DEF Careful
  <2>2. Theirs(z, x.m, x.d, disk, builder.todo) => Theirs(z, w.m, w.d, disk, builder.todo)
    BY <2>1 DEF SameAt, Theirs
  <2> QED BY <2>1, <2>2 DEF SameAt, Fits, IsAvailable
<1>2. ASSUME NEW z \in Outpoint, x.ok PROVE Agrees(z, x.m, x.d)
  <2>1. SameAt(x, w, z) /\ Agrees(z, w.m, w.d)
    BY <1>2 DEF Careful
  <2> QED BY <2>1 DEF SameAt, Agrees
<1>3. \A p \in Proposal : x.row[p] = "open" => row[p] = "open"
  BY DEF Careful
<1>4. \A z \in Outpoint : Fits(z, x.m, x.d, disk, sent, builder.todo)
  BY ONLY <1>1
<1>5. x.ok => \A z \in Outpoint : Agrees(z, x.m, x.d)
  BY <1>2
<1> QED BY ONLY x \in Sound, <1>3, <1>4, <1>5 DEF Careful

\* What a table says of proposals and of coinbases.
SameClaims(a, b) ==
  /\ a.gen = b.gen /\ a.twice = b.twice
  /\ a.assoc = b.assoc /\ a.made = b.made /\ a.used = b.used

\* Steps that change states and positions only.
Kept(w) ==
  {x \in Careful :
     /\ x.m.made = w.m.made /\ x.m.used = w.m.used /\ x.m.assoc = w.m.assoc
     /\ x.row = w.row
     /\ \A o \in Outpoint : w.m.state[o] # "absent" => x.m.state[o] # "absent"}

\* They compose.
LEMMA KeptTransitive ==
  ASSUME NEW w \in Careful, NEW v \in Kept(w), NEW x \in Kept(v)
  PROVE  x \in Kept(w)
BY DEF Kept

\* A careful work is one of them.
LEMMA KeptReflexive ==
  ASSUME NEW w \in Careful
  PROVE  w \in Kept(w)
BY DEF Kept

\* An exception makes no claim.
LEMMA ThrowKept ==
  ASSUME NEW w \in Careful
  PROVE  Throw(w) \in Kept(w) /\ ~Throw(w).ok
<1> DEFINE x == Throw(w)
<1>1. w \in Sound /\ w \in Work
  BY DEF Careful, Sound
<1>2. x.m = w.m /\ x.d = w.d /\ x.row = w.row /\ x.ok = FALSE
  BY <1>1 DEF Throw, Work
<1>3. x \in Sound
  BY <1>1, ThrowSound
<1> HIDE DEF x
<1>4. \A z \in Outpoint : SameAt(x, w, z)
  BY <1>2 DEF SameAt
<1>5. x \in Careful
  BY <1>2, <1>3, <1>4, BookkeepingCareful
<1>6. x \in Kept(w)
  BY <1>2, <1>5 DEF Kept
<1> QED BY <1>2, <1>6 DEF x

\* A change of position makes none.
LEMMA ChangePositionShape ==
  ASSUME NEW w \in Work, NEW o \in Outpoint, NEW old, NEW new
  PROVE  LET c == ChangePosition(w, o, old, new)
         IN /\ SameClaims(c.m, w.m) /\ SameClaims(c.d, w.d)
            /\ c.m.state = w.m.state /\ c.d.state = w.d.state /\ c.row = w.row
<1>1. w.m \in Table /\ w.d \in Table
  BY DEF Work
<1> QED BY <1>1 DEF ChangePosition, Work, Table, SameClaims

\* A change of state makes none.
LEMMA ChangeStateShape ==
  ASSUME NEW w \in Sound, NEW o \in Outpoint, NEW s \in TxoState, NEW q \in Position
  PROVE  LET x == ChangeState(w, o, s, q)
         IN /\ SameClaims(x.m, w.m) /\ SameClaims(x.d, w.d) /\ x.row = w.row
            /\ x.m.state \in {w.m.state, [w.m.state EXCEPT ![o] = s]}
            /\ x.d.state \in {w.d.state, [w.d.state EXCEPT ![o] = s]}
<1> DEFINE x == ChangeState(w, o, s, q)
           v == [w EXCEPT !.m.state[o] = s, !.d.state[o] = s]
           c(old, new) == ChangePosition(v, o, old, new)
           ms == [w.m.state EXCEPT ![o] = s]
           ds == [w.d.state EXCEPT ![o] = s]
<1>1. w \in Work /\ w.m \in Table /\ w.d \in Table
  BY DEF Sound, Work
<1>2. ms \in [Outpoint -> TxoState \cup {"absent"}] /\ ds \in [Outpoint -> TxoState \cup {"absent"}]
  BY <1>1 DEF Table
<1>3. v = [w EXCEPT !.m = [w.m EXCEPT !.state = ms], !.d = [w.d EXCEPT !.state = ds]]
  BY <1>1 DEF Work, Table
<1> HIDE DEF ms, ds
<1>4. [w.m EXCEPT !.state = ms] \in Table /\ [w.d EXCEPT !.state = ds] \in Table
  BY <1>1, <1>2 DEF Table
<1>5. v \in Work
  BY <1>1, <1>3, <1>4 DEF Work
<1>6. /\ SameClaims(v.m, w.m) /\ SameClaims(v.d, w.d) /\ v.row = w.row
      /\ v.m.state = ms /\ v.d.state = ds
  <2> HIDE DEF v
  <2>1. v.m = [w.m EXCEPT !.state = ms] /\ v.d = [w.d EXCEPT !.state = ds] /\ v.row = w.row
    BY <1>1, <1>3 DEF Work
  <2>2. SameClaims(v.m, w.m) /\ v.m.state = ms
    BY <1>1, <2>1 DEF Table, SameClaims
  <2>3. SameClaims(v.d, w.d) /\ v.d.state = ds
    BY <1>1, <2>1 DEF Table, SameClaims
  <2> QED BY <2>1, <2>2, <2>3
<1>7. x \in {Throw(w), v, c(w.m.pos[o], Effective(s, w.m.pos[o], q))}
  BY Zenon DEF ChangeState, v, c
<1> HIDE DEF v
<1>8. ASSUME NEW old, NEW new
      PROVE  /\ SameClaims(c(old, new).m, v.m) /\ SameClaims(c(old, new).d, v.d)
             /\ c(old, new).m.state = v.m.state /\ c(old, new).d.state = v.d.state
             /\ c(old, new).row = v.row
  BY <1>5, ChangePositionShape
<1>9. Throw(w).m = w.m /\ Throw(w).d = w.d /\ Throw(w).row = w.row
  BY <1>1 DEF Throw, Work
<1> HIDE DEF x, c
<1>10. /\ SameClaims(x.m, w.m) /\ SameClaims(x.d, w.d) /\ x.row = w.row
       /\ x.m.state \in {w.m.state, ms} /\ x.d.state \in {w.d.state, ds}
  <2>1. CASE x = Throw(w)
    BY <1>9, <2>1 DEF SameClaims
  <2>2. CASE x = v
    BY <1>6, <2>2
  <2>3. CASE x = c(w.m.pos[o], Effective(s, w.m.pos[o], q))
    BY <1>6, <1>8, <2>3 DEF SameClaims
  <2> QED BY <1>7, <2>1, <2>2, <2>3
<1> QED BY <1>10, Zenon DEF x, ms, ds

\* An output becomes available only if it was received and no proposal that is
\* still open has made it.
LEMMA ChangeStateKept ==
  ASSUME NEW w \in Careful, w.ok, NEW o \in Outpoint, NEW s \in TxoState, NEW q \in Position,
         s = "ConfirmedNew" => /\ o \in Received(sent)
                               /\ \A p \in Proposal : o \notin w.m.made[p]
  PROVE  ChangeState(w, o, s, q) \in Kept(w)
<1> DEFINE x == ChangeState(w, o, s, q)
<1>1. w \in Sound /\ w \in Work /\ w.m \in Table /\ w.d \in Table
  BY DEF Careful, Sound, Work
<1>2. x \in Sound
  BY <1>1, ChangeStateSound
<1>3. /\ SameClaims(x.m, w.m) /\ SameClaims(x.d, w.d) /\ x.row = w.row
      /\ x.m.state \in {w.m.state, [w.m.state EXCEPT ![o] = s]}
      /\ x.d.state \in {w.d.state, [w.d.state EXCEPT ![o] = s]}
  BY <1>1, ChangeStateShape
<1>4. s # "absent"
  BY DEF TxoState, New, Spent
<1>5. w.m.state \in [Outpoint -> TxoState \cup {"absent"}] /\ w.d.state \in [Outpoint -> TxoState \cup {"absent"}]
  BY <1>1 DEF Table
<1> HIDE DEF x
<1>6. /\ x.m.state[o] \in {w.m.state[o], s} /\ x.d.state[o] \in {w.d.state[o], s}
      /\ \A z \in Outpoint \ {o} : x.m.state[z] = w.m.state[z] /\ x.d.state[z] = w.d.state[z]
  BY ONLY <1>3, <1>5, o \in Outpoint
<1>7. ASSUME NEW z \in Outpoint \ {o} PROVE SameAt(x, w, z)
  BY <1>3, <1>6 DEF SameAt, SameClaims
<1>8. Fits(o, x.m, x.d, disk, sent, builder.todo)
  <2>1. Fits(o, w.m, w.d, disk, sent, builder.todo)
    BY DEF Careful
  <2>2. Theirs(o, x.m, x.d, disk, builder.todo) <=> Theirs(o, w.m, w.d, disk, builder.todo)
    BY <1>3 DEF Theirs, SameClaims
  <2>3. /\ x.m.made = w.m.made /\ x.d.made = w.d.made /\ x.m.used = w.m.used /\ x.d.used = w.d.used
        /\ x.m.assoc = w.m.assoc
    BY <1>3 DEF SameClaims
  <2> QED BY <1>4, <1>6, <2>1, <2>2, <2>3 DEF Fits, IsAvailable
<1>9. Agrees(o, x.m, x.d)
  <2>1. Agrees(o, w.m, w.d)
    BY DEF Careful
  <2> QED BY <1>3, <1>4, <1>6, <2>1 DEF Agrees, SameClaims
<1>10. x \in Careful
  BY <1>2, <1>3, <1>7, <1>8, <1>9, BesideCareful
<1>11. \A z \in Outpoint : w.m.state[z] # "absent" => x.m.state[z] # "absent"
  BY <1>4, <1>6
<1>12. x \in Kept(w)
  BY <1>3, <1>10, <1>11 DEF Kept, SameClaims
<1> QED BY <1>12 DEF x

\* Coinbases that mature were received.
LEMMA MatureAllKept ==
  ASSUME NEW w \in Careful, NEW O \in SUBSET Outpoint, NEW q \in Position,
         \A o \in O : o \in Received(sent) /\ \A p \in Proposal : o \notin w.m.made[p]
  PROVE  MatureAll(w, O, q) \in Kept(w)
<1>1. w \in Sound /\ w \in Kept(w)
  BY KeptReflexive DEF Careful
<1>2. PICK f : MatureAllTrace(f, w, O, q)
  BY <1>1, MatureAllLoop
<1>3. IsFiniteSet(O)
  BY ConstantsAssumption, FS_Subset
<1>4. ASSUME NEW s \in SUBSET O, s # {}, f[Rest(s)] \in Kept(w)
      PROVE  f[s] \in Kept(w)
  <2> DEFINE v == f[Rest(s)]
             o == Chosen(s)
  <2>1. o \in O /\ o \in Outpoint /\ v \in Careful
    BY <1>4, ChosenIsElement DEF Kept
  <2>2. f[s] = IF v.ok THEN Mature(v, o, q) ELSE v
    BY <1>2, <1>4 DEF MatureAllTrace
  <2> HIDE DEF v, o
  <2>3. v.m.made = w.m.made /\ v \in Kept(w)
    BY <1>4 DEF Kept, v
  <2>4. CASE v.ok
    <3>1. ChangeState(v, o, "ConfirmedNew", q) \in Kept(v)
      BY <2>1, <2>3, <2>4, ChangeStateKept DEF TxoState, New
    <3>2. Mature(v, o, q) \in Kept(v)
      BY <2>1, <3>1, KeptReflexive DEF Mature
    <3> QED BY <2>2, <2>3, <2>4, <3>2, KeptTransitive
  <2>5. CASE ~v.ok
    BY <2>2, <2>3, <2>5
  <2> QED BY <2>4, <2>5
<1>5. \A s \in SUBSET O : f[s] \in Kept(w)
  BY <1>1, <1>2, <1>3, <1>4, TraceKeeps DEF MatureAllTrace
<1> QED BY <1>2, <1>5 DEF MatureAllTrace

\* What is rolled back becomes unconfirmed.
LEMMA BackAllKept ==
  ASSUME NEW w \in Careful, NEW O \in SUBSET Outpoint, NEW q \in Position
  PROVE  BackAll(w, O, q) \in Kept(w)
<1>1. w \in Sound /\ w \in Kept(w)
  BY KeptReflexive DEF Careful
<1>2. PICK f : BackAllTrace(f, w, O, q)
  BY <1>1, BackAllLoop
<1>3. IsFiniteSet(O)
  BY ConstantsAssumption, FS_Subset
<1>4. ASSUME NEW s \in SUBSET O, s # {}, f[Rest(s)] \in Kept(w)
      PROVE  f[s] \in Kept(w)
  <2> DEFINE v == f[Rest(s)]
             o == Chosen(s)
  <2>1. o \in Outpoint /\ v \in Careful /\ v \in Kept(w)
    BY <1>4, ChosenIsElement DEF Kept
  <2>2. f[s] = IF v.ok THEN Back(v, o, q) ELSE v
    BY <1>2, <1>4 DEF BackAllTrace
  <2> HIDE DEF v, o
  <2>3. CASE v.ok
    <3>1. /\ ChangeState(v, o, "UnconfirmedNew", q) \in Kept(v)
          /\ ChangeState(v, o, "UnconfirmedSpend", q) \in Kept(v)
      BY <2>1, <2>3, ChangeStateKept DEF TxoState, New, Spent
    <3>2. Back(v, o, q) \in Kept(v)
      BY <2>1, <3>1, KeptReflexive DEF Back
    <3> QED BY <2>1, <2>2, <2>3, <3>2, KeptTransitive
  <2>4. CASE ~v.ok
    BY <2>1, <2>2, <2>4
  <2> QED BY <2>3, <2>4
<1>5. \A s \in SUBSET O : f[s] \in Kept(w)
  BY <1>1, <1>2, <1>3, <1>4, TraceKeeps DEF BackAllTrace
<1> QED BY <1>2, <1>5 DEF BackAllTrace

\* States other than ConfirmedNew can be set for any outputs.
LEMMA SetStatesKept ==
  ASSUME NEW w \in Careful, NEW O \in SUBSET Outpoint, NEW q \in Position,
         NEW s \in TxoState, s # "ConfirmedNew"
  PROVE  SetStates(w, O, s, q) \in Kept(w)
<1>1. w \in Sound /\ w \in Kept(w)
  BY KeptReflexive DEF Careful
<1>2. PICK f : SetStatesTrace(f, w, O, s, q)
  BY <1>1, SetStatesLoop
<1>3. IsFiniteSet(O)
  BY ConstantsAssumption, FS_Subset
<1>4. ASSUME NEW t \in SUBSET O, t # {}, f[Rest(t)] \in Kept(w)
      PROVE  f[t] \in Kept(w)
  <2> DEFINE v == f[Rest(t)]
             o == Chosen(t)
  <2>1. o \in Outpoint /\ v \in Careful /\ v \in Kept(w)
    BY <1>4, ChosenIsElement DEF Kept
  <2>2. f[t] = IF v.ok THEN ChangeState(v, o, s, q) ELSE v
    BY <1>2, <1>4 DEF SetStatesTrace
  <2> HIDE DEF v, o
  <2>3. CASE v.ok
    <3>1. ChangeState(v, o, s, q) \in Kept(v)
      BY <2>1, <2>3, ChangeStateKept
    <3> QED BY <2>1, <2>2, <2>3, <3>1, KeptTransitive
  <2>4. CASE ~v.ok
    BY <2>1, <2>2, <2>4
  <2> QED BY <2>3, <2>4
<1>5. \A t \in SUBSET O : f[t] \in Kept(w)
  BY <1>1, <1>2, <1>3, <1>4, TraceKeeps DEF SetStatesTrace
<1> QED BY <1>2, <1>5 DEF SetStatesTrace

\* Blocks are rolled back.
LEMMA RollBackKept ==
  ASSUME NEW w \in Careful, NEW Q \in SUBSET Position, IsFiniteSet(Q)
  PROVE  RollBack(w, Q) \in Kept(w)
<1>1. w \in Sound /\ w \in Kept(w)
  BY KeptReflexive DEF Careful
<1>2. PICK f : RollBackTrace(f, w, Q)
  BY <1>1, RollBackLoop
<1>3. ASSUME NEW v \in Careful, NEW q \in Position PROVE Unconfirm(v, q) \in Kept(v)
  <2> DEFINE O == {o \in Outpoint : <<q, o>> \in v.m.at}
  <2>1. BackAll(v, O, q) \in Kept(v)
    BY BackAllKept
  <2>2. Unconfirm(v, q) = BackAll(v, O, q)
    BY Zenon DEF Unconfirm, BackAll, Back
  <2> QED BY <2>1, <2>2
<1>4. ASSUME NEW s \in SUBSET Q, s # {}, f[Rest(s)] \in Kept(w)
      PROVE  f[s] \in Kept(w)
  <2>1. Chosen(s) \in Position /\ f[Rest(s)] \in Careful
    BY <1>4, ChosenIsElement DEF Kept
  <2>2. Unconfirm(f[Rest(s)], Chosen(s)) \in Kept(f[Rest(s)])
    BY <1>3, <2>1
  <2>3. Unconfirm(f[Rest(s)], Chosen(s)) \in Kept(w)
    BY <1>4, <2>2, KeptTransitive
  <2> QED BY <1>2, <1>4, <2>3 DEF RollBackTrace
<1>5. \A s \in SUBSET Q : f[s] \in Kept(w)
  BY <1>1, <1>2, <1>4, TraceKeeps DEF RollBackTrace
<1> QED BY <1>2, <1>5 DEF RollBackTrace

\* The position of the wallet makes no claim.
LEMMA TipKept ==
  ASSUME NEW w \in Careful, NEW q \in Seq(Nat)
  PROVE  [w EXCEPT !.m.tip = q, !.d.tip = q] \in Kept(w)
<1> DEFINE x == [w EXCEPT !.m.tip = q, !.d.tip = q]
<1>1. w \in Sound /\ w \in Work /\ w.m \in Table /\ w.d \in Table
  BY DEF Careful, Sound, Work
<1>2. x \in Sound
  BY <1>1, TipSound
<1>3. x.m = [w.m EXCEPT !.tip = q] /\ x.d = [w.d EXCEPT !.tip = q] /\ x.row = w.row /\ x.ok = w.ok
  BY <1>1 DEF Work
<1> HIDE DEF x
<1>4. SameClaims(x.m, w.m) /\ x.m.state = w.m.state
  BY <1>1, <1>3 DEF Table, SameClaims
<1>5. SameClaims(x.d, w.d) /\ x.d.state = w.d.state
  BY <1>1, <1>3 DEF Table, SameClaims
<1>6. ASSUME NEW z \in Outpoint PROVE SameAt(x, w, z)
  BY <1>4, <1>5 DEF SameAt, SameClaims
<1>7. x \in Careful
  BY <1>2, <1>3, <1>6, BookkeepingCareful
<1>8. x \in Kept(w)
  BY <1>3, <1>4, <1>7 DEF Kept, SameClaims
<1> QED BY <1>8 DEF x

\* Coinbases are only taken out of the index.
LEMMA DeleteGenerationAboveKept ==
  ASSUME NEW w \in Careful, NEW good, NEW skip
  PROVE  DeleteGenerationAbove(w, good, skip) \in Kept(w)
<1> DEFINE rows == (w.m.gen \X {1}) \cup (w.m.twice \X {2})
           above == {r \in rows : r[1][1] >= good} \ (skip \X {1})
           gone == {r[1] : r \in above}
           heights == {g[1] : g \in gone}
           mgen == {r[1] : r \in rows \ above}
           mtwice == w.m.twice \ gone
           dgen == {g \in w.d.gen : g[1] \notin heights}
           v == [w EXCEPT !.m.gen = mgen, !.m.twice = mtwice, !.d.gen = dgen]
           x == DeleteGenerationAbove(w, good, skip)
<1>1. w \in Sound /\ w \in Work /\ w.m \in Table /\ w.d \in Table
  BY DEF Careful, Sound, Work
<1>2. mgen \subseteq w.m.gen \cup w.m.twice
  <2> HIDE DEF above
  <2> QED OBVIOUS
<1>3. mtwice \subseteq w.m.twice /\ dgen \subseteq w.d.gen
  <2> HIDE DEF gone, heights
  <2> QED OBVIOUS
<1>4. x \in {v, Throw(w)}
  BY Zenon DEF DeleteGenerationAbove
<1>5. x \in Sound
  BY <1>1, DeleteGenerationAboveSound
<1> HIDE DEF rows, above, gone, heights, mgen, mtwice, dgen, x
<1>6. ASSUME x = v PROVE x \in Kept(w)
  <2>1. /\ x.m = [w.m EXCEPT !.gen = mgen, !.twice = mtwice]
        /\ x.d = [w.d EXCEPT !.gen = dgen] /\ x.row = w.row /\ x.ok = w.ok
    BY <1>1, <1>6 DEF Work, Table
  <2> HIDE DEF v
  <2>2. /\ x.m.state = w.m.state /\ x.m.assoc = w.m.assoc
        /\ x.m.made = w.m.made /\ x.m.used = w.m.used
        /\ x.m.gen = mgen /\ x.m.twice = mtwice
    BY <1>1, <2>1 DEF Table
  <2>3. /\ x.d.state = w.d.state /\ x.d.assoc = w.d.assoc
        /\ x.d.made = w.d.made /\ x.d.used = w.d.used /\ x.d.gen = dgen
    BY <1>1, <2>1 DEF Table
  <2>4. ASSUME NEW z \in Outpoint PROVE SameAt(x, w, z)
    BY <1>2, <1>3, <2>2, <2>3 DEF SameAt
  <2>5. x \in Careful
    BY <1>5, <2>1, <2>4, BookkeepingCareful
  <2> QED BY <2>1, <2>2, <2>5 DEF Kept
<1>7. ASSUME x = Throw(w) PROVE x \in Kept(w)
  BY <1>7, ThrowKept
<1>8. x \in Kept(w)
  BY <1>4, <1>6, <1>7
<1> QED BY <1>8 DEF x

\* Output::AdvanceTo.
LEMMA AdvanceToKept ==
  ASSUME NEW w \in Careful, w.ok, NEW q \in Seq(Nat)
  PROVE  AdvanceTo(w, q) \in Kept(w)
<1> DEFINE first == IF Height(w.m.tip) > Maturity THEN Height(w.m.tip) - Maturity ELSE 0
           matured == {g[2] : g \in {g \in w.m.gen :
                         first <= g[1] /\ g[1] <= Height(q) - Maturity}}
           all == MatureAll(w, matured, q)
           Moved(v) == [v EXCEPT !.m.tip = q, !.d.tip = q]
<1>1. w.m.gen \subseteq Int \X Outpoint /\ q \in Position
  BY DEF Careful, Sound, Work, Table, Position
<1>2. matured \in SUBSET Outpoint
  BY <1>1
<1>3. ASSUME NEW o \in matured
      PROVE  o \in Received(sent) /\ \A p \in Proposal : o \notin w.m.made[p]
  <2>1. PICK g \in w.m.gen : o = g[2]
    OBVIOUS
  <2>2. g[1] \in Int /\ g = <<g[1], o>>
    BY <1>1, <2>1
  <2>3. o \in Outpoint /\ Theirs(o, w.m, w.d, disk, builder.todo)
    BY <1>1, <2>1, <2>2 DEF Theirs
  <2> QED BY <2>3 DEF Careful, Fits
<1>4. all \in Kept(w)
  <2> HIDE DEF matured
  <2> QED BY <1>1, <1>2, <1>3, MatureAllKept
<1>5. ASSUME NEW v \in Kept(w) PROVE Moved(v) \in Kept(w)
  <2>1. v \in Careful
    BY DEF Kept
  <2>2. Moved(v) \in Kept(v)
    BY <1>1, <2>1, TipKept
  <2> HIDE DEF Moved
  <2> QED BY <2>2, KeptTransitive
<1>6. AdvanceTo(w, q) = IF ~Advances(w.m, q) THEN w ELSE Then(all, LAMBDA v : Moved(v))
  BY Zenon DEF AdvanceTo, MatureAll, Mature
<1> HIDE DEF all, Moved
<1>7. Then(all, LAMBDA v : Moved(v)) \in Kept(w)
  BY <1>4, <1>5 DEF Then
<1> QED BY <1>6, <1>7, KeptReflexive

\* Output::FinalizeReorg.
LEMMA FinalizeReorgKept ==
  ASSUME NEW w \in Careful, NEW q \in Seq(Nat), NEW skip
  PROVE  FinalizeReorg(w, q, skip) \in Kept(w)
<1> DEFINE v == DeleteGenerationAbove(w, Height(q), skip)
           O == {g[2] : g \in {g \in w.m.gen \ skip : g[1] >= Height(q)}}
           Moved(x) == [x EXCEPT !.m.tip = q, !.d.tip = q]
           Final(u) == Then(SetStates(u, O, "OrphanedNew", q), LAMBDA x : Moved(x))
<1>1. w \in Sound /\ w.m \in Table
  BY DEF Careful, Sound, Work
<1>2. v \in Kept(w)
  BY DeleteGenerationAboveKept
<1>3. O \in SUBSET Outpoint /\ q \in Position
      /\ "OrphanedNew" \in TxoState /\ "OrphanedNew" # "ConfirmedNew"
  BY <1>1 DEF Table, Position, TxoState, New
<1> HIDE DEF v, O
<1>4. ASSUME NEW u \in Kept(w) PROVE Final(u) \in Kept(w)
  <2> DEFINE set == SetStates(u, O, "OrphanedNew", q)
  <2>1. u \in Careful
    BY DEF Kept
  <2>2. set \in Kept(u)
    BY <1>3, <2>1, SetStatesKept
  <2> HIDE DEF set
  <2>3. set \in Careful /\ set \in Kept(w)
    BY <2>2, KeptTransitive DEF Kept
  <2>4. Moved(set) \in Kept(set)
    BY <1>3, <2>3, TipKept
  <2> HIDE DEF Moved
  <2>5. Moved(set) \in Kept(w)
    BY <2>3, <2>4, KeptTransitive
  <2>6. Final(u) = IF set.ok THEN Moved(set) ELSE set
    BY Zenon DEF Then, set
  <2> QED BY <2>3, <2>5, <2>6
<1>5. FinalizeReorg(w, q, skip) = IF w.m.tip = q THEN w ELSE Then(v, LAMBDA u : Final(u))
  BY Zenon DEF FinalizeReorg, SetStates, v, O
<1> HIDE DEF Final
<1>6. Then(v, LAMBDA u : Final(u)) \in Kept(w)
  BY <1>2, <1>4 DEF Then
<1> QED BY <1>5, <1>6, KeptReflexive

\* What a table says of outputs and of coinbases.
SameStates(a, b) == a.state = b.state /\ a.gen = b.gen /\ a.twice = b.twice

\* A function with one value replaced.
Put(f, k, e) == [f EXCEPT ![k] = e]

\* The proposals listed for an output are replaced.
SetAssoc(w, o, a, b) == [w EXCEPT !.m.assoc[o] = a, !.d.assoc[o] = b]

\* Nothing else is.
LEMMA SetAssocShape ==
  ASSUME NEW w \in Work, NEW o \in Outpoint, NEW a, NEW b
  PROVE  /\ SameStates(SetAssoc(w, o, a, b).m, w.m)
         /\ SetAssoc(w, o, a, b).m.made = w.m.made
         /\ SetAssoc(w, o, a, b).m.used = w.m.used
         /\ SameStates(SetAssoc(w, o, a, b).d, w.d)
         /\ SetAssoc(w, o, a, b).d.made = w.d.made
         /\ SetAssoc(w, o, a, b).d.used = w.d.used
         /\ SetAssoc(w, o, a, b).m.assoc = Put(w.m.assoc, o, a)
         /\ SetAssoc(w, o, a, b).d.assoc = Put(w.d.assoc, o, b)
         /\ SetAssoc(w, o, a, b).row = w.row /\ SetAssoc(w, o, a, b).ok = w.ok
<1> DEFINE x == SetAssoc(w, o, a, b)
           ma == [w.m.assoc EXCEPT ![o] = a]
           da == [w.d.assoc EXCEPT ![o] = b]
<1>1. w.m \in Table /\ w.d \in Table
  BY DEF Work
<1>2. /\ x.m = [w.m EXCEPT !.assoc = ma] /\ x.d = [w.d EXCEPT !.assoc = da]
      /\ x.row = w.row /\ x.ok = w.ok
  BY <1>1 DEF Work, Table, SetAssoc
<1> HIDE DEF x, ma, da
<1>3. SameStates(x.m, w.m) /\ x.m.made = w.m.made /\ x.m.used = w.m.used /\ x.m.assoc = ma
  <2>1. w.m \in Table /\ x.m = [w.m EXCEPT !.assoc = ma]
    BY <1>1, <1>2
  <2>2. SameStates(x.m, w.m)
    BY ONLY <2>1 DEF Table, SameStates
  <2>3. x.m.made = w.m.made /\ x.m.used = w.m.used /\ x.m.assoc = ma
    BY ONLY <2>1 DEF Table
  <2> QED BY <2>2, <2>3
<1>4. SameStates(x.d, w.d) /\ x.d.made = w.d.made /\ x.d.used = w.d.used /\ x.d.assoc = da
  <2>1. w.d \in Table /\ x.d = [w.d EXCEPT !.assoc = da]
    BY <1>1, <1>2
  <2>2. SameStates(x.d, w.d)
    BY ONLY <2>1 DEF Table, SameStates
  <2>3. x.d.made = w.d.made /\ x.d.used = w.d.used /\ x.d.assoc = da
    BY ONLY <2>1 DEF Table
  <2> QED BY <2>2, <2>3
<1> QED BY <1>2, <1>3, <1>4, Zenon DEF x, ma, da, Put

\* The outputs a proposal has made are replaced.
SetMade(w, p, a, b) == [w EXCEPT !.m.made[p] = a, !.d.made[p] = b]

\* Nothing else is.
LEMMA SetMadeShape ==
  ASSUME NEW w \in Work, NEW p \in Proposal, NEW a, NEW b
  PROVE  /\ SameStates(SetMade(w, p, a, b).m, w.m)
         /\ SetMade(w, p, a, b).m.assoc = w.m.assoc
         /\ SetMade(w, p, a, b).m.used = w.m.used
         /\ SameStates(SetMade(w, p, a, b).d, w.d)
         /\ SetMade(w, p, a, b).d.assoc = w.d.assoc
         /\ SetMade(w, p, a, b).d.used = w.d.used

         /\ SetMade(w, p, a, b).m.made = Put(w.m.made, p, a)

         /\ SetMade(w, p, a, b).d.made = Put(w.d.made, p, b)
         /\ SetMade(w, p, a, b).row = w.row /\ SetMade(w, p, a, b).ok = w.ok
<1> DEFINE x == SetMade(w, p, a, b)
           ma == [w.m.made EXCEPT ![p] = a]
           da == [w.d.made EXCEPT ![p] = b]
<1>1. w.m \in Table /\ w.d \in Table
  BY DEF Work
<1>2. /\ x.m = [w.m EXCEPT !.made = ma] /\ x.d = [w.d EXCEPT !.made = da]
      /\ x.row = w.row /\ x.ok = w.ok
  BY <1>1 DEF Work, Table, SetMade
<1> HIDE DEF x, ma, da
<1>3. SameStates(x.m, w.m) /\ x.m.assoc = w.m.assoc /\ x.m.used = w.m.used /\ x.m.made = ma
  <2>1. w.m \in Table /\ x.m = [w.m EXCEPT !.made = ma]
    BY <1>1, <1>2
  <2>2. SameStates(x.m, w.m)
    BY ONLY <2>1 DEF Table, SameStates
  <2>3. x.m.assoc = w.m.assoc /\ x.m.used = w.m.used /\ x.m.made = ma
    BY ONLY <2>1 DEF Table
  <2> QED BY <2>2, <2>3
<1>4. SameStates(x.d, w.d) /\ x.d.assoc = w.d.assoc /\ x.d.used = w.d.used /\ x.d.made = da
  <2>1. w.d \in Table /\ x.d = [w.d EXCEPT !.made = da]
    BY <1>1, <1>2
  <2>2. SameStates(x.d, w.d)
    BY ONLY <2>1 DEF Table, SameStates
  <2>3. x.d.assoc = w.d.assoc /\ x.d.used = w.d.used /\ x.d.made = da
    BY ONLY <2>1 DEF Table
  <2> QED BY <2>2, <2>3
<1> QED BY <1>2, <1>3, <1>4, Zenon DEF x, ma, da, Put

\* The outputs a proposal has reserved are replaced.
SetUsed(w, p, a, b) == [w EXCEPT !.m.used[p] = a, !.d.used[p] = b]

\* Nothing else is.
LEMMA SetUsedShape ==
  ASSUME NEW w \in Work, NEW p \in Proposal, NEW a, NEW b
  PROVE  /\ SameStates(SetUsed(w, p, a, b).m, w.m)
         /\ SetUsed(w, p, a, b).m.assoc = w.m.assoc
         /\ SetUsed(w, p, a, b).m.made = w.m.made
         /\ SameStates(SetUsed(w, p, a, b).d, w.d)
         /\ SetUsed(w, p, a, b).d.assoc = w.d.assoc
         /\ SetUsed(w, p, a, b).d.made = w.d.made

         /\ SetUsed(w, p, a, b).m.used = Put(w.m.used, p, a)

         /\ SetUsed(w, p, a, b).d.used = Put(w.d.used, p, b)
         /\ SetUsed(w, p, a, b).row = w.row /\ SetUsed(w, p, a, b).ok = w.ok
<1> DEFINE x == SetUsed(w, p, a, b)
           ma == [w.m.used EXCEPT ![p] = a]
           da == [w.d.used EXCEPT ![p] = b]
<1>1. w.m \in Table /\ w.d \in Table
  BY DEF Work
<1>2. /\ x.m = [w.m EXCEPT !.used = ma] /\ x.d = [w.d EXCEPT !.used = da]
      /\ x.row = w.row /\ x.ok = w.ok
  BY <1>1 DEF Work, Table, SetUsed
<1> HIDE DEF x, ma, da
<1>3. SameStates(x.m, w.m) /\ x.m.assoc = w.m.assoc /\ x.m.made = w.m.made /\ x.m.used = ma
  <2>1. w.m \in Table /\ x.m = [w.m EXCEPT !.used = ma]
    BY <1>1, <1>2
  <2>2. SameStates(x.m, w.m)
    BY ONLY <2>1 DEF Table, SameStates
  <2>3. x.m.assoc = w.m.assoc /\ x.m.made = w.m.made /\ x.m.used = ma
    BY ONLY <2>1 DEF Table
  <2> QED BY <2>2, <2>3
<1>4. SameStates(x.d, w.d) /\ x.d.assoc = w.d.assoc /\ x.d.made = w.d.made /\ x.d.used = da
  <2>1. w.d \in Table /\ x.d = [w.d EXCEPT !.used = da]
    BY <1>1, <1>2
  <2>2. SameStates(x.d, w.d)
    BY ONLY <2>1 DEF Table, SameStates
  <2>3. x.d.assoc = w.d.assoc /\ x.d.made = w.d.made /\ x.d.used = da
    BY ONLY <2>1 DEF Table
  <2> QED BY <2>2, <2>3
<1> QED BY <1>2, <1>3, <1>4, Zenon DEF x, ma, da, Put

\* An exception changes nothing else.
LEMMA ThrowShape ==
  ASSUME NEW w \in Work
  PROVE  Throw(w).m = w.m /\ Throw(w).d = w.d /\ Throw(w).row = w.row /\ Throw(w).ok = FALSE
BY DEF Throw, Work

\* A proposal reserves what was received, unless another one has it: the test
\* of the code lets pass only outputs without a proposal, for those made by a
\* proposal are not available.
LEMMA ConsumeOutputCareful ==
  ASSUME NEW w \in Careful, w.ok, NEW o \in Outpoint, NEW p \in Proposal,
         o \in Received(sent), \A q \in Proposal : o \notin w.m.made[q] \cup disk.made[q]
  PROVE  ConsumeOutput(w, o, p) \in Careful /\ ConsumeOutput(w, o, p).row = w.row
<1> DEFINE mu == w.m.used[p] \cup {o}
           du == w.d.used[p] \cup {o}
           v == [w EXCEPT !.m.used[p] = mu, !.d.used[p] = du]
           allowed == w.m.assoc[o] # <<>> => o \in w.m.made[Head(w.m.assoc[o])]
           y == [v EXCEPT !.m.assoc[o] = Append(w.m.assoc[o], p), !.d.assoc[o] = <<p>>]
           x == ConsumeOutput(w, o, p)
<1>1. w \in Sound /\ w \in Work /\ w.m \in Table /\ w.d \in Table
      /\ w.m.assoc[o] \in Seq(Proposal) /\ w.d.assoc[o] \in Seq(Proposal)
  BY DEF Careful, Sound, Work, Table
<1>2. x \in Sound
  BY <1>1, ConsumeOutputSound
<1>3. v = [w EXCEPT !.m.used[p] = @ \cup {o}, !.d.used[p] = @ \cup {o}]
  BY <1>1 DEF Work, Table
<1>4. mu \in SUBSET Outpoint /\ du \in SUBSET Outpoint
  BY <1>1 DEF Table
<1>5. v \in Sound /\ v \in Work
  <2>1. v \in Sound
    BY <1>1, <1>4, SetUsedSound
  <2> HIDE DEF v
  <2> QED BY <2>1 DEF Sound
<1>6. /\ SameStates(v.m, w.m) /\ v.m.assoc = w.m.assoc /\ v.m.made = w.m.made
      /\ SameStates(v.d, w.d) /\ v.d.assoc = w.d.assoc /\ v.d.made = w.d.made
      /\ v.m.used = Put(w.m.used, p, mu) /\ v.d.used = Put(w.d.used, p, du)
      /\ v.row = w.row /\ v.ok = w.ok
  <2>1. v = SetUsed(w, p, mu, du)
    BY DEF SetUsed
  <2> HIDE DEF mu, du, v
  <2>2. w \in Work /\ p \in Proposal
    BY <1>1
  <2> QED BY ONLY <2>1, <2>2, SetUsedShape
<1>7. allowed <=> w.m.assoc[o] = <<>>
  <2>1. w.m.assoc[o] # <<>> => Head(w.m.assoc[o]) \in Proposal
    BY <1>1
  <2> QED BY <2>1
<1>8. IF o \in w.m.used[p] THEN x = Throw(w)
      ELSE IF w.m.assoc[o] # <<>> THEN x = Throw(v) ELSE x = y
  <2>1. x = IF o \in w.m.used[p] THEN Throw(w) ELSE Associate(v, o, p, allowed)
    BY <1>3 DEF ConsumeOutput
  <2> HIDE DEF v, x, allowed
  <2>2. Associate(v, o, p, allowed) =
          IF w.m.assoc[o] # <<>> /\ ~allowed THEN Throw(v)
          ELSE [v EXCEPT !.m.assoc[o] = Append(@, p), !.d.assoc[o] = <<p>>]
    BY <1>6 DEF Associate
  <2>3. [v EXCEPT !.m.assoc[o] = Append(@, p), !.d.assoc[o] = <<p>>] = y
    BY <1>5, <1>6 DEF Work, Table
  <2> HIDE DEF y
  <2> QED BY <1>7, <2>1, <2>2, <2>3
<1> HIDE DEF v, x, allowed
<1>9. /\ \A z \in Outpoint, q \in Proposal :
           /\ (z \in v.m.used[q]) <=> (z \in w.m.used[q] \/ (z = o /\ q = p))
           /\ (z \in v.d.used[q]) <=> (z \in w.d.used[q] \/ (z = o /\ q = p))
  BY <1>1, <1>6 DEF Table, Put
<1>10. /\ Fits(o, w.m, w.d, disk, sent, builder.todo) /\ Agrees(o, w.m, w.d)
  BY DEF Careful
<1>11. ASSUME NEW t \in Sound,
              SameStates(t.m, w.m), SameStates(t.d, w.d),
              t.m.made = w.m.made, t.d.made = w.d.made,
              t.m.used = v.m.used, t.d.used = v.d.used,
              \A z \in Outpoint \ {o} : t.m.assoc[z] = w.m.assoc[z] /\ t.d.assoc[z] = w.d.assoc[z],
              t.row = w.row, t.ok => Agrees(o, t.m, t.d)
       PROVE  t \in Careful
  <2>3. ASSUME NEW z \in Outpoint \ {o} PROVE SameAt(t, w, z)
    BY <1>9, <1>11 DEF SameAt, SameStates
  <2>4. Fits(o, t.m, t.d, disk, sent, builder.todo)
    <3>1. \A q \in Proposal : o \in w.d.used[q] => o \in w.m.used[q]
      BY <1>10 DEF Fits
    <3>2. \A q \in Proposal : o \notin t.m.made[q] \cup disk.made[q] /\ o \notin t.d.made[q]
      BY <1>10, <1>11 DEF Fits
    <3>3. \A q \in Proposal : o \in t.d.used[q] => o \in t.m.used[q]
      BY <1>9, <1>11, <3>1
    <3>4. disk.state[o] # "absent" => t.m.state[o] # "absent"
      BY <1>10, <1>11 DEF Fits, SameStates
    <3> QED BY <3>2, <3>3, <3>4 DEF Fits
  <2> QED BY <1>11, <2>3, <2>4, BesideCareful
<1>12. CASE o \in w.m.used[p]
  <2>1. Throw(w) \in Careful /\ Throw(w).row = w.row
    BY ThrowKept DEF Kept
  <2> QED BY <1>8, <1>12, <2>1 DEF x
<1>13. CASE o \notin w.m.used[p] /\ w.m.assoc[o] # <<>>
  <2>1. x = Throw(v)
    BY <1>8, <1>13
  <2>2. x.m = v.m /\ x.d = v.d /\ x.row = v.row /\ x.ok = FALSE
    BY <1>5, <2>1, ThrowShape
  <2>4. x \in Careful
    BY <1>2, <1>6, <1>11, <2>2
  <2> QED BY <1>6, <2>2, <2>4 DEF x
<1>14. CASE o \notin w.m.used[p] /\ w.m.assoc[o] = <<>>
  <2>1. x = y
    BY <1>8, <1>14
  <2>0. x = SetAssoc(v, o, Append(w.m.assoc[o], p), <<p>>)
    BY <2>1 DEF SetAssoc
  <2> HIDE DEF y
  <2>2. /\ SameStates(x.m, v.m) /\ x.m.made = v.m.made /\ x.m.used = v.m.used
        /\ SameStates(x.d, v.d) /\ x.d.made = v.d.made /\ x.d.used = v.d.used
        /\ x.m.assoc = Put(v.m.assoc, o, Append(w.m.assoc[o], p))
        /\ x.d.assoc = Put(v.d.assoc, o, <<p>>)
        /\ x.row = v.row
    BY ONLY <1>5, <2>0, o \in Outpoint, SetAssocShape
  <2>3. /\ x.m.assoc[o] = Append(w.m.assoc[o], p) /\ x.d.assoc[o] = <<p>>
        /\ \A z \in Outpoint \ {o} : x.m.assoc[z] = w.m.assoc[z] /\ x.d.assoc[z] = w.d.assoc[z]
    BY <1>1, <1>6, <2>2 DEF Table, Put
  <2>4. ToSet(x.m.assoc[o]) = ToSet(w.m.assoc[o]) \cup {p} /\ ToSet(x.d.assoc[o]) = {p}
        /\ ToSet(w.m.assoc[o]) = {}
    <3> DEFINE q == w.m.assoc[o]
    <3>1. q \in Seq(Proposal) /\ q = <<>>
      BY <1>1, <1>14
    <3> HIDE DEF q
    <3>2. ToSet(Append(q, p)) = ToSet(q) \cup {p} /\ ToSet(<<p>>) = {p} /\ ToSet(q) = {}
      BY <3>1, AssociatedFacts
    <3> QED BY <2>3, <3>2 DEF q
  <2>5. \A q \in Proposal : o \notin w.d.made[q] \cup w.d.used[q]
    BY <1>10, <2>4 DEF Agrees
  <2>6. \A q \in Proposal : o \notin x.d.made[q] /\ ((o \in x.d.used[q]) <=> (q = p))
    BY <1>6, <1>9, <2>2, <2>5
  <2>7. Agrees(o, x.m, x.d)
    BY <2>4, <2>6 DEF Agrees
  <2>8. x \in Careful
    <3>1. SameStates(x.m, w.m) /\ SameStates(x.d, w.d)
      BY <1>6, <2>2 DEF SameStates
    <3> QED BY <1>2, <1>6, <1>11, <2>2, <2>3, <2>7, <3>1
  <2> QED BY <1>6, <2>2, <2>8 DEF x
<1> QED BY <1>12, <1>13, <1>14


\* What a table says of proposals.
SameProposals(a, b) == a.assoc = b.assoc /\ a.made = b.made /\ a.used = b.used

\* The row that is added for a coinbase.
Entry(o, generation) == IF generation THEN Int \X {o} ELSE {}

\* Creating an output makes no claim, a coinbase excepted.
LEMMA CreateStateShape ==
  ASSUME NEW w \in Sound, NEW o \in Outpoint, NEW s \in TxoState, NEW q \in Position,
         NEW generation \in BOOLEAN, w.m.state[o] = "absent"
  PROVE  LET x == CreateState(w, o, s, q, generation)
         IN /\ SameProposals(x.m, w.m) /\ SameProposals(x.d, w.d)
            /\ x.m.state = Put(w.m.state, o, s) /\ x.d.state = Put(w.d.state, o, s)
            /\ x.row = w.row /\ x.ok = w.ok
            /\ x.m.gen \cup x.m.twice \cup x.d.gen
                 \subseteq w.m.gen \cup w.m.twice \cup w.d.gen \cup Entry(o, generation)
<1> DEFINE p == Effective(s, Blank, q)
           entry == IF generation THEN {<<Height(p), o>>} ELSE {}
           twice == w.m.twice \cup (w.m.gen \cap entry)
           Add(tab) == [tab EXCEPT !.state[o] = s, !.pos[o] = p,
                                   !.at = @ \cup {<<p, o>>},
                                   !.gen = @ \cup entry]
           x == CreateState(w, o, s, q, generation)
<1>1. w \in Work /\ w.m \in Table /\ w.d \in Table
  BY DEF Sound, Work
<1>2. entry \subseteq Entry(o, generation) /\ entry \subseteq Int \X Outpoint
  <2>1. Height(p) \in Int
    BY EffectiveType, HeightType DEF Position
  <2> HIDE DEF p
  <2> QED BY <2>1 DEF Entry
<1>3. x = [w EXCEPT !.m = Add([@ EXCEPT !.twice = w.m.twice \cup (w.m.gen \cap entry)]),
                    !.d = Add(@)]
  BY Zenon DEF CreateState
<1>4. x = [w EXCEPT !.m = Add([w.m EXCEPT !.twice = twice]), !.d = Add(w.d)]
  <2> HIDE DEF Add, entry, x, p
  <2> QED BY <1>1, <1>3 DEF Work
<1> HIDE DEF p, entry, x
<1>5. ASSUME NEW tab \in Table
      PROVE  /\ SameProposals(Add(tab), tab)
             /\ Add(tab).state = Put(tab.state, o, s)
             /\ Add(tab).gen = tab.gen \cup entry /\ Add(tab).twice = tab.twice
  <2>1. Add(tab) = [tab EXCEPT !.state = Put(tab.state, o, s), !.pos = [tab.pos EXCEPT ![o] = p],
                               !.at = tab.at \cup {<<p, o>>}, !.gen = tab.gen \cup entry]
    BY ONLY tab \in Table DEF Table, Put
  <2> DEFINE st == Put(tab.state, o, s)
             po == [tab.pos EXCEPT ![o] = p]
             at == tab.at \cup {<<p, o>>}
             ge == tab.gen \cup entry
  <2> HIDE DEF Add, st, po, at, ge
  <2>2. Add(tab) = [tab EXCEPT !.state = st, !.pos = po, !.at = at, !.gen = ge]
    BY <2>1, Zenon DEF st, po, at, ge
  <2>3. Add(tab).state = st /\ Add(tab).gen = ge /\ Add(tab).twice = tab.twice
    BY ONLY <2>2, tab \in Table DEF Table
  <2>4. SameProposals(Add(tab), tab)
    BY ONLY <2>2, tab \in Table DEF Table, SameProposals
  <2> QED BY <2>3, <2>4 DEF st, ge
<1>6. twice \in SUBSET (Int \X Outpoint) /\ twice \subseteq w.m.twice \cup w.m.gen
  BY <1>1, <1>2 DEF Table
<1> HIDE DEF Add, twice
<1> DEFINE tab == [w.m EXCEPT !.twice = twice]
<1>7. /\ tab \in Table /\ SameProposals(tab, w.m) /\ tab.state = w.m.state
      /\ tab.gen = w.m.gen /\ tab.twice = twice
  <2>1. w.m \in Table
    BY <1>1
  <2>2. tab \in Table
    BY ONLY <1>6, <2>1 DEF Table
  <2>3. tab.state = w.m.state /\ tab.gen = w.m.gen /\ tab.twice = twice
    BY ONLY <2>1 DEF Table
  <2>4. SameProposals(tab, w.m)
    BY ONLY <2>1 DEF Table, SameProposals
  <2> QED BY <2>2, <2>3, <2>4
<1> HIDE DEF tab
<1>8. x.m = Add(tab) /\ x.d = Add(w.d) /\ x.row = w.row /\ x.ok = w.ok
  <2>1. x = [w EXCEPT !.m = Add(tab), !.d = Add(w.d)]
    BY <1>4 DEF tab
  <2> QED BY <1>1, <2>1 DEF Work
<1>9. SameProposals(x.m, w.m) /\ SameProposals(x.d, w.d)
  BY <1>1, <1>5, <1>7, <1>8 DEF SameProposals
<1>10. x.m.state = Put(w.m.state, o, s) /\ x.d.state = Put(w.d.state, o, s)
  BY <1>1, <1>5, <1>7, <1>8
<1>11. x.m.gen = w.m.gen \cup entry /\ x.m.twice = twice /\ x.d.gen = w.d.gen \cup entry
  BY <1>1, <1>5, <1>7, <1>8
<1>12. x.m.gen \cup x.m.twice \cup x.d.gen
         \subseteq w.m.gen \cup w.m.twice \cup w.d.gen \cup Entry(o, generation)
  BY ONLY <1>2, <1>6, <1>11
<1> QED BY <1>8, <1>9, <1>10, <1>12, Zenon DEF x

\* An output of a finished transaction: it is listed for its proposal, which
\* is the first to have it, and becomes unconfirmed.
LEMMA IssueCareful ==
  ASSUME NEW w \in Careful, w.ok, NEW p \in Proposal, p \notin sent,
         NEW o \in Pays[p], o \in Outpoint, w.m.assoc[o] = <<>>, sent \subseteq Proposal
  PROVE  LET x == Issue(w, o, p)
         IN /\ x \in Careful /\ x.row = w.row
            /\ \A z \in Outpoint : w.m.state[z] # "absent" => x.m.state[z] # "absent"
            /\ \A z \in Outpoint \ {o} : x.m.assoc[z] = w.m.assoc[z]
            /\ x.m.state[o] # "absent"
<1> DEFINE mm == w.m.made[p] \cup {o}
           dm == w.d.made[p] \cup {o}
           v == SetMade(w, p, mm, dm)
           y == SetAssoc(v, o, <<p>>, <<p>>)
           x == Issue(w, o, p)
<1>1. w \in Sound /\ w \in Work /\ w.m \in Table /\ w.d \in Table
      /\ w.m.assoc[o] \in Seq(Proposal) /\ w.d.assoc[o] \in Seq(Proposal)
  BY DEF Careful, Sound, Work, Table
<1>2. mm \in SUBSET Outpoint /\ dm \in SUBSET Outpoint
  BY <1>1 DEF Table
<1>3. v \in Sound /\ v \in Work
  <2>1. v \in Sound
    BY <1>1, <1>2, SetMadeSound DEF SetMade
  <2> HIDE DEF v
  <2> QED BY <2>1 DEF Sound
<1>4. v = [w EXCEPT !.m.made[p] = @ \cup {o}, !.d.made[p] = @ \cup {o}]
  BY <1>1 DEF Work, Table, SetMade
<1>5. /\ SameStates(v.m, w.m) /\ v.m.assoc = w.m.assoc /\ v.m.used = w.m.used
      /\ SameStates(v.d, w.d) /\ v.d.assoc = w.d.assoc /\ v.d.used = w.d.used
      /\ v.m.made = Put(w.m.made, p, mm) /\ v.d.made = Put(w.d.made, p, dm)
      /\ v.row = w.row /\ v.ok = w.ok
  <2>1. w \in Work /\ p \in Proposal
    BY <1>1
  <2> HIDE DEF mm, dm
  <2> QED BY ONLY <2>1, SetMadeShape
<1>6. \A q \in Proposal : o \notin w.m.made[q] \cup w.d.made[q] \cup w.m.used[q] \cup w.d.used[q]
  <2>1. ToSet(w.m.assoc[o]) = {}
    BY <1>1, AssociatedFacts
  <2>2. Fits(o, w.m, w.d, disk, sent, builder.todo)
    BY DEF Careful
  <2>3. \A q \in Proposal : o \notin w.m.made[q] /\ o \notin w.d.made[q]
    BY <2>1, <2>2 DEF Fits
  <2>4. o \notin Received(sent)
    BY ReceivedFromSent
  <2>5. \A q \in Proposal : o \notin w.m.used[q]
    BY <2>2, <2>4 DEF Fits, Theirs
  <2>6. \A q \in Proposal : o \notin w.d.used[q]
    BY <2>2, <2>5 DEF Fits
  <2> QED BY <2>3, <2>5, <2>6
<1>7. CreateOutput(w, o, p) = y
  <2>1. CreateOutput(w, o, p) = Associate(v, o, p, FALSE)
    BY <1>4, <1>6 DEF CreateOutput
  <2> HIDE DEF v
  <2>2. v.m.assoc[o] = <<>>
    BY <1>5
  <2>3. Associate(v, o, p, FALSE) = [v EXCEPT !.m.assoc[o] = Append(@, p), !.d.assoc[o] = <<p>>]
    BY <2>2 DEF Associate
  <2>4. [v EXCEPT !.m.assoc[o] = Append(@, p), !.d.assoc[o] = <<p>>]
          = SetAssoc(v, o, Append(v.m.assoc[o], p), <<p>>)
    BY <1>3 DEF Work, Table, SetAssoc
  <2>5. Append(v.m.assoc[o], p) = <<p>>
    BY <2>2
  <2> QED BY <2>1, <2>3, <2>4, <2>5
<1> HIDE DEF v
<1>8. y \in Sound /\ y \in Work
  <2>1. y \in Sound
    BY <1>1, <1>7, CreateOutputSound
  <2> HIDE DEF y
  <2> QED BY <2>1 DEF Sound
<1>9. /\ SameStates(y.m, v.m) /\ y.m.made = v.m.made /\ y.m.used = v.m.used
      /\ SameStates(y.d, v.d) /\ y.d.made = v.d.made /\ y.d.used = v.d.used
      /\ y.m.assoc = Put(v.m.assoc, o, <<p>>) /\ y.d.assoc = Put(v.d.assoc, o, <<p>>)
      /\ y.row = v.row /\ y.ok = v.ok
  BY ONLY <1>3, o \in Outpoint, SetAssocShape
<1> HIDE DEF y
<1>10. x = IF y.m.state[o] = "absent" THEN CreateState(y, o, "UnconfirmedNew", Blank, FALSE)
           ELSE ChangeState(y, o, "UnconfirmedNew", Blank)
  <2>1. y.ok
    BY <1>5, <1>9
  <2> QED BY <1>7, <2>1, Zenon DEF Issue, Then
<1> HIDE DEF x
<1>11. Blank \in Position /\ "UnconfirmedNew" \in TxoState
  BY DEF Position, TxoState, New
<1>12. x \in Sound
  BY <1>8, <1>10, <1>11, CreateStateSound, ChangeStateSound
<1>13. /\ SameProposals(x.m, y.m) /\ SameProposals(x.d, y.d) /\ x.row = y.row
       /\ x.m.gen \cup x.m.twice \cup x.d.gen \subseteq y.m.gen \cup y.m.twice \cup y.d.gen
       /\ x.m.state \in {y.m.state, Put(y.m.state, o, "UnconfirmedNew")}
       /\ x.d.state \in {y.d.state, Put(y.d.state, o, "UnconfirmedNew")}
       /\ y.m.state[o] = "absent" => x.m.state = Put(y.m.state, o, "UnconfirmedNew")
  <2>1. CASE y.m.state[o] = "absent"
    <3> DEFINE c == CreateState(y, o, "UnconfirmedNew", Blank, FALSE)
    <3>1. x = c
      BY <1>10, <2>1
    <3>2. /\ SameProposals(c.m, y.m) /\ SameProposals(c.d, y.d) /\ c.row = y.row
          /\ c.m.gen \cup c.m.twice \cup c.d.gen
               \subseteq y.m.gen \cup y.m.twice \cup y.d.gen \cup Entry(o, FALSE)
          /\ c.m.state = Put(y.m.state, o, "UnconfirmedNew")
          /\ c.d.state = Put(y.d.state, o, "UnconfirmedNew")
      BY ONLY <1>8, <1>11, <2>1, o \in Outpoint, FALSE \in BOOLEAN, CreateStateShape, Zenon
    <3> HIDE DEF c
    <3>3. Entry(o, FALSE) = {}
      BY DEF Entry
    <3> QED BY <3>1, <3>2, <3>3
  <2>2. CASE y.m.state[o] # "absent"
    <3> DEFINE c == ChangeState(y, o, "UnconfirmedNew", Blank)
    <3>1. x = c
      BY <1>10, <2>2
    <3>2. /\ SameClaims(c.m, y.m) /\ SameClaims(c.d, y.d) /\ c.row = y.row
          /\ c.m.state \in {y.m.state, [y.m.state EXCEPT ![o] = "UnconfirmedNew"]}
          /\ c.d.state \in {y.d.state, [y.d.state EXCEPT ![o] = "UnconfirmedNew"]}
      BY <1>8, <1>11, ChangeStateShape
    <3> HIDE DEF c
    <3>3. SameProposals(c.m, y.m) /\ SameProposals(c.d, y.d)
          /\ c.m.gen \cup c.m.twice \cup c.d.gen = y.m.gen \cup y.m.twice \cup y.d.gen
      BY <3>2 DEF SameClaims, SameProposals
    <3> QED BY <2>2, <3>1, <3>2, <3>3 DEF Put
  <2> QED BY <2>1, <2>2
<1>14. /\ x.row = w.row /\ x.m.used = w.m.used /\ x.d.used = w.d.used
       /\ x.m.made = Put(w.m.made, p, mm) /\ x.d.made = Put(w.d.made, p, dm)
       /\ x.m.assoc = Put(w.m.assoc, o, <<p>>) /\ x.d.assoc = Put(w.d.assoc, o, <<p>>)
  <2> HIDE DEF mm, dm
  <2> QED BY <1>5, <1>9, <1>13 DEF SameProposals
<1>15. x.m.gen \cup x.m.twice \cup x.d.gen \subseteq w.m.gen \cup w.m.twice \cup w.d.gen
  BY ONLY <1>5, <1>9, <1>13 DEF SameStates
<1>16. /\ x.m.state \in {w.m.state, Put(w.m.state, o, "UnconfirmedNew")}
       /\ x.d.state \in {w.d.state, Put(w.d.state, o, "UnconfirmedNew")}
       /\ w.m.state[o] = "absent" => x.m.state = Put(w.m.state, o, "UnconfirmedNew")
  BY ONLY <1>5, <1>9, <1>13 DEF SameStates
<1>17. /\ \A z \in Outpoint \ {o} : x.m.state[z] = w.m.state[z] /\ x.d.state[z] = w.d.state[z]
       /\ x.m.state[o] \in {w.m.state[o], "UnconfirmedNew"}
       /\ x.d.state[o] \in {w.d.state[o], "UnconfirmedNew"}
       /\ x.m.state[o] # "absent" /\ x.d.state[o] # "absent"
  <2>1. w.m.state \in [Outpoint -> TxoState \cup {"absent"}]
        /\ w.d.state \in [Outpoint -> TxoState \cup {"absent"}]
    BY <1>1 DEF Table
  <2>2. x.m.state[o] # "absent" => x.d.state[o] # "absent"
    BY <1>12 DEF Sound, OnRecord
  <2> QED BY ONLY <1>16, <2>1, <2>2, o \in Outpoint DEF Put
<1>18. /\ \A z \in Outpoint, q \in Proposal :
            /\ (z \in x.m.made[q]) <=> (z \in w.m.made[q] \/ (z = o /\ q = p))
            /\ (z \in x.d.made[q]) <=> (z \in w.d.made[q] \/ (z = o /\ q = p))
       /\ \A z \in Outpoint \ {o} : x.m.assoc[z] = w.m.assoc[z] /\ x.d.assoc[z] = w.d.assoc[z]
       /\ x.m.assoc[o] = <<p>> /\ x.d.assoc[o] = <<p>>
  BY <1>1, <1>14 DEF Table, Put
<1> HIDE DEF mm, dm
<1>19. ASSUME NEW z \in Outpoint \ {o} PROVE SameAt(x, w, z)
  BY <1>14, <1>15, <1>17, <1>18 DEF SameAt
<1>20. ToSet(<<p>>) = {p}
  BY <1>1, AssociatedFacts
<1>21. Agrees(o, x.m, x.d)
  BY <1>6, <1>14, <1>17, <1>18, <1>20 DEF Agrees
<1>22. Fits(o, x.m, x.d, disk, sent, builder.todo)
  <2>1. Fits(o, w.m, w.d, disk, sent, builder.todo)
    BY DEF Careful
  <2>2. o \notin Received(sent)
    BY ReceivedFromSent
  <2>3. ~Theirs(o, w.m, w.d, disk, builder.todo) /\ ~IsAvailable(o, w.m, w.d, disk)
    BY <2>1, <2>2 DEF Fits
  <2>4. ~Theirs(o, x.m, x.d, disk, builder.todo)
    BY <1>14, <1>15, <2>3 DEF Theirs
  <2>5. ~IsAvailable(o, x.m, x.d, disk)
    BY <1>17, <2>3 DEF IsAvailable
  <2>6. \A q \in Proposal : (o \in x.m.made[q]) <=> (q = p)
    BY <1>6, <1>18
  <2>7. \A q \in Proposal : o \in disk.made[q] => o \in Pays[q] /\ (q \in sent => disk.state[o] # "absent")
    BY <2>1 DEF Fits
  <2>8. disk.state[o] # "ConfirmedNew" /\ x.m.state[o] # "ConfirmedNew" /\ x.d.state[o] # "ConfirmedNew"
    BY <2>5 DEF IsAvailable
  <2>9. \A q \in Proposal : /\ o \in x.d.made[q] => o \in x.m.made[q]
                            /\ o \in x.d.used[q] => o \in x.m.used[q]
    BY <1>6, <1>14, <1>18
  <2> QED BY <1>17, <1>18, <1>20, <2>4, <2>5, <2>6, <2>7, <2>8, <2>9 DEF Fits
<1>23. x \in Careful
  BY <1>12, <1>14, <1>19, <1>21, <1>22, BesideCareful
<1>24. \A z \in Outpoint : w.m.state[z] # "absent" => x.m.state[z] # "absent"
  BY <1>17
<1> QED BY <1>14, <1>17, <1>18, <1>23, <1>24, Zenon DEF x

\* The outputs of a finished transaction.
LEMMA IssueAllCareful ==
  ASSUME NEW w \in Careful, w.ok, NEW p \in Proposal, p \notin sent, sent \subseteq Proposal,
         \A o \in Pays[p] : w.m.assoc[o] = <<>>
  PROVE  LET x == IssueAll(w, Pays[p], p)
         IN /\ x \in Careful /\ x.row = w.row
            /\ \A z \in Outpoint : w.m.state[z] # "absent" => x.m.state[z] # "absent"
            /\ x.ok => \A o \in Pays[p] : x.m.state[o] # "absent"
<1> DEFINE O == Pays[p]
<1>1. w \in Sound /\ O \in SUBSET Outpoint
  BY ConstantsAssumption DEF Careful
<1> HIDE DEF O
<1>2. PICK f : IssueAllTrace(f, w, O, p)
  BY <1>1, IssueAllLoop
<1>3. IsFiniteSet(O)
  BY <1>1, ConstantsAssumption, FS_Subset
<1> DEFINE G == {s \in SUBSET O :
                   /\ f[s] \in Careful /\ f[s].row = w.row
                   /\ \A z \in Outpoint : w.m.state[z] # "absent" => f[s].m.state[z] # "absent"
                   /\ \A z \in O \ s : f[s].m.assoc[z] = <<>>
                   /\ f[s].ok => \A z \in s : f[s].m.state[z] # "absent"}
<1>4. {} \in G
  <2>1. f[{}] = w
    BY <1>2 DEF IssueAllTrace
  <2> QED BY <2>1 DEF O
<1>5. ASSUME NEW s \in SUBSET O, s # {}, Rest(s) \in G
      PROVE  s \in G
  <2> DEFINE v == f[Rest(s)]
             o == Chosen(s)
  <2>1. o \in s /\ o \in O /\ o \in Outpoint /\ s = Rest(s) \cup {o} /\ o \notin Rest(s)
    BY <1>1, <1>5, ChosenIsElement DEF Rest
  <2>2. f[s] = IF v.ok THEN Issue(v, o, p) ELSE v
    BY <1>2, <1>5 DEF IssueAllTrace
  <2>3. /\ v \in Careful /\ v.row = w.row
        /\ \A z \in Outpoint : w.m.state[z] # "absent" => v.m.state[z] # "absent"
        /\ \A z \in O \ Rest(s) : v.m.assoc[z] = <<>>
        /\ v.ok => \A z \in Rest(s) : v.m.state[z] # "absent"
    BY <1>5
  <2> HIDE DEF v, o
  <2>4. CASE v.ok
    <3> DEFINE x == Issue(v, o, p)
    <3>1. o \in Pays[p] /\ v.m.assoc[o] = <<>>
      BY <2>1, <2>3 DEF O
    <3>2. /\ x \in Careful /\ x.row = v.row
          /\ \A z \in Outpoint : v.m.state[z] # "absent" => x.m.state[z] # "absent"
          /\ \A z \in Outpoint \ {o} : x.m.assoc[z] = v.m.assoc[z]
          /\ x.m.state[o] # "absent"
      BY <2>1, <2>3, <2>4, <3>1, IssueCareful, Zenon
    <3> HIDE DEF x
    <3>3. f[s] = x
      BY <2>2, <2>4 DEF x
    <3>4. \A z \in O \ s : x.m.assoc[z] = <<>>
      BY <1>1, <2>1, <2>3, <3>2
    <3>5. \A z \in s : x.m.state[z] # "absent"
      BY <1>1, <2>1, <2>3, <2>4, <3>2
    <3> QED BY <1>5, <2>3, <3>2, <3>3, <3>4, <3>5
  <2>5. CASE ~v.ok
    <3>1. f[s] = v
      BY <2>2, <2>5
    <3> QED BY <1>5, <2>1, <2>3, <2>5, <3>1
  <2> QED BY <2>4, <2>5
<1>6. O \in G
  <2> HIDE DEF G
  <2> QED BY <1>3, <1>4, <1>5, SetInduction
<1>7. IssueAll(w, O, p) = f[O]
  BY <1>2 DEF IssueAllTrace
<1> QED BY <1>6, <1>7 DEF O

\* What a proposal has made or reserved is given back.
Loosened(w) ==
  {x \in Careful : /\ x.m.state = w.m.state /\ x.row = w.row
                   /\ \A q \in Proposal : x.m.made[q] \subseteq w.m.made[q]}

\* Such steps compose.
LEMMA LoosenedTransitive ==
  ASSUME NEW w \in Careful, NEW v \in Loosened(w), NEW x \in Loosened(v)
  PROVE  x \in Loosened(w)
BY DEF Loosened

\* A careful work is one of them.
LEMMA LoosenedReflexive ==
  ASSUME NEW w \in Careful
  PROVE  w \in Loosened(w) /\ Throw(w) \in Loosened(w) /\ ~Throw(w).ok
<1>1. Throw(w) \in Kept(w) /\ ~Throw(w).ok
  BY ThrowKept
<1>2. w \in Work
  BY DEF Careful, Sound
<1>3. Throw(w).m = w.m
  BY <1>2, ThrowShape
<1> QED BY <1>1, <1>3 DEF Kept, Loosened

\* An output is taken from the list of its proposal.
LEMMA DissociateShape ==
  ASSUME NEW w, NEW o, NEW p
  PROVE  Dissociate(w, o, p) = Throw(w) \/ Dissociate(w, o, p) = SetAssoc(w, o, <<>>, <<>>)
BY DEF Dissociate, SetAssoc

\* An output a proposal has made is taken out of the table.
DropMade(w, o, p) == [w EXCEPT !.d.made[p] = @ \ {o}]

\* Nothing else changes.
LEMMA DropMadeShape ==
  ASSUME NEW w \in Work, NEW o, NEW p \in Proposal
  PROVE  /\ SameStates(DropMade(w, o, p).d, w.d)
         /\ DropMade(w, o, p).d.assoc = w.d.assoc
         /\ DropMade(w, o, p).d.used = w.d.used
         /\ DropMade(w, o, p).d.made = Put(w.d.made, p, w.d.made[p] \ {o})
         /\ DropMade(w, o, p).m = w.m
         /\ DropMade(w, o, p).row = w.row /\ DropMade(w, o, p).ok = w.ok
<1> DEFINE x == DropMade(w, o, p)
           ms == [w.d.made EXCEPT ![p] = w.d.made[p] \ {o}]
<1>1. w.d \in Table
  BY DEF Work
<1>2. /\ x.d = [w.d EXCEPT !.made = ms] /\ x.m = w.m
      /\ x.row = w.row /\ x.ok = w.ok
  BY <1>1 DEF Work, Table, DropMade
<1> HIDE DEF x, ms
<1>3. x.d.assoc = w.d.assoc /\ x.d.used = w.d.used /\ x.d.made = ms
  BY ONLY <1>1, <1>2 DEF Table
<1>4. SameStates(x.d, w.d)
  BY ONLY <1>1, <1>2 DEF Table, SameStates
<1> QED BY <1>2, <1>3, <1>4, Zenon DEF x, ms, Put

\* And out of the cache.
ForgetMade(w, o, p) == [w EXCEPT !.m.made[p] = @ \ {o}]

\* Nothing else changes.
LEMMA ForgetMadeShape ==
  ASSUME NEW w \in Work, NEW o, NEW p \in Proposal
  PROVE  /\ SameStates(ForgetMade(w, o, p).m, w.m)
         /\ ForgetMade(w, o, p).m.assoc = w.m.assoc
         /\ ForgetMade(w, o, p).m.used = w.m.used
         /\ ForgetMade(w, o, p).m.made = Put(w.m.made, p, w.m.made[p] \ {o})
         /\ ForgetMade(w, o, p).d = w.d
         /\ ForgetMade(w, o, p).row = w.row /\ ForgetMade(w, o, p).ok = w.ok
<1> DEFINE x == ForgetMade(w, o, p)
           ms == [w.m.made EXCEPT ![p] = w.m.made[p] \ {o}]
<1>1. w.m \in Table
  BY DEF Work
<1>2. /\ x.m = [w.m EXCEPT !.made = ms] /\ x.d = w.d
      /\ x.row = w.row /\ x.ok = w.ok
  BY <1>1 DEF Work, Table, ForgetMade
<1> HIDE DEF x, ms
<1>3. x.m.assoc = w.m.assoc /\ x.m.used = w.m.used /\ x.m.made = ms
  BY ONLY <1>1, <1>2 DEF Table
<1>4. SameStates(x.m, w.m)
  BY ONLY <1>1, <1>2 DEF Table, SameStates
<1> QED BY <1>2, <1>3, <1>4, Zenon DEF x, ms, Put

\* An output a proposal has reserved is taken out of the table.
DropUsed(w, o, p) == [w EXCEPT !.d.used[p] = @ \ {o}]

\* Nothing else changes.
LEMMA DropUsedShape ==
  ASSUME NEW w \in Work, NEW o, NEW p \in Proposal
  PROVE  /\ SameStates(DropUsed(w, o, p).d, w.d)
         /\ DropUsed(w, o, p).d.assoc = w.d.assoc
         /\ DropUsed(w, o, p).d.made = w.d.made
         /\ DropUsed(w, o, p).d.used = Put(w.d.used, p, w.d.used[p] \ {o})
         /\ DropUsed(w, o, p).m = w.m
         /\ DropUsed(w, o, p).row = w.row /\ DropUsed(w, o, p).ok = w.ok
<1> DEFINE x == DropUsed(w, o, p)
           ms == [w.d.used EXCEPT ![p] = w.d.used[p] \ {o}]
<1>1. w.d \in Table
  BY DEF Work
<1>2. /\ x.d = [w.d EXCEPT !.used = ms] /\ x.m = w.m
      /\ x.row = w.row /\ x.ok = w.ok
  BY <1>1 DEF Work, Table, DropUsed
<1> HIDE DEF x, ms
<1>3. x.d.assoc = w.d.assoc /\ x.d.made = w.d.made /\ x.d.used = ms
  BY ONLY <1>1, <1>2 DEF Table
<1>4. SameStates(x.d, w.d)
  BY ONLY <1>1, <1>2 DEF Table, SameStates
<1> QED BY <1>2, <1>3, <1>4, Zenon DEF x, ms, Put

\* And out of the cache.
ForgetUsed(w, o, p) == [w EXCEPT !.m.used[p] = @ \ {o}]

\* Nothing else changes.
LEMMA ForgetUsedShape ==
  ASSUME NEW w \in Work, NEW o, NEW p \in Proposal
  PROVE  /\ SameStates(ForgetUsed(w, o, p).m, w.m)
         /\ ForgetUsed(w, o, p).m.assoc = w.m.assoc
         /\ ForgetUsed(w, o, p).m.made = w.m.made
         /\ ForgetUsed(w, o, p).m.used = Put(w.m.used, p, w.m.used[p] \ {o})
         /\ ForgetUsed(w, o, p).d = w.d
         /\ ForgetUsed(w, o, p).row = w.row /\ ForgetUsed(w, o, p).ok = w.ok
<1> DEFINE x == ForgetUsed(w, o, p)
           ms == [w.m.used EXCEPT ![p] = w.m.used[p] \ {o}]
<1>1. w.m \in Table
  BY DEF Work
<1>2. /\ x.m = [w.m EXCEPT !.used = ms] /\ x.d = w.d
      /\ x.row = w.row /\ x.ok = w.ok
  BY <1>1 DEF Work, Table, ForgetUsed
<1> HIDE DEF x, ms
<1>3. x.m.assoc = w.m.assoc /\ x.m.made = w.m.made /\ x.m.used = ms
  BY ONLY <1>1, <1>2 DEF Table
<1>4. SameStates(x.m, w.m)
  BY ONLY <1>1, <1>2 DEF Table, SameStates
<1> QED BY <1>2, <1>3, <1>4, Zenon DEF x, ms, Put

\* What a proposal has made was paid to the wallet.
LEMMA ConfirmCreatedCareful ==
  ASSUME NEW w \in Careful, w.ok, NEW o \in Outpoint, NEW p \in Proposal
  PROVE  LET x == ConfirmCreated(w, o, p)
         IN x \in Loosened(w) /\ (x.ok => o \notin x.m.made[p])
<1> DEFINE v == DropMade(w, o, p)
           y == SetAssoc(v, o, <<>>, <<>>)
           z == ForgetMade(y, o, p)
           x == ConfirmCreated(w, o, p)
<1>1. w \in Sound /\ w \in Work /\ w.m \in Table /\ w.d \in Table
      /\ w.m.assoc[o] \in Seq(Proposal) /\ w.d.assoc[o] \in Seq(Proposal) /\ Len(w.d.assoc[o]) <= 1
  BY DEF Careful, Sound, Work, Table, OnRecord
<1>2. x \in Sound
  BY <1>1, ConfirmCreatedSound
<1>3. v \in Sound /\ v \in Work
  <2>1. v \in Sound
    BY <1>1, RemoveSound, Zenon DEF DropMade
  <2> HIDE DEF v
  <2> QED BY <2>1 DEF Sound
<1>4. /\ SameStates(v.d, w.d) /\ v.d.assoc = w.d.assoc /\ v.d.used = w.d.used
      /\ v.d.made = Put(w.d.made, p, w.d.made[p] \ {o})
      /\ v.m = w.m /\ v.row = w.row /\ v.ok = w.ok
  <2>1. w \in Work /\ p \in Proposal
    BY <1>1
  <2> QED BY ONLY <2>1, DropMadeShape
<1>5. \A c \in Outpoint, q \in Proposal :
        (c \in v.d.made[q]) <=> (c \in w.d.made[q] /\ ~(c = o /\ q = p))
  <2>1. w.d.made \in [Proposal -> SUBSET Outpoint]
    BY <1>1 DEF Table
  <2>2. \A q \in Proposal : v.d.made[q] = IF q = p THEN w.d.made[p] \ {o} ELSE w.d.made[q]
    BY ONLY <1>4, <2>1, p \in Proposal DEF Put
  <2> QED BY ONLY <2>2
<1> HIDE DEF v
<1>6. y \in Sound /\ y \in Work
  <2>1. <<>> \in Seq(Proposal) /\ Len(<<>>) <= 1
    OBVIOUS
  <2>2. y \in Sound
    BY <1>3, <2>1, SetAssocSound, Zenon DEF SetAssoc
  <2> HIDE DEF y
  <2> QED BY <2>2 DEF Sound
<1>7. /\ SameStates(y.m, v.m) /\ y.m.made = v.m.made /\ y.m.used = v.m.used
      /\ SameStates(y.d, v.d) /\ y.d.made = v.d.made /\ y.d.used = v.d.used
      /\ y.m.assoc = Put(v.m.assoc, o, <<>>) /\ y.d.assoc = Put(v.d.assoc, o, <<>>)
      /\ y.row = v.row /\ y.ok = v.ok
  BY ONLY <1>3, o \in Outpoint, SetAssocShape
<1> HIDE DEF y
<1>8. /\ SameStates(z.m, y.m) /\ z.m.assoc = y.m.assoc /\ z.m.used = y.m.used
       /\ z.m.made = Put(y.m.made, p, y.m.made[p] \ {o})
       /\ z.d = y.d /\ z.row = y.row /\ z.ok = y.ok
  BY ONLY <1>6, p \in Proposal, ForgetMadeShape
<1>9. /\ \A c \in Outpoint, q \in Proposal :
             /\ (c \in z.d.made[q]) <=> (c \in w.d.made[q] /\ ~(c = o /\ q = p))
             /\ (c \in z.m.made[q]) <=> (c \in w.m.made[q] /\ ~(c = o /\ q = p))
       /\ z.m.used = w.m.used /\ z.d.used = w.d.used
  <2>1. w.m.made \in [Proposal -> SUBSET Outpoint]
    BY <1>1 DEF Table
  <2>2. y.m.made = w.m.made /\ z.d.made = v.d.made
    BY <1>4, <1>7, <1>8
  <2>3. \A q \in Proposal : z.m.made[q] = IF q = p THEN w.m.made[p] \ {o} ELSE w.m.made[q]
    BY ONLY <1>8, <2>1, <2>2, p \in Proposal DEF Put
  <2>4. \A c \in Outpoint, q \in Proposal :
          (c \in z.m.made[q]) <=> (c \in w.m.made[q] /\ ~(c = o /\ q = p))
    BY ONLY <2>3
  <2> QED BY <1>4, <1>5, <1>7, <1>8, <2>2, <2>4
<1>10. /\ \A c \in Outpoint \ {o} : z.m.assoc[c] = w.m.assoc[c] /\ z.d.assoc[c] = w.d.assoc[c]
       /\ z.m.assoc[o] = <<>> /\ z.d.assoc[o] = <<>>
  <2>1. w.m.assoc \in [Outpoint -> Seq(Proposal)] /\ w.d.assoc \in [Outpoint -> Seq(Proposal)]
    BY <1>1 DEF Table
  <2>2. z.m.assoc = Put(w.m.assoc, o, <<>>) /\ z.d.assoc = Put(w.d.assoc, o, <<>>)
    BY <1>4, <1>7, <1>8
  <2> QED BY ONLY <2>1, <2>2, o \in Outpoint DEF Put
<1>11. x = IF o \notin w.m.made[p] \/ o \notin w.d.made[p] THEN Throw(w)
           ELSE Then(Dissociate(v, o, p), LAMBDA u : ForgetMade(u, o, p))
  BY Zenon DEF ConfirmCreated, v, DropMade, ForgetMade
<1> HIDE DEF x, z
<1>12. \/ x = Throw(w)
       \/ o \in w.m.made[p] /\ o \in w.d.made[p] /\ x = Throw(v)
       \/ o \in w.m.made[p] /\ o \in w.d.made[p] /\ x = z
  <2>1. ~Throw(v).ok
    BY <1>3, ThrowShape
  <2>2. y.ok
    BY <1>4, <1>7
  <2>3. Dissociate(v, o, p) = Throw(v) \/ Dissociate(v, o, p) = y
    BY DissociateShape DEF y
  <2>4. CASE o \in w.m.made[p] /\ o \in w.d.made[p]
    <3>1. x = Then(Dissociate(v, o, p), LAMBDA u : ForgetMade(u, o, p))
      BY <1>11, <2>4
    <3>2. x = IF Dissociate(v, o, p).ok THEN ForgetMade(Dissociate(v, o, p), o, p) ELSE Dissociate(v, o, p)
      BY <3>1, Zenon DEF Then
    <3> QED BY <2>1, <2>2, <2>3, <2>4, <3>2 DEF z
  <2> QED BY <1>11, <2>4
<1>13. Fits(o, w.m, w.d, disk, sent, builder.todo) /\ Agrees(o, w.m, w.d)
  BY DEF Careful
<1>14. CASE x = Throw(w)
  BY <1>14, LoosenedReflexive DEF x
<1>15. CASE o \in w.m.made[p] /\ o \in w.d.made[p] /\ x = Throw(v)
  <2>1. x.m = w.m /\ x.d = v.d /\ x.row = w.row /\ x.ok = FALSE
    BY <1>3, <1>4, <1>15, ThrowShape
  <2>2. ASSUME NEW c \in Outpoint \ {o} PROVE SameAt(x, w, c)
    BY <1>4, <1>5, <2>1 DEF SameAt, SameStates
  <2>3. Fits(o, x.m, x.d, disk, sent, builder.todo)
    <3>1. Theirs(o, x.m, x.d, disk, builder.todo) <=> Theirs(o, w.m, w.d, disk, builder.todo)
      BY <1>4, <2>1 DEF Theirs, SameStates
    <3> QED BY <1>4, <1>5, <1>13, <2>1, <3>1 DEF Fits, IsAvailable, SameStates
  <2>4. x \in Careful
    BY <1>2, <2>1, <2>2, <2>3, BesideCareful
  <2>5. x \in Loosened(w)
    BY <2>1, <2>4 DEF Loosened
  <2> QED BY <2>1, <2>5 DEF x
<1>16. CASE o \in w.m.made[p] /\ o \in w.d.made[p] /\ x = z
  <2>1. SameStates(x.m, w.m) /\ SameStates(x.d, w.d) /\ x.row = w.row
    BY <1>4, <1>7, <1>8, <1>16 DEF SameStates
  <2>2. ASSUME NEW c \in Outpoint \ {o} PROVE SameAt(x, w, c)
    BY <1>9, <1>10, <1>16, <2>1 DEF SameAt, SameStates
  <2>3. \A q \in Proposal : o \notin x.m.made[q] /\ o \notin x.d.made[q]
    <3>1. ASSUME NEW q \in Proposal, o \in w.m.made[q] PROVE q = p
      <4>1. o \in Pays[q] /\ o \in Pays[p]
        BY <1>13, <1>16, <3>1 DEF Fits
      <4> QED BY <4>1, ConstantsAssumption
    <3>2. ASSUME NEW q \in Proposal, o \in w.d.made[q] PROVE q = p
      BY <1>13, <3>1, <3>2 DEF Fits
    <3> QED BY <1>9, <1>16, <3>1, <3>2
  <2>4. \A q \in Proposal : o \notin x.m.used[q] /\ o \notin x.d.used[q]
    <3>1. \A q \in Proposal : o \notin w.m.used[q]
      BY <1>13, <1>16 DEF Fits, Theirs
    <3>2. \A q \in Proposal : o \notin w.d.used[q]
      BY <1>13, <3>1 DEF Fits
    <3> QED BY <1>9, <1>16, <3>1, <3>2
  <2>5. ToSet(x.d.assoc[o]) = {}
    BY <1>10, <1>16 DEF ToSet
  <2>6. Agrees(o, x.m, x.d)
    BY <2>3, <2>4, <2>5 DEF Agrees
  <2>7. Fits(o, x.m, x.d, disk, sent, builder.todo)
    <3>1. Theirs(o, x.m, x.d, disk, builder.todo) <=> Theirs(o, w.m, w.d, disk, builder.todo)
      BY <1>9, <1>16, <2>1 DEF Theirs, SameStates
    <3>2. \A q \in Proposal : o \in disk.made[q] =>
            /\ o \in Pays[q] /\ ~Theirs(o, x.m, x.d, disk, builder.todo)
            /\ disk.state[o] # "ConfirmedNew"
            /\ (q \in sent => disk.state[o] # "absent")
      BY <1>13, <3>1 DEF Fits
    <3>3. /\ (Theirs(o, x.m, x.d, disk, builder.todo) \/ IsAvailable(o, x.m, x.d, disk))
               => o \in Received(sent)
          /\ disk.state[o] # "absent" => x.m.state[o] # "absent"
      BY <1>13, <2>1, <3>1 DEF Fits, IsAvailable, SameStates
    <3> QED BY <2>3, <2>4, <3>2, <3>3 DEF Fits
  <2>8. x \in Careful
    BY <1>2, <2>1, <2>2, <2>6, <2>7, BesideCareful
  <2>9. \A q \in Proposal : x.m.made[q] \subseteq w.m.made[q]
    <3>1. x.m \in Table
      BY <1>2 DEF Sound, Work
    <3> QED BY <1>9, <1>16, <3>1 DEF Table
  <2>10. x \in Loosened(w)
    BY <2>1, <2>8, <2>9 DEF Loosened, SameStates
  <2> QED BY <2>3, <2>10 DEF x
<1> QED BY <1>12, <1>14, <1>15, <1>16

\* What a proposal has reserved is spent, or released.
LEMMA ConfirmConsumedCareful ==
  ASSUME NEW w \in Careful, w.ok, NEW o \in Outpoint, NEW p \in Proposal
  PROVE  LET x == ConfirmConsumed(w, o, p)
         IN x \in Loosened(w) /\ (x.ok => o \notin x.m.used[p])
<1> DEFINE v == DropUsed(w, o, p)
           y == SetAssoc(v, o, <<>>, <<>>)
           z == ForgetUsed(y, o, p)
           x == ConfirmConsumed(w, o, p)
<1>1. w \in Sound /\ w \in Work /\ w.m \in Table /\ w.d \in Table
      /\ w.m.assoc[o] \in Seq(Proposal) /\ w.d.assoc[o] \in Seq(Proposal) /\ Len(w.d.assoc[o]) <= 1
  BY DEF Careful, Sound, Work, Table, OnRecord
<1>2. x \in Sound
  BY <1>1, ConfirmConsumedSound
<1>3. v \in Sound /\ v \in Work
  <2>1. v \in Sound
    BY <1>1, RemoveSound, Zenon DEF DropUsed
  <2> HIDE DEF v
  <2> QED BY <2>1 DEF Sound
<1>4. /\ SameStates(v.d, w.d) /\ v.d.assoc = w.d.assoc /\ v.d.made = w.d.made
      /\ v.d.used = Put(w.d.used, p, w.d.used[p] \ {o})
      /\ v.m = w.m /\ v.row = w.row /\ v.ok = w.ok
  <2>1. w \in Work /\ p \in Proposal
    BY <1>1
  <2> QED BY ONLY <2>1, DropUsedShape
<1>5. \A c \in Outpoint, q \in Proposal :
        (c \in v.d.used[q]) <=> (c \in w.d.used[q] /\ ~(c = o /\ q = p))
  <2>1. w.d.used \in [Proposal -> SUBSET Outpoint]
    BY <1>1 DEF Table
  <2>2. \A q \in Proposal : v.d.used[q] = IF q = p THEN w.d.used[p] \ {o} ELSE w.d.used[q]
    BY ONLY <1>4, <2>1, p \in Proposal DEF Put
  <2> QED BY ONLY <2>2
<1> HIDE DEF v
<1>6. y \in Sound /\ y \in Work
  <2>1. <<>> \in Seq(Proposal) /\ Len(<<>>) <= 1
    OBVIOUS
  <2>2. y \in Sound
    BY <1>3, <2>1, SetAssocSound, Zenon DEF SetAssoc
  <2> HIDE DEF y
  <2> QED BY <2>2 DEF Sound
<1>7. /\ SameStates(y.m, v.m) /\ y.m.made = v.m.made /\ y.m.used = v.m.used
      /\ SameStates(y.d, v.d) /\ y.d.made = v.d.made /\ y.d.used = v.d.used
      /\ y.m.assoc = Put(v.m.assoc, o, <<>>) /\ y.d.assoc = Put(v.d.assoc, o, <<>>)
      /\ y.row = v.row /\ y.ok = v.ok
  BY ONLY <1>3, o \in Outpoint, SetAssocShape
<1> HIDE DEF y
<1>8. /\ SameStates(z.m, y.m) /\ z.m.assoc = y.m.assoc /\ z.m.made = y.m.made
       /\ z.m.used = Put(y.m.used, p, y.m.used[p] \ {o})
       /\ z.d = y.d /\ z.row = y.row /\ z.ok = y.ok
  BY ONLY <1>6, p \in Proposal, ForgetUsedShape
<1>9. /\ \A c \in Outpoint, q \in Proposal :
             /\ (c \in z.d.used[q]) <=> (c \in w.d.used[q] /\ ~(c = o /\ q = p))
             /\ (c \in z.m.used[q]) <=> (c \in w.m.used[q] /\ ~(c = o /\ q = p))
       /\ z.m.made = w.m.made /\ z.d.made = w.d.made
  <2>1. w.m.used \in [Proposal -> SUBSET Outpoint]
    BY <1>1 DEF Table
  <2>2. y.m.used = w.m.used /\ z.d.used = v.d.used
    BY <1>4, <1>7, <1>8
  <2>3. \A q \in Proposal : z.m.used[q] = IF q = p THEN w.m.used[p] \ {o} ELSE w.m.used[q]
    BY ONLY <1>8, <2>1, <2>2, p \in Proposal DEF Put
  <2>4. \A c \in Outpoint, q \in Proposal :
          (c \in z.m.used[q]) <=> (c \in w.m.used[q] /\ ~(c = o /\ q = p))
    BY ONLY <2>3
  <2> QED BY <1>4, <1>5, <1>7, <1>8, <2>2, <2>4
<1>10. /\ \A c \in Outpoint \ {o} : z.m.assoc[c] = w.m.assoc[c] /\ z.d.assoc[c] = w.d.assoc[c]
       /\ z.m.assoc[o] = <<>> /\ z.d.assoc[o] = <<>>
  <2>1. w.m.assoc \in [Outpoint -> Seq(Proposal)] /\ w.d.assoc \in [Outpoint -> Seq(Proposal)]
    BY <1>1 DEF Table
  <2>2. z.m.assoc = Put(w.m.assoc, o, <<>>) /\ z.d.assoc = Put(w.d.assoc, o, <<>>)
    BY <1>4, <1>7, <1>8
  <2> QED BY ONLY <2>1, <2>2, o \in Outpoint DEF Put
<1>11. x = IF o \notin w.m.used[p] \/ o \notin w.d.used[p] THEN Throw(w)
           ELSE Then(Dissociate(v, o, p), LAMBDA u : ForgetUsed(u, o, p))
  BY Zenon DEF ConfirmConsumed, v, DropUsed, ForgetUsed
<1> HIDE DEF x, z
<1>12. \/ x = Throw(w)
       \/ o \in w.m.used[p] /\ o \in w.d.used[p] /\ x = Throw(v)
       \/ o \in w.m.used[p] /\ o \in w.d.used[p] /\ x = z
  <2>1. ~Throw(v).ok
    BY <1>3, ThrowShape
  <2>2. y.ok
    BY <1>4, <1>7
  <2>3. Dissociate(v, o, p) = Throw(v) \/ Dissociate(v, o, p) = y
    BY DissociateShape DEF y
  <2>4. CASE o \in w.m.used[p] /\ o \in w.d.used[p]
    <3>1. x = Then(Dissociate(v, o, p), LAMBDA u : ForgetUsed(u, o, p))
      BY <1>11, <2>4
    <3>2. x = IF Dissociate(v, o, p).ok THEN ForgetUsed(Dissociate(v, o, p), o, p) ELSE Dissociate(v, o, p)
      BY <3>1, Zenon DEF Then
    <3> QED BY <2>1, <2>2, <2>3, <2>4, <3>2 DEF z
  <2> QED BY <1>11, <2>4
<1>13. Fits(o, w.m, w.d, disk, sent, builder.todo) /\ Agrees(o, w.m, w.d)
  BY DEF Careful
<1>14. CASE x = Throw(w)
  BY <1>14, LoosenedReflexive DEF x
<1>15. CASE o \in w.m.used[p] /\ o \in w.d.used[p] /\ x = Throw(v)
  <2>1. x.m = w.m /\ x.d = v.d /\ x.row = w.row /\ x.ok = FALSE
    BY <1>3, <1>4, <1>15, ThrowShape
  <2>2. ASSUME NEW c \in Outpoint \ {o} PROVE SameAt(x, w, c)
    BY <1>4, <1>5, <2>1 DEF SameAt, SameStates
  <2>3. Fits(o, x.m, x.d, disk, sent, builder.todo)
    <3>1. Theirs(o, x.m, x.d, disk, builder.todo) <=> Theirs(o, w.m, w.d, disk, builder.todo)
      BY <1>4, <2>1 DEF Theirs, SameStates
    <3> QED BY <1>4, <1>5, <1>13, <2>1, <3>1 DEF Fits, IsAvailable, SameStates
  <2>4. x \in Careful
    BY <1>2, <2>1, <2>2, <2>3, BesideCareful
  <2>5. x \in Loosened(w)
    BY <2>1, <2>4 DEF Loosened
  <2> QED BY <2>1, <2>5 DEF x
<1>16. CASE o \in w.m.used[p] /\ o \in w.d.used[p] /\ x = z
  <2>1. SameStates(x.m, w.m) /\ SameStates(x.d, w.d) /\ x.row = w.row
    BY <1>4, <1>7, <1>8, <1>16 DEF SameStates
  <2>2. ASSUME NEW c \in Outpoint \ {o} PROVE SameAt(x, w, c)
    BY <1>9, <1>10, <1>16, <2>1 DEF SameAt, SameStates
  <2>3. \A q \in Proposal : o \notin x.m.made[q] /\ o \notin x.d.made[q] /\ o \notin disk.made[q]
    <3>1. \A q \in Proposal : o \notin w.m.made[q] /\ o \notin disk.made[q]
      BY <1>13, <1>16 DEF Fits, Theirs
    <3>2. \A q \in Proposal : o \notin w.d.made[q]
      BY <1>13, <3>1 DEF Fits
    <3> QED BY <1>9, <1>16, <3>1, <3>2
  <2>4. \A q \in Proposal : o \notin x.d.used[q]
    <3>1. ToSet(w.d.assoc[o]) = {p}
      <4>1. p \in ToSet(w.d.assoc[o])
        BY <1>13, <1>16 DEF Agrees
      <4> QED BY <1>1, <4>1, AssociatedFacts
    <3>2. ASSUME NEW q \in Proposal, o \in w.d.used[q] PROVE q = p
      BY <1>13, <3>1, <3>2 DEF Agrees
    <3> QED BY <1>9, <1>16, <3>2
  <2>5. ToSet(x.d.assoc[o]) = {}
    BY <1>10, <1>16 DEF ToSet
  <2>6. Agrees(o, x.m, x.d)
    BY <2>3, <2>4, <2>5 DEF Agrees
  <2>7. Fits(o, x.m, x.d, disk, sent, builder.todo)
    <3>1. Theirs(o, x.m, x.d, disk, builder.todo) => Theirs(o, w.m, w.d, disk, builder.todo)
      BY <1>9, <1>16, <2>1 DEF Theirs, SameStates
    <3>2. /\ (Theirs(o, x.m, x.d, disk, builder.todo) \/ IsAvailable(o, x.m, x.d, disk))
               => o \in Received(sent)
          /\ disk.state[o] # "absent" => x.m.state[o] # "absent"
      BY <1>13, <2>1, <3>1 DEF Fits, IsAvailable, SameStates
    <3> QED BY <2>3, <2>4, <3>2 DEF Fits
  <2>8. x \in Careful
    BY <1>2, <2>1, <2>2, <2>6, <2>7, BesideCareful
  <2>9. \A q \in Proposal : x.m.made[q] \subseteq w.m.made[q]
    <3>1. x.m \in Table
      BY <1>2 DEF Sound, Work
    <3> QED BY <1>9, <1>16, <3>1 DEF Table
  <2>10. x \in Loosened(w)
    BY <2>1, <2>8, <2>9 DEF Loosened, SameStates
  <2> QED BY <1>9, <1>16, <2>10 DEF x
<1> QED BY <1>12, <1>14, <1>15, <1>16

\* An output of a block is no longer held by a proposal.
LEMMA ConfirmProposalCareful ==
  ASSUME NEW w \in Careful, w.ok, NEW o \in Outpoint, NEW p \in Proposal
  PROVE  LET x == ConfirmProposal(w, o, p)
         IN x \in Loosened(w) /\ (x.ok => o \notin x.m.made[p])
<1> DEFINE x == ConfirmProposal(w, o, p)
<1>1. CASE o \in w.m.made[p]
  <2>1. x = ConfirmCreated(w, o, p)
    BY <1>1 DEF ConfirmProposal
  <2>2. x \in Loosened(w) /\ (x.ok => o \notin x.m.made[p])
    BY <2>1, ConfirmCreatedCareful, Zenon
  <2> QED BY <2>2
<1>2. CASE o \notin w.m.made[p]
  <2>1. x = ConfirmConsumed(w, o, p)
    BY <1>2 DEF ConfirmProposal
  <2>2. x \in Loosened(w)
    BY <2>1, ConfirmConsumedCareful, Zenon
  <2> HIDE DEF x
  <2>3. o \notin x.m.made[p]
    BY <1>2, <2>2 DEF Loosened
  <2> QED BY <2>2, <2>3 DEF x
<1> QED BY <1>1, <1>2

\* Nor by any of several.
LEMMA ConfirmProposalsCareful ==
  ASSUME NEW w \in Careful, NEW P \in SUBSET Proposal, NEW o \in Outpoint
  PROVE  LET x == ConfirmProposals(w, P, o)
         IN x \in Loosened(w) /\ (x.ok => \A p \in P : o \notin x.m.made[p])
<1>1. w \in Sound /\ w \in Loosened(w)
  BY LoosenedReflexive DEF Careful
<1>2. PICK f : ConfirmProposalsTrace(f, w, P, o)
  BY <1>1, ConfirmProposalsLoop
<1>3. IsFiniteSet(P)
  <2>1. Proposal \subseteq Transaction \cup Proposal
    OBVIOUS
  <2>2. IsFiniteSet(Proposal)
    BY <2>1, ConstantsAssumption, FS_Subset
  <2> QED BY <2>2, FS_Subset
<1> DEFINE G == {s \in SUBSET P : /\ f[s] \in Loosened(w)
                                  /\ f[s].ok => \A p \in s : o \notin f[s].m.made[p]}
<1>4. {} \in G
  BY <1>1, <1>2 DEF ConfirmProposalsTrace
<1>5. ASSUME NEW s \in SUBSET P, s # {}, Rest(s) \in G
      PROVE  s \in G
  <2> DEFINE v == f[Rest(s)]
             p == Chosen(s)
             x == ConfirmProposal(v, o, p)
  <2>1. p \in s /\ p \in Proposal /\ s = Rest(s) \cup {p}
    BY <1>5, ChosenIsElement DEF Rest
  <2>2. f[s] = IF v.ok THEN x ELSE v
    BY <1>2, <1>5 DEF ConfirmProposalsTrace
  <2>3. v \in Loosened(w) /\ (v.ok => \A r \in Rest(s) : o \notin v.m.made[r])
    BY <1>5
  <2> HIDE DEF v, p
  <2>4. CASE v.ok
    <3>1. v \in Careful
      BY <2>3 DEF Loosened
    <3>2. x \in Loosened(v) /\ (x.ok => o \notin x.m.made[p])
      BY <2>1, <2>4, <3>1, ConfirmProposalCareful, Zenon
    <3> HIDE DEF x
    <3>3. x \in Loosened(w)
      BY <2>3, <3>2, LoosenedTransitive
    <3>4. x.ok => \A r \in s : o \notin x.m.made[r]
      BY <2>1, <2>3, <2>4, <3>2 DEF Loosened
    <3> QED BY <1>5, <2>2, <2>4, <3>3, <3>4
  <2>5. CASE ~v.ok
    <3>1. f[s] = v
      BY <2>2, <2>5
    <3> QED BY <1>5, <2>3, <2>5, <3>1
  <2> QED BY <2>4, <2>5
<1>6. P \in G
  <2> HIDE DEF G
  <2> QED BY <1>3, <1>4, <1>5, SetInduction
<1>7. ConfirmProposals(w, P, o) = f[P]
  BY <1>2 DEF ConfirmProposalsTrace
<1> QED BY <1>6, <1>7

\* A proposal that ends gives back all it has made, and all it has reserved.
LEMMA ConfirmAllCareful ==
  ASSUME NEW w \in Careful, NEW O \in SUBSET Outpoint, NEW p \in Proposal
  PROVE  ConfirmAllCreated(w, O, p) \in Loosened(w) /\ ConfirmAllConsumed(w, O, p) \in Loosened(w)
<1>1. w \in Sound /\ w \in Loosened(w)
  BY LoosenedReflexive DEF Careful
<1>2. PICK f : ConfirmAllCreatedTrace(f, w, O, p)
  BY <1>1, ConfirmAllCreatedLoop
<1>3. PICK g : ConfirmAllConsumedTrace(g, w, O, p)
  BY <1>1, ConfirmAllConsumedLoop
<1>4. IsFiniteSet(O)
  BY ConstantsAssumption, FS_Subset
<1>5. ASSUME NEW v \in Loosened(w), v.ok, NEW o \in Outpoint
      PROVE  ConfirmCreated(v, o, p) \in Loosened(w) /\ ConfirmConsumed(v, o, p) \in Loosened(w)
  <2>1. v \in Careful
    BY DEF Loosened
  <2>2. ConfirmCreated(v, o, p) \in Loosened(v)
    BY <1>5, <2>1, ConfirmCreatedCareful, Zenon
  <2>3. ConfirmConsumed(v, o, p) \in Loosened(v)
    BY <1>5, <2>1, ConfirmConsumedCareful, Zenon
  <2> QED BY <2>2, <2>3, LoosenedTransitive
<1>6. ASSUME NEW s \in SUBSET O, s # {}, f[Rest(s)] \in Loosened(w)
      PROVE  f[s] \in Loosened(w)
  <2>1. Chosen(s) \in Outpoint
    BY <1>6, ChosenIsElement
  <2> QED BY <1>2, <1>5, <1>6, <2>1 DEF ConfirmAllCreatedTrace
<1>7. ASSUME NEW s \in SUBSET O, s # {}, g[Rest(s)] \in Loosened(w)
      PROVE  g[s] \in Loosened(w)
  <2>1. Chosen(s) \in Outpoint
    BY <1>7, ChosenIsElement
  <2> QED BY <1>3, <1>5, <1>7, <2>1 DEF ConfirmAllConsumedTrace
<1>8. \A s \in SUBSET O : f[s] \in Loosened(w)
  <2>1. f[{}] \in Loosened(w)
    BY <1>1, <1>2 DEF ConfirmAllCreatedTrace
  <2> QED BY <1>4, <1>6, <2>1, TraceKeeps
<1>9. \A s \in SUBSET O : g[s] \in Loosened(w)
  <2>1. g[{}] \in Loosened(w)
    BY <1>1, <1>3 DEF ConfirmAllConsumedTrace
  <2> QED BY <1>4, <1>7, <2>1, TraceKeeps
<1> QED BY <1>2, <1>3, <1>8, <1>9 DEF ConfirmAllCreatedTrace, ConfirmAllConsumedTrace

\* Output::FinishProposal.
LEMMA FinishProposalCareful ==
  ASSUME NEW w \in Careful, NEW p \in Proposal
  PROVE  FinishProposal(w, p) \in Loosened(w)
<1> DEFINE created == ConfirmAllCreated(w, w.m.made[p], p)
           Consumed2(u) == ConfirmAllConsumed(u, u.m.used[p], p)
<1>1. ASSUME NEW v \in Careful PROVE v.m.made[p] \in SUBSET Outpoint /\ v.m.used[p] \in SUBSET Outpoint
  BY DEF Careful, Sound, Work, Table
<1>2. created \in Loosened(w)
  BY <1>1, ConfirmAllCareful
<1>3. ASSUME NEW u \in Loosened(w) PROVE Consumed2(u) \in Loosened(w)
  <2>1. u \in Careful
    BY DEF Loosened
  <2>2. Consumed2(u) \in Loosened(u)
    BY <1>1, <2>1, ConfirmAllCareful
  <2> HIDE DEF Consumed2
  <2> QED BY <2>2, LoosenedTransitive
<1>4. FinishProposal(w, p) = Then(created, LAMBDA u : Consumed2(u))
  BY Zenon DEF FinishProposal, ConfirmAllCreated, ConfirmAllConsumed
<1> HIDE DEF created, Consumed2
<1>5. Then(created, LAMBDA u : Consumed2(u)) \in Loosened(w)
  BY <1>2, <1>3 DEF Then
<1> QED BY <1>4, <1>5

\* A proposal that is closed is not open.
LEMMA CloseRowCareful ==
  ASSUME NEW w \in Careful, NEW p \in Proposal
  PROVE  CloseRow(w, p) \in Careful
<1> DEFINE x == CloseRow(w, p)
<1>1. w \in Sound /\ w \in Work
  BY DEF Careful, Sound
<1>2. x \in Sound
  BY <1>1, CloseRowSound
<1>3. /\ x.m = w.m /\ x.d = w.d /\ x.ok = w.ok
      /\ \A q \in Proposal : x.row[q] = "open" => w.row[q] = "open"
  BY <1>1 DEF CloseRow, Work, Rows
<1> HIDE DEF x
<1>4. ASSUME NEW z \in Outpoint PROVE SameAt(x, w, z)
  BY <1>3 DEF SameAt
<1>5. x \in Careful
  BY <1>2, <1>3, <1>4, BookkeepingCareful
<1> QED BY <1>5 DEF x

\* Those that a block finishes.
LEMMA CloseRowsCareful ==
  ASSUME NEW w \in Careful, NEW P \in SUBSET Proposal
  PROVE  CloseRows(w, P) \in Careful
<1>1. w \in Sound
  BY DEF Careful
<1>2. PICK f : CloseRowsTrace(f, w, P)
  BY <1>1, CloseRowsLoop
<1>3. IsFiniteSet(P)
  <2>1. Proposal \subseteq Transaction \cup Proposal
    OBVIOUS
  <2>2. IsFiniteSet(Proposal)
    BY <2>1, ConstantsAssumption, FS_Subset
  <2> QED BY <2>2, FS_Subset
<1>4. ASSUME NEW s \in SUBSET P, s # {}, f[Rest(s)] \in Careful
      PROVE  f[s] \in Careful
  <2>1. Chosen(s) \in Proposal
    BY <1>4, ChosenIsElement
  <2>2. CloseRow(f[Rest(s)], Chosen(s)) \in Careful
    BY <1>4, <2>1, CloseRowCareful
  <2> QED BY <1>2, <1>4, <2>2 DEF CloseRowsTrace
<1>5. f[{}] \in Careful
  BY <1>2 DEF CloseRowsTrace
<1>6. \A s \in SUBSET P : f[s] \in Careful
  BY <1>3, <1>4, <1>5, TraceKeeps
<1> QED BY <1>2, <1>6 DEF CloseRowsTrace

\* Steps that forget no output.
Grown(w) ==
  {x \in Careful : \A z \in Outpoint : w.m.state[z] # "absent" => x.m.state[z] # "absent"}

\* An output that was paid to the wallet is put on record.
LEMMA CreateStateCareful ==
  ASSUME NEW w \in Careful, w.ok, NEW o \in Outpoint, NEW s \in TxoState, NEW q \in Position,
         w.m.state[o] = "absent", o \in Received(sent),
         \A p \in Proposal : o \notin w.m.made[p] \cup disk.made[p]
  PROVE  CreateState(w, o, s, q, TRUE) \in Grown(w)
<1> DEFINE x == CreateState(w, o, s, q, TRUE)
<1>1. w \in Sound /\ w.m \in Table /\ w.d \in Table
  BY DEF Careful, Sound, Work
<1>2. x \in Sound
  BY <1>1, CreateStateSound
<1>3. /\ SameProposals(x.m, w.m) /\ SameProposals(x.d, w.d)
      /\ x.m.state = Put(w.m.state, o, s) /\ x.d.state = Put(w.d.state, o, s)
      /\ x.row = w.row /\ x.ok = w.ok
      /\ x.m.gen \cup x.m.twice \cup x.d.gen
           \subseteq w.m.gen \cup w.m.twice \cup w.d.gen \cup Entry(o, TRUE)
  BY ONLY <1>1, w.m.state[o] = "absent", o \in Outpoint, s \in TxoState, q \in Position,
     TRUE \in BOOLEAN, CreateStateShape, Zenon
<1> HIDE DEF x
<1>4. s # "absent"
  BY DEF TxoState, New, Spent
<1>5. /\ x.m.state[o] = s /\ x.d.state[o] = s
      /\ \A z \in Outpoint \ {o} : x.m.state[z] = w.m.state[z] /\ x.d.state[z] = w.d.state[z]
  <2>1. w.m.state \in [Outpoint -> TxoState \cup {"absent"}]
        /\ w.d.state \in [Outpoint -> TxoState \cup {"absent"}]
    BY <1>1 DEF Table
  <2> QED BY ONLY <1>3, <2>1, o \in Outpoint DEF Put
<1>6. ASSUME NEW z \in Outpoint \ {o} PROVE SameAt(x, w, z)
  <2>1. \A h \in Int : <<h, z>> \notin Entry(o, TRUE)
    BY DEF Entry
  <2> QED BY <1>3, <1>5, <2>1 DEF SameAt, SameProposals
<1>7. Fits(o, w.m, w.d, disk, sent, builder.todo) /\ Agrees(o, w.m, w.d)
  BY DEF Careful
<1>8. Agrees(o, x.m, x.d)
  BY <1>3, <1>4, <1>5, <1>7 DEF Agrees, SameProposals
<1>9. Fits(o, x.m, x.d, disk, sent, builder.todo)
  <2>1. \A p \in Proposal : o \notin x.m.made[p] \cup disk.made[p]
    BY <1>3 DEF SameProposals
  <2>2. \A p \in Proposal : /\ o \in x.d.made[p] => o \in x.m.made[p]
                            /\ o \in x.d.used[p] => o \in x.m.used[p]
    BY <1>3, <1>7 DEF Fits, SameProposals
  <2> QED BY <1>4, <1>5, <2>1, <2>2 DEF Fits
<1>10. x \in Careful
  BY <1>2, <1>3, <1>6, <1>8, <1>9, BesideCareful
<1>11. x \in Grown(w)
  BY <1>4, <1>5, <1>10 DEF Grown
<1> QED BY <1>11 DEF x

\* Output::process: before an output can become available the proposals that
\* hold it have let it go.
LEMMA ProcessOutputCareful ==
  ASSUME NEW w \in Careful, w.ok, NEW o \in Outpoint, NEW s \in TxoState,
         NEW q \in Position, NEW mempool \in BOOLEAN, sent \subseteq Proposal,
         w.m.state[o] = "absent" => o \in Received(sent),
         s = "ConfirmedNew" => o \in Received(sent) /\ ~mempool
  PROVE  ProcessOutput(w, o, s, q, mempool) \in Grown(w)
<1> DEFINE proposals == IF mempool THEN {} ELSE ToSet(w.m.assoc[o])
           u == ConfirmProposals(w, proposals, o)
           last(v) == IF w.m.state[o] = "absent" THEN CreateState(v, o, s, q, TRUE)
                      ELSE ChangeState(v, o, s, q)
<1>1. proposals \in SUBSET Proposal
  BY AssociatedType DEF Careful, Sound, Work
<1>2. u \in Loosened(w) /\ (u.ok => \A p \in proposals : o \notin u.m.made[p])
  <2> HIDE DEF proposals
  <2> QED BY <1>1, ConfirmProposalsCareful, Zenon
<1>3. Fits(o, w.m, w.d, disk, sent, builder.todo)
  BY DEF Careful
<1>4. ProcessOutput(w, o, s, q, mempool) = IF u.ok THEN last(u) ELSE u
  BY Zenon DEF ProcessOutput, ConfirmProposals, Then
<1> HIDE DEF u
<1>5. /\ u \in Careful /\ u.m.state = w.m.state
      /\ \A p \in Proposal : u.m.made[p] \subseteq w.m.made[p]
  BY <1>2 DEF Loosened
<1>6. ASSUME u.ok, w.m.state[o] = "absent" PROVE last(u) \in Grown(w)
  <2>1. o \in Received(sent) /\ disk.state[o] = "absent"
    BY <1>3, <1>6 DEF Fits
  <2>2. \A p \in Proposal : o \notin w.m.made[p] \cup disk.made[p]
    <3>1. ASSUME NEW p \in Proposal, o \in w.m.made[p] \cup disk.made[p] PROVE FALSE
      <4>1. o \in Pays[p] /\ (p \in sent => disk.state[o] # "absent")
        BY <1>3, <3>1 DEF Fits
      <4>2. p \in sent
        BY <2>1, <4>1, ReceivedFromSent
      <4> QED BY <2>1, <4>1, <4>2
    <3> QED BY <3>1
  <2>3. \A p \in Proposal : o \notin u.m.made[p] \cup disk.made[p]
    BY <1>5, <2>2
  <2>4. CreateState(u, o, s, q, TRUE) \in Grown(u)
    BY <1>5, <1>6, <2>1, <2>3, CreateStateCareful
  <2>5. last(u) \in Grown(u)
    BY <1>6, <2>4
  <2> HIDE DEF last
  <2> QED BY <1>5, <2>5 DEF Grown
<1>7. ASSUME u.ok, w.m.state[o] # "absent" PROVE last(u) \in Grown(w)
  <2>1. ASSUME s = "ConfirmedNew"
        PROVE  o \in Received(sent) /\ \A p \in Proposal : o \notin u.m.made[p]
    <3>1. ASSUME NEW p \in Proposal, o \in u.m.made[p] PROVE FALSE
      <4>1. p \in ToSet(w.m.assoc[o])
        BY <1>3, <1>5, <3>1 DEF Fits
      <4>2. p \in proposals
        BY <2>1, <4>1
      <4> QED BY <1>2, <1>7, <3>1, <4>2
    <3> QED BY <2>1, <3>1
  <2>2. ChangeState(u, o, s, q) \in Kept(u)
    BY <1>5, <1>7, <2>1, ChangeStateKept
  <2>3. last(u) \in Kept(u)
    BY <1>7, <2>2
  <2> HIDE DEF last
  <2> QED BY <1>5, <2>3 DEF Grown, Kept
<1>8. ASSUME ~u.ok PROVE u \in Grown(w)
  BY <1>5 DEF Grown
<1> HIDE DEF last
<1> QED BY <1>4, <1>6, <1>7, <1>8

\* The outputs of a block or of a transaction of the mempool.
LEMMA ProcessOutputsCareful ==
  ASSUME NEW w \in Careful, NEW O \in SUBSET Outpoint,
         NEW final, \A o \in O : final[o] \in TxoState,
         NEW q \in Position, NEW mempool \in BOOLEAN, sent \subseteq Proposal,
         \A o \in O : /\ w.m.state[o] = "absent" => o \in Received(sent)
                      /\ final[o] = "ConfirmedNew" => o \in Received(sent) /\ ~mempool
  PROVE  ProcessOutputs(w, O, final, q, mempool) \in Grown(w)
<1>1. w \in Sound /\ w \in Grown(w)
  BY DEF Careful, Grown
<1>2. PICK f : ProcessOutputsTrace(f, w, O, final, q, mempool)
  BY <1>1, ProcessOutputsLoop
<1>3. IsFiniteSet(O)
  BY ConstantsAssumption, FS_Subset
<1>4. ASSUME NEW s \in SUBSET O, s # {}, f[Rest(s)] \in Grown(w)
      PROVE  f[s] \in Grown(w)
  <2> DEFINE v == f[Rest(s)]
             o == Chosen(s)
             x == ProcessOutput(v, o, final[o], q, mempool)
  <2>1. o \in O /\ o \in Outpoint
    BY <1>4, ChosenIsElement
  <2>2. f[s] = IF v.ok THEN x ELSE v
    BY <1>2, <1>4 DEF ProcessOutputsTrace
  <2>3. v \in Careful /\ v \in Grown(w)
    BY <1>4 DEF Grown
  <2> HIDE DEF v, o
  <2>4. ASSUME v.ok PROVE x \in Grown(w)
    <3>1. v.m.state[o] = "absent" => o \in Received(sent)
      BY <2>1, <2>3 DEF Grown
    <3>2. final[o] \in TxoState /\ (final[o] = "ConfirmedNew" => o \in Received(sent) /\ ~mempool)
      BY <2>1
    <3>3. x \in Grown(v)
      BY <2>1, <2>3, <2>4, <3>1, <3>2, ProcessOutputCareful
    <3> HIDE DEF x
    <3> QED BY <2>3, <3>3 DEF Grown
  <2> HIDE DEF x
  <2> QED BY <2>2, <2>3, <2>4
<1>5. \A s \in SUBSET O : f[s] \in Grown(w)
  BY <1>1, <1>2, <1>3, <1>4, TraceKeeps DEF ProcessOutputsTrace
<1> QED BY <1>2, <1>5 DEF ProcessOutputsTrace

\* ParsedBlockMatches: only outputs the transactions create are new, and only
\* a block confirms them.
LEMMA ParseCreates ==
  ASSUME NEW m \in Table, NEW txs \in SUBSET Tx, NEW q \in Position,
         NEW mempool \in BOOLEAN, inputs \in [Proposal -> SUBSET Outpoint],
         mempool => txs \cap Generation = {}
  PROVE  LET final == Parse(m, txs, q, mempool).final
         IN \A o \in DOMAIN final :
              /\ m.state[o] = "absent" => o \in Created(txs)
              /\ final[o] = "ConfirmedNew" => o \in Created(txs) /\ ~mempool
<1> DEFINE spend == IF mempool THEN "UnconfirmedSpend" ELSE "ConfirmedSpend"
           new == [o \in Created(txs) |-> CreatedState(m, txs, o, q, mempool)]
           To(o) == IF m.state[o] = "absent" THEN "allowed"
                    ELSE Transition(m.state[o], new[o])
           creates == {o \in Created(txs) : To(o) = "allowed"}
           from == [o \in Consumed(txs) |->
                      IF o \in creates THEN new[o] ELSE m.state[o]]
           consumes == {o \in Consumed(txs) :
                          from[o] # "absent" /\ Transition(from[o], spend) = "allowed"}
           final == [o \in creates \cup consumes |->
                       IF o \in consumes THEN spend ELSE new[o]]
<1>1. Parse(m, txs, q, mempool).final = final
  BY DEF Parse
<1>2. spend # "ConfirmedNew"
  OBVIOUS
<1>3. ASSUME mempool, NEW o \in Created(txs) PROVE new[o] = "UnconfirmedNew"
  BY <1>3 DEF CreatedState
<1>4. creates \subseteq Created(txs)
  OBVIOUS
<1>5. \A o \in consumes : o \in creates \/ m.state[o] # "absent"
  <2> HIDE DEF creates
  <2> QED OBVIOUS
<1> HIDE DEF spend, new, creates, consumes
<1>6. ASSUME NEW o \in DOMAIN final
      PROVE  /\ m.state[o] = "absent" => o \in Created(txs)
             /\ final[o] = "ConfirmedNew" => o \in Created(txs) /\ ~mempool
  <2>1. o \in creates \/ o \in consumes
    OBVIOUS
  <2>2. m.state[o] = "absent" => o \in Created(txs)
    BY <1>4, <1>5, <2>1
  <2>3. ASSUME final[o] = "ConfirmedNew" PROVE o \in Created(txs) /\ ~mempool
    <3>1. o \notin consumes /\ final[o] = new[o]
      BY <1>2, <2>1, <2>3
    <3>2. o \in Created(txs)
      BY <1>4, <2>1, <3>1
    <3> QED BY <1>3, <2>3, <3>1, <3>2
  <2> QED BY <2>2, <2>3
<1> HIDE DEF final
<1> QED BY <1>1, <1>6

\* add_transactions_in_block.
LEMMA AddTransactionsCareful ==
  ASSUME NEW w \in Careful, NEW q \in Position, NEW txs \in SUBSET Tx,
         NEW mempool \in BOOLEAN, inputs \in [Proposal -> SUBSET Outpoint],
         sent \subseteq Proposal, txs \cap Proposal \subseteq sent,
         mempool => txs \cap Generation = {}
  PROVE  AddTransactions(w, q, txs, mempool) \in Careful
<1> DEFINE parsed == Parse(w.m, txs, q, mempool)
           result == parsed.final
           touched == UNION {ToSet(w.m.assoc[o]) : o \in DOMAIN result}
           Finished(m) == {p \in touched : m.made[p] = {} /\ m.used[p] = {}}
           processed == ProcessOutputs(w, DOMAIN result, result, q, mempool)
           closed(u) == IF mempool THEN u
                        ELSE CloseRows(u, Finished(u.m))
<1>1. w.m \in Table
  BY DEF Careful, Sound, Work
<1>2. DOMAIN result \in SUBSET Outpoint /\ result \in [DOMAIN result -> TxoState]
  BY <1>1, ParseType
<1>3. touched \in SUBSET Proposal
  <2> HIDE DEF result
  <2> QED BY <1>1, <1>2, AssociatedType
<1>4. \A o \in DOMAIN result :
        /\ w.m.state[o] = "absent" => o \in Received(sent)
        /\ result[o] = "ConfirmedNew" => o \in Received(sent) /\ ~mempool
  <2>1. Created(txs) \subseteq Received(sent)
    BY DEF Created, Received, Tx
  <2>2. \A o \in DOMAIN result :
          /\ w.m.state[o] = "absent" => o \in Created(txs)
          /\ result[o] = "ConfirmedNew" => o \in Created(txs) /\ ~mempool
    BY <1>1, ParseCreates
  <2> HIDE DEF result
  <2> QED BY <2>1, <2>2
<1>5. processed \in Careful
  <2> HIDE DEF result
  <2>1. \A o \in DOMAIN result : result[o] \in TxoState
    BY <1>2
  <2>2. processed \in Grown(w)
    BY <1>2, <1>4, <2>1, ProcessOutputsCareful
  <2> QED BY <2>2 DEF Grown
<1>6. ASSUME NEW u \in Careful PROVE closed(u) \in Careful
  <2>1. Finished(u.m) \in SUBSET Proposal
    <3> HIDE DEF touched
    <3> QED BY <1>3
  <2> HIDE DEF Finished
  <2>2. CloseRows(u, Finished(u.m)) \in Careful
    BY <2>1, CloseRowsCareful
  <2> QED BY <2>2
<1> HIDE DEF processed, closed
<1>7. Then(processed, LAMBDA u : closed(u)) \in Careful
  BY <1>5, <1>6 DEF Then
<1>8. Throw(w) \in Careful
  BY ThrowKept DEF Kept
<1> QED BY <1>7, <1>8, Zenon DEF AddTransactions, processed, closed,
     ProcessOutputs, CloseRows

\* AddConfirmedTransactions: what the blocks of the chain contain of the
\* proposals was sent.
LEMMA AddBlocksCareful ==
  ASSUME NEW w \in Careful, chain \in Seq(Block), inputs \in [Proposal -> SUBSET Outpoint],
         NEW a \in Nat, NEW b \in Nat, 1 <= a, a <= b, b <= Len(chain),
         sent \subseteq Proposal,
         \A h \in DOMAIN chain : chain[h].txs \cap Proposal \subseteq sent
  PROVE  AddBlocks(w, a, b) \in Careful
<1>1. ASSUME NEW v \in Careful, NEW h \in DOMAIN chain
      PROVE  AddTransactions(v, Upto(h), chain[h].txs, FALSE) \in Careful
  <2>1. h \in 0..Len(chain)
    OBVIOUS
  <2>2. Upto(h) \in Position /\ chain[h].txs \in SUBSET Tx
    BY <2>1, TipType DEF Position
  <2> QED BY <2>2, AddTransactionsCareful
<1> QED BY <1>1, AddBlocksKeeps

\* FinalizeProposal: when it succeeds every output of the transaction is on
\* record before the transaction can be sent.
LEMMA FinalizedCareful ==
  ASSUME NEW w \in Careful, w.ok, NEW p \in Proposal, NEW in \in SUBSET Outpoint,
         p \notin sent, sent \subseteq Proposal
  PROVE  LET x == Finalized(w, p, in)
         IN /\ x \in Careful /\ x.row = w.row
            /\ x.ok => \A o \in Pays[p] : x.m.state[o] # "absent"
<1> DEFINE checked == Then(Then(ReleaseUnused(w, p, in), LAMBDA v : ValidateInputs(v, in)),
                           LAMBDA v : ValidateOutputs(v, Pays[p]))
           set == SetStates(w, in, "UnconfirmedSpend", Blank)
           spent == Then(checked, LAMBDA v : SetStates(v, in, "UnconfirmedSpend", Blank))
           Fresh == \A o \in Pays[p] : w.m.assoc[o] = <<>>
           x == Finalized(w, p, in)
<1>1. Throw(w) \in Kept(w) /\ ~Throw(w).ok
  BY ThrowKept
<1>2. checked = Throw(w) \/ (checked = w /\ Fresh)
  <2> DEFINE released == ReleaseUnused(w, p, in)
             validated == Then(released, LAMBDA v : ValidateInputs(v, in))
  <2>1. released = w \/ released = Throw(w)
    BY DEF ReleaseUnused
  <2>2. validated = w \/ validated = Throw(w)
    <3> HIDE DEF released
    <3>1. validated = IF released.ok THEN ValidateInputs(released, in) ELSE released
      BY Zenon DEF Then
    <3>2. ValidateInputs(w, in) = w \/ ValidateInputs(w, in) = Throw(w)
      BY DEF ValidateInputs
    <3> QED BY <1>1, <2>1, <3>1, <3>2
  <2> HIDE DEF validated
  <2>3. checked = IF validated.ok THEN ValidateOutputs(validated, Pays[p]) ELSE validated
    BY Zenon DEF Then, validated
  <2>4. ValidateOutputs(w, Pays[p]) = Throw(w) \/ (ValidateOutputs(w, Pays[p]) = w /\ Fresh)
    BY DEF ValidateOutputs
  <2> HIDE DEF checked, Fresh
  <2> QED BY <1>1, <2>2, <2>3, <2>4
<1>3. Blank \in Position /\ "UnconfirmedSpend" \in TxoState /\ "UnconfirmedSpend" # "ConfirmedNew"
  BY DEF Position, TxoState, Spent
<1>4. set \in Kept(w)
  BY <1>3, SetStatesKept
<1>5. spent = Throw(w) \/ (spent = set /\ Fresh)
  <2> HIDE DEF checked, Fresh
  <2>1. spent = IF checked.ok THEN SetStates(checked, in, "UnconfirmedSpend", Blank) ELSE checked
    BY Zenon DEF Then
  <2> QED BY <1>1, <1>2, <2>1
<1>6. x = IF spent.ok THEN IssueAll(spent, Pays[p], p) ELSE spent
  BY Zenon DEF Finalized, SetStates, IssueAll, Then
<1> HIDE DEF spent, set, x
<1>7. CASE ~spent.ok
  <2>1. x = spent /\ spent \in Kept(w)
    BY <1>1, <1>4, <1>5, <1>6, <1>7
  <2>2. x \in Careful /\ x.row = w.row /\ ~x.ok
    BY <1>7, <2>1 DEF Kept
  <2> QED BY <2>2, Zenon DEF x
<1>8. CASE spent.ok
  <2> DEFINE y == IssueAll(spent, Pays[p], p)
  <2>1. x = y /\ spent = set /\ Fresh
    BY <1>1, <1>5, <1>6, <1>8
  <2>2. spent \in Careful /\ spent.row = w.row /\ spent.m.assoc = w.m.assoc
    BY <1>4, <2>1 DEF Kept
  <2>3. \A o \in Pays[p] : spent.m.assoc[o] = <<>>
    BY <2>1, <2>2
  <2>4. /\ y \in Careful /\ y.row = spent.row
        /\ y.ok => \A o \in Pays[p] : y.m.state[o] # "absent"
    BY <1>8, <2>2, <2>3, IssueAllCareful, Zenon
  <2>5. /\ x \in Careful /\ x.row = w.row
        /\ x.ok => \A o \in Pays[p] : x.m.state[o] # "absent"
    BY <2>1, <2>2, <2>4
  <2> QED BY <2>5, Zenon DEF x
<1> QED BY <1>7, <1>8

-----------------------------------------------------------------------------
(***************************************************************************)
(* The invariant of the reservations.  Beside the claims on every output   *)
(* it says in which order a proposal goes through its life: it is pending  *)
(* while it is built and not after it was sent; its outputs are on record  *)
(* before that; and a block contains it only then.                         *)
(***************************************************************************)

Settled ==
  \A o \in Outpoint : /\ Fits(o, mem, disk, disk, sent, builder.todo)
                      /\ Agrees(o, mem, disk)

Orderly ==
  /\ pending \cap sent = {}
  /\ builder.step \in {"build", "built"} => builder.proposal \in pending
  /\ builder.step = "built" =>
       /\ row[builder.proposal] # "open"
       /\ \A o \in Pays[builder.proposal] : disk.state[o] # "absent"
  /\ \A p \in sent : row[p] # "open"
  /\ \A h \in DOMAIN chain : chain[h].txs \cap Proposal \subseteq sent

InvReserved == Inv /\ Settled /\ Orderly

\* A database transaction begins with it.
LEMMA BeginCareful ==
  ASSUME Inv, Settled
  PROVE  Begin \in Careful /\ Begin.ok
<1>1. Begin.m = mem /\ Begin.d = disk /\ Begin.row = row /\ Begin.ok = TRUE
  BY DEF Begin
<1> QED BY <1>1 DEF Inv, Settled, Careful

\* What the cache lists after a failure is what it had and what the tables say.
LEMMA ReloadShape ==
  ASSUME NEW m \in Table, NEW d \in Table
  PROVE  /\ Reload(m, d).state = d.state
         /\ Reload(m, d).gen = m.gen \cup d.gen
         /\ Reload(m, d).twice = m.twice \cup (m.gen \cap d.gen)
         /\ \A p \in Proposal : /\ Reload(m, d).made[p] = m.made[p] \cup d.made[p]
                                /\ Reload(m, d).used[p] = m.used[p] \cup d.used[p]
         /\ \A o \in Outpoint :
              ToSet(Reload(m, d).assoc[o]) = ToSet(m.assoc[o]) \cup ToSet(d.assoc[o])
<1> DEFINE gen == m.gen \cup d.gen
           twice == m.twice \cup (m.gen \cap d.gen)
           assoc == [o \in Outpoint |->
                       IF ToSet(d.assoc[o]) \subseteq ToSet(m.assoc[o])
                       THEN m.assoc[o] ELSE m.assoc[o] \o d.assoc[o]]
           made == [p \in Proposal |-> m.made[p] \cup d.made[p]]
           used == [p \in Proposal |-> m.used[p] \cup d.used[p]]
           x == Reload(m, d)
<1>1. x = [d EXCEPT !.gen = gen, !.twice = twice, !.assoc = assoc, !.made = made, !.used = used]
  BY Zenon DEF Reload
<1>2. \A p \in Proposal : made[p] = m.made[p] \cup d.made[p] /\ used[p] = m.used[p] \cup d.used[p]
  OBVIOUS
<1>3. ASSUME NEW o \in Outpoint PROVE ToSet(assoc[o]) = ToSet(m.assoc[o]) \cup ToSet(d.assoc[o])
  <2>1. m.assoc[o] \in Seq(Proposal) /\ d.assoc[o] \in Seq(Proposal)
    BY DEF Table
  <2>2. ToSet(m.assoc[o] \o d.assoc[o]) = ToSet(m.assoc[o]) \cup ToSet(d.assoc[o])
    BY <2>1, AssociatedFacts
  <2> QED BY <2>2
<1> HIDE DEF gen, twice, assoc, made, used, x
<1>4. x.state = d.state /\ x.gen = gen /\ x.twice = twice
  BY ONLY <1>1, d \in Table DEF Table
<1>5. x.assoc = assoc /\ x.made = made /\ x.used = used
  BY ONLY <1>1, d \in Table DEF Table
<1> QED BY <1>2, <1>3, <1>4, <1>5, Zenon DEF x, gen, twice

\* A database transaction ends with it, whether it commits or not, forgets no
\* output and opens no proposal.
LEMMA FinishCareful ==
  ASSUME Inv, Settled, NEW w \in Careful, NEW stored \in Rows, Finish(w, stored),
         \A p \in Proposal : stored[p] = "open" => row[p] = "open",
         sent' = sent, builder'.todo \subseteq builder.todo
  PROVE  /\ Settled'
         /\ \A o \in Outpoint : disk.state[o] # "absent" => disk'.state[o] # "absent"
         /\ \A p \in Proposal : row'[p] = "open" => row[p] = "open"
<1>1. w \in Sound /\ w.m \in Table /\ w.d \in Table /\ disk \in Table /\ mem \in Table
  BY RowsType DEF Careful, Sound, Work
<1>2. ASSUME NEW o \in Outpoint
      PROVE  /\ Fits(o, w.m, w.d, disk, sent, builder.todo)
             /\ w.ok => Agrees(o, w.m, w.d)
             /\ Agrees(o, mem, disk)
             /\ (w.m.state[o] = "absent") <=> (w.d.state[o] = "absent")
  BY <1>1 DEF Careful, Settled, Sound, OnRecord
<1>3. CASE w.ok
  <2>1. mem' = w.m /\ disk' = w.d /\ row' = w.row
    BY <1>3 DEF Finish
  <2>2. ASSUME NEW o \in Outpoint
        PROVE  Fits(o, w.m, w.d, w.d, sent, builder'.todo)
    <3>1. Theirs(o, w.m, w.d, w.d, builder'.todo) => Theirs(o, w.m, w.d, disk, builder.todo)
      <4>1. \A p \in Proposal : o \in w.d.used[p] => o \in w.m.used[p]
        BY <1>2 DEF Fits
      <4> QED BY <4>1 DEF Theirs
    <3>2. \A p \in Proposal : o \in w.m.made[p] \cup w.d.made[p] =>
            /\ o \in Pays[p] /\ ~Theirs(o, w.m, w.d, w.d, builder'.todo)
            /\ w.d.state[o] # "ConfirmedNew"
            /\ (p \in sent => w.d.state[o] # "absent")
      BY <1>2, <3>1 DEF Fits
    <3> QED BY <1>2, <3>1, <3>2 DEF Fits, IsAvailable
  <2>3. Settled'
    BY <1>2, <1>3, <2>1, <2>2 DEF Settled
  <2>4. \A o \in Outpoint : disk.state[o] # "absent" => disk'.state[o] # "absent"
    BY <1>2, <2>1 DEF Fits
  <2>5. \A p \in Proposal : row'[p] = "open" => row[p] = "open"
    BY <2>1 DEF Careful
  <2> QED BY <2>3, <2>4, <2>5
<1>4. CASE ~w.ok
  <2> DEFINE r == Reload(w.m, disk)
  <2>1. mem' = r /\ disk' = disk /\ row' = stored
    BY <1>4 DEF Finish
  <2>2. /\ r.state = disk.state
        /\ r.gen = w.m.gen \cup disk.gen
        /\ r.twice = w.m.twice \cup (w.m.gen \cap disk.gen)
        /\ \A p \in Proposal : /\ r.made[p] = w.m.made[p] \cup disk.made[p]
                               /\ r.used[p] = w.m.used[p] \cup disk.used[p]
        /\ \A o \in Outpoint : ToSet(r.assoc[o]) = ToSet(w.m.assoc[o]) \cup ToSet(disk.assoc[o])
    BY <1>1, ReloadShape
  <2> HIDE DEF r
  <2>3. ASSUME NEW o \in Outpoint
        PROVE  Fits(o, r, disk, disk, sent, builder'.todo)
    <3>1. Theirs(o, r, disk, disk, builder'.todo) => Theirs(o, w.m, w.d, disk, builder.todo)
      BY <2>2 DEF Theirs
    <3>2. \A p \in Proposal : o \in r.made[p] \cup disk.made[p] =>
            /\ o \in Pays[p] /\ ~Theirs(o, r, disk, disk, builder'.todo)
            /\ disk.state[o] # "ConfirmedNew"
            /\ (p \in sent => disk.state[o] # "absent")
      BY <1>2, <2>2, <3>1 DEF Fits
    <3>3. \A p \in Proposal : o \in r.made[p] => p \in ToSet(r.assoc[o])
      <4>1. ASSUME NEW p \in Proposal, o \in w.m.made[p] PROVE p \in ToSet(w.m.assoc[o])
        BY <1>2, <4>1 DEF Fits
      <4>2. ASSUME NEW p \in Proposal, o \in disk.made[p] PROVE p \in ToSet(disk.assoc[o])
        BY <1>2, <4>2 DEF Agrees
      <4> QED BY <2>2, <4>1, <4>2
    <3>4. \A p \in Proposal : /\ o \in disk.made[p] => o \in r.made[p]
                              /\ o \in disk.used[p] => o \in r.used[p]
      BY <2>2
    <3>5. (Theirs(o, r, disk, disk, builder'.todo) \/ IsAvailable(o, r, disk, disk))
            => o \in Received(sent)
      BY <1>2, <2>2, <3>1 DEF Fits, IsAvailable
    <3> QED BY <2>2, <3>2, <3>3, <3>4, <3>5 DEF Fits
  <2>4. ASSUME NEW o \in Outpoint PROVE Agrees(o, r, disk)
    BY <1>2, <2>2 DEF Agrees
  <2>5. Settled'
    BY <2>1, <2>3, <2>4 DEF Settled
  <2> QED BY <2>1, <2>5
<1> QED BY <1>3, <1>4

\* Steps that do not bring a proposal further, though they may give it up.
Steady ==
  /\ UNCHANGED <<chain, sent>>
  /\ pending' \subseteq pending /\ builder'.todo \subseteq builder.todo
  /\ builder'.step \in {"build", "built"} =>
       /\ builder'.step = builder.step /\ builder'.proposal = builder.proposal
       /\ pending' = pending

\* They keep the order in which a proposal goes through its life.
LEMMA OrderlyKept ==
  ASSUME Inv, Orderly, Steady,
         \A o \in Outpoint : disk.state[o] # "absent" => disk'.state[o] # "absent",
         \A p \in Proposal : row'[p] = "open" => row[p] = "open"
  PROVE  Orderly'
<1>1. sent \subseteq Proposal
  BY DEF Inv
<1>2. ASSUME builder'.step = "built"
      PROVE  /\ row'[builder'.proposal] # "open"
             /\ \A o \in Pays[builder'.proposal] : disk'.state[o] # "absent"
  <2>1. builder.step = "built" /\ builder.proposal \in Proposal
        /\ builder'.proposal = builder.proposal
    BY <1>2 DEF Steady, Inv
  <2>2. Pays[builder.proposal] \subseteq Outpoint
    BY <2>1, ConstantsAssumption
  <2> QED BY <2>1, <2>2 DEF Orderly
<1> QED BY <1>1, <1>2 DEF Orderly, Steady

\* A database transaction in such a step.
LEMMA FinishReserved ==
  ASSUME InvReserved, NEW w \in Careful, Finish(w, row), Steady
  PROVE  Settled' /\ Orderly'
<1>1. Inv /\ Settled /\ Orderly /\ row \in Rows
  BY RowsType DEF InvReserved
<1>2. /\ Settled'
      /\ \A o \in Outpoint : disk.state[o] # "absent" => disk'.state[o] # "absent"
      /\ \A p \in Proposal : row'[p] = "open" => row[p] = "open"
  BY <1>1, FinishCareful DEF Steady
<1> QED BY <1>1, <1>2, OrderlyKept

\* An empty wallet.
LEMMA InitReserved ==
  ASSUME Init
  PROVE  InvReserved
<1>1. Inv
  BY InitInv
<1>2. /\ mem = Empty /\ disk = Empty /\ sent = {} /\ builder = Idle /\ pending = {} /\ chain = <<>>
  BY DEF Init
<1>3. /\ \A o \in Outpoint : Empty.state[o] = "absent" /\ Empty.assoc[o] = <<>>
      /\ \A p \in Proposal : Empty.made[p] = {} /\ Empty.used[p] = {}
      /\ Empty.gen = {} /\ Empty.twice = {}
      /\ Idle.todo = {} /\ Idle.step = "idle"
  BY DEF Empty, Idle
<1>4. ToSet(<<>>) = {}
  BY DEF ToSet
<1>5. ASSUME NEW o \in Outpoint PROVE Fits(o, Empty, Empty, Empty, {}, Idle.todo)
  <2>1. ~Theirs(o, Empty, Empty, Empty, Idle.todo) /\ ~IsAvailable(o, Empty, Empty, Empty)
    BY <1>3 DEF Theirs, IsAvailable
  <2> QED BY <1>3, <2>1 DEF Fits
<1>6. ASSUME NEW o \in Outpoint PROVE Agrees(o, Empty, Empty)
  BY <1>3, <1>4 DEF Agrees
<1>7. Settled
  BY <1>2, <1>5, <1>6 DEF Settled
<1>8. Orderly
  BY <1>2, <1>3 DEF Orderly
<1> QED BY <1>1, <1>7, <1>8 DEF InvReserved

\* A block is mined: what it contains of the proposals was sent.
LEMMA MineReserved ==
  ASSUME InvReserved, Mine
  PROVE  Settled' /\ Orderly'
<1>1. Inv /\ Settled /\ Orderly /\ chain \in Seq(Block)
  BY DEF InvReserved, Inv
<1>2. UNCHANGED <<mem, disk, row, sent, builder, pending>>
  BY DEF Mine, payer
<1>3. PICK txs \in SUBSET Tx :
        Valid(chain, txs) /\ chain' = Append(chain, [branch |-> reorgs, txs |-> txs])
  BY DEF Mine
<1>4. txs \cap Proposal \subseteq sent
  BY <1>3 DEF Valid
<1>5. \A h \in DOMAIN chain' : (h \in DOMAIN chain /\ chain'[h] = chain[h]) \/ chain'[h].txs = txs
  <2> DEFINE e == [branch |-> reorgs, txs |-> txs]
  <2>1. e.txs = txs
    OBVIOUS
  <2> HIDE DEF e
  <2>2. \A h \in DOMAIN Append(chain, e) :
          (h \in DOMAIN chain /\ Append(chain, e)[h] = chain[h]) \/ Append(chain, e)[h] = e
    BY <1>1
  <2>3. chain' = Append(chain, e)
    BY <1>3 DEF e
  <2> QED BY <2>1, <2>2, <2>3
<1>6. Settled'
  BY <1>1, <1>2 DEF Settled
<1>7. \A h \in DOMAIN chain' : chain'[h].txs \cap Proposal \subseteq sent'
  BY <1>1, <1>2, <1>4, <1>5 DEF Orderly
<1> QED BY <1>1, <1>2, <1>6, <1>7 DEF Orderly

\* A longer branch replaces blocks: what is mined on it was sent too.
LEMMA ForkReserved ==
  ASSUME InvReserved, Fork
  PROVE  Settled' /\ Orderly'
<1>1. Inv /\ Settled /\ Orderly /\ chain \in Seq(Block)
  BY DEF InvReserved, Inv
<1>2. UNCHANGED <<mem, disk, row, sent, builder, pending>>
  BY DEF Fork, payer
<1>3. PICK a \in 0..(Len(chain) - 1), txs \in SUBSET Tx :
        LET kept == SubSeq(chain, 1, a)
            Block1(i) == [branch |-> reorgs + 1, txs |-> IF i = 1 THEN txs ELSE {}]
        IN /\ Valid(kept, txs)
           /\ chain' = kept \o [i \in 1..(Len(chain) + 1 - a) |-> Block1(i)]
  BY DEF Fork
<1> DEFINE kept == SubSeq(chain, 1, a)
           n == Len(chain) + 1 - a
           more == [i \in 1..n |->
                      [branch |-> reorgs + 1, txs |-> IF i = 1 THEN txs ELSE {}]]
<1>4. chain' = kept \o more
  BY <1>3
<1>5. txs \cap Proposal \subseteq sent
  BY <1>3 DEF Valid
<1>6. n \in Nat /\ kept \in Seq(Block) /\ Len(kept) = a /\ a \in Nat
      /\ \A h \in 1..a : kept[h] = chain[h] /\ h \in DOMAIN chain
  BY <1>1
<1>7. \A i \in 1..n : more[i].txs \subseteq txs
  OBVIOUS
<1>8. more \in [1..n -> Block]
  <2>1. \A i \in 1..n : [branch |-> reorgs + 1, txs |-> IF i = 1 THEN txs ELSE {}] \in Block
    BY DEF InvReserved, Inv, Block
  <2> QED BY <2>1
<1> HIDE DEF kept, n, more
<1>9. Len(more) = n /\ more \in Seq(Block)
  BY <1>6, <1>8
<1>10. \A h \in DOMAIN chain' : \/ h \in 1..a /\ chain'[h] = kept[h]
                                \/ h - a \in 1..n /\ chain'[h] = more[h - a]
  <2>1. DOMAIN (kept \o more) = 1..(a + n)
    BY <1>6, <1>9
  <2>2. \A h \in 1..(a + n) : (kept \o more)[h] = IF h <= a THEN kept[h] ELSE more[h - a]
    BY <1>6, <1>9
  <2> QED BY <1>4, <1>6, <2>1, <2>2
<1>11. ASSUME NEW h \in DOMAIN chain' PROVE chain'[h].txs \cap Proposal \subseteq sent'
  BY <1>1, <1>2, <1>5, <1>6, <1>7, <1>10 DEF Orderly
<1>12. Settled'
  BY <1>1, <1>2 DEF Settled
<1> QED BY <1>1, <1>2, <1>11, <1>12 DEF Orderly

\* The mempool delivers a transaction.
LEMMA HandleMempoolReserved ==
  ASSUME InvReserved, NEW t \in Tx, HandleMempool(t)
  PROVE  Settled' /\ Orderly'
<1> DEFINE w == AddTransactions(Begin, Blank, {t}, TRUE)
<1>1. Inv /\ Settled /\ Orderly /\ inputs \in [Proposal -> SUBSET Outpoint] /\ sent \subseteq Proposal
  BY DEF InvReserved, Inv
<1>2. Begin \in Careful /\ Blank \in Position
  BY <1>1, BeginCareful DEF Position
<1>3. {t} \in SUBSET Tx /\ {t} \cap Proposal \subseteq sent /\ {t} \cap Generation = {}
  BY <1>1, ConstantsAssumption DEF HandleMempool
<1>4. w \in Careful
  BY <1>1, <1>2, <1>3, AddTransactionsCareful
<1>5. Finish(w, row) /\ UNCHANGED <<chain, sent, pending, builder>>
  BY DEF HandleMempool, payer
<1> HIDE DEF w
<1> QED BY <1>4, <1>5, FinishReserved DEF Steady

\* The subchain stores the matches of blocks.
LEMMA ProcessBlocksReserved ==
  ASSUME InvReserved, NEW n \in 1..Batch, ProcessBlocks(n)
  PROVE  Settled' /\ Orderly'
<1> DEFINE a == Len(scanned) + 1
           b == Len(scanned) + n
           w == AddBlocks(Begin, a, b)
<1>1. Inv /\ Settled /\ Orderly /\ inputs \in [Proposal -> SUBSET Outpoint] /\ sent \subseteq Proposal
      /\ chain \in Seq(Block) /\ scanned \in Seq(Nat)
  BY DEF InvReserved, Inv
<1>2. Begin \in Careful
  BY <1>1, BeginCareful
<1>3. b <= Len(chain) /\ Finish(w, row) /\ UNCHANGED <<chain, sent, pending, builder>>
  BY DEF ProcessBlocks, payer, world
<1>4. a \in Nat /\ b \in Nat /\ 1 <= a /\ a <= b
  BY <1>1, ConstantsAssumption
<1>5. \A h \in DOMAIN chain : chain[h].txs \cap Proposal \subseteq sent
  BY <1>1 DEF Orderly
<1>6. w \in Careful
  <2> HIDE DEF a, b
  <2> QED BY <1>1, <1>2, <1>3, <1>4, <1>5, AddBlocksCareful
<1> HIDE DEF w
<1> QED BY <1>3, <1>6, FinishReserved DEF Steady

\* Accounts advances the wallet.
LEMMA ProcessHeaderReserved ==
  ASSUME InvReserved, NEW h \in DOMAIN chain, ProcessHeader(h)
  PROVE  Settled' /\ Orderly'
<1> DEFINE w == AdvanceTo(Begin, Upto(h))
<1>1. Inv /\ Settled /\ chain \in Seq(Block)
  BY DEF InvReserved, Inv
<1>2. h \in 0..Len(chain)
  BY <1>1
<1>3. Upto(h) \in Seq(Nat)
  BY <1>1, <1>2, TipType
<1>4. w \in Kept(Begin)
  BY <1>1, <1>3, BeginCareful, AdvanceToKept
<1>5. Finish(w, row) /\ UNCHANGED <<chain, sent, pending, builder>>
  BY DEF ProcessHeader, payer
<1> HIDE DEF w
<1>6. w \in Careful
  BY <1>4 DEF Kept
<1> QED BY <1>5, <1>6, FinishReserved DEF Steady

\* What a rollback did to the cache fits the tables as they were.
LEMMA AbortedCareful ==
  ASSUME Inv, Settled, NEW w \in Kept(Begin), w \in SameOutputs
  PROVE  [w EXCEPT !.d = disk, !.row = row] \in Careful
<1> DEFINE v == [w EXCEPT !.d = disk, !.row = row]
<1>1. v \in Sound
  BY AbortedSound DEF Inv
<1>2. w \in Careful /\ w \in Work /\ w.m.made = mem.made /\ w.m.used = mem.used
      /\ w.m.assoc = mem.assoc
  BY DEF Kept, Begin, Careful, Sound
<1>3. v.m = w.m /\ v.d = disk /\ v.row = row
  BY <1>2 DEF Work
<1> HIDE DEF v
<1>4. ASSUME NEW o \in Outpoint PROVE Fits(o, v.m, v.d, disk, sent, builder.todo)
  <2>1. Fits(o, w.m, w.d, disk, sent, builder.todo) /\ Fits(o, mem, disk, disk, sent, builder.todo)
    BY <1>2 DEF Careful, Settled
  <2>2. Theirs(o, w.m, disk, disk, builder.todo) => Theirs(o, w.m, w.d, disk, builder.todo)
    BY DEF Theirs
  <2>3. \A p \in Proposal : o \in w.m.made[p] \cup disk.made[p] =>
          /\ o \in Pays[p] /\ ~Theirs(o, w.m, disk, disk, builder.todo)
          /\ disk.state[o] # "ConfirmedNew"
          /\ (p \in sent => disk.state[o] # "absent")
    BY <2>1, <2>2 DEF Fits
  <2>4. \A p \in Proposal : /\ o \in disk.made[p] => o \in w.m.made[p]
                            /\ o \in disk.used[p] => o \in w.m.used[p]
    BY <1>2, <2>1 DEF Fits
  <2>5. (Theirs(o, w.m, disk, disk, builder.todo) \/ IsAvailable(o, w.m, disk, disk))
          => o \in Received(sent)
    BY <2>1, <2>2 DEF Fits, IsAvailable
  <2> QED BY <1>3, <2>1, <2>3, <2>4, <2>5 DEF Fits
<1>5. ASSUME NEW o \in Outpoint PROVE Agrees(o, v.m, v.d)
  <2>1. Agrees(o, mem, disk)
    BY DEF Settled
  <2> QED BY <1>2, <1>3, <2>1 DEF Agrees
<1>6. v \in Careful
  BY <1>1, <1>3, <1>4, <1>5 DEF Careful
<1> QED BY <1>6 DEF v

\* A reorg: rollback, abort, and the advance to the new tip.
LEMMA HandleReorgReserved ==
  ASSUME InvReserved, NEW skip, HandleReorg(skip)
  PROVE  Settled' /\ Orderly'
<1> DEFINE ancestor == Head(news).ancestor
           tip == Head(news).tip
           back == RollBack(Begin, Orphaned(saved))
           final == Then(back, LAMBDA v : FinalizeReorg(v, ancestor, skip))
           aborted == [final EXCEPT !.d = disk, !.row = row]
           w == Then(aborted, LAMBDA v : AdvanceTo(v, tip))
<1>1. Inv /\ Settled /\ chain \in Seq(Block) /\ Begin \in Sound /\ saved \in Seq(Nat)
      /\ news \in Seq([ancestor : Seq(Nat), tip : Seq(Nat)]) /\ news # <<>>
  BY DEF InvReserved, Inv, HandleReorg
<1>2. ancestor \in Seq(Nat) /\ tip \in Seq(Nat)
  <2> DEFINE N == [ancestor : Seq(Nat), tip : Seq(Nat)]
  <2>1. news \in Seq(N) /\ news # <<>>
    BY <1>1
  <2> HIDE DEF N
  <2>2. Head(news) \in N
    BY <2>1
  <2> QED BY <2>2 DEF N
<1>3. Begin \in SameOutputs /\ Begin \in Careful
  BY <1>1, BeginCareful DEF SameOutputs, Begin
<1>4. back \in SameOutputs /\ back \in Kept(Begin)
  <2>1. Orphaned(saved) \in SUBSET Position /\ IsFiniteSet(Orphaned(saved))
    BY <1>1, OrphanedType
  <2> QED BY <1>3, <2>1, RollBackSame, RollBackKept
<1>5. final \in SameOutputs /\ final \in Kept(Begin)
  <2> HIDE DEF back, ancestor
  <2>1. back \in Careful
    BY <1>4 DEF Kept
  <2>2. FinalizeReorg(back, ancestor, skip) \in SameOutputs
    BY <1>2, <1>4, FinalizeReorgSame
  <2>3. FinalizeReorg(back, ancestor, skip) \in Kept(back)
    BY <1>2, <2>1, FinalizeReorgKept
  <2>4. FinalizeReorg(back, ancestor, skip) \in Kept(Begin)
    BY <1>3, <1>4, <2>3, KeptTransitive
  <2> QED BY <1>4, <2>2, <2>4 DEF Then
<1>6. aborted \in Careful
  <2> HIDE DEF final
  <2> QED BY <1>1, <1>5, AbortedCareful
<1>7. w \in Careful
  <2> HIDE DEF aborted, tip
  <2>1. aborted.ok => AdvanceTo(aborted, tip) \in Kept(aborted)
    BY <1>2, <1>6, AdvanceToKept
  <2>2. aborted.ok => AdvanceTo(aborted, tip) \in Careful
    BY <2>1 DEF Kept
  <2> QED BY <1>6, <2>2 DEF Then
<1>8. Finish(w, row)
  BY Zenon DEF HandleReorg, RollBack
<1>9. UNCHANGED <<chain, sent, pending, builder>>
  BY DEF HandleReorg, payer
<1> HIDE DEF w
<1> QED BY <1>7, <1>8, <1>9, FinishReserved DEF Steady


\* More proposals count as sent, and a sweep lists less.
LEMMA FitsWhenSent ==
  ASSUME NEW o, NEW m, NEW d, NEW t, NEW S, NEW T, NEW todo, NEW less,
         Fits(o, m, d, t, S, todo), S \subseteq T, less \subseteq todo,
         \A p \in Proposal \cap (T \ S) : o \in m.made[p] \cup t.made[p] => t.state[o] # "absent"
  PROVE  Fits(o, m, d, t, T, less)
<1>1. Theirs(o, m, d, t, less) => Theirs(o, m, d, t, todo)
  BY DEF Theirs
<1>2. Received(S) \subseteq Received(T)
  BY DEF Received, Created
<1> QED BY <1>1, <1>2 DEF Fits

\* The wallet is loaded from its tables; what was built is sent again.
LEMMA RestartReserved ==
  ASSUME InvReserved, Restart
  PROVE  Settled' /\ Orderly'
<1>1. Inv /\ Settled /\ Orderly /\ sent \subseteq Proposal /\ disk.twice = {}
  BY DEF InvReserved, Inv, Begin, Sound
<1>2. /\ mem' = disk /\ UNCHANGED <<chain, disk, row>>
      /\ builder'.todo = {} /\ builder'.step = "idle"
      /\ pending' = {p \in Proposal : row[p] = "open"}
      /\ sent' = sent \cup {p \in Proposal : row[p] = "built"}
  BY DEF Restart, Idle
<1>3. ASSUME NEW o \in Outpoint
      PROVE  Fits(o, disk, disk, disk, sent', {}) /\ Agrees(o, disk, disk)
  <2>1. Fits(o, mem, disk, disk, sent, builder.todo) /\ Agrees(o, mem, disk)
    BY <1>1 DEF Settled
  <2>2. Agrees(o, disk, disk)
    BY <2>1 DEF Agrees
  <2>3. Theirs(o, disk, disk, disk, {}) => Theirs(o, mem, disk, disk, builder.todo)
    BY <1>1 DEF Theirs
  <2>4. IsAvailable(o, disk, disk, disk) => IsAvailable(o, mem, disk, disk)
    BY DEF IsAvailable
  <2>5. \A p \in Proposal : o \in disk.made[p] => p \in ToSet(disk.assoc[o]) /\ disk.state[o] # "absent"
    BY <2>1 DEF Agrees
  <2>6. Fits(o, disk, disk, disk, sent, {})
    BY <2>1, <2>3, <2>4, <2>5 DEF Fits
  <2>7. Fits(o, disk, disk, disk, sent', {})
    BY <1>2, <2>5, <2>6, FitsWhenSent
  <2> QED BY <2>2, <2>7
<1>4. Settled'
  BY <1>2, <1>3 DEF Settled
<1>5. Orderly'
  BY <1>1, <1>2 DEF Orderly
<1> QED BY <1>4, <1>5

\* A proposal that is new is not one that was sent.
LEMMA SendToReserved ==
  ASSUME InvReserved, NEW p \in Proposal, SendTo(p)
  PROVE  Settled' /\ Orderly'
<1>1. Inv /\ Settled /\ Orderly /\ row \in Rows /\ sent \subseteq Proposal
  BY RowsType DEF InvReserved, Inv
<1>2. /\ p \notin sent /\ p \notin pending
      /\ pending' = pending \cup {p} /\ row' = [row EXCEPT ![p] = "open"]
      /\ UNCHANGED <<mem, disk, sent, builder, chain>>
  BY DEF SendTo, world
<1>3. \A q \in Proposal : q # p => row'[q] = row[q]
  BY <1>1, <1>2 DEF Rows
<1>4. Settled'
  BY <1>1, <1>2 DEF Settled
<1>5. builder.step \in {"build", "built"} => builder.proposal # p /\ builder.proposal \in Proposal
  BY <1>1, <1>2 DEF Orderly, Inv
<1>6. Orderly'
  BY <1>1, <1>2, <1>3, <1>5 DEF Orderly
<1> QED BY <1>4, <1>6

\* What is available was received, and no proposal has made it.
LEMMA AvailableReceived ==
  ASSUME Settled, NEW o \in Outpoint, mem.state[o] = "ConfirmedNew"
  PROVE  o \in Received(sent) /\ \A q \in Proposal : o \notin mem.made[q] \cup disk.made[q]
<1>1. Fits(o, mem, disk, disk, sent, builder.todo)
  BY DEF Settled
<1>2. IsAvailable(o, mem, disk, disk)
  BY DEF IsAvailable
<1> QED BY <1>1, <1>2 DEF Fits

\* A sweep lists what is available.
LEMMA StartBuildReserved ==
  ASSUME InvReserved, ~SpendUnconfirmed, NEW p \in Proposal, StartBuild(p)
  PROVE  Settled' /\ Orderly'
<1>1. Inv /\ Settled /\ Orderly
  BY DEF InvReserved
<1>2. /\ builder = Idle /\ p \in pending
      /\ builder' = [proposal |-> p, in |-> mem.used[p], step |-> "build",
                     todo |-> IF p \in Sweep THEN Available(mem) ELSE {}]
      /\ UNCHANGED <<mem, disk, row, sent, pending, chain>>
  BY DEF StartBuild, world
<1>3. builder.todo = {} /\ builder'.proposal = p /\ builder'.step = "build"
      /\ \A o \in builder'.todo : mem.state[o] = "ConfirmedNew"
  BY <1>2 DEF Idle, Available
<1>4. ASSUME NEW o \in Outpoint
      PROVE  Fits(o, mem, disk, disk, sent, builder'.todo) /\ Agrees(o, mem, disk)
  <2>1. Fits(o, mem, disk, disk, sent, builder.todo) /\ Agrees(o, mem, disk)
    BY <1>1 DEF Settled
  <2>2. Theirs(o, mem, disk, disk, builder'.todo)
          => Theirs(o, mem, disk, disk, builder.todo) \/ o \in builder'.todo
    BY DEF Theirs
  <2>3. o \in builder'.todo =>
          o \in Received(sent) /\ \A q \in Proposal : o \notin mem.made[q] \cup disk.made[q]
    BY <1>1, <1>3, AvailableReceived
  <2>4. \A q \in Proposal : o \in mem.made[q] \cup disk.made[q] => ~Theirs(o, mem, disk, disk, builder'.todo)
    BY <2>1, <2>2, <2>3 DEF Fits
  <2>5. (Theirs(o, mem, disk, disk, builder'.todo) \/ IsAvailable(o, mem, disk, disk)) => o \in Received(sent)
    BY <2>1, <2>2, <2>3 DEF Fits
  <2> QED BY <2>1, <2>4, <2>5 DEF Fits
<1>5. Settled'
  BY <1>2, <1>4 DEF Settled
<1>6. Orderly'
  BY <1>1, <1>2, <1>3 DEF Orderly
<1> QED BY <1>5, <1>6

\* ReserveUTXO for an output that was received.
LEMMA ReserveReserved ==
  ASSUME InvReserved, builder.step = "build", NEW o \in Outpoint, Reserve(o),
         o \in Received(sent), \A q \in Proposal : o \notin mem.made[q] \cup disk.made[q],
         UNCHANGED <<chain, sent, pending>>
  PROVE  Settled' /\ Orderly'
<1> DEFINE w == ConsumeOutput(Begin, o, builder.proposal)
<1>1. Inv /\ Settled /\ builder \in Builder /\ builder.proposal \in Proposal
  BY DEF InvReserved, Inv
<1>2. Begin \in Careful /\ Begin.ok /\ Begin.m = mem
  BY <1>1, BeginCareful DEF Begin
<1>3. w \in Careful
  BY <1>1, <1>2, ConsumeOutputCareful
<1>4. Finish(w, row)
      /\ builder' = [builder EXCEPT !.in = IF w.ok THEN @ \cup {o} ELSE @, !.todo = @ \ {o}]
  BY DEF Reserve
<1> HIDE DEF w
<1>5. builder'.todo \subseteq builder.todo /\ builder'.step = builder.step
      /\ builder'.proposal = builder.proposal
  BY <1>1, <1>4 DEF Builder
<1>6. Steady
  BY <1>5 DEF Steady
<1> QED BY <1>3, <1>4, <1>6, FinishReserved

\* ReserveUTXO for the policy: only what is available.
LEMMA ReserveAnyReserved ==
  ASSUME InvReserved, ~SpendUnconfirmed, ReserveAny
  PROVE  Settled' /\ Orderly'
<1>1. Inv /\ Settled /\ builder \in Builder
  BY DEF InvReserved, Inv
<1>2. builder.step = "build" /\ UNCHANGED <<chain, sent, pending>>
  BY DEF ReserveAny, world
<1>3. \/ \E o \in Outpoint : mem.state[o] = "ConfirmedNew" /\ Reserve(o)
      \/ Finish(Throw(Begin), row) /\ builder' = [builder EXCEPT !.step = "failed"]
  BY DEF ReserveAny
<1>4. ASSUME NEW o \in Outpoint, mem.state[o] = "ConfirmedNew", Reserve(o)
      PROVE  Settled' /\ Orderly'
  <2>1. o \in Received(sent) /\ \A q \in Proposal : o \notin mem.made[q] \cup disk.made[q]
    BY <1>1, <1>4, AvailableReceived
  <2> QED BY <1>2, <1>4, <2>1, ReserveReserved
<1>5. ASSUME Finish(Throw(Begin), row), builder' = [builder EXCEPT !.step = "failed"]
      PROVE  Settled' /\ Orderly'
  <2>1. Throw(Begin) \in Careful
    BY <1>1, BeginCareful, LoosenedReflexive DEF Loosened
  <2>2. Steady
    BY <1>1, <1>2, <1>5 DEF Steady, Builder
  <2> QED BY <1>5, <2>1, <2>2, FinishReserved
<1> QED BY <1>3, <1>4, <1>5

\* ReserveUTXO for an output of the sweep: it was available when it was listed,
\* and no proposal has made it since.
LEMMA ReserveListedReserved ==
  ASSUME InvReserved, ReserveListed
  PROVE  Settled' /\ Orderly'
<1>1. Inv /\ Settled /\ builder \in Builder
  BY DEF InvReserved, Inv
<1>2. builder.step = "build" /\ UNCHANGED <<chain, sent, pending>>
  BY DEF ReserveListed, world
<1>3. PICK o \in builder.todo : Reserve(o)
  BY DEF ReserveListed
<1>4. o \in Outpoint
  BY <1>1, <1>3 DEF Builder
<1>5. Fits(o, mem, disk, disk, sent, builder.todo)
  BY <1>1, <1>4 DEF Settled
<1>6. Theirs(o, mem, disk, disk, builder.todo)
  BY <1>3 DEF Theirs
<1>7. o \in Received(sent) /\ \A q \in Proposal : o \notin mem.made[q] \cup disk.made[q]
  BY <1>5, <1>6 DEF Fits
<1> QED BY <1>2, <1>3, <1>4, <1>7, ReserveReserved

\* FinalizeProposal: the outputs of a proposal are on record before it is sent.
LEMMA FinalizeProposalReserved ==
  ASSUME InvReserved, FinalizeProposal
  PROVE  Settled' /\ Orderly'
<1> DEFINE p == builder.proposal
           stored == [row EXCEPT ![p] = "built"]
           start == [Begin EXCEPT !.row = stored]
           w == Finalized(start, p, builder.in)
<1>1. builder.step = "build" /\ Finish(w, stored) /\ UNCHANGED <<sent, pending, chain>>
  BY DEF FinalizeProposal, world
<1>2. /\ Inv /\ Settled /\ Orderly /\ row \in Rows
      /\ builder \in Builder /\ p \in Proposal /\ builder.in \in SUBSET Outpoint
      /\ sent \subseteq Proposal
  BY <1>1, RowsType DEF InvReserved, Inv, Builder
<1>3. p \in pending /\ p \notin sent
  BY <1>1, <1>2 DEF Orderly
<1>4. builder' = [builder EXCEPT !.step = IF w.ok THEN "built" ELSE "failed"]
  BY DEF FinalizeProposal
<1>5. stored \in Rows /\ stored[p] = "built"
      /\ \A q \in Proposal : stored[q] = "open" => row[q] = "open"
  BY <1>2 DEF Rows
<1> HIDE DEF stored
<1>6. Begin \in Careful /\ Begin.ok
  BY <1>2, BeginCareful
<1>7. start \in Work /\ start.m = Begin.m /\ start.d = Begin.d /\ start.row = stored
      /\ start.ok = Begin.ok
  BY <1>5, <1>6 DEF Careful, Sound, Work
<1> HIDE DEF start
<1>8. start \in Careful /\ start.ok
  BY <1>5, <1>6, <1>7 DEF Careful, Sound
<1>9. /\ w \in Careful /\ w.row = stored
      /\ w.ok => \A o \in Pays[p] : w.m.state[o] # "absent"
  <2> HIDE DEF p
  <2> QED BY <1>2, <1>3, <1>7, <1>8, FinalizedCareful, Zenon
<1> HIDE DEF w
<1>10. builder'.todo \subseteq builder.todo /\ builder'.proposal = p
       /\ builder'.step = (IF w.ok THEN "built" ELSE "failed")
  BY <1>2, <1>4 DEF Builder
<1>11. /\ Settled'
       /\ \A q \in Proposal : row'[q] = "open" => row[q] = "open"
  BY <1>1, <1>2, <1>5, <1>9, <1>10, FinishCareful
<1>12. ASSUME w.ok PROVE row'[p] # "open" /\ \A o \in Pays[p] : disk'.state[o] # "absent"
  <2>1. row' = stored /\ disk' = w.d
    BY <1>1, <1>9, <1>12 DEF Finish
  <2>2. Pays[p] \subseteq Outpoint
    BY <1>2, ConstantsAssumption
  <2>3. \A o \in Outpoint : (w.m.state[o] = "absent") = (w.d.state[o] = "absent")
    BY <1>9 DEF Careful, Sound, OnRecord
  <2>4. \A o \in Pays[p] : w.d.state[o] # "absent"
    BY <1>9, <1>12, <2>2, <2>3
  <2> QED BY <1>5, <2>1, <2>4
<1>13. Orderly'
  <2> HIDE DEF p
  <2> QED BY <1>1, <1>2, <1>3, <1>10, <1>11, <1>12 DEF Orderly
<1> QED BY <1>11, <1>13

\* A sweep finds nothing.
LEMMA NothingToSweepReserved ==
  ASSUME InvReserved, NothingToSweep
  PROVE  Settled' /\ Orderly'
<1>1. Inv /\ Settled /\ Orderly /\ builder \in Builder
  BY DEF InvReserved, Inv
<1>2. builder' = [builder EXCEPT !.step = "failed"]
      /\ UNCHANGED <<mem, disk, row, sent, pending, chain>>
  BY DEF NothingToSweep, world
<1>3. builder'.todo = builder.todo /\ builder'.step = "failed"
  BY <1>1, <1>2 DEF Builder
<1>4. Steady
  BY <1>2, <1>3 DEF Steady
<1>5. Settled'
  BY <1>1, <1>2, <1>3 DEF Settled
<1> QED BY <1>1, <1>2, <1>4, <1>5, OrderlyKept

\* What a proposal pays to the wallet is on record when it is sent.
LEMMA BroadcastReserved ==
  ASSUME InvReserved, Broadcast
  PROVE  Settled' /\ Orderly'
<1>1. Inv /\ Settled /\ Orderly /\ builder \in Builder /\ sent \subseteq Proposal
  BY DEF InvReserved, Inv
<1>2. builder.step = "built" /\ builder.proposal \in Proposal
      /\ UNCHANGED <<mem, disk, row, chain>>
  BY <1>1 DEF Broadcast, world, Inv
<1>3. /\ builder.proposal \in pending /\ row[builder.proposal] # "open"
      /\ \A o \in Pays[builder.proposal] : disk.state[o] # "absent"
  BY <1>1, <1>2 DEF Orderly
<1>4. \/ /\ sent' = sent \cup {builder.proposal} /\ pending' = pending \ {builder.proposal}
         /\ builder' = Idle
      \/ builder' = [builder EXCEPT !.step = "failed"] /\ UNCHANGED <<sent, pending>>
  BY DEF Broadcast
<1>5. /\ builder'.todo \subseteq builder.todo /\ builder'.step \in {"idle", "failed"}
      /\ sent \subseteq sent' /\ sent' \subseteq sent \cup {builder.proposal}
      /\ pending' \cap sent' \subseteq pending \cap sent
  BY <1>1, <1>4 DEF Idle, Builder
<1>6. ASSUME NEW o \in Outpoint
      PROVE  Fits(o, mem, disk, disk, sent', builder'.todo) /\ Agrees(o, mem, disk)
  <2>1. Fits(o, mem, disk, disk, sent, builder.todo) /\ Agrees(o, mem, disk)
    BY <1>1 DEF Settled
  <2>2. \A q \in Proposal : o \in mem.made[q] \cup disk.made[q] => o \in Pays[q]
    BY <2>1 DEF Fits
  <2>3. \A q \in Proposal \cap (sent' \ sent) :
          o \in mem.made[q] \cup disk.made[q] => disk.state[o] # "absent"
    BY <1>3, <1>5, <2>2
  <2> QED BY <1>5, <2>1, <2>3, FitsWhenSent
<1>7. Settled'
  BY <1>2, <1>6 DEF Settled
<1>8. Orderly'
  BY <1>1, <1>2, <1>3, <1>5 DEF Orderly
<1> QED BY <1>7, <1>8

\* A proposal is given up.
LEMMA CancelProposalReserved ==
  ASSUME InvReserved, NEW p \in Proposal, CancelProposal(p)
  PROVE  Settled' /\ Orderly'
<1> DEFINE w == Then(FinishProposal(Begin, p), LAMBDA v : CloseRow(v, p))
<1>1. Inv /\ Settled
  BY DEF InvReserved
<1>2. Begin \in Careful
  BY <1>1, BeginCareful
<1>3. FinishProposal(Begin, p) \in Careful
  BY <1>2, FinishProposalCareful DEF Loosened
<1>4. w \in Careful
  BY <1>3, CloseRowCareful DEF Then
<1>5. Finish(w, row)
  BY DEF CancelProposal
<1>6. Steady
  BY DEF CancelProposal, Steady, Idle, world
<1> HIDE DEF w
<1> QED BY <1>4, <1>5, <1>6, FinishReserved

LEMMA NextReserved ==
  ASSUME InvReserved, ~SpendUnconfirmed, [Next]_vars
  PROVE  InvReserved'
<1>1. Inv'
  BY NextInv DEF InvReserved
<1>2. CASE UNCHANGED vars
  BY <1>1, <1>2 DEF InvReserved, Settled, Orderly, vars
<1>3. CASE Next
  <2>1. Settled' /\ Orderly'
    BY <1>3, MineReserved, ForkReserved, RestartReserved, HandleMempoolReserved,
       ProcessBlocksReserved, ProcessHeaderReserved, HandleReorgReserved, SendToReserved,
       StartBuildReserved, CancelProposalReserved, ReserveAnyReserved, ReserveListedReserved,
       FinalizeProposalReserved, NothingToSweepReserved, BroadcastReserved DEF Next
  <2> QED BY <1>1, <2>1 DEF InvReserved
<1> QED BY <1>2, <1>3

LEMMA ReservedInvariance ==
  ASSUME ~SpendUnconfirmed
  PROVE  Spec => []InvReserved
<1>1. Init => InvReserved
  BY InitReserved
<1>2. InvReserved /\ [Next]_vars => InvReserved'
  BY NextReserved
<1> QED BY <1>1, <1>2, PTL DEF Spec

\* What the runs check follows: an output has at most one proposal in the
\* tables, for they list at most one.
LEMMA InvReservedImplies ==
  ASSUME InvReserved
  PROVE  ReservationsCorrect
<1>1. Inv /\ Settled /\ disk \in Table
  BY RowsType DEF InvReserved
<1>2. ASSUME NEW o \in Outpoint
      PROVE  /\ Agrees(o, mem, disk) /\ disk.assoc[o] \in Seq(Proposal)
             /\ Len(disk.assoc[o]) <= 1 /\ ToSet(disk.assoc[o]) \subseteq Proposal
  <2>1. Begin \in Sound /\ Begin.d = disk
    BY <1>1 DEF Inv, Begin
  <2>2. disk.assoc[o] \in Seq(Proposal)
    BY <1>1 DEF Table
  <2>3. ToSet(disk.assoc[o]) \subseteq Proposal
    BY <2>2 DEF ToSet
  <2> QED BY <1>1, <2>1, <2>2, <2>3 DEF Settled, Sound, OnRecord
<1>3. ReservedOnce
  <2>1. ASSUME NEW p \in Proposal, NEW q \in Proposal, p # q,
               NEW o \in disk.used[p] \cap disk.used[q]
        PROVE  FALSE
    <3>1. o \in Outpoint
      BY <1>1, <2>1 DEF Table
    <3>2. p \in ToSet(disk.assoc[o]) /\ q \in ToSet(disk.assoc[o])
      BY <1>2, <2>1, <3>1 DEF Agrees
    <3>3. ToSet(disk.assoc[o]) = {p}
      BY <1>2, <3>1, <3>2, AssociatedFacts
    <3> QED BY <2>1, <3>2, <3>3
  <2> QED BY <2>1 DEF ReservedOnce
<1>4. AssociationsAgree
  BY <1>2 DEF AssociationsAgree, Agrees
<1> QED BY <1>3, <1>4 DEF ReservationsCorrect

\* When proposals do not spend unconfirmed outputs, the wallet never reserves
\* an output for two proposals, and the tables list for every output exactly
\* the proposal that made or reserved it: whatever order blocks, headers,
\* reorgs, the mempool, restarts and failures come in.
THEOREM ReservationsAreCorrect ==
  ASSUME ~SpendUnconfirmed
  PROVE  Spec => []ReservationsCorrect
BY ReservedInvariance, InvReservedImplies, PTL
=============================================================================
