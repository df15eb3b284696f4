----------------------------- MODULE ReorgBarrier -----------------------------
(***************************************************************************)
(* What the wallet promises about a chain reorganisation, without saying   *)
(* how: data are rolled back only while nobody works on them, for all      *)
(* workers at once, and a worker that has stopped for a reorg works again  *)
(* only after that reorg was rolled back.                                  *)
(*                                                                         *)
(* joined[w] is the last reorg that worker w stopped for and rolled[w] the *)
(* last reorg its data were rolled back for.                               *)
(***************************************************************************)
EXTENDS Naturals

CONSTANT Worker

VARIABLES phase, joined, rolled

barrierVars == <<phase, joined, rolled>>

Members == {w \in Worker : phase[w] \in {"working", "frozen"}}

Init ==
  /\ phase \in [Worker -> {"outside", "working"}]
  /\ joined = [w \in Worker |-> 0]
  /\ rolled = [w \in Worker |-> 0]

\* A worker that was not there yet begins to work.
Join(w) ==
  /\ phase[w] = "outside"
  /\ phase' = [phase EXCEPT ![w] = "working"]
  /\ UNCHANGED <<joined, rolled>>

\* A worker stops for a reorg that it has not seen before.
Freeze(w) ==
  /\ phase[w] = "working"
  /\ phase' = [phase EXCEPT ![w] = "frozen"]
  /\ joined'[w] > joined[w]
  /\ joined' = [joined EXCEPT ![w] = joined'[w]]
  /\ UNCHANGED rolled

\* All members have stopped for one and the same reorg: it is rolled back.
Rollback ==
  /\ \A v, w \in Members : phase[w] = "frozen" /\ joined[v] = joined[w]
  /\ rolled' = [w \in Worker |-> IF w \in Members THEN joined[w]
                                                  ELSE rolled[w]]
  /\ UNCHANGED <<phase, joined>>

\* A worker resumes.
Thaw(w) ==
  /\ phase[w] = "frozen"
  /\ rolled[w] = joined[w]
  /\ phase' = [phase EXCEPT ![w] = "working"]
  /\ UNCHANGED <<joined, rolled>>

\* A worker leaves for good.
Leave(w) ==
  /\ phase[w] # "gone"
  /\ phase' = [phase EXCEPT ![w] = "gone"]
  /\ UNCHANGED <<joined, rolled>>

Next ==
  \/ Rollback
  \/ \E w \in Worker : Join(w) \/ Freeze(w) \/ Thaw(w) \/ Leave(w)

Spec == Init /\ [][Next]_barrierVars

=============================================================================
