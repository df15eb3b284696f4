----------------------------- MODULE ChainSelection -----------------------------
(***************************************************************************)
(* What the header oracle promises when no checkpoint is set: whatever the *)
(* order in which headers arrive, the best chain is one with the most work *)
(* among those whose headers are all known, and it is replaced only by one *)
(* with more work.                                                         *)
(***************************************************************************)
EXTENDS Naturals, Functions

CONSTANTS Header, Genesis, Parent, Proof

VARIABLES seen, best

chainVars == <<seen, best>>

\* A header and its ancestors.
Line[h \in Header] == IF h = Genesis THEN {h} ELSE Line[Parent[h]] \cup {h}

Total(h) == SumFunctionOnSet(Proof, Line[h])

\* The headers of S that can be traced back to the genesis header.
Connected(S) == {h \in S : Line[h] \subseteq S}

Init ==
  /\ seen = {Genesis}
  /\ best = Genesis

Learn ==
  /\ seen \subseteq seen'
  /\ best' \in Connected(seen')
  /\ \A h \in Connected(seen') : Total(h) <= Total(best')
  /\ best' # best => Total(best') > Total(best)

Spec == Init /\ [][Learn]_chainVars

=============================================================================
