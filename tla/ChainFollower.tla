----------------------------- MODULE ChainFollower -----------------------------
(***************************************************************************)
(* What everybody who follows the best chain promises about the position   *)
(* it has reached: it moves along one chain, forward to a descendant or    *)
(* back to an ancestor, so that whoever sees every move can undo and redo  *)
(* the work of exactly the blocks in between.  It never changes to another *)
(* branch in one step.                                                     *)
(***************************************************************************)
EXTENDS BlockTree

VARIABLE reached

Init == reached \in Block

Advance == \E b \in Block : reached \in Chain[b] /\ reached' = b

Rewind == \E b \in Chain[reached] : reached' = b

Next == Advance \/ Rewind

Spec == Init /\ [][Next]_reached
=============================================================================
