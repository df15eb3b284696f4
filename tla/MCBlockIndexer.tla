---------------------------- MODULE MCBlockIndexer ----------------------------
(***************************************************************************)
(* A small tree of blocks for BlockIndexer.                                *)
(***************************************************************************)
EXTENDS BlockIndexer, TLC

CONSTANTS g, a1, a2, b2

\*        /- b2
\*  g - a1 - a2
MCBlock == {g, a1, a2, b2}
MCParent == (a1 :> g) @@ (a2 :> a1) @@ (b2 :> a1)
MCChain[b \in MCBlock] == IF b = g THEN {g} ELSE MCChain[MCParent[b]] \cup {b}
MCHeight == (g :> 0) @@ (a1 :> 1) @@ (a2 :> 2) @@ (b2 :> 2)
=============================================================================
