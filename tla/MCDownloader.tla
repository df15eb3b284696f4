----------------------------- MODULE MCDownloader -----------------------------
(***************************************************************************)
(* A small tree of blocks for Downloader.                                  *)
(***************************************************************************)
EXTENDS Downloader, TLC

CONSTANTS g, a1, a2, a3, b2, b3, c1

\*        /- b2 - b3
\*  g - a1 - a2 - a3
\*   \- c1
MCBlock == {g, a1, a2, a3, b2, b3, c1}
MCParent ==
  (a1 :> g) @@ (a2 :> a1) @@ (a3 :> a2) @@ (b2 :> a1) @@ (b3 :> b2)
    @@ (c1 :> g)
MCChain[b \in MCBlock] == IF b = g THEN {g} ELSE MCChain[MCParent[b]] \cup {b}
MCHeight ==
  (g :> 0) @@ (a1 :> 1) @@ (c1 :> 1) @@ (a2 :> 2) @@ (b2 :> 2) @@ (a3 :> 3)
    @@ (b3 :> 3)
=============================================================================
