---------------------------- MODULE MCHeaderOracle ----------------------------
(***************************************************************************)
(* Small trees of headers for HeaderOracle.                                *)
(***************************************************************************)
EXTENDS HeaderOracle

CONSTANTS g, a1, a2, a3, b2, b3, c1, c2

\*        /- b2 - b3
\*  g - a1 - a2 - a3
\*   \- c1 - c2
MCHeader == {g, a1, a2, a3, b2, b3, c1, c2}
MCParent ==
  (a1 :> g) @@ (a2 :> a1) @@ (a3 :> a2) @@ (b2 :> a1) @@ (b3 :> b2)
    @@ (c1 :> g) @@ (c2 :> c1)
MCOrder == <<g, b2, a1, c2, a2, b3, c1, a3>>
\* c2 is heavy: the chain of c2 is shorter than that of a3 and has more work.
\* The chain of b3 has still more.
MCProof == [h \in MCHeader |-> IF h \in {b3, c2} THEN 3 ELSE 1]
MCCheckpoints == {[height |-> 2, hash |-> a2]}
MCNoCheckpoints == {}

\* g - a1 - a2 - a3
\*        \- b2 - b3
MCFork == {g, a1, a2, a3, b2, b3}
MCForkParent == [h \in MCFork \ {g} |-> MCParent[h]]
MCForkOrder == <<g, b2, a1, a2, b3, a3>>
MCForkProof == [h \in MCFork |-> 1]
MCForkCheckpoints == [height : {2}, hash : {a2, b2}]
=============================================================================
