------------------------- MODULE MCSubchainPipeline -------------------------
(***************************************************************************)
(* A small chain for SubchainPipeline: storing what block 1 pays to key    *)
(* reveals another key, and an output, used in the blocks that follow.     *)
(***************************************************************************)
EXTENDS SubchainPipeline, TLC

CONSTANTS key, other, next, coin

MCReveals == [e \in Element |-> IF e = key THEN {next, coin} \cap Element ELSE {}]
MCBlock ==
  [h \in 0..MaxTip |-> Element \cap
     CASE h = 1 -> {key} [] h = 2 -> {other, next} [] h = 3 -> {coin} [] OTHER -> {}]

\* The other key is used further above.
MCLongBlock ==
  [h \in 0..MaxTip |-> CASE h = 1 -> {key} [] h = 4 -> {next} [] OTHER -> {}]
=============================================================================
