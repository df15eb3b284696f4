---------------------------- MODULE MCWalletReorg ----------------------------
(***************************************************************************)
(* Instances of WalletReorg for the model checker.                         *)
(***************************************************************************)
EXTENDS WalletReorg, TLC

CONSTANTS a, b, c

\* An account, and two slaves that exist from the start or are created late.
MCParentNone == [s \in {} |-> a]
MCParentAccount == (c :> a)
MCParentRoot == (b :> Root)

=============================================================================
