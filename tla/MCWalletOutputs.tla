--------------------------- MODULE MCWalletOutputs ---------------------------
(***************************************************************************)
(* Small worlds for WalletOutputs.  pay gives the wallet o1, take spends   *)
(* it, coin is a coinbase; p1 and p2 are proposals, p1 makes change.       *)
(***************************************************************************)
EXTENDS WalletOutputs, TLC

CONSTANTS o1, o2, c, pay, pay2, take, coin, p1, p2

MCPays == (pay :> {o1}) @@ (pay2 :> {o2}) @@ (coin :> {o1}) @@ (take :> {}) @@ (p1 :> {c}) @@ (p2 :> {})
MCSpends == (pay :> {}) @@ (pay2 :> {}) @@ (coin :> {}) @@ (take :> {o1})
Only(f, S) == [x \in DOMAIN f \cap S |-> f[x]]
OurPays == Only(MCPays, Tx)
OurSpends == Only(MCSpends, Transaction)
=============================================================================
