------------------------------- MODULE BlockTree -------------------------------
(***************************************************************************)
(* A tree of block headers, as the components that follow the best chain   *)
(* see it: a block has a height, and a chain of ancestors back to the      *)
(* genesis block.  A position is a block, since the hash of a block        *)
(* determines its height.                                                  *)
(***************************************************************************)
EXTENDS Naturals

CONSTANTS
  Block,    \* every block, on all chains
  Genesis,
  Height,   \* the height of a block
  Chain     \* the ancestors of a block, itself included

\* What it takes for Chain to be a tree: one ancestor at each height, and the
\* chain of an ancestor is what the chain has up to its height.
ASSUME TreeAssumption ==
  /\ Genesis \in Block
  /\ Height \in [Block -> Nat]
  /\ Chain \in [Block -> SUBSET Block]
  /\ \A b \in Block :
       /\ {Genesis, b} \subseteq Chain[b]
       /\ \A h \in 0 .. Height[b] : \E a \in Chain[b] : Height[a] = h
       /\ \A a \in Chain[b] :
            Chain[a] = {c \in Chain[b] : Height[c] <= Height[a]}
       /\ \A a, c \in Chain[b] : Height[a] = Height[c] => a = c
       /\ \A a \in Chain[b] : Height[a] <= Height[b]

\* The highest block of a set that is not empty.
Highest(S) == CHOOSE b \in S : \A c \in S : Height[c] <= Height[b]

\* The first of the positions that HeaderOracle::Ancestors returns.
CommonAncestor(a, b) == Highest(Chain[a] \cap Chain[b])

\* The blocks of the chain of b that come after a.
After(a, b) == {c \in Chain[b] : Height[c] > Height[a]}
=============================================================================
