SPECIFICATION Spec
CONSTANTS
  g = g
  a1 = a1
  a2 = a2
  a3 = a3
  b2 = b2
  b3 = b3
  c1 = c1
  Block <- MCBlock
  Genesis = g
  Height <- MCHeight
  Chain <- MCChain
  Limit = 2
INVARIANTS TypeOK QueueIsChain AwaitedIsIndexed AssertionsHold
PROPERTY TipFollowsChain
