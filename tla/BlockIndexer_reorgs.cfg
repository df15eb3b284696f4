SPECIFICATION Spec
CONSTANTS
  g = g
  a1 = a1
  a2 = a2
  b2 = b2
  Block <- MCBlock
  Genesis = g
  Height <- MCHeight
  Chain <- MCChain
  Limit = 2
  MaxBlocks = 2
  MaxThreads = 1
  MaxCached = 2
  Batch = 2
  MaxReorg = 1
  MaxFault = 1
INVARIANTS TypeOK QueuesAgree StoredIsLinked AwaitedIsRequested AssertionsHold EndsOnlyAfterReorg
CHECK_DEADLOCK FALSE
