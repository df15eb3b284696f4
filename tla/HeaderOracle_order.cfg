SPECIFICATION Spec
CONSTANTS
  g = g
  a1 = a1
  a2 = a2
  a3 = a3
  b2 = b2
  b3 = b3
  c1 = c1
  c2 = c2
  Header <- MCHeader
  Genesis = g
  Parent <- MCParent
  Proof <- MCProof
  Order <- MCOrder
  Checkpoints <- MCNoCheckpoints
  None = None
  MaxBatch = 2
  MaxWaiting = 2
  MaxCheckpoint = 0
INVARIANTS TypeOK  MetadataCorrect LeavesKept QueriesCorrect
PROPERTIES SignalsFollow ImplementsSelection
CHECK_DEADLOCK FALSE
