SPECIFICATION Spec
CONSTANTS
  g = g
  a1 = a1
  a2 = a2
  a3 = a3
  b2 = b2
  b3 = b3
  c1 = c1
  c2 = c2
  Header <- MCFork
  Genesis = g
  Parent <- MCForkParent
  Proof <- MCForkProof
  Order <- MCForkOrder
  Checkpoints <- MCForkCheckpoints
  None = None
  MaxBatch = 2
  MaxWaiting = 1
  MaxCheckpoint = 2
INVARIANT CheckpointRespected
CHECK_DEADLOCK FALSE
