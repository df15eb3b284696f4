SPECIFICATION FairSpec
CONSTANTS
  key = key
  other = other
  next = next
  coin = coin
  Element = {key, next}
  Block <- MCBlock
  Filter <- MCBlock
  Reveals <- MCReveals
  Txo = {}
  Initial = {key}
  Threshold = 1
  MaxScan = 3
  Batch = 1
  PutOff = FALSE
  FirstTip = 2
  MaxTip = 3
  Events = {"filter","rescan","failure","restart","reorg"}
  MaxEvents = 1
INVARIANTS TypeOK DirtyIsReported
PROPERTIES  ReachesTip
CHECK_DEADLOCK FALSE
