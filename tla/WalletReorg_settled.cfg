SPECIFICATION FairSpec
CONSTANTS
  a = a
  b = b
  c = c
  Slave = {a, b, c}
  Late = {}
  Root = Root
  Parent <- MCParentNone
  MaxReorg = 2
  MaxShutdown = 2
INVARIANTS TypeOK NoAbort RolledBackTogether
  
CHECK_DEADLOCK FALSE
