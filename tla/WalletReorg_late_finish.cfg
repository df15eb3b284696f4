SPECIFICATION Spec
CONSTANTS
  a = a
  b = b
  c = c
  Slave = {a, b, c}
  Root = Root
  MaxReorg = 2
  MaxShutdown = 2
  Late = {c}
  Parent <- MCParentAccount
INVARIANTS FinishFindsReorg
CHECK_DEADLOCK FALSE
