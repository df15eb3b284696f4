SPECIFICATION Spec
CONSTANTS
  o1 = o1
  o2 = o2
  c = c
  pay = pay
  pay2 = pay2
  take = take
  coin = coin
  p1 = p1
  p2 = p2
  Outpoint = {o1}
  Transaction = {pay, take}
  Proposal = {}
  Pays <- OurPays
  Spends <- OurSpends
  Generation = {}
  Sweep = {}
  SpendUnconfirmed = FALSE
  Maturity = 5
  Batch = 2
  Eager = FALSE
  MaxHeight = 5
  MaxReorg = 2
  MaxRestart = 0
INVARIANTS   PositionIndexComplete
CHECK_DEADLOCK FALSE
