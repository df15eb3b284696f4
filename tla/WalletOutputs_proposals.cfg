SPECIFICATION Spec
CONSTANTS
  o1 = o1
  o2 = o2
  c = c
  pay = pay
  pay2 = pay2
  take = take
  coin = coin
  p1 = p1
  p2 = p2
  Outpoint = {o1, o2, c}
  Transaction = {pay, pay2}
  Proposal = {p1, p2}
  Pays <- OurPays
  Spends <- OurSpends
  Generation = {}
  Sweep = {p1}
  SpendUnconfirmed = FALSE
  Maturity = 9
  Batch = 1
  Eager = FALSE
  MaxHeight = 3
  MaxReorg = 0
  MaxRestart = 1
INVARIANTS TypeOK   
 
CHECK_DEADLOCK FALSE
