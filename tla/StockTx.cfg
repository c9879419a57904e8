CONSTANTS
  t1 = t1
  t2 = t2
  t3 = t3
  home = home
  far = far
  Tx = {t1, t2, t3}
  Branches = {home, far}
  Qty = {1, 2}
  Kinds = {"sale", "transfer", "writeOff", "receive", "restock"}
  OpeningLots <- TwoLots
  OpeningStock <- TwoLotsStock
  OpeningQuantity = 3
  s1 = s1
  s2 = s2
  Sessions = {s1, s2}
  Notes = {1, 2, 3}
  Figures = {1, 2}
  Opening = 3
  Units = 1
  MaxTime = 3
  Loads = {"documents"}
SYMMETRY Symmetric
SPECIFICATION MCSpec
INVARIANTS NeverDrift LotsNeverOverdrawn LotsMatchStock NoDeadlock
PROPERTIES GuardedNeverOverdraws BalanceSpec
CHECK_DEADLOCK FALSE
