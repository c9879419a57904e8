CONSTANTS
  t1 = t1
  t2 = t2
  t3 = t3
  home = home
  far = far
  Tx = {t1, t2}
  Branches = {home, far}
  Qty = {1, 2}
  Kinds = {"sale", "transfer", "receive"}
  OpeningLots <- LastUnit
  OpeningStock <- LastUnitStock
  OpeningQuantity = 1
  s1 = s1
  s2 = s2
  Sessions = {s1, s2}
  Notes = {1, 2, 3}
  Figures = {1, 2}
  Opening = 3
  Units = 1
  MaxTime = 3
  Loads = {"documents", "prices"}
SPECIFICATION MCFairSpec
CHECK_DEADLOCK FALSE
PROPERTIES DocumentsEnd DueTakesEffect
