CONSTANTS
  s1 = s1
  s2 = s2
  tea = tea
  pie = pie
  Lines = {tea, pie}
  Dishes = {pie}
  Ordered <- TwoTeasOnePie
  Quantities = {0, 1, 2}
  Price <- Prices
  Fee = 2
  DeliveryType = "delivery"
  Handlers = {"accept", "dispatch", "ready", "complete", "cancel", "customerCancel", "trim", "return", "remove"}
  Sessions = {s1, s2}
  MaxShifts = 2
  Loads = {"together", "alone"}
SYMMETRY SessionSymmetry
SPECIFICATION MCSpec
INVARIANTS GoodsConserved CompletedPaysItsGoods RefundsCovered
PROPERTIES PromiseSpec
