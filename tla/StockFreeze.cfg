CONSTANTS
  t1 = t1
  t2 = t2
  s1 = s1
  s2 = s2
  NoTake = NoTake
  Loads = {"faults", "alone"}
  Takes = {t1, t2}
  Quantities = {0, 1, 2}
  MaxStock = 2
  Handlers = {"start full", "start partial", "count", "complete", "cancel", "move", "restock"}
  Faults = {"restart", "cache", "table"}
  Sessions = {s1, s2}
SPECIFICATION MCLiveSpec
INVARIANTS AppliedOnce AloneCountsTrue
PROPERTIES EndedStays NotStuck AloneCountLands
