CONSTANTS
  t1 = t1
  t2 = t2
  s1 = s1
  s2 = s2
  NoTake = NoTake
  Loads = {"faults"}
  Takes = {t1}
  Quantities = {0, 1}
  MaxStock = 1
  Handlers = {"start full", "count", "complete", "move"}
  Faults = {}
  Sessions = {s1, s2}
SPECIFICATION MCSpec
PROPERTIES CountLands
