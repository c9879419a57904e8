CONSTANTS
  tea = tea
  pie = pie
  ann = ann
  NoShop = NoShop
  MaxJobs = 2
  Shops = {"north"}
  Items = {tea, pie, ann}
  Windows <- TwoAndOne
  Catalog = {1}
  TotalKnown = TRUE
  LastShort = FALSE
  BatchSize = 2
  Faults = {"restart", "database"}
  Sessions = {"s1", "s2"}
  MaxEvents = 3
SPECIFICATION LiveSpec
INVARIANTS StagedOnce NothingSkipped CompletedLoaded
PROPERTIES JobSettles
CHECK_DEADLOCK FALSE
