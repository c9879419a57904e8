CONSTANTS
  o1 = o1
  o2 = o2
  o3 = o3
  s1 = s1
  s2 = s2
  s3 = s3
  c1 = c1
  c2 = c2
  NoClient = NoClient
  NoId = NoId
  Ids = {o1, o2, o3}
  Clients = {c1}
  Quantities = {1, 2}
  Handlers = {"checkout", "hold", "cancel", "remove", "return"}
  Sessions = {s1, s2}
  Loads = {"together", "alone", "by hand", "deliveries", "all at once"}
  MaxTogether = 2
  Notes = {1, 2, 3}
  Figures = {1, 2}
  Opening = 3
  Units = 1
  MaxTime = 3
SYMMETRY Symmetric
SPECIFICATION MCSpec
INVARIANTS OneSalePerClient ReceiptNumbersGapFree ReturnedWithinSold AloneSalesKept DropsWait PricesTold
