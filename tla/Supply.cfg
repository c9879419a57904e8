CONSTANTS
  SupplyLoads = {"goods alone", "goods together", "papers alone", "accounts", "defects"}
  cashbox = cashbox
  shop = shop
  main = main
  spare = spare
  Sessions = {s1, s2}
  Accounts = {cashbox, pocket}
  outside = pocket
  Sums = {1}
  MaxRows = 4
  Notes = {1, 2}
  Suppliers = {main, spare}
  Remits = {1, 2}
  MaxRemits = 2
  Branches = {shop, far}
  Lines = {0, 1, 2}
  Cuts = {1}
  MaxEdits = 2
  MaxLots = 3
  Oversell = TRUE
  MaxDefects = 2
  MaxHandOvers = 1
SYMMETRY SupplySymmetric
SPECIFICATION SupplySpec
INVARIANTS LotsKeepTheirSales PaidAddsUp LedgerTrue AloneSupplyTrue LossBookedOnce DebtNotOverdrawn
CHECK_DEADLOCK FALSE
