CONSTANTS
  Loads = {"credit alone", "credit points", "credit together", "shift alone", "page", "wages alone", "wages together"}
  s1 = s1
  s2 = s2
  till = till
  bank = bank
  pocket = pocket
  e1 = e1
  e2 = e2
  h1 = h1
  h2 = h2
  Sessions = {s1, s2}
  Unit = 2
  Sales = {1, 2}
  Baskets <- Basket
  Discounts = {0, 20}
  Tenders <- Tender
  Redeems = {0, 5}
  Program <- Points
  OpeningPoints = 4
  Installments = {2}
  MaxPayments = 2
  MaxUnits = 2
  MaxMoney = 50
  Accounts = {till, bank, pocket}
  outside = pocket
  Sums = {1}
  MaxRows = 4
  Shifts = {h1, h2}
  Registers = {till}
  Floats = {0}
  Amounts = {1}
  MaxEvents = 2
  Staff = {e1, e2}
  Wage <- MonthlyPay
  Fines = {1}
  MaxMonth = 2
  MaxEntries = 3
SYMMETRY Symmetric
SPECIFICATION MCSpec
INVARIANTS ReversedOnce RefundsWithinPaid NetsBack AloneCustomersTrue AloneDrawerTrue PayrollMatchesLedger AloneWagesTrue
CHECK_DEADLOCK FALSE
