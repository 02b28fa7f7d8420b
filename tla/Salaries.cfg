CONSTANTS
  Requests = {c1, c2}
  Amounts = {100, 200}
  Currencies = {"USD", "EUR"}
  Unset = Unset
  LastDay = 2
  MaxRequests = 4
SPECIFICATION PaySpec
SYMMETRY Symmetry
INVARIANTS
  LatestIsCurrent
  CurrencyIsKept
CHECK_DEADLOCK FALSE
