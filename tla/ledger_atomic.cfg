SPECIFICATION Spec
CONSTANTS
  cash = cash
  bank = bank
  sweep1 = sweep1
  sweep2 = sweep2
  NoAccount = NoAccount
  Accounts = {cash, bank}
  Amounts = {1, 2}
  Openings = {0}
  NumRows = 2
  Stock <- Nothing
  NumRequests = 3
  Reconcilers = {}
  MaxFailures = 0
  SerialEdits = TRUE
PROPERTY ImplementsBooks
CHECK_DEADLOCK FALSE
