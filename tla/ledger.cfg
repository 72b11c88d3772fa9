SPECIFICATION FairSpec
CONSTANTS
  cash = cash
  bank = bank
  sweep1 = sweep1
  sweep2 = sweep2
  NoAccount = NoAccount
  Accounts = {cash, bank}
  Amounts = {1}
  Openings = {0}
  NumRows = 1
  Stock <- OrSalary
  NumRequests = 2
  Reconcilers = {sweep1}
  MaxFailures = 1
  SerialEdits = FALSE
INVARIANTS TypeOK BooksBalance SweepSound NoFalseAlarm
PROPERTY EventuallyExact
CHECK_DEADLOCK FALSE
