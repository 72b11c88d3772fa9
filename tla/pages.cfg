SPECIFICATION Spec
CHECK_DEADLOCK FALSE
CONSTANTS
  None = None
  MaxListActs = 3
  MaxBudgetActs = 6
  MaxErrors = 2
  NumCategories = 3
  Lists <- MCLists
  NumMonths = 2
  Cents = {0, 1}
  NoLimit = NoLimit
  bank = bank
  card = card
  food = food
  salary = salary
  orphan = orphan
  NoCategory = NoCategory
  Assets = {bank}
  Liabilities = {card}
  Opening <- MCOpening
  CreatedIn <- MCCreatedIn
  Earning = {salary}
  Spending = {food}
  Span = 3
  Entries <- MCEntries
  NumEntries = 2
  Amounts <- MCAmounts
  MaxEdits = 2
  NumReminders = 2
  MaxBellActs = 3
  NumRows = 3
  PageSize = 1
  Picked = {1, 3}
  Stock <- MCStock
  Files <- MCFiles
  MaxTableActs = 3
  MaxWizards = 1
  Openable = {"categories", "budget", "reports", "bell", "transactions"}
INVARIANTS CallsSound ScreenSettles NeverStuck ReportsAgree
PROPERTY WritesAsMeant
