SPECIFICATION Spec
CHECK_DEADLOCK FALSE
CONSTANTS
  cash = cash
  server1 = server1
  NumSchedules = 2
  Accounts = {cash}
  Servers = {server1}
  Period = 1
  LastDay = 1
  Selections = {{1, 2}}
  Creations <- News
  Starts <- Firsts
  Patches <- Edits
  MaxRequests = 2
  AtOnce = 2
  MaxFailures = 1
INVARIANT TrackedAndTold
PROPERTIES Reminded ActivatesSoundly
