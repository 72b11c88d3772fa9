SPECIFICATION Spec
CONSTANTS
  server1 = server1
  server2 = server2
  patch1 = patch1
  patch2 = patch2
  Servers = {server1, server2}
  Editors = {patch1}
  Horizon = 2
  Period = 1
  MaxCatchup = 2
  MaxCrashes = 1
  MaxEdits = 1
  Patchable = {"next"}
  Doings = {"deleteRow", "remove", "archive"}
  FirstDates = {1}
  CreatedOn = {1, 2}
  Subscriptions = {FALSE}
SYMMETRY Symmetry
INVARIANTS TypeOK LedgerComplete ShortByCrashes EndsOnTime
PROPERTY PostsInOrder
