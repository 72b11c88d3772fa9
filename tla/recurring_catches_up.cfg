SPECIFICATION FairSpec
CONSTANTS
  server1 = server1
  server2 = server2
  patch1 = patch1
  patch2 = patch2
  Servers = {server1}
  Editors = {patch1}
  Horizon = 2
  Period = 1
  MaxCatchup = 2
  MaxCrashes = 1
  MaxEdits = 2
  Patchable = {"next", "active", "tracked"}
  Doings = {"archive"}
  FirstDates = {0}
  CreatedOn = {0}
  Subscriptions = {FALSE, TRUE}
INVARIANT NeverBackfilled
PROPERTY CatchesUp
