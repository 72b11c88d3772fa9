SPECIFICATION Spec
CHECK_DEADLOCK FALSE
CONSTANTS
  left = left
  right = right
  c1 = c1
  c2 = c2
  c3 = c3
  Tabs = {left, right}
  NoTab = NoTab
  MaxBegun = 3
  Calls = {c1, c2, c3}
  NoRefresh = NoRefresh
  MaxFailures = 1
INVARIANTS SessionsHold CredentialsHold NobodyWaitsInVain
PROPERTY NoSpuriousLogout
