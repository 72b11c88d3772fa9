SPECIFICATION Spec
CHECK_DEADLOCK FALSE
CONSTANTS
  checking = checking
  loan = loan
  pay = pay
  rent = rent
  savings = savings
  debt = debt
  None = None
  Unset = Unset
  Bad = Bad
  Accounts = {checking, loan}
  Keys = {pay, rent}
  Amount <- Cents
  Files <- Statements
  Types = {savings, debt}
  Fits <- Pairing
  Gifts = {1}
  NumGoals = 1
  MaxRequests = 3
  AtOnce = 2
  MaxFailures = 1
INVARIANTS ImportsHold GoalsHold
PROPERTIES LeavesNothingOut AnchorSound
