SPECIFICATION Spec
CHECK_DEADLOCK FALSE
CONSTANTS
  home = home
  pets = pets
  rent = rent
  food = food
  None = None
  MaxRequests = 3
  AtOnce = 2
  MaxFailures = 1
  Defaults <- DefaultSet
  GroupNames = {home, pets}
  CategoryNames = {rent, food}
  NumGroups = 2
  NumCategories = 2
  NumLabels = 3
INVARIANTS ReferencesResolve SeedComplete
PROPERTY WalksAndSeeds
