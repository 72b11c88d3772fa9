SPECIFICATION CadenceSpec
CONSTANTS
  FirstYear = 2023
  LastYear = 2026
  StartDays = {15, 28, 29, 30, 31}
  StartMonths = {0, 1, 11}
  MaxPeriods = 13
  MaxPatches = 1
INVARIANTS CadenceTypeOK NoDrift LegacyDriftBounded Punctual
CHECK_DEADLOCK FALSE
