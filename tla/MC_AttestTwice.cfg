SPECIFICATION Spec
CONSTANTS
  Reports <- ThreeReports
  MaxAhead = 1
  MaxDeposits = 3
  MaxSwitches = 1
INVARIANT
  OneDepositPerDay
CHECK_DEADLOCK FALSE
