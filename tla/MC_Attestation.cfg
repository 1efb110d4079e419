SPECIFICATION Spec
CONSTANTS
  Reports <- ThreeReports
  MaxAhead = 1
  MaxDeposits = 3
  MaxSwitches = 1
INVARIANTS
  TypeOK
  OnlyUnseenDaysArePaidTwice
PROPERTIES
  SaleEndsCosigning
CHECK_DEADLOCK FALSE
