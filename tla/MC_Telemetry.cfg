SPECIFICATION FairSpec
CONSTANTS
  LastDay = 2
  StartDate = 0
  MaxBackfill = 2
  MaxEntries = 1
  InitialOracles = {"ours"}
  TheirDays = {1}
  MaxSubmissions = 5
  MaxTroubles = 1
  MaxCrashes = 1
  MaxRotations = 2
INVARIANTS
  TypeOK
  ConfirmedIsOnChain
  ReportsMatchTheChain
PROPERTIES
  DaysReachTheChain
CHECK_DEADLOCK FALSE
