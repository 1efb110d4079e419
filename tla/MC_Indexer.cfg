SPECIFICATION FairSpec
CONSTANTS
  devnet = devnet
  localnet = localnet
  Chains <- TwoChains
  NoChain = NoChain
  PageSize = 1
  MaxNotified = 1
  MaxLanded <- MCLanded
  MaxFailures = 1
  MaxRestarts = 1
INVARIANTS
  RequestsAreServed
PROPERTIES
  IndexKeepsItsPromise
  EverythingIsIndexed
CHECK_DEADLOCK FALSE
