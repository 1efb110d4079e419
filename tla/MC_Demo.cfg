SPECIFICATION Spec
CONSTANTS
  r1 = r1
  r2 = r2
  r3 = r3
  w1 = w1
  w2 = w2
  Requests <- MCRequests
  Wallets <- MCWallets
  Addresses = {a1}
  AccessCap = 1
  AccessPerIp = 2
  SimulationsPerWallet = 1
SYMMETRY Symmetry
INVARIANTS
  GrantsWithinLimits
  NothingLeaks
  OneSimulationAtATime
CHECK_DEADLOCK FALSE
