SPECIFICATION Spec
CONSTANTS
  w1 = w1
  w2 = w2
  k1 = k1
  k2 = k2
  Owners <- TwoWallets
  CreationRoles <- MCCreationRoles
  RoleChanges <- MCRoleChanges
  InitialKyc <- LongAndShort
  KycWrites <- FreezeVerifyOrDemo
  One = 64
  Price = 10
  TotalShares = 3
  SoftCap = 2
  RaiseDeadline = 1
  ActivationWindow = 1
  RaiseFeeBps = 500
  RevenueFeeBps = 2000
  AllowsDemo = FALSE
  MinRecoveryDelay = 1
  MaxDemoDuration = 2
  PauseValues = {FALSE}
  RecoveryDelays = {1, 2}
  BuyAmounts = {1, 2}
  TransferAmounts = {1}
  RecoveryAmounts = {1}
  BurnAmounts = {1}
  AccountOwners <- TwoWallets
  GrossAmounts = {}
  DonationAmounts = {1}
  MaxDonated = 1
  MaxPeriods = 0
  MaxTime = 2
SYMMETRY AnyWallet
CONSTRAINT Scope
INVARIANTS
  TypeOK
  EscrowIsExact
  ReleaseIsExact
  RefundsNeverFail
  LedgerCoversBalances
  SharesAddUp
PROPERTIES
  EscrowKeepsItsPromise
  SharesLeaveOnlyByOwnerOrRecovery
  FreezeHoldsTheHolding
  SupplyNeverGrowsAfterRaise
  SharesReachOnlyEligibleWallets
CHECK_DEADLOCK FALSE
