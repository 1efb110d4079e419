SPECIFICATION ReplaySpec
CONSTANTS
  w1 = w1
  w2 = w2
  k1 = k1
  k2 = k2
  Owners <- TwoWallets
  CreationRoles <- MCCreationRoles
  RoleChanges = {}
  InitialKyc <- OnlyVerified
  KycWrites = {}
  One = 16
  Price = 1
  TotalShares = 3
  SoftCap = 2
  RaiseDeadline = 1
  ActivationWindow = 1
  RaiseFeeBps = 500
  RevenueFeeBps = 2000
  AllowsDemo = FALSE
  MinRecoveryDelay = 1
  MaxDemoDuration = 2
  PauseValues = {}
  RecoveryDelays = {1}
  BuyAmounts = {3}
  TransferAmounts = {1}
  RecoveryAmounts = {1}
  BurnAmounts = {}
  AccountOwners = {}
  GrossAmounts = {1, 5}
  DonationAmounts = {}
  MaxDonated = 1
  MaxPeriods = 2
  MaxTime = 1
SYMMETRY AnyWallet
INVARIANTS
  NobodyIsOverpaid
  VaultIsExact
  ClaimsNeverFail
  DustIsBounded
  ReplayEqualsPosition
PROPERTIES
  RevenueLeavesOnlyByPayment
CHECK_DEADLOCK FALSE
