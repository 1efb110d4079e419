SPECIFICATION FairSpec
CONSTANTS
  w1 = w1
  w2 = w2
  k1 = k1
  k2 = k2
  Owners <- TwoWallets
  CreationRoles <- MCCreationRoles
  RoleChanges = {}
  InitialKyc <- OnlyVerified
  KycWrites <- FreezeOrVerify
  One = 64
  Price = 10
  TotalShares = 2
  SoftCap = 1
  RaiseDeadline = 1
  ActivationWindow = 1
  RaiseFeeBps = 500
  RevenueFeeBps = 2000
  AllowsDemo = FALSE
  MinRecoveryDelay = 1
  MaxDemoDuration = 2
  PauseValues = {FALSE, TRUE}
  RecoveryDelays = {1}
  BuyAmounts = {1}
  TransferAmounts = {1}
  RecoveryAmounts = {}
  BurnAmounts = {2}
  AccountOwners <- OneWallet
  GrossAmounts = {20}
  DonationAmounts = {}
  MaxDonated = 1
  MaxPeriods = 1
  MaxTime = 3
PROPERTIES
  RaiseIsDecided
  RefundsArrive
  ClaimsArrive
CHECK_DEADLOCK FALSE
