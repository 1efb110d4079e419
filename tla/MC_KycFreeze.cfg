SPECIFICATION Spec
CONSTANTS
  InitialRecords <- NoneOrDemo
  ManualRecords <- ByHand
  MaxEvents = 1
  MaxManual = 1
  MaxRepeats = 0
  MaxTroubles = 0
  MaxCrashes = 0
PROPERTIES
  FreezeIsNeverLifted
CHECK_DEADLOCK FALSE
