SPECIFICATION FairSpec
CONSTANTS
  InitialRecords <- NoneOrDemo
  ManualRecords <- ByHand
  MaxEvents = 2
  MaxManual = 1
  MaxRepeats = 1
  MaxTroubles = 1
  MaxCrashes = 1
INVARIANTS
  TypeOK
  AnsweredMeansDone
PROPERTIES
  HandWrittenOutlastNewPlans
  EventsAreAnswered
CHECK_DEADLOCK FALSE
