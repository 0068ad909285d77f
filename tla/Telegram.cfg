SPECIFICATION FairSpec
CONSTANTS
  MaxUpdates = 3
  Limit = 2
  MaxFailures = 7
  InitialDelay = 2
  MaxDelay = 10
  Doublings = 3
  Width = 5
  MaxCrashes = 2
INVARIANTS TypeOK HandledOncePerRun NothingForgotten
PROPERTIES EveryMessageTaken BacksOff ImplementsDelivery
CHECK_DEADLOCK FALSE
