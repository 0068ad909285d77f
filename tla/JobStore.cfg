SPECIFICATION Spec
CONSTANTS
  Threads = {t1, t2}
  MaxQueueDepth = 2
  MaxReceipts = 2
  MaxSequence = 5
  MaxJobs = 4
INVARIANTS TypeOK Bounded FirstComeFirstRun EndsOnce ReceiptsInOrder
PROPERTY ImplementsLifecycle
CHECK_DEADLOCK FALSE
