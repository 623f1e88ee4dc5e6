SPECIFICATION FairSpec
CONSTANTS
  MaxProcessors = 2
  QueueIDs <- OneQueue
  MaxTasks = 2
  MaxAttempts = 2
  BatchSize = 2
INVARIANTS
  SystemTypeOK
  TakenIsInHand
  NothingInFlightWhenStopped
PROPERTIES
  TasksServed
CHECK_DEADLOCK FALSE
