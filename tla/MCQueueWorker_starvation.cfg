SPECIFICATION FairWorkerSpec
CONSTANTS
  MaxProcessors = 1
  QueueIDs <- TwoQueues
PROPERTIES
  QueuesServed
CHECK_DEADLOCK FALSE
