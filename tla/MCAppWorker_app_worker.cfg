SPECIFICATION FairSpec
CONSTANTS
  MaxProcessors = 2
  QueueIDs <- TwoQueues
  Driver = driver
  Worker = worker
  Transports = {}
INVARIANTS
  AppWorkerTypeOK
  StoppedMeansDone
  AtMostOneLateBatch
  ReadyMeansWorking
  DriversOutliveHandlers
PROPERTIES
  OnlyHandlersHoldUp
CHECK_DEADLOCK FALSE
