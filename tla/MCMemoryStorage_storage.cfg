SPECIFICATION FairSpec
CONSTANTS
  c1 = c1
  c2 = c2
  Consumers <- MCConsumers
  Queues <- OneQueue
  Requests <- MCRequests
  RetryDelays <- LaterOnly
  VisibilityTimeout = 1
  BatchSize = 2
  MaxTime = 2
  MaxTasks = 2
  MaxAttempts = 2
INVARIANTS
  TypeOK
  AttemptsOutdateCopies
  AttemptsTellCopiesApart
PROPERTIES
  ReaperHonoursLease
  ImplementsTaskQueue
  TakenTasksComeBack
