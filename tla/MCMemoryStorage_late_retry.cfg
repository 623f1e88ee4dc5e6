SPECIFICATION Spec
CONSTANTS
  c1 = c1
  c2 = c2
  Consumers <- MCConsumers
  Queues <- OneQueue
  Requests <- PlainRequests
  RetryDelays <- MCRetryDelays
  VisibilityTimeout = 2
  BatchSize = 1
  MaxTime = 4
  MaxTasks = 1
  MaxAttempts = 2
INVARIANTS
  LeasesExclusive
