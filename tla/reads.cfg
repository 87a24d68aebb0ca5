SPECIFICATION FairSpec
CONSTANTS
  r1 = r1 r2 = r2
  Readers = {r1, r2}
  Mixes <- MCMixes
  PoolSize = 1
  Deadline = 3
  ReadinessDeadline = 2
  AcquireTimeout = 1
  MaxAttempts = 3
  MinRemaining = 1
  Delays = {1}
  Requests <- HttpRequests
  Writes = 1
  Quirks = 1
INVARIANTS ReadsOneInstant AnsweredInTime OutagesInviteRetry
PROPERTIES EveryReadAnswered
