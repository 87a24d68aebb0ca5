SPECIFICATION FairSpec
CONSTANTS
  booking = booking other = other
  Calls = {booking, other}
  Bookings = {booking}
  PoolSize = 1
  Deadline = 3
  AcquireTimeout = 1
  MaxAttempts = 3
  MinRemaining = 1
  Delays = {1}
  Quirks = 2
  Requests <- HttpRequests
INVARIANTS ChangedAtMostOnce AnswersAreHonest BodyKeptUntilSettled OnlyCaselessIsRefused ConnectionsAccounted
PROPERTIES RetriesHaveTime EveryCallAnswered
