SPECIFICATION FairSpec
CONSTANTS
  s1 = s1 s2 = s2 s3 = s3 ann = ann bob = bob k1 = k1 k2 = k2
  smith = smith jones = jones t1 = t1 t2 = t2 t3 = t3
  mid = mid home = home work = work
  Sessions = {s1, s2, s3}
  Emails = {ann, bob}
  Names = {smith}
  Initials = {}
  Phones = {}
  NULL = NULL
  None = None
  NoCustomer = NoCustomer
  NoRequest = NoRequest
  NoReservation = NoReservation
  Tables = {t1}
  Instants <- MCInstants
  Zones = {"UTC"}
  LocalAt <- MCLocalAt
  DayLength <- MCDayLength
  IntervalChoices = {1, 2}
  DurationChoices = {1, 2}
  LockKeys = {k1, k2}
  LockKey <- SameKey
  BookingRequests <- ProgressBookings
  PreferenceRequests <- ProgressPreferences
  PolicyRequests <- ProgressPolicies
  InitConfig <- MCConfig
  InitHours <- MCHours
  InitCapacity <- MCCapacity
  MaxClock = 0
PROPERTY EveryTransactionEnds
