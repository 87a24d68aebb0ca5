SPECIFICATION Spec
CONSTANTS
  s1 = s1 s2 = s2 s3 = s3 ann = ann bob = bob k1 = k1 k2 = k2
  smith = smith jones = jones t1 = t1 t2 = t2 t3 = t3
  mid = mid home = home work = work
  Sessions = {s1, s2}
  Emails = {ann, bob}
  Names = {smith, jones}
  Initials = {mid}
  Phones = {home, work}
  NULL = NULL
  None = None
  NoCustomer = NoCustomer
  NoRequest = NoRequest
  NoReservation = NoReservation
  Tables = {t1}
  Instants <- MCInstants
  Zones = {"UTC", "autumn"}
  LocalAt <- MCLocalAt
  DayLength <- MCDayLength
  IntervalChoices = {1, 2}
  DurationChoices = {1, 2}
  LockKeys = {k1, k2}
  LockKey <- SameKey
  BookingRequests <- ProfileBookings
  PreferenceRequests <- ProfilePreferences
  PolicyRequests <- ProfilePolicies
  InitConfig <- MCConfig
  InitHours <- MCHours
  InitCapacity <- MCCapacity
  MaxClock = 2
INVARIANTS TypeOK ReportedPreferenceIsCurrent NoLockCycle FallbacksUnreached
PROPERTY ImplementsReservationBook
