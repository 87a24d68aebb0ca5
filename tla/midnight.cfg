SPECIFICATION QuerySpec
CONSTANTS
  ann = ann bob = bob smith = smith t1 = t1 t2 = t2 t3 = t3
  Emails = {ann, bob}
  Names = {smith}
  Initials = {}
  Phones = {}
  NULL = NULL
  NoCustomer = NoCustomer
  Tables = {t1, t2, t3}
  Instants <- MCInstants
  Zones = {"UTC", "spring", "autumn"}
  LocalAt <- MCLocalAt
  DayLength <- MCDayLength
  IntervalChoices = {1, 2}
  DurationChoices = {1, 2}
  BookingRequests <- MCBookings
  PreferenceRequests = {}
  PolicyRequests <- LatePolicies
  InitConfig <- MCConfig
  InitHours <- MCHours
  InitCapacity <- MCCapacity
  MaxClock = 0
INVARIANT DisplayedIsAccepted
