------------------------- MODULE AvailabilityProofs -------------------------
(***************************************************************************)
(* The starts that the availability query displays are those that a        *)
(* booking is accepted for, but for one that ends at 24:00: for any tables, *)
(* hours, policies and zones whose clocks change before opening time.      *)
(***************************************************************************)
EXTENDS AvailabilityQuery, AllocationProofs

-----------------------------------------------------------------------------
(* Days *)

\* A time of a day lies on that day.
LEMMA DayOf ==
    ASSUME NEW D \in Nat \ {0}, NEW d \in Int, NEW x \in Int,
           d * D <= x, x < d * D + D
    PROVE  x \div D = d /\ x % D = x - d * D
<1> DEFINE q == x \div D
           r == x % D
<1>1. q \in Int /\ r \in 0..(D - 1) /\ x = q * D + r
  BY SMT
<1> HIDE DEF q, r
<1>2. ~(q > d)
  <2>1. q > d => (q - d) * D >= D
    BY <1>1, SMT
  <2> QED  BY <1>1, <2>1, SMT
<1>3. ~(q < d)
  <2>1. q < d => (d - q) * D >= D
    BY <1>1, SMT
  <2> QED  BY <1>1, <2>1, SMT
<1>4. q = d
  BY <1>1, <1>2, <1>3
<1> QED  BY <1>1, <1>4 DEF q, r

\* The day and the time of day of a local time.
LEMMA LocalParts ==
    ASSUME NEW local \in Int
    PROVE  /\ DateOf(local) \in Int /\ TimeOf(local) \in 0..(DayLength - 1)
           /\ local = DateOf(local) * DayLength + TimeOf(local)
BY CalendarAssumption, SMT DEF DateOf, TimeOf

\* A local time on day d shows its distance from midnight.
LEMMA OnDay ==
    ASSUME NEW d \in Int, NEW local \in Int,
           d * DayLength <= local, local < (d + 1) * DayLength
    PROVE  DateOf(local) = d /\ TimeOf(local) = local - d * DayLength
<1>1. DayLength \in Nat \ {0} /\ d * DayLength \in Int
  BY CalendarAssumption
<1>2. (d + 1) * DayLength = d * DayLength + DayLength
  BY <1>1, SMT
<1>3. local < d * DayLength + DayLength
  BY <1>2
<1> QED  BY <1>1, <1>3, DayOf DEF DateOf, TimeOf

-----------------------------------------------------------------------------
(* The rows the query reads *)

\* Policy rows that the CHECK constraints let in, with legal hours, and a
\* clock that counts from zero.
QueryRows(legal) ==
    /\ config \in Configuration
    /\ hours \in [Weekdays -> legal]
    /\ capacity \in Capacities
    /\ clock \in Nat

\* They hold at first, and every step of the book, of the policy writers and
\* of the clock keeps them.
LEMMA QueryStartsTyped ==
    ASSUME NEW legal, AllHours(legal, PolicyRequests)
    PROVE  QueryInit => QueryRows(legal)
<1> SUFFICES ASSUME QueryInit  PROVE QueryRows(legal)
  OBVIOUS
<1>1. config = InitConfig /\ hours = InitHours /\ capacity = InitCapacity
  BY DEF QueryInit, Rows!Init
<1>2. InitHours \in [Weekdays -> legal]
  BY RulesAssumption DEF AllHours
<1>3. clock = 0
  BY DEF QueryInit
<1> QED  BY <1>1, <1>2, <1>3, RulesAssumption DEF QueryRows

LEMMA QueryKeepsTypes ==
    ASSUME NEW legal, AllHours(legal, PolicyRequests)
    PROVE  QueryRows(legal) /\ [QueryNext]_vars => QueryRows(legal)'
<1> SUFFICES ASSUME QueryRows(legal), [QueryNext]_vars  PROVE QueryRows(legal)'
  OBVIOUS
<1>1. ASSUME NEW r \in BookingRequests, Rows!Book(r), clock' = clock  PROVE QueryRows(legal)'
  BY <1>1 DEF Rows!Book, QueryRows
<1>2. ASSUME NEW r \in PolicyRequests, Rows!SetPolicy(r), clock' = clock  PROVE QueryRows(legal)'
  <2>1. /\ Rows!LegalPolicy(r)
        /\ config' = IF r.kind = "configuration" THEN r.config ELSE config
        /\ hours' = IF r.kind = "hours"
                    THEN [hours EXCEPT ![r.weekday] = r.hours] ELSE hours
        /\ capacity' = IF r.kind = "tables"
                       THEN [capacity EXCEPT ![r.table] = r.seats] ELSE capacity
    BY <1>2 DEF Rows!SetPolicy
  <2>2. r.kind = "configuration" => r.config \in Configuration
    BY <2>1 DEF Rows!LegalPolicy, Rows!Configuration, Configuration
  <2>3. r.kind = "hours" => r.weekday \in Weekdays /\ r.hours \in legal
    BY <2>1 DEF Rows!LegalPolicy, Rows!Weekdays, Weekdays, AllHours
  <2>4. r.kind = "tables" => r.table \in Tables /\ r.seats \in Nat \ {0}
    BY <2>1 DEF Rows!LegalPolicy
  <2>5. hours' \in [Weekdays -> legal]
    BY <2>1, <2>3 DEF QueryRows
  <2>6. capacity' \in Capacities
    BY <2>1, <2>4 DEF QueryRows, Capacities
  <2>7. config' \in Configuration
    BY <2>1, <2>2 DEF QueryRows
  <2> QED  BY <1>2, <2>5, <2>6, <2>7 DEF QueryRows
<1>3. CASE Tick
  BY <1>3 DEF Tick, rows, QueryRows
<1>4. CASE UNCHANGED vars
  BY <1>4 DEF vars, rows, QueryRows
<1> QED  BY <1>1, <1>2, <1>3, <1>4 DEF QueryNext

-----------------------------------------------------------------------------
(* One start *)

\* Opening and closing time of a date, as the query and the booking read them.
LEMMA HoursOf ==
    ASSUME NEW e \in 0..DayLength, QueryRows(HoursFrom(e)), NEW date \in Int,
           NEW local \in Int, DateOf(local) = date
    PROVE  LET h == hours[WeekdayOf(date * DayLength)]
           IN  /\ h = hours[WeekdayOf(local)]
               /\ h.opens \in Int /\ h.closes \in Int
               /\ e <= h.opens /\ 0 <= h.opens /\ h.opens < h.closes /\ h.closes <= DayLength
<1>1. DayLength \in Nat \ {0} /\ date * DayLength \in Int
  BY CalendarAssumption
<1>2. date * DayLength < (date + 1) * DayLength
  <2>1. (date + 1) * DayLength = date * DayLength + DayLength
    BY <1>1, SMT
  <2> QED  BY <1>1, <2>1
<1>3. DateOf(date * DayLength) = date
  BY <1>1, <1>2, OnDay
<1>4. /\ WeekdayOf(date * DayLength) = WeekdayOf(local)
      /\ WeekdayOf(date * DayLength) \in Weekdays
  BY <1>3 DEF WeekdayOf, Weekdays
<1>5. hours[WeekdayOf(date * DayLength)] \in HoursFrom(e)
  BY <1>4 DEF QueryRows
<1> QED  BY <1>1, <1>4, <1>5 DEF HoursFrom, OpeningHours

\* A time between midnights is aligned for the query, and does not end at
\* 24:00, when the booking finds it neither early, nor misaligned, nor ending
\* late.
LEMMA AlignedIsWithinHours ==
    ASSUME NEW e \in 0..DayLength, SteadyFrom(e), QueryRows(HoursFrom(e)),
           NEW date \in Int, NEW local \in Int,
           date * DayLength <= local, local < (date + 1) * DayLength,
           NEW start \in Instants, LocalAt(config.zone, start) = local
    PROVE  local \in AlignedStarts(date) /\ ~EndsAtMidnight(date, local) <=>
              /\ ~StartBeforeOpening(local, hours)
              /\ ~MisalignedStart(local, hours, config)
              /\ ~EndAfterClosing(local, start, hours, config)
<1> DEFINE D == DayLength
           midnight == date * D
           h == hours[WeekdayOf(date * DayLength)]
           opens == h.opens
           closes == h.closes
           d == config.duration
           end == LocalAt(config.zone, start + d)
<1>1. D \in Nat \ {0} /\ midnight \in Int /\ (date + 1) * D = midnight + D
  BY CalendarAssumption, SMT
<1>2. DateOf(local) = date /\ TimeOf(local) = local - midnight
  BY OnDay
<1>3. /\ h = hours[WeekdayOf(local)]
      /\ opens \in Int /\ closes \in Int
      /\ e <= opens /\ 0 <= opens /\ opens < closes /\ closes <= D
  BY <1>2, HoursOf
<1>4. /\ config.zone \in Zones /\ d \in DurationChoices
      /\ d \in Nat \ {0} /\ config.interval \in Nat \ {0} /\ start \in Int
  BY CalendarAssumption DEF QueryRows, Configuration
<1>5. local \in AlignedStarts(date) <=>
        /\ midnight + opens <= local /\ local <= midnight + closes
        /\ (local - (midnight + opens)) % config.interval = 0
        /\ local + d <= midnight + closes
  BY <1>1, <1>3 DEF AlignedStarts
<1>6. /\ StartBeforeOpening(local, hours) <=> TimeOf(local) < opens
      /\ MisalignedStart(local, hours, config) <=>
            (TimeOf(local) - opens) % config.interval # 0
      /\ EndAfterClosing(local, start, hours, config) <=>
            DateOf(end) # DateOf(local) \/ TimeOf(end) > closes
  BY <1>3 DEF StartBeforeOpening, MisalignedStart, EndAfterClosing
<1>7. ASSUME TimeOf(local) >= e
      PROVE  IF local + d < midnight + D THEN end = local + d ELSE end >= midnight + D
  BY <1>1, <1>2, <1>4, <1>7 DEF SteadyFrom
<1>10. EndsAtMidnight(date, local) <=> local + d = midnight + D
  BY <1>1 DEF EndsAtMidnight
<1> HIDE DEF D, midnight, h, opens, closes, d, end
<1>8. CASE TimeOf(local) < opens
  <2>1. ~(midnight + opens <= local)
    BY <1>1, <1>2, <1>3, <1>8
  <2> QED  BY <1>5, <1>6, <1>8, <2>1
<1>9. CASE ~(TimeOf(local) < opens)
  <2>1. TimeOf(local) >= e /\ midnight + opens <= local
    BY <1>1, <1>2, <1>3, <1>9
  <2>2. local - (midnight + opens) = TimeOf(local) - opens
    BY <1>1, <1>2, <1>3
  <2>3. DateOf(end) # DateOf(local) \/ TimeOf(end) > closes
          <=> ~(local + d <= midnight + closes) \/ local + d = midnight + D
    <3>1. CASE local + d < midnight + D
      <4>1. end = local + d
        BY <1>7, <2>1, <3>1
      <4>2. end \in Int /\ midnight <= end /\ end < midnight + D
        BY <1>1, <1>4, <2>1, <1>3, <3>1, <4>1
      <4>3. DateOf(end) = date /\ TimeOf(end) = end - midnight
        BY <1>1, <4>2, OnDay DEF D, midnight
      <4>4. local + d # midnight + D
        BY <1>1, <1>4, <3>1
      <4>5. TimeOf(end) > closes <=> ~(local + d <= midnight + closes)
        BY <1>1, <1>3, <1>4, <4>1, <4>3
      <4> QED  BY <1>2, <4>3, <4>4, <4>5
    <3>2. CASE ~(local + d < midnight + D)
      <4>1. end >= midnight + D
        BY <1>7, <2>1, <3>2
      <4>2. DateOf(end) # date
        <5> SUFFICES ASSUME DateOf(end) = date  PROVE FALSE
          OBVIOUS
        <5>1. end \in Int
          BY <1>4 DEF SteadyFrom, end
        <5>2. TimeOf(end) \in 0..(D - 1) /\ end = midnight + TimeOf(end)
          BY <5>1, LocalParts DEF D, midnight
        <5> QED  BY <1>1, <4>1, <5>2
      <4>3. ~(local + d <= midnight + closes) \/ local + d = midnight + D
        BY <1>1, <1>3, <1>4, <3>2
      <4> QED  BY <1>2, <4>2, <4>3
    <3> QED  BY <3>1, <3>2
  <2>4. local + d <= midnight + closes => local <= midnight + closes
    BY <1>1, <1>3, <1>4
  <2> QED  BY <1>5, <1>6, <1>9, <1>10, <2>1, <2>2, <2>3, <2>4
<1> QED  BY <1>8, <1>9

\* Free seats decide whether there is a combination of free tables.
LEMMA FreeSeatsDecide ==
    ASSUME NEW e, QueryRows(HoursFrom(e)), NEW start, NEW guests \in Int
    PROVE  FreeCapacity(start) >= guests <=>
             BestAllocations(FreeTables(reservations, start, start + config.duration),
                             capacity, guests) # {}
<1> DEFINE F == FreeTables(reservations, start, start + config.duration)
<1>1. F \in SUBSET Tables
  BY DEF FreeTables
<1>2. IsFiniteSet(F) /\ \A t \in F : capacity[t] \in Nat
  BY <1>1, TablesAssumption, FS_Subset DEF QueryRows, Capacities
<1>3. Sound(F, capacity)
  BY <1>2 DEF Sound
<1>4. SeatsIn(F, capacity) \in Nat
  BY <1>2, SeatsInNat
<1> HIDE DEF F
<1>5. BestAllocations(F, capacity, guests) # {} <=> guests <= SeatsIn(F, capacity)
  BY <1>3, EnoughSeats
<1> QED  BY <1>4, <1>5 DEF FreeCapacity, F

\* A local time has one candidate exactly when it resolves.
LEMMA OneCandidate ==
    ASSUME NEW local \in Int, Cardinality(Candidates(config.zone, local)) = 1
    PROVE  \E start \in Instants :
              /\ Candidates(config.zone, local) = {start} /\ StartOf(local) = start
              /\ LocalAt(config.zone, start) = local
<1>1. IsFiniteSet(Candidates(config.zone, local))
  BY QueryAssumption, FS_Subset DEF Candidates
<1>2. PICK start : Candidates(config.zone, local) = {start}
  BY <1>1, FS_Singleton
<1>3. start \in Candidates(config.zone, local)
  BY <1>2
<1> QED  BY <1>2, <1>3 DEF Candidates, StartOf

\* The starts of a date lie between its midnights.
LEMMA AlignedBetween ==
    ASSUME NEW e \in 0..DayLength, QueryRows(HoursFrom(e)), NEW date \in Int,
           NEW local \in AlignedStarts(date)
    PROVE  local \in (date * DayLength)..((date + 1) * DayLength - 1)
<1> DEFINE midnight == date * DayLength
           h == hours[WeekdayOf(date * DayLength)]
<1>1. DayLength \in Nat \ {0} /\ midnight \in Int /\ (date + 1) * DayLength = midnight + DayLength
  BY CalendarAssumption, SMT
<1>2. midnight <= midnight /\ midnight < (date + 1) * DayLength
  BY <1>1
<1>3. DateOf(midnight) = date
  BY <1>1, <1>2, OnDay
<1>4. h.opens \in Int /\ h.closes \in Int /\ 0 <= h.opens /\ h.closes <= DayLength
  BY <1>1, <1>3, HoursOf
<1>5. /\ local \in (midnight + h.opens)..(midnight + h.closes)
      /\ local + config.duration <= midnight + h.closes
  BY DEF AlignedStarts
<1>7. config.duration \in Nat \ {0}
  BY CalendarAssumption DEF QueryRows, Configuration
<1> HIDE DEF h, midnight
<1>6. local \in midnight..(midnight + DayLength - 1)
  BY <1>1, <1>4, <1>5, <1>7
<1> QED  BY <1>1, <1>6 DEF midnight

\* The query displays the starts that a booking is accepted for, and the one
\* that ends at 24:00.
LEMMA OfferedIsAccepted ==
    ASSUME NEW e \in 0..DayLength, SteadyFrom(e), QueryRows(HoursFrom(e)),
           NEW date \in Int, NEW guests \in Int
    PROVE  Accepted(date, guests) =
              {local \in Offered(date, guests) : ~EndsAtMidnight(date, local)}
<1> DEFINE book(local, start) == [local |-> local, offset |-> local - start]
           fits(start) ==
              BestAllocations(FreeTables(reservations, start, start + config.duration),
                              capacity, guests) # {}
           between == (date * DayLength)..((date + 1) * DayLength - 1)
<1>1. date * DayLength \in Int /\ (date + 1) * DayLength \in Int
  BY CalendarAssumption
\* What the two sides say of a time between the midnights of the date.
<1>2. ASSUME NEW local \in between, NEW start \in Instants,
             LocalAt(config.zone, start) = local
      PROVE  /\ ResolvedStart(book(local, start)) = start
             /\ DateOf(local) = date
             /\ TooLateOrTooEarly(book(local, start), clock, config) <=>
                   \/ date < Today \/ date > Today + config.window
                   \/ date = Today /\ start < clock + config.lead
             /\ OutsideHours(book(local, start), config, hours) <=>
                   \/ Candidates(config.zone, local) # {start}
                   \/ local \notin AlignedStarts(date) \/ EndsAtMidnight(date, local)
  <2>1. local \in Int /\ date * DayLength <= local /\ local < (date + 1) * DayLength
    BY <1>1
  <2>2. ResolvedStart(book(local, start)) = start
    BY <2>1, CalendarAssumption DEF ResolvedStart
  <2>3. DateOf(local) = date
    BY <2>1, OnDay
  <2>4. TooLateOrTooEarly(book(local, start), clock, config) <=>
          \/ date < Today \/ date > Today + config.window
          \/ date = Today /\ start < clock + config.lead
    BY <2>2, <2>3 DEF TooLateOrTooEarly, DateOutsideWindow, InsufficientLead, Today
  <2>5. local \in AlignedStarts(date) /\ ~EndsAtMidnight(date, local) <=>
          /\ ~StartBeforeOpening(local, hours)
          /\ ~MisalignedStart(local, hours, config)
          /\ ~EndAfterClosing(local, start, hours, config)
    BY <1>2, <2>1, AlignedIsWithinHours
  <2>6. Resolvable(book(local, start), config) <=> Candidates(config.zone, local) = {start}
    BY <2>2 DEF Resolvable
  <2>7. OutsideHours(book(local, start), config, hours) <=>
          \/ Candidates(config.zone, local) # {start}
          \/ local \notin AlignedStarts(date) \/ EndsAtMidnight(date, local)
    BY <2>2, <2>5, <2>6 DEF OutsideHours
  <2> QED  BY <2>2, <2>3, <2>4, <2>7
<1> HIDE DEF fits, book
<1>3. clock + config.lead \in Int /\ Instants \subseteq Int
  BY CalendarAssumption DEF QueryRows, Configuration
<1>4. ASSUME NEW local \in Offered(date, guests), ~EndsAtMidnight(date, local)
      PROVE  local \in Accepted(date, guests)
  <2>1. /\ ~QueryRefused(date, guests) /\ local \in AlignedStarts(date)
        /\ Cardinality(Candidates(config.zone, local)) = 1
        /\ FreeCapacity(StartOf(local)) >= guests
        /\ date # Today \/ StartOf(local) >= clock + config.lead
    BY <1>4 DEF Offered, Slots
  <2>2. local \in Int /\ local \in between
    BY <1>1, <2>1, AlignedBetween
  <2>3. PICK start \in Instants :
              /\ Candidates(config.zone, local) = {start} /\ StartOf(local) = start
              /\ LocalAt(config.zone, start) = local
    BY <2>1, <2>2, OneCandidate
  <2>4. fits(start)
    BY <2>1, <2>3, FreeSeatsDecide DEF fits
  <2>5. ~(start < clock + config.lead) \/ date # Today
    BY <1>3, <2>1, <2>3
  <2> QED  BY <1>2, <1>4, <2>1, <2>2, <2>3, <2>4, <2>5 DEF Accepted, QueryRefused, fits, book
<1>5. ASSUME NEW local \in Accepted(date, guests)
      PROVE  local \in Offered(date, guests) /\ ~EndsAtMidnight(date, local)
  <2>1. local \in between
    BY <1>5 DEF Accepted
  <2>2. PICK start \in Candidates(config.zone, local) :
              /\ ~TooLateOrTooEarly(book(local, start), clock, config)
              /\ ~OutsideHours(book(local, start), config, hours)
              /\ ~PartyRefused(guests, capacity)
              /\ fits(start)
    BY <1>5 DEF Accepted, fits, book
  <2>3. start \in Instants /\ LocalAt(config.zone, start) = local
    BY DEF Candidates
  <2>4. /\ ~QueryRefused(date, guests)
        /\ local \in AlignedStarts(date) /\ ~EndsAtMidnight(date, local)
        /\ Candidates(config.zone, local) = {start}
        /\ ~(start < clock + config.lead) \/ date # Today
    BY <1>2, <2>1, <2>2, <2>3 DEF QueryRefused
  <2>5. Cardinality(Candidates(config.zone, local)) = 1 /\ StartOf(local) = start
    BY <2>4, FS_Singleton DEF StartOf
  <2>6. FreeCapacity(start) >= guests
    <3>1. fits(start)
      BY <2>2
    <3> QED  BY <3>1, FreeSeatsDecide DEF fits
  <2>7. start >= clock + config.lead \/ date # Today
    BY <1>3, <2>3, <2>4
  <2> DEFINE slot == [local |-> local, starts |-> start, available |-> TRUE]
  <2>8. slot \in Slots(date, guests)
    BY <2>4, <2>5, <2>6, <2>7 DEF Slots
  <2>9. slot.available /\ slot.local = local
    OBVIOUS
  <2> HIDE DEF slot
  <2> QED  BY <2>4, <2>8, <2>9 DEF Offered
<1> QED  BY <1>4, <1>5

-----------------------------------------------------------------------------
(* Theorems *)

\* Whatever has been booked and configured, the starts displayed as available
\* are those a booking made at that instant is accepted for, and at most one
\* more a day, which ends at 24:00 (007: 87-153, 008: 197-295 and 454-490), if
\* the clocks change before opening time.
THEOREM OnlyMidnightIsRefused ==
    ASSUME NEW CONSTANT e \in 0..DayLength,
           SteadyFrom(e), AllHours(HoursFrom(e), PolicyRequests)
    PROVE  QuerySpec => []OnlyMidnightDiffers
<1>1. QuerySpec => []QueryRows(HoursFrom(e))
  <2>1. QueryInit => QueryRows(HoursFrom(e))
    BY QueryStartsTyped
  <2>2. QueryRows(HoursFrom(e)) /\ [QueryNext]_vars => QueryRows(HoursFrom(e))'
    BY QueryKeepsTypes
  <2> QED  BY <2>1, <2>2, PTL DEF QuerySpec
<1>2. QueryRows(HoursFrom(e)) => OnlyMidnightDiffers
  <2> SUFFICES ASSUME QueryRows(HoursFrom(e)), NEW date \in Int, NEW guests \in Int
               PROVE  Accepted(date, guests) =
                         {local \in Offered(date, guests) : ~EndsAtMidnight(date, local)}
    BY DEF OnlyMidnightDiffers
  <2> QED  BY OfferedIsAccepted
<1> QED  BY <1>1, <1>2, PTL

\* If the restaurant also closes before midnight every day, the starts
\* displayed are exactly those accepted.
THEOREM DisplayedStartsAreAccepted ==
    ASSUME NEW CONSTANT e \in 0..DayLength,
           SteadyFrom(e), AllHours(DayHours(e), PolicyRequests)
    PROVE  QuerySpec => []DisplayedIsAccepted
<1>1. QuerySpec => []QueryRows(DayHours(e))
  <2>1. QueryInit => QueryRows(DayHours(e))
    BY QueryStartsTyped
  <2>2. QueryRows(DayHours(e)) /\ [QueryNext]_vars => QueryRows(DayHours(e))'
    BY QueryKeepsTypes
  <2> QED  BY <2>1, <2>2, PTL DEF QuerySpec
<1>2. QueryRows(DayHours(e)) => DisplayedIsAccepted
  <2> SUFFICES ASSUME QueryRows(DayHours(e)), NEW date \in Int, NEW guests \in Int
               PROVE  Offered(date, guests) = Accepted(date, guests)
    BY DEF DisplayedIsAccepted
  <2>1. QueryRows(HoursFrom(e))
    BY DEF QueryRows, DayHours
  <2>2. ASSUME NEW local \in Offered(date, guests)  PROVE ~EndsAtMidnight(date, local)
    <3> DEFINE midnight == date * DayLength
               h == hours[WeekdayOf(date * DayLength)]
    <3>1. /\ DayLength \in Nat \ {0} /\ midnight \in Int
          /\ (date + 1) * DayLength = midnight + DayLength
      BY CalendarAssumption, SMT
    <3>2. WeekdayOf(midnight) \in Weekdays
      <4>1. DateOf(midnight) = date
        BY <3>1, OnDay
      <4> QED  BY <4>1 DEF WeekdayOf, Weekdays
    <3>3. h.closes \in Int /\ h.closes < DayLength
      BY <3>2 DEF QueryRows, DayHours, HoursFrom, OpeningHours
    <3>4. /\ local \in (midnight + h.opens)..(midnight + h.closes)
          /\ local + config.duration <= midnight + h.closes
      BY <2>2 DEF Offered, Slots, AlignedStarts
    <3> HIDE DEF midnight, h
    <3>5. local + config.duration # midnight + DayLength
      BY <3>1, <3>3, <3>4
    <3> QED  BY <3>1, <3>5 DEF EndsAtMidnight
  <2> QED  BY <2>1, <2>2, OfferedIsAccepted
<1> QED  BY <1>1, <1>2, PTL
=============================================================================
