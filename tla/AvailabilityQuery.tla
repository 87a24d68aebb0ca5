-------------------------- MODULE AvailabilityQuery --------------------------
(***************************************************************************)
(* provisional_availability (migration 007) over the book: which starts it *)
(* lists for a date and a party, and which of them it calls available.     *)
(* The query is one statement, hence one snapshot of the rows that         *)
(* ReservationBook changes, at one instant of the clock.                   *)
(***************************************************************************)
EXTENDS ReservationRules

CONSTANT MaxClock      \* bound: the clock stops here

\* A timestamptz has finitely many values.
ASSUME QueryAssumption == MaxClock \in Nat /\ IsFiniteSet(Instants)

VARIABLES customers, reservations, config, hours, capacity, clock

Rows == INSTANCE ReservationBook

rows == <<customers, reservations, config, hours, capacity>>
vars == <<rows, clock>>

QueryInit == Rows!Init /\ clock = 0

Tick == clock < MaxClock /\ clock' = clock + 1 /\ UNCHANGED rows

\* Newsletter changes touch nothing the query reads.
QueryNext ==
    \/ \E r \in BookingRequests : Rows!Book(r) /\ UNCHANGED clock
    \/ \E r \in PolicyRequests : Rows!SetPolicy(r) /\ UNCHANGED clock
    \/ Tick

QuerySpec == QueryInit /\ [][QueryNext]_vars

-----------------------------------------------------------------------------
(* The query *)

Today == DateOf(LocalAt(config.zone, clock))

\* date_or_party_size_out_of_range
QueryRefused(date, party) ==
    \/ date < Today \/ date > Today + config.window
    \/ PartyRefused(party, capacity)

\* Mutant of AlignedStarts: a reservation must end before closing time.
AlignedStarts_BeforeClosing(date) ==
    LET open  == date * DayLength + hours[WeekdayOf(date * DayLength)].opens
        close == date * DayLength + hours[WeekdayOf(date * DayLength)].closes
    IN  {local \in open..close : /\ (local - open) % config.interval = 0
                                 /\ local + config.duration < close}

\* The loop from opening time to the last start that ends by closing time,
\* in wall-clock arithmetic.
AlignedStarts(date) ==
    LET open  == date * DayLength + hours[WeekdayOf(date * DayLength)].opens
        close == date * DayLength + hours[WeekdayOf(date * DayLength)].closes
    IN  {local \in open..close : /\ (local - open) % config.interval = 0
                                 /\ local + config.duration <= close}

FreeCapacity(start) ==
    SeatsIn(FreeTables(reservations, start, start + config.duration), capacity)

StartOf(local) == CHOOSE start \in Candidates(config.zone, local) : TRUE

\* The rows with outcome `slots`; a start that does not exist or exists twice
\* is left out.
Slots(date, party) ==
    {[local |-> local, starts |-> StartOf(local),
      available |-> /\ FreeCapacity(StartOf(local)) >= party
                    /\ date # Today \/ StartOf(local) >= clock + config.lead] :
        local \in {l \in AlignedStarts(date) :
                      Cardinality(Candidates(config.zone, l)) = 1}}

Offered(date, party) ==
    IF QueryRefused(date, party) THEN {}
    ELSE {slot.local : slot \in {x \in Slots(date, party) : x.available}}

-----------------------------------------------------------------------------
(* The query and the booking *)

\* The starts book_reservation would accept, with the right offset, from a
\* party whose customer has no other reservation.
Accepted(date, party) ==
    {local \in (date * DayLength)..((date + 1) * DayLength - 1) :
        \E start \in Candidates(config.zone, local) :
            LET r == [local |-> local, offset |-> local - start] IN
            /\ ~TooLateOrTooEarly(r, clock, config)
            /\ ~OutsideHours(r, config, hours)
            /\ ~PartyRefused(party, capacity)
            /\ BestAllocations(FreeTables(reservations, start, start + config.duration),
                               capacity, party) # {}}

\* Whatever has been booked and configured, the starts the query displays as
\* available are exactly those a booking made at that instant is accepted
\* for, although the two functions compute them apart: one adds up free
\* seats and wall-clock times, the other searches table combinations and
\* converts instants (007: 87-153, 008: 197-295 and 454-490).
DisplayedIsAccepted ==
    \A date \in (Today - 1)..(Today + config.window + 1) :
        \A party \in 0..(SeatsIn(Tables, capacity) + 1) :
            Offered(date, party) = Accepted(date, party)

EndsAtMidnight(date, local) == local + config.duration = (date + 1) * DayLength

\* The two functions differ in one start a day at most, the one that would end
\* at 24:00: only the booking wants the end on the date of the start (008:
\* 274-277, 007: 106-108).  No start is accepted that is not displayed.
OnlyMidnightDiffers ==
    \A date \in (Today - 1)..(Today + config.window + 1) :
        \A party \in 0..(SeatsIn(Tables, capacity) + 1) :
            Accepted(date, party) =
                {local \in Offered(date, party) : ~EndsAtMidnight(date, local)}

-----------------------------------------------------------------------------
(* What the restaurant must set up for them to agree *)

\* The clocks of the zones change only between midnight and `earliest`: from
\* then on a local time advances as an instant does, and one that passes
\* midnight shows the next day.
SteadyFrom(earliest) ==
    \A z \in Zones, i \in Instants :
        /\ LocalAt(z, i) \in Int
        /\ \A d \in DurationChoices :
              LET local    == LocalAt(z, i)
                  midnight == (DateOf(local) + 1) * DayLength
              IN  /\ LocalAt(z, i + d) \in Int
                  /\ TimeOf(local) >= earliest =>
                        IF local + d < midnight THEN LocalAt(z, i + d) = local + d
                                                ELSE LocalAt(z, i + d) >= midnight

\* All opening hours, the first ones and those set by `requests`, are `legal`.
AllHours(legal, requests) ==
    /\ \A d \in Weekdays : InitHours[d] \in legal
    /\ \A r \in requests : r.kind = "hours" => r.hours \in legal

\* The restaurant opens at `earliest` or later, and may close at 24:00.
HoursFrom(earliest) == {h \in OpeningHours : earliest <= h.opens}

\* It closes before.
DayHours(earliest) == {h \in HoursFrom(earliest) : h.closes < DayLength}
=============================================================================
