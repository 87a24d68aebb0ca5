------------------------- MODULE RestaurantCalendar -------------------------
(***************************************************************************)
(* What the restaurant's calendar accepts: the policy rows of migration    *)
(* 002, the resolution of a wall-clock time (migration 006) and the checks *)
(* book_reservation makes of it (migration 008).                           *)
(*                                                                         *)
(* Time is counted in ticks.  An instant is a `timestamptz`; a local time  *)
(* is a `timestamp without time zone`, counted from midnight of local day  *)
(* 0, so that a date and a time of day are its quotient and its remainder. *)
(***************************************************************************)
EXTENDS Integers

CONSTANTS
    Instants,          \* the instants a local time may resolve to
    Zones,             \* time zone names PostgreSQL knows
    LocalAt(_, _),     \* LocalAt(z, i): what a clock in zone z shows at i
    DayLength,         \* ticks in a day (a wall-clock day, as DATE arithmetic)
    IntervalChoices,   \* start_interval_minutes accepted by the CHECK
    DurationChoices    \* reservation_duration_minutes accepted by the CHECK

ASSUME CalendarAssumption ==
    /\ Instants \subseteq Int
    /\ DayLength \in Nat \ {0}
    /\ IntervalChoices \subseteq Nat \ {0}
    /\ DurationChoices \subseteq Nat \ {0}

Configuration == [interval : IntervalChoices, duration : DurationChoices,
                  window : 1..365, lead : Nat, zone : Zones]

Weekdays == 1..7

\* closes_at may be TIME '24:00', hence DayLength itself.
OpeningHours == {h \in [opens : 0..DayLength, closes : 0..DayLength] :
                    h.opens < h.closes}

-----------------------------------------------------------------------------
DateOf(local)    == local \div DayLength
TimeOf(local)    == local % DayLength
WeekdayOf(local) == (DateOf(local) % 7) + 1

\* local_timestamp_candidates: the instants that show `local` on the wall.
\* The code samples the zone's offset two days before, at and two days after
\* `local` and keeps the candidates that show it.  The two agree when every
\* offset with which an instant shows `local` is one of those three: so it is
\* for a zone that changes its clock at most once within the four days, as
\* those of the instances do.
Candidates(zone, local) == {i \in Instants : LocalAt(zone, i) = local}

\* Mutant of Overlap: only a start inside the other interval counts.
Overlap_StartInside(start1, end1, start2, end2) == start1 <= start2 /\ start2 < end1

\* Half-open intervals, as every overlap predicate of the schema has them.
Overlap(start1, end1, start2, end2) == start1 < end2 /\ start2 < end1

DateOutsideWindow(local, now, c) ==
    LET today == DateOf(LocalAt(c.zone, now))
    IN  DateOf(local) < today \/ DateOf(local) > today + c.window

InsufficientLead(local, start, now, c) ==
    /\ DateOf(local) = DateOf(LocalAt(c.zone, now))
    /\ start < now + c.lead

StartBeforeOpening(local, hrs) == TimeOf(local) < hrs[WeekdayOf(local)].opens

MisalignedStart(local, hrs, c) ==
    (TimeOf(local) - hrs[WeekdayOf(local)].opens) % c.interval # 0

EndAfterClosing(local, start, hrs, c) ==
    LET localEnd == LocalAt(c.zone, start + c.duration)
    IN  \/ DateOf(localEnd) # DateOf(local)
        \/ TimeOf(localEnd) > hrs[WeekdayOf(local)].closes

=============================================================================
