--------------------------- MODULE MCAvailability ---------------------------
(***************************************************************************)
(* Instances of AvailabilityQuery for TLC: two days of eight ticks, zones  *)
(* whose clock change lies before opening time, as in America/New_York.    *)
(***************************************************************************)
EXTENDS AvailabilityQuery

CONSTANTS ann, bob, smith, t1, t2, t3

\* "UTC"; a zone that skips local time 3 and one that shows it twice.
MCLocalAt(z, i) ==
    CASE z = "spring" -> (IF i < 3 THEN i ELSE i + 1)
      [] z = "autumn" -> (IF i < 4 THEN i ELSE i - 1)
      [] OTHER -> i

MCDayLength == 8
MCInstants == 0..30

MCConfig == [interval |-> 1, duration |-> 1, window |-> 1, lead |-> 1, zone |-> "UTC"]
MCHours == [d \in Weekdays |-> [opens |-> 4, closes |-> 7]]
MCCapacity == [t \in Tables |-> IF t = t1 THEN 3 ELSE 2]

Book(email, local, party) ==
    [kind |-> "book", wellFormed |-> TRUE, name |-> smith, initial |-> NULL,
     email |-> email, phone |-> NULL, local |-> local, offset |-> 0,
     party |-> party, newsletter |-> "no_change"]

MCBookings == {Book(ann, 5, 4), Book(bob, 5, 3), Book(bob, 6, 4), Book(bob, 12, 2)}

SetConfig(interval, duration, zone) ==
    [kind |-> "configuration",
     config |-> [MCConfig EXCEPT !.interval = interval, !.duration = duration,
                                 !.zone = zone]]
SetCapacity(table, seats) == [kind |-> "tables", table |-> table, seats |-> seats]
SetHours(weekday, opens, closes) ==
    [kind |-> "hours", weekday |-> weekday,
     hours |-> [opens |-> opens, closes |-> closes]]

MCPolicies ==
    {SetConfig(1, 1, "UTC"), SetConfig(1, 2, "UTC"), SetConfig(2, 1, "spring"),
     SetConfig(1, 2, "autumn"), SetCapacity(t1, 1), SetHours(1, 4, 6)}

\* A restaurant that closes at 24:00.
LatePolicies == {SetHours(1, 4, 8)}

MCAllPolicies == MCPolicies \cup LatePolicies

\* What the proofs suppose of the zones and of the opening hours holds here;
\* the hours of MCPolicies end before midnight.
ASSUME MCSteady ==
    /\ SteadyFrom(4)
    /\ AllHours(HoursFrom(4), MCAllPolicies)
    /\ AllHours(DayHours(4), MCPolicies)
=============================================================================
