----------------------------- MODULE MCBooking -----------------------------
(***************************************************************************)
(* Instances of BookingProperties for TLC: two customers (their addresses  *)
(* share a lock key or not), a short day and the requests of each run.     *)
(***************************************************************************)
EXTENDS BookingProperties, TLC

CONSTANTS s1, s2, s3, ann, bob, k1, k2, smith, jones, t1, t2, t3, mid, home, work

\* "UTC"; a zone that skips local time 3 and one that shows it twice.
MCLocalAt(z, i) ==
    CASE z = "spring" -> (IF i < 3 THEN i ELSE i + 1)
      [] z = "autumn" -> (IF i < 4 THEN i ELSE i - 1)
      [] OTHER -> i

MCDayLength == 8
MCInstants == 0..15

Config(duration) ==
    [interval |-> 1, duration |-> duration, window |-> 1, lead |-> 1, zone |-> "UTC"]
MCConfig == Config(1)
MCHours == [d \in Weekdays |-> [opens |-> 1, closes |-> 5]]
MCCapacity == [t \in Tables |-> IF t = t1 THEN 3 ELSE 2]

SameKey == [e \in Emails |-> k1]
OwnKey == [e \in Emails |-> IF e = ann THEN k1 ELSE k2]

Book(email, local, party) ==
    [kind |-> "book", wellFormed |-> TRUE, name |-> smith, initial |-> NULL,
     email |-> email, phone |-> NULL, local |-> local, offset |-> 0,
     party |-> party, newsletter |-> "no_change"]

Prefer(email, subscribe) ==
    [kind |-> "preference", wellFormed |-> TRUE, name |-> smith, initial |-> NULL,
     email |-> email, subscribe |-> subscribe]

SetDuration(duration) == [kind |-> "configuration", config |-> Config(duration)]
SetZone(zone) ==
    [kind |-> "configuration", config |-> [Config(1) EXCEPT !.zone = zone]]
SetCapacity(table, seats) == [kind |-> "tables", table |-> table, seats |-> seats]
SetHours(weekday, opens, closes) ==
    [kind |-> "hours", weekday |-> weekday,
     hours |-> [opens |-> opens, closes |-> closes]]

\* Rival parties for overlapping times while the duration, a capacity, the
\* hours and the zone change; the new zone skips the hour of two requests.
SeatingBookings == {Book(ann, 2, 4), Book(bob, 2, 3), Book(bob, 3, 2), Book(ann, 3, 4)}
SeatingPolicies ==
    {SetDuration(1), SetDuration(2), SetCapacity(t2, 3), SetHours(1, 1, 3),
     SetZone("spring")}

\* One address used under two names, with and without initial and telephone,
\* by bookings and newsletter changes; another that shares its lock key.  The
\* clock reaches the lead time of the earlier booking.
ProfileBookings ==
    {[Book(ann, 2, 3) EXCEPT !.newsletter = "subscribe", !.phone = home],
     [Book(ann, 3, 2) EXCEPT !.initial = mid, !.phone = work,
                             !.newsletter = "unsubscribe"],
     [Book(ann, 2, 3) EXCEPT !.wellFormed = FALSE]}
ProfilePreferences ==
    {Prefer(ann, TRUE), Prefer(ann, FALSE),
     [Prefer(ann, TRUE) EXCEPT !.name = jones],
     [Prefer(bob, TRUE) EXCEPT !.initial = mid]}

\* A change of the duration, a zone in which the clock shows one of the
\* requested times twice, and a change that is not legal.
ProfilePolicies == {SetDuration(2), SetZone("autumn"), SetCapacity(t1, 0)}

\* One booking, its retry and the clock.
RetryBookings == {Book(ann, 2, 3)}

\* The locks of all three families, for progress.
ProgressBookings == {Book(ann, 2, 3)}
ProgressPreferences == {Prefer(bob, TRUE)}
ProgressPolicies == {SetDuration(2), SetHours(1, 1, 4)}
=============================================================================
