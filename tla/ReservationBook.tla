-------------------------- MODULE ReservationBook --------------------------
(***************************************************************************)
(* What the database promises its callers: every request that changes      *)
(* anything is one atomic step, decided on the state it changes.  No locks,*)
(* no sessions, no partial work; requests that are refused, retried or     *)
(* rolled back do not appear at all.                                       *)
(***************************************************************************)
EXTENDS ReservationRules

VARIABLES customers, reservations, config, hours, capacity

bookVars == <<customers, reservations, config, hours, capacity>>

Init ==
    /\ customers = [e \in Emails |-> NoCustomer]
    /\ reservations = {}
    /\ config = InitConfig /\ hours = InitHours /\ capacity = InitCapacity

\* The customer row before the request's own changes.
Resolved(r) ==
    IF customers[r.email] # NoCustomer THEN customers[r.email]
    ELSE [name |-> r.name, initial |-> r.initial,
          phone |-> IF r.kind = "book" THEN r.phone ELSE NULL,
          subscribed |-> FALSE]

\* A known name is required; a known initial or telephone is never replaced.
MayAct(r) ==
    /\ r.wellFormed
    /\ SameNames(r, Resolved(r))
    /\ ~InitialsConflict(r, Resolved(r))

FillIn(stored, supplied) == IF stored = NULL THEN supplied ELSE stored

\* A booking is accepted on the calendar, the capacities and the book as
\* they are when it becomes visible.
Book(r) ==
    LET start == ResolvedStart(r)
        end   == start + config.duration
        known == Resolved(r)
    IN
    /\ MayAct(r)
    /\ ~OutsideHours(r, config, hours)
    /\ ~PartyRefused(r.party, capacity)
    /\ \A other \in reservations :
          other.email = r.email => ~Overlap(other.starts, other.ends, start, end)
    /\ \E chosen \in BestAllocations(FreeTables(reservations, start, end),
                                     capacity, r.party) :
          reservations' = reservations \cup
             {[email |-> r.email, starts |-> start, ends |-> end,
               party |-> r.party, tables |-> chosen]}
    /\ customers' = [customers EXCEPT ![r.email] =
          [name       |-> known.name,
           initial    |-> FillIn(known.initial, r.initial),
           phone      |-> FillIn(known.phone, r.phone),
           subscribed |-> IF r.newsletter = "no_change" THEN known.subscribed
                          ELSE r.newsletter = "subscribe"]]
    /\ UNCHANGED <<config, hours, capacity>>

Prefer(r) ==
    /\ MayAct(r)
    /\ customers[r.email] # NoCustomer \/ r.subscribe
    /\ customers' = [customers EXCEPT ![r.email] =
          [Resolved(r) EXCEPT !.subscribed = r.subscribe]]
    /\ UNCHANGED <<reservations, config, hours, capacity>>

SetPolicy(r) ==
    /\ LegalPolicy(r)
    /\ config' = IF r.kind = "configuration" THEN r.config ELSE config
    /\ hours' = IF r.kind = "hours"
                THEN [hours EXCEPT ![r.weekday] = r.hours] ELSE hours
    /\ capacity' = IF r.kind = "tables"
                   THEN [capacity EXCEPT ![r.table] = r.seats] ELSE capacity
    /\ UNCHANGED <<customers, reservations>>

Next ==
    \/ \E r \in BookingRequests : Book(r)
    \/ \E r \in PreferenceRequests : Prefer(r)
    \/ \E r \in PolicyRequests : SetPolicy(r)

Spec == Init /\ [][Next]_bookVars
=============================================================================
