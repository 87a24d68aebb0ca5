------------------------ MODULE BookingProperties ------------------------
(***************************************************************************)
(* What the transactions of BookingTransactions promise.                   *)
(***************************************************************************)
EXTENDS BookingTransactions

\* The abstract specification over the committed rows.
Promise == INSTANCE ReservationBook WITH
    customers <- customers, reservations <- reservations, config <- config,
    hours <- hours, capacity <- capacity

\* Every variable holds what its column, lock or PL/pgSQL variable can hold.
TypeOK ==
    /\ customers \in [Emails -> Customer \cup {NoCustomer}]
    /\ reservations \subseteq Reservation
    /\ config \in Configuration
    /\ hours \in [Weekdays -> OpeningHours]
    /\ capacity \in Capacities
    /\ clock \in 0..MaxClock
    /\ restaurantLock \in Sessions \cup {None}
    /\ rowLock \in [PolicyKinds -> Sessions \cup {None}]
    /\ emailLock \in [LockKeys -> Sessions \cup {None}]
    /\ customerRow \in [Emails -> Sessions \cup {None}]
    /\ pc \in [Sessions -> WaitingAt \cup WorkingAt \cup {"idle", "returned", "failed"}]
    /\ req \in [Sessions -> Requests \cup {NoRequest}]
    /\ row \in [Sessions -> Customer \cup {NoCustomer}]
    /\ isNew \in [Sessions -> BOOLEAN]
    /\ seat \in [Sessions -> Reservation \cup {NoReservation}]
    /\ wrote \in [Sessions -> SUBSET {"customer", "reservation", "assignments", "policy"}]
    /\ outcome \in [Sessions -> Outcomes]

-----------------------------------------------------------------------------
(* The book *)

\* No table is given to two reservations whose times overlap, whatever the
\* sessions do between reading the free tables and committing the choice
\* (008: free tables 454-467, inserts 540-587).
NoDoubleBooking ==
    \A r1, r2 \in reservations :
        /\ r1 # r2
        /\ Overlap(r1.starts, r1.ends, r2.starts, r2.ends)
        => r1.tables \cap r2.tables = {}

\* No customer holds two different reservations whose times overlap
\* (008: same_customer_overlap 439-452).
NoCustomerOverlap ==
    \A r1, r2 \in reservations :
        r1 # r2 /\ r1.email = r2.email
        => ~Overlap(r1.starts, r1.ends, r2.starts, r2.ends)

\* Seen from outside, the statements of concurrent transactions are the
\* atomic requests of ReservationBook: a booking appears with its customer,
\* its tables and its newsletter choice at once or not at all, and is the
\* best choice for the policy and the book at the moment it commits; known
\* names, initials and telephones are kept; a refusal, an exact retry or a
\* rollback changes nothing (008: 130-664, 007: 158-378).
ImplementsReservationBook == Promise!Spec

-----------------------------------------------------------------------------
(* The answers *)

\* A refusal that names a fact of the book is still true when the client is
\* told, however long the commit takes and whoever ran in the meantime: no
\* sufficient free tables, an overlapping reservation of the customer, an
\* existing reservation with the confirmed tables (008: 399-490, 649-664).
RefusalsStayTrue ==
    \A s \in Sessions : pc[s] = "returned" =>
        /\ outcome[s] = "unavailable" =>
              BestAllocations(FreeTables(reservations, seat[s].starts, seat[s].ends),
                              capacity, seat[s].party) = {}
        /\ outcome[s] = "same_customer_overlap" =>
              \E r \in reservations :
                  /\ r.email = req[s].email /\ ~SameIdentity(r, seat[s])
                  /\ Overlap(r.starts, r.ends, seat[s].starts, seat[s].ends)
        /\ outcome[s] = "exact_retry" => seat[s] \in reservations

\* The newsletter state reported with an answer is the committed one once the
\* transaction commits: no concurrent change slips between the read and the
\* commit (007: 203-261, 008: 303-307 and 527-538).
ReportedPreferenceIsCurrent ==
    \A s \in Sessions :
        pc[s] = "returned" /\ row[s] # NoCustomer =>
            "customer" \in wrote[s] \/ row[s] = customers[req[s].email]

\* A caller that repeats a booking already in the book under its own name is
\* never told that the request is invalid: the answer it lost is recovered by
\* the exact retry (DB04 design, section 18.2 and the failure table).
LostAnswerRecovered ==
    \A s \in Sessions :
        pc[s] = "returned" /\ req[s].kind = "book" /\ outcome[s] = "invalid_request" =>
            ~\E r \in reservations :
                /\ r.email = req[s].email
                /\ customers[r.email].name = req[s].name
                /\ r.starts = ResolvedStart(req[s])
                /\ r.party = req[s].party

\* A booking that is already in the book is never made again and never stands
\* in its own way: a repetition, even one that ran beside the first call, ends
\* with the exact retry or is refused for what it says of time, policy or
\* customer, but not for an overlap or for lack of tables (008: 399-452).
RepetitionIsRecognised ==
    \A s \in Sessions, r \in reservations :
        /\ pc[s] = "returned" /\ req[s].kind = "book"
        /\ r.email = req[s].email /\ r.party = req[s].party
        /\ r.starts = ResolvedStart(req[s])
        => outcome[s] \in {"exact_retry", "invalid_request",
                           "customer_identity_mismatch", "middle_initial_conflict"}

-----------------------------------------------------------------------------
(* The locks *)

WaitsFor(s, t) ==
    \/ pc[s] = "lock_restaurant" /\ restaurantLock = t
    \/ pc[s] = "lock_configuration" /\ rowLock["configuration"] = t
    \/ pc[s] = "lock_hours" /\ rowLock["hours"] = t
    \/ pc[s] = "lock_tables" /\ rowLock["tables"] = t
    \/ pc[s] = "lock_email" /\ emailLock[LockKey[req[s].email]] = t
    \/ pc[s] \in {"select_customer", "insert_customer"} /\ customerRow[req[s].email] = t

\* No set of sessions waits in a circle, a session on itself included: the
\* order of ADVISORY_LOCKS.md is kept by every function, so 40P01 never
\* comes from these functions alone.
NoLockCycle ==
    \A S \in (SUBSET Sessions) \ {{}} :
        \E s \in S : \A t \in S : ~WaitsFor(s, t)

\* The fallbacks for a rival the locks should keep out are never needed: the
\* unique_violation handlers (008: 331-347 and 561-564, 007: 229-243) and
\* the P6502 postcondition failure (008: 596-634).
FallbacksUnreached ==
    \A s \in Sessions :
        /\ pc[s] = "insert_customer" => customers[req[s].email] = NoCustomer
        /\ outcome[s] \notin {"identity_race", "postcondition_failed"}

-----------------------------------------------------------------------------
(* Progress *)

\* PostgreSQL grants a lock in the order of its queue and a backend runs its
\* statements: a waiting session that finds its lock free again and again
\* gets it, a working session moves on.  A failed function is rolled back by
\* its client.  Timeouts and lost connections may happen but are not counted
\* on.
Fairness ==
    \A s \in Sessions :
        /\ SF_vars(AcquireLock(s))
        /\ WF_vars(Work(s))
        /\ WF_vars(pc[s] = "failed" /\ Abort(s))

FairSpec == Spec /\ Fairness

\* Every transaction ends without the help of a timeout: nobody waits for a
\* lock forever.
EveryTransactionEnds ==
    \A s \in Sessions : pc[s] # "idle" ~> pc[s] = "idle"
=============================================================================
