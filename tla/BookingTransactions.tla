------------------------ MODULE BookingTransactions ------------------------
(***************************************************************************)
(* The PostgreSQL side of Cafe Fausse: READ COMMITTED transactions that    *)
(* call book_reservation, set_newsletter_preference, or one of the three   *)
(* policy writers (set_reservation_configuration, set_restaurant_operating_*)
(* hours, set_restaurant_table_capacity).  Each session runs one such      *)
(* transaction at a time.  A step is one statement of the function: it     *)
(* sees what is committed when it runs plus the transaction's own writes.  *)
(* Writes become visible at Commit; a transaction that fails at any point, *)
(* by a lock or statement timeout, an exception, a lost connection or a    *)
(* server crash, leaves nothing but released locks.                        *)
(***************************************************************************)
EXTENDS ReservationRules

CONSTANTS
    Sessions,            \* connections of the pool
    None,                \* the owner of a free lock
    LockKeys, LockKey,   \* canonical_email_lock_key; distinct e-mails may share
    NoRequest,
    NoReservation,
    MaxClock             \* bound: the clock stops here

ASSUME TransactionAssumption ==
    /\ None \notin Sessions
    /\ LockKey \in [Emails -> LockKeys]
    /\ NoRequest \notin Requests
    /\ NoReservation \notin Reservation
    /\ MaxClock \in Nat

VARIABLES
    \* committed rows
    customers,      \* customers by e-mail
    reservations,   \* reservations with their assignments
    config, hours, capacity,
    clock,          \* clock_timestamp()
    \* locks, held until the transaction ends
    restaurantLock, \* advisory lock (1128682322, 1)
    rowLock,        \* FOR UPDATE on the configuration, hours and table rows
    emailLock,      \* advisory locks (1128678733, key)
    customerRow,    \* row lock, or the unique-index entry of an inserted row
    \* sessions
    pc, req,
    row,            \* `customer`: the customer row as read or written
    isNew,          \* is_new_customer
    seat,           \* the reservation found, planned or inserted
    wrote,          \* the uncommitted writes
    outcome

committed   == <<customers, reservations, config, hours, capacity>>
locks       == <<restaurantLock, rowLock, emailLock, customerRow>>
session     == <<req, row, isNew, seat, wrote, outcome>>
vars        == <<committed, clock, locks, pc, session>>

WaitingAt == {"lock_restaurant", "lock_configuration", "lock_hours",
              "lock_tables", "lock_email", "select_customer", "insert_customer"}
WorkingAt == {"validate", "find_existing", "check_overlap", "allocate",
              "recheck_clock", "update_customer", "insert_reservation",
              "insert_assignments", "check_postconditions",
              "set_preference", "write_policy"}

Outcomes == {"none", "invalid_request", "customer_identity_mismatch",
             "middle_initial_conflict", "exact_retry", "same_customer_overlap",
             "unavailable", "booked", "booked_phone_notice",
             "no_customer_no_change", "subscribed", "unsubscribed",
             "policy_written", "invalid_policy", "identity_race",
             "postcondition_failed"}

Init ==
    /\ customers = [e \in Emails |-> NoCustomer]
    /\ reservations = {}
    /\ config = InitConfig /\ hours = InitHours /\ capacity = InitCapacity
    /\ clock = 0
    /\ restaurantLock = None
    /\ rowLock = [k \in PolicyKinds |-> None]
    /\ emailLock = [k \in LockKeys |-> None]
    /\ customerRow = [e \in Emails |-> None]
    /\ pc = [s \in Sessions |-> "idle"]
    /\ req = [s \in Sessions |-> NoRequest]
    /\ row = [s \in Sessions |-> NoCustomer]
    /\ isNew = [s \in Sessions |-> FALSE]
    /\ seat = [s \in Sessions |-> NoReservation]
    /\ wrote = [s \in Sessions |-> {}]
    /\ outcome = [s \in Sessions |-> "none"]

-----------------------------------------------------------------------------
(* Control *)

Goto(s, label) == pc' = [pc EXCEPT ![s] = label]

\* RETURN QUERY SELECT ...; RETURN.  The locks stay with the transaction.
Return(s, what) ==
    /\ Goto(s, "returned")
    /\ outcome' = [outcome EXCEPT ![s] = what]

\* An error leaves the function: the client can only roll back.
Raise(s, what) ==
    /\ Goto(s, "failed")
    /\ outcome' = [outcome EXCEPT ![s] = what]

Freed(owner, s) == [l \in DOMAIN owner |-> IF owner[l] = s THEN None ELSE owner[l]]

\* Mutant of End: the e-mail lock is a session lock (pg_advisory_lock).
End_KeepsEmailLock(s) ==
    /\ restaurantLock' = IF restaurantLock = s THEN None ELSE restaurantLock
    /\ rowLock' = Freed(rowLock, s)
    /\ UNCHANGED emailLock
    /\ customerRow' = Freed(customerRow, s)
    /\ Goto(s, "idle")
    /\ req' = [req EXCEPT ![s] = NoRequest]
    /\ row' = [row EXCEPT ![s] = NoCustomer]
    /\ isNew' = [isNew EXCEPT ![s] = FALSE]
    /\ seat' = [seat EXCEPT ![s] = NoReservation]
    /\ wrote' = [wrote EXCEPT ![s] = {}]
    /\ outcome' = [outcome EXCEPT ![s] = "none"]

\* The transaction is over: its locks are free, its variables forgotten.
End(s) ==
    /\ restaurantLock' = IF restaurantLock = s THEN None ELSE restaurantLock
    /\ rowLock' = Freed(rowLock, s)
    /\ emailLock' = Freed(emailLock, s)
    /\ customerRow' = Freed(customerRow, s)
    /\ Goto(s, "idle")
    /\ req' = [req EXCEPT ![s] = NoRequest]
    /\ row' = [row EXCEPT ![s] = NoCustomer]
    /\ isNew' = [isNew EXCEPT ![s] = FALSE]
    /\ seat' = [seat EXCEPT ![s] = NoReservation]
    /\ wrote' = [wrote EXCEPT ![s] = {}]
    /\ outcome' = [outcome EXCEPT ![s] = "none"]

\* Bookings and policy writers start with the restaurant lock, newsletter
\* changes with the e-mail lock; malformed input is refused before any lock.
Begin(s) ==
    /\ pc[s] = "idle"
    /\ \E r \in Requests :
        /\ req' = [req EXCEPT ![s] = r]
        /\ IF r.kind \in {"book", "preference"} /\ ~r.wellFormed
           THEN Return(s, "invalid_request")
           ELSE /\ Goto(s, IF r.kind = "preference" THEN "lock_email"
                                                    ELSE "lock_restaurant")
                /\ UNCHANGED outcome
    /\ UNCHANGED <<committed, clock, locks, row, isNew, seat, wrote>>

-----------------------------------------------------------------------------
(* Restaurant-wide locks and the policy writers *)

LockRestaurant(s) ==
    /\ pc[s] = "lock_restaurant"
    /\ restaurantLock = None
    /\ restaurantLock' = s
    /\ Goto(s, CASE req[s].kind = "hours"  -> "lock_hours"
                 [] req[s].kind = "tables" -> "lock_tables"
                 [] OTHER                  -> "lock_configuration")
    /\ UNCHANGED <<committed, clock, rowLock, emailLock, customerRow, session>>

\* A booking locks the configuration row, the hours rows and the table rows
\* in this order; a policy writer locks the rows it is about to update.
LockRows(s, kind, label, next) ==
    /\ pc[s] = label
    /\ rowLock[kind] = None
    /\ rowLock' = [rowLock EXCEPT ![kind] = s]
    /\ Goto(s, IF req[s].kind = "book" THEN next ELSE "write_policy")
    /\ UNCHANGED <<committed, clock, restaurantLock, emailLock, customerRow, session>>

LockConfiguration(s) == LockRows(s, "configuration", "lock_configuration", "lock_hours")
LockHours(s)         == LockRows(s, "hours", "lock_hours", "lock_tables")
LockTables(s)        == LockRows(s, "tables", "lock_tables", "validate")

WritePolicy(s) ==
    /\ pc[s] = "write_policy"
    /\ IF LegalPolicy(req[s])
       THEN /\ wrote' = [wrote EXCEPT ![s] = {"policy"}]
            /\ Return(s, "policy_written")
       ELSE /\ Raise(s, "invalid_policy")
            /\ UNCHANGED wrote
    /\ UNCHANGED <<committed, clock, locks, req, row, isNew, seat>>

-----------------------------------------------------------------------------
(* Booking: validation under the restaurant lock *)

Validate(s) ==
    /\ pc[s] = "validate"
    /\ IF \/ TooLateOrTooEarly(req[s], clock, config)
          \/ OutsideHours(req[s], config, hours)
          \/ PartyRefused(req[s].party, capacity)
       THEN Return(s, "invalid_request") /\ UNCHANGED seat
       ELSE /\ seat' = [seat EXCEPT ![s] =
                  [email  |-> req[s].email,
                   starts |-> ResolvedStart(req[s]),
                   ends   |-> ResolvedStart(req[s]) + config.duration,
                   party  |-> req[s].party,
                   tables |-> {}]]
            /\ Goto(s, "lock_email")
            /\ UNCHANGED outcome
    /\ UNCHANGED <<committed, clock, locks, req, row, isNew, wrote>>

-----------------------------------------------------------------------------
(* The customer row, for bookings and newsletter changes alike *)

\* Mutant of LockEmail: no e-mail lock is taken.
LockEmail_NotTaken(s) ==
    /\ pc[s] = "lock_email"
    /\ Goto(s, "select_customer")
    /\ UNCHANGED <<committed, clock, locks, session>>

LockEmail(s) ==
    /\ pc[s] = "lock_email"
    /\ emailLock[LockKey[req[s].email]] = None
    /\ emailLock' = [emailLock EXCEPT ![LockKey[req[s].email]] = s]
    /\ Goto(s, "select_customer")
    /\ UNCHANGED <<committed, clock, restaurantLock, rowLock, customerRow, session>>

AfterCustomer(r) == IF r.kind = "book" THEN "find_existing" ELSE "set_preference"

CheckIdentity(s, customer) ==
    IF ~SameNames(req[s], customer)
    THEN Return(s, "customer_identity_mismatch")
    ELSE IF InitialsConflict(req[s], customer)
         THEN Return(s, "middle_initial_conflict")
         ELSE Goto(s, AfterCustomer(req[s])) /\ UNCHANGED outcome

\* SELECT ... FOR UPDATE: waits for whoever holds the row, then reads it.
TakeCustomer(s) ==
    LET e == req[s].email IN
    /\ customerRow[e] = None
    /\ customerRow' = [customerRow EXCEPT ![e] = s]
    /\ row' = [row EXCEPT ![s] = customers[e]]
    /\ CheckIdentity(s, customers[e])

SelectCustomer(s) ==
    /\ pc[s] = "select_customer"
    /\ IF customers[req[s].email] # NoCustomer
       THEN TakeCustomer(s)
       ELSE /\ IF req[s].kind = "preference" /\ ~req[s].subscribe
               THEN Return(s, "no_customer_no_change")
               ELSE Goto(s, "insert_customer") /\ UNCHANGED outcome
            /\ UNCHANGED <<customerRow, row>>
    /\ UNCHANGED <<committed, clock, restaurantLock, rowLock, emailLock,
                   req, isNew, seat, wrote>>

\* INSERT waits for an uncommitted row with the same e-mail; if that one
\* commits, the unique_violation handler reads it back FOR UPDATE.
InsertCustomer(s) ==
    LET r == req[s]
        fresh == [name |-> r.name, initial |-> r.initial,
                  phone |-> IF r.kind = "book" THEN r.phone ELSE NULL,
                  subscribed |-> r.kind = "preference"]
    IN
    /\ pc[s] = "insert_customer"
    /\ customerRow[r.email] = None
    /\ IF customers[r.email] # NoCustomer
       THEN TakeCustomer(s) /\ UNCHANGED <<isNew, wrote>>
       ELSE /\ customerRow' = [customerRow EXCEPT ![r.email] = s]
            /\ row' = [row EXCEPT ![s] = fresh]
            /\ isNew' = [isNew EXCEPT ![s] = TRUE]
            /\ wrote' = [wrote EXCEPT ![s] = {"customer"}]
            /\ CheckIdentity(s, fresh)
    /\ UNCHANGED <<committed, clock, restaurantLock, rowLock, emailLock, req, seat>>

SetPreference(s) ==
    /\ pc[s] = "set_preference"
    /\ row' = [row EXCEPT ![s].subscribed = req[s].subscribe]
    /\ wrote' = [wrote EXCEPT ![s] = {"customer"}]
    /\ Return(s, IF req[s].subscribe THEN "subscribed" ELSE "unsubscribed")
    /\ UNCHANGED <<committed, clock, locks, req, isNew, seat>>

-----------------------------------------------------------------------------
(* Booking: the decision and the writes *)

\* Mutant of FindExisting: a repetition is not looked for.
FindExisting_Skipped(s) ==
    /\ pc[s] = "find_existing"
    /\ Goto(s, "check_overlap")
    /\ UNCHANGED <<committed, clock, locks, session>>

\* The fingerprint and the exact tuple name the same row: a candidate with
\* the fingerprint is compared on the tuple.
FindExisting(s) ==
    LET existing == {r \in reservations : SameIdentity(r, seat[s])} IN
    /\ pc[s] = "find_existing"
    /\ \/ /\ existing = {}
          /\ Goto(s, "check_overlap")
          /\ UNCHANGED <<seat, outcome>>
       \/ \E r \in existing :
            /\ seat' = [seat EXCEPT ![s] = r]
            /\ Return(s, "exact_retry")
    /\ UNCHANGED <<committed, clock, locks, req, row, isNew, wrote>>

\* Mutant of CheckOverlap: no look at the customer's other reservations.
CheckOverlap_Skipped(s) ==
    /\ pc[s] = "check_overlap"
    /\ Goto(s, "allocate")
    /\ UNCHANGED <<committed, clock, locks, session>>

CheckOverlap(s) ==
    /\ pc[s] = "check_overlap"
    /\ IF \E r \in reservations :
            /\ r.email = seat[s].email
            /\ Overlap(r.starts, r.ends, seat[s].starts, seat[s].ends)
       THEN Return(s, "same_customer_overlap")
       ELSE Goto(s, "allocate") /\ UNCHANGED outcome
    /\ UNCHANGED <<committed, clock, locks, req, row, isNew, seat, wrote>>

\* Mutant of UndoBlock: the handler still reports the customer it had read.
UndoBlock_KeepsRow(s, what) ==
    /\ Return(s, what)
    /\ emailLock' = Freed(emailLock, s)
    /\ customerRow' = Freed(customerRow, s)
    /\ isNew' = [isNew EXCEPT ![s] = FALSE]
    /\ wrote' = [wrote EXCEPT ![s] = {}]
    /\ UNCHANGED row

\* RAISE P6601: the inner block is undone, and with it every lock it took.
UndoBlock(s, what) ==
    /\ Return(s, what)
    /\ emailLock' = Freed(emailLock, s)
    /\ customerRow' = Freed(customerRow, s)
    /\ row' = [row EXCEPT ![s] = NoCustomer]
    /\ isNew' = [isNew EXCEPT ![s] = FALSE]
    /\ wrote' = [wrote EXCEPT ![s] = {}]

\* Mutant of Allocate: only single tables are considered.
Allocate_SingleTables(s) ==
    LET free == FreeTables(reservations, seat[s].starts, seat[s].ends)
        best == {S \in BestAllocations(free, capacity, seat[s].party) :
                    Cardinality(S) = 1}
    IN
    /\ pc[s] = "allocate"
    /\ \/ /\ best = {}
          /\ UndoBlock(s, "unavailable")
          /\ UNCHANGED seat
       \/ /\ \E chosen \in best : seat' = [seat EXCEPT ![s].tables = chosen]
          /\ Goto(s, "recheck_clock")
          /\ UNCHANGED <<emailLock, customerRow, row, isNew, wrote, outcome>>
    /\ UNCHANGED <<committed, clock, restaurantLock, rowLock, req>>

Allocate(s) ==
    LET free == FreeTables(reservations, seat[s].starts, seat[s].ends)
        best == BestAllocations(free, capacity, seat[s].party)
    IN
    /\ pc[s] = "allocate"
    /\ \/ /\ best = {}
          /\ UndoBlock(s, "unavailable")
          /\ UNCHANGED seat
       \/ /\ \E chosen \in best : seat' = [seat EXCEPT ![s].tables = chosen]
          /\ Goto(s, "recheck_clock")
          /\ UNCHANGED <<emailLock, customerRow, row, isNew, wrote, outcome>>
    /\ UNCHANGED <<committed, clock, restaurantLock, rowLock, req>>

\* time_boundary_crossed_during_booking
RecheckClock(s) ==
    /\ pc[s] = "recheck_clock"
    /\ IF TooLateOrTooEarly(req[s], clock, config)
       THEN UndoBlock(s, "invalid_request")
       ELSE /\ Goto(s, "update_customer")
            /\ UNCHANGED <<emailLock, customerRow, row, isNew, wrote, outcome>>
    /\ UNCHANGED <<committed, clock, restaurantLock, rowLock, req, seat>>

\* Mutant of UpdateCustomer: a supplied telephone replaces the stored one.
UpdateCustomer_ReplacesPhone(s) ==
    /\ pc[s] = "update_customer"
    /\ row' = [row EXCEPT ![s].phone = IF req[s].phone # NULL THEN req[s].phone ELSE @]
    /\ wrote' = [wrote EXCEPT ![s] = @ \cup {"customer"}]
    /\ Goto(s, "insert_reservation")
    /\ UNCHANGED <<committed, clock, locks, req, isNew, seat, outcome>>

\* populate_middle_initial, populate_phone, then the newsletter action.
UpdateCustomer(s) ==
    LET r == req[s]
        fillInitial == ~isNew[s] /\ row[s].initial = NULL /\ r.initial # NULL
        fillPhone   == ~isNew[s] /\ row[s].phone = NULL /\ r.phone # NULL
        updated == [row[s] EXCEPT
            !.initial = IF fillInitial THEN r.initial ELSE @,
            !.phone = IF fillPhone THEN r.phone ELSE @,
            !.subscribed = IF r.newsletter = "no_change" THEN @
                           ELSE r.newsletter = "subscribe"]
    IN
    /\ pc[s] = "update_customer"
    /\ row' = [row EXCEPT ![s] = updated]
    /\ wrote' = [wrote EXCEPT ![s] =
          IF fillInitial \/ fillPhone \/ r.newsletter # "no_change"
          THEN @ \cup {"customer"} ELSE @]
    /\ Goto(s, "insert_reservation")
    /\ UNCHANGED <<committed, clock, locks, req, isNew, seat, outcome>>

InsertReservation(s) ==
    /\ pc[s] = "insert_reservation"
    /\ IF \E r \in reservations : SameIdentity(r, seat[s])
       THEN Raise(s, "identity_race") /\ UNCHANGED wrote
       ELSE /\ wrote' = [wrote EXCEPT ![s] = @ \cup {"reservation"}]
            /\ Goto(s, "insert_assignments")
            /\ UNCHANGED outcome
    /\ UNCHANGED <<committed, clock, locks, req, row, isNew, seat>>

InsertAssignments(s) ==
    /\ pc[s] = "insert_assignments"
    /\ wrote' = [wrote EXCEPT ![s] = @ \cup {"assignments"}]
    /\ Goto(s, "check_postconditions")
    /\ UNCHANGED <<committed, clock, locks, req, row, isNew, seat, outcome>>

\* What the transaction sees of its own reservation.
Inserted(s) ==
    IF "assignments" \in wrote[s] THEN seat[s] ELSE [seat[s] EXCEPT !.tables = {}]

Postconditions(s) ==
    LET mine == Inserted(s) IN
    /\ mine.tables # {}
    /\ SeatsIn(mine.tables, capacity) >= mine.party
    /\ \A r \in reservations :
        Overlap(r.starts, r.ends, mine.starts, mine.ends) =>
            r.email # mine.email /\ r.tables \cap mine.tables = {}

\* A known customer's different telephone is noticed, never overwritten.
DifferingPhone(s) == /\ ~isNew[s]
                     /\ req[s].phone # NULL
                     /\ row[s].phone # req[s].phone

CheckPostconditions(s) ==
    /\ pc[s] = "check_postconditions"
    /\ IF Postconditions(s)
       THEN Return(s, IF DifferingPhone(s) THEN "booked_phone_notice" ELSE "booked")
       ELSE Raise(s, "postcondition_failed")
    /\ UNCHANGED <<committed, clock, locks, req, row, isNew, seat, wrote>>

-----------------------------------------------------------------------------
(* The end of a transaction *)

PolicyWritten(s, kind) == "policy" \in wrote[s] /\ req[s].kind = kind

\* COMMIT.  Whether the reply reaches the client changes nothing here: a
\* client that lost it may Begin again with the same request.
Commit(s) ==
    /\ pc[s] = "returned"
    /\ customers' = IF "customer" \in wrote[s]
                    THEN [customers EXCEPT ![req[s].email] = row[s]]
                    ELSE customers
    /\ reservations' = IF "reservation" \in wrote[s]
                       THEN reservations \cup {Inserted(s)}
                       ELSE reservations
    /\ config' = IF PolicyWritten(s, "configuration") THEN req[s].config ELSE config
    /\ hours' = IF PolicyWritten(s, "hours")
                THEN [hours EXCEPT ![req[s].weekday] = req[s].hours] ELSE hours
    /\ capacity' = IF PolicyWritten(s, "tables")
                   THEN [capacity EXCEPT ![req[s].table] = req[s].seats] ELSE capacity
    /\ End(s)
    /\ UNCHANGED clock

\* ROLLBACK, asked for or not: an exception, lock_timeout, statement_timeout,
\* a connection lost before COMMIT, a server restart.
Abort(s) ==
    /\ pc[s] # "idle"
    /\ End(s)
    /\ UNCHANGED <<committed, clock>>

Tick == /\ clock < MaxClock
        /\ clock' = clock + 1
        /\ UNCHANGED <<committed, locks, pc, session>>

AcquireLock(s) ==
    \/ LockRestaurant(s) \/ LockConfiguration(s) \/ LockHours(s) \/ LockTables(s)
    \/ LockEmail(s) \/ SelectCustomer(s) \/ InsertCustomer(s)

Work(s) ==
    \/ WritePolicy(s) \/ Validate(s) \/ SetPreference(s)
    \/ FindExisting(s) \/ CheckOverlap(s) \/ Allocate(s) \/ RecheckClock(s)
    \/ UpdateCustomer(s) \/ InsertReservation(s) \/ InsertAssignments(s)
    \/ CheckPostconditions(s) \/ Commit(s)

Next ==
    \/ \E s \in Sessions : Begin(s) \/ AcquireLock(s) \/ Work(s) \/ Abort(s)
    \/ Tick

Spec == Init /\ [][Next]_vars
=============================================================================
