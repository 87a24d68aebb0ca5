--------------------------- MODULE BookingProofs ---------------------------
(***************************************************************************)
(* Proofs about BookingTransactions for every number of sessions, tables,  *)
(* customers and requests and every calendar: the type invariant, that no  *)
(* table and no customer is booked twice, that the locks are taken in one  *)
(* order, that answers are true when they are given, and that the          *)
(* transactions implement ReservationBook.                                 *)
(***************************************************************************)
EXTENDS BookingProperties, TLAPS

-----------------------------------------------------------------------------
(* The inductive invariant *)

BookingAt == {"validate", "find_existing", "check_overlap", "allocate",
              "recheck_clock", "update_customer", "insert_reservation",
              "insert_assignments", "check_postconditions"}
CustomerAt == {"lock_email", "select_customer", "insert_customer"}
PolicyAt == {"lock_configuration", "lock_hours", "lock_tables", "write_policy"}

\* Where the plan is known to suit the customer, and where it has tables.
PlannedAt == {"recheck_clock", "update_customer", "insert_reservation",
              "insert_assignments", "check_postconditions"}

\* A session holds a request of the kind its step is for, and what it has
\* read or written so far is fit to be committed.
PhaseOK(s) ==
    /\ pc[s] # "idle" => req[s] \in Requests
    /\ pc[s] \in BookingAt => req[s].kind = "book"
    /\ pc[s] \in CustomerAt => req[s].kind \in {"book", "preference"}
    /\ pc[s] \in PolicyAt \cup {"lock_restaurant"} => req[s].kind # "preference"
    /\ pc[s] = "set_preference" => req[s].kind = "preference"
    /\ pc[s] = "write_policy" => req[s].kind # "book"
    /\ pc[s] \in (BookingAt \ {"validate"}) \cup {"set_preference"} => row[s] \in Customer
    /\ pc[s] \in BookingAt \ {"validate"} => seat[s] \in Reservation
    /\ pc[s] \in CustomerAt /\ req[s].kind = "book" => seat[s] \in Reservation

WritesOK(s) ==
    /\ "customer" \in wrote[s] =>
          row[s] \in Customer /\ req[s].kind \in {"book", "preference"}
    /\ "reservation" \in wrote[s] =>
          /\ seat[s] \in Reservation
          /\ pc[s] \in {"insert_assignments", "check_postconditions", "returned", "failed"}
    /\ "policy" \in wrote[s] =>
          LegalPolicy(req[s]) /\ req[s].kind \in PolicyKinds /\ pc[s] = "returned"
    /\ pc[s] = "idle" => wrote[s] = {}

\* A booking holds the restaurant lock from its first read to its end.
LockOK(s) ==
    /\ pc[s] \in BookingAt => restaurantLock = s
    /\ pc[s] \in CustomerAt /\ req[s].kind = "book" => restaurantLock = s
    /\ pc[s] \in {"lock_configuration", "lock_hours", "lock_tables"} => restaurantLock = s
    /\ "reservation" \in wrote[s] => restaurantLock = s

\* The tables of a plan are free, and its customer is, until it ends.
PlanOK(s) ==
    /\ pc[s] \in PlannedAt \/ "reservation" \in wrote[s] =>
         \A r \in reservations :
            Overlap(r.starts, r.ends, seat[s].starts, seat[s].ends) =>
                r.tables \cap seat[s].tables = {}
    /\ pc[s] \in PlannedAt \cup {"allocate"} \/ "reservation" \in wrote[s] =>
         \A r \in reservations :
            r.email = seat[s].email =>
                ~Overlap(r.starts, r.ends, seat[s].starts, seat[s].ends)

SessionOK == \A s \in Sessions : PhaseOK(s) /\ WritesOK(s) /\ LockOK(s)

BookOK == /\ \A s \in Sessions : PlanOK(s)
          /\ NoDoubleBooking
          /\ NoCustomerOverlap

IInv == TypeOK /\ SessionOK /\ BookOK

-----------------------------------------------------------------------------
(* Facts about the data *)

\* A request has the fields of its kind.
LEMMA RequestFields ==
    ASSUME NEW r \in Requests
    PROVE  /\ r.kind = "book" => r \in BookingRequest
           /\ r.kind = "preference" => r \in PreferenceRequest
           /\ r.kind \in {"book", "preference"} => r.email \in Emails
           /\ r.kind \in {"book", "preference"} \cup PolicyKinds
<1>1. r \in BookingRequest \/ r \in PreferenceRequest \/ r.kind \in PolicyKinds
  BY RulesAssumption DEF Requests
<1>2. r \in BookingRequest => r.kind = "book" /\ r.email \in Emails
  BY DEF BookingRequest
<1>3. r \in PreferenceRequest => r.kind = "preference" /\ r.email \in Emails
  BY DEF PreferenceRequest
<1>4. r.kind \in PolicyKinds => r.kind # "book" /\ r.kind # "preference"
  BY DEF PolicyKinds
<1>5. QED BY <1>1, <1>2, <1>3, <1>4

\* What is taken from the free tables is a set of tables none of the
\* overlapping reservations has.
LEMMA FreeTablesAreFree ==
    ASSUME NEW book, NEW start, NEW end, NEW cap, NEW party,
           NEW S \in BestAllocations(FreeTables(book, start, end), cap, party)
    PROVE  /\ S \subseteq Tables
           /\ \A r \in book : Overlap(r.starts, r.ends, start, end) =>
                                 r.tables \cap S = {}
  BY DEF BestAllocations, FreeTables

\* The plan Validate makes is a reservation without tables.
LEMMA PlanTyped ==
    ASSUME NEW r \in BookingRequest, NEW c \in Configuration, NEW cap,
           ~PartyRefused(r.party, cap)
    PROVE  [email |-> r.email, starts |-> ResolvedStart(r),
            ends |-> ResolvedStart(r) + c.duration,
            party |-> r.party, tables |-> {}] \in Reservation
<1>1. r.email \in Emails /\ r.party \in Int /\ ResolvedStart(r) \in Int
  BY DEF BookingRequest, ResolvedStart
<1>2. c.duration \in Int
  <2>1. c.duration \in DurationChoices
    BY DEF Configuration
  <2>2. DurationChoices \subseteq Int
    BY CalendarAssumption
  <2>3. QED BY <2>1, <2>2
<1>3. r.party \in Nat \ {0}
  BY <1>1 DEF PartyRefused
<1>4. QED BY <1>1, <1>2, <1>3 DEF Reservation

\* Freeing the locks of a session leaves a table of owners.
LEMMA FreedTyped ==
    ASSUME NEW D, NEW owner \in [D -> Sessions \cup {None}], NEW s
    PROVE  Freed(owner, s) \in [D -> Sessions \cup {None}]
  BY DEF Freed

-----------------------------------------------------------------------------
(* Types and phases: one lemma per action *)

\* Begin keeps the types and what a session may commit.
LEMMA BeginKeeps ==
    ASSUME TypeOK, SessionOK, NEW s \in Sessions, Begin(s)
    PROVE  TypeOK' /\ SessionOK'
<1>1. TypeOK'
  BY DEF Begin, Goto, Return, session, committed, locks, TypeOK, WaitingAt, WorkingAt,
     Outcomes
<1>2. ASSUME NEW t \in Sessions PROVE PhaseOK(t)' /\ WritesOK(t)' /\ LockOK(t)'
  BY RequestFields DEF Begin, Goto, Return, session, committed, locks, TypeOK,
     SessionOK, PhaseOK, WritesOK, LockOK, BookingAt, CustomerAt, PolicyAt
<1>3. QED BY <1>1, <1>2 DEF SessionOK

\* LockRestaurant keeps the types and what a session may commit.
LEMMA LockRestaurantKeeps ==
    ASSUME TypeOK, SessionOK, NEW s \in Sessions, LockRestaurant(s)
    PROVE  TypeOK' /\ SessionOK'
<1>1. TypeOK'
  BY DEF LockRestaurant, Goto, session, committed, locks, TypeOK, WaitingAt, WorkingAt,
     Outcomes
<1>2. ASSUME NEW t \in Sessions PROVE PhaseOK(t)' /\ WritesOK(t)' /\ LockOK(t)'
  BY TransactionAssumption DEF LockRestaurant, Goto, session, committed, locks, TypeOK,
     SessionOK, PhaseOK, WritesOK, LockOK, BookingAt, CustomerAt, PolicyAt
<1>3. QED BY <1>1, <1>2 DEF SessionOK

\* LockConfiguration keeps the types and what a session may commit.
LEMMA LockConfigurationKeeps ==
    ASSUME TypeOK, SessionOK, NEW s \in Sessions, LockConfiguration(s)
    PROVE  TypeOK' /\ SessionOK'
<1>1. TypeOK'
  BY DEF LockConfiguration, LockRows, Goto, session, committed, locks, TypeOK, WaitingAt, WorkingAt,
     Outcomes
<1>2. ASSUME NEW t \in Sessions PROVE PhaseOK(t)' /\ WritesOK(t)' /\ LockOK(t)'
  BY RequestFields DEF LockConfiguration, LockRows, Goto, session, committed, locks, TypeOK,
     SessionOK, PhaseOK, WritesOK, LockOK, BookingAt, CustomerAt, PolicyAt
<1>3. QED BY <1>1, <1>2 DEF SessionOK

\* LockHours keeps the types and what a session may commit.
LEMMA LockHoursKeeps ==
    ASSUME TypeOK, SessionOK, NEW s \in Sessions, LockHours(s)
    PROVE  TypeOK' /\ SessionOK'
<1>1. TypeOK'
  BY DEF LockHours, LockRows, Goto, session, committed, locks, TypeOK, WaitingAt, WorkingAt,
     Outcomes
<1>2. ASSUME NEW t \in Sessions PROVE PhaseOK(t)' /\ WritesOK(t)' /\ LockOK(t)'
  BY RequestFields DEF LockHours, LockRows, Goto, session, committed, locks, TypeOK,
     SessionOK, PhaseOK, WritesOK, LockOK, BookingAt, CustomerAt, PolicyAt
<1>3. QED BY <1>1, <1>2 DEF SessionOK

\* LockTables keeps the types and what a session may commit.
LEMMA LockTablesKeeps ==
    ASSUME TypeOK, SessionOK, NEW s \in Sessions, LockTables(s)
    PROVE  TypeOK' /\ SessionOK'
<1>1. TypeOK'
  BY DEF LockTables, LockRows, Goto, session, committed, locks, TypeOK, WaitingAt, WorkingAt,
     Outcomes
<1>2. ASSUME NEW t \in Sessions PROVE PhaseOK(t)' /\ WritesOK(t)' /\ LockOK(t)'
  BY RequestFields DEF LockTables, LockRows, Goto, session, committed, locks, TypeOK,
     SessionOK, PhaseOK, WritesOK, LockOK, BookingAt, CustomerAt, PolicyAt
<1>3. QED BY <1>1, <1>2 DEF SessionOK

\* WritePolicy keeps the types and what a session may commit.
LEMMA WritePolicyKeeps ==
    ASSUME TypeOK, SessionOK, NEW s \in Sessions, WritePolicy(s)
    PROVE  TypeOK' /\ SessionOK'
<1>1. TypeOK'
  BY DEF WritePolicy, Goto, Return, Raise, session, committed, locks, TypeOK, WaitingAt, WorkingAt,
     Outcomes
<1>2. ASSUME NEW t \in Sessions PROVE PhaseOK(t)' /\ WritesOK(t)' /\ LockOK(t)'
  BY RequestFields DEF WritePolicy, Goto, Return, Raise, session, committed, locks, TypeOK,
     SessionOK, PhaseOK, WritesOK, LockOK, BookingAt, CustomerAt, PolicyAt
<1>3. QED BY <1>1, <1>2 DEF SessionOK

\* Validate keeps the types and what a session may commit.
LEMMA ValidateKeeps ==
    ASSUME TypeOK, SessionOK, NEW s \in Sessions, Validate(s)
    PROVE  TypeOK' /\ SessionOK'
<1>a. req[s] \in Requests /\ req[s].kind = "book"
  BY DEF Validate, SessionOK, PhaseOK, BookingAt
<1>0. ~PartyRefused(req[s].party, capacity) =>
        [email |-> req[s].email, starts |-> ResolvedStart(req[s]),
         ends |-> ResolvedStart(req[s]) + config.duration,
         party |-> req[s].party, tables |-> {}] \in Reservation
  BY <1>a, RequestFields, PlanTyped DEF TypeOK
<1>b. seat' \in [Sessions -> Reservation \cup {NoReservation}]
  BY <1>0 DEF Validate, TypeOK
<1>1. TypeOK'
  BY <1>b DEF Validate, Goto, Return, session, committed, locks, TypeOK, WaitingAt, WorkingAt,
     Outcomes
<1>c. /\ wrote' = wrote /\ req' = req /\ row' = row /\ restaurantLock' = restaurantLock
      /\ pc[s] = "validate" /\ pc'[s] \in {"returned", "lock_email"}
      /\ pc'[s] = "lock_email" => seat'[s] \in Reservation
      /\ \A t \in Sessions \ {s} : pc'[t] = pc[t] /\ seat'[t] = seat[t]
  <2>1. /\ wrote' = wrote /\ req' = req /\ row' = row /\ restaurantLock' = restaurantLock
        /\ pc[s] = "validate"
    BY DEF Validate, locks
  <2>2. pc'[s] \in {"returned", "lock_email"} /\ \A t \in Sessions \ {s} : pc'[t] = pc[t]
    BY DEF Validate, Goto, Return, TypeOK
  <2>3. pc'[s] = "lock_email" => seat'[s] \in Reservation
    BY <1>0 DEF Validate, Goto, Return, TypeOK
  <2>4. \A t \in Sessions \ {s} : seat'[t] = seat[t]
    BY DEF Validate, TypeOK
  <2>5. QED BY <2>1, <2>2, <2>3, <2>4
<1>2. ASSUME NEW t \in Sessions PROVE PhaseOK(t)' /\ WritesOK(t)' /\ LockOK(t)'
  <2>0. PhaseOK(t) /\ WritesOK(t) /\ LockOK(t)
    BY DEF SessionOK
  <2>1. CASE t # s
    BY <1>c, <2>0, <2>1 DEF PhaseOK, WritesOK, LockOK
  <2>2. CASE t = s
    <3>1. PhaseOK(s)'
      BY <1>a, <1>c, <2>0, <2>2 DEF PhaseOK, BookingAt, CustomerAt, PolicyAt
    <3>2. WritesOK(s)'
      BY <1>c, <2>0, <2>2 DEF WritesOK
    <3>3. LockOK(s)'
      BY <1>c, <2>0, <2>2 DEF LockOK, BookingAt, CustomerAt
    <3>4. QED BY <2>2, <3>1, <3>2, <3>3
  <2>3. QED BY <2>1, <2>2
<1>3. QED BY <1>1, <1>2 DEF SessionOK

\* LockEmail keeps the types and what a session may commit.
LEMMA LockEmailKeeps ==
    ASSUME TypeOK, SessionOK, NEW s \in Sessions, LockEmail(s)
    PROVE  TypeOK' /\ SessionOK'
<1>1. TypeOK'
  BY DEF LockEmail, Goto, session, committed, locks, TypeOK, WaitingAt, WorkingAt,
     Outcomes
<1>2. ASSUME NEW t \in Sessions PROVE PhaseOK(t)' /\ WritesOK(t)' /\ LockOK(t)'
  BY DEF LockEmail, Goto, session, committed, locks, TypeOK,
     SessionOK, PhaseOK, WritesOK, LockOK, BookingAt, CustomerAt, PolicyAt
<1>3. QED BY <1>1, <1>2 DEF SessionOK

\* SelectCustomer keeps the types and what a session may commit.
LEMMA SelectCustomerKeeps ==
    ASSUME TypeOK, SessionOK, NEW s \in Sessions, SelectCustomer(s)
    PROVE  TypeOK' /\ SessionOK'
<1>a. /\ req[s] \in Requests /\ req[s].kind \in {"book", "preference"}
      /\ req[s].email \in Emails
  BY RequestFields DEF SelectCustomer, SessionOK, PhaseOK, CustomerAt
<1>1. TypeOK'
  BY <1>a DEF SelectCustomer, TakeCustomer, CheckIdentity, AfterCustomer, Goto, Return, session, committed, locks, TypeOK, WaitingAt, WorkingAt,
     Outcomes
<1>2. ASSUME NEW t \in Sessions PROVE PhaseOK(t)' /\ WritesOK(t)' /\ LockOK(t)'
  BY <1>a DEF SelectCustomer, TakeCustomer, CheckIdentity, AfterCustomer, Goto, Return, session, committed, locks, TypeOK,
     SessionOK, PhaseOK, WritesOK, LockOK, BookingAt, CustomerAt, PolicyAt
<1>3. QED BY <1>1, <1>2 DEF SessionOK

\* InsertCustomer keeps the types and what a session may commit.
LEMMA InsertCustomerKeeps ==
    ASSUME TypeOK, SessionOK, NEW s \in Sessions, InsertCustomer(s)
    PROVE  TypeOK' /\ SessionOK'
<1>a. /\ req[s] \in Requests /\ req[s].kind \in {"book", "preference"}
      /\ req[s].email \in Emails
  BY RequestFields DEF InsertCustomer, SessionOK, PhaseOK, CustomerAt
<1>0. [name |-> req[s].name, initial |-> req[s].initial,
       phone |-> IF req[s].kind = "book" THEN req[s].phone ELSE NULL,
       subscribed |-> req[s].kind = "preference"] \in Customer
  <2>1. CASE req[s].kind = "book"
    BY <1>a, <2>1, RequestFields DEF BookingRequest, Customer
  <2>2. CASE req[s].kind = "preference"
    BY <1>a, <2>2, RequestFields DEF PreferenceRequest, Customer
  <2>3. QED BY <1>a, <2>1, <2>2
<1>b. row' \in [Sessions -> Customer \cup {NoCustomer}]
  BY <1>a, <1>0 DEF InsertCustomer, TakeCustomer, TypeOK
<1>c. /\ pc' \in [Sessions -> WaitingAt \cup WorkingAt \cup {"idle", "returned", "failed"}]
      /\ outcome' \in [Sessions -> Outcomes]
  BY <1>a DEF InsertCustomer, TakeCustomer, CheckIdentity, AfterCustomer, Goto,
     Return, TypeOK, WaitingAt, WorkingAt, Outcomes
<1>d. /\ customerRow' \in [Emails -> Sessions \cup {None}]
      /\ isNew' \in [Sessions -> BOOLEAN]
      /\ wrote' \in [Sessions -> SUBSET {"customer", "reservation", "assignments", "policy"}]
  <2>1. /\ customerRow' = [customerRow EXCEPT ![req[s].email] = s]
        /\ isNew' = isNew \/ isNew' = [isNew EXCEPT ![s] = TRUE]
        /\ wrote' = wrote \/ wrote' = [wrote EXCEPT ![s] = {"customer"}]
    BY DEF InsertCustomer, TakeCustomer
  <2>2. customerRow' \in [Emails -> Sessions \cup {None}]
    BY <1>a, <2>1 DEF TypeOK
  <2>3. isNew' \in [Sessions -> BOOLEAN]
    BY <2>1 DEF TypeOK
  <2>4. wrote' \in [Sessions -> SUBSET {"customer", "reservation", "assignments", "policy"}]
    BY <2>1 DEF TypeOK
  <2>5. QED BY <2>2, <2>3, <2>4
<1>e. UNCHANGED <<customers, reservations, config, hours, capacity, clock,
                  restaurantLock, rowLock, emailLock, req, seat>>
  BY DEF InsertCustomer, committed
<1>1. TypeOK'
  BY <1>b, <1>c, <1>d, <1>e DEF TypeOK
<1>2. ASSUME NEW t \in Sessions PROVE PhaseOK(t)' /\ WritesOK(t)' /\ LockOK(t)'
  BY <1>a, <1>0 DEF InsertCustomer, TakeCustomer, CheckIdentity, AfterCustomer, Goto, Return, session, committed, locks, TypeOK,
     SessionOK, PhaseOK, WritesOK, LockOK, BookingAt, CustomerAt, PolicyAt
<1>3. QED BY <1>1, <1>2 DEF SessionOK

\* SetPreference keeps the types and what a session may commit.
LEMMA SetPreferenceKeeps ==
    ASSUME TypeOK, SessionOK, NEW s \in Sessions, SetPreference(s)
    PROVE  TypeOK' /\ SessionOK'
<1>0. [row[s] EXCEPT !.subscribed = req[s].subscribe] \in Customer
  <2>1. req[s] \in PreferenceRequest /\ row[s] \in Customer
    BY RequestFields DEF SetPreference, SessionOK, PhaseOK
  <2>2. QED BY <2>1 DEF PreferenceRequest, Customer
<1>1. TypeOK'
  BY <1>0 DEF SetPreference, Goto, Return, session, committed, locks, TypeOK, WaitingAt, WorkingAt,
     Outcomes
<1>2. ASSUME NEW t \in Sessions PROVE PhaseOK(t)' /\ WritesOK(t)' /\ LockOK(t)'
  BY <1>0 DEF SetPreference, Goto, Return, session, committed, locks, TypeOK,
     SessionOK, PhaseOK, WritesOK, LockOK, BookingAt, CustomerAt, PolicyAt
<1>3. QED BY <1>1, <1>2 DEF SessionOK

\* FindExisting keeps the types and what a session may commit.
LEMMA FindExistingKeeps ==
    ASSUME TypeOK, SessionOK, NEW s \in Sessions, FindExisting(s)
    PROVE  TypeOK' /\ SessionOK'
<1>1. TypeOK'
  BY DEF FindExisting, Goto, Return, session, committed, locks, TypeOK, WaitingAt, WorkingAt,
     Outcomes
<1>2. ASSUME NEW t \in Sessions PROVE PhaseOK(t)' /\ WritesOK(t)' /\ LockOK(t)'
  BY DEF FindExisting, Goto, Return, session, committed, locks, TypeOK,
     SessionOK, PhaseOK, WritesOK, LockOK, BookingAt, CustomerAt, PolicyAt
<1>3. QED BY <1>1, <1>2 DEF SessionOK

\* CheckOverlap keeps the types and what a session may commit.
LEMMA CheckOverlapKeeps ==
    ASSUME TypeOK, SessionOK, NEW s \in Sessions, CheckOverlap(s)
    PROVE  TypeOK' /\ SessionOK'
<1>1. TypeOK'
  BY DEF CheckOverlap, Goto, Return, session, committed, locks, TypeOK, WaitingAt, WorkingAt,
     Outcomes
<1>2. ASSUME NEW t \in Sessions PROVE PhaseOK(t)' /\ WritesOK(t)' /\ LockOK(t)'
  BY DEF CheckOverlap, Goto, Return, session, committed, locks, TypeOK,
     SessionOK, PhaseOK, WritesOK, LockOK, BookingAt, CustomerAt, PolicyAt
<1>3. QED BY <1>1, <1>2 DEF SessionOK

\* The part of TypeOK that UndoBlock touches.
SessionTyped ==
    /\ emailLock \in [LockKeys -> Sessions \cup {None}]
    /\ customerRow \in [Emails -> Sessions \cup {None}]
    /\ pc \in [Sessions -> WaitingAt \cup WorkingAt \cup {"idle", "returned", "failed"}]
    /\ row \in [Sessions -> Customer \cup {NoCustomer}]
    /\ isNew \in [Sessions -> BOOLEAN]
    /\ wrote \in [Sessions -> SUBSET {"customer", "reservation", "assignments", "policy"}]
    /\ outcome \in [Sessions -> Outcomes]

\* The variables an undone block forgets keep their types.
LEMMA UndoTyped ==
    ASSUME TypeOK, NEW s \in Sessions, NEW what \in Outcomes, UndoBlock(s, what)
    PROVE  SessionTyped'
<1>1. emailLock' \in [LockKeys -> Sessions \cup {None}]
  BY FreedTyped DEF UndoBlock, TypeOK
<1>2. customerRow' \in [Emails -> Sessions \cup {None}]
  BY FreedTyped DEF UndoBlock, TypeOK
<1>3. pc' \in [Sessions -> WaitingAt \cup WorkingAt \cup {"idle", "returned", "failed"}]
  BY DEF UndoBlock, Return, Goto, TypeOK
<1>4. outcome' \in [Sessions -> Outcomes]
  BY DEF UndoBlock, Return, TypeOK
<1>5. /\ row' \in [Sessions -> Customer \cup {NoCustomer}]
      /\ isNew' \in [Sessions -> BOOLEAN]
      /\ wrote' \in [Sessions -> SUBSET {"customer", "reservation", "assignments", "policy"}]
  BY DEF UndoBlock, TypeOK
<1>6. QED BY <1>1, <1>2, <1>3, <1>4, <1>5 DEF SessionTyped

\* Allocate keeps the types and what a session may commit.
LEMMA AllocateKeeps ==
    ASSUME TypeOK, SessionOK, NEW s \in Sessions, Allocate(s)
    PROVE  TypeOK' /\ SessionOK'
<1>0. /\ seat[s] \in Reservation
      /\ \A S \in BestAllocations(FreeTables(reservations, seat[s].starts, seat[s].ends),
                                 capacity, seat[s].party) :
            [seat[s] EXCEPT !.tables = S] \in Reservation
  <2>1. seat[s] \in Reservation
    BY DEF Allocate, SessionOK, PhaseOK, BookingAt
  <2>2. QED BY <2>1, FreeTablesAreFree DEF Reservation
<1>b. seat' \in [Sessions -> Reservation \cup {NoReservation}]
  BY <1>0 DEF Allocate, TypeOK
<1>c. SessionTyped'
  <2>1. CASE UndoBlock(s, "unavailable")
    BY <2>1, UndoTyped DEF Outcomes
  <2>2. CASE ~UndoBlock(s, "unavailable")
    <3>1. /\ pc' = [pc EXCEPT ![s] = "recheck_clock"]
          /\ UNCHANGED <<emailLock, customerRow, row, isNew, wrote, outcome>>
      BY <2>2 DEF Allocate, Goto
    <3>2. QED BY <3>1 DEF SessionTyped, TypeOK, WorkingAt
  <2>3. QED BY <2>1, <2>2
<1>d. UNCHANGED <<committed, clock, restaurantLock, rowLock, req>>
  BY DEF Allocate
<1>1. TypeOK'
  BY <1>b, <1>c, <1>d DEF SessionTyped, committed, TypeOK
<1>2. ASSUME NEW t \in Sessions PROVE PhaseOK(t)' /\ WritesOK(t)' /\ LockOK(t)'
  BY <1>0 DEF Allocate, UndoBlock, Goto, Return, session, committed, locks, TypeOK,
     SessionOK, PhaseOK, WritesOK, LockOK, BookingAt, CustomerAt, PolicyAt
<1>3. QED BY <1>1, <1>2 DEF SessionOK

\* RecheckClock keeps the types and what a session may commit.
LEMMA RecheckClockKeeps ==
    ASSUME TypeOK, SessionOK, NEW s \in Sessions, RecheckClock(s)
    PROVE  TypeOK' /\ SessionOK'
<1>c. SessionTyped'
  <2>1. CASE UndoBlock(s, "invalid_request")
    BY <2>1, UndoTyped DEF Outcomes
  <2>2. CASE ~UndoBlock(s, "invalid_request")
    <3>1. /\ pc' = [pc EXCEPT ![s] = "update_customer"]
          /\ UNCHANGED <<emailLock, customerRow, row, isNew, wrote, outcome>>
      BY <2>2 DEF RecheckClock, Goto
    <3>2. QED BY <3>1 DEF SessionTyped, TypeOK, WorkingAt
  <2>3. QED BY <2>1, <2>2
<1>d. UNCHANGED <<committed, clock, restaurantLock, rowLock, req, seat>>
  BY DEF RecheckClock
<1>1. TypeOK'
  BY <1>c, <1>d DEF SessionTyped, committed, TypeOK
<1>2. ASSUME NEW t \in Sessions PROVE PhaseOK(t)' /\ WritesOK(t)' /\ LockOK(t)'
  BY DEF RecheckClock, UndoBlock, Goto, Return, session, committed, locks, TypeOK,
     SessionOK, PhaseOK, WritesOK, LockOK, BookingAt, CustomerAt, PolicyAt
<1>3. QED BY <1>1, <1>2 DEF SessionOK

\* UpdateCustomer keeps the types and what a session may commit.
LEMMA UpdateCustomerKeeps ==
    ASSUME TypeOK, SessionOK, NEW s \in Sessions, UpdateCustomer(s)
    PROVE  TypeOK' /\ SessionOK'
<1>a. req[s] \in Requests /\ req[s].kind = "book"
  BY DEF UpdateCustomer, SessionOK, PhaseOK, BookingAt
<1>0. row'[s] \in Customer /\ row' = [row EXCEPT ![s] = row'[s]]
  <2>1. req[s] \in BookingRequest /\ row[s] \in Customer
    BY <1>a, RequestFields DEF UpdateCustomer, SessionOK, PhaseOK, BookingAt
  <2>2. /\ req[s].initial \in Initials \cup {NULL} /\ req[s].phone \in Phones \cup {NULL}
        /\ row[s].initial \in Initials \cup {NULL} /\ row[s].phone \in Phones \cup {NULL}
        /\ row[s].name \in Names /\ row[s].subscribed \in BOOLEAN
    BY <2>1 DEF BookingRequest, Customer
  <2>3. \A i \in Initials \cup {NULL}, p \in Phones \cup {NULL}, b \in BOOLEAN :
           [row[s] EXCEPT !.initial = i, !.phone = p, !.subscribed = b] \in Customer
    BY <2>1, <2>2 DEF Customer
  <2>4. \E updated \in Customer : row' = [row EXCEPT ![s] = updated]
    BY <2>2, <2>3 DEF UpdateCustomer
  <2>5. QED BY <2>4 DEF TypeOK
<1>1. TypeOK'
  BY <1>0 DEF UpdateCustomer, Goto, Return, session, committed, locks, TypeOK, WaitingAt, WorkingAt,
     Outcomes
<1>2. ASSUME NEW t \in Sessions PROVE PhaseOK(t)' /\ WritesOK(t)' /\ LockOK(t)'
  BY <1>0 DEF UpdateCustomer, Goto, Return, session, committed, locks, TypeOK,
     SessionOK, PhaseOK, WritesOK, LockOK, BookingAt, CustomerAt, PolicyAt
<1>3. QED BY <1>1, <1>2 DEF SessionOK

\* InsertReservation keeps the types and what a session may commit.
LEMMA InsertReservationKeeps ==
    ASSUME TypeOK, SessionOK, NEW s \in Sessions, InsertReservation(s)
    PROVE  TypeOK' /\ SessionOK'
<1>1. TypeOK'
  BY DEF InsertReservation, Goto, Raise, session, committed, locks, TypeOK, WaitingAt, WorkingAt,
     Outcomes
<1>2. ASSUME NEW t \in Sessions PROVE PhaseOK(t)' /\ WritesOK(t)' /\ LockOK(t)'
  BY DEF InsertReservation, Goto, Raise, session, committed, locks, TypeOK,
     SessionOK, PhaseOK, WritesOK, LockOK, BookingAt, CustomerAt, PolicyAt
<1>3. QED BY <1>1, <1>2 DEF SessionOK

\* InsertAssignments keeps the types and what a session may commit.
LEMMA InsertAssignmentsKeeps ==
    ASSUME TypeOK, SessionOK, NEW s \in Sessions, InsertAssignments(s)
    PROVE  TypeOK' /\ SessionOK'
<1>1. TypeOK'
  BY DEF InsertAssignments, Goto, session, committed, locks, TypeOK, WaitingAt, WorkingAt,
     Outcomes
<1>2. ASSUME NEW t \in Sessions PROVE PhaseOK(t)' /\ WritesOK(t)' /\ LockOK(t)'
  BY DEF InsertAssignments, Goto, session, committed, locks, TypeOK,
     SessionOK, PhaseOK, WritesOK, LockOK, BookingAt, CustomerAt, PolicyAt
<1>3. QED BY <1>1, <1>2 DEF SessionOK

\* CheckPostconditions keeps the types and what a session may commit.
LEMMA CheckPostconditionsKeeps ==
    ASSUME TypeOK, SessionOK, NEW s \in Sessions, CheckPostconditions(s)
    PROVE  TypeOK' /\ SessionOK'
<1>1. TypeOK'
  BY DEF CheckPostconditions, Goto, Return, Raise, session, committed, locks, TypeOK, WaitingAt, WorkingAt,
     Outcomes
<1>2. ASSUME NEW t \in Sessions PROVE PhaseOK(t)' /\ WritesOK(t)' /\ LockOK(t)'
  BY DEF CheckPostconditions, Goto, Return, Raise, session, committed, locks, TypeOK,
     SessionOK, PhaseOK, WritesOK, LockOK, BookingAt, CustomerAt, PolicyAt
<1>3. QED BY <1>1, <1>2 DEF SessionOK

\* Commit keeps the types and what a session may commit.
LEMMA CommitKeeps ==
    ASSUME TypeOK, SessionOK, NEW s \in Sessions, Commit(s)
    PROVE  TypeOK' /\ SessionOK'
<1>a. customers' \in [Emails -> Customer \cup {NoCustomer}]
  BY RequestFields DEF Commit, TypeOK, SessionOK, WritesOK, PhaseOK
<1>b. reservations' \subseteq Reservation
  <2>1. "reservation" \in wrote[s] => Inserted(s) \in Reservation
    BY DEF SessionOK, WritesOK, Inserted, Reservation
  <2>2. QED BY <2>1 DEF Commit, TypeOK
<1>c. /\ config' \in Configuration
      /\ hours' \in [Weekdays -> OpeningHours]
      /\ capacity' \in Capacities
  <2>1. "policy" \in wrote[s] => LegalPolicy(req[s])
    BY DEF SessionOK, WritesOK
  <2>2. config' \in Configuration
    BY <2>1 DEF Commit, PolicyWritten, LegalPolicy, TypeOK
  <2>3. hours' \in [Weekdays -> OpeningHours]
    BY <2>1 DEF Commit, PolicyWritten, LegalPolicy, TypeOK
  <2>4. capacity' \in Capacities
    BY <2>1 DEF Commit, PolicyWritten, LegalPolicy, TypeOK, Capacities
  <2>5. QED BY <2>2, <2>3, <2>4
<1>f. /\ Freed(rowLock, s) \in [PolicyKinds -> Sessions \cup {None}]
      /\ Freed(emailLock, s) \in [LockKeys -> Sessions \cup {None}]
      /\ Freed(customerRow, s) \in [Emails -> Sessions \cup {None}]
  BY FreedTyped DEF TypeOK
<1>1. TypeOK'
  BY <1>a, <1>b, <1>c, <1>f DEF Commit, End, Goto, PolicyWritten, session, committed, locks, TypeOK, WaitingAt, WorkingAt,
     Outcomes
<1>2. ASSUME NEW t \in Sessions PROVE PhaseOK(t)' /\ WritesOK(t)' /\ LockOK(t)'
  BY DEF Commit, End, Goto, PolicyWritten, session, committed, locks, TypeOK,
     SessionOK, PhaseOK, WritesOK, LockOK, BookingAt, CustomerAt, PolicyAt
<1>3. QED BY <1>1, <1>2 DEF SessionOK

\* Abort keeps the types and what a session may commit.
LEMMA AbortKeeps ==
    ASSUME TypeOK, SessionOK, NEW s \in Sessions, Abort(s)
    PROVE  TypeOK' /\ SessionOK'
<1>f. /\ Freed(rowLock, s) \in [PolicyKinds -> Sessions \cup {None}]
      /\ Freed(emailLock, s) \in [LockKeys -> Sessions \cup {None}]
      /\ Freed(customerRow, s) \in [Emails -> Sessions \cup {None}]
  BY FreedTyped DEF TypeOK
<1>1. TypeOK'
  BY <1>f DEF Abort, End, Goto, session, committed, locks, TypeOK, WaitingAt, WorkingAt,
     Outcomes
<1>2. ASSUME NEW t \in Sessions PROVE PhaseOK(t)' /\ WritesOK(t)' /\ LockOK(t)'
  BY DEF Abort, End, Goto, session, committed, locks, TypeOK,
     SessionOK, PhaseOK, WritesOK, LockOK, BookingAt, CustomerAt, PolicyAt
<1>3. QED BY <1>1, <1>2 DEF SessionOK

\* Time passing keeps the types.
LEMMA TickKeeps ==
    ASSUME TypeOK, SessionOK, Tick
    PROVE  TypeOK' /\ SessionOK'
<1>1. TypeOK'
  <2>1. clock' \in 0..MaxClock
    BY TransactionAssumption DEF Tick, TypeOK
  <2>2. QED BY <2>1 DEF Tick, TypeOK, committed, locks, session
<1>2. SessionOK'
  BY DEF Tick, committed, locks, session, SessionOK, PhaseOK, WritesOK, LockOK
<1>3. QED BY <1>1, <1>2

\* A step that changes nothing keeps the types.
LEMMA StutterKeeps ==
    ASSUME TypeOK, SessionOK, UNCHANGED vars
    PROVE  TypeOK' /\ SessionOK'
<1>1. TypeOK'
  BY DEF vars, TypeOK, committed, locks, session
<1>2. SessionOK'
  BY DEF vars, committed, locks, session, SessionOK, PhaseOK, WritesOK, LockOK
<1>3. QED BY <1>1, <1>2

\* The initial states have the types.
LEMMA InitTyped == Init => TypeOK /\ SessionOK
<1> SUFFICES ASSUME Init PROVE TypeOK /\ SessionOK
  OBVIOUS
<1>1. TypeOK
  BY RulesAssumption, TransactionAssumption DEF Init, TypeOK, Outcomes
<1>2. SessionOK
  BY DEF Init, SessionOK, PhaseOK, WritesOK, LockOK, BookingAt, CustomerAt, PolicyAt
<1>3. QED BY <1>1, <1>2

\* Every step keeps the types, action by action.
LEMMA NextKeepsTypes ==
    TypeOK /\ SessionOK /\ [Next]_vars => TypeOK' /\ SessionOK'
<1> SUFFICES ASSUME TypeOK, SessionOK, [Next]_vars
             PROVE  TypeOK' /\ SessionOK'
  OBVIOUS
<1>1. ASSUME NEW s \in Sessions, Begin(s) PROVE TypeOK' /\ SessionOK'
  BY <1>1, BeginKeeps
<1>2. ASSUME NEW s \in Sessions, AcquireLock(s) PROVE TypeOK' /\ SessionOK'
  BY <1>2, LockRestaurantKeeps, LockConfigurationKeeps, LockHoursKeeps,
     LockTablesKeeps, LockEmailKeeps, SelectCustomerKeeps, InsertCustomerKeeps
     DEF AcquireLock
<1>3. ASSUME NEW s \in Sessions, Work(s) PROVE TypeOK' /\ SessionOK'
  BY <1>3, WritePolicyKeeps, ValidateKeeps, SetPreferenceKeeps, FindExistingKeeps,
     CheckOverlapKeeps, AllocateKeeps, RecheckClockKeeps, UpdateCustomerKeeps,
     InsertReservationKeeps, InsertAssignmentsKeeps, CheckPostconditionsKeeps,
     CommitKeeps DEF Work
<1>4. ASSUME NEW s \in Sessions, Abort(s) PROVE TypeOK' /\ SessionOK'
  BY <1>4, AbortKeeps
<1>5. QED BY <1>1, <1>2, <1>3, <1>4, TickKeeps, StutterKeeps DEF Next

\* Every variable keeps its type, whatever the sessions do.
THEOREM TypeCorrect == Spec => []TypeOK
<1>1. Init => TypeOK /\ SessionOK
  BY InitTyped
<1>2. TypeOK /\ SessionOK /\ [Next]_vars => (TypeOK /\ SessionOK)'
  BY NextKeepsTypes
<1>3. QED BY <1>1, <1>2, PTL DEF Spec

-----------------------------------------------------------------------------
(* The book *)

\* Until it commits, a session's step concerns its own plan only.
Own(s) ==
    /\ reservations' = reservations
    /\ \A t \in Sessions \ {s} :
          pc'[t] = pc[t] /\ seat'[t] = seat[t] /\ wrote'[t] = wrote[t]

\* A step that leaves the book and the other sessions' plans alone needs only
\* its own plan to be sound afterwards.
LEMMA OwnStep ==
    ASSUME BookOK, NEW s \in Sessions, Own(s), PlanOK(s)'
    PROVE  BookOK'
<1>1. ASSUME NEW t \in Sessions \ {s} PROVE PlanOK(t)'
  BY <1>1 DEF BookOK, Own, PlanOK
<1>2. NoDoubleBooking' /\ NoCustomerOverlap'
  BY DEF BookOK, Own, NoDoubleBooking, NoCustomerOverlap
<1>3. QED BY <1>1, <1>2 DEF BookOK

\* Outside the part of a booking that follows the overlap check there is no
\* plan to keep.
LEMMA NoPlan ==
    ASSUME NEW s \in Sessions, pc'[s] \notin PlannedAt \cup {"allocate"},
           "reservation" \notin wrote'[s]
    PROVE  PlanOK(s)'
  BY DEF PlanOK

\* Taking a lock keeps the book sound.
LEMMA AcquireKeepsBook ==
    ASSUME TypeOK, SessionOK, BookOK, NEW s \in Sessions, Begin(s) \/ AcquireLock(s)
    PROVE  BookOK'
<1>1. Own(s)
  BY DEF Own, TypeOK, Begin, AcquireLock, LockRestaurant, LockConfiguration,
     LockHours, LockTables, LockRows, LockEmail, SelectCustomer, InsertCustomer,
     TakeCustomer, CheckIdentity, Goto, Return, committed, locks, session
<1>2. pc'[s] \notin PlannedAt \cup {"allocate"} /\ "reservation" \notin wrote'[s]
  BY DEF TypeOK, SessionOK, WritesOK, PlannedAt, Begin, AcquireLock, LockRestaurant,
     LockConfiguration, LockHours, LockTables, LockRows, LockEmail, SelectCustomer,
     InsertCustomer, TakeCustomer, CheckIdentity, AfterCustomer, Goto, Return,
     committed, locks, session
<1>3. QED BY <1>1, <1>2, NoPlan, OwnStep

\* The first steps of a booking, and every step of the other requests.
LEMMA EarlyWorkKeepsBook ==
    ASSUME TypeOK, SessionOK, BookOK, NEW s \in Sessions,
           \/ WritePolicy(s) \/ Validate(s) \/ SetPreference(s)
           \/ FindExisting(s) \/ Abort(s)
    PROVE  BookOK'
<1>1. Own(s)
  BY DEF Own, TypeOK, WritePolicy, Validate, SetPreference, FindExisting, Abort,
     End, Goto, Return, Raise, committed, locks, session
<1>2. pc'[s] \notin PlannedAt \cup {"allocate"} /\ "reservation" \notin wrote'[s]
  BY DEF TypeOK, SessionOK, WritesOK, PlannedAt, WritePolicy, Validate,
     SetPreference, FindExisting, Abort, End, Goto, Return, Raise, committed,
     locks, session
<1>3. QED BY <1>1, <1>2, NoPlan, OwnStep

\* A plan that passes the overlap check suits its customer.
LEMMA CheckOverlapKeepsBook ==
    ASSUME TypeOK, SessionOK, BookOK, NEW s \in Sessions, CheckOverlap(s)
    PROVE  BookOK'
<1>1. Own(s) /\ seat' = seat
  BY DEF Own, TypeOK, CheckOverlap, Goto, Return, committed
<1>2. pc'[s] \in {"allocate", "returned"} /\ "reservation" \notin wrote'[s]
  BY DEF TypeOK, SessionOK, WritesOK, CheckOverlap, Goto, Return
<1>3. pc'[s] = "allocate" =>
        \A r \in reservations : r.email = seat[s].email =>
            ~Overlap(r.starts, r.ends, seat[s].starts, seat[s].ends)
  BY DEF CheckOverlap, TypeOK, Goto, Return
<1>4. PlanOK(s)'
  BY <1>1, <1>2, <1>3 DEF PlanOK, PlannedAt, Own
<1>5. QED BY <1>1, <1>4, OwnStep

\* A plan that leaves Allocate has tables nobody else has for its time.
LEMMA AllocateKeepsBook ==
    ASSUME TypeOK, SessionOK, BookOK, NEW s \in Sessions, Allocate(s)
    PROVE  BookOK'
<1>1. Own(s) /\ "reservation" \notin wrote'[s]
  BY DEF Own, TypeOK, SessionOK, WritesOK, Allocate, UndoBlock, Goto, Return, committed
<1>2. CASE pc'[s] = "returned"
  <2>1. PlanOK(s)'
    BY <1>1, <1>2, NoPlan DEF PlannedAt
  <2>2. QED BY <1>1, <2>1, OwnStep
<1>3. CASE pc'[s] # "returned"
  <2>1. PICK chosen \in BestAllocations(
                 FreeTables(reservations, seat[s].starts, seat[s].ends),
                 capacity, seat[s].party) :
           seat' = [seat EXCEPT ![s].tables = chosen]
    BY <1>3 DEF Allocate, UndoBlock, Return, Goto, TypeOK
  <2>2. seat[s] \in Reservation
    BY DEF Allocate, SessionOK, PhaseOK, BookingAt
  <2>3. /\ seat'[s].starts = seat[s].starts /\ seat'[s].ends = seat[s].ends
        /\ seat'[s].email = seat[s].email /\ seat'[s].tables = chosen
    BY <2>1, <2>2 DEF TypeOK, Reservation
  <2>4. \A r \in reservations :
            Overlap(r.starts, r.ends, seat[s].starts, seat[s].ends) =>
                r.tables \cap chosen = {}
    BY <2>1, FreeTablesAreFree
  <2>5. \A r \in reservations : r.email = seat[s].email =>
            ~Overlap(r.starts, r.ends, seat[s].starts, seat[s].ends)
    BY DEF Allocate, BookOK, PlanOK
  <2>6. PlanOK(s)'
    BY <1>1, <2>3, <2>4, <2>5 DEF PlanOK, Own
  <2>7. QED BY <1>1, <2>6, OwnStep
<1>4. QED BY <1>2, <1>3

\* From the clock check to the postconditions the plan does not change.
LEMMA LateWorkKeepsBook ==
    ASSUME TypeOK, SessionOK, BookOK, NEW s \in Sessions,
           \/ RecheckClock(s) \/ UpdateCustomer(s) \/ InsertReservation(s)
           \/ InsertAssignments(s) \/ CheckPostconditions(s)
    PROVE  BookOK'
<1>1. Own(s) /\ seat' = seat /\ pc[s] \in PlannedAt
  BY DEF Own, TypeOK, RecheckClock, UpdateCustomer, InsertReservation, UndoBlock,
     InsertAssignments, CheckPostconditions, Goto, Return, Raise, committed, PlannedAt
<1>2. PlanOK(s)'
  BY <1>1 DEF PlanOK, Own, BookOK
<1>3. QED BY <1>1, <1>2, OwnStep

\* Only the holder of the restaurant lock has a plan.
LEMMA PlanNeedsLock ==
    ASSUME SessionOK, NEW t \in Sessions,
           pc[t] \in PlannedAt \cup {"allocate"} \/ "reservation" \in wrote[t]
    PROVE  restaurantLock = t
  BY DEF SessionOK, LockOK, PlannedAt, BookingAt

\* What a plan promised holds of the book its commit makes.
LEMMA CommitKeepsBook ==
    ASSUME TypeOK, SessionOK, BookOK, NEW s \in Sessions, Commit(s)
    PROVE  BookOK'
<1>1. /\ pc'[s] = "idle" /\ wrote'[s] = {}
      /\ \A t \in Sessions \ {s} :
            pc'[t] = pc[t] /\ seat'[t] = seat[t] /\ wrote'[t] = wrote[t]
  BY DEF Commit, End, Goto, TypeOK
<1>2. PlanOK(s)'
  BY <1>1, NoPlan DEF PlannedAt
<1>3. CASE "reservation" \notin wrote[s]
  <2>1. Own(s)
    BY <1>1, <1>3 DEF Commit, Own
  <2>2. QED BY <1>2, <2>1, OwnStep
<1>4. CASE "reservation" \in wrote[s]
  <2> DEFINE mine == Inserted(s)
  <2>1. /\ reservations' = reservations \cup {mine}
        /\ mine.email = seat[s].email /\ mine.starts = seat[s].starts
        /\ mine.ends = seat[s].ends /\ mine.tables \subseteq seat[s].tables
    BY <1>4 DEF Commit, Inserted, SessionOK, WritesOK, Reservation
  <2>2. \A r \in reservations :
            /\ Overlap(r.starts, r.ends, mine.starts, mine.ends) =>
                   r.tables \cap mine.tables = {}
            /\ r.email = mine.email => ~Overlap(r.starts, r.ends, mine.starts, mine.ends)
    BY <1>4, <2>1 DEF BookOK, PlanOK
  <2>3. \A r \in reservations : Overlap(mine.starts, mine.ends, r.starts, r.ends) =
                                Overlap(r.starts, r.ends, mine.starts, mine.ends)
    BY DEF Overlap
  <2>4. NoDoubleBooking'
    BY <2>1, <2>2, <2>3 DEF NoDoubleBooking, BookOK
  <2>5. NoCustomerOverlap'
    BY <2>1, <2>2, <2>3 DEF NoCustomerOverlap, BookOK
  <2>6. ASSUME NEW t \in Sessions \ {s} PROVE PlanOK(t)'
    <3>1. restaurantLock = s
      BY <1>4, PlanNeedsLock
    <3>2. pc[t] \notin PlannedAt \cup {"allocate"} /\ "reservation" \notin wrote[t]
      BY <3>1, <2>6, PlanNeedsLock
    <3>3. QED BY <1>1, <3>2, NoPlan
  <2>7. QED BY <1>2, <2>4, <2>5, <2>6 DEF BookOK
<1>5. QED BY <1>3, <1>4

\* Every step keeps the book sound.
LEMMA NextKeepsBook ==
    TypeOK /\ SessionOK /\ BookOK /\ [Next]_vars => BookOK'
<1> SUFFICES ASSUME TypeOK, SessionOK, BookOK, [Next]_vars PROVE BookOK'
  OBVIOUS
<1>1. ASSUME NEW s \in Sessions, Begin(s) \/ AcquireLock(s) \/ Abort(s) PROVE BookOK'
  BY <1>1, AcquireKeepsBook, EarlyWorkKeepsBook
<1>2. ASSUME NEW s \in Sessions, Work(s) PROVE BookOK'
  BY <1>2, EarlyWorkKeepsBook, CheckOverlapKeepsBook, AllocateKeepsBook,
     LateWorkKeepsBook, CommitKeepsBook DEF Work
<1>3. CASE Tick \/ UNCHANGED vars
  BY <1>3 DEF Tick, vars, committed, session, BookOK, PlanOK, NoDoubleBooking,
     NoCustomerOverlap
<1>4. QED BY <1>1, <1>2, <1>3 DEF Next

\* The empty book is sound.
LEMMA InitBook == Init => BookOK
  BY DEF Init, BookOK, PlanOK, PlannedAt, NoDoubleBooking, NoCustomerOverlap

\* No table is ever given to two parties whose times overlap: the session
\* that commits a plan has held the restaurant lock since it read the book.
THEOREM NoTableBookedTwice == Spec => []NoDoubleBooking
<1>1. Init => IInv
  BY InitTyped, InitBook DEF IInv
<1>2. IInv /\ [Next]_vars => IInv'
  BY NextKeepsTypes, NextKeepsBook DEF IInv
<1>3. IInv => NoDoubleBooking
  BY DEF IInv, BookOK
<1>4. QED BY <1>1, <1>2, <1>3, PTL DEF Spec

\* No customer ever holds two reservations whose times overlap.
THEOREM NoCustomerBookedTwice == Spec => []NoCustomerOverlap
<1>1. Init => IInv
  BY InitTyped, InitBook DEF IInv
<1>2. IInv /\ [Next]_vars => IInv'
  BY NextKeepsTypes, NextKeepsBook DEF IInv
<1>3. IInv => NoCustomerOverlap
  BY DEF IInv, BookOK
<1>4. QED BY <1>1, <1>2, <1>3, PTL DEF Spec

-----------------------------------------------------------------------------
(* The order of the locks *)

\* Whoever holds a lock is past the statement that takes it, and waits only
\* for locks that come later in the order.
BeforeRows == {"idle", "lock_restaurant"}
BeforeEmail == BeforeRows \cup {"lock_configuration", "lock_hours", "lock_tables",
                                "validate", "lock_email"}

OrderOK(s) ==
    /\ restaurantLock = s => pc[s] \notin BeforeRows
    /\ rowLock["configuration"] = s => pc[s] \notin BeforeRows \cup {"lock_configuration"}
    /\ rowLock["hours"] = s =>
          pc[s] \notin BeforeRows \cup {"lock_configuration", "lock_hours"}
    /\ rowLock["tables"] = s =>
          pc[s] \notin BeforeRows \cup {"lock_configuration", "lock_hours", "lock_tables"}
    /\ \A k \in LockKeys : emailLock[k] = s => pc[s] \notin BeforeEmail
    /\ \A e \in Emails : customerRow[e] = s =>
          pc[s] \notin BeforeEmail \cup {"select_customer", "insert_customer"}

\* A step gives no lock to another session and does not move it.
LEMMA OthersOrder ==
    ASSUME TypeOK, SessionOK, NEW s \in Sessions, NEW t \in Sessions \ {s}, OrderOK(t),
           Begin(s) \/ AcquireLock(s) \/ Work(s) \/ Abort(s)
    PROVE  OrderOK(t)'
<1>1. pc'[t] = pc[t]
  BY DEF TypeOK, Begin, AcquireLock, Work, LockRestaurant, LockConfiguration, LockHours,
     LockTables, LockRows, LockEmail, SelectCustomer, InsertCustomer, TakeCustomer,
     CheckIdentity, WritePolicy, Validate, SetPreference, FindExisting, CheckOverlap,
     Allocate, RecheckClock, UndoBlock, UpdateCustomer, InsertReservation,
     InsertAssignments, CheckPostconditions, Commit, Abort, End, Goto, Return, Raise
<1>2. restaurantLock' = t => restaurantLock = t
  BY TransactionAssumption DEF Begin, AcquireLock, Work, LockRestaurant, LockConfiguration, LockHours,
     LockTables, LockRows, LockEmail, SelectCustomer, InsertCustomer,
     WritePolicy, Validate, SetPreference, FindExisting, CheckOverlap,
     Allocate, RecheckClock, UpdateCustomer, InsertReservation,
     InsertAssignments, CheckPostconditions, Commit, Abort, End, locks
<1>3. ASSUME NEW k \in PolicyKinds PROVE rowLock'[k] = t => rowLock[k] = t
  BY TransactionAssumption DEF TypeOK, Begin, AcquireLock, Work, LockRestaurant, LockConfiguration, LockHours,
     LockTables, LockRows, LockEmail, SelectCustomer, InsertCustomer,
     WritePolicy, Validate, SetPreference, FindExisting, CheckOverlap,
     Allocate, RecheckClock, UpdateCustomer, InsertReservation,
     InsertAssignments, CheckPostconditions, Commit, Abort, End, locks, Freed
<1>4. ASSUME NEW k \in LockKeys PROVE emailLock'[k] = t => emailLock[k] = t
  BY TransactionAssumption DEF TypeOK, Begin, AcquireLock, Work, LockRestaurant, LockConfiguration, LockHours,
     LockTables, LockRows, LockEmail, SelectCustomer, InsertCustomer,
     WritePolicy, Validate, SetPreference, FindExisting, CheckOverlap,
     Allocate, RecheckClock, UndoBlock, UpdateCustomer, InsertReservation,
     InsertAssignments, CheckPostconditions, Commit, Abort, End, locks, Freed
<1>5. ASSUME NEW e \in Emails PROVE customerRow'[e] = t => customerRow[e] = t
  BY TransactionAssumption DEF TypeOK, Begin, AcquireLock, Work, LockRestaurant, LockConfiguration, LockHours,
     LockTables, LockRows, LockEmail, SelectCustomer, InsertCustomer, TakeCustomer,
     WritePolicy, Validate, SetPreference, FindExisting, CheckOverlap,
     Allocate, RecheckClock, UndoBlock, UpdateCustomer, InsertReservation,
     InsertAssignments, CheckPostconditions, Commit, Abort, End, locks, Freed
<1> QED  BY <1>1, <1>2, <1>3, <1>4, <1>5 DEF OrderOK, PolicyKinds

\* A session that takes a lock goes on to a later statement.
LEMMA AcquireOrder ==
    ASSUME TypeOK, SessionOK, NEW s \in Sessions, OrderOK(s), Begin(s) \/ AcquireLock(s)
    PROVE  OrderOK(s)'
<1>1. CASE Begin(s)
  BY <1>1, RequestFields DEF TypeOK, OrderOK, BeforeRows, BeforeEmail, Begin, Goto, Return, locks
<1>2. CASE LockRestaurant(s)
  BY <1>2, TransactionAssumption DEF TypeOK, OrderOK, BeforeRows, BeforeEmail,
     LockRestaurant, Goto, SessionOK, PhaseOK, PolicyKinds
<1>3. CASE LockConfiguration(s) \/ LockHours(s) \/ LockTables(s)
  BY <1>3 DEF TypeOK, OrderOK, BeforeRows, BeforeEmail, LockConfiguration, LockHours,
     LockTables, LockRows, Goto, PolicyKinds
<1>4. CASE LockEmail(s)
  BY <1>4 DEF TypeOK, OrderOK, BeforeRows, BeforeEmail, LockEmail, Goto
<1>5. CASE SelectCustomer(s) \/ InsertCustomer(s)
  BY <1>5 DEF TypeOK, OrderOK, BeforeRows, BeforeEmail, SelectCustomer, InsertCustomer,
     TakeCustomer, CheckIdentity, AfterCustomer, Goto, Return
<1> QED  BY <1>1, <1>2, <1>3, <1>4, <1>5 DEF AcquireLock

\* Nothing else takes a lock, and only the end of the transaction goes back.
LEMMA WorkOrder ==
    ASSUME TypeOK, SessionOK, NEW s \in Sessions, OrderOK(s), Work(s) \/ Abort(s)
    PROVE  OrderOK(s)'
<1>1. CASE WritePolicy(s) \/ Validate(s) \/ SetPreference(s) \/ FindExisting(s) \/ CheckOverlap(s)
  BY <1>1 DEF TypeOK, OrderOK, BeforeRows, BeforeEmail, WritePolicy, Validate,
     SetPreference, FindExisting, CheckOverlap, Goto, Return, Raise, locks
<1>2. CASE Allocate(s) \/ RecheckClock(s)
  BY <1>2, TransactionAssumption DEF TypeOK, OrderOK, BeforeRows, BeforeEmail, Allocate,
     RecheckClock, UndoBlock, Freed, Goto, Return
<1>3. CASE \/ UpdateCustomer(s) \/ InsertReservation(s) \/ InsertAssignments(s)
           \/ CheckPostconditions(s)
  BY <1>3 DEF TypeOK, OrderOK, BeforeRows, BeforeEmail, UpdateCustomer, InsertReservation,
     InsertAssignments, CheckPostconditions, Goto, Return, Raise, locks
<1>4. CASE Commit(s) \/ Abort(s)
  BY <1>4, TransactionAssumption DEF TypeOK, OrderOK, Commit, Abort, End, Freed, PolicyKinds
<1> QED  BY <1>1, <1>2, <1>3, <1>4 DEF Work

\* Every step keeps the order.
LEMMA NextKeepsOrder ==
    ASSUME TypeOK, SessionOK, \A t \in Sessions : OrderOK(t), [Next]_vars
    PROVE  (\A t \in Sessions : OrderOK(t))'
<1>1. CASE Tick \/ UNCHANGED vars
  BY <1>1 DEF Tick, vars, locks, OrderOK
<1>2. CASE \E s \in Sessions : Begin(s) \/ AcquireLock(s) \/ Work(s) \/ Abort(s)
  BY <1>2, OthersOrder, AcquireOrder, WorkOrder
<1> QED  BY <1>1, <1>2 DEF Next

\* A session waits only for sessions that are further in the order.
LEMMA OrderExcludesCycles ==
    ASSUME \A t \in Sessions : OrderOK(t), TypeOK, SessionOK
    PROVE  NoLockCycle
<1> SUFFICES ASSUME NEW S \in (SUBSET Sessions) \ {{}},
                    \A s \in S : \E t \in S : WaitsFor(s, t)
             PROVE  FALSE
  BY Zenon DEF NoLockCycle
<1>1. \A s \in S : pc[s] \in WaitingAt
  BY DEF WaitsFor, WaitingAt
<1>2. ASSUME NEW s \in S, pc[s] \in CustomerAt
      PROVE  req[s].email \in Emails /\ LockKey[req[s].email] \in LockKeys
  <2>1. req[s] \in Requests /\ req[s].kind \in {"book", "preference"}
    BY <1>2 DEF SessionOK, PhaseOK, CustomerAt
  <2> QED  BY <2>1, RequestFields, TransactionAssumption
<1>3. \A s \in S : pc[s] \notin {"select_customer", "insert_customer"}
  BY <1>1, <1>2 DEF WaitsFor, WaitingAt, OrderOK, BeforeEmail, BeforeRows, CustomerAt
<1>4. \A s \in S : pc[s] # "lock_email"
  BY <1>1, <1>2, <1>3 DEF WaitsFor, WaitingAt, OrderOK, BeforeEmail, BeforeRows, CustomerAt
<1>5. \A s \in S : pc[s] # "lock_tables"
  BY <1>1, <1>3, <1>4 DEF WaitsFor, WaitingAt, OrderOK, BeforeRows
<1>6. \A s \in S : pc[s] # "lock_hours"
  BY <1>1, <1>3, <1>4, <1>5 DEF WaitsFor, WaitingAt, OrderOK, BeforeRows
<1>7. \A s \in S : pc[s] # "lock_configuration"
  BY <1>1, <1>3, <1>4, <1>5, <1>6 DEF WaitsFor, WaitingAt, OrderOK, BeforeRows
<1>8. \A s \in S : pc[s] # "lock_restaurant"
  BY <1>1, <1>3, <1>4, <1>5, <1>6, <1>7 DEF WaitsFor, WaitingAt, OrderOK, BeforeRows
<1>9. PICK s \in S : TRUE
  OBVIOUS
<1>10. pc[s] \in WaitingAt
  BY <1>1
<1> QED  BY <1>3, <1>4, <1>5, <1>6, <1>7, <1>8, <1>10 DEF WaitingAt

\* No sessions ever wait in a circle, however many there are and whichever
\* addresses share a key: every function takes its locks in one order
\* (008: 130-154, 297-335; 007: 185-235 and 269-378).
THEOREM NeverDeadlocked == Spec => []NoLockCycle
<1>1. Init => TypeOK /\ SessionOK /\ \A t \in Sessions : OrderOK(t)
  BY InitTyped, TransactionAssumption DEF Init, OrderOK, PolicyKinds
<1>2. /\ TypeOK /\ SessionOK /\ \A t \in Sessions : OrderOK(t)
      /\ [Next]_vars
      => (TypeOK /\ SessionOK /\ \A t \in Sessions : OrderOK(t))'
  BY NextKeepsTypes, NextKeepsOrder
<1>3. TypeOK /\ SessionOK /\ (\A t \in Sessions : OrderOK(t)) => NoLockCycle
  BY OrderExcludesCycles
<1> QED  BY <1>1, <1>2, <1>3, PTL DEF Spec

\* The lock that s is about to take has no owner; every other statement runs
\* at once.
CanGoOn(s) ==
    /\ pc[s] = "lock_restaurant" => restaurantLock = None
    /\ pc[s] = "lock_configuration" => rowLock["configuration"] = None
    /\ pc[s] = "lock_hours" => rowLock["hours"] = None
    /\ pc[s] = "lock_tables" => rowLock["tables"] = None
    /\ pc[s] = "lock_email" => emailLock[LockKey[req[s].email]] = None
    /\ pc[s] \in {"select_customer", "insert_customer"} => customerRow[req[s].email] = None

\* As long as transactions are open, one of them can go on.
SomebodyCanGoOn ==
    (\E s \in Sessions : pc[s] # "idle") => \E s \in Sessions : pc[s] # "idle" /\ CanGoOn(s)

\* A session that waits for nobody finds its lock free.
LEMMA FreeOfWaiting ==
    ASSUME TypeOK, SessionOK, \A t \in Sessions : OrderOK(t), NEW s \in Sessions,
           \A t \in Sessions : pc[t] # "idle" => ~WaitsFor(s, t)
    PROVE  CanGoOn(s)
<1>1. ASSUME pc[s] \in CustomerAt
      PROVE  req[s].email \in Emails /\ LockKey[req[s].email] \in LockKeys
  <2>1. req[s] \in Requests /\ req[s].kind \in {"book", "preference"}
    BY <1>1 DEF SessionOK, PhaseOK, CustomerAt
  <2> QED  BY <2>1, RequestFields, TransactionAssumption
<1>2. ASSUME NEW t \in Sessions PROVE ~WaitsFor(s, t)
  <2>1. ASSUME pc[t] = "idle" PROVE ~WaitsFor(s, t)
    <3>1. OrderOK(t)
      OBVIOUS
    <3> QED  BY <1>1, <2>1, <3>1 DEF WaitsFor, OrderOK, BeforeRows, BeforeEmail, CustomerAt
  <2> QED  BY <2>1
<1>3. /\ restaurantLock \in Sessions \cup {None}
      /\ \A k \in PolicyKinds : rowLock[k] \in Sessions \cup {None}
      /\ \A k \in LockKeys : emailLock[k] \in Sessions \cup {None}
      /\ \A e \in Emails : customerRow[e] \in Sessions \cup {None}
  BY DEF TypeOK
<1> QED  BY <1>1, <1>2, <1>3 DEF WaitsFor, CanGoOn, PolicyKinds, CustomerAt

\* Locks never hold up everybody: among the open transactions, any number of
\* them, there is one that need not wait (ADVISORY_LOCKS.md).
THEOREM SomebodyGoesOn == Spec => []SomebodyCanGoOn
<1>1. Init => TypeOK /\ SessionOK /\ \A t \in Sessions : OrderOK(t)
  BY InitTyped, TransactionAssumption DEF Init, OrderOK, PolicyKinds
<1>2. /\ TypeOK /\ SessionOK /\ \A t \in Sessions : OrderOK(t)
      /\ [Next]_vars
      => (TypeOK /\ SessionOK /\ \A t \in Sessions : OrderOK(t))'
  BY NextKeepsTypes, NextKeepsOrder
<1>3. TypeOK /\ SessionOK /\ (\A t \in Sessions : OrderOK(t)) => SomebodyCanGoOn
  <2> SUFFICES ASSUME TypeOK, SessionOK, \A t \in Sessions : OrderOK(t),
                      NEW u \in Sessions, pc[u] # "idle"
               PROVE  \E s \in Sessions : pc[s] # "idle" /\ CanGoOn(s)
    BY DEF SomebodyCanGoOn
  <2> DEFINE Open == {t \in Sessions : pc[t] # "idle"}
  <2>1. Open \in (SUBSET Sessions) \ {{}}
    OBVIOUS
  <2>2. NoLockCycle
    BY OrderExcludesCycles
  <2>3. PICK s \in Open : \A t \in Open : ~WaitsFor(s, t)
    BY <2>1, <2>2, Zenon DEF NoLockCycle
  <2>4. CanGoOn(s)
    BY <2>3, FreeOfWaiting
  <2> QED  BY <2>4
<1> QED  BY <1>1, <1>2, <1>3, PTL DEF Spec

-----------------------------------------------------------------------------
(* What a session decided stays true *)

FreshAt == {"idle", "validate", "write_policy"} \cup WaitingAt
KnownAt == {"set_preference", "find_existing", "check_overlap", "allocate",
            "recheck_clock", "update_customer"}
WritingAt == {"insert_reservation", "insert_assignments", "check_postconditions"}
Refusals == {"unavailable", "same_customer_overlap", "exact_retry"}

\* The locks under which a session's view was read are still its own.
HoldsOK(s) ==
    /\ pc[s] \in {"select_customer", "insert_customer"} \/ row[s] # NoCustomer =>
          /\ req[s].kind \in {"book", "preference"}
          /\ emailLock[LockKey[req[s].email]] = s
    /\ \/ "policy" \in wrote[s]
       \/ pc[s] = "write_policy"
       \/ outcome[s] \in Refusals
       => restaurantLock = s

\* A session that did not get as far has nothing to commit.
ProgressOK(s) ==
    /\ pc[s] \notin {"returned", "failed"} => outcome[s] = "none"
    /\ pc[s] = "idle" => row[s] = NoCustomer
    /\ pc[s] \in FreshAt => wrote[s] = {} /\ isNew[s] = FALSE
    /\ pc[s] \notin {"idle", "returned"} /\ req[s].kind \in {"book", "preference"} =>
          req[s].wellFormed
    /\ pc[s] \in {"insert_assignments", "check_postconditions"} => "reservation" \in wrote[s]
    /\ pc[s] = "check_postconditions" => "assignments" \in wrote[s]
    /\ pc[s] = "returned" /\ req[s].kind = "book" /\ wrote[s] # {} =>
          {"reservation", "assignments"} \subseteq wrote[s]
    /\ pc[s] # "idle" =>
          /\ req[s].kind = "preference" => wrote[s] \subseteq {"customer"}
          /\ req[s].kind \in PolicyKinds => wrote[s] \subseteq {"policy"}
          /\ req[s].kind = "book" => "policy" \notin wrote[s]
    /\ "reservation" \in wrote[s] => row[s] \in Customer /\ req[s].kind = "book"

\* The customer row after a booking's own changes.
Served(r) ==
    LET known == Promise!Resolved(r)
    IN  [name       |-> known.name,
         initial    |-> Promise!FillIn(known.initial, r.initial),
         phone      |-> Promise!FillIn(known.phone, r.phone),
         subscribed |-> IF r.newsletter = "no_change" THEN known.subscribed
                        ELSE r.newsletter = "subscribe"]

\* The customer row in hand is the committed one, with the request's changes.
CustomerOK(s) ==
    LET r == req[s] IN
    /\ pc[s] = "insert_customer" =>
          /\ customers[r.email] = NoCustomer
          /\ r.kind = "preference" => r.subscribe
    /\ row[s] # NoCustomer /\ "customer" \notin wrote[s] => row[s] = customers[r.email]
    /\ pc[s] \in KnownAt =>
          /\ Promise!MayAct(r)
          /\ isNew[s] <=> customers[r.email] = NoCustomer
          /\ wrote[s] = IF isNew[s] THEN {"customer"} ELSE {}
          /\ r.kind = "book" => row[s] = Promise!Resolved(r)
          /\ r.kind = "preference" =>
                /\ customers[r.email] # NoCustomer \/ r.subscribe
                /\ row[s] = [Promise!Resolved(r) EXCEPT !.subscribed = row[s].subscribed]
    /\ pc[s] \in WritingAt \/ "reservation" \in wrote[s] =>
          Promise!MayAct(r) /\ row[s] = Served(r)
    /\ pc[s] = "returned" /\ r.kind = "preference" /\ "customer" \in wrote[s] =>
          /\ Promise!MayAct(r)
          /\ customers[r.email] # NoCustomer \/ r.subscribe
          /\ row[s] = [Promise!Resolved(r) EXCEPT !.subscribed = r.subscribe]

\* The place a booking is about to take is the one asked for, it suits the
\* policy in force, and its tables are still a best choice.
PlaceOK(s) ==
    LET r == req[s] IN
    /\ \/ pc[s] \in CustomerAt \cup (BookingAt \ {"validate"}) /\ r.kind = "book"
       \/ "reservation" \in wrote[s]
       => /\ seat[s].email = r.email
          /\ seat[s].starts = ResolvedStart(r)
          /\ seat[s].ends = ResolvedStart(r) + config.duration
          /\ seat[s].party = r.party
          /\ ~OutsideHours(r, config, hours)
          /\ ~PartyRefused(r.party, capacity)
    /\ pc[s] \in PlannedAt \/ "reservation" \in wrote[s] =>
          seat[s].tables \in BestAllocations(
              FreeTables(reservations, seat[s].starts, seat[s].ends), capacity, seat[s].party)
    /\ pc[s] = "check_overlap" => \A o \in reservations : ~SameIdentity(o, seat[s])

\* A refusal is true, and no fallback was needed.
AnswerOK(s) ==
    /\ outcome[s] \notin {"identity_race", "postcondition_failed"}
    /\ outcome[s] = "unavailable" =>
          BestAllocations(FreeTables(reservations, seat[s].starts, seat[s].ends),
                          capacity, seat[s].party) = {}
    /\ outcome[s] = "same_customer_overlap" =>
          \E r \in reservations :
              /\ r.email = req[s].email /\ ~SameIdentity(r, seat[s])
              /\ Overlap(r.starts, r.ends, seat[s].starts, seat[s].ends)
    /\ outcome[s] = "exact_retry" => seat[s] \in reservations

Decision(s) == HoldsOK(s) /\ ProgressOK(s) /\ CustomerOK(s) /\ PlaceOK(s) /\ AnswerOK(s)

\* A reservation has a customer and takes time.
RowsOK == \A r \in reservations : r.starts < r.ends /\ customers[r.email] # NoCustomer

DInv == IInv /\ (\A s \in Sessions : Decision(s)) /\ RowsOK

-----------------------------------------------------------------------------
(* What the locks keep out *)

\* A step of one session leaves the variables and the locks of another alone.
LEMMA OthersLeft ==
    ASSUME TypeOK, NEW s \in Sessions, NEW t \in Sessions \ {s},
           Begin(s) \/ AcquireLock(s) \/ Work(s) \/ Abort(s)
    PROVE  /\ pc'[t] = pc[t] /\ req'[t] = req[t] /\ row'[t] = row[t] /\ isNew'[t] = isNew[t]
           /\ seat'[t] = seat[t] /\ wrote'[t] = wrote[t] /\ outcome'[t] = outcome[t]
           /\ restaurantLock = t => restaurantLock' = t
           /\ \A k \in LockKeys : emailLock[k] = t => emailLock'[k] = t
<1>1. pc'[t] = pc[t] /\ outcome'[t] = outcome[t]
  BY DEF TypeOK, Begin, AcquireLock, Work, LockRestaurant, LockConfiguration, LockHours,
     LockTables, LockRows, LockEmail, SelectCustomer, InsertCustomer, TakeCustomer,
     CheckIdentity, WritePolicy, Validate, SetPreference, FindExisting, CheckOverlap,
     Allocate, RecheckClock, UndoBlock, UpdateCustomer, InsertReservation,
     InsertAssignments, CheckPostconditions, Commit, Abort, End, Goto, Return, Raise, session
<1>2. req'[t] = req[t] /\ seat'[t] = seat[t]
  BY DEF TypeOK, Begin, AcquireLock, Work, LockRestaurant, LockConfiguration, LockHours,
     LockTables, LockRows, LockEmail, SelectCustomer, InsertCustomer,
     WritePolicy, Validate, SetPreference, FindExisting, CheckOverlap,
     Allocate, RecheckClock, UpdateCustomer, InsertReservation,
     InsertAssignments, CheckPostconditions, Commit, Abort, End, session
<1>3. row'[t] = row[t] /\ isNew'[t] = isNew[t] /\ wrote'[t] = wrote[t]
  BY DEF TypeOK, Begin, AcquireLock, Work, LockRestaurant, LockConfiguration, LockHours,
     LockTables, LockRows, LockEmail, SelectCustomer, InsertCustomer, TakeCustomer,
     WritePolicy, Validate, SetPreference, FindExisting, CheckOverlap,
     Allocate, RecheckClock, UndoBlock, UpdateCustomer, InsertReservation,
     InsertAssignments, CheckPostconditions, Commit, Abort, End, session
<1>4. restaurantLock = t => restaurantLock' = t
  BY TransactionAssumption DEF Begin, AcquireLock, Work, LockRestaurant, LockConfiguration,
     LockHours, LockTables, LockRows, LockEmail, SelectCustomer, InsertCustomer,
     WritePolicy, Validate, SetPreference, FindExisting, CheckOverlap,
     Allocate, RecheckClock, UpdateCustomer, InsertReservation,
     InsertAssignments, CheckPostconditions, Commit, Abort, End, locks
<1>5. ASSUME NEW k \in LockKeys PROVE emailLock[k] = t => emailLock'[k] = t
  BY TransactionAssumption DEF TypeOK, Begin, AcquireLock, Work, LockRestaurant,
     LockConfiguration, LockHours, LockTables, LockRows, LockEmail, SelectCustomer,
     InsertCustomer, WritePolicy, Validate, SetPreference, FindExisting, CheckOverlap,
     Allocate, RecheckClock, UndoBlock, UpdateCustomer, InsertReservation,
     InsertAssignments, CheckPostconditions, Commit, Abort, End, locks, Freed
<1> QED  BY <1>1, <1>2, <1>3, <1>4, <1>5

\* Only a commit changes the committed rows.
LEMMA OnlyCommit ==
    ASSUME NEW s \in Sessions, Begin(s) \/ AcquireLock(s) \/ Work(s) \/ Abort(s)
    PROVE  Commit(s) \/ UNCHANGED <<customers, reservations, config, hours, capacity>>
BY DEF Begin, AcquireLock, Work, LockRestaurant, LockConfiguration, LockHours, LockTables,
   LockRows, LockEmail, SelectCustomer, InsertCustomer, WritePolicy, Validate,
   SetPreference, FindExisting, CheckOverlap, Allocate, RecheckClock, UpdateCustomer,
   InsertReservation, InsertAssignments, CheckPostconditions, Abort, committed

\* The book and the policy belong to the holder of the restaurant lock, a
\* customer's row to the holder of its e-mail lock.
LEMMA LocksProtect ==
    ASSUME TypeOK, SessionOK, NEW s \in Sessions, NEW t \in Sessions \ {s},
           HoldsOK(s), Begin(s) \/ AcquireLock(s) \/ Work(s) \/ Abort(s)
    PROVE  /\ restaurantLock = t => UNCHANGED <<reservations, config, hours, capacity>>
           /\ \A e \in Emails : emailLock[LockKey[e]] = t => customers'[e] = customers[e]
<1>1. CASE Commit(s)
  <2>1. ASSUME restaurantLock = t PROVE "reservation" \notin wrote[s] /\ "policy" \notin wrote[s]
    BY <2>1 DEF SessionOK, LockOK, HoldsOK
  <2>2. ASSUME NEW e \in Emails, emailLock[LockKey[e]] = t PROVE customers'[e] = customers[e]
    <3>1. CASE "customer" \notin wrote[s]
      BY <1>1, <3>1 DEF Commit
    <3>2. CASE "customer" \in wrote[s]
      <4>1. row[s] # NoCustomer
        BY <3>2, RulesAssumption DEF SessionOK, WritesOK
      <4>2. req[s].email # e
        BY <2>2, <4>1 DEF HoldsOK
      <4> QED  BY <1>1, <3>2, <4>2 DEF Commit, TypeOK
    <3> QED  BY <3>1, <3>2
  <2> QED  BY <1>1, <2>1, <2>2 DEF Commit, PolicyWritten
<1> QED  BY <1>1, OnlyCommit

\* What the others do leaves a session's decision standing.
LEMMA OthersKeepDecision ==
    ASSUME TypeOK, SessionOK, NEW s \in Sessions, NEW t \in Sessions \ {s},
           HoldsOK(s), Decision(t), Begin(s) \/ AcquireLock(s) \/ Work(s) \/ Abort(s)
    PROVE  Decision(t)'
<1>1. /\ pc'[t] = pc[t] /\ req'[t] = req[t] /\ row'[t] = row[t] /\ isNew'[t] = isNew[t]
      /\ seat'[t] = seat[t] /\ wrote'[t] = wrote[t] /\ outcome'[t] = outcome[t]
      /\ restaurantLock = t => restaurantLock' = t
      /\ \A k \in LockKeys : emailLock[k] = t => emailLock'[k] = t
  BY OthersLeft
<1>2. restaurantLock = t => UNCHANGED <<reservations, config, hours, capacity>>
  BY LocksProtect
<1>3. ASSUME pc[t] \in {"select_customer", "insert_customer"} \/ row[t] # NoCustomer
      PROVE  /\ req[t].email \in Emails /\ LockKey[req[t].email] \in LockKeys
             /\ emailLock[LockKey[req[t].email]] = t
             /\ customers'[req[t].email] = customers[req[t].email]
  <2>1. req[t] \in Requests /\ req[t].kind \in {"book", "preference"}
    BY <1>3 DEF Decision, HoldsOK, ProgressOK, SessionOK, PhaseOK
  <2>2. req[t].email \in Emails /\ LockKey[req[t].email] \in LockKeys
    BY <2>1, RequestFields, TransactionAssumption
  <2>3. emailLock[LockKey[req[t].email]] = t
    BY <1>3 DEF Decision, HoldsOK
  <2> QED  BY <2>2, <2>3, LocksProtect
<1>4. HoldsOK(t)'
  BY <1>1, <1>3 DEF Decision, HoldsOK
<1>5. ProgressOK(t)'
  BY <1>1 DEF Decision, ProgressOK
<1>6. CustomerOK(t)'
  <2>1. \/ pc[t] \in KnownAt \cup WritingAt \/ "reservation" \in wrote[t]
        \/ "customer" \in wrote[t]
        => row[t] # NoCustomer
    BY RulesAssumption DEF KnownAt, WritingAt, SessionOK, PhaseOK, WritesOK, BookingAt,
       Decision, ProgressOK
  <2>2. ASSUME pc[t] \in {"select_customer", "insert_customer"} \/ row[t] # NoCustomer
        PROVE  /\ (Promise!Resolved(req[t]))' = Promise!Resolved(req[t])
               /\ (Promise!MayAct(req[t]))' <=> Promise!MayAct(req[t])
               /\ (customers[req[t].email])' = customers[req[t].email]
               /\ (Served(req[t]))' = Served(req[t])
    <3>1. /\ (customers[req[t].email])' = customers[req[t].email] /\ req'[t] = req[t]
          /\ (Promise!Resolved(req[t]))' = Promise!Resolved(req[t])
      BY <1>1, <1>3, <2>2 DEF Promise!Resolved
    <3> QED  BY <3>1 DEF Served, Promise!MayAct
  <2>3. CustomerOK(t)
    BY DEF Decision
  <2> QED
    BY <1>1, <2>1, <2>2, <2>3 DEF CustomerOK
<1>7. PlaceOK(t)'
  <2>1. \/ req[t].kind = "book" /\ pc[t] \in CustomerAt \cup (BookingAt \ {"validate"})
        \/ "reservation" \in wrote[t] \/ pc[t] \in PlannedAt
        => restaurantLock = t
    BY DEF SessionOK, LockOK, PlannedAt, BookingAt
  <2> QED
    BY <1>1, <1>2, <2>1 DEF Decision, PlaceOK, PlannedAt, BookingAt, SessionOK, PhaseOK
<1>8. AnswerOK(t)'
  BY <1>1, <1>2 DEF Decision, HoldsOK, AnswerOK, Refusals
<1> QED  BY <1>4, <1>5, <1>6, <1>7, <1>8 DEF Decision

-----------------------------------------------------------------------------
(* What a step decides *)

\* Tables have the same seats in both modules.
LEMMA SameSeats == ASSUME NEW S, NEW c PROVE Promise!SeatsIn(S, c) = SeatsIn(S, c)
BY DEF Promise!SeatsIn, SeatsIn, Promise!MapThenSumSet, MapThenSumSet,
   Promise!MapThenFoldSet, MapThenFoldSet

\* Both modules choose among the same combinations.
LEMMA SameAllocations ==
    ASSUME NEW free, NEW cap, NEW party
    PROVE  Promise!BestAllocations(free, cap, party) = BestAllocations(free, cap, party)
BY SameSeats DEF Promise!BestAllocations, BestAllocations, Promise!Cardinality, Cardinality

\* The rules of the two modules are the same.
LEMMA SameRules ==
    ASSUME NEW r, NEW c, NEW h, NEW cap, NEW book, NEW start, NEW end, NEW party
    PROVE  /\ Promise!SameNames(r, c) <=> SameNames(r, c)
           /\ Promise!InitialsConflict(r, c) <=> InitialsConflict(r, c)
           /\ Promise!ResolvedStart(r) = ResolvedStart(r)
           /\ Promise!Overlap(start, end, r, c) <=> Overlap(start, end, r, c)
           /\ Promise!PartyRefused(party, cap) <=> PartyRefused(party, cap)
           /\ Promise!OutsideHours(r, c, h) <=> OutsideHours(r, c, h)
           /\ Promise!LegalPolicy(r) <=> LegalPolicy(r)
           /\ Promise!BestAllocations(Promise!FreeTables(book, start, end), cap, party)
                = BestAllocations(FreeTables(book, start, end), cap, party)
<1>2. Promise!ResolvedStart(r) = ResolvedStart(r)
  BY DEF Promise!ResolvedStart, ResolvedStart
<1>3. Promise!PartyRefused(party, cap) <=> PartyRefused(party, cap)
  BY SameSeats DEF Promise!PartyRefused, PartyRefused
<1>4. Promise!OutsideHours(r, c, h) <=> OutsideHours(r, c, h)
  BY <1>2 DEF Promise!OutsideHours, OutsideHours, Promise!Resolvable, Resolvable,
     Promise!Candidates, Candidates, Promise!StartBeforeOpening, StartBeforeOpening,
     Promise!MisalignedStart, MisalignedStart, Promise!EndAfterClosing, EndAfterClosing,
     Promise!TimeOf, TimeOf, Promise!DateOf, DateOf, Promise!WeekdayOf, WeekdayOf
<1>5. Promise!LegalPolicy(r) <=> LegalPolicy(r)
  BY DEF Promise!LegalPolicy, LegalPolicy, Promise!Configuration, Configuration,
     Promise!OpeningHours, OpeningHours, Promise!Weekdays, Weekdays
<1>6. Promise!FreeTables(book, start, end) = FreeTables(book, start, end)
  BY DEF Promise!FreeTables, FreeTables, Promise!Overlap, Overlap
<1>7. /\ Promise!SameNames(r, c) <=> SameNames(r, c)
      /\ Promise!InitialsConflict(r, c) <=> InitialsConflict(r, c)
      /\ Promise!Overlap(start, end, r, c) <=> Overlap(start, end, r, c)
  BY DEF Promise!SameNames, SameNames, Promise!InitialsConflict, InitialsConflict,
     Promise!Overlap, Overlap
<1> QED  BY <1>2, <1>3, <1>4, <1>5, <1>6, <1>7, SameAllocations

\* A transaction begins without a view of the customer or the book.
LEMMA BeginDecides ==
    ASSUME TypeOK, SessionOK, NEW s \in Sessions, Decision(s), Begin(s)
    PROVE  Decision(s)'
<1>1. /\ row'[s] = NoCustomer /\ wrote'[s] = {} /\ isNew'[s] = FALSE
      /\ pc'[s] \in {"returned", "lock_email", "lock_restaurant"}
      /\ outcome'[s] \in {"none", "invalid_request"}
      /\ pc'[s] # "returned" => outcome'[s] = "none"
      /\ pc'[s] # "returned" /\ req'[s].kind \in {"book", "preference"} => req'[s].wellFormed
      /\ pc'[s] = "lock_email" => req'[s].kind = "preference"
  BY DEF Decision, ProgressOK, FreshAt, Begin, TypeOK, Goto, Return
<1> QED
  BY <1>1 DEF Decision, HoldsOK, ProgressOK, CustomerOK, PlaceOK, AnswerOK, FreshAt, KnownAt,
     WritingAt, WaitingAt, Refusals, PlannedAt, BookingAt, CustomerAt, PolicyKinds

\* The restaurant-wide locks come before anything is read.
LEMMA LockRowsDecides ==
    ASSUME TypeOK, SessionOK, NEW s \in Sessions, Decision(s),
           \/ LockRestaurant(s) \/ LockConfiguration(s) \/ LockHours(s) \/ LockTables(s)
    PROVE  Decision(s)'
<1>1. /\ row' = row /\ wrote'[s] = {} /\ isNew'[s] = FALSE /\ outcome'[s] = "none"
      /\ req' = req /\ emailLock' = emailLock /\ customers' = customers
      /\ pc[s] \in {"lock_restaurant", "lock_configuration", "lock_hours", "lock_tables"}
      /\ pc'[s] \in {"lock_configuration", "lock_hours", "lock_tables", "validate",
                     "write_policy"}
      /\ restaurantLock' = s
  BY DEF Decision, ProgressOK, FreshAt, WaitingAt, LockRestaurant, LockConfiguration,
     LockHours, LockTables, LockRows, TypeOK, Goto, SessionOK, LockOK, session, committed
<1> QED
  BY <1>1 DEF Decision, HoldsOK, ProgressOK, CustomerOK, PlaceOK, AnswerOK, FreshAt, KnownAt,
     WritingAt, WaitingAt, Refusals, PlannedAt, BookingAt, CustomerAt, PolicyKinds

\* A policy writer holds the restaurant lock when it writes.
LEMMA WritePolicyDecides ==
    ASSUME TypeOK, SessionOK, NEW s \in Sessions, Decision(s), WritePolicy(s)
    PROVE  Decision(s)'
<1>1. /\ row' = row /\ isNew' = isNew /\ req' = req /\ customers' = customers
      /\ UNCHANGED <<emailLock, restaurantLock>>
      /\ pc[s] = "write_policy" /\ pc'[s] \in {"returned", "failed"}
      /\ wrote'[s] \subseteq {"policy"}
      /\ outcome'[s] \in {"policy_written", "invalid_policy"}
  BY DEF Decision, ProgressOK, FreshAt, WritePolicy, TypeOK, Goto, Return, Raise, committed, locks
<1>2. req[s].kind \in PolicyKinds
  BY <1>1, RequestFields DEF SessionOK, PhaseOK, PolicyAt
<1> QED
  BY <1>1, <1>2 DEF Decision, HoldsOK, ProgressOK, CustomerOK, PlaceOK, AnswerOK, FreshAt,
     KnownAt, WritingAt, WaitingAt, Refusals, PlannedAt, BookingAt, CustomerAt, PolicyKinds

\* A plan is the place the request asks for.
LEMMA ValidateDecides ==
    ASSUME TypeOK, SessionOK, NEW s \in Sessions, Decision(s), Validate(s)
    PROVE  Decision(s)'
<1>1. /\ row' = row /\ isNew' = isNew /\ req' = req /\ wrote' = wrote
      /\ UNCHANGED <<emailLock, restaurantLock, customers, config, hours, capacity>>
      /\ pc[s] = "validate" /\ pc'[s] \in {"returned", "lock_email"}
      /\ pc'[s] = "returned" => outcome'[s] = "invalid_request"
      /\ pc'[s] # "returned" => outcome'[s] = "none"
  BY DEF Decision, ProgressOK, Validate, TypeOK, Goto, Return, committed, locks
<1>2. pc'[s] = "lock_email" =>
        /\ ~OutsideHours(req[s], config, hours) /\ ~PartyRefused(req[s].party, capacity)
        /\ seat'[s] = [email |-> req[s].email, starts |-> ResolvedStart(req[s]),
                       ends |-> ResolvedStart(req[s]) + config.duration,
                       party |-> req[s].party, tables |-> {}]
  BY DEF Validate, TypeOK, Goto, Return
<1>3. PlaceOK(s)'
  <2>1. wrote'[s] = {} /\ pc'[s] \notin PlannedAt \cup {"check_overlap"}
    BY <1>1 DEF Decision, ProgressOK, FreshAt, PlannedAt
  <2>2. pc'[s] # "lock_email" => pc'[s] \notin CustomerAt \cup BookingAt
    BY <1>1 DEF CustomerAt, BookingAt
  <2>3. ASSUME pc'[s] = "lock_email"
        PROVE  /\ seat'[s].email = req[s].email /\ seat'[s].starts = ResolvedStart(req[s])
               /\ seat'[s].ends = ResolvedStart(req[s]) + config.duration
               /\ seat'[s].party = req[s].party
    BY <1>2, <2>3
  <2> QED  BY <1>1, <1>2, <2>1, <2>2, <2>3 DEF PlaceOK
<1> QED
  BY <1>1, <1>3 DEF Decision, HoldsOK, ProgressOK, CustomerOK, AnswerOK, FreshAt,
     KnownAt, WritingAt, WaitingAt, Refusals, PolicyKinds

\* From here on the customer's row is the session's own.
LEMMA LockEmailDecides ==
    ASSUME TypeOK, SessionOK, NEW s \in Sessions, Decision(s), LockEmail(s)
    PROVE  Decision(s)'
<1>1. /\ UNCHANGED <<row, isNew, req, wrote, seat, outcome, restaurantLock, customers, config,
                     hours, capacity>>
      /\ pc[s] = "lock_email" /\ pc'[s] = "select_customer"
  BY DEF LockEmail, TypeOK, Goto, committed, session
<1>2. req[s].kind \in {"book", "preference"} /\ emailLock'[LockKey[req[s].email]] = s
  BY RequestFields, TransactionAssumption DEF LockEmail, TypeOK, SessionOK, PhaseOK, CustomerAt
<1> QED
  BY <1>1, <1>2 DEF Decision, HoldsOK, ProgressOK, CustomerOK, PlaceOK, AnswerOK, FreshAt,
     KnownAt, WritingAt, WaitingAt, Refusals, PlannedAt, BookingAt, CustomerAt, PolicyKinds

\* The row that was read is the committed one, and the request may use it.
LEMMA SelectCustomerDecides ==
    ASSUME TypeOK, SessionOK, NEW s \in Sessions, Decision(s), SelectCustomer(s)
    PROVE  Decision(s)'
<1> DEFINE r == req[s]
<1>1. /\ r \in Requests /\ r.kind \in {"book", "preference"} /\ r.email \in Emails
      /\ r.wellFormed /\ wrote[s] = {} /\ isNew[s] = FALSE /\ outcome[s] = "none"
      /\ emailLock[LockKey[r.email]] = s /\ pc[s] = "select_customer"
  BY RequestFields DEF SelectCustomer, Decision, HoldsOK, ProgressOK, FreshAt, WaitingAt,
     SessionOK, PhaseOK, CustomerAt
<1>2. UNCHANGED <<req, isNew, wrote, seat, emailLock, restaurantLock, customers, reservations,
                  config, hours, capacity>>
  BY DEF SelectCustomer, committed
<1>3. CASE customers[r.email] = NoCustomer
  <2>1. /\ row' = row /\ pc'[s] \in {"returned", "insert_customer"}
        /\ pc'[s] = "returned" => outcome'[s] = "no_customer_no_change"
        /\ pc'[s] = "insert_customer" =>
              outcome'[s] = "none" /\ (r.kind = "preference" => r.subscribe)
    BY <1>1, <1>3 DEF SelectCustomer, Goto, Return, TypeOK
  <2>2. CustomerOK(s)'
    BY <1>1, <1>2, <1>3, <2>1 DEF Decision, CustomerOK, KnownAt, WritingAt
  <2>3. HoldsOK(s)' /\ ProgressOK(s)' /\ AnswerOK(s)'
    BY <1>1, <1>2, <2>1 DEF Decision, HoldsOK, ProgressOK, AnswerOK, FreshAt, WaitingAt,
       Refusals, PolicyKinds
  <2>4. PlaceOK(s)'
    BY <1>1, <1>2, <2>1 DEF Decision, PlaceOK, PlannedAt, BookingAt, CustomerAt
  <2> QED  BY <2>2, <2>3, <2>4 DEF Decision
<1>4. CASE customers[r.email] # NoCustomer
  <2>1. /\ row'[s] = customers[r.email] /\ row'[s] \in Customer
        /\ pc'[s] \in {"returned", AfterCustomer(r)}
        /\ pc'[s] = "returned" =>
              outcome'[s] \in {"customer_identity_mismatch", "middle_initial_conflict"}
        /\ pc'[s] # "returned" =>
              /\ outcome'[s] = "none" /\ SameNames(r, customers[r.email])
              /\ ~InitialsConflict(r, customers[r.email])
    BY <1>1, <1>4 DEF SelectCustomer, TakeCustomer, CheckIdentity, Goto, Return, TypeOK,
       AfterCustomer
  <2>2. Promise!Resolved(r) = row'[s]
    BY <1>4, <2>1 DEF Promise!Resolved
  <2>3. pc'[s] # "returned" => Promise!MayAct(r)
    BY <1>1, <1>4, <2>1, <2>2, SameRules DEF Promise!MayAct
  <2>4. row'[s] = [row'[s] EXCEPT !.subscribed = row'[s].subscribed]
    BY <2>1 DEF Customer
  <2>5. (Promise!Resolved(r))' = Promise!Resolved(r) /\ (Promise!MayAct(r))' = Promise!MayAct(r)
    BY <1>2 DEF Promise!Resolved, Promise!MayAct
  <2>6. CustomerOK(s)'
    BY <1>1, <1>2, <1>4, <2>1, <2>2, <2>3, <2>4, <2>5
       DEF CustomerOK, KnownAt, WritingAt, AfterCustomer
  <2>7. HoldsOK(s)' /\ ProgressOK(s)' /\ AnswerOK(s)'
    BY <1>1, <1>2, <2>1 DEF Decision, HoldsOK, ProgressOK, AnswerOK, FreshAt, WaitingAt,
       Refusals, PolicyKinds, AfterCustomer
  <2>8. PlaceOK(s)'
    BY <1>1, <1>2, <2>1 DEF Decision, PlaceOK, PlannedAt, BookingAt, CustomerAt, AfterCustomer
  <2> QED  BY <2>6, <2>7, <2>8 DEF Decision
<1> QED  BY <1>3, <1>4

\* The row that is inserted agrees with the request, and no rival made one.
LEMMA InsertCustomerDecides ==
    ASSUME TypeOK, SessionOK, NEW s \in Sessions, Decision(s), InsertCustomer(s)
    PROVE  Decision(s)'
<1> DEFINE r == req[s]
           fresh == [name |-> r.name, initial |-> r.initial,
                     phone |-> IF r.kind = "book" THEN r.phone ELSE NULL,
                     subscribed |-> r.kind = "preference"]
<1>1. /\ r \in Requests /\ r.kind \in {"book", "preference"} /\ r.email \in Emails
      /\ r.wellFormed /\ wrote[s] = {} /\ outcome[s] = "none"
      /\ emailLock[LockKey[r.email]] = s /\ pc[s] = "insert_customer"
      /\ customers[r.email] = NoCustomer /\ (r.kind = "preference" => r.subscribe)
  BY RequestFields DEF InsertCustomer, Decision, HoldsOK, ProgressOK, CustomerOK, FreshAt,
     WaitingAt, SessionOK, PhaseOK, CustomerAt
<1>2. UNCHANGED <<req, seat, emailLock, restaurantLock, customers, reservations,
                  config, hours, capacity>>
  BY DEF InsertCustomer, committed
<1>3. SameNames(r, fresh) /\ ~InitialsConflict(r, fresh)
  BY DEF SameNames, InitialsConflict
<1>4. /\ row'[s] = fresh /\ isNew'[s] = TRUE /\ wrote'[s] = {"customer"}
      /\ CheckIdentity(s, fresh)
  BY <1>1 DEF InsertCustomer, TypeOK
<1>5. pc'[s] = AfterCustomer(r) /\ outcome'[s] = "none"
  BY <1>1, <1>3, <1>4 DEF CheckIdentity, Goto, TypeOK
<1>6. Promise!Resolved(r) = [name |-> r.name, initial |-> r.initial,
                             phone |-> IF r.kind = "book" THEN r.phone ELSE NULL,
                             subscribed |-> FALSE]
  BY <1>1 DEF Promise!Resolved
<1>7. /\ r.kind = "book" => row'[s] = Promise!Resolved(r)
      /\ row'[s] = [Promise!Resolved(r) EXCEPT !.subscribed = row'[s].subscribed]
  <2>1. ASSUME r.kind = "book" PROVE row'[s] = Promise!Resolved(r)
    BY <1>4, <1>6, <2>1
  <2>2. row'[s] = [name |-> r.name, initial |-> r.initial,
                   phone |-> IF r.kind = "book" THEN r.phone ELSE NULL,
                   subscribed |-> row'[s].subscribed]
    BY <1>4
  <2> QED  BY <1>6, <2>1, <2>2
<1>8. Promise!MayAct(r)
  <2>1. SameNames(r, Promise!Resolved(r)) /\ ~InitialsConflict(r, Promise!Resolved(r))
    BY <1>6 DEF SameNames, InitialsConflict
  <2> QED  BY <1>1, <2>1, SameRules DEF Promise!MayAct
<1>9. (Promise!Resolved(r))' = Promise!Resolved(r) /\ (Promise!MayAct(r))' = Promise!MayAct(r)
  BY <1>2 DEF Promise!Resolved, Promise!MayAct
<1>10. CustomerOK(s)'
  BY <1>1, <1>2, <1>4, <1>5, <1>7, <1>8, <1>9 DEF CustomerOK, KnownAt, WritingAt, AfterCustomer
<1>11. HoldsOK(s)' /\ ProgressOK(s)' /\ AnswerOK(s)'
  BY <1>1, <1>2, <1>4, <1>5 DEF Decision, HoldsOK, ProgressOK, AnswerOK, FreshAt, WaitingAt,
     Refusals, PolicyKinds, AfterCustomer
<1>12. PlaceOK(s)'
  BY <1>1, <1>2, <1>4, <1>5 DEF Decision, PlaceOK, PlannedAt, BookingAt, CustomerAt,
     AfterCustomer
<1> QED  BY <1>10, <1>11, <1>12 DEF Decision

\* A newsletter change alters nothing else of the row.
LEMMA SetPreferenceDecides ==
    ASSUME TypeOK, SessionOK, NEW s \in Sessions, Decision(s), SetPreference(s)
    PROVE  Decision(s)'
<1> DEFINE r == req[s]
<1>1. /\ r.kind = "preference" /\ pc[s] = "set_preference" /\ pc'[s] = "returned"
      /\ outcome'[s] \in {"subscribed", "unsubscribed"} /\ wrote'[s] = {"customer"}
      /\ row[s] \in Customer /\ row'[s] = [row[s] EXCEPT !.subscribed = r.subscribe]
  BY DEF SetPreference, Goto, Return, TypeOK, SessionOK, PhaseOK
<1>2. UNCHANGED <<req, isNew, seat, emailLock, restaurantLock, customers, reservations,
                  config, hours, capacity>>
  BY DEF SetPreference, committed, locks
<1>3. /\ Promise!MayAct(r) /\ (customers[r.email] # NoCustomer \/ r.subscribe)
      /\ row[s] = [Promise!Resolved(r) EXCEPT !.subscribed = row[s].subscribed]
  BY <1>1 DEF Decision, CustomerOK, KnownAt
<1>4. row'[s] = [Promise!Resolved(r) EXCEPT !.subscribed = r.subscribe]
  BY <1>1, <1>3 DEF Customer
<1>5. (Promise!Resolved(r))' = Promise!Resolved(r) /\ (Promise!MayAct(r))' = Promise!MayAct(r)
  BY <1>2 DEF Promise!Resolved, Promise!MayAct
<1>6. CustomerOK(s)'
  BY <1>1, <1>2, <1>3, <1>4, <1>5 DEF CustomerOK, KnownAt, WritingAt
<1>7. row[s] # NoCustomer
  BY <1>1, RulesAssumption
<1>8. HoldsOK(s)' /\ ProgressOK(s)' /\ AnswerOK(s)' /\ PlaceOK(s)'
  BY <1>1, <1>2, <1>7 DEF Decision, HoldsOK, ProgressOK, AnswerOK, FreshAt, WaitingAt,
     Refusals, PolicyKinds, PlaceOK, PlannedAt, BookingAt, CustomerAt
<1> QED  BY <1>6, <1>8 DEF Decision

\* The steps between the customer and the writes: the book is read, the
\* customer is not touched unless the block is undone.
LEMMA CustomerStays ==
    ASSUME NEW s \in Sessions, CustomerOK(s), UNCHANGED <<req, customers, row, isNew, wrote>>,
           \/ pc[s] \in KnownAt /\ pc'[s] \in KnownAt
           \/ pc[s] \in WritingAt /\ pc'[s] \in WritingAt
           \/ pc'[s] \in {"returned", "failed"} /\ req[s].kind = "book"
    PROVE  CustomerOK(s)'
<1>1. /\ (Promise!Resolved(req[s]))' = Promise!Resolved(req[s])
      /\ (Promise!MayAct(req[s]))' <=> Promise!MayAct(req[s])
  BY DEF Promise!Resolved, Promise!MayAct
<1>2. (Served(req[s]))' = Served(req[s])
  BY <1>1 DEF Served
<1>3. "insert_customer" \notin KnownAt \cup WritingAt /\ "returned" \notin KnownAt \cup WritingAt
      /\ "failed" \notin KnownAt \cup WritingAt /\ KnownAt \cap WritingAt = {}
  BY DEF KnownAt, WritingAt
<1> QED  BY <1>1, <1>2, <1>3 DEF CustomerOK

\* A repetition finds a reservation, whose customer is therefore known, and
\* has nothing to write.
LEMMA FindExistingDecides ==
    ASSUME TypeOK, SessionOK, RowsOK, NEW s \in Sessions, Decision(s), FindExisting(s)
    PROVE  Decision(s)'
<1>1. /\ pc[s] = "find_existing" /\ pc'[s] \in {"check_overlap", "returned"}
      /\ req[s].kind = "book" /\ restaurantLock = s /\ row[s] \in Customer
      /\ outcome[s] = "none" /\ "reservation" \notin wrote[s]
  BY DEF FindExisting, Goto, Return, TypeOK, SessionOK, PhaseOK, LockOK, WritesOK, BookingAt,
     Decision, ProgressOK
<1>2. UNCHANGED <<req, isNew, row, wrote, emailLock, restaurantLock, customers, reservations,
                  config, hours, capacity>>
  BY DEF FindExisting, committed, locks
<1>3. /\ pc'[s] = "check_overlap" =>
            /\ outcome'[s] = "none" /\ seat'[s] = seat[s]
            /\ \A o \in reservations : ~SameIdentity(o, seat[s])
      /\ pc'[s] = "returned" => outcome'[s] = "exact_retry" /\ seat'[s] \in reservations
  BY <1>1 DEF FindExisting, Goto, Return, TypeOK
<1>4. pc'[s] = "returned" => wrote[s] = {}
  <2>1. ASSUME pc'[s] = "returned" PROVE customers[req[s].email] # NoCustomer
    <3>1. PICK o \in reservations : SameIdentity(o, seat[s])
      BY <1>1, <2>1 DEF FindExisting, Goto, TypeOK
    <3>2. seat[s].email = req[s].email
      BY <1>1 DEF Decision, PlaceOK, BookingAt
    <3> QED  BY <3>1, <3>2 DEF SameIdentity, RowsOK
  <2>2. /\ isNew[s] <=> customers[req[s].email] = NoCustomer
        /\ wrote[s] = IF isNew[s] THEN {"customer"} ELSE {}
    BY <1>1 DEF Decision, CustomerOK, KnownAt
  <2> QED  BY <2>1, <2>2
<1>5. CustomerOK(s)'
  BY <1>1, <1>2, CustomerStays DEF Decision, KnownAt
<1>6. HoldsOK(s)' /\ ProgressOK(s)'
  BY <1>1, <1>2, <1>3, <1>4 DEF Decision, HoldsOK, ProgressOK, FreshAt, WaitingAt,
     PolicyKinds
<1>7. PlaceOK(s)' /\ AnswerOK(s)'
  BY <1>1, <1>2, <1>3 DEF Decision, PlaceOK, AnswerOK, PlannedAt, BookingAt, CustomerAt
<1> QED  BY <1>5, <1>6, <1>7 DEF Decision

\* So does a booking that overlaps another of its customer.
LEMMA CheckOverlapDecides ==
    ASSUME TypeOK, SessionOK, RowsOK, NEW s \in Sessions, Decision(s), CheckOverlap(s)
    PROVE  Decision(s)'
<1>1. /\ pc[s] = "check_overlap" /\ pc'[s] \in {"allocate", "returned"}
      /\ req[s].kind = "book" /\ restaurantLock = s /\ row[s] \in Customer
      /\ outcome[s] = "none" /\ "reservation" \notin wrote[s]
      /\ seat[s].email = req[s].email
      /\ \A o \in reservations : ~SameIdentity(o, seat[s])
  BY DEF CheckOverlap, Goto, Return, TypeOK, SessionOK, PhaseOK, LockOK, WritesOK, BookingAt,
     Decision, ProgressOK, PlaceOK
<1>2. UNCHANGED <<req, isNew, row, wrote, seat, emailLock, restaurantLock, customers,
                  reservations, config, hours, capacity>>
  BY DEF CheckOverlap, committed, locks
<1>3. /\ pc'[s] = "allocate" => outcome'[s] = "none"
      /\ pc'[s] = "returned" =>
            /\ outcome'[s] = "same_customer_overlap"
            /\ \E o \in reservations :
                  /\ o.email = seat[s].email
                  /\ Overlap(o.starts, o.ends, seat[s].starts, seat[s].ends)
  BY <1>1 DEF CheckOverlap, Goto, Return, TypeOK
<1>4. pc'[s] = "returned" => wrote[s] = {}
  <2>1. ASSUME pc'[s] = "returned" PROVE customers[req[s].email] # NoCustomer
    BY <1>1, <1>3, <2>1 DEF RowsOK
  <2>2. /\ isNew[s] <=> customers[req[s].email] = NoCustomer
        /\ wrote[s] = IF isNew[s] THEN {"customer"} ELSE {}
    BY <1>1 DEF Decision, CustomerOK, KnownAt
  <2> QED  BY <2>1, <2>2
<1>5. CustomerOK(s)'
  BY <1>1, <1>2, CustomerStays DEF Decision, KnownAt
<1>6. HoldsOK(s)' /\ ProgressOK(s)'
  BY <1>1, <1>2, <1>3, <1>4 DEF Decision, HoldsOK, ProgressOK, FreshAt, WaitingAt,
     PolicyKinds
<1>7. PlaceOK(s)'
  BY <1>1, <1>2, <1>3 DEF Decision, PlaceOK, PlannedAt, BookingAt, CustomerAt
<1>8. AnswerOK(s)'
  BY <1>1, <1>2, <1>3 DEF AnswerOK
<1> QED  BY <1>5, <1>6, <1>7, <1>8 DEF Decision

\* A booking whose block is undone holds no customer and has nothing to write.
LEMMA UndoDecides ==
    ASSUME TypeOK, SessionOK, NEW s \in Sessions, Decision(s), NEW what,
           UndoBlock(s, what), UNCHANGED <<seat, req, restaurantLock, reservations, capacity>>,
           restaurantLock = s, req[s].kind = "book",
           \/ what = "invalid_request"
           \/ /\ what = "unavailable"
              /\ BestAllocations(FreeTables(reservations, seat[s].starts, seat[s].ends),
                                 capacity, seat[s].party) = {}
    PROVE  Decision(s)'
<1>1. /\ pc'[s] = "returned" /\ outcome'[s] = what /\ row'[s] = NoCustomer
      /\ isNew'[s] = FALSE /\ wrote'[s] = {}
  BY DEF UndoBlock, Return, Goto, TypeOK
<1>2. HoldsOK(s)' /\ ProgressOK(s)'
  BY <1>1 DEF HoldsOK, ProgressOK, FreshAt, WaitingAt, PolicyKinds
<1>3. CustomerOK(s)'
  BY <1>1 DEF CustomerOK, KnownAt, WritingAt
<1>4. PlaceOK(s)' /\ AnswerOK(s)'
  BY <1>1 DEF PlaceOK, AnswerOK, PlannedAt, BookingAt, CustomerAt
<1> QED  BY <1>2, <1>3, <1>4 DEF Decision

\* The tables of a plan are a best choice of the free ones.
LEMMA AllocateDecides ==
    ASSUME TypeOK, SessionOK, NEW s \in Sessions, Decision(s), Allocate(s)
    PROVE  Decision(s)'
<1> DEFINE best == BestAllocations(FreeTables(reservations, seat[s].starts, seat[s].ends),
                                   capacity, seat[s].party)
<1>1. /\ pc[s] = "allocate" /\ req[s].kind = "book" /\ restaurantLock = s
      /\ row[s] \in Customer /\ seat[s] \in Reservation
      /\ outcome[s] = "none" /\ "reservation" \notin wrote[s]
      /\ UNCHANGED <<req, restaurantLock, customers, reservations, config, hours, capacity>>
  BY DEF Allocate, SessionOK, PhaseOK, LockOK, WritesOK, BookingAt, Decision, ProgressOK,
     committed
<1>2. CASE best = {} /\ UndoBlock(s, "unavailable") /\ UNCHANGED seat
  BY <1>1, <1>2, UndoDecides
<1>3. CASE /\ \E chosen \in best : seat' = [seat EXCEPT ![s].tables = chosen]
           /\ Goto(s, "recheck_clock")
           /\ UNCHANGED <<emailLock, customerRow, row, isNew, wrote, outcome>>
  <2>1. pc'[s] = "recheck_clock"
    BY <1>3 DEF Goto, TypeOK
  <2>2. PICK chosen \in best : seat' = [seat EXCEPT ![s].tables = chosen]
    BY <1>3
  <2>3. /\ seat'[s].email = seat[s].email /\ seat'[s].starts = seat[s].starts
        /\ seat'[s].ends = seat[s].ends /\ seat'[s].party = seat[s].party
        /\ seat'[s].tables = chosen
    BY <1>1, <2>2 DEF TypeOK, Reservation
  <2>4. CustomerOK(s)'
    BY <1>1, <1>3, <2>1, CustomerStays DEF Decision, KnownAt
  <2>5. HoldsOK(s)' /\ ProgressOK(s)'
    BY <1>1, <1>3, <2>1 DEF Decision, HoldsOK, ProgressOK, FreshAt, WaitingAt, PolicyKinds
  <2>6. PlaceOK(s)'
    BY <1>1, <1>3, <2>1, <2>2, <2>3 DEF Decision, PlaceOK, BookingAt
  <2>7. AnswerOK(s)'
    BY <1>1, <1>3 DEF AnswerOK
  <2> QED  BY <2>4, <2>5, <2>6, <2>7 DEF Decision
<1> QED  BY <1>2, <1>3 DEF Allocate

\* The second look at the clock keeps the plan or undoes the block.
LEMMA RecheckClockDecides ==
    ASSUME TypeOK, SessionOK, NEW s \in Sessions, Decision(s), RecheckClock(s)
    PROVE  Decision(s)'
<1>1. /\ pc[s] = "recheck_clock" /\ req[s].kind = "book" /\ restaurantLock = s
      /\ row[s] \in Customer /\ outcome[s] = "none" /\ "reservation" \notin wrote[s]
      /\ UNCHANGED <<req, seat, restaurantLock, customers, reservations, config, hours, capacity>>
  BY DEF RecheckClock, SessionOK, PhaseOK, LockOK, WritesOK, BookingAt, Decision, ProgressOK,
     committed
<1>2. CASE UndoBlock(s, "invalid_request")
  BY <1>1, <1>2, UndoDecides
<1>3. CASE /\ Goto(s, "update_customer")
           /\ UNCHANGED <<emailLock, customerRow, row, isNew, wrote, outcome>>
  <2>1. pc'[s] = "update_customer"
    BY <1>3 DEF Goto, TypeOK
  <2>2. CustomerOK(s)'
    BY <1>1, <1>3, <2>1, CustomerStays DEF Decision, KnownAt
  <2>3. HoldsOK(s)' /\ ProgressOK(s)'
    BY <1>1, <1>3, <2>1 DEF Decision, HoldsOK, ProgressOK, FreshAt, WaitingAt, PolicyKinds
  <2>4. PlaceOK(s)' /\ AnswerOK(s)'
    BY <1>1, <1>3, <2>1 DEF Decision, PlaceOK, AnswerOK, BookingAt, PlannedAt
  <2> QED  BY <2>2, <2>3, <2>4 DEF Decision
<1> QED  BY <1>2, <1>3 DEF RecheckClock

\* The row after the update is the one the promise asks for.
LEMMA UpdateCustomerDecides ==
    ASSUME TypeOK, SessionOK, NEW s \in Sessions, Decision(s), UpdateCustomer(s)
    PROVE  Decision(s)'
<1> DEFINE r == req[s]
           fillInitial == ~isNew[s] /\ row[s].initial = NULL /\ r.initial # NULL
           fillPhone   == ~isNew[s] /\ row[s].phone = NULL /\ r.phone # NULL
           changes == fillInitial \/ fillPhone \/ r.newsletter # "no_change"
           updated == [name |-> row[s].name,
                       initial |-> IF fillInitial THEN r.initial ELSE row[s].initial,
                       phone |-> IF fillPhone THEN r.phone ELSE row[s].phone,
                       subscribed |-> IF r.newsletter = "no_change" THEN row[s].subscribed
                                      ELSE r.newsletter = "subscribe"]
<1>1. /\ pc[s] = "update_customer" /\ pc'[s] = "insert_reservation"
      /\ r.kind = "book" /\ restaurantLock = s /\ row[s] \in Customer
      /\ outcome[s] = "none" /\ "reservation" \notin wrote[s]
  BY DEF UpdateCustomer, SessionOK, PhaseOK, LockOK, WritesOK, BookingAt, Decision, ProgressOK,
     Goto, TypeOK
<1>2. UNCHANGED <<req, isNew, seat, outcome, emailLock, restaurantLock, customers, reservations,
                  config, hours, capacity>>
  BY DEF UpdateCustomer, committed, locks
<1>3. /\ Promise!MayAct(r) /\ row[s] = Promise!Resolved(r)
      /\ isNew[s] <=> customers[r.email] = NoCustomer
      /\ wrote[s] = IF isNew[s] THEN {"customer"} ELSE {}
  BY <1>1 DEF Decision, CustomerOK, KnownAt
<1>4. row'[s] = updated
  <2>1. row[s] = [name |-> row[s].name, initial |-> row[s].initial, phone |-> row[s].phone,
                  subscribed |-> row[s].subscribed]
    BY <1>1 DEF Customer
  <2>2. row'[s] = [row[s] EXCEPT
            !.initial = IF fillInitial THEN r.initial ELSE @,
            !.phone = IF fillPhone THEN r.phone ELSE @,
            !.subscribed = IF r.newsletter = "no_change" THEN @
                           ELSE r.newsletter = "subscribe"]
    BY DEF UpdateCustomer, TypeOK
  <2> QED  BY <2>1, <2>2
<1>5. wrote'[s] = IF changes THEN wrote[s] \cup {"customer"} ELSE wrote[s]
  BY DEF UpdateCustomer, TypeOK
<1>6. updated.initial = Promise!FillIn(row[s].initial, r.initial)
  <2>1. CASE isNew[s]
    <3>1. row[s].initial = r.initial
      BY <1>3, <2>1 DEF Promise!Resolved
    <3> QED  BY <2>1, <3>1 DEF Promise!FillIn
  <2>2. CASE ~isNew[s]
    BY <2>2 DEF Promise!FillIn
  <2> QED  BY <2>1, <2>2
<1>7. updated.phone = Promise!FillIn(row[s].phone, r.phone)
  <2>1. CASE isNew[s]
    <3>1. row[s].phone = r.phone
      BY <1>1, <1>3, <2>1 DEF Promise!Resolved
    <3> QED  BY <2>1, <3>1 DEF Promise!FillIn
  <2>2. CASE ~isNew[s]
    BY <2>2 DEF Promise!FillIn
  <2> QED  BY <2>1, <2>2
<1>8. updated = Served(r)
  BY <1>3, <1>6, <1>7 DEF Served
<1>9. (Promise!MayAct(r))' /\ (Served(r))' = Served(r)
  <2>1. (Promise!Resolved(r))' = Promise!Resolved(r)
    BY <1>2 DEF Promise!Resolved
  <2> QED  BY <1>2, <1>3, <2>1 DEF Promise!MayAct, Served
<1>10. "customer" \notin wrote'[s] => row'[s] = customers[r.email]
  <2>1. SUFFICES ASSUME "customer" \notin wrote'[s] PROVE row'[s] = customers[r.email]
    OBVIOUS
  <2>2. ~changes /\ ~isNew[s]
    BY <1>3, <1>5, <2>1
  <2>3. updated = row[s]
    BY <1>1, <2>2 DEF Customer
  <2>4. row[s] = customers[r.email]
    BY <1>3, <2>2 DEF Promise!Resolved
  <2> QED  BY <1>4, <2>3, <2>4
<1>11. CustomerOK(s)'
  BY <1>1, <1>2, <1>4, <1>8, <1>9, <1>10 DEF CustomerOK, KnownAt
<1>12. HoldsOK(s)' /\ ProgressOK(s)'
  <2>1. row[s] # NoCustomer /\ wrote'[s] \subseteq {"customer"}
    BY <1>1, <1>3, <1>5, RulesAssumption
  <2> QED
    BY <1>1, <1>2, <2>1 DEF Decision, HoldsOK, ProgressOK, FreshAt, WaitingAt, PolicyKinds,
       Refusals
<1>13. PlaceOK(s)' /\ AnswerOK(s)'
  BY <1>1, <1>2 DEF Decision, PlaceOK, AnswerOK, BookingAt, PlannedAt
<1> QED  BY <1>11, <1>12, <1>13 DEF Decision

\* No rival has the identity of the plan, since nobody of that customer
\* overlaps it and it takes time.
LEMMA InsertReservationDecides ==
    ASSUME TypeOK, SessionOK, BookOK, RowsOK, NEW s \in Sessions, Decision(s),
           InsertReservation(s)
    PROVE  Decision(s)'
<1>1. /\ pc[s] = "insert_reservation" /\ req[s].kind = "book" /\ restaurantLock = s
      /\ row[s] \in Customer /\ outcome[s] = "none" /\ seat[s] \in Reservation
      /\ UNCHANGED <<req, row, isNew, seat, emailLock, restaurantLock, customers, reservations,
                     config, hours, capacity>>
  BY DEF InsertReservation, SessionOK, PhaseOK, LockOK, BookingAt, Decision, ProgressOK,
     committed, locks
<1>2. seat[s].starts < seat[s].ends
  <2>1. seat[s].ends = seat[s].starts + config.duration
    BY <1>1 DEF Decision, PlaceOK, BookingAt
  <2>2. config.duration \in Nat \ {0}
    BY CalendarAssumption DEF TypeOK, Configuration
  <2>3. seat[s].starts \in Int
    BY <1>1 DEF Reservation
  <2> QED  BY <2>1, <2>2, <2>3
<1>3. ~\E o \in reservations : SameIdentity(o, seat[s])
  BY <1>1, <1>2 DEF BookOK, PlanOK, PlannedAt, RowsOK, SameIdentity, Overlap
<1>4. /\ pc'[s] = "insert_assignments" /\ outcome'[s] = "none"
      /\ wrote'[s] = wrote[s] \cup {"reservation"}
  BY <1>1, <1>3 DEF InsertReservation, Goto, TypeOK
<1>5. CustomerOK(s)'
  <2>1. (Promise!Resolved(req[s]))' = Promise!Resolved(req[s])
    BY <1>1 DEF Promise!Resolved
  <2>2. (Promise!MayAct(req[s]))' <=> Promise!MayAct(req[s])
    BY <1>1, <2>1 DEF Promise!MayAct
  <2>3. (Served(req[s]))' = Served(req[s])
    BY <1>1, <2>1 DEF Served
  <2>4. Promise!MayAct(req[s]) /\ row[s] = Served(req[s])
    BY <1>1 DEF Decision, CustomerOK, WritingAt
  <2> QED  BY <1>1, <1>4, <2>2, <2>3, <2>4 DEF Decision, CustomerOK, KnownAt
<1>6. HoldsOK(s)' /\ ProgressOK(s)'
  BY <1>1, <1>4 DEF Decision, HoldsOK, ProgressOK, FreshAt, WaitingAt, PolicyKinds, Refusals
<1>7. PlaceOK(s)'
  BY <1>1, <1>4 DEF Decision, PlaceOK, BookingAt, PlannedAt
<1>8. AnswerOK(s)'
  BY <1>1, <1>4 DEF AnswerOK
<1> QED  BY <1>5, <1>6, <1>7, <1>8 DEF Decision

\* The tables follow the reservation.
LEMMA InsertAssignmentsDecides ==
    ASSUME TypeOK, SessionOK, NEW s \in Sessions, Decision(s), InsertAssignments(s)
    PROVE  Decision(s)'
<1>1. /\ pc[s] = "insert_assignments" /\ pc'[s] = "check_postconditions"
      /\ req[s].kind = "book" /\ row[s] \in Customer /\ outcome[s] = "none"
      /\ "reservation" \in wrote[s] /\ wrote'[s] = wrote[s] \cup {"assignments"}
      /\ UNCHANGED <<req, row, isNew, seat, outcome, emailLock, restaurantLock, customers,
                     reservations, config, hours, capacity>>
  BY DEF InsertAssignments, SessionOK, PhaseOK, BookingAt, Decision, ProgressOK,
     committed, locks, Goto, TypeOK
<1>2. CustomerOK(s)'
  <2>1. (Promise!Resolved(req[s]))' = Promise!Resolved(req[s])
    BY <1>1 DEF Promise!Resolved
  <2>2. (Promise!MayAct(req[s]))' <=> Promise!MayAct(req[s])
    BY <1>1, <2>1 DEF Promise!MayAct
  <2>3. (Served(req[s]))' = Served(req[s])
    BY <1>1, <2>1 DEF Served
  <2>4. Promise!MayAct(req[s]) /\ row[s] = Served(req[s])
    BY <1>1 DEF Decision, CustomerOK, WritingAt
  <2> QED  BY <1>1, <2>2, <2>3, <2>4 DEF Decision, CustomerOK, KnownAt
<1>3. HoldsOK(s)' /\ ProgressOK(s)'
  BY <1>1 DEF Decision, HoldsOK, ProgressOK, FreshAt, WaitingAt, PolicyKinds, Refusals
<1>4. PlaceOK(s)' /\ AnswerOK(s)'
  BY <1>1 DEF Decision, PlaceOK, AnswerOK, BookingAt, PlannedAt
<1> QED  BY <1>2, <1>3, <1>4 DEF Decision

\* No tables seat nobody.
LEMMA NoTablesNoSeats == ASSUME NEW cap PROVE SeatsIn({}, cap) = 0
BY DEF SeatsIn, MapThenSumSet, MapThenFoldSet

\* The postconditions hold of what was planned.
LEMMA CheckPostconditionsDecides ==
    ASSUME TypeOK, SessionOK, BookOK, NEW s \in Sessions, Decision(s), CheckPostconditions(s)
    PROVE  Decision(s)'
<1>1. /\ pc[s] = "check_postconditions" /\ req[s].kind = "book" /\ req[s] \in Requests
      /\ row[s] \in Customer /\ outcome[s] = "none" /\ seat[s] \in Reservation
      /\ {"reservation", "assignments"} \subseteq wrote[s]
      /\ UNCHANGED <<req, row, isNew, seat, wrote, emailLock, restaurantLock, customers,
                     reservations, config, hours, capacity>>
  BY DEF CheckPostconditions, SessionOK, PhaseOK, BookingAt, Decision, ProgressOK,
     committed, locks
<1>2. /\ seat[s].tables \in BestAllocations(
              FreeTables(reservations, seat[s].starts, seat[s].ends), capacity, seat[s].party)
      /\ ~PartyRefused(seat[s].party, capacity)
  BY <1>1 DEF Decision, PlaceOK, PlannedAt
<1>3. SeatsIn(seat[s].tables, capacity) >= seat[s].party
  BY <1>2 DEF BestAllocations
<1>4. seat[s].tables # {}
  <2>1. seat[s].party \in Int /\ seat[s].party >= 1
    BY <1>1 DEF Reservation
  <2> QED  BY <1>3, <2>1, NoTablesNoSeats
<1>5. Postconditions(s)
  BY <1>1, <1>3, <1>4 DEF Postconditions, Inserted, BookOK, PlanOK, PlannedAt
<1>6. pc'[s] = "returned" /\ outcome'[s] \in {"booked", "booked_phone_notice"}
  BY <1>5 DEF CheckPostconditions, Return, Goto, TypeOK
<1>7. CustomerOK(s)'
  BY <1>1, <1>6, CustomerStays DEF Decision
<1>8. HoldsOK(s)' /\ ProgressOK(s)'
  BY <1>1, <1>6 DEF Decision, HoldsOK, ProgressOK, FreshAt, WaitingAt, PolicyKinds, Refusals
<1>9. PlaceOK(s)' /\ AnswerOK(s)'
  BY <1>1, <1>6 DEF Decision, PlaceOK, AnswerOK, BookingAt, PlannedAt, CustomerAt
<1> QED  BY <1>7, <1>8, <1>9 DEF Decision

\* After the end of a transaction there is nothing left to decide.
LEMMA EndDecides ==
    ASSUME TypeOK, NEW s \in Sessions, Commit(s) \/ Abort(s)
    PROVE  Decision(s)'
<1>1. /\ pc'[s] = "idle" /\ row'[s] = NoCustomer /\ isNew'[s] = FALSE /\ wrote'[s] = {}
      /\ outcome'[s] = "none"
  BY DEF Commit, Abort, End, Goto, TypeOK
<1>2. HoldsOK(s)' /\ ProgressOK(s)' /\ CustomerOK(s)'
  BY <1>1 DEF HoldsOK, ProgressOK, CustomerOK, KnownAt, WritingAt, Refusals
<1>3. PlaceOK(s)' /\ AnswerOK(s)'
  BY <1>1 DEF PlaceOK, AnswerOK, PlannedAt, BookingAt, CustomerAt
<1> QED  BY <1>2, <1>3 DEF Decision

\* A booking is committed whole.
LEMMA WholeBooking ==
    ASSUME SessionOK, NEW s \in Sessions, Decision(s), Commit(s), "reservation" \in wrote[s]
    PROVE  /\ seat[s] \in Reservation /\ row[s] \in Customer
           /\ req[s] \in Requests /\ req[s].kind = "book" /\ req[s].email \in Emails
           /\ Inserted(s) = seat[s]
           /\ seat[s].email = req[s].email
<1>1. pc[s] = "returned" /\ req[s].kind = "book" /\ req[s] \in Requests
  BY DEF Commit, Decision, ProgressOK, SessionOK, PhaseOK
<1>2. "assignments" \in wrote[s]
  BY <1>1 DEF Decision, ProgressOK
<1> QED
  BY <1>1, <1>2, RequestFields DEF Decision, ProgressOK, PlaceOK, Inserted, SessionOK, WritesOK

\* The rows refer to each other, and reservations take time.
LEMMA CommitKeepsRows ==
    ASSUME TypeOK, SessionOK, RowsOK, NEW s \in Sessions, Decision(s), Commit(s)
    PROVE  RowsOK'
<1>1. ASSUME NEW e \in Emails PROVE customers[e] # NoCustomer => customers'[e] # NoCustomer
  BY RulesAssumption DEF Commit, TypeOK, SessionOK, WritesOK
<1>2. \A r \in reservations : r.email \in Emails
  BY DEF TypeOK, Reservation
<1>3. CASE "reservation" \notin wrote[s]
  BY <1>1, <1>2, <1>3 DEF Commit, RowsOK
<1>4. CASE "reservation" \in wrote[s]
  <2>1. reservations' = reservations \cup {seat[s]}
    BY <1>4, WholeBooking DEF Commit
  <2>2. seat[s].starts < seat[s].ends
    <3>1. seat[s].ends = seat[s].starts + config.duration
      BY <1>4 DEF Decision, PlaceOK
    <3>2. config.duration \in Nat \ {0}
      BY CalendarAssumption DEF TypeOK, Configuration
    <3>3. seat[s].starts \in Int
      BY <1>4, WholeBooking DEF Reservation
    <3> QED  BY <3>1, <3>2, <3>3
  <2>3. customers'[seat[s].email] # NoCustomer
    <3>1. row[s] # NoCustomer
      BY <1>4, WholeBooking, RulesAssumption
    <3>2. CASE "customer" \in wrote[s]
      BY <1>4, <3>1, <3>2, WholeBooking DEF Commit, TypeOK
    <3>3. CASE "customer" \notin wrote[s]
      BY <1>4, <3>1, <3>3, WholeBooking DEF Commit, Decision, CustomerOK
    <3> QED  BY <3>2, <3>3
  <2> QED  BY <1>1, <1>2, <2>1, <2>2, <2>3 DEF RowsOK
<1> QED  BY <1>3, <1>4

\* Every step leaves every decision standing.
LEMMA NextKeepsDecisions ==
    ASSUME DInv, [Next]_vars
    PROVE  (\A t \in Sessions : Decision(t))' /\ RowsOK'
<1> USE DEF DInv, IInv
<1>1. CASE Tick \/ UNCHANGED vars
  <2>1. UNCHANGED <<committed, locks, pc, session>>
    BY <1>1 DEF Tick, vars
  <2>2. ASSUME NEW t \in Sessions PROVE Decision(t)'
    <3>1. /\ (Promise!Resolved(req[t]))' = Promise!Resolved(req[t])
          /\ (Promise!MayAct(req[t]))' <=> Promise!MayAct(req[t])
          /\ (Served(req[t]))' = Served(req[t])
      BY <2>1 DEF committed, session, Promise!Resolved, Promise!MayAct, Served
    <3>2. CustomerOK(t)'
      BY <2>1, <3>1 DEF committed, session, Decision, CustomerOK
    <3>3. HoldsOK(t)' /\ ProgressOK(t)' /\ PlaceOK(t)' /\ AnswerOK(t)'
      BY <2>1 DEF committed, locks, session, Decision, HoldsOK, ProgressOK, PlaceOK, AnswerOK
    <3> QED  BY <3>2, <3>3 DEF Decision
  <2> QED  BY <2>1, <2>2 DEF committed, RowsOK
<1>2. ASSUME NEW s \in Sessions, Begin(s) \/ AcquireLock(s) \/ Work(s) \/ Abort(s)
      PROVE  (\A t \in Sessions : Decision(t))' /\ RowsOK'
  <2>1. Decision(s)'
    <3>1. CASE Begin(s) \/ AcquireLock(s)
      BY <3>1, BeginDecides, LockRowsDecides, LockEmailDecides, SelectCustomerDecides,
         InsertCustomerDecides DEF AcquireLock
    <3>2. CASE Work(s) \/ Abort(s)
      BY <3>2, WritePolicyDecides, ValidateDecides, SetPreferenceDecides, FindExistingDecides,
         CheckOverlapDecides, AllocateDecides, RecheckClockDecides, UpdateCustomerDecides,
         InsertReservationDecides, InsertAssignmentsDecides, CheckPostconditionsDecides,
         EndDecides DEF Work
    <3> QED  BY <1>2, <3>1, <3>2
  <2>2. ASSUME NEW t \in Sessions \ {s} PROVE Decision(t)'
    BY <1>2, OthersKeepDecision DEF Decision
  <2>3. RowsOK'
    <3>1. CASE Commit(s)
      BY <3>1, CommitKeepsRows
    <3>2. CASE UNCHANGED <<customers, reservations, config, hours, capacity>>
      BY <3>2 DEF RowsOK
    <3> QED  BY <1>2, <3>1, <3>2, OnlyCommit
  <2> QED  BY <2>1, <2>2, <2>3
<1> QED  BY <1>1, <1>2 DEF Next

\* At first nothing is decided.
LEMMA InitDecisions == Init => (\A s \in Sessions : Decision(s)) /\ RowsOK
<1> SUFFICES ASSUME Init PROVE (\A s \in Sessions : Decision(s)) /\ RowsOK
  OBVIOUS
<1>1. ASSUME NEW s \in Sessions PROVE Decision(s)
  <2>1. /\ pc[s] = "idle" /\ row[s] = NoCustomer /\ isNew[s] = FALSE /\ wrote[s] = {}
        /\ outcome[s] = "none"
    BY DEF Init
  <2>2. HoldsOK(s) /\ ProgressOK(s) /\ CustomerOK(s)
    BY <2>1 DEF HoldsOK, ProgressOK, CustomerOK, KnownAt, WritingAt, Refusals
  <2>3. PlaceOK(s) /\ AnswerOK(s)
    BY <2>1 DEF PlaceOK, AnswerOK, PlannedAt, BookingAt, CustomerAt
  <2> QED  BY <2>2, <2>3 DEF Decision
<1> QED  BY <1>1 DEF Init, RowsOK

\* The invariant behind the theorems below.
LEMMA DecisionInvariant == Spec => []DInv
<1>1. Init => DInv
  BY InitTyped, InitBook, InitDecisions DEF DInv, IInv
<1>2. DInv /\ [Next]_vars => DInv'
  BY NextKeepsTypes, NextKeepsBook, NextKeepsDecisions DEF DInv, IInv
<1> QED  BY <1>1, <1>2, PTL DEF Spec

\* A refusal names a fact that still holds when the client is told, however
\* long the commit takes: the restaurant lock outlives the undone block
\* (008: 399-490 and 649-664).
THEOREM RefusalsAreFacts == Spec => []RefusalsStayTrue
<1>1. DInv => RefusalsStayTrue
  BY DEF DInv, Decision, AnswerOK, RefusalsStayTrue
<1> QED  BY <1>1, DecisionInvariant, PTL

\* The newsletter state that is reported is the committed one: the e-mail
\* lock is held from the read to the commit, or the row is forgotten with it
\* (007: 203-261, 008: 303-307 and 527-538).
THEOREM ReportIsCurrent == Spec => []ReportedPreferenceIsCurrent
<1>1. DInv => ReportedPreferenceIsCurrent
  BY DEF DInv, Decision, CustomerOK, ReportedPreferenceIsCurrent
<1> QED  BY <1>1, DecisionInvariant, PTL

\* No unique_violation handler and no P6502 is ever needed: the locks keep
\* every rival out, and a plan suits its postconditions (008: 331-347,
\* 561-564 and 596-634; 007: 229-243).
THEOREM FallbacksNotNeeded == Spec => []FallbacksUnreached
<1>1. DInv => FallbacksUnreached
  BY DEF DInv, Decision, CustomerOK, AnswerOK, FallbacksUnreached
<1> QED  BY <1>1, DecisionInvariant, PTL

-----------------------------------------------------------------------------
(* Repetitions *)

\* What a booking can be told that finds itself in the book, and what not.
Recognised == {"exact_retry", "invalid_request", "customer_identity_mismatch",
               "middle_initial_conflict"}
NotRepeated == {"booked", "booked_phone_notice", "same_customer_overlap", "unavailable"}

\* From the look for an exact retry to the end of the transaction, a booking
\* that was not found in the book is not in it: the restaurant lock outlives
\* the undone block.
NewOK(s) ==
    /\ pc[s] \in PlannedAt \cup {"check_overlap", "allocate"} \/ outcome[s] \in NotRepeated =>
          /\ restaurantLock = s
          /\ seat[s].email = req[s].email
          /\ seat[s].starts = ResolvedStart(req[s])
          /\ seat[s].party = req[s].party
          /\ \A r \in reservations : ~SameIdentity(r, seat[s])
    /\ pc[s] = "returned" /\ req[s].kind = "book" => outcome[s] \in Recognised \cup NotRepeated

\* The others leave the book to the holder of the lock.
LEMMA OthersKeepNew ==
    ASSUME TypeOK, SessionOK, NEW s \in Sessions, NEW t \in Sessions \ {s},
           HoldsOK(s), NewOK(t), Begin(s) \/ AcquireLock(s) \/ Work(s) \/ Abort(s)
    PROVE  NewOK(t)'
<1>1. /\ pc'[t] = pc[t] /\ req'[t] = req[t] /\ seat'[t] = seat[t] /\ outcome'[t] = outcome[t]
      /\ restaurantLock = t => restaurantLock' = t
  BY OthersLeft
<1>2. restaurantLock = t => reservations' = reservations
  BY LocksProtect
<1> QED  BY <1>1, <1>2 DEF NewOK

\* The steps before the look for an exact retry, and the look itself.
LEMMA EarlyStepsKeepNew ==
    ASSUME TypeOK, SessionOK, NEW s \in Sessions, Decision(s), NewOK(s),
           \/ Begin(s) \/ AcquireLock(s) \/ WritePolicy(s) \/ Validate(s)
           \/ SetPreference(s) \/ FindExisting(s)
    PROVE  NewOK(s)'
<1>1. pc[s] \notin {"returned", "failed"}
  BY DEF Begin, AcquireLock, LockRestaurant, LockConfiguration, LockHours, LockTables,
     LockRows, LockEmail, SelectCustomer, InsertCustomer, WritePolicy, Validate,
     SetPreference, FindExisting
<1>2. outcome[s] = "none"
  BY <1>1 DEF Decision, ProgressOK
<1>3. CASE Begin(s)
  BY <1>2, <1>3 DEF Begin, NewOK, Goto, Return, TypeOK, PlannedAt, Recognised, NotRepeated
<1>4. CASE AcquireLock(s)
  BY <1>2, <1>4 DEF AcquireLock, LockRestaurant, LockConfiguration, LockHours, LockTables,
     LockRows, LockEmail, SelectCustomer, InsertCustomer, TakeCustomer, CheckIdentity,
     AfterCustomer, NewOK, Goto, Return, TypeOK, PlannedAt, Recognised, NotRepeated, session
<1>5. CASE WritePolicy(s) \/ Validate(s) \/ SetPreference(s)
  <2>1. WritePolicy(s) \/ SetPreference(s) => req[s].kind # "book"
    BY DEF WritePolicy, SetPreference, SessionOK, PhaseOK
  <2> QED
    BY <1>2, <1>5, <2>1 DEF WritePolicy, Validate, SetPreference, NewOK, Goto, Return, Raise,
       TypeOK, PlannedAt, Recognised, NotRepeated
<1>6. CASE FindExisting(s)
  <2>1. /\ req[s].kind = "book" /\ restaurantLock = s /\ seat[s].email = req[s].email
        /\ seat[s].starts = ResolvedStart(req[s]) /\ seat[s].party = req[s].party
    BY <1>6 DEF FindExisting, SessionOK, PhaseOK, LockOK, BookingAt, Decision, PlaceOK
  <2>2. UNCHANGED <<req, restaurantLock, reservations>>
    BY <1>6 DEF FindExisting, committed, locks
  <2>3. \/ pc'[s] = "returned" /\ outcome'[s] = "exact_retry"
        \/ /\ pc'[s] = "check_overlap" /\ UNCHANGED <<seat, outcome>>
           /\ \A r \in reservations : ~SameIdentity(r, seat[s])
    BY <1>6 DEF FindExisting, Goto, Return, TypeOK
  <2> QED  BY <1>2, <2>1, <2>2, <2>3 DEF NewOK, PlannedAt, Recognised, NotRepeated
<1> QED  BY <1>3, <1>4, <1>5, <1>6

\* What follows keeps the plan's customer, time and party, or ends.
LEMMA LateStepsKeepNew ==
    ASSUME TypeOK, SessionOK, NEW s \in Sessions, Decision(s), NewOK(s),
           \/ CheckOverlap(s) \/ Allocate(s) \/ RecheckClock(s) \/ UpdateCustomer(s)
           \/ InsertReservation(s) \/ InsertAssignments(s) \/ CheckPostconditions(s)
           \/ Commit(s) \/ Abort(s)
    PROVE  NewOK(s)'
<1>1. CASE Commit(s) \/ Abort(s)
  BY <1>1 DEF Commit, Abort, End, Goto, TypeOK, NewOK, PlannedAt, NotRepeated
<1>2. CASE ~(Commit(s) \/ Abort(s))
  <2>1. /\ pc[s] \in PlannedAt \cup {"check_overlap", "allocate"}
        /\ seat[s] \in Reservation
    BY <1>2 DEF CheckOverlap, Allocate, RecheckClock, UpdateCustomer, InsertReservation,
       InsertAssignments, CheckPostconditions, PlannedAt, SessionOK, PhaseOK, BookingAt
  <2>2. /\ restaurantLock = s /\ seat[s].email = req[s].email
        /\ seat[s].starts = ResolvedStart(req[s]) /\ seat[s].party = req[s].party
        /\ \A r \in reservations : ~SameIdentity(r, seat[s])
    BY <2>1 DEF NewOK
  <2>3. UNCHANGED <<req, restaurantLock, reservations>>
    BY <1>2 DEF CheckOverlap, Allocate, RecheckClock, UpdateCustomer, InsertReservation,
       InsertAssignments, CheckPostconditions, committed, locks
  <2>4. /\ seat'[s].email = seat[s].email /\ seat'[s].starts = seat[s].starts
        /\ seat'[s].party = seat[s].party
    BY <1>2, <2>1 DEF CheckOverlap, Allocate, RecheckClock, UpdateCustomer, InsertReservation,
       InsertAssignments, CheckPostconditions, TypeOK, Reservation
  <2>5. pc'[s] = "returned" => outcome'[s] \in Recognised \cup NotRepeated
    BY <1>2 DEF CheckOverlap, Allocate, RecheckClock, UpdateCustomer, InsertReservation,
       InsertAssignments, CheckPostconditions, UndoBlock, Goto, Return, Raise, TypeOK,
       Recognised, NotRepeated
  <2> QED  BY <2>2, <2>3, <2>4, <2>5 DEF NewOK, SameIdentity
<1> QED  BY <1>1, <1>2

\* Every step of every session keeps it.
LEMMA NextKeepsNew ==
    ASSUME DInv, \A s \in Sessions : NewOK(s), [Next]_vars
    PROVE  (\A s \in Sessions : NewOK(s))'
<1>1. CASE Tick \/ UNCHANGED vars
  BY <1>1 DEF Tick, vars, committed, locks, session, NewOK
<1>2. ASSUME NEW s \in Sessions, Begin(s) \/ AcquireLock(s) \/ Work(s) \/ Abort(s)
      PROVE  (\A t \in Sessions : NewOK(t))'
  <2>1. NewOK(s)'
    BY <1>2, EarlyStepsKeepNew, LateStepsKeepNew DEF Work, DInv, IInv
  <2>2. ASSUME NEW t \in Sessions \ {s} PROVE NewOK(t)'
    BY <1>2, OthersKeepNew DEF DInv, IInv, Decision
  <2> QED  BY <2>1, <2>2
<1> QED  BY <1>1, <1>2 DEF Next

\* However often and beside whatever else a booking is repeated, it is in the
\* book once, and its repetitions are recognised or refused for what they say
\* (008: 399-452).
THEOREM RepetitionsRecognised == Spec => []RepetitionIsRecognised
<1>1. Init => \A s \in Sessions : NewOK(s)
  BY DEF Init, NewOK, PlannedAt, NotRepeated
<1>2. /\ DInv /\ (\A s \in Sessions : NewOK(s)) /\ [Next]_vars
      => (\A s \in Sessions : NewOK(s))'
  BY NextKeepsNew
<1>3. (\A s \in Sessions : NewOK(s)) => RepetitionIsRecognised
  <2> SUFFICES ASSUME NEW s \in Sessions, NewOK(s), NEW r \in reservations,
                      pc[s] = "returned", req[s].kind = "book",
                      r.email = req[s].email, r.party = req[s].party,
                      r.starts = ResolvedStart(req[s])
               PROVE  outcome[s] \in Recognised
    BY DEF RepetitionIsRecognised, Recognised
  <2> QED  BY DEF NewOK, SameIdentity
<1> QED  BY <1>1, <1>2, <1>3, DecisionInvariant, PTL DEF Spec

-----------------------------------------------------------------------------
(* The length of a transaction *)

\* The statements in the order in which a transaction can reach them.
PlaceOf == [idle |-> 0, lock_restaurant |-> 1, lock_configuration |-> 2, lock_hours |-> 3,
            lock_tables |-> 4, write_policy |-> 5, validate |-> 5, lock_email |-> 6,
            select_customer |-> 7, insert_customer |-> 8, set_preference |-> 9,
            find_existing |-> 9, check_overlap |-> 10, allocate |-> 11,
            recheck_clock |-> 12, update_customer |-> 13, insert_reservation |-> 14,
            insert_assignments |-> 15, check_postconditions |-> 16,
            returned |-> 17, failed |-> 17]

\* No transaction goes back: a step of a session that moves leads to a later
\* statement, or ends the transaction.
OnlyForward ==
    [][\A s \in Sessions :
          pc'[s] # pc[s] => pc'[s] = "idle" \/ PlaceOf[pc[s]] < PlaceOf[pc'[s]]]_vars

\* A transaction has at most 17 statements from its first to its end, whatever
\* the others do; with SomebodyGoesOn, the transactions that are open at any
\* time all end, if no new ones begin and each runs when it can (008: 130-664,
\* 007: 158-378).
THEOREM TransactionsAreShort == Spec => OnlyForward
<1> DEFINE Forward(s) ==
        pc'[s] # pc[s] => pc'[s] = "idle" \/ PlaceOf[pc[s]] < PlaceOf[pc'[s]]
<1>1. TypeOK /\ SessionOK /\ [Next]_vars => \A s \in Sessions : Forward(s)
  <2> SUFFICES ASSUME TypeOK, SessionOK, [Next]_vars, NEW s \in Sessions  PROVE Forward(s)
    OBVIOUS
  <2>1. CASE Tick \/ UNCHANGED vars
    BY <2>1 DEF Tick, vars
  <2>2. ASSUME NEW t \in Sessions \ {s}, Begin(t) \/ AcquireLock(t) \/ Work(t) \/ Abort(t)
        PROVE  pc'[s] = pc[s]
    BY <2>2, OthersLeft
  <2>3. CASE Begin(s)
    BY <2>3 DEF Begin, Goto, Return, TypeOK, PlaceOf
  <2>4. CASE AcquireLock(s)
    BY <2>4 DEF AcquireLock, LockRestaurant, LockConfiguration, LockHours, LockTables, LockRows,
       LockEmail, SelectCustomer, InsertCustomer, TakeCustomer, CheckIdentity, AfterCustomer,
       Goto, Return, TypeOK, PlaceOf
  <2>5. CASE Work(s)
    BY <2>5 DEF Work, WritePolicy, Validate, SetPreference, FindExisting, CheckOverlap, Allocate,
       RecheckClock, UndoBlock, UpdateCustomer, InsertReservation, InsertAssignments,
       CheckPostconditions, Commit, End, Goto, Return, Raise, TypeOK, PlaceOf
  <2>6. CASE Abort(s)
    BY <2>6 DEF Abort, End, Goto, TypeOK
  <2> QED  BY <2>1, <2>2, <2>3, <2>4, <2>5, <2>6 DEF Next
<1>2. Spec => [](TypeOK /\ SessionOK)
  <2>1. Init => TypeOK /\ SessionOK
    BY InitTyped
  <2>2. TypeOK /\ SessionOK /\ [Next]_vars => (TypeOK /\ SessionOK)'
    BY NextKeepsTypes
  <2> QED  BY <2>1, <2>2, PTL DEF Spec
<1> QED  BY <1>1, <1>2, PTL DEF Spec, OnlyForward

-----------------------------------------------------------------------------
(* The abstract specification *)

\* What a policy writer commits is one atomic change of the policy.
LEMMA PolicyCommit ==
    ASSUME DInv, NEW s \in Sessions, Commit(s), "policy" \in wrote[s]
    PROVE  Promise!Next
<1>1. /\ req[s] \in Requests /\ req[s].kind \in PolicyKinds /\ LegalPolicy(req[s])
      /\ wrote[s] = {"policy"}
  BY DEF DInv, IInv, SessionOK, PhaseOK, WritesOK, Commit, Decision, ProgressOK
<1>2. req[s] \in PolicyRequests
  BY <1>1, RulesAssumption DEF Requests, BookingRequest, PreferenceRequest, PolicyKinds
<1>3. Promise!SetPolicy(req[s])
  BY <1>1, SameRules DEF Commit, PolicyWritten, Promise!SetPolicy
<1> QED  BY <1>2, <1>3 DEF Promise!Next

\* What a newsletter change commits is one atomic change of the customer.
LEMMA PreferenceCommit ==
    ASSUME DInv, NEW s \in Sessions, Commit(s), "customer" \in wrote[s],
           req[s].kind = "preference"
    PROVE  Promise!Next
<1>1. req[s] \in Requests /\ wrote[s] = {"customer"} /\ pc[s] = "returned"
  BY DEF DInv, IInv, SessionOK, PhaseOK, Commit, Decision, ProgressOK
<1>2. req[s] \in PreferenceRequests
  BY <1>1, RulesAssumption DEF Requests, BookingRequest, PolicyKinds
<1>3. Promise!Prefer(req[s])
  BY <1>1 DEF DInv, Decision, CustomerOK, Commit, PolicyWritten, Promise!Prefer
<1> QED  BY <1>2, <1>3 DEF Promise!Next

\* What a booking commits is the atomic booking of the abstract book.
LEMMA BookingCommit ==
    ASSUME DInv, NEW s \in Sessions, Commit(s), "reservation" \in wrote[s]
    PROVE  Promise!Next
<1> DEFINE r == req[s]
<1>1. /\ seat[s] \in Reservation /\ row[s] \in Customer
      /\ r \in Requests /\ r.kind = "book" /\ r.email \in Emails
      /\ Inserted(s) = seat[s] /\ seat[s].email = r.email
  BY WholeBooking DEF DInv, IInv
<1>2. r \in BookingRequests
  BY <1>1, RulesAssumption DEF Requests, PreferenceRequest, PolicyKinds
<1>3. /\ seat[s].starts = ResolvedStart(r)
      /\ seat[s].ends = ResolvedStart(r) + config.duration
      /\ seat[s].party = r.party
      /\ ~OutsideHours(r, config, hours) /\ ~PartyRefused(r.party, capacity)
      /\ seat[s].tables \in BestAllocations(
              FreeTables(reservations, seat[s].starts, seat[s].ends), capacity, seat[s].party)
  BY DEF DInv, Decision, PlaceOK
<1>4. Promise!MayAct(r) /\ row[s] = Served(r)
  BY DEF DInv, Decision, CustomerOK
<1>5. customers' = [customers EXCEPT ![r.email] = Served(r)]
  <2>1. CASE "customer" \in wrote[s]
    BY <1>4, <2>1 DEF Commit
  <2>2. CASE "customer" \notin wrote[s]
    <3>1. row[s] = customers[r.email]
      BY <1>1, <2>2, RulesAssumption DEF DInv, Decision, CustomerOK
    <3> QED  BY <1>4, <2>2, <3>1 DEF Commit, DInv, IInv, TypeOK
  <2> QED  BY <2>1, <2>2
<1>6. UNCHANGED <<config, hours, capacity>>
  <2>1. "policy" \notin wrote[s]
    BY <1>1 DEF DInv, Decision, ProgressOK, Commit
  <2> QED  BY <2>1 DEF Commit, PolicyWritten
<1>7. \A o \in reservations : o.email = r.email =>
          ~Overlap(o.starts, o.ends, seat[s].starts, seat[s].ends)
  BY <1>1 DEF DInv, IInv, BookOK, PlanOK
<1>8. reservations' = reservations \cup
          {[email |-> r.email, starts |-> seat[s].starts, ends |-> seat[s].ends,
            party |-> r.party, tables |-> seat[s].tables]}
  BY <1>1, <1>3 DEF Commit, Reservation
<1>9. Promise!Book(r)
  <2>1. Promise!ResolvedStart(r) = seat[s].starts
    BY <1>3, SameRules
  <2>2. Promise!ResolvedStart(r) + config.duration = seat[s].ends
    BY <1>3, <2>1
  <2>3. ~Promise!OutsideHours(r, config, hours) /\ ~Promise!PartyRefused(r.party, capacity)
    BY <1>3, SameRules
  <2>4. \A o \in reservations : o.email = r.email =>
            ~Promise!Overlap(o.starts, o.ends, seat[s].starts, seat[s].ends)
    BY <1>7 DEF Overlap, Promise!Overlap
  <2>5. seat[s].tables \in Promise!BestAllocations(
            Promise!FreeTables(reservations, seat[s].starts, seat[s].ends), capacity, r.party)
    BY <1>3, SameRules
  <2>6. customers' = [customers EXCEPT ![r.email] =
            [name       |-> Promise!Resolved(r).name,
             initial    |-> Promise!FillIn(Promise!Resolved(r).initial, r.initial),
             phone      |-> Promise!FillIn(Promise!Resolved(r).phone, r.phone),
             subscribed |-> IF r.newsletter = "no_change" THEN Promise!Resolved(r).subscribed
                            ELSE r.newsletter = "subscribe"]]
    BY <1>5 DEF Served
  <2> QED  BY <1>4, <1>6, <1>8, <2>1, <2>2, <2>3, <2>4, <2>5, <2>6 DEF Promise!Book
<1> QED  BY <1>2, <1>9 DEF Promise!Next

\* A commit without writes, and every other step, is invisible.
LEMMA StepImplements ==
    ASSUME DInv, [Next]_vars
    PROVE  [Promise!Next]_(Promise!bookVars)
<1>1. CASE Tick \/ UNCHANGED vars
  BY <1>1 DEF Tick, vars, committed, Promise!bookVars
<1>2. ASSUME NEW s \in Sessions, Begin(s) \/ AcquireLock(s) \/ Work(s) \/ Abort(s)
      PROVE  [Promise!Next]_(Promise!bookVars)
  <2>1. CASE UNCHANGED <<customers, reservations, config, hours, capacity>>
    BY <2>1 DEF Promise!bookVars
  <2>2. CASE Commit(s)
    <3>1. CASE "reservation" \in wrote[s] \/ "policy" \in wrote[s]
      BY <2>2, <3>1, BookingCommit, PolicyCommit
    <3>2. CASE "reservation" \notin wrote[s] /\ "policy" \notin wrote[s] /\ "customer" \in wrote[s]
      <4>1. req[s].kind = "preference"
        BY <2>2, <3>2 DEF Commit, DInv, IInv, SessionOK, WritesOK, Decision, ProgressOK
      <4> QED  BY <2>2, <3>2, <4>1, PreferenceCommit
    <3>3. CASE "reservation" \notin wrote[s] /\ "policy" \notin wrote[s] /\ "customer" \notin wrote[s]
      BY <2>2, <3>3 DEF Commit, PolicyWritten, Promise!bookVars
    <3> QED  BY <3>1, <3>2, <3>3
  <2> QED  BY <1>2, <2>1, <2>2, OnlyCommit
<1> QED  BY <1>1, <1>2 DEF Next

\* Seen from outside, concurrent transactions are the atomic requests of
\* ReservationBook, for any number of sessions: only a commit is visible, and
\* what it makes visible was decided on the rows it changes (008: 130-664,
\* 007: 158-378).
THEOREM AtomicFromOutside == Spec => ImplementsReservationBook
<1>1. Init => Promise!Init
  BY DEF Init, Promise!Init
<1>2. DInv /\ [Next]_vars => [Promise!Next]_(Promise!bookVars)
  BY StepImplements
<1> QED  BY <1>1, <1>2, DecisionInvariant, PTL DEF Spec, ImplementsReservationBook, Promise!Spec
=============================================================================
