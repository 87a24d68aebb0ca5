-------------------------- MODULE ReservationRules --------------------------
(***************************************************************************)
(* The rows of the reservation database (migrations 002 and 005), the      *)
(* requests its functions take, and the pure rules those functions apply.  *)
(* The transaction model and its abstract specification share them.        *)
(***************************************************************************)
EXTENDS RestaurantCalendar, TableChoice

CONSTANTS
    Emails,              \* canonical e-mail addresses; one customer row each
    Names,               \* case-folded (first name, last name) pairs
    Initials,            \* middle initials
    Phones,              \* telephone numbers, compared by their digits
    NULL,                \* SQL NULL in an optional column
    NoCustomer,          \* "no row with this e-mail"
    BookingRequests,     \* calls of book_reservation
    PreferenceRequests,  \* calls of set_newsletter_preference
    PolicyRequests,      \* calls of the policy writers
    InitConfig, InitHours, InitCapacity   \* the seed of migration 003

-----------------------------------------------------------------------------
(* Rows *)

Customer == [name : Names, initial : Initials \cup {NULL},
             phone : Phones \cup {NULL}, subscribed : BOOLEAN]

\* A reservation with its rows of reservation_table_assignments.  The
\* surrogate key is left out: (customer, start, party) is UNIQUE.
Reservation == [email : Emails, starts : Int, ends : Int,
                party : Nat \ {0}, tables : SUBSET Tables]

-----------------------------------------------------------------------------
(* Requests *)

BookingRequest ==
    [kind : {"book"}, wellFormed : BOOLEAN, name : Names,
     initial : Initials \cup {NULL}, email : Emails, phone : Phones \cup {NULL},
     local : Int, offset : Int, party : Int,
     newsletter : {"subscribe", "unsubscribe", "no_change"}]

PreferenceRequest ==
    [kind : {"preference"}, wellFormed : BOOLEAN, name : Names,
     initial : Initials \cup {NULL}, email : Emails, subscribe : BOOLEAN]

PolicyKinds == {"configuration", "hours", "tables"}

Requests == BookingRequests \cup PreferenceRequests \cup PolicyRequests

ASSUME RulesAssumption ==
    /\ NoCustomer \notin Customer
    /\ BookingRequests \subseteq BookingRequest
    /\ PreferenceRequests \subseteq PreferenceRequest
    /\ \A r \in PolicyRequests : r.kind \in PolicyKinds
    /\ InitConfig \in Configuration
    /\ InitHours \in [Weekdays -> OpeningHours]
    /\ InitCapacity \in Capacities

-----------------------------------------------------------------------------
(* Rules *)

\* Mutant of LegalPolicy: the CHECK constraints are missing.
LegalPolicy_Unchecked(r) == TRUE

\* The CHECK constraints of migration 002 and the STRICT update of one row.
LegalPolicy(r) ==
    CASE r.kind = "configuration" -> r.config \in Configuration
      [] r.kind = "hours"  -> r.weekday \in Weekdays /\ r.hours \in OpeningHours
      [] r.kind = "tables" -> r.table \in Tables /\ r.seats \in Nat \ {0}

\* The instant the requested wall-clock time stands for, if the zone has
\* exactly one such instant and the caller's offset agrees with it.
ResolvedStart(r) == r.local - r.offset

Resolvable(r, c) == Candidates(c.zone, r.local) = {ResolvedStart(r)}

\* The checks of a start that do not depend on the clock.
OutsideHours(r, c, hrs) ==
    \/ ~Resolvable(r, c)
    \/ StartBeforeOpening(r.local, hrs)
    \/ MisalignedStart(r.local, hrs, c)
    \/ EndAfterClosing(r.local, ResolvedStart(r), hrs, c)

\* The checks that do, made after the locks are held and again before the
\* first write.
TooLateOrTooEarly(r, now, c) ==
    \/ DateOutsideWindow(r.local, now, c)
    \/ InsufficientLead(r.local, ResolvedStart(r), now, c)

PartyRefused(party, cap) == party < 1 \/ party > SeatsIn(Tables, cap)

SameNames(r, customer) == customer.name = r.name

InitialsConflict(r, customer) ==
    /\ customer.initial # NULL
    /\ r.initial # NULL
    /\ customer.initial # r.initial

SameIdentity(r, plan) ==
    r.email = plan.email /\ r.starts = plan.starts /\ r.party = plan.party

\* The tables no reservation of the book occupies during [start, end).
FreeTables(book, start, end) ==
    {t \in Tables : \A r \in book :
        t \in r.tables => ~Overlap(r.starts, r.ends, start, end)}

=============================================================================
