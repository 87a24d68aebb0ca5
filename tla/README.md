# Café Fausse: a TLA+ verification of the reservation system

Café Fausse is a restaurant web site. Customers look up free times, book
tables and choose whether to receive a newsletter. A React client talks to a
Flask service, which calls PL/pgSQL functions of a PostgreSQL database. The
database functions make every decision that matters; the service retries them
without doing anything twice; the client shows what it knows, and must not
claim more.

This directory models those three layers, checks the models with TLC on small
instances, and proves with TLAPS, for every instance, every safety property of
the runs: of the transactions, the table allocator, the availability query, the
service and the forms; and that the transactions implement an abstract
reservation book.

    cd tla
    tlc -workers 2 -config seating.cfg MCBooking     # any run of the table below
    tlapm BookingProofs.tla                          # and the other *Proofs

## 1. Inventory

Short names: `00N` is a migration of `src/database/migrations/`; the Flask
files are under `src/backend/src/cafe_fausse/`, the client under
`src/frontend/src/`.

| Component | State | Operations | Correct when |
|---|---|---|---|
| Booking transaction (008) | customers, reservations, table assignments; advisory locks `(1128682322,1)` and `(1128678733,key)`; row locks | `book_reservation` | no table and no customer booked twice; all or nothing; decided on the policy in force at commit; refusals true; an exact repetition recovers the reservation |
| Newsletter change (007) | the customer's row | `set_newsletter_preference` | never loses another change of the row; reports the committed value |
| Policy writers (007) | configuration, hours and table rows | three `set_...` functions | never interleave with a booking's decision |
| Calendar (006, 002) | none | resolution of local times, checks of a start | agree between query and booking |
| Allocator (011) | temporary tables of one call | `select_table_allocation` | fewest tables, then fewest seats; each tie reached by exactly one rank |
| Lock keys (006) | none | `canonical_email_lock_key` | an integer for every hash; one hash prefix per key |
| Availability query (007) | none, one snapshot | `provisional_availability` | offers exactly what a booking would accept |
| Mutation services (`services/retry.py`, `services/reservations.py`, `services/newsletter_preferences.py`, `db/reservation_gateway.py`, `db/newsletter_gateway.py`, `db/pool.py`) | attempt, deadline, connection, pool | `book`, `set_preference` | at most one effect per call; honest certainty; no connection lost silently; every call answered |
| Read services (`db/context_gateway.py`, `db/availability_gateway.py`, `db/customer_gateway.py`, `db/health_gateway.py` with their services) | attempt, deadline, connection, what was read; the shared pool | context, availability, newsletter status, readiness; replacement of a dead connection; `close_resources` | what is shown was true at one instant; ends in time; an outage invites another try; every read answered |
| Validation, parsing, serialization, routes, error handlers (`validation/`, `serialization/`, `http/`) | none | per request | what passes the validators is what the database takes; the answer on the wire says what happened |
| Settings (`config.py`) | constants | `Settings.from_environment` | settings accepted one by one fit together |
| Newsletter form (`NewsletterPreferences.jsx`, `useNewsletterLookup.js`) | fields, box, look-up, pending save, recovery body | type, click, save, resend, abandon, answers | shows the person named, keeps a click, repeats only what is unresolved |
| Reservation form (`ReservationFeature.jsx`) | choices, slots, selection, recovery body, confirmation | choose, check, submit, resend, abandon, answers | slots belong to the choices; an unresolved booking is only repeated |
| Static pages, gallery, hours, layout | presentation | - | - |
| Wiring of the application, logging | log lines | - | - |
| Privileges, provisioning, reset, scripts | catalog | run once by an operator | - |

**Interactions.** The client calls the service over HTTP; an answer may be
late, out of order or lost while the request is carried out. The service calls
one database function per transaction on a pooled connection, and a booking is
followed by one read in a second transaction, for the name shown in the
confirmation. Transactions meet in the rows and in three families of locks:
the restaurant lock, then the configuration, hours and table rows, then the
customer's e-mail lock, then the customer's row (`ADVISORY_LOCKS.md`). A
newsletter change enters this order at the e-mail lock.

**What is hard.** Transactions run at READ COMMITTED, so each statement sees a
newer state than the one before; a booking reads free tables and writes its
choice many statements later. A booking that is refused after it inserted a
customer must undo that, in a transaction that commits. The clock moves while
a transaction waits for locks. A COMMIT that raises may have committed. A read may find its connection dead,
use up its time in the pool, between its statements or while its thread is
held up, or meet the shutdown of the process. The rules of a well-formed
request are written four times, in two languages and in SQL. The
client keeps polling status while a save is pending, and versions and sequence
numbers decide which answer counts. `PROJECT.json` lists these hazards with
the line where each bites.

## 2. Modules

| Module | Models | EXTENDS / INSTANCE |
|---|---|---|
| `RestaurantCalendar` | policy rows, time resolution, checks of a start | - |
| `TableChoice` | the contract of the allocator | - |
| `ReservationRules` | rows, requests, pure rules | the two above |
| `BookingTransactions` | sessions that run the five functions statement by statement | `ReservationRules` |
| `ReservationBook` | abstract specification: each request one atomic step | `ReservationRules` |
| `BookingProperties` | properties, refinement, fairness | `BookingTransactions`, instance of `ReservationBook` |
| `BookingProofs` | theorems | `BookingProperties`, `TLAPS` |
| `TableAllocation` | the search of migration 011, and the function of 006 it replaces | `TableChoice` |
| `AllocationProofs` | theorems | `TableAllocation`, `TLAPS` |
| `AvailabilityQuery` | the query over the book | `ReservationRules`, instance of `ReservationBook` |
| `AvailabilityProofs` | theorems | `AvailabilityQuery`, `AllocationProofs` |
| `RequestRules` | the rules of a well-formed request: form, validators, function guards, CHECKs | - |
| `HttpBoundary` | which requests are refused, what an outcome becomes on the wire, how the forms read it | `RequestRules` |
| `RetryLoop` | when a failed attempt is repeated | - |
| `MutationService`, `ServiceProperties` | routes, gateways, retries and pool of the two mutations | `HttpBoundary`, `RetryLoop` |
| `ReadService`, `ReadProperties` | the same of the four reads, with their snapshots and timeouts | `HttpBoundary`, `RetryLoop` |
| `Settings` | the environments the service starts in | - |
| `RuleProofs` | theorems | `HttpBoundary`, `Settings`, `LockKeys`, `TLAPS` |
| `ServiceProofs`, `ReadProofs` | theorems | `ServiceProperties`, `ReadProperties`, `TLAPS` |
| `NewsletterProofs`, `ReservationProofs` | theorems | the two forms, `TLAPS` |
| `SampleRequests` | the requests of the runs | `HttpBoundary` |
| `LockKeys` | the arithmetic of `canonical_email_lock_key` | - |
| `StatusLookup` | the status look-up that both forms share | - |
| `NewsletterForm` | the newsletter form | `StatusLookup` |
| `ReservationForm` | the reservation page | `StatusLookup` |
| `MCBooking`, `MCAllocation`, `MCAvailability`, `MCService`, `MCReads`, `MCNewsletter`, `MCReservation` | the instances of the runs | |

### Database

A session of `BookingTransactions` is a pooled connection. `pc[s]` names the
statement it is about to run; `row`, `isNew`, `seat` and `outcome` are the
PL/pgSQL variables, `wrote` the uncommitted rows. A statement reads the
committed rows (and its own plan), as READ COMMITTED does; `Commit` makes the
writes visible, `Abort` drops them. Locks are held until the transaction ends;
`UndoBlock` models the `EXCEPTION WHEN SQLSTATE 'P6601'` handler, which undoes
the inner block and with it the locks the block took.

Time is counted in ticks. A time zone is a function from instants to what the
wall clock shows (`LocalAt`), so a skipped hour has no candidate instant and a
repeated hour two. `Candidates` are all the instants that show a local time; the
code finds them with the zone's offsets two days before, at and two days after
it, which is the same for a zone that changes its clock at most once within
these four days. A request carries the UTC offset it was displayed with.

Abstractions, each of them on purpose:

* The isolation-level check and all malformed input are one bit,
  `wellFormed`: both return before any lock or row is touched. Detail codes
  that lead to the same outcome are merged.
* The table-count and time-zone checks of the configuration cannot fail on
  rows the schema admits, and are left out.
* A customer is identified by the canonical e-mail; surrogate keys are left
  out. `LockKey` may give two addresses one key, as a 32-bit hash may.
* A crash of the server, a lost connection, `lock_timeout`,
  `statement_timeout` and a deadlock victim are all `Abort` of a session, at
  any statement. Nothing uncommitted survives, and nothing else does.
* A lost answer is a `Commit` after which the client may `Begin` the same
  request again.
* The random rank among equal table choices is a nondeterministic choice, so
  a property holds for every draw.

`ReservationBook` says what outside observers may assume: `Book`, `Prefer` and
`SetPolicy` are single steps on the committed rows, and refused or repeated
requests do not appear. The refinement is the identity on the committed rows.

`TableAllocation` runs one call per behaviour and is compared with
`BestAllocations`, and with the function of migration 006 that it replaced; it
leaves the temporary tables and masks out and keeps the order of the search. `AvailabilityQuery` has no locks: the query is one
statement over one snapshot, at one reading of the clock.

### Service

**Requests.** A text is a record of what the rules ask of it: its length,
whether it has a letter, whether its white space is collapsed, and so on; a
field is absent, null, of another type, or such a value. Over these records
`RequestRules` states the validators, the web form, the guards of the two
database functions and the CHECKs of the customers table. `HttpBoundary`
answers a request with the first check that fails, in the order of the code,
and maps every outcome and exception to status, code, `retryable` and
`outcome_unknown`. `KeepsBody` is what both forms make of such an answer.

**Mutations.** A call of `MutationService` is a request thread, from the
arrival of its request to the answer. `stage` walks through the
retry loop and one attempt; `left` and `timer` are what is left of the
deadline and of the current wait, and `Tick` may come between any two steps,
so a thread may be delayed anywhere. The database is the set of outcomes its
statements may have. Before COMMIT is sent, a failure leaves a transaction the
server rolls back; when COMMIT raises, both outcomes are possible. psycopg's
`with connection` swallows most errors of a rollback, so `RollbackFails` is
the defensive branch of the code: after the call was sent it leaves a doubt and
closes the connection, before that it only forbids a retry. `malformed` is what
the guard of the database function objects to in the arguments: nothing, or a
middle initial whose letter has no case, which the validators pass on. Such a
call is sent and its row is a refusal. A closed connection handed to `putconn` is
replaced by the pool; one that is never handed back is counted in `lost`.
`Responses` is the set of answers a result may be given, since the detail of a
refused row belongs to the database.

**Reads.** What a statement of `ReadService` reads is one number, `version`,
which `Write` raises; `seen` are the numbers of the current attempt. Context
and availability send two statements under REPEATABLE READ, status and
readiness one. `statement_timeout` is set once per attempt to the time left
and holds for each statement anew: `limit` keeps it. `CheckFails` is the
pool's `check_session` that finds a dead connection, `Rebuild` the pool's own
replacement of it, `Close` the shutdown, which closes the idle connections and
turns waiting threads away. Here a thread that can go on does so at once,
except for `Quirks` ticks that hold threads up anywhere; a bound on a read's
time would otherwise be about the scheduler and not about the code. BEGIN and
the settings of the transaction are taken to need no time.

**Settings.** `Accepted` is the condition under which
`Settings.from_environment` returns; `SleepTimes` the delays the retry loop
then draws.

### Client

A step of `NewsletterForm` or `ReservationForm` is one browser event with its
render and effects. `StatusLookup` is the hook `useNewsletterLookup` with the
box it drives: `values` is the identity the fields normalise to, `queries` are
the look-ups from their 400 ms timer to their answer, `sequence` and `choice`
(the edit version) decide which answer counts. A form adds its own events,
and calls `RunEffect` where a step changes the identity.

The server is reduced to `stored`, a preference per customer, and, on the
reservation page, `booked`. `save` or `booking` is the request under way;
`late` holds requests whose answer was lost and which the server may still
carry out. `ReservationForm` keys its slots by one value, the pair of date and
party size, as the code compares the two together.

Left out: `touched` and the field errors (a submission validates anew), the
telephone number, notices, wording and focus, and the sequence number of the
context loader, whose button is shown only when no load is under way. Answers
that a form handles alike are one answer.

`edits`, `unresolved` and `chosen` are history variables: a property reads
them, and `edits` bounds the clicks; nothing else depends on them.

While a request is unresolved the form is locked, but look-ups continue: an
untouched box may change while the body to be resent does not. That is the
behaviour of the code; `OneUnresolvedBody` and `OneUnresolvedBooking` are
about the bodies, not the box.

## 3. Runs

| Run | Bounds | Shows |
|---|---|---|
| `seating` | 2 sessions, 2 customers, 3 tables (3, 2, 2 seats), 4 rival bookings; changes of duration, capacity, hours and zone | `NoDoubleBooking`, `NoCustomerOverlap`, `RefusalsStayTrue`, `RepetitionIsRecognised`, `FallbacksUnreached` |
| `profile` | 2 sessions, 2 addresses with one lock key, 2 names, telephones, an initial, clock 0..2; changes of duration and zone (a repeated hour), an illegal capacity | `TypeOK`, `ReportedPreferenceIsCurrent`, `NoLockCycle`, `FallbacksUnreached`, `ImplementsReservationBook` |
| `progress` | 3 sessions, one lock key, a request of every lock family | `EveryTransactionEnds` |
| `retry` | 1 session, 1 booking, clock 0..2 | violation of `LostAnswerRecovered` |
| `allocation` | every call with up to 5 tables of 1 to 3 seats, parties 0..12 | `AllocationIsBest`, `RankIsPosition`, `SameAsOriginal`, `RefusalsAreRight` |
| `availability` | 3 tables, 4 bookings, 7 policies (one with closing time 24:00), 3 zones, clock 0..7 | `OnlyMidnightDiffers` |
| `midnight` | the same, the only policy being closing time 24:00 | violation of `DisplayedIsAccepted` |
| `service` | 2 calls, 1 connection, 3 attempts, deadline of 3 ticks, 2 rare failures, every sample request | `ChangedAtMostOnce`, `AnswersAreHonest`, `BodyKeptUntilSettled`, `OnlyCaselessIsRefused`, `ConnectionsAccounted`, `RetriesHaveTime`, `EveryCallAnswered` |
| `reads` | 2 reads (context and readiness, or status and availability), 1 connection, 3 attempts, deadline of 3 ticks, 1 write, 1 quirk | `ReadsOneInstant`, `AnsweredInTime`, `OutagesInviteRetry`, `EveryReadAnswered` |
| `lookup` | 2 identities (one that does not match), 2 look-ups, 1 click, 2 saves | `LookupIsCurrent`, `OneUnresolvedBody`, `DirtyChoiceKept` |
| `form` | 1 customer, 2 pairs of date and party size (symmetric), 1 start, 3 look-ups, 4 availability requests, 1 click, 2 bookings | `SlotsAreCurrent`, `OneUnresolvedBooking`, `UnresolvedIsShown`, `NewsletterIsChosen`, `EditWins` |
| `stale` | 1 identity, 1 look-up, 2 clicks, 2 saves | violation of `EditWins` |

**Why the bounds suffice.** Two sessions are enough for any race between two
transactions; a lock cycle of three needs three, which `progress` has. Three
tables allow a choice between one and two tables and a tie. Five tables give
the allocator unequal halves and both fast paths. One pooled connection is the
smallest pool on which calls wait for each other. A day of eight ticks is long
enough for several starts, a start too early and an end too late. The clock
changes of the instances lie before opening time, as in the restaurant's zone
(`SteadyFrom`, which `MCAvailability` assumes of them and the theorems of their
constants); during service the wall-clock end of the query and the instant the
booking computes would differ by an hour. Requests may be
repeated without bound in the booking runs: nothing but the set of possible
reservations limits them. Two party sizes and four availability requests let an old answer
meet a newer check for other choices and one for the same; two bookings are a
lost answer and its repetition, or a booking and the next one after the form
was emptied. The sample requests are one well-formed request per operation
and all that differ from it in one field, at the boundaries of the rules, or
in one respect of HTTP; checks of two fields meet only in the confirmation of
the address and the offset of the start. Of the requests that only the database
refuses, the run has a booking with a middle initial without case; a preference
with one goes the same way and would double the states, and `OnlyCaseless` is
about both. One write can fall before, between and
after the two statements of a snapshot. `MaxClock`, `Quirks`, `Writes`, `MaxEffects`, `MaxEdits`, `MaxSaves`,
`MaxRequests` and `MaxSends` are bounds in guards; each is named in its
module.

**Deadlock** is checked in the booking, availability, service and read runs. A call
of the allocator returns, and the bounds of the two forms end a run, so these
switch it off.

**Fairness.** `FairSpec` of `BookingProperties` assumes that PostgreSQL grants
a lock in the order of its queue (strong fairness of acquiring: a waiter that
finds the lock free again and again gets it), that a backend runs its
statements, and that a client rolls a failed function back. It assumes no
timeout. `FairSpec` of `MutationService` and of `ReadService` assumes that threads run and
time passes; neither that a connection gets free, nor that the pool replaces a
dead one, nor that the process is not shut down. The other runs check safety only.

### What the violations say

* `retry`: `book_reservation` validates times before it looks for an exact
  retry. A booking repeated after its answer was lost is refused once the lead
  time has passed, where the DB-04 design promises the recovery. What does hold
  is `RepetitionIsRecognised`: a booking in the book is not made again and does
  not stand in its own way, even if both calls run at once; a repetition that is
  not confirmed is refused for its time, the policy or the customer's data.
* `midnight`: with closing time 24:00, the last start the query displays ends
  on the next date and the booking refuses it. `OnlyMidnightDiffers` says that
  the two functions differ in no other start.
* `stale`: a save resets the edit version, so a look-up from before the click
  counts as untouched and overwrites the saved choice. The reservation page
  empties its fields when it resets the version, and `form` shows the same
  property there.

## 4. Proofs

Eight modules hold theorems. They cover every invariant and every action
property of the runs, and the refinement; of the liveness properties, the parts
that need no fairness.

| Module | For every | Theorems |
|---|---|---|
| `BookingProofs` | set of sessions and customers, finite set of tables, requests, calendar | `TypeCorrect`, `NoTableBookedTwice`, `NoCustomerBookedTwice`, `NeverDeadlocked`, `SomebodyGoesOn`, `TransactionsAreShort`, `RefusalsAreFacts`, `ReportIsCurrent`, `FallbacksNotNeeded`, `RepetitionsRecognised`, `AtomicFromOutside` |
| `AllocationProofs` | finite set of tables, capacities, party, rank | `AllocatorIsBest`, `AllocatorRankIsPosition`, `AllocatorRanks`, `AllocatorRefusals`, `AllocatorSameAsOriginal`, `AllocatorAnswersAsOriginal`, `CallsEnd` |
| `AvailabilityProofs` | finite set of tables, bookings, policies, calendar without clock changes during service | `OnlyMidnightIsRefused`, `DisplayedStartsAreAccepted` |
| `RuleProofs` | form content and payload; environment the service starts in; hash | `FormAgreesWithService`, `PhoneAgreesWithService`, `PreferencesAreTaken`, `BookingsAreTaken`; `SettingsFitTheServices`, `SleepsAreBounded`, `DefaultsAreAccepted`; `LockKeyIsInteger`, `LockKeyIsInjective` |
| `ServiceProofs` | finite set of calls, pool, deadline, requests | `NoChangeTwice`, `RetriesInTime`, `HonestAnswers`, `BodiesKept`, `OnlyCaseless`, `ConnectionsKept`, `CallsAreShort` |
| `ReadProofs` | set of readers, pool, deadlines, number of writes | `OneInstant`, `EndsInTime`, `OutagesTold` |
| `NewsletterProofs` | set of identities, number of clicks, look-ups and saves | `CurrentLookup`, `OnlyRepeated`, `ChoiceKept` |
| `ReservationProofs` | set of choices, starts and customers, number of checks and bookings | `CurrentSlots`, `OnlyRepeated`, `NeverStuck`, `ChoiceSent`, `ClickWins` |

Each is a theorem of the module's `Spec`, or of its operators, and rests on the
named assumptions of the modules it extends; these give the constants the types
of the schema and of the settings, and let special values (`NULL`, `None`,
`NoBody`) differ from ordinary ones. Only `RulesAssumption`
says more: that the seed obeys the CHECKs. The theorems of `AvailabilityProofs` have hypotheses of
their own, named in their statements.

### Transactions

`TypeOK` is not inductive alone: a commit writes what the session has
collected. `SessionOK` adds what each program point knows: `PhaseOK` (the
request is of the kind the step is for, and the row and the plan are there),
`WritesOK` (what is marked as written can be committed) and `LockOK` (a booking
holds the restaurant lock from its first read to its end). `NoDoubleBooking` is
not inductive either: the step that commits must know that the tables read as
free many statements ago are still free. `PlanOK` states it: from `Allocate` to
the end of the transaction, no committed reservation that overlaps the plan has
one of its tables; and from the overlap check on, none is the customer's. A
commit by another session cannot break this, because only the holder of the
restaurant lock has a reservation to commit (`PlanNeedsLock`,
`CommitKeepsBook`).

*No circle of waiters.* `OrderOK` says that the holder of a lock is past the
statement that takes it. Then whoever waits for a session waits at an earlier
place in the order than that session, and in a circle nobody can be last, nor
therefore anywhere. The argument needs no finite number of sessions.

*Every transaction ends, as far as it can be proved.* The same order gives more:
if any transaction is open, one is not held up by a lock (`SomebodyGoesOn`; the
waiters' places have a last one). And no session goes back: `TransactionsAreShort`
numbers the statements, and every move of a session is to a later one or ends
the transaction, after at most 17. What `EveryTransactionEnds` adds is the
fairness of the lock queue, and stays with TLC.

*Answers, fallbacks, refinement.* They share one invariant, `DInv`, whose part
`Decision(s)` says what a session has decided and under which lock the decision
cannot change: the customer row in hand is the committed one with the request's
own changes (`CustomerOK`, under the e-mail lock), the plan is the place asked
for, legal under the policy in force, on a best choice of the free tables
(`PlaceOK`, under the restaurant lock), and a refusal names a fact
(`AnswerOK`). `RowsOK` adds that every reservation takes time and has a
customer; without it, an exact retry might commit a customer of its own. The
proof has two halves. `OthersKeepDecision` shows once that no step of another
session touches what a held lock protects (`LocksProtect`); and one lemma per
action shows what the session's own step decides. The refinement then maps each
`Commit` to one step of `ReservationBook` (`BookingCommit`, `PreferenceCommit`,
`PolicyCommit`) or to a stutter, and every other step to a stutter. That the
names, the calendar and the allocation rules mean the same in both modules is
`SameRules`.

*Repetitions.* `NewOK` adds to `DInv` that a plan that is past the search for an
exact retry is not in the book already. A rival that put it there would have
needed the restaurant lock; so whoever finds the same booking finds it at the
search, and ends with the exact retry before the overlap check could see it.

### Allocator

The two numbers of an answer, the fewest tables and then the fewest seats, are
a certificate: `BestNumbers` says of them that no combination has fewer, and
`BestByNumbers` that the best combinations are exactly those that have both.
Splitting the free tables loses none (`SplitInHalves`, `GroupIsRights`), the
groups of the left halves add up to the number of ties (`TiesAreBest`), and
while the walk goes on, the combinations in the groups passed and the remaining
rank together make the rank drawn (`WalkIsInOrder`). So the walk ends in the
group of the answer, and its place among all best combinations, in the order
of the arrays, is the rank (`PlaceOfBest`). The fast paths have the same place
(`PlaceOfSingle`), and so has the answer of migration 006 (`OriginalAnswer`); as
no two best combinations have one place (`AllocatorRanks`), all paths agree.

The sums are folds over sets. Induction over finite sets is out of reach as a
rule with a parameter, but not as a fact about sets: among the subsets of a
finite set for which a statement fails, one is smallest (`SmallestSubset`, from
the well-foundedness of strict inclusion), and removing a table from it gives
the contradiction. That the fold exists, that it may take its elements in any order
and adds over disjoint sets (`SeatsInFirst`, `SeatsInUnion`), and that a finite
order has an element of every rank (`RankExists`), are proved in this way.

### Availability

The query and the booking compute the end of a reservation and the room for a
party by different formulas. `EnoughSeats` joins the second pair: the seats of the
free tables suffice exactly when some combination of them does. For the first,
the wall clock and the instant must run alike from opening time on. The
hypotheses say so: `SteadyFrom(e)`, that no clock change after hour `e` of a day
separates a local time from the instants around it, and `HoursFrom(e)`, that the
restaurant opens no earlier. `OnlyMidnightIsRefused` needs no more.
`DisplayedStartsAreAccepted` also asks that it closes before midnight
(`DayHours(e)`), and `midnight` shows that it must. The instances of the runs satisfy
them (`MCSteady`).

### Requests, settings, keys

The two theorems about keys follow from bounds on four digits in base 256.

`FormAgreesWithService` and `BookingsAreTaken` compare four statements of the
same rules. They agree, with two exceptions that the theorems name: a sharp s
as the middle initial grows to two letters when the form raises it, and the
service refuses it; a letter without case, as in Hebrew, passes the service
and is refused by the guards of the database functions, as by the CHECK of the
table: such a customer can neither book nor subscribe unless the initial is
left out. Numbers stay in the ranges of the casts.

`SettingsFitTheServices` is what `ServiceAssumption`, `ReadAssumption` and
`RetryAssumption` ask of the constants. It says nothing of a read deadline and
the minimum time for a retry: the deadline may be 250 ms and the minimum
2000 ms, which silently turns the retries of reads off.

### Services

`ServiceInv` ties the counter of committed effects to the place of the call in
its attempt (`CallOK`): before COMMIT is sent there is none; an attempt that
ended with an uncertain result is never followed by another. `AnswerCases` then
goes through classification, outcome, exception and envelope once, and both
`HonestAnswers` and `BodiesKept` follow from it. `OnlyCaseless` needs no
history, only `BookingsAreTaken` and `PreferencesAreTaken`. `PoolInv` counts the calls that hold a
connection. `CallsAreShort` measures how far a call has come, in attempts and
stages: every step but a tick brings one call further, none back, and the
number of attempts is bounded. What `EveryCallAnswered` adds is that time passes
and threads run.

`ReadInv` has one part per question: `SnapshotOK` (all rows of an attempt have
one version, not older than the request), `ClockOK` (no wait is longer than what
is left, a second statement at most by what was left before the first),
`ResultOK` (an answer is made of the result of the last attempt). The bound on
a read is in terms of `Quirks`, the time its thread is held up.

### Forms

`FormInv`: a look-up that is waiting or asked for, and has the latest sequence
number, is about the identity in the fields (`LookupOK`); the body under way or
kept for recovery is the only unresolved one (`SaveOK`). `PageInv`: the check
that counts finds the page loading and not locked (`ChecksOK`), so nothing
replaces the slots of a booking under way; a look-up of the latest effect counts
the same clicks as the page (`QueriesOK`), which is why `EditWins` holds here
and not on the newsletter form; the box shows the last click (`ChosenOK`); the
only unresolved body is the one under way or kept (`BookingOK`).

### Only model-checked

Liveness only: fairness and `ENABLED` are out of the prover's reach
(`EveryTransactionEnds`, `EveryCallAnswered`, `EveryReadAnswered`). For the
first two, the theorems above prove what does not depend on fairness.

### Not modelled

The components marked `not_modelled` in `PROJECT.json`: logging and redaction,
the hours display, static pages, the wiring of `create_app`, privileges and
operator scripts. Of the components marked `partly`: the readiness category
that `routes/health.py` keeps for its log, log timings, the text of the
fingerprint and canonical forms. The client's `fetch` and its check of a
response are the answer `unknown` of the two forms. A text is a record of the
attributes the rules ask for, so the notions of white space of JavaScript,
Python and PostgreSQL are taken to agree. SHA-256 is data: outside `LockKeys`
nothing depends on the value of a key, only on equal addresses having equal
keys. Security properties are not a subject of this project.

## 5. Plan

Done: the database layer, its abstract specification and the proof of the
refinement; the allocator, the query, the lock keys; requests, settings,
mutations and reads of the service; both forms; proofs of the safety of them all.

What would add most to this, in this order:

1. A composition of a client, the service and the book around lost answers:
   what the customer believes against what is committed, over repeated calls.
   `retry` shows where it starts: a repetition that is refused after the lead
   time leaves the customer with a booking the page denies.
2. Clock changes during service, where the wall-clock end of the query and the
   instant the booking computes differ: what `SteadyFrom` leaves out.
3. The fingerprint of a reservation as text (006: 53-111).
4. `LostAnswerRecovered`, `DisplayedIsAccepted` and `EditWins` as passing runs
   and theorems, once the code or the documents change.
