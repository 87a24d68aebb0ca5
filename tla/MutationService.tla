--------------------------- MODULE MutationService ---------------------------
(***************************************************************************)
(* The Flask side of a booking or a newsletter change: the checks of its   *)
(* route, then execute_with_retry (services/retry.py) around one attempt   *)
(* of the gateway                                                          *)
(* (db/reservation_gateway.py, db/newsletter_gateway.py), the classifying  *)
(* of what went wrong, and the pool the attempts share.                    *)
(*                                                                         *)
(* A call is one request thread.  The database appears as the outcomes its *)
(* statements and its COMMIT may have.  Time is counted in ticks, and only *)
(* as what is left of each deadline and each timer.                        *)
(***************************************************************************)
EXTENDS FiniteSets, FiniteSetsExt, HttpBoundary, RetryLoop

CONSTANTS
    Calls,          \* concurrent requests
    Bookings,       \* those that book; the others set the newsletter preference
    PoolSize,       \* pool_max_size
    Deadline,       \* mutation_deadline_ms
    AcquireTimeout, \* pool_acquire_timeout_ms
    Requests,       \* for each operation, the requests that arrive
    Quirks          \* bound: COMMIT, clean-up and confirmation failures a run has

ASSUME ServiceAssumption ==
    /\ Bookings \subseteq Calls
    /\ PoolSize \in Nat \ {0} /\ Deadline \in Nat \ {0}
    /\ AcquireTimeout \in Nat \ {0}
    /\ Quirks \in Nat
    /\ IsFiniteSet(Calls)

\* The payload has what its operation looks at.
ASSUME RequestsAssumption ==
    \A op \in {"book", "set_preference"} : \A r \in Requests[op] :
        /\ r.target \in {op, "unknown"}
        /\ r.payload \in IF op = "book" THEN BookingPayloads ELSE PreferencePayloads

VARIABLES
    stage,
    malformed,    \* what the database objects to in the arguments of the call
    attempt,
    left,         \* what is left of the deadline
    timer,        \* what is left of getconn's timeout or of the sleep
    dispatched,   \* `dispatched` of the current attempt
    result,       \* the decoded row, or the error that replaces it
    answer,       \* what the HTTP layer gets
    committed,    \* transactions of the call the server committed with an effect
    idle,         \* connections ready in the pool
    lost,         \* pool slots whose connection was never given back
    quirks

calls == <<stage, malformed, attempt, left, timer, dispatched, result, answer, committed>>
pool  == <<idle, lost>>
vars  == <<calls, pool, quirks>>

-----------------------------------------------------------------------------
(* What the database may do, and how the gateway names it *)

\* Driver errors by class and SQLSTATE.
Errors == [class : {"timeout"}, sqlstate : {"none"}]
    \cup [class : {"operational"}, sqlstate : SqlStates]
    \cup [class : {"programming", "other"}, sqlstate : {"other"}]
    \cup [class : {"contract"}, sqlstate : {"none"}]

Timeout      == [class |-> "timeout", sqlstate |-> "none"]
PoolTimeout  == [class |-> "operational", sqlstate |-> "none"]

Rows(c) == IF c \in Bookings
           THEN {"booked", "exact_retry", "refused", "invalid_configuration"}
           ELSE {"changed", "refused"}

Effective == {"booked", "changed"}
Confirmed == {"booked", "exact_retry"}

\* What an attempt came to: a decoded row, or the error raised instead.
Plain(outcome) == [outcome |-> outcome, safe |-> FALSE, sqlstate |-> "none",
                   sent |-> FALSE, unknown |-> FALSE]

\* DatabaseMutationFailure
Failed(safe, sqlstate, sent, unknown) ==
    [outcome |-> "failed", safe |-> safe, sqlstate |-> sqlstate,
     sent |-> sent, unknown |-> unknown]

\* Mutant of Classify: a failed COMMIT counts as rolled back.
Classify_RolledBackAnyway(c, error, sent, rolledBack) ==
    Failed(IF sent THEN error.sqlstate = "approved" ELSE error.class = "operational",
           error.sqlstate, sent, FALSE)

\* _failure and _mutation_failure
Classify(c, error, sent, rolledBack) ==
    LET unsent == {"operational"} \cup IF c \in Bookings THEN {"timeout"} ELSE {} IN
    IF rolledBack /\ error.class \in {"contract", "programming"}
    THEN Plain("contract")
    ELSE Failed(/\ rolledBack
                /\ IF sent THEN error.sqlstate = "approved" ELSE error.class \in unsent,
                error.sqlstate, sent, sent /\ ~rolledBack)

-----------------------------------------------------------------------------
Init ==
    /\ stage = [c \in Calls |-> "new"]
    /\ malformed = [c \in Calls |-> {}]
    /\ attempt = [c \in Calls |-> 0]
    /\ left = [c \in Calls |-> 0]
    /\ timer = [c \in Calls |-> 0]
    /\ dispatched = [c \in Calls |-> FALSE]
    /\ result = [c \in Calls |-> Plain("none")]
    /\ answer = [c \in Calls |-> "none"]
    /\ committed = [c \in Calls |-> 0]
    /\ idle = PoolSize
    /\ lost = 0
    /\ quirks = 0

Goto(c, next) == stage' = [stage EXCEPT ![c] = next]
Keep(c, what) == result' = [result EXCEPT ![c] = what]

\* The request ends with an answer or an exception for the error handlers,
\* and with it the deadline, which is a local of the call.
Reply(c, what) ==
    /\ Goto(c, "answered")
    /\ answer' = [answer EXCEPT ![c] = what]
    /\ left' = [left EXCEPT ![c] = 0]

Quirk == quirks < Quirks /\ quirks' = quirks + 1

-----------------------------------------------------------------------------
(* execute_with_retry *)

Operation(c) == IF c \in Bookings THEN "book" ELSE "set_preference"

Objections(c, payload) ==
    IF c \in Bookings THEN BookingObjections(Identity(payload), payload)
                      ELSE PreferenceObjections(Identity(payload))

\* The route: a request it refuses is answered without an attempt.
Arrive(c) ==
    /\ stage[c] = "new"
    /\ \E request \in Requests[Operation(c)] :
          IF Refusal(request) # "none"
          THEN Reply(c, Refusal(request)) /\ UNCHANGED malformed
          ELSE /\ malformed' = [malformed EXCEPT ![c] = Objections(c, request.payload)]
               /\ left' = [left EXCEPT ![c] = Deadline]
               /\ Goto(c, "attempt")
               /\ UNCHANGED answer
    /\ UNCHANGED <<attempt, timer, dispatched, result, committed, pool, quirks>>

TempOrUnknown(f) == IF f.unknown THEN "outcome_unknown" ELSE "temporary_failure"

\* Mutant of StartAttempt: the guard at the head of the loop is missing.
StartAttempt_Unguarded(c) ==
    /\ stage[c] = "attempt"
    /\ attempt' = [attempt EXCEPT ![c] = @ + 1]
    /\ dispatched' = [dispatched EXCEPT ![c] = FALSE]
    /\ IF left[c] = 0
       THEN /\ Keep(c, Classify(c, Timeout, FALSE, TRUE))
            /\ Goto(c, "decide")
            /\ UNCHANGED timer
       ELSE /\ Keep(c, Plain("none"))
            /\ timer' = [timer EXCEPT ![c] = Min({AcquireTimeout, left[c]})]
            /\ Goto(c, "acquire")
    /\ UNCHANGED <<malformed, left, answer, committed, pool, quirks>>

\* The head of the loop and the gateway up to getconn.  A retry that finds
\* too little time left raises the failure of the attempt before it.
StartAttempt(c) ==
    /\ stage[c] = "attempt"
    /\ IF Hopeless(attempt[c], left[c])
       THEN /\ Reply(c, TempOrUnknown(result[c]))
            /\ UNCHANGED <<attempt, timer, dispatched, result>>
       ELSE /\ attempt' = [attempt EXCEPT ![c] = @ + 1]
            /\ dispatched' = [dispatched EXCEPT ![c] = FALSE]
            /\ IF left[c] = 0
               THEN /\ Keep(c, Classify(c, Timeout, FALSE, TRUE))
                    /\ Goto(c, "decide")
                    /\ UNCHANGED timer
               ELSE /\ Keep(c, Plain("none"))
                    /\ timer' = [timer EXCEPT ![c] = Min({AcquireTimeout, left[c]})]
                    /\ Goto(c, "acquire")
            /\ UNCHANGED <<answer, left>>
    /\ UNCHANGED <<malformed, committed, pool, quirks>>

\* The answer to an attempt that is not retried.
AnswerFor(r) ==
    CASE r.outcome = "failed"                -> TempOrUnknown(r)
      [] r.outcome = "contract"              -> "internal_error"
      [] r.outcome = "confirmation"          -> "confirmation_unavailable"
      [] r.outcome = "invalid_configuration" -> "service_unavailable"
      [] OTHER                               -> r.outcome

Failures == {"temporary_failure", "outcome_unknown", "confirmation_unavailable",
             "service_unavailable", "internal_error"}

\* What the service makes of an attempt.
Decide(c) ==
    /\ stage[c] = "decide"
    /\ IF result[c].outcome # "failed" \/ ~Eligible(result[c]) \/ attempt[c] >= MaxAttempts
       THEN Reply(c, AnswerFor(result[c])) /\ UNCHANGED timer
       ELSE \E delay \in Delays :
              IF Hopeless(attempt[c], left[c] - delay)
              THEN Reply(c, AnswerFor(result[c])) /\ UNCHANGED timer
              ELSE /\ timer' = [timer EXCEPT ![c] = delay]
                   /\ Goto(c, "sleep")
                   /\ UNCHANGED <<answer, left>>
    /\ UNCHANGED <<malformed, attempt, dispatched, result, committed, pool, quirks>>

Wake(c) ==
    /\ stage[c] = "sleep"
    /\ timer[c] = 0
    /\ IF Hopeless(attempt[c], left[c])
       THEN Reply(c, TempOrUnknown(result[c]))
       ELSE Goto(c, "attempt") /\ UNCHANGED <<answer, left>>
    /\ UNCHANGED <<malformed, attempt, timer, dispatched, result, committed, pool, quirks>>

-----------------------------------------------------------------------------
(* One attempt of the gateway *)

Acquire(c) ==
    /\ stage[c] = "acquire"
    /\ idle > 0
    /\ idle' = idle - 1
    /\ Goto(c, "begin")
    /\ timer' = [timer EXCEPT ![c] = 0]
    /\ UNCHANGED <<malformed, attempt, left, dispatched, result, answer, committed, lost, quirks>>

\* Mutant of AcquireTimesOut: getconn is called without a timeout.
AcquireTimesOut_Never(c) == FALSE /\ UNCHANGED vars

AcquireTimesOut(c) ==
    /\ stage[c] = "acquire"
    /\ timer[c] = 0
    /\ Keep(c, Classify(c, PoolTimeout, FALSE, TRUE))
    /\ Goto(c, "decide")
    /\ UNCHANGED <<malformed, attempt, left, timer, dispatched, answer, committed, pool, quirks>>

\* The attempt failed before COMMIT: `with connection` has rolled it back and
\* the connection goes back to the pool.
RolledBack(c, error) ==
    /\ Keep(c, Classify(c, error, dispatched[c], TRUE))
    /\ Goto(c, "putconn")

\* BEGIN and the statement timeout.
Begin(c) ==
    /\ stage[c] = "begin"
    /\ \/ /\ left[c] = 0
          /\ RolledBack(c, Timeout)
          /\ UNCHANGED dispatched
       \/ /\ left[c] > 0
          /\ \E state \in {"none", "08", "other"} :
                RolledBack(c, [class |-> "operational", sqlstate |-> state])
          /\ UNCHANGED dispatched
       \/ /\ left[c] > 0
          /\ dispatched' = [dispatched EXCEPT ![c] = TRUE]
          /\ Goto(c, "execute")
          /\ UNCHANGED result
    /\ UNCHANGED <<malformed, attempt, left, timer, answer, committed, pool, quirks>>

\* The function call.  Until COMMIT is sent, every failure, a lost connection
\* included, leaves the transaction to be rolled back by the server.
Execute(c) ==
    /\ stage[c] = "execute"
    /\ \/ \E row \in IF malformed[c] # {} THEN {"refused"} ELSE Rows(c) :
            IF c \notin Bookings /\ left[c] = 0
            THEN RolledBack(c, Timeout)
            ELSE Keep(c, Plain(row)) /\ Goto(c, "commit")
       \/ \E error \in Errors \ {Timeout} : RolledBack(c, error)
    /\ UNCHANGED <<malformed, attempt, left, timer, dispatched, answer, committed, pool, quirks>>

\* The rollback itself fails: nobody saw the end of the transaction.  Before
\* the call was sent that leaves no doubt; whatever the error was, the attempt
\* is not repeated, and the connection goes back to the pool as it is.
RollbackFails(c) ==
    /\ Quirk
    /\ \/ /\ stage[c] = "begin"
          /\ Keep(c, Classify(c, Timeout, FALSE, FALSE))
          /\ Goto(c, "putconn")
       \/ /\ stage[c] = "execute"
          /\ \E error \in Errors \ {Timeout} : Keep(c, Classify(c, error, TRUE, FALSE))
          /\ Goto(c, "close")
    /\ UNCHANGED <<malformed, attempt, left, timer, dispatched, answer, committed, pool>>

CountEffect(c) ==
    committed' = [committed EXCEPT ![c] = @ + (IF result[c].outcome \in Effective THEN 1 ELSE 0)]

Commit(c) ==
    /\ stage[c] = "commit"
    /\ CountEffect(c)
    /\ Goto(c, IF result[c].outcome \in Confirmed THEN "confirm" ELSE "putconn")
    /\ UNCHANGED <<malformed, attempt, left, timer, dispatched, result, answer, pool, quirks>>

\* COMMIT raises: the server may or may not have committed.
CommitFails(c) ==
    /\ stage[c] = "commit"
    /\ Quirk
    /\ CountEffect(c) \/ UNCHANGED committed
    /\ \E state \in SqlStates :
          Keep(c, Classify(c, [class |-> "operational", sqlstate |-> state], TRUE, FALSE))
    /\ Goto(c, "close")
    /\ UNCHANGED <<malformed, attempt, left, timer, dispatched, answer, pool>>

\* The separate read of the customer's name: a booking it cannot confirm
\* stays booked, and its connection is closed.
Confirm(c) ==
    /\ stage[c] = "confirm"
    /\ \/ /\ left[c] > 0
          /\ Goto(c, "putconn")
          /\ UNCHANGED <<result, quirks>>
       \/ /\ IF left[c] = 0 THEN UNCHANGED quirks ELSE Quirk
          /\ Keep(c, Plain("confirmation"))
          /\ Goto(c, "close")
    /\ UNCHANGED <<malformed, attempt, left, timer, dispatched, answer, committed, pool>>

\* _close_unsafe: when closing fails, putconn is left out.
CloseUnsafe(c) ==
    /\ stage[c] = "close"
    /\ \/ /\ Goto(c, "putconn")
          /\ UNCHANGED <<lost, quirks>>
       \/ /\ Quirk
          /\ lost' = lost + 1
          /\ Goto(c, "decide")
    /\ UNCHANGED <<malformed, attempt, left, timer, dispatched, result, answer, committed, idle>>

\* Mutant of PutConnection: a closed connection is not given back.
PutConnection_NotClosed(c) ==
    /\ stage[c] = "putconn"
    /\ idle' = IF result[c].outcome = "confirmation" THEN idle ELSE idle + 1
    /\ Goto(c, "decide")
    /\ UNCHANGED <<malformed, attempt, left, timer, dispatched, result, answer, committed, lost, quirks>>

\* The pool replaces a closed connection; if putconn raises, the connection
\* is closed and the pool never sees it again.
PutConnection(c) ==
    /\ stage[c] = "putconn"
    /\ \/ /\ idle' = idle + 1
          /\ UNCHANGED <<lost, quirks>>
       \/ /\ Quirk
          /\ lost' = lost + 1
          /\ UNCHANGED idle
    /\ Goto(c, "decide")
    /\ UNCHANGED <<malformed, attempt, left, timer, dispatched, result, answer, committed>>

-----------------------------------------------------------------------------
(* What an answer may be on the wire.  The detail of a refused row is the  *)
(* database's own; the row names it and this module does not.              *)

RefusedRows(c) ==
    Conflicts \cup {"invalid_request"}
    \cup IF c \in Bookings THEN {"same_customer_overlap", "unavailable"}
                           ELSE {"no_customer_no_change"}

OfRows(c, rows) ==
    IF c \in Bookings
    THEN {BookingResponse(row, detail) : row \in rows,
             detail \in {"none", "requires_read_committed", "time_boundary_crossed_during_booking"}}
    ELSE {CustomerResponse(row) : row \in rows}

Responses(c) ==
    CASE answer[c] = "refused"     -> OfRows(c, RefusedRows(c))
      [] answer[c] = "booked"      -> OfRows(c, {"booked", "booked_phone_notice"})
      [] answer[c] = "exact_retry" -> OfRows(c, {"exact_retry"})
      [] answer[c] = "changed"     -> OfRows(c, {"subscribed", "unsubscribed"})
      [] answer[c] \in Failures    -> {FailureResponse(Operation(c), answer[c])}
      [] OTHER                     -> {Envelope(answer[c])}

-----------------------------------------------------------------------------
\* Time passes for every request at once.
Tick ==
    /\ \E c \in Calls : stage[c] # "answered" /\ (left[c] > 0 \/ timer[c] > 0)
    /\ left' = [c \in Calls |-> Less(left[c])]
    /\ timer' = [c \in Calls |-> Less(timer[c])]
    /\ UNCHANGED <<malformed, stage, attempt, dispatched, result, answer, committed, pool, quirks>>

Step(c) ==
    \/ StartAttempt(c) \/ Decide(c) \/ Wake(c)
    \/ Acquire(c) \/ AcquireTimesOut(c) \/ Begin(c) \/ Execute(c) \/ RollbackFails(c)
    \/ Commit(c) \/ CommitFails(c) \/ Confirm(c) \/ CloseUnsafe(c) \/ PutConnection(c)

\* Every call has been answered: nothing is left to do.
Finished == (\A c \in Calls : stage[c] = "answered") /\ UNCHANGED vars

Next == (\E c \in Calls : Arrive(c) \/ Step(c)) \/ Tick \/ Finished

Spec == Init /\ [][Next]_vars

\* A thread runs on, time passes, and the pool serves a waiting thread that
\* finds a connection.
FairSpec == Spec /\ WF_vars(Tick) /\ \A c \in Calls : WF_vars(Step(c))
=============================================================================
