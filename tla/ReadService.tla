---------------------------- MODULE ReadService ----------------------------
(***************************************************************************)
(* The reads of the service: reservation context, availability, newsletter *)
(* status and readiness (services/*.py around db/*_gateway.py), with the   *)
(* shared pool, the failures of the driver, and close_resources.           *)
(*                                                                         *)
(* What is read is one version number, raised by whoever changes the       *)
(* tables.  Time is counted in ticks; a thread that can go on does so at   *)
(* once, but for a bounded number of ticks in which the threads are held   *)
(* up.  BEGIN and the settings of the transaction take no time.            *)
(***************************************************************************)
EXTENDS FiniteSetsExt, HttpBoundary, RetryLoop

CONSTANTS
    Readers,           \* concurrent requests
    Mixes,             \* what the readers may ask for: functions to operations
    PoolSize,          \* pool_max_size
    Deadline,          \* read_deadline_ms
    ReadinessDeadline, \* readiness_deadline_ms
    AcquireTimeout,    \* pool_acquire_timeout_ms
    Requests,          \* for each operation, the requests that arrive
    Writes,            \* bound: changes of the tables
    Quirks             \* bound: ticks that hold up a thread, and dead
                       \* connections that are found on acquiring

ASSUME ReadAssumption ==
    /\ PoolSize \in Nat \ {0} /\ Deadline \in Nat \ {0}
    /\ ReadinessDeadline \in Nat \ {0} /\ AcquireTimeout \in Nat \ {0}
    /\ {Writes, Quirks} \subseteq Nat
    /\ Mixes \subseteq [Readers -> {"context", "availability", "status", "readiness"}]

VARIABLES
    stage, op, attempt,
    left,        \* of the deadline; negative when it has passed
    timer,       \* of getconn's timeout, the sleep or the statement
    limit,       \* statement_timeout, which every statement has for itself
    seen,        \* the versions the statements of the attempt read
    since,       \* the version at the arrival
    result,      \* of the attempt
    answer,      \* what the HTTP layer gets
    version,
    idle,        \* connections ready in the pool
    rebuilding,  \* slots whose connection the pool is replacing
    closed,      \* close_resources was called
    quirks

calls  == <<stage, op, attempt, left, timer, limit, seen, since, result, answer>>
pool   == <<idle, rebuilding, closed>>
vars   == <<calls, version, pool, quirks>>

Snapshots == {"context", "availability"}   \* REPEATABLE READ, two statements

-----------------------------------------------------------------------------
(* Failures *)

Errors == [class : {"operational"}, sqlstate : SqlStates]
    \cup [class : {"programming"}, sqlstate : {"approved", "other"}]

PoolTimeout == [class |-> "operational", sqlstate |-> "none"]
TimedOut    == [class |-> "timeout", sqlstate |-> "none"]
Cancelled   == [class |-> "operational", sqlstate |-> "57014"]

\* DatabaseUnavailable and the AttemptFailure made of it, which may be worth
\* another attempt or not.
Unavailable(error, safe) ==
    IF Eligible([safe |-> safe, unknown |-> FALSE, sent |-> FALSE, sqlstate |-> error.sqlstate])
    THEN "transient" ELSE "failed"

\* translate_read_exception; readiness has categories of its own.
Translate(error, acquired) ==
    CASE error.sqlstate \in {"approved", "08"} -> Unavailable(error, TRUE)
      [] error.sqlstate = "57014" \/ error.class = "timeout" -> Unavailable(error, FALSE)
      [] OTHER -> IF ~acquired \/ error.class = "operational"
                  THEN Unavailable(error, TRUE)
                  ELSE "contract"

-----------------------------------------------------------------------------
Init ==
    /\ stage = [c \in Readers |-> "new"]
    /\ op \in Mixes
    /\ attempt = [c \in Readers |-> 0]
    /\ left = [c \in Readers |-> 0]
    /\ timer = [c \in Readers |-> 0]
    /\ limit = [c \in Readers |-> 0]
    /\ seen = [c \in Readers |-> <<>>]
    /\ since = [c \in Readers |-> 0]
    /\ result = [c \in Readers |-> "none"]
    /\ answer = [c \in Readers |-> "none"]
    /\ version = 0
    /\ idle = PoolSize
    /\ rebuilding = 0
    /\ closed = FALSE
    /\ quirks = 0

Goto(c, next)  == stage' = [stage EXCEPT ![c] = next]
Keep(c, what)  == result' = [result EXCEPT ![c] = what]
Start(c, time) == timer' = [timer EXCEPT ![c] = time]

\* The request ends, and its clocks with it.
Reply(c, what) ==
    /\ Goto(c, "answered")
    /\ answer' = [answer EXCEPT ![c] = what]
    /\ left' = [left EXCEPT ![c] = 0]
    /\ Start(c, 0)

Quirk == quirks < Quirks /\ quirks' = quirks + 1

\* The handler, up to the call of its service.
Arrive(c) ==
    /\ stage[c] = "new"
    /\ \E request \in Requests[op[c]] :
          IF Refusal(request) # "none"
          THEN Reply(c, Refusal(request))
          ELSE /\ left' = [left EXCEPT ![c] =
                              IF op[c] = "readiness" THEN ReadinessDeadline ELSE Deadline]
               /\ Goto(c, "attempt")
               /\ UNCHANGED <<timer, answer>>
    /\ since' = [since EXCEPT ![c] = version]
    /\ UNCHANGED <<op, attempt, limit, seen, result, version, pool, quirks>>

\* The answer to an attempt that is not retried.
AnswerFor(c, r) ==
    CASE r = "read" -> "read"
      [] r # "read" /\ op[c] = "readiness" -> "not_ready"
      [] r # "read" /\ op[c] \in Snapshots -> "service_unavailable"
      [] OTHER -> IF r = "contract" THEN "internal_error" ELSE "indeterminate"

\* The head of the loop, and the gateway up to getconn.
StartAttempt(c) ==
    /\ stage[c] = "attempt"
    /\ IF Hopeless(attempt[c], left[c])
       THEN Reply(c, AnswerFor(c, result[c])) /\ UNCHANGED <<attempt, result>>
       ELSE /\ attempt' = [attempt EXCEPT ![c] = @ + 1]
            /\ IF left[c] <= 0
               THEN /\ Keep(c, Translate(TimedOut, FALSE))
                    /\ Goto(c, "decide")
                    /\ UNCHANGED timer
               ELSE /\ Start(c, IF op[c] = "readiness" THEN left[c]
                                ELSE Min({AcquireTimeout, left[c]}))
                    /\ Goto(c, "acquire")
                    /\ UNCHANGED result
            /\ UNCHANGED <<left, answer>>
    /\ UNCHANGED <<op, limit, seen, since, version, pool, quirks>>

Acquire(c) ==
    /\ stage[c] = "acquire"
    /\ idle > 0 /\ ~closed
    /\ idle' = idle - 1
    /\ Goto(c, "begin")
    /\ Start(c, 0)
    /\ UNCHANGED <<op, attempt, left, limit, seen, since, result, answer, version,
                   rebuilding, closed, quirks>>

\* check_session finds the connection dead, and getconn goes on waiting.
CheckFails(c) ==
    /\ stage[c] = "acquire"
    /\ idle > 0 /\ ~closed
    /\ Quirk
    /\ idle' = idle - 1
    /\ rebuilding' = rebuilding + 1
    /\ UNCHANGED <<calls, version, closed>>

\* Mutant of AcquireFails: getconn is called without a timeout.
AcquireFails_OnlyClosed(c) ==
    /\ stage[c] = "acquire"
    /\ closed
    /\ Keep(c, Translate(PoolTimeout, FALSE))
    /\ Goto(c, "decide")
    /\ Start(c, 0)
    /\ UNCHANGED <<op, attempt, left, limit, seen, since, answer, version, pool, quirks>>

\* getconn's time is up, or the pool is closed, which is told the same way.
AcquireFails(c) ==
    /\ stage[c] = "acquire"
    /\ timer[c] = 0 \/ closed
    /\ Keep(c, Translate(PoolTimeout, FALSE))
    /\ Goto(c, "decide")
    /\ Start(c, 0)
    /\ UNCHANGED <<op, attempt, left, limit, seen, since, answer, version, pool, quirks>>

\* The end of `with pool.connection()`: a connection whose session is lost is
\* replaced, and a closed pool closes what it gets.
Release(lost) ==
    /\ idle' = IF lost \/ closed THEN idle ELSE idle + 1
    /\ rebuilding' = IF lost /\ ~closed THEN rebuilding + 1 ELSE rebuilding
    /\ UNCHANGED closed

\* Only an attempt that worked has rows to keep.
Finish(c, outcome, lost) ==
    /\ Keep(c, outcome)
    /\ Goto(c, "decide")
    /\ Start(c, 0)
    /\ limit' = [limit EXCEPT ![c] = 0]
    /\ seen' = [seen EXCEPT ![c] = IF outcome = "read" THEN @ ELSE <<>>]
    /\ Release(lost)

\* Mutant of Snapshot: the transaction is left at READ COMMITTED.
Snapshot_OfStatement(c) == version

\* What the next statement sees.  Under REPEATABLE READ that is what
\* set_config, the first to take a snapshot, sees at the same instant.
Snapshot(c) == IF Len(seen[c]) > 0 THEN seen[c][1] ELSE version

\* Mutant of StatementTime: the timeout is the whole deadline.
StatementTime_Whole(c) == IF op[c] = "readiness" THEN ReadinessDeadline ELSE Deadline

StatementTime(c) == left[c]

\* The transaction, its snapshot and statement_timeout, and the statement.
Begin(c) ==
    /\ stage[c] = "begin"
    /\ \/ /\ left[c] < 1
          /\ Finish(c, Translate(TimedOut, TRUE), FALSE)
       \/ /\ left[c] >= 1
          /\ seen' = [seen EXCEPT ![c] = <<version>>]
          /\ Start(c, StatementTime(c))
          /\ limit' = [limit EXCEPT ![c] = StatementTime(c)]
          /\ Goto(c, "first")
          /\ UNCHANGED <<result, idle, rebuilding, closed>>
    /\ UNCHANGED <<op, attempt, left, since, answer, version, quirks>>

\* The rows are fetched, and the second statement is sent, with the same time.
FirstRead(c) ==
    /\ stage[c] = "first" /\ op[c] \in Snapshots
    /\ seen' = [seen EXCEPT ![c] = Append(@, Snapshot(c))]
    /\ Start(c, limit[c])
    /\ Goto(c, "second")
    /\ UNCHANGED <<op, attempt, left, limit, since, result, answer, version, pool, quirks>>

\* The rows are what the gateway expects, or are not.
LastRead(c) ==
    /\ stage[c] = IF op[c] \in Snapshots THEN "second" ELSE "first"
    /\ \E outcome \in {"read", "contract"} : Finish(c, outcome, FALSE)
    /\ UNCHANGED <<op, attempt, left, since, answer, version, quirks>>

\* The session may be lost with the statement, unless the server only gave up
\* a lock or a serialization.
StatementFails(c) ==
    /\ stage[c] \in {"first", "second"}
    /\ \E error \in Errors, lost \in BOOLEAN :
          /\ lost => error.class = "operational" /\ error.sqlstate # "approved"
          /\ Finish(c, Translate(error, TRUE), lost)
    /\ UNCHANGED <<op, attempt, left, since, answer, version, quirks>>

\* statement_timeout: the connection stays good.
StatementTimesOut(c) ==
    /\ stage[c] \in {"first", "second"}
    /\ timer[c] = 0
    /\ Finish(c, Translate(Cancelled, TRUE), FALSE)
    /\ UNCHANGED <<op, attempt, left, since, answer, version, quirks>>

\* Readiness is not retried, nor is what is not an AttemptFailure.
Retries(c) ==
    /\ op[c] # "readiness" /\ result[c] = "transient"
    /\ attempt[c] < MaxAttempts

Decide(c) ==
    /\ stage[c] = "decide"
    /\ \/ /\ ~Retries(c)
          /\ Reply(c, AnswerFor(c, result[c]))
       \/ /\ Retries(c)
          /\ \E delay \in Delays :
                IF Hopeless(attempt[c], left[c] - delay)
                THEN Reply(c, AnswerFor(c, result[c]))
                ELSE Start(c, delay) /\ Goto(c, "sleep") /\ UNCHANGED <<left, answer>>
    /\ UNCHANGED <<op, attempt, limit, seen, since, result, version, pool, quirks>>

Wake(c) ==
    /\ stage[c] = "sleep"
    /\ timer[c] = 0
    /\ IF Hopeless(attempt[c], left[c])
       THEN Reply(c, AnswerFor(c, result[c]))
       ELSE Goto(c, "attempt") /\ UNCHANGED <<left, timer, answer>>
    /\ UNCHANGED <<op, attempt, limit, seen, since, result, version, pool, quirks>>

-----------------------------------------------------------------------------
(* What an answer may be on the wire *)

Responses(c) ==
    CASE answer[c] = "read" ->
           CASE op[c] \in Snapshots -> {ScheduleResponse("slots"), ScheduleResponse("invalid_request")}
             [] op[c] = "status" -> {CustomerResponse(o) : o \in Conflicts \cup {"matched", "not_found"}}
             [] OTHER -> {Success(200)}
      [] answer[c] \in {"service_unavailable", "indeterminate", "internal_error", "not_ready"} ->
           {FailureResponse(op[c], answer[c])}
      [] OTHER -> {Envelope(answer[c])}

-----------------------------------------------------------------------------
(* What happens beside the requests *)

Write ==
    /\ version < Writes
    /\ version' = version + 1
    /\ UNCHANGED <<calls, pool, quirks>>

Rebuild ==
    /\ rebuilding > 0
    /\ rebuilding' = rebuilding - 1
    /\ idle' = idle + 1
    /\ UNCHANGED <<calls, version, closed, quirks>>

\* close_resources, from the shutdown hook of the process.
Close ==
    /\ ~closed
    /\ closed' = TRUE
    /\ idle' = 0
    /\ rebuilding' = 0
    /\ UNCHANGED <<calls, version, quirks>>

Active(c) == stage[c] \notin {"new", "answered"}

\* Nothing to do for the thread before some time has passed.
Waiting(c) ==
    /\ timer[c] > 0
    /\ \/ stage[c] \in {"sleep", "first", "second"}
       \/ stage[c] = "acquire" /\ idle = 0 /\ ~closed

Tick ==
    /\ \E c \in Readers : Active(c)
    /\ \/ (\A c \in Readers : Active(c) => Waiting(c)) /\ UNCHANGED quirks
       \/ Quirk
    /\ left' = [c \in Readers |-> IF Active(c) THEN left[c] - 1 ELSE left[c]]
    /\ timer' = [c \in Readers |-> IF Active(c) THEN Less(timer[c]) ELSE timer[c]]
    /\ UNCHANGED <<stage, op, attempt, limit, seen, since, result, answer, version, pool>>

Step(c) ==
    \/ StartAttempt(c) \/ Acquire(c) \/ AcquireFails(c) \/ Begin(c) \/ FirstRead(c)
    \/ LastRead(c) \/ StatementFails(c) \/ StatementTimesOut(c) \/ Decide(c) \/ Wake(c)

Finished == (\A c \in Readers : stage[c] = "answered") /\ UNCHANGED vars

Next ==
    \/ \E c \in Readers : Arrive(c) \/ Step(c) \/ CheckFails(c)
    \/ Write \/ Rebuild \/ Close \/ Tick \/ Finished

Spec == Init /\ [][Next]_vars

\* A thread runs on, and time passes.
FairSpec == Spec /\ WF_vars(Tick) /\ \A c \in Readers : WF_vars(Step(c))
=============================================================================
