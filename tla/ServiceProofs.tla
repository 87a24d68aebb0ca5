---------------------------- MODULE ServiceProofs ----------------------------
(***************************************************************************)
(* Proofs about MutationService for every number of calls, attempts,       *)
(* connections and deadlines: no change is made twice, answers are honest, *)
(* bodies are kept while they matter and connections are accounted for.    *)
(***************************************************************************)
EXTENDS ServiceProperties, RuleProofs, FiniteSetTheorems

-----------------------------------------------------------------------------
(* The inductive invariant: what an attempt came to agrees with what was   *)
(* committed, at every point where the two can be compared                 *)

Stages == {"new", "attempt", "acquire", "begin", "execute", "commit", "confirm",
           "close", "putconn", "decide", "sleep", "answered"}

Results == [outcome : {"none", "failed", "contract", "confirmation", "booked", "changed",
                       "exact_retry", "refused", "invalid_configuration"},
            safe : BOOLEAN, sqlstate : SqlStates, sent : BOOLEAN, unknown : BOOLEAN]

ServiceTypeOK ==
    /\ stage \in [Calls -> Stages]
    /\ attempt \in [Calls -> Nat]
    /\ left \in [Calls -> Nat]
    /\ DOMAIN malformed = Calls
    /\ dispatched \in [Calls -> BOOLEAN]
    /\ result \in [Calls -> Results]
    /\ DOMAIN answer = Calls
    /\ committed \in [Calls -> 0..1]

\* The attempt is over: its row was committed, or its error says what is known.
Ended(c) ==
    \/ /\ result[c].outcome \in Rows(c)
       /\ committed[c] = IF result[c].outcome \in Effective THEN 1 ELSE 0
    \/ /\ result[c].outcome = "failed"
       /\ committed[c] = 1 => result[c].unknown
       /\ result[c].unknown => dispatched[c]
    \/ result[c].outcome = "confirmation" /\ c \in Bookings
    \/ result[c].outcome = "contract" /\ committed[c] = 0

CallOK(c) ==
    /\ stage[c] \in {"new", "attempt", "acquire", "begin", "execute", "commit", "sleep"}
          => committed[c] = 0
    /\ stage[c] \in {"execute", "commit"} => dispatched[c]
    /\ stage[c] = "commit" => result[c].outcome \in Rows(c)
    /\ stage[c] = "confirm" => c \in Bookings
    /\ stage[c] \in {"confirm", "close", "putconn", "decide"} => Ended(c)
    /\ stage[c] = "new" => attempt[c] = 0
    /\ stage[c] = "sleep" \/ (stage[c] = "attempt" /\ attempt[c] > 0)
          => result[c].outcome = "failed" /\ Eligible(result[c])
    /\ stage[c] = "answered" =>
          \/ answer[c] \in RefusalCodes /\ committed[c] = 0
          \/ Ended(c) /\ answer[c] = AnswerFor(result[c])

ServiceInv == ServiceTypeOK /\ \A c \in Calls : CallOK(c)

Untouched(c) ==
    \A d \in Calls \ {c} :
        /\ stage'[d] = stage[d] /\ attempt'[d] = attempt[d] /\ result'[d] = result[d]
        /\ dispatched'[d] = dispatched[d] /\ answer'[d] = answer[d]
        /\ committed'[d] = committed[d]

LEMMA ClassifyIs ==
    ASSUME NEW c, NEW error, error.sqlstate \in SqlStates,
           NEW sent \in BOOLEAN, NEW rolledBack \in BOOLEAN
    PROVE  LET r == Classify(c, error, sent, rolledBack)
           IN  /\ r \in Results
               /\ r.outcome = "failed" \/ (rolledBack /\ r.outcome = "contract")
               /\ r.unknown => sent /\ ~rolledBack
               /\ r.outcome = "failed" /\ ~rolledBack => r.unknown = sent
BY DEF Classify, Failed, Plain, Results, SqlStates

LEMMA InitOK == Init => ServiceInv
BY ServiceAssumption DEF Init, ServiceInv, ServiceTypeOK, CallOK, Stages, Results, Plain, SqlStates

LEMMA UntouchedOK ==
    ASSUME ServiceInv, NEW c \in Calls, Untouched(c), ServiceTypeOK'
    PROVE  \A d \in Calls \ {c} : CallOK(d)'
<1>1. ASSUME NEW d \in Calls \ {c}
      PROVE  Ended(d)' <=> Ended(d)
  BY DEF Untouched, Ended
<1>2. ASSUME NEW d \in Calls \ {c}
      PROVE  CallOK(d)' <=> CallOK(d)
  BY <1>1 DEF Untouched, CallOK
<1> QED  BY <1>2 DEF ServiceInv

LEMMA ArriveOK ==
    ASSUME ServiceInv, NEW c \in Calls, Arrive(c)
    PROVE  ServiceTypeOK' /\ Untouched(c) /\ CallOK(c)'
<1>1. PICK request \in Requests[Operation(c)] :
          IF Refusal(request) # "none"
          THEN Reply(c, Refusal(request)) /\ UNCHANGED malformed
          ELSE /\ malformed' = [malformed EXCEPT ![c] = Objections(c, request.payload)]
               /\ left' = [left EXCEPT ![c] = Deadline]
               /\ Goto(c, "attempt")
               /\ UNCHANGED answer
  BY DEF Arrive
<1>2. ServiceTypeOK' /\ Untouched(c)
  BY <1>1, ServiceAssumption
  DEF Arrive, Reply, Goto, ServiceInv, ServiceTypeOK, Stages, Untouched
<1>3. Refusal(request) \in RefusalCodes \cup {"none"}
  BY Refusals
<1>4. CallOK(c)'
  BY <1>1, <1>3 DEF Arrive, Reply, Goto, ServiceInv, ServiceTypeOK, Stages, CallOK
<1> QED  BY <1>2, <1>4

LEMMA StartAttemptOK ==
    ASSUME ServiceInv, NEW c \in Calls, StartAttempt(c)
    PROVE  ServiceTypeOK' /\ Untouched(c) /\ CallOK(c)'
<1> DEFINE first == Classify(c, Timeout, FALSE, TRUE)
<1>1. /\ first \in Results /\ ~first.unknown
      /\ first.outcome = "failed" \/ first.outcome = "contract"
  <2>1. Timeout.sqlstate \in SqlStates
    BY DEF Timeout, SqlStates
  <2> QED  BY <2>1, ClassifyIs
<1>2. Plain("none") \in Results
  BY DEF Plain, Results, SqlStates
<1> HIDE DEF first
<1>3. CASE Hopeless(attempt[c], left[c])
  <2>1. /\ Reply(c, TempOrUnknown(result[c]))
        /\ UNCHANGED <<attempt, dispatched, result, malformed, committed>>
    BY <1>3 DEF StartAttempt
  <2>2. attempt[c] > 0
    BY <1>3 DEF Hopeless
  <2>3. Ended(c) /\ TempOrUnknown(result[c]) = AnswerFor(result[c])
    BY <2>2 DEF ServiceInv, ServiceTypeOK, CallOK, Ended, Eligible, StartAttempt, AnswerFor
  <2>4. ServiceTypeOK' /\ Untouched(c)
    BY <2>1 DEF Reply, Goto, ServiceInv, ServiceTypeOK, Stages, Untouched
  <2>5. Ended(c)' /\ stage'[c] = "answered" /\ answer'[c] = AnswerFor(result'[c])
    BY <2>1, <2>3 DEF Reply, Goto, ServiceInv, ServiceTypeOK, Ended
  <2> QED  BY <2>4, <2>5 DEF CallOK
<1>4. CASE ~Hopeless(attempt[c], left[c])
  <2>1. /\ stage[c] = "attempt"
        /\ attempt' = [attempt EXCEPT ![c] = @ + 1]
        /\ dispatched' = [dispatched EXCEPT ![c] = FALSE]
        /\ \/ result' = [result EXCEPT ![c] = first] /\ stage' = [stage EXCEPT ![c] = "decide"]
           \/ /\ result' = [result EXCEPT ![c] = Plain("none")]
              /\ stage' = [stage EXCEPT ![c] = "acquire"]
        /\ UNCHANGED <<malformed, left, answer, committed>>
    BY <1>4 DEF StartAttempt, Keep, Goto, first
  <2>2. ServiceTypeOK' /\ Untouched(c)
    BY <1>1, <1>2, <2>1 DEF ServiceInv, ServiceTypeOK, Stages, Untouched
  <2>3. CallOK(c)'
    BY <1>1, <2>1 DEF ServiceInv, ServiceTypeOK, Stages, CallOK, Ended
  <2> QED  BY <2>2, <2>3
<1> QED  BY <1>3, <1>4

LEMMA DecideOK ==
    ASSUME ServiceInv, NEW c \in Calls, Decide(c)
    PROVE  ServiceTypeOK' /\ Untouched(c) /\ CallOK(c)'
<1>1. /\ stage[c] = "decide"
      /\ UNCHANGED <<malformed, attempt, dispatched, result, committed>>
      /\ \/ Reply(c, AnswerFor(result[c]))
         \/ /\ Goto(c, "sleep") /\ UNCHANGED <<answer, left>>
            /\ result[c].outcome = "failed" /\ Eligible(result[c])
  BY DEF Decide
<1>2. ServiceTypeOK' /\ Untouched(c)
  BY <1>1 DEF Reply, Goto, ServiceInv, ServiceTypeOK, Stages, Untouched
<1>3. Ended(c) /\ Ended(c)'
  BY <1>1 DEF ServiceInv, CallOK, Ended
<1>4. result[c].outcome = "failed" /\ Eligible(result[c]) => committed[c] = 0
  BY <1>3 DEF Ended, Eligible, Rows, ServiceInv, ServiceTypeOK
<1> QED  BY <1>1, <1>2, <1>3, <1>4 DEF Reply, Goto, ServiceInv, ServiceTypeOK, CallOK

LEMMA WakeOK ==
    ASSUME ServiceInv, NEW c \in Calls, Wake(c)
    PROVE  ServiceTypeOK' /\ Untouched(c) /\ CallOK(c)'
<1>1. /\ stage[c] = "sleep"
      /\ UNCHANGED <<malformed, attempt, dispatched, result, committed>>
      /\ \/ Reply(c, TempOrUnknown(result[c]))
         \/ Goto(c, "attempt") /\ UNCHANGED <<answer, left>>
  BY DEF Wake
<1>2. ServiceTypeOK' /\ Untouched(c)
  BY <1>1 DEF Reply, Goto, ServiceInv, ServiceTypeOK, Stages, Untouched
<1>3. /\ committed[c] = 0 /\ result[c].outcome = "failed" /\ Eligible(result[c])
  BY <1>1 DEF ServiceInv, CallOK
<1>4. /\ Ended(c)' /\ TempOrUnknown(result[c]) = AnswerFor(result[c])
  BY <1>1, <1>3 DEF Ended, Eligible, AnswerFor
<1> QED  BY <1>1, <1>2, <1>3, <1>4 DEF Reply, Goto, ServiceInv, ServiceTypeOK, CallOK

LEMMA AcquireOK ==
    ASSUME ServiceInv, NEW c \in Calls, Acquire(c)
    PROVE  ServiceTypeOK' /\ Untouched(c) /\ CallOK(c)'
BY DEF Acquire, Goto, ServiceInv, ServiceTypeOK, Stages, Untouched, CallOK

\* An attempt that fails before COMMIT has committed nothing, and is not in
\* doubt if it was rolled back or not even sent.
LEMMA FailOK ==
    ASSUME ServiceInv, NEW c \in Calls, committed[c] = 0, NEW error,
           error.sqlstate \in SqlStates, NEW sent \in BOOLEAN, NEW rolledBack \in BOOLEAN,
           rolledBack \/ ~sent,
           Keep(c, Classify(c, error, sent, rolledBack)), NEW next \in {"putconn", "decide"},
           Goto(c, next),
           UNCHANGED <<malformed, attempt, left, dispatched, answer, committed>>
    PROVE  ServiceTypeOK' /\ Untouched(c) /\ CallOK(c)'
<1> DEFINE failure == Classify(c, error, sent, rolledBack)
<1>1. /\ failure \in Results /\ ~failure.unknown
      /\ failure.outcome = "failed" \/ failure.outcome = "contract"
  BY ClassifyIs
<1>2. result' = [result EXCEPT ![c] = failure] /\ stage' = [stage EXCEPT ![c] = next]
  BY DEF Keep, Goto
<1> HIDE DEF failure
<1>3. ServiceTypeOK' /\ Untouched(c)
  BY <1>1, <1>2 DEF ServiceInv, ServiceTypeOK, Stages, Untouched
<1>4. CallOK(c)'
  BY <1>1, <1>2 DEF ServiceInv, ServiceTypeOK, Stages, CallOK, Ended
<1> QED  BY <1>3, <1>4

LEMMA AcquireTimesOutOK ==
    ASSUME ServiceInv, NEW c \in Calls, AcquireTimesOut(c)
    PROVE  ServiceTypeOK' /\ Untouched(c) /\ CallOK(c)'
<1>1. PoolTimeout.sqlstate \in SqlStates
  BY DEF PoolTimeout, SqlStates
<1>2. committed[c] = 0
  BY DEF AcquireTimesOut, ServiceInv, CallOK
<1> QED  BY <1>1, <1>2, FailOK DEF AcquireTimesOut

LEMMA BeginOK ==
    ASSUME ServiceInv, NEW c \in Calls, Begin(c)
    PROVE  ServiceTypeOK' /\ Untouched(c) /\ CallOK(c)'
<1>1. committed[c] = 0 /\ dispatched[c] \in BOOLEAN
  BY DEF Begin, ServiceInv, ServiceTypeOK, CallOK
<1>2. CASE RolledBack(c, Timeout) /\ UNCHANGED dispatched
  <2>1. Timeout.sqlstate \in SqlStates
    BY DEF Timeout, SqlStates
  <2> QED  BY <1>1, <1>2, <2>1, FailOK DEF Begin, RolledBack
<1>3. ASSUME NEW state \in {"none", "08", "other"},
             RolledBack(c, [class |-> "operational", sqlstate |-> state]), UNCHANGED dispatched
      PROVE  ServiceTypeOK' /\ Untouched(c) /\ CallOK(c)'
  <2>1. [class |-> "operational", sqlstate |-> state].sqlstate \in SqlStates
    BY DEF SqlStates
  <2> QED  BY <1>1, <1>3, <2>1, FailOK DEF Begin, RolledBack
<1>4. CASE /\ dispatched' = [dispatched EXCEPT ![c] = TRUE]
           /\ Goto(c, "execute") /\ UNCHANGED result
  BY <1>1, <1>4 DEF Begin, Goto, ServiceInv, ServiceTypeOK, Stages, Untouched, CallOK
<1> QED  BY <1>2, <1>3, <1>4 DEF Begin

LEMMA ErrorStates == \A error \in Errors : error.sqlstate \in SqlStates
BY DEF Errors, SqlStates

LEMMA ExecuteOK ==
    ASSUME ServiceInv, NEW c \in Calls, Execute(c)
    PROVE  ServiceTypeOK' /\ Untouched(c) /\ CallOK(c)'
<1>1. /\ committed[c] = 0 /\ dispatched[c] /\ dispatched[c] \in BOOLEAN
      /\ stage[c] = "execute"
      /\ UNCHANGED <<malformed, attempt, left, dispatched, answer, committed>>
  BY DEF Execute, ServiceInv, ServiceTypeOK, CallOK
<1>2. CASE RolledBack(c, Timeout)
  <2>1. Timeout.sqlstate \in SqlStates
    BY DEF Timeout, SqlStates
  <2> QED  BY <1>1, <1>2, <2>1, FailOK DEF RolledBack
<1>3. ASSUME NEW error \in Errors, RolledBack(c, error)
      PROVE  ServiceTypeOK' /\ Untouched(c) /\ CallOK(c)'
  BY <1>1, <1>3, ErrorStates, FailOK DEF RolledBack
<1>4. ASSUME NEW row \in Rows(c), Keep(c, Plain(row)), Goto(c, "commit")
      PROVE  ServiceTypeOK' /\ Untouched(c) /\ CallOK(c)'
  <2>1. Plain(row) \in Results /\ Plain(row).outcome = row
    BY DEF Rows, Plain, Results, SqlStates
  <2>2. result' = [result EXCEPT ![c] = Plain(row)] /\ stage' = [stage EXCEPT ![c] = "commit"]
    BY <1>4 DEF Keep, Goto
  <2>3. ServiceTypeOK' /\ Untouched(c)
    BY <1>1, <2>1, <2>2 DEF ServiceInv, ServiceTypeOK, Stages, Untouched
  <2>4. CallOK(c)'
    BY <1>1, <2>1, <2>2 DEF ServiceInv, ServiceTypeOK, Stages, CallOK, Rows
  <2> QED  BY <2>3, <2>4
<1>5. "refused" \in Rows(c)
  BY DEF Rows
<1> QED  BY <1>2, <1>3, <1>4, <1>5 DEF Execute

\* A failure nobody saw the end of leaves the attempt in doubt, whatever the
\* server did.
LEMMA DoubtOK ==
    ASSUME ServiceInv, NEW c \in Calls, dispatched[c], NEW error,
           error.sqlstate \in SqlStates,
           Keep(c, Classify(c, error, TRUE, FALSE)), Goto(c, "close"),
           NEW effect \in 0..1, committed' = [committed EXCEPT ![c] = effect],
           UNCHANGED <<malformed, attempt, left, dispatched, answer>>
    PROVE  ServiceTypeOK' /\ Untouched(c) /\ CallOK(c)'
<1> DEFINE failure == Classify(c, error, TRUE, FALSE)
<1>1. failure \in Results /\ failure.outcome = "failed" /\ failure.unknown
  BY ClassifyIs
<1>2. result' = [result EXCEPT ![c] = failure] /\ stage' = [stage EXCEPT ![c] = "close"]
  BY DEF Keep, Goto
<1> HIDE DEF failure
<1>3. ServiceTypeOK' /\ Untouched(c)
  BY <1>1, <1>2 DEF ServiceInv, ServiceTypeOK, Stages, Untouched
<1>4. CallOK(c)'
  BY <1>1, <1>2 DEF ServiceInv, ServiceTypeOK, Stages, CallOK, Ended
<1> QED  BY <1>3, <1>4

LEMMA RollbackFailsOK ==
    ASSUME ServiceInv, NEW c \in Calls, RollbackFails(c)
    PROVE  ServiceTypeOK' /\ Untouched(c) /\ CallOK(c)'
<1>1. CASE stage[c] = "begin"
  <2>1. /\ committed[c] = 0 /\ Timeout.sqlstate \in SqlStates
        /\ Keep(c, Classify(c, Timeout, FALSE, FALSE)) /\ Goto(c, "putconn")
        /\ UNCHANGED <<malformed, attempt, left, dispatched, answer, committed>>
    BY <1>1 DEF RollbackFails, ServiceInv, CallOK, Timeout, SqlStates
  <2> QED  BY <2>1, FailOK
<1>2. CASE stage[c] = "execute"
  <2>1. PICK error \in Errors : Keep(c, Classify(c, error, TRUE, FALSE))
    BY <1>2 DEF RollbackFails
  <2>2. /\ dispatched[c] /\ Goto(c, "close")
        /\ committed' = [committed EXCEPT ![c] = 0]
        /\ UNCHANGED <<malformed, attempt, left, dispatched, answer>>
    BY <1>2 DEF RollbackFails, ServiceInv, ServiceTypeOK, CallOK
  <2>3. error.sqlstate \in SqlStates /\ 0 \in 0..1
    BY ErrorStates
  <2> QED  BY <2>1, <2>2, <2>3, DoubtOK
<1> QED  BY <1>1, <1>2 DEF RollbackFails

LEMMA CommitOK ==
    ASSUME ServiceInv, NEW c \in Calls, Commit(c)
    PROVE  ServiceTypeOK' /\ Untouched(c) /\ CallOK(c)'
<1>1. /\ stage[c] = "commit" /\ committed[c] = 0
      /\ result[c].outcome \in Rows(c)
      /\ UNCHANGED <<malformed, attempt, left, dispatched, result, answer>>
  BY DEF Commit, ServiceInv, CallOK
<1>2. committed' = [committed EXCEPT ![c] =
                       IF result[c].outcome \in Effective THEN 1 ELSE 0]
  BY <1>1 DEF Commit, CountEffect
<1>3. /\ stage' = [stage EXCEPT ![c] =
                      IF result[c].outcome \in Confirmed THEN "confirm" ELSE "putconn"]
      /\ result[c].outcome \in Confirmed => c \in Bookings
  BY <1>1 DEF Commit, Goto, Confirmed, Rows
<1>4. ServiceTypeOK' /\ Untouched(c)
  BY <1>1, <1>2, <1>3 DEF ServiceInv, ServiceTypeOK, Stages, Untouched
<1>5. Ended(c)'
  BY <1>1, <1>2 DEF ServiceInv, ServiceTypeOK, Ended
<1>6. stage'[c] = "putconn" \/ (stage'[c] = "confirm" /\ c \in Bookings)
  BY <1>3 DEF ServiceInv, ServiceTypeOK
<1> QED  BY <1>4, <1>5, <1>6 DEF CallOK

LEMMA CommitFailsOK ==
    ASSUME ServiceInv, NEW c \in Calls, CommitFails(c)
    PROVE  ServiceTypeOK' /\ Untouched(c) /\ CallOK(c)'
<1>1. PICK state \in SqlStates :
         Keep(c, Classify(c, [class |-> "operational", sqlstate |-> state], TRUE, FALSE))
  BY DEF CommitFails
<1>2. /\ dispatched[c] /\ Goto(c, "close") /\ committed[c] = 0
      /\ UNCHANGED <<malformed, attempt, left, dispatched, answer>>
  BY DEF CommitFails, ServiceInv, CallOK
<1>3. PICK effect \in 0..1 : committed' = [committed EXCEPT ![c] = effect]
  BY <1>2 DEF CommitFails, CountEffect, ServiceInv, ServiceTypeOK
<1>4. [class |-> "operational", sqlstate |-> state].sqlstate \in SqlStates
  OBVIOUS
<1> QED  BY <1>1, <1>2, <1>3, <1>4, DoubtOK

LEMMA ConfirmOK ==
    ASSUME ServiceInv, NEW c \in Calls, Confirm(c)
    PROVE  ServiceTypeOK' /\ Untouched(c) /\ CallOK(c)'
<1>1. /\ stage[c] = "confirm" /\ c \in Bookings /\ Ended(c)
      /\ UNCHANGED <<malformed, attempt, left, dispatched, answer, committed>>
  BY DEF Confirm, ServiceInv, CallOK
<1>2. CASE Goto(c, "putconn") /\ UNCHANGED result
  BY <1>1, <1>2 DEF Goto, ServiceInv, ServiceTypeOK, Stages, Untouched, CallOK, Ended
<1>3. CASE Goto(c, "close") /\ Keep(c, Plain("confirmation"))
  <2>1. Plain("confirmation") \in Results /\ Plain("confirmation").outcome = "confirmation"
    BY DEF Plain, Results, SqlStates
  <2>2. ServiceTypeOK' /\ Untouched(c)
    BY <1>1, <1>3, <2>1 DEF Goto, Keep, ServiceInv, ServiceTypeOK, Stages, Untouched
  <2>3. CallOK(c)'
    BY <1>1, <1>3, <2>1 DEF Goto, Keep, ServiceInv, ServiceTypeOK, CallOK, Ended
  <2> QED  BY <2>2, <2>3
<1> QED  BY <1>2, <1>3 DEF Confirm

\* The disposal of a connection leaves what is known of the attempt.
LEMMA DisposeOK ==
    ASSUME ServiceInv, NEW c \in Calls, stage[c] \in {"close", "putconn"},
           NEW next \in {"putconn", "decide"}, Goto(c, next),
           UNCHANGED <<malformed, attempt, left, dispatched, result, answer, committed>>
    PROVE  ServiceTypeOK' /\ Untouched(c) /\ CallOK(c)'
<1>1. Ended(c) /\ Ended(c)'
  BY DEF ServiceInv, CallOK, Ended
<1> QED  BY <1>1 DEF Goto, ServiceInv, ServiceTypeOK, Stages, Untouched, CallOK

LEMMA StepOK ==
    ASSUME ServiceInv, NEW c \in Calls, Arrive(c) \/ Step(c)
    PROVE  ServiceTypeOK' /\ Untouched(c) /\ CallOK(c)'
<1>1. CASE CloseUnsafe(c)
  BY <1>1, DisposeOK DEF CloseUnsafe
<1>2. CASE PutConnection(c)
  BY <1>2, DisposeOK DEF PutConnection
<1> QED
  BY <1>1, <1>2, ArriveOK, StartAttemptOK, DecideOK, WakeOK, AcquireOK, AcquireTimesOutOK,
     BeginOK, ExecuteOK, RollbackFailsOK, CommitOK, CommitFailsOK, ConfirmOK
  DEF Step

LEMMA Inductive == ServiceInv /\ [Next]_vars => ServiceInv'
<1> SUFFICES ASSUME ServiceInv, [Next]_vars  PROVE ServiceInv'
  OBVIOUS
<1>1. ASSUME NEW c \in Calls, Arrive(c) \/ Step(c)  PROVE ServiceInv'
  BY <1>1, StepOK, UntouchedOK DEF ServiceInv
<1>2. ASSUME UNCHANGED <<stage, malformed, attempt, dispatched, result, answer, committed>>,
             left' \in [Calls -> Nat]
      PROVE  ServiceInv'
  BY <1>2 DEF ServiceInv, ServiceTypeOK, CallOK, Ended
<1>3. CASE Tick
  BY <1>2, <1>3 DEF Tick, ServiceInv, ServiceTypeOK, Less
<1>4. CASE UNCHANGED vars
  BY <1>2, <1>4 DEF vars, calls, ServiceInv, ServiceTypeOK
<1> QED  BY <1>1, <1>3, <1>4 DEF Next, Finished

LEMMA ServiceInvariant == Spec => []ServiceInv
BY InitOK, Inductive, PTL DEF Spec

-----------------------------------------------------------------------------
(* The theorems *)

\* However its attempts fail, a call never commits its change twice
\* (retry.py:37-40, reservation_gateway.py:69-85 and 207-219).
THEOREM NoChangeTwice == Spec => []ChangedAtMostOnce
<1>1. ServiceInv => ChangedAtMostOnce
  BY DEF ServiceInv, ServiceTypeOK, ChangedAtMostOnce
<1> QED  BY <1>1, ServiceInvariant, PTL

\* An attempt after the first has the minimum of time left (retry.py:62-72 and 80-85).
THEOREM RetriesInTime == Spec => RetriesHaveTime
<1>1. ASSUME ServiceInv, [Next]_vars, NEW c \in Calls, attempt'[c] > attempt[c], attempt[c] > 0
      PROVE  left[c] >= MinRemaining
  <2>1. CASE StartAttempt(c)
    <3>1. ASSUME Hopeless(attempt[c], left[c])  PROVE FALSE
      <4>1. attempt' = attempt
        BY <2>1, <3>1 DEF StartAttempt
      <4> QED  BY <1>1, <4>1 DEF ServiceInv, ServiceTypeOK
    <3> QED  BY <1>1, <3>1, RetryAssumption DEF Hopeless, ServiceInv, ServiceTypeOK
  <2>2. CASE ~StartAttempt(c)
    <3>1. attempt'[c] = attempt[c]
      <4>1. CASE Tick \/ UNCHANGED vars
        BY <4>1 DEF Tick, vars, calls
      <4>2. ASSUME NEW d \in Calls \ {c}, Arrive(d) \/ Step(d)  PROVE attempt'[c] = attempt[c]
        BY <1>1, <4>2, StepOK DEF Untouched
      <4>3. CASE Arrive(c) \/ Step(c)
        BY <2>2, <4>3
        DEF Step, Arrive, Decide, Wake, Acquire, AcquireTimesOut, Begin, Execute, RollbackFails,
            Commit, CommitFails, Confirm, CloseUnsafe, PutConnection
      <4> QED  BY <1>1, <4>1, <4>2, <4>3 DEF Next, Finished
    <3> QED  BY <1>1, <3>1 DEF ServiceInv, ServiceTypeOK
  <2> QED  BY <2>1, <2>2
<1>2. ServiceInv /\ [Next]_vars =>
        [\A c \in Calls : attempt'[c] > attempt[c] /\ attempt[c] > 0
            => left[c] >= MinRemaining]_vars
  BY <1>1
<1> QED  BY <1>2, ServiceInvariant, PTL DEF Spec, RetriesHaveTime

-----------------------------------------------------------------------------
(* Answers on the wire *)

LEMMA BookingAnswers ==
    ASSUME NEW c \in Bookings, NEW rows, NEW a \in OfRows(c, rows)
    PROVE  \E row \in rows : \E detail : a = BookingResponse(row, detail)
BY DEF OfRows

LEMMA PreferenceAnswers ==
    ASSUME NEW c, c \notin Bookings, NEW rows, NEW a \in OfRows(c, rows)
    PROVE  \E row \in rows : a = CustomerResponse(row)
BY DEF OfRows

\* The answers to a row the database refused.
RefusedResponses ==
    {ErrorResponse("customer_identity_conflict", 409),
     ErrorResponse("middle_initial_conflict", 409), ErrorResponse("reservation_overlap", 409),
     ErrorResponse("reservation_unavailable", 409), ErrorResponse("validation_failed", 422),
     Envelope("internal_error"), Success(200)}

LEMMA RefusedResponsesAre ==
    ASSUME NEW a \in RefusedResponses  PROVE a.status # 201 /\ ~a.outcome_unknown
<1>1. ~Success(200).outcome_unknown /\ Success(200).status = 200
  BY DEF Success, Answer
<1>2. Envelope("internal_error").status # 201 /\ ~Envelope("internal_error").outcome_unknown
  BY Envelopes, Statuses DEF UnknownCodes
<1>3. \A code \in {"customer_identity_conflict", "middle_initial_conflict",
                  "reservation_overlap", "reservation_unavailable", "validation_failed"} :
         \A status : /\ ErrorResponse(code, status).status # 201
                     /\ ~ErrorResponse(code, status).outcome_unknown
  BY ErrorResponses DEF UnknownCodes
<1> QED  BY <1>1, <1>2, <1>3 DEF RefusedResponses

\* A row the database refused, and one that was decided earlier, is no success
\* of this call, and leaves nothing in doubt.
LEMMA RefusedAnswers ==
    ASSUME NEW c, NEW a \in OfRows(c, RefusedRows(c))
    PROVE  a.status # 201 /\ ~a.outcome_unknown
<1>1. CASE c \in Bookings
  <2>1. PICK row \in RefusedRows(c) : \E detail : a = BookingResponse(row, detail)
    BY <1>1, BookingAnswers
  <2>2. row \in {"customer_identity_conflict", "middle_initial_conflict", "invalid_request",
                 "same_customer_overlap", "unavailable"}
    BY <1>1, <2>1 DEF RefusedRows, Conflicts
  <2>3. a \in RefusedResponses
    <3>1. CASE row \in Conflicts
      BY <2>1, <3>1 DEF BookingResponse, RefusedResponses, Conflicts
    <3>2. CASE row = "invalid_request"
      BY <2>1, <3>2 DEF BookingResponse, RefusedResponses, Conflicts
    <3>3. CASE row \in {"same_customer_overlap", "unavailable"}
      BY <2>1, <3>3 DEF BookingResponse, RefusedResponses, Conflicts
    <3> QED  BY <2>2, <3>1, <3>2, <3>3 DEF Conflicts
  <2> QED  BY <2>3, RefusedResponsesAre
<1>2. CASE c \notin Bookings
  <2>1. PICK row \in RefusedRows(c) : a = CustomerResponse(row)
    BY <1>2, PreferenceAnswers
  <2>2. row \in {"customer_identity_conflict", "middle_initial_conflict", "invalid_request",
                 "no_customer_no_change"}
    BY <1>2, <2>1 DEF RefusedRows, Conflicts
  <2>3. a \in RefusedResponses
    BY <2>1, <2>2 DEF CustomerResponse, Conflicts, RefusedResponses
  <2> QED  BY <2>3, RefusedResponsesAre
<1> QED  BY <1>1, <1>2

LEMMA SuccessAnswers ==
    ASSUME NEW c
    PROVE  /\ c \in Bookings => \A a \in OfRows(c, {"booked", "booked_phone_notice"}) :
                                   a = Success(201)
           /\ c \in Bookings => \A a \in OfRows(c, {"exact_retry"}) : a = Success(200)
           /\ c \notin Bookings => \A a \in OfRows(c, {"subscribed", "unsubscribed"}) :
                                      a = Success(200)
<1>1. ASSUME c \in Bookings, NEW a \in OfRows(c, {"booked", "booked_phone_notice"})
      PROVE  a = Success(201)
  BY <1>1, BookingAnswers DEF BookingResponse, Conflicts
<1>2. ASSUME c \in Bookings, NEW a \in OfRows(c, {"exact_retry"})  PROVE a = Success(200)
  BY <1>2, BookingAnswers DEF BookingResponse, Conflicts
<1>3. ASSUME c \notin Bookings, NEW a \in OfRows(c, {"subscribed", "unsubscribed"})
      PROVE  a = Success(200)
  BY <1>3, PreferenceAnswers DEF CustomerResponse, Conflicts
<1> QED  BY <1>1, <1>2, <1>3

LEMMA FailureAnswers ==
    ASSUME NEW op \in {"book", "set_preference"}, NEW failure \in Failures
    PROVE  /\ FailureResponse(op, failure).status \notin {200, 201}
           /\ failure = "outcome_unknown" =>
                 /\ FailureResponse(op, failure).outcome_unknown
                 /\ KeepsBody(FailureResponse(op, failure))
           /\ failure = "confirmation_unavailable" =>
                 /\ FailureResponse(op, failure).code = "reservation_confirmation_unavailable"
                 /\ KeepsBody(FailureResponse(op, failure))
           /\ failure # "outcome_unknown" => ~FailureResponse(op, failure).outcome_unknown
<1>1. CASE failure = "outcome_unknown"
  <2>1. PICK code \in UnknownCodes : FailureResponse(op, failure) = ErrorResponse(code, 503)
    BY <1>1 DEF FailureResponse, UnknownCodes
  <2>2. Status(code) = 503 /\ code \notin Final
    BY DEF UnknownCodes, Status, Final, Conflicts
  <2>3. FailureResponse(op, failure) = Envelope(code)
    BY <2>1, <2>2 DEF ErrorResponse
  <2> QED  BY <1>1, <2>2, <2>3, Envelopes DEF KeepsBody
<1>2. CASE failure = "confirmation_unavailable"
  <2> DEFINE code == "reservation_confirmation_unavailable"
  <2>1. Status(code) = 503 /\ code \notin Final /\ code \notin UnknownCodes
    BY DEF UnknownCodes, Status, Final, Conflicts
  <2>2. FailureResponse(op, failure) = Envelope(code)
    BY <1>2, <2>1 DEF FailureResponse, ErrorResponse
  <2> QED  BY <1>2, <2>1, <2>2, Envelopes DEF KeepsBody
<1>3. CASE failure \notin {"outcome_unknown", "confirmation_unavailable"}
  <2>1. PICK code, status : /\ FailureResponse(op, failure) = ErrorResponse(code, status)
                            /\ code \notin UnknownCodes
    BY <1>3 DEF FailureResponse, Failures, UnknownCodes
  <2> QED  BY <1>3, <2>1, ErrorResponses
<1> QED  BY <1>1, <1>2, <1>3

\* Each thing a finished attempt can have come to, and the answers for it.
LEMMA AnswerCases ==
    ASSUME ServiceInv, NEW c \in Calls, stage[c] = "answered", NEW a \in Responses(c)
    PROVE  /\ committed[c] > 0 =>
                 \/ a.status \in {200, 201}
                 \/ a.outcome_unknown /\ KeepsBody(a)
                 \/ a.code = "reservation_confirmation_unavailable" /\ KeepsBody(a)
           /\ a.status = 201 \/ answer[c] = "changed" => committed[c] = 1
           /\ a.outcome_unknown => dispatched[c] /\ ~Eligible(result[c])
<1> USE DEF ServiceInv, ServiceTypeOK
<1>0. \A s : ~Success(s).outcome_unknown /\ Success(s).status = s
  BY DEF Success, Answer
<1>1. CASE answer[c] \in RefusalCodes /\ committed[c] = 0
  <2>1. a = Envelope(answer[c])
    BY <1>1 DEF Responses, RefusalCodes, Failures
  <2>2. answer[c] \notin UnknownCodes /\ answer[c] # "changed"
    BY <1>1 DEF RefusalCodes, UnknownCodes
  <2> QED  BY <1>1, <2>1, <2>2, Envelopes, Statuses
<1>2. CASE result[c].outcome \in Rows(c) /\ Ended(c) /\ answer[c] = AnswerFor(result[c])
  <2>1. /\ committed[c] = IF result[c].outcome \in Effective THEN 1 ELSE 0
        /\ result[c].outcome # "failed"
    BY <1>2 DEF Ended, Rows
  <2>2. CASE result[c].outcome = "booked"
    <3>1. answer[c] = "booked" /\ c \in Bookings /\ committed[c] = 1
      BY <1>2, <2>1, <2>2 DEF AnswerFor, Rows, Effective
    <3>2. a = Success(201)
      BY <3>1, SuccessAnswers DEF Responses, Failures
    <3> QED  BY <1>0, <3>1, <3>2
  <2>3. CASE result[c].outcome = "changed"
    <3>1. answer[c] = "changed" /\ c \notin Bookings /\ committed[c] = 1
      BY <1>2, <2>1, <2>3 DEF AnswerFor, Rows, Effective
    <3>2. a = Success(200)
      BY <3>1, SuccessAnswers DEF Responses, Failures
    <3> QED  BY <1>0, <3>1, <3>2
  <2>4. CASE result[c].outcome = "exact_retry"
    <3>1. answer[c] = "exact_retry" /\ c \in Bookings /\ committed[c] = 0
      BY <1>2, <2>1, <2>4 DEF AnswerFor, Rows, Effective
    <3>2. a = Success(200)
      BY <3>1, SuccessAnswers DEF Responses, Failures
    <3> QED  BY <1>0, <3>1, <3>2
  <2>5. CASE result[c].outcome = "refused"
    <3>1. answer[c] = "refused" /\ committed[c] = 0
      BY <1>2, <2>1, <2>5 DEF AnswerFor, Effective
    <3>2. a \in OfRows(c, RefusedRows(c))
      BY <3>1 DEF Responses, Failures
    <3> QED  BY <3>1, <3>2, RefusedAnswers
  <2>6. CASE result[c].outcome = "invalid_configuration"
    <3>1. answer[c] = "service_unavailable" /\ committed[c] = 0
      BY <1>2, <2>1, <2>6 DEF AnswerFor, Effective
    <3>2. a = FailureResponse(Operation(c), answer[c])
      BY <3>1 DEF Responses, Failures
    <3> QED  BY <3>1, <3>2, FailureAnswers DEF Failures, Operation
  <2> QED  BY <1>2, <2>2, <2>3, <2>4, <2>5, <2>6 DEF Rows
<1>3. CASE result[c].outcome \in {"failed", "confirmation", "contract"} /\ Ended(c)
           /\ answer[c] = AnswerFor(result[c])
  <2>1. answer[c] \in {"temporary_failure", "outcome_unknown", "confirmation_unavailable",
                       "internal_error"}
    BY <1>3 DEF AnswerFor, TempOrUnknown
  <2>2. a = FailureResponse(Operation(c), answer[c])
    BY <2>1 DEF Responses, Failures
  <2>3. committed[c] > 0 => answer[c] \in {"outcome_unknown", "confirmation_unavailable"}
    BY <1>3 DEF Ended, AnswerFor, TempOrUnknown, Rows
  <2>4. answer[c] = "outcome_unknown" => dispatched[c] /\ ~Eligible(result[c])
    BY <1>3 DEF Ended, AnswerFor, TempOrUnknown, Rows, Eligible
  <2> QED  BY <2>1, <2>2, <2>3, <2>4, FailureAnswers DEF Failures, Operation
<1> QED  BY <1>1, <1>2, <1>3 DEF CallOK, Ended

\* What the caller is told agrees with what was committed (reservations.py:70-95,
\* newsletter_preferences.py:104-142, error_handlers.py:60-113).
THEOREM HonestAnswers == Spec => []AnswersAreHonest
<1>1. ServiceInv => AnswersAreHonest
  BY AnswerCases DEF AnswersAreHonest, ServiceInv
<1> QED  BY <1>1, ServiceInvariant, PTL

\* A form that drops its body drops one the database has not acted on
\* (responses.py:18-88, ReservationFeature.jsx:227-262).
THEOREM BodiesKept == Spec => []BodyKeptUntilSettled
<1>1. ServiceInv => BodyKeptUntilSettled
  BY AnswerCases DEF BodyKeptUntilSettled, ServiceInv, ServiceTypeOK
<1> QED  BY <1>1, ServiceInvariant, PTL

-----------------------------------------------------------------------------
(* Arguments *)

LEMMA WhatArrivesIsTaken ==
    ASSUME NEW c, NEW r \in Requests[Operation(c)], Refusal(r) = "none"
    PROVE  Objections(c, r.payload) = Exception(r.payload)
<1>1. r.target \in Posts \cup Gets /\ FieldErrors(r) = {}
  BY Refusals
<1>2. CASE c \in Bookings
  <2>1. /\ r.target \in {"book", "unknown"} /\ r.payload \in BookingPayloads
    BY <1>2, RequestsAssumption DEF Operation
  <2>2. r.target = "book"
    BY <1>1, <2>1 DEF Posts, Gets
  <2>3. BookingErrors(r.payload) = {}
    BY <1>1, <2>2 DEF FieldErrors
  <2>4. BookingObjections(Identity(r.payload), r.payload) = Exception(r.payload)
    BY <2>1, <2>3, BookingsAreTaken
  <2> QED  BY <1>2, <2>4 DEF Objections
<1>3. CASE c \notin Bookings
  <2>1. /\ r.target \in {"set_preference", "unknown"} /\ r.payload \in PreferencePayloads
    BY <1>3, RequestsAssumption DEF Operation
  <2>2. r.target = "set_preference"
    BY <1>1, <2>1 DEF Posts, Gets
  <2>3. PreferenceErrors(r.payload) = {}
    BY <1>1, <2>2 DEF FieldErrors
  <2>4. PreferenceObjections(Identity(r.payload)) = Exception(r.payload)
    BY <2>1, <2>3, PreferencesAreTaken
  <2> QED  BY <1>3, <2>4 DEF Objections
<1> QED  BY <1>2, <1>3

\* A function of the database objects to nothing it is sent, but for a middle
\* initial without case; of all requests, of both operations
\* (validation/reservation.py, validation/newsletter.py, 008:85-121, 007:181-196).
THEOREM OnlyCaseless == Spec => []OnlyCaselessIsRefused
<1> DEFINE Inv == DOMAIN malformed = Calls /\ OnlyCaselessIsRefused
<1>1. Init => Inv
  BY DEF Init, OnlyCaselessIsRefused
<1>2. Inv /\ [Next]_vars => Inv'
  <2> SUFFICES ASSUME Inv, [Next]_vars  PROVE Inv'
    OBVIOUS
  <2>1. ASSUME NEW c \in Calls, Arrive(c)  PROVE Inv'
    <3>1. PICK r \in Requests[Operation(c)] :
              \/ UNCHANGED malformed
              \/ /\ Refusal(r) = "none"
                 /\ malformed' = [malformed EXCEPT ![c] = Objections(c, r.payload)]
      BY <2>1 DEF Arrive
    <3>2. CASE UNCHANGED malformed
      BY <3>2 DEF OnlyCaselessIsRefused
    <3>3. CASE /\ Refusal(r) = "none"
               /\ malformed' = [malformed EXCEPT ![c] = Objections(c, r.payload)]
      <4>1. Objections(c, r.payload) \subseteq {"caseless"}
        BY <3>3, WhatArrivesIsTaken DEF Exception
      <4> QED  BY <3>3, <4>1 DEF OnlyCaselessIsRefused
    <3> QED  BY <3>1, <3>2, <3>3
  <2>2. ASSUME NEW c \in Calls, Step(c)  PROVE UNCHANGED malformed
    BY <2>2
    DEF Step, StartAttempt, Decide, Wake, Acquire, AcquireTimesOut, Begin, Execute,
        RollbackFails, Commit, CommitFails, Confirm, CloseUnsafe, PutConnection
  <2>3. CASE Tick \/ UNCHANGED vars
    BY <2>3 DEF Tick, vars, calls, OnlyCaselessIsRefused
  <2> QED  BY <2>1, <2>2, <2>3 DEF Next, Finished, OnlyCaselessIsRefused
<1> QED  BY <1>1, <1>2, PTL DEF Spec

-----------------------------------------------------------------------------
(* Connections *)

Held == {c \in Calls : stage[c] \in Holding}

PoolInv ==
    /\ idle \in Nat /\ lost \in Nat /\ quirks \in Nat
    /\ ConnectionsAccounted

LEMMA HeldIsFinite == IsFiniteSet(Held) /\ Cardinality(Held) \in Nat
BY ServiceAssumption, FS_Subset, FS_CardinalityType DEF Held

\* A step that neither takes nor gives a connection.
LEMMA KeepsPool ==
    ASSUME PoolInv, Held' = Held, UNCHANGED pool, quirks' = quirks \/ Quirk
    PROVE  PoolInv'
BY DEF PoolInv, ConnectionsAccounted, Held, pool, Quirk

\* A call gives its connection back, or loses it.
LEMMA GivesBack ==
    ASSUME PoolInv, NEW c \in Calls, stage[c] \in {"close", "putconn"},
           stage \in [Calls -> Stages], Goto(c, "decide"),
           \/ idle' = idle + 1 /\ UNCHANGED <<lost, quirks>>
           \/ Quirk /\ lost' = lost + 1 /\ UNCHANGED idle
    PROVE  PoolInv'
<1>1. c \in Held /\ Held' = Held \ {c}
  BY DEF Held, Goto, Holding
<1>2. Cardinality(Held') = Cardinality(Held) - 1
  BY <1>1, HeldIsFinite, FS_RemoveElement
<1> QED  BY <1>2, HeldIsFinite DEF PoolInv, ConnectionsAccounted, Held, Quirk

LEMMA StepKeepsPool ==
    ASSUME PoolInv, ServiceInv, NEW c \in Calls, Arrive(c) \/ Step(c)
    PROVE  PoolInv'
<1> USE DEF ServiceInv, ServiceTypeOK
<1>1. CASE Acquire(c)
  <2>1. c \notin Held /\ Held' = Held \cup {c}
    BY <1>1 DEF Acquire, Goto, Held, Holding
  <2>2. Cardinality(Held') = Cardinality(Held) + 1
    BY <2>1, HeldIsFinite, FS_AddElement
  <2> QED  BY <1>1, <2>2, HeldIsFinite DEF Acquire, PoolInv, ConnectionsAccounted, Held
<1>2. CASE CloseUnsafe(c)
  <2>1. CASE Goto(c, "putconn") /\ UNCHANGED <<lost, quirks>>
    BY <1>2, <2>1, KeepsPool DEF CloseUnsafe, Goto, Held, Holding, pool
  <2>2. CASE Quirk /\ lost' = lost + 1 /\ Goto(c, "decide")
    BY <1>2, <2>2, GivesBack DEF CloseUnsafe
  <2> QED  BY <1>2, <2>1, <2>2 DEF CloseUnsafe
<1>3. CASE PutConnection(c)
  BY <1>3, GivesBack DEF PutConnection
<1>4. CASE Arrive(c) \/ StartAttempt(c) \/ Decide(c) \/ Wake(c) \/ AcquireTimesOut(c)
  <2>1. stage[c] \notin Holding /\ UNCHANGED <<pool, quirks>>
    BY <1>4 DEF Arrive, StartAttempt, Decide, Wake, AcquireTimesOut, Holding
  <2>2. \E next \in {"attempt", "acquire", "decide", "sleep", "answered"} :
           stage' = [stage EXCEPT ![c] = next]
    BY <1>4 DEF Arrive, StartAttempt, Decide, Wake, AcquireTimesOut, Reply, Goto
  <2>3. Held' = Held
    BY <2>1, <2>2 DEF Held, Holding
  <2> QED  BY <2>1, <2>3, KeepsPool
<1>5. CASE Begin(c) \/ Execute(c) \/ RollbackFails(c) \/ Commit(c) \/ CommitFails(c)
           \/ Confirm(c)
  <2>1. stage[c] \in Holding /\ UNCHANGED pool
    BY <1>5 DEF Begin, Execute, RollbackFails, Commit, CommitFails, Confirm, Holding
  <2>2. quirks' = quirks \/ Quirk
    BY <1>5 DEF Begin, Execute, RollbackFails, Commit, CommitFails, Confirm
  <2>3. \E next \in Holding : stage' = [stage EXCEPT ![c] = next]
    BY <1>5
    DEF Begin, Execute, RollbackFails, Commit, CommitFails, Confirm, RolledBack, Goto, Holding
  <2>4. Held' = Held
    BY <2>1, <2>3 DEF Held
  <2> QED  BY <2>1, <2>2, <2>4, KeepsPool
<1> QED  BY <1>1, <1>2, <1>3, <1>4, <1>5 DEF Step

\* Connections are in the pool, in use or lost to a failed disposal, for every
\* size of the pool and number of calls (reservation_gateway.py:249-261,
\* newsletter_gateway.py:236-258).
THEOREM ConnectionsKept == Spec => []ConnectionsAccounted
<1>1. Init => PoolInv
  <2> SUFFICES ASSUME Init  PROVE PoolInv
    OBVIOUS
  <2>1. Held = {}
    BY DEF Init, Held, Holding
  <2> QED  BY <2>1, FS_EmptySet, ServiceAssumption DEF Init, PoolInv, ConnectionsAccounted, Held
<1>2. PoolInv /\ ServiceInv /\ [Next]_vars => PoolInv'
  <2> SUFFICES ASSUME PoolInv, ServiceInv, [Next]_vars  PROVE PoolInv'
    OBVIOUS
  <2>1. CASE Tick \/ UNCHANGED vars
    BY <2>1, KeepsPool DEF Tick, vars, calls, Held
  <2> QED  BY <2>1, StepKeepsPool DEF Next, Finished
<1>3. PoolInv => ConnectionsAccounted
  BY DEF PoolInv
<1> QED  BY <1>1, <1>2, <1>3, ServiceInvariant, PTL DEF Spec
-----------------------------------------------------------------------------
(* Progress *)

\* The stages in the order of retry.py and the gateway, with the head of the
\* loop last, after the sleep.
Place(s) ==
    CASE s = "new"     -> 0 [] s = "acquire" -> 2 [] s = "begin"   -> 3
      [] s = "execute" -> 4 [] s = "commit"  -> 5 [] s = "confirm" -> 6
      [] s = "close"   -> 7 [] s = "putconn" -> 8 [] s = "decide"  -> 9
      [] s = "sleep"   -> 10 [] s = "attempt" -> 11 [] OTHER       -> 12

\* How far a call has come: attempts first, then the stage.
Progress(c) == 12 * attempt[c] + Place(stage[c])

\* A call that may start another attempt has one left.
AttemptsBounded ==
    \A c \in Calls :
        /\ attempt[c] <= MaxAttempts
        /\ stage[c] \in {"new", "sleep", "attempt"} => attempt[c] < MaxAttempts

\* Only the passing of time leaves every call where it is.
OneGoesOn ==
    \/ \E c \in Calls : /\ Progress(c)' > Progress(c)
                        /\ \A d \in Calls \ {c} : Progress(d)' = Progress(d)
    \/ Tick /\ \A c \in Calls : Progress(c)' = Progress(c)

LEMMA PassesOn ==
    ASSUME ServiceInv, AttemptsBounded, NEW c \in Calls, Arrive(c) \/ Step(c)
    PROVE  /\ Progress(c)' > Progress(c)
           /\ \A d \in Calls \ {c} : Progress(d)' = Progress(d)
           /\ AttemptsBounded'
<1>1. ServiceTypeOK' /\ Untouched(c)
  BY ArriveOK, StepOK
<1>2. \A d \in Calls \ {c} : Progress(d)' = Progress(d)
  BY <1>1 DEF Untouched, Progress
<1>3. SUFFICES /\ Progress(c)' > Progress(c)
               /\ attempt'[c] <= MaxAttempts
               /\ stage'[c] \in {"new", "sleep", "attempt"} => attempt'[c] < MaxAttempts
  BY <1>1, <1>2 DEF Untouched, AttemptsBounded
<1>4. /\ attempt[c] \in Nat /\ attempt[c] <= MaxAttempts /\ MaxAttempts \in Nat
      /\ stage[c] \in {"new", "sleep", "attempt"} => attempt[c] < MaxAttempts
  BY RetryAssumption DEF ServiceInv, ServiceTypeOK, AttemptsBounded
<1>5. stage \in [Calls -> Stages] /\ attempt \in [Calls -> Nat]
  BY DEF ServiceInv, ServiceTypeOK
<1>6. CASE StartAttempt(c)
  <2>1. /\ stage[c] = "attempt"
        /\ \/ stage' = [stage EXCEPT ![c] = "answered"] /\ attempt' = attempt
           \/ /\ \E next \in {"decide", "acquire"} : stage' = [stage EXCEPT ![c] = next]
              /\ attempt' = [attempt EXCEPT ![c] = @ + 1]
    BY <1>6 DEF StartAttempt, Reply, Goto
  <2> QED  BY <1>4, <1>5, <2>1 DEF Progress, Place
<1>7. CASE Decide(c)
  <2>1. /\ stage[c] = "decide" /\ attempt' = attempt
        /\ \/ stage' = [stage EXCEPT ![c] = "answered"]
           \/ stage' = [stage EXCEPT ![c] = "sleep"] /\ ~(attempt[c] >= MaxAttempts)
    BY <1>7 DEF Decide, Reply, Goto
  <2> QED  BY <1>4, <1>5, <2>1 DEF Progress, Place
<1>8. CASE Arrive(c) \/ Wake(c)
  <2>1. /\ stage[c] \in {"new", "sleep"} /\ attempt' = attempt
        /\ \E next \in {"attempt", "answered"} : stage' = [stage EXCEPT ![c] = next]
    BY <1>8 DEF Arrive, Wake, Reply, Goto
  <2> QED  BY <1>4, <1>5, <2>1 DEF Progress, Place
<1>9. CASE \/ Acquire(c) \/ AcquireTimesOut(c) \/ Begin(c) \/ Execute(c) \/ RollbackFails(c)
           \/ Commit(c) \/ CommitFails(c) \/ Confirm(c) \/ CloseUnsafe(c) \/ PutConnection(c)
  <2> DEFINE Onward(nexts) ==
        /\ attempt' = attempt
        /\ \E next \in nexts : stage' = [stage EXCEPT ![c] = next]
  <2>1. CASE Acquire(c) \/ AcquireTimesOut(c)
    <3>1. stage[c] = "acquire" /\ Onward({"begin", "decide"})
      BY <2>1 DEF Acquire, AcquireTimesOut, Goto
    <3> QED  BY <1>4, <1>5, <3>1 DEF Progress, Place
  <2>2. CASE Begin(c)
    <3>1. stage[c] = "begin" /\ Onward({"execute", "putconn"})
      BY <2>2 DEF Begin, RolledBack, Goto
    <3> QED  BY <1>4, <1>5, <3>1 DEF Progress, Place
  <2>3. CASE Execute(c) \/ RollbackFails(c)
    <3>1. stage[c] \in {"begin", "execute"} /\ Onward({"commit", "putconn", "close"})
      BY <2>3 DEF Execute, RollbackFails, RolledBack, Goto
    <3> QED  BY <1>4, <1>5, <3>1 DEF Progress, Place
  <2>4. CASE Commit(c) \/ CommitFails(c)
    <3>1. stage[c] = "commit" /\ Onward({"confirm", "putconn", "close"})
      BY <2>4 DEF Commit, CommitFails, Goto
    <3> QED  BY <1>4, <1>5, <3>1 DEF Progress, Place
  <2>5. CASE Confirm(c)
    <3>1. stage[c] = "confirm" /\ Onward({"putconn", "close"})
      BY <2>5 DEF Confirm, Goto
    <3> QED  BY <1>4, <1>5, <3>1 DEF Progress, Place
  <2>6. CASE CloseUnsafe(c)
    <3>1. stage[c] = "close" /\ Onward({"putconn", "decide"})
      BY <2>6 DEF CloseUnsafe, Goto
    <3> QED  BY <1>4, <1>5, <3>1 DEF Progress, Place
  <2>7. CASE PutConnection(c)
    <3>1. stage[c] = "putconn" /\ Onward({"decide"})
      BY <2>7 DEF PutConnection, Goto
    <3> QED  BY <1>4, <1>5, <3>1 DEF Progress, Place
  <2> QED  BY <1>9, <2>1, <2>2, <2>3, <2>4, <2>5, <2>6, <2>7
<1> QED  BY <1>6, <1>7, <1>8, <1>9 DEF Step

\* The part of EveryCallAnswered that needs no fairness: every step but the
\* passing of time brings one call further and none back, and no call has
\* further to go than its last attempt, so whatever a call can do it does in
\* a bounded number of steps (retry.py:49-87).
THEOREM CallsAreShort ==
    Spec => /\ [](\A c \in Calls : Progress(c) <= 12 * (MaxAttempts + 1))
            /\ [][OneGoesOn]_vars
<1>1. Init => AttemptsBounded
  BY RetryAssumption DEF Init, AttemptsBounded
<1>2. ASSUME ServiceInv, AttemptsBounded, Tick
      PROVE  AttemptsBounded' /\ \A c \in Calls : Progress(c)' = Progress(c)
  BY <1>2 DEF Tick, AttemptsBounded, Progress
<1>3. ServiceInv /\ AttemptsBounded /\ [Next]_vars => AttemptsBounded' /\ [OneGoesOn]_vars
  <2> SUFFICES ASSUME ServiceInv, AttemptsBounded, [Next]_vars
               PROVE  AttemptsBounded' /\ [OneGoesOn]_vars
    OBVIOUS
  <2>1. CASE UNCHANGED vars
    BY <2>1 DEF vars, calls, AttemptsBounded
  <2>2. ASSUME NEW c \in Calls, Arrive(c) \/ Step(c)  PROVE AttemptsBounded' /\ OneGoesOn
    BY <2>2, PassesOn DEF OneGoesOn
  <2>3. CASE Tick
    BY <1>2, <2>3 DEF OneGoesOn
  <2> QED  BY <2>1, <2>2, <2>3 DEF Next, Finished
<1>4. ServiceInv /\ AttemptsBounded => \A c \in Calls : Progress(c) <= 12 * (MaxAttempts + 1)
  BY RetryAssumption DEF ServiceInv, ServiceTypeOK, AttemptsBounded, Progress, Place
<1> QED  BY <1>1, <1>3, <1>4, ServiceInvariant, PTL DEF Spec
=============================================================================
