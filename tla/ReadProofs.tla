----------------------------- MODULE ReadProofs -----------------------------
(***************************************************************************)
(* Proofs about ReadService for every number of readers, connections,      *)
(* attempts and deadlines: what is shown was true at one instant, a read   *)
(* ends in time, and an outage is told as one.                             *)
(***************************************************************************)
EXTENDS ReadProperties, RuleProofs

-----------------------------------------------------------------------------
(* The inductive invariant *)

ReadStages == {"new", "attempt", "acquire", "begin", "first", "second", "decide", "sleep",
               "answered"}

Results == {"read", "transient", "failed", "contract"}

ReadTypeOK ==
    /\ stage \in [Readers -> ReadStages]
    /\ op \in [Readers -> {"context", "availability", "status", "readiness"}]
    /\ attempt \in [Readers -> Nat]
    /\ left \in [Readers -> Int]
    /\ timer \in [Readers -> Nat]
    /\ limit \in [Readers -> Nat]
    /\ seen \in [Readers -> Seq(Nat)]
    /\ since \in [Readers -> Nat]
    /\ DOMAIN result = Readers
    /\ DOMAIN answer = Readers
    /\ version \in Nat /\ quirks \in Nat

\* What the attempt has read is one version, not older than the request.
SnapshotOK(c) ==
    /\ since[c] =< version
    /\ stage[c] = "new" => seen[c] = <<>>
    /\ \E v \in since[c]..version : \A i \in 1..Len(seen[c]) : seen[c][i] = v

\* No wait is longer than what is left; a second statement may take what was
\* left before the first.
ClockOK(c) ==
    /\ op[c] \in Snapshots => limit[c] =< Deadline /\ left[c] =< Deadline
    /\ stage[c] \in {"attempt", "begin"} => left[c] + quirks >= 0
    /\ stage[c] \in {"acquire", "first", "sleep"} => timer[c] =< left[c] + quirks
    /\ stage[c] = "second" => op[c] \in Snapshots /\ timer[c] =< left[c] + quirks + limit[c]
    /\ stage[c] = "decide" => left[c] + quirks >= IF op[c] \in Snapshots THEN -Deadline ELSE 0

\* An attempt that is over has a result, and the answer is made of it.
ResultOK(c) ==
    /\ stage[c] = "new" => attempt[c] = 0
    /\ stage[c] \in {"new", "attempt"} /\ attempt[c] = 0 => result[c] = "none"
    /\ stage[c] \notin {"new", "attempt", "answered"} => attempt[c] > 0
    /\ stage[c] \in {"decide", "sleep"} \/ (stage[c] = "attempt" /\ attempt[c] > 0)
          => result[c] \in Results
    /\ stage[c] = "answered" =>
          \/ attempt[c] = 0 /\ result[c] = "none" /\ answer[c] \in RefusalCodes
          \/ attempt[c] > 0 /\ result[c] \in Results /\ answer[c] = AnswerFor(c, result[c])

ReaderOK(c) == SnapshotOK(c) /\ ClockOK(c) /\ ResultOK(c)

ReadInv == ReadTypeOK /\ \A c \in Readers : ReaderOK(c)

Others(c) ==
    /\ \A d \in Readers \ {c} :
          /\ stage'[d] = stage[d] /\ op'[d] = op[d] /\ attempt'[d] = attempt[d]
          /\ left'[d] = left[d] /\ timer'[d] = timer[d] /\ limit'[d] = limit[d]
          /\ seen'[d] = seen[d] /\ since'[d] = since[d]
          /\ result'[d] = result[d] /\ answer'[d] = answer[d]
    /\ UNCHANGED <<version, quirks>>

\* The goal of every step of a reader.
LEMMA StepKeeps ==
    ASSUME ReadInv, NEW c \in Readers, ReadTypeOK', Others(c), ReaderOK(c)'
    PROVE  ReadInv'
<1>1. ASSUME NEW d \in Readers \ {c}  PROVE ReaderOK(d)'
  <2>1. SnapshotOK(d)'
    BY DEF Others, SnapshotOK, ReadInv, ReaderOK
  <2>2. ClockOK(d)'
    BY DEF Others, ClockOK, ReadInv, ReaderOK
  <2>3. ResultOK(d)'
    BY DEF Others, ResultOK, AnswerFor, ReadInv, ReaderOK
  <2> QED  BY <2>1, <2>2, <2>3 DEF ReaderOK
<1> QED  BY <1>1 DEF ReadInv

LEMMA InitRead == Init => ReadInv
<1> SUFFICES ASSUME Init  PROVE ReadInv
  OBVIOUS
<1>1. ReadTypeOK
  BY ReadAssumption DEF Init, ReadTypeOK, ReadStages
<1>2. ASSUME NEW c \in Readers  PROVE ReaderOK(c)
  <2>1. SnapshotOK(c)
    <3>1. 0 \in since[c]..version /\ Len(seen[c]) = 0
      BY DEF Init
    <3> QED  BY <3>1 DEF Init, SnapshotOK
  <2> QED  BY <2>1, ReadAssumption DEF Init, ReaderOK, ClockOK, ResultOK
<1> QED  BY <1>1, <1>2 DEF ReadInv

LEMMA TranslateIs ==
    ASSUME NEW error, NEW acquired
    PROVE  Translate(error, acquired) \in {"transient", "failed", "contract"}
BY DEF Translate, Unavailable

LEMMA LesserOf ==
    ASSUME NEW a \in Nat, NEW b \in Nat
    PROVE  Min({a, b}) \in Nat /\ Min({a, b}) =< b
<1>1. \E x \in {a, b} : \A y \in {a, b} : x =< y
  OBVIOUS
<1> QED  BY <1>1 DEF Min

LEMMA Types ==
    ASSUME ReadInv, NEW c \in Readers
    PROVE  /\ left[c] \in Int /\ timer[c] \in Nat /\ limit[c] \in Nat
           /\ attempt[c] \in Nat /\ since[c] \in Nat /\ quirks \in Nat /\ version \in Nat
           /\ SnapshotOK(c) /\ ClockOK(c) /\ ResultOK(c)
BY DEF ReadInv, ReadTypeOK, ReaderOK

-----------------------------------------------------------------------------
(* The steps *)

LEMMA SameSnapshot ==
    ASSUME ReadInv, NEW c \in Readers, seen'[c] = seen[c], since'[c] = since[c],
           version' = version, stage'[c] # "new"
    PROVE  SnapshotOK(c)'
<1>1. PICK v \in since[c]..version : \A i \in 1..Len(seen[c]) : seen[c][i] = v
  BY DEF ReadInv, ReaderOK, SnapshotOK
<1>2. v \in since'[c]..version' /\ \A i \in 1..Len(seen'[c]) : seen'[c][i] = v
  BY <1>1
<1>3. since'[c] =< version'
  BY DEF ReadInv, ReaderOK, SnapshotOK
<1> QED  BY <1>2, <1>3 DEF SnapshotOK

\* An answer made of the result of an attempt.
LEMMA ReplyOK ==
    ASSUME ReadInv, NEW c \in Readers, attempt[c] > 0, result[c] \in Results,
           stage[c] # "new",
           Reply(c, AnswerFor(c, result[c])),
           UNCHANGED <<op, attempt, limit, seen, since, result, version, quirks>>
    PROVE  ReadInv'
<1> USE DEF ReadInv, ReadTypeOK
<1>1. ReadTypeOK' /\ Others(c)
  BY DEF Reply, Goto, Start, ReadStages, Others
<1>2. stage'[c] = "answered" /\ left'[c] = 0
  BY DEF Reply, Goto
<1>3. SnapshotOK(c)'
  BY <1>2, SameSnapshot
<1>4. ClockOK(c)'
  BY <1>2, ReadAssumption DEF ClockOK, ReaderOK
<1>5. ResultOK(c)'
  BY <1>2 DEF ResultOK, ReaderOK, Reply, AnswerFor
<1> QED  BY <1>1, <1>3, <1>4, <1>5, StepKeeps DEF ReaderOK

LEMMA ArriveOK ==
    ASSUME ReadInv, NEW c \in Readers, Arrive(c)
    PROVE  ReadInv'
<1> USE DEF ReadInv, ReadTypeOK
<1>1. PICK request \in Requests[op[c]] :
          IF Refusal(request) # "none"
          THEN Reply(c, Refusal(request))
          ELSE /\ left' = [left EXCEPT ![c] =
                              IF op[c] = "readiness" THEN ReadinessDeadline ELSE Deadline]
               /\ Goto(c, "attempt")
               /\ UNCHANGED <<timer, answer>>
  BY DEF Arrive
<1>2. /\ stage[c] = "new" /\ since' = [since EXCEPT ![c] = version]
      /\ UNCHANGED <<op, attempt, limit, seen, result, version, quirks>>
  BY DEF Arrive
<1>3. ReadTypeOK' /\ Others(c)
  <2>1. /\ left' \in [Readers -> Int] /\ timer' \in [Readers -> Nat]
        /\ \A d \in Readers \ {c} : left'[d] = left[d] /\ timer'[d] = timer[d]
    <3>1. CASE Refusal(request) # "none"
      <4>1. left' = [left EXCEPT ![c] = 0] /\ timer' = [timer EXCEPT ![c] = 0]
        BY <1>1, <3>1 DEF Reply, Start
      <4> QED  BY <4>1
    <3>2. CASE Refusal(request) = "none"
      <4>1. PICK time \in Int : left' = [left EXCEPT ![c] = time] /\ timer' = timer
        BY <1>1, <3>2, ReadAssumption
      <4> QED  BY <4>1
    <3> QED  BY <3>1, <3>2
  <2>2. /\ stage' \in [Readers -> ReadStages] /\ DOMAIN answer' = Readers
        /\ \A d \in Readers \ {c} : stage'[d] = stage[d] /\ answer'[d] = answer[d]
    <3>1. CASE Refusal(request) # "none"
      <4>1. /\ stage' = [stage EXCEPT ![c] = "answered"]
            /\ answer' = [answer EXCEPT ![c] = Refusal(request)]
        BY <1>1, <3>1 DEF Reply, Goto
      <4> QED  BY <4>1 DEF ReadStages
    <3>2. CASE Refusal(request) = "none"
      <4>1. stage' = [stage EXCEPT ![c] = "attempt"] /\ answer' = answer
        BY <1>1, <3>2 DEF Goto
      <4> QED  BY <4>1 DEF ReadStages
    <3> QED  BY <3>1, <3>2
  <2>3. /\ since' \in [Readers -> Nat]
        /\ \A d \in Readers \ {c} : since'[d] = since[d]
    BY <1>2
  <2> QED  BY <1>2, <2>1, <2>2, <2>3 DEF Others
<1>4. stage'[c] \in {"attempt", "answered"}
  BY <1>1 DEF Reply, Goto
<1>5. SnapshotOK(c)'
  <2>1. seen'[c] = <<>> /\ since'[c] = version /\ version' = version
    BY <1>2 DEF ReaderOK, SnapshotOK
  <2>2. version \in since'[c]..version' /\ Len(seen'[c]) = 0
    BY <2>1
  <2> QED  BY <1>4, <2>1, <2>2 DEF SnapshotOK
<1>6. ClockOK(c)'
  BY <1>1, <1>2, <1>4, ReadAssumption DEF ClockOK, ReaderOK, Reply, Goto, Start, Snapshots
<1>7. ResultOK(c)'
  <2>1. attempt'[c] = 0 /\ result'[c] = "none"
    BY <1>2 DEF ReaderOK, ResultOK
  <2>2. stage'[c] = "answered" => answer'[c] \in RefusalCodes
    BY <1>1, Refusals DEF Reply, Goto
  <2> QED  BY <1>4, <2>1, <2>2 DEF ResultOK
<1> QED  BY <1>3, <1>5, <1>6, <1>7, StepKeeps DEF ReaderOK

\* A failure that ends the attempt before a connection is had.
LEMMA NoConnectionOK ==
    ASSUME ReadInv, NEW c \in Readers, NEW error, Keep(c, Translate(error, FALSE)),
           Goto(c, "decide"), left[c] + quirks >= 0,
           attempt' = [attempt EXCEPT ![c] = @ + 1] \/ (UNCHANGED attempt /\ attempt[c] > 0),
           Start(c, 0) \/ UNCHANGED timer,
           UNCHANGED <<op, left, limit, seen, since, answer, version, quirks>>
    PROVE  ReadInv'
<1> USE DEF ReadInv, ReadTypeOK
<1>1. ReadTypeOK' /\ Others(c)
  <2>1. /\ attempt' \in [Readers -> Nat]
        /\ \A d \in Readers \ {c} : attempt'[d] = attempt[d]
    <3>1. CASE attempt' = [attempt EXCEPT ![c] = @ + 1]
      BY <3>1
    <3>2. CASE UNCHANGED attempt
      BY <3>2
    <3> QED  BY <3>1, <3>2
  <2>4. /\ timer' \in [Readers -> Nat]
         /\ \A d \in Readers \ {c} : timer'[d] = timer[d]
    <3>1. CASE timer' = [timer EXCEPT ![c] = 0]
      BY <3>1
    <3>2. CASE UNCHANGED timer
      BY <3>2
    <3> QED  BY <3>1, <3>2 DEF Start
  <2>2. stage' \in [Readers -> ReadStages] /\ DOMAIN result' = Readers
    BY DEF Keep, Goto, ReadStages
  <2>3. \A d \in Readers \ {c} : stage'[d] = stage[d] /\ result'[d] = result[d]
    BY DEF Keep, Goto
  <2> QED  BY <2>1, <2>2, <2>3, <2>4 DEF Others
<1>2. stage'[c] = "decide" /\ attempt'[c] > 0
  <2>1. attempt'[c] > 0
    <3>1. CASE attempt' = [attempt EXCEPT ![c] = @ + 1]
      BY <3>1, Types
    <3>2. CASE UNCHANGED attempt /\ attempt[c] > 0
      BY <3>2
    <3> QED  BY <3>1, <3>2
  <2> QED  BY <2>1 DEF Goto
<1>3. result'[c] \in Results
  BY TranslateIs DEF Keep, Results
<1>4. SnapshotOK(c)'
  BY <1>2, SameSnapshot
<1>5. ClockOK(c)'
  <2>1. /\ op'[c] = op[c] /\ limit'[c] = limit[c]
        /\ left'[c] = left[c] /\ quirks' = quirks
    OBVIOUS
  <2>2. left'[c] + quirks' >= IF op'[c] \in Snapshots THEN -Deadline ELSE 0
    <3>1. left[c] \in Int /\ quirks \in Nat /\ Deadline \in Nat
      BY ReadAssumption
    <3>2. left[c] + quirks >= -Deadline
      BY <3>1
    <3> QED  BY <2>1, <3>2
  <2>3. op'[c] \in Snapshots => limit'[c] =< Deadline /\ left'[c] =< Deadline
    BY <2>1, Types DEF ClockOK
  <2> QED  BY <1>2, <2>2, <2>3 DEF ClockOK
<1>6. ResultOK(c)'
  BY <1>2, <1>3 DEF ResultOK
<1> QED  BY <1>1, <1>4, <1>5, <1>6, StepKeeps DEF ReaderOK

LEMMA StartAttemptOK ==
    ASSUME ReadInv, NEW c \in Readers, StartAttempt(c)
    PROVE  ReadInv'
<1> USE DEF ReadInv, ReadTypeOK
<1>1. /\ stage[c] = "attempt" /\ left[c] + quirks >= 0
      /\ UNCHANGED <<op, limit, seen, since, version, quirks>>
  BY DEF StartAttempt, ReaderOK, ClockOK
<1>2. CASE Hopeless(attempt[c], left[c])
  <2>1. Reply(c, AnswerFor(c, result[c])) /\ UNCHANGED <<attempt, result>>
    BY <1>2 DEF StartAttempt
  <2>2. attempt[c] > 0 /\ result[c] \in Results
    BY <1>1, <1>2 DEF Hopeless, ReaderOK, ResultOK
  <2> QED  BY <1>1, <2>1, <2>2, ReplyOK
<1>3. CASE ~Hopeless(attempt[c], left[c]) /\ left[c] =< 0
  <2>1. /\ Keep(c, Translate(TimedOut, FALSE)) /\ Goto(c, "decide")
        /\ attempt' = [attempt EXCEPT ![c] = @ + 1]
        /\ UNCHANGED <<timer, left, answer>>
    BY <1>3 DEF StartAttempt
  <2> QED  BY <1>1, <2>1, NoConnectionOK
<1>4. CASE ~Hopeless(attempt[c], left[c]) /\ ~(left[c] =< 0)
  <2> DEFINE time == IF op[c] = "readiness" THEN left[c] ELSE Min({AcquireTimeout, left[c]})
  <2>1. /\ timer' = [timer EXCEPT ![c] = time] /\ stage' = [stage EXCEPT ![c] = "acquire"]
        /\ attempt' = [attempt EXCEPT ![c] = @ + 1]
        /\ UNCHANGED <<result, left, answer>>
    BY <1>4 DEF StartAttempt, Start, Goto
  <2>2. time \in Nat /\ time =< left[c]
    <3>1. AcquireTimeout \in Nat /\ left[c] \in Nat
      BY <1>4, Types, ReadAssumption
    <3>2. Min({AcquireTimeout, left[c]}) \in Nat /\ Min({AcquireTimeout, left[c]}) =< left[c]
      BY <3>1, LesserOf
    <3> QED  BY <3>1, <3>2
  <2> HIDE DEF time
  <2>3. ReadTypeOK' /\ Others(c)
    BY <1>1, <2>1, <2>2 DEF ReadStages, Others
  <2>4. stage'[c] = "acquire" /\ timer'[c] =< left'[c] /\ attempt'[c] > 0
    BY <2>1, <2>2
  <2>5. SnapshotOK(c)'
    BY <1>1, <2>4, SameSnapshot
  <2>6. ClockOK(c)'
    BY <1>1, <2>1, <2>3, <2>4, Types DEF ClockOK
  <2>7. ResultOK(c)'
    BY <2>4 DEF ResultOK
  <2> QED  BY <2>3, <2>5, <2>6, <2>7, StepKeeps DEF ReaderOK
<1> QED  BY <1>2, <1>3, <1>4

LEMMA AcquireOK ==
    ASSUME ReadInv, NEW c \in Readers, Acquire(c)
    PROVE  ReadInv'
<1> USE DEF ReadInv, ReadTypeOK
<1>1. /\ stage[c] = "acquire" /\ Goto(c, "begin") /\ Start(c, 0)
      /\ UNCHANGED <<op, attempt, left, limit, seen, since, result, answer, version, quirks>>
  BY DEF Acquire
<1>2. ReadTypeOK' /\ Others(c)
  BY <1>1 DEF Goto, Start, ReadStages, Others
<1>3. stage'[c] = "begin"
  BY <1>1 DEF Goto
<1>4. SnapshotOK(c)'
  BY <1>1, <1>3, SameSnapshot
<1>5. ClockOK(c)'
  BY <1>1, <1>3, Types DEF ClockOK
<1>6. ResultOK(c)'
  BY <1>1, <1>3, Types DEF ResultOK
<1> QED  BY <1>2, <1>4, <1>5, <1>6, StepKeeps DEF ReaderOK

LEMMA AcquireFailsOK ==
    ASSUME ReadInv, NEW c \in Readers, AcquireFails(c)
    PROVE  ReadInv'
<1>1. left[c] + quirks >= 0 /\ attempt[c] > 0
  BY Types DEF AcquireFails, ClockOK, ResultOK
<1>2. /\ Keep(c, Translate(PoolTimeout, FALSE)) /\ Goto(c, "decide") /\ Start(c, 0)
      /\ UNCHANGED <<op, attempt, left, limit, seen, since, answer, version, quirks>>
  BY DEF AcquireFails, pool
<1> QED  BY <1>1, <1>2, NoConnectionOK

\* The end of an attempt that had a connection.
LEMMA FinishOK ==
    ASSUME ReadInv, NEW c \in Readers, NEW outcome \in Results, NEW lost,
           Finish(c, outcome, lost), stage[c] \in {"begin", "first", "second"},
           left[c] + quirks >= IF op[c] \in Snapshots THEN -Deadline ELSE 0,
           UNCHANGED <<op, attempt, left, since, answer, version, quirks>>
    PROVE  ReadInv'
<1> USE DEF ReadInv, ReadTypeOK
<1>1. PICK rows \in {seen[c], <<>>} : seen' = [seen EXCEPT ![c] = rows]
  BY DEF Finish
<1>2. /\ stage' = [stage EXCEPT ![c] = "decide"] /\ result' = [result EXCEPT ![c] = outcome]
      /\ timer' = [timer EXCEPT ![c] = 0] /\ limit' = [limit EXCEPT ![c] = 0]
  BY DEF Finish, Goto, Keep, Start
<1>3. rows \in Seq(Nat)
  <2>1. <<>> \in Seq(Nat) /\ seen[c] \in Seq(Nat)
    OBVIOUS
  <2> QED  BY <2>1
<1>4. ReadTypeOK'
  BY <1>1, <1>2, <1>3 DEF ReadStages
<1>5. Others(c)
  BY <1>1, <1>2 DEF Others
<1>6. SnapshotOK(c)'
  <2>1. CASE rows = seen[c]
    BY <1>1, <1>2, <2>1, SameSnapshot
  <2>2. CASE rows = <<>>
    <3>1. /\ seen'[c] = <<>> /\ version' = version /\ since'[c] = since[c]
          /\ since[c] =< version /\ stage'[c] = "decide"
      BY <1>1, <1>2, <2>2, Types DEF SnapshotOK
    <3>2. version \in since'[c]..version' /\ Len(seen'[c]) = 0
      BY <3>1
    <3> QED  BY <3>1, <3>2 DEF SnapshotOK
  <2> QED  BY <2>1, <2>2
<1>7. ClockOK(c)'
  BY <1>2, Types, ReadAssumption DEF ClockOK
<1>8. ResultOK(c)'
  BY <1>2, Types DEF ResultOK
<1> QED  BY <1>4, <1>5, <1>6, <1>7, <1>8, StepKeeps DEF ReaderOK

\* A statement that takes no more than its time leaves no more than a second
\* statement's time overdrawn.
LEMMA StatementBound ==
    ASSUME ReadInv, NEW c \in Readers, stage[c] \in {"begin", "first", "second"}
    PROVE  left[c] + quirks >= IF op[c] \in Snapshots THEN -Deadline ELSE 0
BY Types, ReadAssumption DEF ClockOK

LEMMA BeginOK ==
    ASSUME ReadInv, NEW c \in Readers, Begin(c)
    PROVE  ReadInv'
<1> USE DEF ReadInv, ReadTypeOK
<1>1. /\ stage[c] = "begin"
      /\ UNCHANGED <<op, attempt, left, since, answer, version, quirks>>
  BY DEF Begin
<1>2. CASE Finish(c, Translate(TimedOut, TRUE), FALSE)
  <2>1. Translate(TimedOut, TRUE) \in Results
    BY TranslateIs DEF Results
  <2> QED  BY <1>1, <1>2, <2>1, FinishOK, StatementBound
<1>3. CASE ~Finish(c, Translate(TimedOut, TRUE), FALSE)
  <2>1. /\ left[c] >= 1 /\ seen' = [seen EXCEPT ![c] = <<version>>]
        /\ timer' = [timer EXCEPT ![c] = left[c]] /\ limit' = [limit EXCEPT ![c] = left[c]]
        /\ stage' = [stage EXCEPT ![c] = "first"] /\ UNCHANGED result
    BY <1>3 DEF Begin, Start, Goto, StatementTime
  <2>2. left[c] \in Nat /\ <<version>> \in Seq(Nat)
    BY <2>1
  <2>3. ReadTypeOK'
    BY <1>1, <2>1, <2>2 DEF ReadStages
  <2>4. Others(c)
    BY <1>1, <2>1 DEF Others
  <2>5. SnapshotOK(c)'
    <3>1. /\ seen'[c] = <<version>> /\ version' = version /\ since'[c] = since[c]
          /\ since[c] =< version /\ stage'[c] = "first"
      BY <1>1, <2>1, Types DEF SnapshotOK
    <3>2. version \in since'[c]..version' /\ Len(seen'[c]) = 1 /\ seen'[c][1] = version
      BY <3>1
    <3>3. \A i \in 1..Len(seen'[c]) : seen'[c][i] = version
      BY <3>2
    <3> QED  BY <3>1, <3>2, <3>3 DEF SnapshotOK
  <2>6. ClockOK(c)'
    BY <1>1, <2>1, <2>3, Types DEF ClockOK
  <2>7. ResultOK(c)'
    BY <1>1, <2>1, Types DEF ResultOK
  <2> QED  BY <2>3, <2>4, <2>5, <2>6, <2>7, StepKeeps DEF ReaderOK
<1> QED  BY <1>2, <1>3

LEMMA FirstReadOK ==
    ASSUME ReadInv, NEW c \in Readers, FirstRead(c)
    PROVE  ReadInv'
<1> USE DEF ReadInv, ReadTypeOK
<1>1. /\ stage[c] = "first" /\ op[c] \in Snapshots
      /\ seen' = [seen EXCEPT ![c] = Append(seen[c], Snapshot(c))]
      /\ timer' = [timer EXCEPT ![c] = limit[c]]
      /\ stage' = [stage EXCEPT ![c] = "second"]
      /\ UNCHANGED <<op, attempt, left, limit, since, result, answer, version, quirks>>
  BY DEF FirstRead, Start, Goto
<1>2. PICK v \in since[c]..version : \A i \in 1..Len(seen[c]) : seen[c][i] = v
  BY Types DEF SnapshotOK
<1>3. PICK w \in since[c]..version :
          Snapshot(c) = w /\ \A i \in 1..Len(seen[c]) : seen[c][i] = w
  <2>1. CASE Len(seen[c]) > 0
    <3>1. seen[c][1] = v
      BY <1>2, <2>1
    <3> QED  BY <1>2, <2>1, <3>1 DEF Snapshot
  <2>2. CASE ~(Len(seen[c]) > 0)
    <3>1. Snapshot(c) = version /\ version \in since[c]..version
      BY <2>2, Types DEF Snapshot, SnapshotOK
    <3>2. seen[c] \in Seq(Nat)
      OBVIOUS
    <3>3. Len(seen[c]) = 0
      BY <2>2, <3>2
    <3>4. \A i \in 1..Len(seen[c]) : seen[c][i] = version
      BY <3>3
    <3> QED  BY <3>1, <3>4
  <2> QED  BY <2>1, <2>2
<1>4. ReadTypeOK'
  <2>1. Append(seen[c], Snapshot(c)) \in Seq(Nat)
    BY <1>3
  <2> QED  BY <1>1, <2>1 DEF ReadStages
<1>5. Others(c)
  BY <1>1 DEF Others
<1>6. SnapshotOK(c)'
  <2>1. /\ seen'[c] = Append(seen[c], w) /\ version' = version /\ since'[c] = since[c]
        /\ since[c] =< version /\ stage'[c] = "second"
    BY <1>1, <1>3, Types DEF SnapshotOK
  <2>2. \A i \in 1..Len(seen'[c]) : seen'[c][i] = w
    BY <1>3, <2>1
  <2>3. w \in since'[c]..version'
    BY <1>3, <2>1
  <2> QED  BY <2>1, <2>2, <2>3 DEF SnapshotOK
<1>7. ClockOK(c)'
  <2>1. left[c] + quirks >= 0
    BY <1>1, Types DEF ClockOK
  <2>2. /\ stage'[c] = "second" /\ timer'[c] = limit'[c] /\ limit'[c] = limit[c]
        /\ left'[c] = left[c] /\ op'[c] = op[c] /\ quirks' = quirks
    BY <1>1
  <2> QED  BY <1>1, <2>1, <2>2, Types DEF ClockOK
<1>8. ResultOK(c)'
  BY <1>1, Types DEF ResultOK
<1> QED  BY <1>4, <1>5, <1>6, <1>7, <1>8, StepKeeps DEF ReaderOK

LEMMA StatementsEndOK ==
    ASSUME ReadInv, NEW c \in Readers,
           LastRead(c) \/ StatementFails(c) \/ StatementTimesOut(c)
    PROVE  ReadInv'
<1>1. /\ stage[c] \in {"first", "second"}
      /\ UNCHANGED <<op, attempt, left, since, answer, version, quirks>>
      /\ \E outcome \in Results, lost \in BOOLEAN : Finish(c, outcome, lost)
  <2>1. CASE LastRead(c)
    BY <2>1 DEF LastRead, Results
  <2>2. CASE StatementFails(c)
    BY <2>2, TranslateIs DEF StatementFails, Results
  <2>3. CASE StatementTimesOut(c)
    BY <2>3, TranslateIs DEF StatementTimesOut, Results
  <2> QED  BY <2>1, <2>2, <2>3
<1> QED  BY <1>1, FinishOK, StatementBound

LEMMA DecideOK ==
    ASSUME ReadInv, NEW c \in Readers, Decide(c)
    PROVE  ReadInv'
<1> USE DEF ReadInv, ReadTypeOK
<1>1. /\ stage[c] = "decide" /\ attempt[c] > 0 /\ result[c] \in Results
      /\ UNCHANGED <<op, attempt, limit, seen, since, result, version, quirks>>
  BY Types DEF Decide, ResultOK
<1>2. CASE Reply(c, AnswerFor(c, result[c]))
  BY <1>1, <1>2, ReplyOK
<1>3. CASE ~Reply(c, AnswerFor(c, result[c]))
  <2>1. PICK delay \in Delays :
           /\ ~Hopeless(attempt[c], left[c] - delay)
           /\ Start(c, delay) /\ Goto(c, "sleep") /\ UNCHANGED <<left, answer>>
    BY <1>3 DEF Decide
  <2>2. delay \in Nat /\ delay =< left[c]
    BY <1>1, <2>1, RetryAssumption, Types DEF Hopeless
  <2>3. /\ timer' = [timer EXCEPT ![c] = delay] /\ stage' = [stage EXCEPT ![c] = "sleep"]
        /\ UNCHANGED <<left, answer>>
    BY <2>1 DEF Start, Goto
  <2>4. ReadTypeOK'
    BY <1>1, <2>2, <2>3 DEF ReadStages
  <2>5. Others(c)
    BY <1>1, <2>3 DEF Others
  <2>6. SnapshotOK(c)'
    BY <1>1, <2>3, SameSnapshot
  <2>7. ClockOK(c)'
    BY <1>1, <2>2, <2>3, <2>4, Types DEF ClockOK
  <2>8. ResultOK(c)'
    BY <1>1, <2>3, Types DEF ResultOK
  <2> QED  BY <2>4, <2>5, <2>6, <2>7, <2>8, StepKeeps DEF ReaderOK
<1> QED  BY <1>2, <1>3

LEMMA WakeOK ==
    ASSUME ReadInv, NEW c \in Readers, Wake(c)
    PROVE  ReadInv'
<1> USE DEF ReadInv, ReadTypeOK
<1>1. /\ stage[c] = "sleep" /\ timer[c] = 0 /\ attempt[c] > 0 /\ result[c] \in Results
      /\ UNCHANGED <<op, attempt, limit, seen, since, result, version, quirks>>
  BY Types DEF Wake, ResultOK
<1>2. CASE Hopeless(attempt[c], left[c])
  <2>1. Reply(c, AnswerFor(c, result[c]))
    BY <1>2 DEF Wake
  <2> QED  BY <1>1, <2>1, ReplyOK
<1>3. CASE ~Hopeless(attempt[c], left[c])
  <2>1. stage' = [stage EXCEPT ![c] = "attempt"] /\ UNCHANGED <<left, timer, answer>>
    BY <1>3 DEF Wake, Goto
  <2>2. ReadTypeOK'
    BY <1>1, <2>1 DEF ReadStages
  <2>3. Others(c)
    BY <1>1, <2>1 DEF Others
  <2>4. SnapshotOK(c)'
    BY <1>1, <2>1, SameSnapshot
  <2>5. ClockOK(c)'
    BY <1>1, <2>1, <2>2, Types DEF ClockOK
  <2>6. ResultOK(c)'
    BY <1>1, <2>1, Types DEF ResultOK
  <2> QED  BY <2>2, <2>3, <2>4, <2>5, <2>6, StepKeeps DEF ReaderOK
<1> QED  BY <1>2, <1>3

LEMMA Shift ==
    ASSUME NEW t \in Int, NEW l \in Int, NEW q \in Int, NEW m \in Int,
           NEW t2 \in Int, NEW l2 \in Int, NEW q2 \in Int, t =< l + q + m,
           \/ t2 =< t /\ l2 + q2 >= l + q
           \/ t2 = t - 1 /\ l2 + q2 = l + q - 1
    PROVE  t2 =< l2 + q2 + m
OBVIOUS

\* The clock of a reader that stays where it is, while time passes or not.
LEMMA ClockKept ==
    ASSUME ReadInv, NEW c \in Readers,
           stage'[c] = stage[c], op'[c] = op[c], limit'[c] = limit[c],
           left'[c] \in Int, left'[c] =< left[c], timer'[c] \in Nat, quirks' \in Nat,
           \/ timer'[c] =< timer[c] /\ left'[c] + quirks' >= left[c] + quirks
           \/ /\ timer'[c] = timer[c] - 1 /\ left'[c] + quirks' = left[c] + quirks - 1
              /\ stage[c] \in {"sleep", "first", "second", "acquire"}
           \/ stage[c] \in {"new", "answered"}
    PROVE  ClockOK(c)'
<1>1. Deadline \in Nat
  BY ReadAssumption
<1>2. op'[c] \in Snapshots => limit'[c] =< Deadline /\ left'[c] =< Deadline
  BY <1>1, Types DEF ClockOK
<1>3. stage'[c] \in {"attempt", "begin"} => left'[c] + quirks' >= 0
  BY Types DEF ClockOK
<1>4. stage'[c] \in {"acquire", "first", "sleep"} => timer'[c] =< left'[c] + quirks'
  BY Types DEF ClockOK
<1>5. stage'[c] = "second" =>
        op'[c] \in Snapshots /\ timer'[c] =< left'[c] + quirks' + limit'[c]
  <2> SUFFICES ASSUME stage[c] = "second"
               PROVE  op[c] \in Snapshots /\ timer'[c] =< left'[c] + quirks' + limit[c]
    OBVIOUS
  <2>1. op[c] \in Snapshots /\ timer[c] =< left[c] + quirks + limit[c]
    BY Types DEF ClockOK
  <2>2. /\ timer[c] \in Int /\ left[c] \in Int /\ quirks \in Int /\ limit[c] \in Int
        /\ timer'[c] \in Int /\ quirks' \in Int
    BY Types
  <2> QED  BY <2>1, <2>2, Shift
<1>6. stage'[c] = "decide" =>
        left'[c] + quirks' >= IF op'[c] \in Snapshots THEN -Deadline ELSE 0
  <2> DEFINE low == IF op[c] \in Snapshots THEN -Deadline ELSE 0
  <2> SUFFICES ASSUME stage[c] = "decide"  PROVE left'[c] + quirks' >= low
    OBVIOUS
  <2>1. left[c] + quirks >= low /\ low \in Int
    BY <1>1, Types DEF ClockOK
  <2>2. left'[c] + quirks' >= left[c] + quirks
    OBVIOUS
  <2> HIDE DEF low
  <2> QED  BY <2>1, <2>2, Types
<1> QED  BY <1>2, <1>3, <1>4, <1>5, <1>6 DEF ClockOK

\* What happens beside the readers only raises the version or the quirks.
LEMMA BesideOK ==
    ASSUME ReadInv, UNCHANGED calls, version' \in Nat, version' >= version,
           quirks' \in Nat, quirks' >= quirks
    PROVE  ReadInv'
<1> USE DEF ReadInv, ReadTypeOK, calls
<1>1. ASSUME NEW c \in Readers  PROVE ReaderOK(c)'
  <2>1. /\ stage'[c] = stage[c] /\ op' = op /\ attempt'[c] = attempt[c]
        /\ left'[c] = left[c] /\ timer'[c] = timer[c] /\ limit'[c] = limit[c]
        /\ seen'[c] = seen[c] /\ since'[c] = since[c]
        /\ result'[c] = result[c] /\ answer'[c] = answer[c]
    OBVIOUS
  <2>2. SnapshotOK(c)'
    <3>1. PICK v \in since[c]..version : \A i \in 1..Len(seen[c]) : seen[c][i] = v
      BY Types DEF SnapshotOK
    <3>2. v \in since'[c]..version' /\ since'[c] =< version'
      BY <2>1, <3>1, Types DEF SnapshotOK
    <3>3. stage'[c] = "new" => seen'[c] = <<>>
      BY <2>1, Types DEF SnapshotOK
    <3>4. \A i \in 1..Len(seen'[c]) : seen'[c][i] = v
      BY <2>1, <3>1
    <3> QED  BY <3>2, <3>3, <3>4 DEF SnapshotOK
  <2>3. ClockOK(c)'
    <3>1. left'[c] + quirks' >= left[c] + quirks
      BY <2>1, Types
    <3>2. timer'[c] =< timer[c] /\ timer'[c] \in Nat
      BY <2>1, Types
    <3>3. left'[c] =< left[c] /\ left'[c] \in Int
      BY <2>1, Types
    <3> QED  BY <2>1, <3>1, <3>2, <3>3, ClockKept
  <2>4. ResultOK(c)'
    BY <2>1, Types DEF ResultOK, AnswerFor
  <2> QED  BY <2>2, <2>3, <2>4 DEF ReaderOK
<1>2. ReadTypeOK'
  OBVIOUS
<1> QED  BY <1>1, <1>2

LEMMA TickOK ==
    ASSUME ReadInv, Tick
    PROVE  ReadInv'
<1> USE DEF ReadInv, ReadTypeOK
<1>1. /\ left' = [c \in Readers |-> IF Active(c) THEN left[c] - 1 ELSE left[c]]
      /\ timer' = [c \in Readers |-> IF Active(c) THEN Less(timer[c]) ELSE timer[c]]
      /\ UNCHANGED <<stage, op, attempt, limit, seen, since, result, answer, version>>
      /\ \/ (\A c \in Readers : Active(c) => Waiting(c)) /\ quirks' = quirks
         \/ quirks' = quirks + 1
  BY DEF Tick, Quirk
<1>2. ReadTypeOK'
  <2>1. left' \in [Readers -> Int] /\ timer' \in [Readers -> Nat]
    <3>1. ASSUME NEW c \in Readers
          PROVE  /\ left[c] - 1 \in Int /\ left[c] \in Int
                 /\ Less(timer[c]) \in Nat /\ timer[c] \in Nat
      BY Types DEF Less
    <3> QED  BY <1>1, <3>1
  <2> QED  BY <1>1, <2>1
<1>3. ASSUME NEW c \in Readers  PROVE ReaderOK(c)'
  <2>1. SnapshotOK(c)'
    <3>1. PICK v \in since[c]..version : \A i \in 1..Len(seen[c]) : seen[c][i] = v
      BY Types DEF SnapshotOK
    <3>2. v \in since'[c]..version' /\ seen' = seen /\ stage' = stage
      BY <1>1, <3>1
    <3>3. since'[c] =< version' /\ (stage[c] = "new" => seen[c] = <<>>)
      BY <1>1, Types DEF SnapshotOK
    <3> QED  BY <3>1, <3>2, <3>3 DEF SnapshotOK
  <2>2. ResultOK(c)'
    BY <1>1, Types DEF ResultOK, AnswerFor
  <2>3. ClockOK(c)'
    <3>1. /\ stage'[c] = stage[c] /\ op'[c] = op[c] /\ limit'[c] = limit[c]
      BY <1>1
    <3>2. CASE ~Active(c)
      <4>1. left'[c] = left[c] /\ stage[c] \in {"new", "answered"}
        BY <1>1, <3>2 DEF Active
      <4> QED  BY <3>1, <4>1, Types DEF ClockOK
    <3>3. CASE Active(c) /\ quirks' = quirks + 1
      <4>1. left'[c] = left[c] - 1 /\ timer'[c] = Less(timer[c])
        BY <1>1, <3>3
      <4>2. timer'[c] =< timer[c] /\ timer'[c] \in Nat
        BY <4>1, Types DEF Less
      <4>3. left'[c] + quirks' >= left[c] + quirks /\ left'[c] =< left[c] /\ left'[c] \in Int
        BY <3>3, <4>1, Types
      <4>4. quirks' \in Nat
        BY <3>3, Types
      <4> QED  BY <3>1, <4>2, <4>3, <4>4, ClockKept
    <3>4. CASE Active(c) /\ Waiting(c) /\ quirks' = quirks
      <4>1. /\ stage[c] \in {"sleep", "first", "second", "acquire"} /\ timer[c] > 0
            /\ left'[c] = left[c] - 1 /\ timer'[c] = Less(timer[c])
        BY <1>1, <3>4 DEF Waiting
      <4>2. timer'[c] = timer[c] - 1
        BY <4>1, Types DEF Less
      <4>3. /\ left'[c] + quirks' = left[c] + quirks - 1 /\ left'[c] =< left[c]
            /\ left'[c] \in Int /\ timer'[c] \in Nat /\ quirks' \in Nat
        <5>1. timer[c] \in Nat /\ left[c] \in Int /\ quirks \in Nat
          BY Types
        <5>2. timer'[c] \in Nat
          BY <4>1, <4>2, <5>1
        <5>3. left'[c] + quirks' = left[c] + quirks - 1
          BY <3>4, <4>1, <5>1
        <5>4. left'[c] =< left[c] /\ left'[c] \in Int
          BY <4>1, <5>1
        <5> QED  BY <3>4, <5>1, <5>2, <5>3, <5>4
      <4> QED  BY <3>1, <4>1, <4>2, <4>3, ClockKept
    <3> QED  BY <1>1, <3>2, <3>3, <3>4
  <2> QED  BY <2>1, <2>2, <2>3 DEF ReaderOK
<1> QED  BY <1>2, <1>3

LEMMA ReadInvariant == Spec => []ReadInv
<1>1. ReadInv /\ [Next]_vars => ReadInv'
  <2> SUFFICES ASSUME ReadInv, [Next]_vars  PROVE ReadInv'
    OBVIOUS
  <2>1. ASSUME NEW c \in Readers, Arrive(c) \/ Step(c)  PROVE ReadInv'
    BY <2>1, ArriveOK, StartAttemptOK, AcquireOK, AcquireFailsOK, BeginOK, FirstReadOK,
       StatementsEndOK, DecideOK, WakeOK
    DEF Step
  <2>2. ASSUME NEW c \in Readers, CheckFails(c)  PROVE ReadInv'
    <3>1. UNCHANGED <<calls, version>> /\ quirks' = quirks + 1
      BY <2>2 DEF CheckFails, Quirk
    <3>2. version \in Nat /\ quirks \in Nat
      BY DEF ReadInv, ReadTypeOK
    <3> QED  BY <3>1, <3>2, BesideOK
  <2>3. CASE Write \/ Rebuild \/ Close \/ UNCHANGED vars
    <3>1. UNCHANGED <<calls, quirks>> /\ (version' = version \/ version' = version + 1)
      BY <2>3 DEF Write, Rebuild, Close, vars
    <3>2. version \in Nat /\ quirks \in Nat
      BY DEF ReadInv, ReadTypeOK
    <3> QED  BY <3>1, <3>2, BesideOK
  <2> QED  BY <2>1, <2>2, <2>3, TickOK DEF Next, Finished
<1> QED  BY <1>1, InitRead, PTL DEF Spec

-----------------------------------------------------------------------------
(* The theorems *)

\* What is shown was true at one instant of the request, however many changes
\* are made beside it (context_gateway.py:57-65, availability_gateway.py:44-52).
THEOREM OneInstant == Spec => []ReadsOneInstant
<1>1. ReadInv => ReadsOneInstant
  BY DEF ReadInv, ReaderOK, SnapshotOK, ReadsOneInstant
<1> QED  BY <1>1, ReadInvariant, PTL

\* However its waits, statements and sleeps add up, a read stays within its
\* deadline, or twice the deadline when it sends two statements
\* (retry.py:49-87, context_gateway.py:43-65, customer_gateway.py:41-69).
THEOREM EndsInTime == Spec => []AnsweredInTime
<1>1. ReadInv => AnsweredInTime
  <2> SUFFICES ASSUME ReadInv, NEW c \in Readers, Active(c)
               PROVE  left[c] + quirks >= IF op[c] \in Snapshots THEN -Deadline ELSE 0
    BY DEF AnsweredInTime
  <2>1. stage[c] \in {"attempt", "acquire", "begin", "first", "second", "decide", "sleep"}
    BY DEF Active, ReadInv, ReadTypeOK, ReadStages
  <2> QED  BY <2>1, Types, ReadAssumption DEF ClockOK
<1> QED  BY <1>1, ReadInvariant, PTL

\* The answers that are made of rows, and those that are made of a failure.
LEMMA ReadAnswers ==
    ASSUME NEW c \in Readers, op[c] \in {"context", "availability", "status", "readiness"},
           answer[c] = "read", NEW a \in Responses(c)
    PROVE  a.code # "internal_error"
<1>1. Success(200).code = "none"
  BY DEF Success, Answer
<1>2. \A code \in Conflicts \cup {"validation_failed"} :
         ErrorResponse(code, Status(code)).code = code
  BY Envelopes DEF ErrorResponse
<1>3. Status("validation_failed") = 422 /\ \A code \in Conflicts : Status(code) = 409
  BY DEF Status, Conflicts
<1>4. a \in {Success(200), ErrorResponse("validation_failed", 422)}
             \cup {ErrorResponse(code, 409) : code \in Conflicts}
  BY DEF Responses, Snapshots, ScheduleResponse, CustomerResponse, Conflicts
<1> QED  BY <1>1, <1>2, <1>3, <1>4 DEF Conflicts

LEMMA OutageAnswers ==
    ASSUME NEW o, NEW failure \in {"service_unavailable", "indeterminate", "not_ready"}
    PROVE  /\ FailureResponse(o, failure).retryable
           /\ FailureResponse(o, failure).code # "internal_error"
<1>1. \A code \in {"service_unavailable", "newsletter_status_indeterminate",
                  "service_not_ready"} :
         Status(code) = 503
  BY DEF Status
<1>2. PICK code \in {"service_unavailable", "newsletter_status_indeterminate",
                    "service_not_ready"} :
         FailureResponse(o, failure) = ErrorResponse(code, 503)
  BY DEF FailureResponse
<1>3. FailureResponse(o, failure) = Envelope(code)
  BY <1>1, <1>2 DEF ErrorResponse
<1> QED  BY <1>1, <1>3, Envelopes

\* Trouble that passes is answered so that the caller tries again; only a broken
\* contract or a refused request is final (exceptions.py:82-125,
\* responses.py:18-88, newsletter_status.py:66-80).
THEOREM OutagesTold == Spec => []OutagesInviteRetry
<1>1. ReadInv => OutagesInviteRetry
  <2> SUFFICES ASSUME ReadInv, NEW c \in Readers, stage[c] = "answered", NEW a \in Responses(c)
               PROVE  /\ result[c] \in {"transient", "failed"} => a.retryable
                      /\ attempt[c] = 0 => a.status \in 400..499
                      /\ a.code = "internal_error" => op[c] = "status" /\ result[c] = "contract"
    BY DEF OutagesInviteRetry, Answered
  <2>1. op[c] \in {"context", "availability", "status", "readiness"}
    BY DEF ReadInv, ReadTypeOK
  <2>2. CASE attempt[c] = 0 /\ result[c] = "none" /\ answer[c] \in RefusalCodes
    <3>1. a = Envelope(answer[c])
      BY <2>2 DEF Responses, RefusalCodes
    <3>2. Status(answer[c]) \in {400, 404, 405, 415, 422} /\ answer[c] # "internal_error"
      BY <2>2 DEF RefusalCodes, Status
    <3> QED  BY <2>2, <3>1, <3>2, Envelopes
  <2>3. CASE attempt[c] > 0 /\ result[c] = "read" /\ answer[c] = AnswerFor(c, result[c])
    <3>1. answer[c] = "read"
      BY <2>3 DEF AnswerFor
    <3> QED  BY <2>1, <2>3, <3>1, ReadAnswers
  <2>4. CASE /\ attempt[c] > 0 /\ result[c] \in {"transient", "failed", "contract"}
             /\ answer[c] = AnswerFor(c, result[c])
    <3>1. CASE op[c] = "status" /\ result[c] = "contract"
      BY <2>4, <3>1
    <3>2. CASE ~(op[c] = "status" /\ result[c] = "contract")
      <4>1. answer[c] \in {"service_unavailable", "indeterminate", "not_ready"}
        BY <2>1, <2>4, <3>2 DEF AnswerFor, Snapshots
      <4>2. a = FailureResponse(op[c], answer[c])
        BY <4>1 DEF Responses
      <4> QED  BY <2>4, <4>1, <4>2, OutageAnswers
    <3> QED  BY <3>1, <3>2
  <2> QED  BY <2>2, <2>3, <2>4, Types DEF ResultOK, Results
<1> QED  BY <1>1, ReadInvariant, PTL
=============================================================================
