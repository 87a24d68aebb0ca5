----------------------------- MODULE RuleProofs -----------------------------
(***************************************************************************)
(* Theorems about the rules that keep no state.  The four statements of    *)
(* what a well-formed request is, compared for every request: form against *)
(* validators, validators against database; what may be said of every      *)
(* refusal and every error on the wire; what every environment the service *)
(* starts in guarantees; and the keys of the customers' locks.             *)
(***************************************************************************)
EXTENDS HttpBoundary, Settings, LockKeys, TLAPS

(* Requests *)

\* What the form sends passes the validators of the identity, except for a
\* middle initial that grows when it is raised, such as sharp s: the form
\* takes one letter of any script, the service wants one letter after upper()
\* (validation.js:13-56, identity.py:37-152).
THEOREM FormAgreesWithService ==
    ASSUME NEW v \in FormFields, FormAccepts(v)
    PROVE  IdentityErrors(BodyOf(v)) = {} <=> v.middle_initial.letters # "expanding"
<1> DEFINE p == BodyOf(v)
<1>1. ValidName(p.first_name) /\ ValidName(p.last_name)
  BY DEF FormFields, Names, FormAccepts, BodyOf, NormalName, ValidName, Value
<1>2. /\ ValidEmail(p.email) /\ ValidEmail(p.confirmation_email)
      /\ SameMailbox(p)
  <2>1. ASSUME NEW e \in Emails, FormValidEmail(e)
        PROVE  /\ ValidEmail([NormalEmail(e) EXCEPT !.given = "value"])
               /\ [NormalEmail(e) EXCEPT !.given = "value"].mailbox = e.mailbox
    BY <2>1 DEF Emails, FormValidEmail, NormalEmail, ValidEmail, Value
  <2> QED  BY <2>1 DEF FormFields, FormAccepts, BodyOf, SameMailbox
<1>3. ValidInitial(p.middle_initial) <=> v.middle_initial.letters # "expanding"
  BY DEF FormFields, Initials, FormAccepts, BodyOf, ValidInitial, Value, Given
<1> HIDE DEF p
<1>4. IdentityErrors(p) = {} <=> ValidInitial(p.middle_initial)
  BY <1>1, <1>2 DEF IdentityErrors
<1> QED  BY <1>3, <1>4 DEF p

\* A telephone number the form takes is one the service takes
\* (validation.js:36-40, identity.py:87-105).
THEOREM PhoneAgreesWithService ==
    ASSUME NEW v \in FormFields, FormAccepts(v), v.phone.given \in {"absent", "value"},
           v.phone.given = "absent" => v.phone.length = 0
    PROVE  ValidPhone(PhoneOf(v))
BY DEF FormFields, Phones, FormAccepts, PhoneOf, ValidPhone, Value, Given

LEMMA OffsetsHold ==
    ASSUME NEW x \in -840..840  PROVE x \in SmallInts
BY SMT DEF SmallInts

LEMMA MaxPartyNat == MaxParty \in Nat
BY SMT DEF MaxParty

LEMMA PartiesHold ==
    ASSUME NEW x \in 1..MaxParty  PROVE x \in WholeInts
<1>1. ASSUME NEW m \in Nat, NEW y \in 1..m  PROVE y \in (-m - 1)..m
  BY SMT
<1> QED  BY <1>1, MaxPartyNat, Zenon DEF WholeInts

\* The one thing the database may object to in what the validators pass on.
Exception(p) ==
    IF p.middle_initial.given # "absent" /\ p.middle_initial.letters = "caseless"
    THEN {"caseless"} ELSE {}

LEMMA NormalInitialCases ==
    ASSUME NEW p, p.middle_initial \in Initials, ValidInitial(p.middle_initial)
    PROVE  {NormalInitial(p.middle_initial)} \ {"none", "upper"} = Exception(p)
BY DEF Initials, ValidInitial, Value, NormalInitial, Given, Exception

LEMMA IdentityFieldsValid ==
    ASSUME NEW p, IdentityErrors(p) = {}
    PROVE  /\ ValidName(p.first_name) /\ ValidName(p.last_name)
           /\ ValidInitial(p.middle_initial) /\ ValidEmail(p.email)
BY DEF IdentityErrors

LEMMA IdentityStorable ==
    ASSUME NEW p, p.first_name \in Names, p.last_name \in Names,
           p.middle_initial \in Initials, p.email \in Emails, IdentityErrors(p) = {}
    PROVE  /\ PreferenceObjections(Identity(p)) = Exception(p)
           /\ Identity(p).first_name.letter /\ Identity(p).last_name.letter
<1> DEFINE i == Identity(p)
<1>1. /\ StorableName(i.first_name) /\ StorableName(i.last_name)
      /\ i.first_name.letter /\ i.last_name.letter
      /\ StorableEmail(i.email)
  <2>1. /\ StorableName(NormalName(p.first_name)) /\ StorableName(NormalName(p.last_name))
        /\ NormalName(p.first_name).letter /\ NormalName(p.last_name).letter
        /\ StorableEmail(NormalEmail(p.email))
    BY IdentityFieldsValid DEF Names, Emails, ValidName, ValidEmail, StorableName,
       StorableEmail, NormalName, NormalEmail
  <2> QED  BY <2>1 DEF Identity
<1>2. {i.middle_initial} \ {"none", "upper"} = Exception(p)
  BY NormalInitialCases, IdentityFieldsValid DEF Identity
<1> HIDE DEF i
<1>3. PreferenceObjections(i) = {i.middle_initial} \ {"none", "upper"}
  BY <1>1 DEF PreferenceObjections
<1> QED  BY <1>1, <1>2, <1>3 DEF i

\* To what passes the validators of a preference the guard of
\* set_newsletter_preference objects only if the middle initial has no upper
\* case, and so do the CHECKs of the table: the service takes any letter, the
\* database only [[:upper:]] (newsletter.py:12-48, 007:181-196, 002:9-54).
THEOREM PreferencesAreTaken ==
    ASSUME NEW p \in PreferencePayloads, PreferenceErrors(p) = {}
    PROVE  /\ PreferenceObjections(Identity(p)) = Exception(p)
           /\ CustomerStorable(Identity(p)) <=> Exception(p) = {}
<1>1. IdentityErrors(p) = {}
  BY DEF PreferenceErrors
<1>2. /\ PreferenceObjections(Identity(p)) = Exception(p)
      /\ Identity(p).first_name.letter /\ Identity(p).last_name.letter
  BY <1>1, IdentityStorable DEF PreferencePayloads
<1> QED  BY <1>2 DEF CustomerStorable

\* The same of a booking and the guard of book_reservation; beside the middle
\* initial there is no exception, and no cast of the call overflows
\* (reservation.py:67-149, 008:85-128).
THEOREM BookingsAreTaken ==
    ASSUME NEW p \in BookingPayloads, BookingErrors(p) = {}
    PROVE  BookingObjections(Identity(p), p) = Exception(p)
<1>1. IdentityErrors(p) = {}
  BY DEF BookingErrors
<1>2. /\ PreferenceObjections(Identity(p)) = Exception(p)
      /\ Identity(p).first_name.letter /\ Identity(p).last_name.letter
  BY <1>1, IdentityStorable DEF BookingPayloads
<1>3. p.phone.given # "absent" => p.phone.plain /\ p.phone.digits \in 7..15
  BY DEF BookingErrors, ValidPhone
<1>4. p.newsletter_action.value \in {"subscribe", "unsubscribe", "no_change"}
  BY DEF BookingErrors, ValidAction, BookingPayloads, Actions
<1>5. ValidNumber(p.utc_offset_minutes, -840, 840) /\ ValidNumber(p.party_size, 1, MaxParty)
  BY DEF BookingErrors, ValidOffset
<1>6. p.utc_offset_minutes.value \in SmallInts /\ p.party_size.value \in WholeInts
  BY <1>5, OffsetsHold, PartiesHold DEF ValidNumber
<1> QED
  BY <1>2, <1>3, <1>4, <1>6 DEF BookingObjections

-----------------------------------------------------------------------------
(* Requests and their refusals *)

RefusalCodes == {"route_not_found", "method_not_allowed", "invalid_request",
                 "unsupported_media_type", "request_body_required", "invalid_json",
                 "validation_failed"}

\* The least of a few indices is one of them, and no other is before it.
LEMMA LeastIndex ==
    ASSUME NEW S \in SUBSET (1..6), S # {}
    PROVE  Min(S) \in S
<1>1. \E x \in S : \A y \in S : x =< y
  <2>1. CASE 1 \in S  BY <2>1
  <2>2. CASE 1 \notin S /\ 2 \in S  BY <2>2
  <2>3. CASE 1 \notin S /\ 2 \notin S /\ 3 \in S  BY <2>3
  <2>4. CASE 1 \notin S /\ 2 \notin S /\ 3 \notin S /\ 4 \in S  BY <2>4
  <2>5. CASE 1 \notin S /\ 2 \notin S /\ 3 \notin S /\ 4 \notin S /\ 5 \in S  BY <2>5
  <2>6. CASE 1 \notin S /\ 2 \notin S /\ 3 \notin S /\ 4 \notin S /\ 5 \notin S
    <3>1. \A x \in S : x = 6
      BY <2>6
    <3>2. 6 \in S
      <4>1. \E x \in S : TRUE
        OBVIOUS
      <4> QED  BY <3>1, <4>1
    <3> QED  BY <3>1, <3>2
  <2> QED  BY <2>1, <2>2, <2>3, <2>4, <2>5, <2>6
<1> QED  BY <1>1 DEF Min

\* FirstOf answers nothing, or with the code of a check that holds; and
\* nothing only when none holds or a check has no code.
LEMMA FirstOfHolds ==
    ASSUME NEW n \in 1..6, NEW checks, DOMAIN checks = 1..n
    PROVE  /\ FirstOf(checks) = "none" \/ \E i \in 1..n : FirstOf(checks) = checks[i][2]
           /\ \/ \A i \in 1..n : ~checks[i][1]
              \/ \E i \in 1..n : FirstOf(checks) = checks[i][2]
<1> DEFINE failed == {i \in DOMAIN checks : checks[i][1]}
<1>1. failed \in SUBSET (1..6)
  OBVIOUS
<1>2. CASE failed = {}
  BY <1>2 DEF FirstOf
<1>3. CASE failed # {}
  <2>1. Min(failed) \in failed
    BY <1>1, <1>3, LeastIndex
  <2>2. FirstOf(checks) = checks[Min(failed)][2]
    BY <1>3 DEF FirstOf
  <2> QED  BY <2>1, <2>2
<1> QED  BY <1>2, <1>3

LEMMA RoutingErrors ==
    ASSUME NEW r
    PROVE  /\ RoutingError(r) \in RefusalCodes \cup {"none"}
           /\ RoutingError(r) = "none" => r.target \in Posts \cup Gets
<1> DEFINE checks == << <<r.target \notin Posts \cup Gets, "route_not_found">>,
                        <<r.method # Method(r.target), "method_not_allowed">> >>
<1>1. DOMAIN checks = 1..2 /\ 2 \in 1..6
  OBVIOUS
<1>2. \A i \in 1..2 : checks[i][2] \in RefusalCodes
  BY DEF RefusalCodes
<1>3. checks[1][1] = (r.target \notin Posts \cup Gets)
  OBVIOUS
<1>4. RoutingError(r) = FirstOf(checks)
  BY DEF RoutingError
<1> HIDE DEF checks
<1>5. /\ FirstOf(checks) = "none" \/ \E i \in 1..2 : FirstOf(checks) = checks[i][2]
      /\ \/ \A i \in 1..2 : ~checks[i][1]
         \/ \E i \in 1..2 : FirstOf(checks) = checks[i][2]
  BY <1>1, FirstOfHolds
<1>6. "none" \notin RefusalCodes
  BY DEF RefusalCodes
<1>7. ASSUME RoutingError(r) = "none"  PROVE ~checks[1][1]
  <2>1. ~\E i \in 1..2 : FirstOf(checks) = checks[i][2]
    BY <1>2, <1>4, <1>6, <1>7
  <2>2. \A i \in 1..2 : ~checks[i][1]
    BY <1>5, <2>1, Zenon
  <2>3. 1 \in 1..2
    OBVIOUS
  <2> QED  BY <2>2, <2>3, Zenon
<1>8. RoutingError(r) = "none" => r.target \in Posts \cup Gets
  BY <1>3, <1>7, Zenon
<1> QED  BY <1>2, <1>4, <1>5, <1>8

LEMMA PostErrors ==
    ASSUME NEW r  PROVE PostError(r) \in RefusalCodes \cup {"none"}
<1> DEFINE checks == << <<r.query, "invalid_request">>,
                        <<r.media # "json", "unsupported_media_type">>,
                        <<r.body = "too_large", "invalid_request">>,
                        <<r.body = "empty", "request_body_required">>,
                        <<r.body = "broken", "invalid_json">>,
                        <<r.unknown_field, "invalid_request">> >>
<1>1. DOMAIN checks = 1..6 /\ 6 \in 1..6
  OBVIOUS
<1>2. \A i \in 1..6 : checks[i][2] \in RefusalCodes
  BY DEF RefusalCodes
<1>3. PostError(r) = FirstOf(checks)
  BY DEF PostError
<1> HIDE DEF checks
<1> QED  BY <1>1, <1>2, <1>3, FirstOfHolds

LEMMA GetErrors ==
    ASSUME NEW r  PROVE GetError(r) \in RefusalCodes \cup {"none"}
<1> DEFINE checks == << <<r.body # "empty", "invalid_request">>,
                        <<r.target # "availability" /\ r.query, "invalid_request">>,
                        <<r.target = "availability" /\ ~r.payload.complete,
                          "invalid_request">> >>
<1>1. DOMAIN checks = 1..3 /\ 3 \in 1..6
  OBVIOUS
<1>2. \A i \in 1..3 : checks[i][2] \in RefusalCodes
  BY DEF RefusalCodes
<1>3. GetError(r) = FirstOf(checks)
  BY DEF GetError
<1> HIDE DEF checks
<1> QED  BY <1>1, <1>2, <1>3, FirstOfHolds

\* A request is refused with one of a few codes, and one that is not refused
\* has a known path and no field with an error.
LEMMA Refusals ==
    ASSUME NEW r
    PROVE  /\ Refusal(r) \in RefusalCodes \cup {"none"}
           /\ Refusal(r) = "none" => r.target \in Posts \cup Gets /\ FieldErrors(r) = {}
<1> USE RoutingErrors, PostErrors, GetErrors
<1>1. "validation_failed" \in RefusalCodes /\ "none" \notin RefusalCodes
  BY DEF RefusalCodes
<1>2. CASE RoutingError(r) # "none"
  BY <1>1, <1>2 DEF Refusal
<1>3. CASE RoutingError(r) = "none"
  BY <1>1, <1>3 DEF Refusal
<1> QED  BY <1>2, <1>3

LEMMA Statuses ==
    \A code : Status(code) \in {400, 404, 405, 409, 415, 422, 500, 503}
BY DEF Status

LEMMA Envelopes ==
    ASSUME NEW code
    PROVE  /\ Envelope(code).status = Status(code) /\ Envelope(code).code = code
           /\ Envelope(code).retryable <=> Status(code) = 503
           /\ Envelope(code).outcome_unknown <=> code \in UnknownCodes
BY DEF Envelope, Answer

LEMMA ErrorResponses ==
    ASSUME NEW code, NEW status, code \notin UnknownCodes
    PROVE  /\ ~ErrorResponse(code, status).outcome_unknown
           /\ ErrorResponse(code, status).status \notin {200, 201}
<1> DEFINE told == IF status = Status(code) THEN code ELSE "internal_error"
<1>1. told \notin UnknownCodes
  BY DEF UnknownCodes
<1>2. ErrorResponse(code, status) = Envelope(told)
  BY DEF ErrorResponse
<1> HIDE DEF told
<1> QED  BY <1>1, <1>2, Envelopes, Statuses

-----------------------------------------------------------------------------
(* Settings *)

LEMMA BoundsInOrder ==
    ASSUME NEW n \in NumberNames
    PROVE  /\ Bounds[n].low \in Nat /\ Bounds[n].default \in Nat /\ Bounds[n].high \in Nat
           /\ Bounds[n].low <= Bounds[n].default /\ Bounds[n].default <= Bounds[n].high
BY DEF NumberNames, Bounds, Bound

LEMMA NumberInBounds ==
    ASSUME NEW e \in Environments, NEW n \in NumberNames, NumberAccepted(e, n)
    PROVE  /\ Number(e, n) \in Int
           /\ Bounds[n].low <= Number(e, n) /\ Number(e, n) <= Bounds[n].high
BY BoundsInOrder DEF Environments, NumberTexts, NumberAccepted, Number

\* The settings of every accepted environment fit what the models of the
\* services assume of their constants: one to three attempts, a pool of at
\* least one connection and no more kept than allowed, deadlines and timeouts
\* that are not zero (config.py:127-221, retry.py:58-59).
THEOREM SettingsFitTheServices ==
    ASSUME NEW e \in Environments, Accepted(e)
    PROVE  /\ Number(e, "max_db_attempts") \in 1..3
           /\ Number(e, "pool_min_size") \in 0..Number(e, "pool_max_size")
           /\ \A n \in {"pool_max_size", "pool_acquire_timeout_ms", "read_deadline_ms",
                        "mutation_deadline_ms", "readiness_deadline_ms",
                        "retry_min_remaining_ms"} : Number(e, n) \in Nat \ {0}
<1>1. \A n \in NumberNames : /\ Number(e, n) \in Int
                             /\ Bounds[n].low <= Number(e, n)
                             /\ Number(e, n) <= Bounds[n].high
  BY NumberInBounds DEF Accepted
<1>2. Number(e, "pool_min_size") <= Number(e, "pool_max_size")
  BY DEF Accepted
<1> QED  BY <1>1, <1>2 DEF NumberNames, Bounds, Bound

\* The delay between two attempts is never shorter than half the base and
\* never longer than one and a half times the cap, whatever the jitter, and
\* the two delays together fit into the deadline of a mutation, so that never
\* the sleeping alone uses it up (retry.py:77-78, config.py:166-221).
THEOREM SleepsAreBounded ==
    ASSUME NEW e \in Environments, Accepted(e), NEW attempt \in 1..2,
           NEW delay \in SleepTimes(e, attempt)
    PROVE  /\ 50 * Number(e, "retry_base_delay_ms") <= delay
           /\ delay <= 150 * Number(e, "retry_cap_delay_ms")
           /\ 2 * delay <= 100 * Number(e, "mutation_deadline_ms")
<1> DEFINE base == Number(e, "retry_base_delay_ms")
           cap  == Number(e, "retry_cap_delay_ms")
           nominal == Nominal(e, attempt)
<1>1. base \in Nat /\ cap \in Nat /\ base <= cap /\ cap <= 1000
  <2>1. /\ base \in Int /\ Bounds["retry_base_delay_ms"].low <= base
        /\ cap \in Int /\ Bounds["retry_cap_delay_ms"].low <= cap
        /\ cap <= Bounds["retry_cap_delay_ms"].high
    BY NumberInBounds DEF Accepted, NumberNames
  <2> QED  BY <2>1 DEF Accepted, Bounds, Bound
<1>2. Number(e, "mutation_deadline_ms") \in Int /\ 3000 <= Number(e, "mutation_deadline_ms")
  <2>1. /\ Number(e, "mutation_deadline_ms") \in Int
        /\ Bounds["mutation_deadline_ms"].low <= Number(e, "mutation_deadline_ms")
    BY NumberInBounds DEF Accepted, NumberNames
  <2> QED  BY <2>1 DEF Bounds, Bound
<1>3. nominal \in Nat /\ base <= nominal /\ nominal <= cap
  BY <1>1 DEF Nominal
<1>4. Jitter(e) \in 0..50
  BY DEF Accepted, JitterAccepted, Jitter, Environments
<1>5. PICK u \in (100 - Jitter(e))..(100 + Jitter(e)) : delay = nominal * u
  BY DEF SleepTimes
<1>6. u \in 50..150
  BY <1>4, <1>5
<1> HIDE DEF base, cap, nominal
<1>7. delay \in Nat /\ 50 * nominal <= delay /\ delay <= 150 * nominal
  BY <1>3, <1>5, <1>6, SMT
<1>8. 50 * base <= delay /\ delay <= 150 * cap
  BY <1>1, <1>3, <1>7
<1>9. 2 * delay <= 100 * Number(e, "mutation_deadline_ms")
  BY <1>1, <1>2, <1>7, <1>8
<1> QED  BY <1>8, <1>9 DEF base, cap

\* An environment with only what is required.
Bare(e) ==
    /\ ~e.unknown /\ e.environment \in {"development", "test", "production"}
    /\ e.pghost # "absent" /\ e.pguser # "absent" /\ e.pgdatabase = "test_name"
    /\ e.debug = "absent" /\ ~e.pgpassword /\ ~e.pgpassfile /\ e.pgsslmode = "absent"
    /\ e.log_level = "absent" /\ e.log_format = "absent"
    /\ ~e.jitter.given /\ \A n \in NumberNames : ~e.numbers[n].given

\* The defaults are accepted together, in each of the three environments,
\* which ask different things of them (config.py:127-221).
THEOREM DefaultsAreAccepted ==
    ASSUME NEW e \in Environments, Bare(e)
    PROVE  Accepted(e)
<1>1. \A n \in NumberNames : NumberAccepted(e, n) /\ Number(e, n) = Bounds[n].default
  BY DEF Bare, NumberAccepted, Number
<1>2. /\ Number(e, "pool_min_size") <= Number(e, "pool_max_size")
      /\ Number(e, "retry_base_delay_ms") <= Number(e, "retry_cap_delay_ms")
      /\ Number(e, "max_db_attempts") = 3
  BY <1>1 DEF NumberNames, Bounds, Bound
<1>3. /\ LogLevel(e) \in {"DEBUG", "INFO"} /\ LogFormat(e) \in {"text", "json"}
      /\ e.environment = "production" => LogLevel(e) = "INFO" /\ LogFormat(e) = "json"
  BY DEF Bare, LogLevel, LogFormat
<1> QED  BY <1>1, <1>2, <1>3 DEF Bare, Accepted, JitterAccepted

-----------------------------------------------------------------------------
(* Lock keys *)

\* Four bytes make a number of 32 bits.
LEMMA BytesFit ==
    ASSUME NEW a \in Byte, NEW b \in Byte, NEW c \in Byte, NEW d \in Byte
    PROVE  /\ BigEndian(a, b, c, d) \in Int
           /\ 0 <= BigEndian(a, b, c, d)
           /\ BigEndian(a, b, c, d) <= MaxUnsigned
BY SMT DEF Byte, BigEndian, MaxUnsigned

\* The components of a prefix are bytes, one by one.
LEMMA BytesOfPrefix ==
    ASSUME NEW digest \in Prefix
    PROVE  digest[0] \in Byte /\ digest[1] \in Byte /\ digest[2] \in Byte /\ digest[3] \in Byte
BY DEF Prefix

\* The value before the two's complement is a number of 32 bits (006: 134-139).
LEMMA UnsignedFits ==
    ASSUME NEW digest \in Prefix
    PROVE  /\ unsigned_value(digest) \in Int
           /\ 0 <= unsigned_value(digest)
           /\ unsigned_value(digest) <= MaxUnsigned
BY BytesOfPrefix, BytesFit, Zenon DEF unsigned_value

\* The four digits of that value determine it: equal values have equal bytes.
LEMMA UnsignedDigits ==
    ASSUME NEW d \in Prefix, NEW e \in Prefix,
           unsigned_value(d) = unsigned_value(e)
    PROVE  d = e
<1>1. PICK a \in Byte, b \in Byte, c \in Byte, f \in Byte :
         a = d[0] /\ b = d[1] /\ c = d[2] /\ f = d[3]
  BY BytesOfPrefix, Zenon
<1>2. PICK p \in Byte, q \in Byte, r \in Byte, s \in Byte :
         p = e[0] /\ q = e[1] /\ r = e[2] /\ s = e[3]
  BY BytesOfPrefix, Zenon
<1>3. BigEndian(a, b, c, f) = BigEndian(p, q, r, s)
  BY <1>1, <1>2, Zenon DEF unsigned_value
<1>4. a = p /\ b = q /\ c = r /\ f = s
  BY <1>3, SMTT(60) DEF Byte, BigEndian
<1>5. d[0] = e[0] /\ d[1] = e[1] /\ d[2] = e[2] /\ d[3] = e[3]
  BY <1>1, <1>2, <1>4, Zenon
<1>6. \A i \in 0..3 : d[i] = e[i]
  BY <1>5, SMT
<1>7. QED
  BY <1>6 DEF Prefix

\* The cast to integer at the end of canonical_email_lock_key never fails,
\* whatever the hash is (006: 140-144).
THEOREM LockKeyIsInteger ==
    ASSUME NEW d \in Prefix
    PROVE  /\ canonical_email_lock_key(d) \in Int
           /\ MinInteger <= canonical_email_lock_key(d)
           /\ canonical_email_lock_key(d) <= MaxInteger
BY UnsignedFits, SMT DEF canonical_email_lock_key, MinInteger, MaxInteger, MaxUnsigned

\* The two's complement loses nothing: different prefixes have different
\* keys, so only customers whose hashes agree in 32 bits share a lock
\* (006: 134-144).
THEOREM LockKeyIsInjective ==
    ASSUME NEW d \in Prefix, NEW e \in Prefix,
           canonical_email_lock_key(d) = canonical_email_lock_key(e)
    PROVE  d = e
<1>1. /\ unsigned_value(d) \in Int /\ unsigned_value(e) \in Int
      /\ 0 <= unsigned_value(d) /\ unsigned_value(d) <= MaxUnsigned
      /\ 0 <= unsigned_value(e) /\ unsigned_value(e) <= MaxUnsigned
  BY UnsignedFits, SMT
<1>2. unsigned_value(d) = unsigned_value(e)
  BY <1>1, SMT DEF canonical_email_lock_key, MaxUnsigned
<1>3. QED
  BY <1>2, UnsignedDigits
=============================================================================
