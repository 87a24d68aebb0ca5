------------------------------ MODULE Settings ------------------------------
(***************************************************************************)
(* config.py: which environments the service starts in, and the settings   *)
(* it takes from them.  RuleProofs shows that they fit the assumptions     *)
(* of RetryLoop, MutationService and ReadService.                          *)
(*                                                                         *)
(* An environment is a record of its variables.  `absent` stands for a     *)
(* variable that is missing or blank, `invalid` for a value that is not    *)
(* one of the allowed ones.                                                *)
(***************************************************************************)
EXTENDS Integers

\* The bounds and the default of each integer.
Bound(low, default, high) == [low |-> low, default |-> default, high |-> high]

Bounds ==
    [pgport |-> Bound(1, 5432, 65535),
     pgconnect_timeout |-> Bound(1, 3, 10),
     pool_min_size |-> Bound(0, 1, 5),
     pool_max_size |-> Bound(1, 5, 20),
     pool_acquire_timeout_ms |-> Bound(50, 500, 3000),
     read_deadline_ms |-> Bound(250, 2000, 5000),
     mutation_deadline_ms |-> Bound(3000, 15000, 15000),
     readiness_deadline_ms |-> Bound(100, 1000, 3000),
     max_db_attempts |-> Bound(1, 3, 3),
     retry_base_delay_ms |-> Bound(10, 25, 250),
     retry_cap_delay_ms |-> Bound(50, 200, 1000),
     retry_min_remaining_ms |-> Bound(100, 500, 2000),
     max_request_bytes |-> Bound(4096, 16384, 65536),
     pool_close_timeout_ms |-> Bound(100, 1000, 5000)]

NumberNames ==
    {"pgport", "pgconnect_timeout", "pool_min_size", "pool_max_size",
     "pool_acquire_timeout_ms", "read_deadline_ms", "mutation_deadline_ms",
     "readiness_deadline_ms", "max_db_attempts", "retry_base_delay_ms",
     "retry_cap_delay_ms", "retry_min_remaining_ms", "max_request_bytes",
     "pool_close_timeout_ms"}

\* canonical: the text is the decimal form of its value.
NumberTexts == [given : BOOLEAN, canonical : BOOLEAN, value : Int]

Environments ==
    [unknown : BOOLEAN,              \* another variable named CAFE_FAUSSE_...
     environment : {"absent", "development", "test", "production", "invalid"},
     debug : {"absent", "true", "false", "invalid"},
     pghost : {"absent", "socket", "network"},
     pgdatabase : {"absent", "test_name", "other"},
     pguser : {"absent", "given"},
     pgpassword : BOOLEAN, pgpassfile : BOOLEAN,
     pgsslmode : {"absent", "disable", "other", "invalid"},
     log_level : {"absent", "DEBUG", "INFO", "WARNING", "ERROR", "invalid"},
     log_format : {"absent", "text", "json", "invalid"},
     jitter : [given : BOOLEAN, finite : BOOLEAN, value : Int],   \* in hundredths
     numbers : [NumberNames -> NumberTexts]]

-----------------------------------------------------------------------------
(* _integer, _decimal and _choice *)

Number(e, n) == IF e.numbers[n].given THEN e.numbers[n].value ELSE Bounds[n].default

NumberAccepted(e, n) ==
    e.numbers[n].given =>
        /\ e.numbers[n].canonical
        /\ Bounds[n].low <= e.numbers[n].value /\ e.numbers[n].value <= Bounds[n].high

Jitter(e) == IF e.jitter.given THEN e.jitter.value ELSE 25
JitterAccepted(e) == e.jitter.given => e.jitter.finite /\ e.jitter.value \in 0..50

LogLevel(e) ==
    IF e.log_level # "absent" THEN e.log_level
    ELSE IF e.environment = "development" THEN "DEBUG" ELSE "INFO"
LogFormat(e) ==
    IF e.log_format # "absent" THEN e.log_format
    ELSE IF e.environment = "production" THEN "json" ELSE "text"

\* Settings.from_environment ends without a ConfigurationError.
Accepted(e) ==
    /\ ~e.unknown
    /\ e.environment \in {"development", "test", "production"}
    /\ e.debug # "invalid"
    /\ e.debug = "true" => e.environment = "development"
    /\ e.pghost # "absent" /\ e.pgdatabase # "absent" /\ e.pguser # "absent"
    /\ e.environment = "test" => e.pgdatabase = "test_name"
    /\ ~(e.pgpassword /\ e.pgpassfile)
    /\ e.pgsslmode # "invalid"
    /\ e.environment = "production" /\ e.pghost = "network" => e.pgsslmode # "disable"
    /\ \A n \in NumberNames : NumberAccepted(e, n)
    /\ Number(e, "pool_min_size") <= Number(e, "pool_max_size")
    /\ Number(e, "retry_base_delay_ms") <= Number(e, "retry_cap_delay_ms")
    /\ LogLevel(e) # "invalid" /\ LogFormat(e) # "invalid"
    /\ e.environment = "production" =>
          /\ LogLevel(e) # "DEBUG" /\ LogFormat(e) = "json"
          /\ Number(e, "max_db_attempts") = 3
    /\ JitterAccepted(e)

-----------------------------------------------------------------------------
(* The backoff of retry.py under these settings *)

\* nominal_ms after the failure of an attempt that another one may follow.
Nominal(e, attempt) ==
    LET doubled == Number(e, "retry_base_delay_ms") * (IF attempt = 1 THEN 1 ELSE 2)
    IN  IF doubled < Number(e, "retry_cap_delay_ms") THEN doubled
        ELSE Number(e, "retry_cap_delay_ms")

\* delay_ms, in hundredths of a millisecond, with u what uniform returns.
SleepTimes(e, attempt) ==
    {Nominal(e, attempt) * u : u \in (100 - Jitter(e))..(100 + Jitter(e))}
=============================================================================
