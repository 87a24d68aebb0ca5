--------------------------- MODULE ReadProperties ---------------------------
(***************************************************************************)
(* What a caller of the reads may rely on.                                 *)
(***************************************************************************)
EXTENDS ReadService

Answered(c) == stage[c] = "answered"

\* What is shown was true at one instant of the request: the two statements of
\* a context or an availability see the same tables, and no attempt that
\* failed leaves anything of what it saw in the answer
\* (context_gateway.py:57-65, availability_gateway.py:44-52).
ReadsOneInstant ==
    \A c \in Readers : answer[c] = "read" =>
        \E v \in since[c]..version : \A i \in 1..Len(seen[c]) : seen[c][i] = v

\* A read ends in time, however its attempts, waits and sleeps add up: within
\* its deadline, or, since statement_timeout holds for each statement anew,
\* within twice that for the two that send two statements (retry.py:49-87,
\* context_gateway.py:43-65, customer_gateway.py:41-69, health_gateway.py:62-79).
AnsweredInTime ==
    \A c \in Readers :
        Active(c) => left[c] + quirks >= IF op[c] \in Snapshots THEN -Deadline ELSE 0

\* Trouble that passes, of the pool, the session or the time, is answered so
\* that the caller tries again; only a broken contract, met by a status, or a
\* request refused before any attempt is final (exceptions.py:82-125,
\* responses.py:18-88, newsletter_status.py:66-80).
OutagesInviteRetry ==
    \A c \in Readers : Answered(c) => \A a \in Responses(c) :
        /\ result[c] \in {"transient", "failed"} => a.retryable
        /\ attempt[c] = 0 => a.status \in 400..499
        /\ a.code = "internal_error" => op[c] = "status" /\ result[c] = "contract"

\* Every read is answered, also with a pool that is used up, being replaced
\* or closed (retry.py:49-87, pool.py:47-60, application.py:215-221).
EveryReadAnswered == \A c \in Readers : stage[c] = "attempt" ~> stage[c] = "answered"
=============================================================================
