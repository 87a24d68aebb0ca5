-------------------------- MODULE ServiceProperties --------------------------
(***************************************************************************)
(* What a caller of MutationService may rely on.                           *)
(***************************************************************************)
EXTENDS MutationService

Holding == {"begin", "execute", "commit", "confirm", "close", "putconn"}

\* A call never commits its change twice, however its attempts fail: an
\* attempt whose COMMIT may have worked is the last one (retry.py:37-40,
\* reservation_gateway.py:69-85 and 207-219).
ChangedAtMostOnce == \A c \in Calls : committed[c] <= 1

\* What the caller reads on the wire agrees with what the database did: after
\* a change was committed only a success, an answer in doubt or the booking
\* that cannot be confirmed is sent; 201 and a changed preference are
\* committed; and only an attempt that reached the database ends in doubt
\* (reservations.py:70-95, newsletter_preferences.py:104-142,
\* error_handlers.py:60-113).
AnswersAreHonest ==
    \A c \in Calls : stage[c] = "answered" => \A a \in Responses(c) :
        /\ committed[c] > 0 =>
              \/ a.status \in {200, 201} \/ a.outcome_unknown
              \/ a.code = "reservation_confirmation_unavailable"
        /\ a.status = 201 \/ answer[c] = "changed" => committed[c] = 1
        /\ a.outcome_unknown => dispatched[c] /\ ~Eligible(result[c])

\* A form that drops the body of its request, and with it the means to ask
\* again for the same thing, drops one the database has not acted on
\* (responses.py:18-88, ReservationFeature.jsx:227-262,
\* NewsletterPreferences.jsx:72-87, error_handlers.py:60-113).
BodyKeptUntilSettled ==
    \A c \in Calls : stage[c] = "answered" => \A a \in Responses(c) :
        a.status \notin {200, 201} /\ ~KeepsBody(a) => committed[c] = 0

\* What passes the validators is what the functions take, with one exception:
\* a middle initial whose letter has no case, which the validators pass on as
\* it is and the guards refuse.  To nothing else that is sent do they object
\* (validation/reservation.py, validation/newsletter.py, identity.py:57-62
\* against 008:85-121 and 007:181-196).
OnlyCaselessIsRefused == \A c \in Calls : malformed[c] \subseteq {"caseless"}

\* Every connection is in the pool, with a call that is using it, or was
\* lost to a disposal that failed; only such a failure shrinks the pool
\* (reservation_gateway.py:249-261, newsletter_gateway.py:236-258).
ConnectionsAccounted ==
    /\ idle + Cardinality({c \in Calls : stage[c] \in Holding}) + lost = PoolSize
    /\ lost <= quirks

\* A new attempt after the first starts with the minimum time left, although
\* the thread may be delayed between the sleep and the attempt
\* (retry.py:62-72 and 80-85).
RetriesHaveTime ==
    [][\A c \in Calls :
          attempt'[c] > attempt[c] /\ attempt[c] > 0 => left[c] >= MinRemaining]_vars

\* Every request that arrives is answered, even with the pool exhausted or
\* shrunk: no wait is unbounded (retry.py:49-87, pool.py:47-60).
EveryCallAnswered == \A c \in Calls : stage[c] = "attempt" ~> stage[c] = "answered"
=============================================================================
