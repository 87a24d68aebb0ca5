----------------------------- MODULE RetryLoop -----------------------------
(***************************************************************************)
(* services/retry.py: when a failed attempt is repeated.  The loop itself  *)
(* is taken up by the two services around it, step by step.                *)
(***************************************************************************)
EXTENDS Integers

CONSTANTS
    MaxAttempts,    \* policy.max_attempts
    MinRemaining,   \* policy.min_remaining_ms
    Delays          \* the backoff delays, with jitter

ASSUME RetryAssumption ==
    /\ MaxAttempts \in 1..3
    /\ MinRemaining \in Nat /\ Delays \subseteq Nat

SqlStates == {"none", "08", "approved", "other"}   \* approved: 55P03 40P01 40001

\* AttemptFailure.eligible
Eligible(f) ==
    /\ f.safe /\ ~f.unknown
    /\ IF f.sent THEN f.sqlstate = "approved"
                 ELSE f.sqlstate \in {"none", "approved", "08"}

\* An attempt after the first needs the minimum of time left.
Hopeless(attempt, left) == attempt > 0 /\ left < MinRemaining

\* A deadline or a timer after one more tick.
Less(n) == IF n = 0 THEN 0 ELSE n - 1
=============================================================================
