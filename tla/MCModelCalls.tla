---------------------------- MODULE MCModelCalls ----------------------------
(* Concurrent calls of one provider; the service answers a failure without  *)
(* Retry-After, with a date in the past, or with more than the cap.         *)
EXTENDS ModelCalls, TLC

CONSTANTS t1, t2

MCRetryAfters == {-1, 3, 100}

\* Paced, with no retry, one, and so many that the backoff meets its cap; and
\* not paced.
MCConfigs == {[interval |-> 1, retries |-> 0], [interval |-> 2, retries |-> 1],
              [interval |-> 1, retries |-> 4], [interval |-> 0, retries |-> 3]}
=============================================================================
