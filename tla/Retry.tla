-------------------------------- MODULE Retry --------------------------------
(***************************************************************************)
(* RetryUtil: which errors are tried again, whether another attempt is     *)
(* due, and the delays before it.  Jitter is a real number between minus   *)
(* and plus a quarter of the delay; the result is rounded down, so it is   *)
(* one of the whole numbers of that range.                                 *)
(***************************************************************************)
EXTENDS Integers

(* DEFAULT_RETRY_CONFIG.retryCondition, on what an error's message says. *)
RetryCondition(says) ==
    says \in {"ECONNREFUSED", "ETIMEDOUT", "ENOTFOUND", "Service Unavailable",
              "Internal Server Error"}

RetriesAfter(attempt, maxAttempts, says) == attempt < maxAttempts /\ RetryCondition(says)

CappedDelay(delay, maxDelay) == IF delay < maxDelay THEN delay ELSE maxDelay

Jittered(delay) ==
    {d \in 0 .. 2 * delay : 4 * (d + 1) > 3 * delay /\ (4 * d < 5 * delay \/ d = delay)}

CalculateDelay(attempt, c) ==
    LET delay == CappedDelay(c.baseDelay * c.backoffMultiplier ^ (attempt - 1), c.maxDelay)
    IN  IF c.jitter THEN Jittered(delay) ELSE {delay}
=============================================================================
