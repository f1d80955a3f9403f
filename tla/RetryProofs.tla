----------------------------- MODULE RetryProofs -----------------------------
(***************************************************************************)
(* How long RetryUtil can wait: jitter is added after the cap, so the cap  *)
(* is not the longest delay, but no delay is more than a quarter above it. *)
(***************************************************************************)
EXTENDS Retry, TLAPS

RetryConfig == [baseDelay : Nat, backoffMultiplier : Nat, maxDelay : Nat, jitter : BOOLEAN]

LEMMA CappedTyped ==
    ASSUME NEW delay \in Nat, NEW maxDelay \in Nat
    PROVE  CappedDelay(delay, maxDelay) \in Nat /\ CappedDelay(delay, maxDelay) =< maxDelay
BY DEF CappedDelay

LEMMA JitterIsAQuarter ==
    ASSUME NEW delay \in Nat, NEW d \in Jittered(delay)
    PROVE  d \in Nat /\ 4 * d =< 5 * delay /\ 3 * delay < 4 * (d + 1)
BY DEF Jittered

(* The delay before another attempt is at most a quarter over maxDelay, and *)
(* within maxDelay when there is no jitter, for any configuration of whole  *)
(* numbers and any attempt.  That a power of natural numbers is one is an   *)
(* induction, and is assumed.                                               *)
THEOREM DelayNearItsCap ==
    ASSUME NEW c \in RetryConfig, NEW attempt \in Nat \ {0},
           c.backoffMultiplier ^ (attempt - 1) \in Nat
    PROVE  \A d \in CalculateDelay(attempt, c) :
              /\ d \in Nat /\ 4 * d =< 5 * c.maxDelay
              /\ ~c.jitter => d =< c.maxDelay
<1> DEFINE power == c.backoffMultiplier ^ (attempt - 1)
           delay == CappedDelay(c.baseDelay * power, c.maxDelay)
<1>1. c.baseDelay \in Nat /\ c.maxDelay \in Nat /\ power \in Nat
  BY DEF RetryConfig
<1> HIDE DEF power
<1>2. c.baseDelay * power \in Nat
  BY <1>1
<1>3. delay \in Nat /\ delay =< c.maxDelay
  BY <1>1, <1>2, CappedTyped
<1>4. CalculateDelay(attempt, c) = IF c.jitter THEN Jittered(delay) ELSE {delay}
  BY DEF CalculateDelay, power
<1> HIDE DEF delay
<1>5. \A d \in Jittered(delay) : d \in Nat /\ 4 * d =< 5 * c.maxDelay
  BY <1>1, <1>3, JitterIsAQuarter
<1>6. QED BY <1>1, <1>3, <1>4, <1>5
=============================================================================
