--------------------------- MODULE CircuitBreaker ---------------------------
(***************************************************************************)
(* The CircuitBreaker class: the state of one breaker as a record, and one *)
(* operator per synchronous section of its methods.  JavaScript runs each  *)
(* such section to completion, so each is one atomic step of whoever uses  *)
(* the breaker.  Only "await fn()" inside execute lets other calls in; the *)
(* sections before and after it are RejectsAt / Admitted and Succeeded /   *)
(* FailedAt.                                                               *)
(*                                                                         *)
(* Left out: successCount, which is only ever reported, and the two        *)
(* configuration fields monitoringPeriod and expectedErrorRate, which the  *)
(* class never reads.                                                      *)
(*                                                                         *)
(* An operator marked "mistake" is the one below it as a slip would have   *)
(* written it.  None is used: put in place of the right one, each breaks a *)
(* property, which shows that the property watches that line.              *)
(***************************************************************************)
EXTENDS Integers

CONSTANT NaN    \* what undefined becomes in arithmetic and comparisons

ASSUME NaNAssumption == NaN \notin Int

States == {"CLOSED", "OPEN", "HALF_OPEN"}

(* JavaScript's t < x and n >= x, false as soon as x is not a number, and  *)
(* t + d, not a number as soon as d is not.                                *)
Less(t, x)  == x # NaN /\ t < x
AtLeast(n, x) == x # NaN /\ n >= x
Plus(t, d) == IF d = NaN THEN NaN ELSE t + d

(* A configuration as the class receives it.  The decorators declare it    *)
(* Partial<CircuitBreakerConfig> and nothing fills in a missing field.     *)
ConfigType == [threshold : (Nat \ {0}) \cup {NaN}, recovery : Nat \cup {NaN}]

Breaker == [state           : States,
            failureCount    : Nat,
            lastFailureTime : Nat,
            nextAttemptTime : Nat \cup {NaN}]

NewBreaker == [state           |-> "CLOSED",
               failureCount    |-> 0,
               lastFailureTime |-> 0,
               nextAttemptTime |-> 0]

(* execute, before the await: an open breaker turns callers away until its *)
(* recovery time has come; the first caller after that finds it half open. *)
RejectsForever(b, t) == b.state = "OPEN"    \* mistake: no recovery time

RejectsAt(b, t) == b.state = "OPEN" /\ Less(t, b.nextAttemptTime)

AdmittedMisspelt(b) ==    \* mistake: a state no other method knows
    IF b.state = "OPEN" THEN [b EXCEPT !.state = "HALFOPEN"] ELSE b

AdmittedForgiving(b) ==    \* mistake: half open, the failures are forgotten
    IF b.state = "OPEN" THEN [b EXCEPT !.state = "HALF_OPEN", !.failureCount = 0] ELSE b

Admitted(b) == IF b.state = "OPEN" THEN [b EXCEPT !.state = "HALF_OPEN"] ELSE b

(* execute, after the await: onSuccess, whatever the state has become. *)
SucceededClosing(b) ==    \* mistake: any success closes
    [b EXCEPT !.failureCount = 0, !.state = "CLOSED"]

SucceededUncleared(b) ==    \* mistake: only a half-open success clears the count
    IF b.state = "HALF_OPEN"
    THEN [b EXCEPT !.failureCount = 0, !.state = "CLOSED"] ELSE b

Succeeded(b) ==
    LET counted == [b EXCEPT !.failureCount = 0]
    IN  IF b.state = "HALF_OPEN" THEN [counted EXCEPT !.state = "CLOSED"] ELSE counted

(* execute, after the await: onFailure, whatever the state has become. *)
FailedPastThreshold(b, cfg, t) ==    \* mistake: > for >=
    LET counted == [b EXCEPT !.failureCount = @ + 1, !.lastFailureTime = t]
    IN  IF AtLeast(b.failureCount, cfg.threshold)
        THEN [counted EXCEPT !.state = "OPEN",
                             !.nextAttemptTime = Plus(t, cfg.recovery)]
        ELSE counted

FailedWithoutWindow(b, cfg, t) ==    \* mistake: recovery timeout not added
    LET counted == [b EXCEPT !.failureCount = @ + 1, !.lastFailureTime = t]
    IN  IF AtLeast(counted.failureCount, cfg.threshold)
        THEN [counted EXCEPT !.state = "OPEN", !.nextAttemptTime = t]
        ELSE counted

FailedAt(b, cfg, t) ==
    LET counted == [b EXCEPT !.failureCount = @ + 1, !.lastFailureTime = t]
    IN  IF AtLeast(counted.failureCount, cfg.threshold)
        THEN [counted EXCEPT !.state = "OPEN",
                             !.nextAttemptTime = Plus(t, cfg.recovery)]
        ELSE counted

Reset(b) == NewBreaker

ForcedOpenAt(b, cfg, t) ==
    [b EXCEPT !.state = "OPEN", !.nextAttemptTime = Plus(t, cfg.recovery)]

(* getStatus().isAvailable *)
IsAvailableAt(b, t) == b.state # "OPEN" \/ AtLeast(t, b.nextAttemptTime)

=============================================================================
