----------------------------- MODULE HealthChecks -----------------------------
(***************************************************************************)
(* HealthCheckService: a report runs the registered checks one after       *)
(* another, each inside a retry inside a breaker of its own.  Reports of   *)
(* several requests overlap and share those breakers.  What a report says  *)
(* of the breakers it read before its first check.                         *)
(*                                                                         *)
(* Nothing under src/ registers a check: the checks here are the kinds     *)
(* that the service makes (ping, database, redis) and a function that is   *)
(* registered as it is ("raw"), which may reject.  A breaker is named as   *)
(* its check, for health-<name>.  Left out: response times, error texts.   *)
(***************************************************************************)
EXTENDS CircuitBreaker, Retry, Clock, Sequences, FiniteSets

CONSTANTS Checks,       \* the registered names, in order of registration
          Kind,         \* [the names -> Kinds]
          Names,        \* the names breakers are registered under
          Reports,      \* slots for reports under way
          CheckConfig,  \* the configuration of every check's breaker
          Absent        \* the configuration of a name not in the map

VARIABLES breaker,     \* [Names -> Breaker]
          config,      \* [Names -> ConfigType or Absent]
          report,      \* [Reports -> Report]
          overlapped   \* history: reports that ran beside another one

Kinds == {"ping", "database", "redis", "raw"}
Statuses == {"up", "degraded", "down"}
CheckNames == {Checks[n] : n \in DOMAIN Checks}
Finished == Len(Checks) + 1

ASSUME CheckAssumption ==
    /\ Checks \in Seq(Names)
    /\ Kind \in [CheckNames -> Kinds]
    /\ \A m, n \in DOMAIN Checks : Checks[m] = Checks[n] => m = n
    /\ CheckConfig \in ConfigType
    /\ Absent \notin ConfigType

(* at is the check it awaits, 0 before and Finished after; tries counts the *)
(* attempts, asleep while the retry waits for the next.                     *)
Report == [at : 0 .. Finished, tries : 1 .. 2, asleep : BOOLEAN,
           shown : [CheckNames -> States \cup {"none"}],
           services : [CheckNames -> Statuses \cup {"refused", "none"}],
           since : Nat, request : Nat]

NoReport == [at |-> 0, tries |-> 1, asleep |-> FALSE,
             shown |-> [c \in CheckNames |-> "none"],
             services |-> [c \in CheckNames |-> "none"],
             since |-> 0, request |-> 0]

UnderWay(p) == report[p].at \in 1 .. Len(Checks)

HealthInit == report = [p \in Reports |-> NoReport] /\ overlapped = {}

-----------------------------------------------------------------------------
(* getAllStatus, as a report reads it. *)
ShownOfTheService(c) ==    \* mistake: looked up without the prefix
    "none"

Shown(c) == IF config[c] = Absent THEN "none" ELSE breaker[c].state

(* The checks from the nth on whose breakers turn the report away are down *)
(* at once; the next one is awaited.                                       *)
Refuses(n) == RejectsAt(breaker[Checks[n]], now)

Awaited(n) ==
    CHOOSE m \in n .. Finished : /\ m = Finished \/ ~Refuses(m)
                                 /\ \A k \in n .. m - 1 : Refuses(k)

(* The report p, having services so far, comes to its nth check, and the   *)
(* breakers are as in b.                                                   *)
ComeTo(p, r, n, b) ==
    LET m == Awaited(n) IN
    /\ report' = [report EXCEPT ![p] =
          [r EXCEPT !.at = m, !.tries = 1, !.asleep = FALSE,
                    !.services = [c \in CheckNames |->
                       IF \E k \in n .. m - 1 : c = Checks[k] THEN "refused"
                       ELSE r.services[c]]]]
    /\ IF m = Finished THEN breaker' = b /\ UNCHANGED config
       ELSE /\ breaker' = [b EXCEPT ![Checks[m]] = Admitted(@)]
            /\ config' = [config EXCEPT ![Checks[m]] =
                             IF @ = Absent THEN CheckConfig ELSE @]

BeginReport(p, n) ==
    /\ ~UnderWay(p)
    /\ LET others == {q \in Reports \ {p} : UnderWay(q)} IN
       overlapped' = IF others = {} THEN overlapped \ {p}
                     ELSE overlapped \cup others \cup {p}
    /\ ComeTo(p, [NoReport EXCEPT !.shown = [c \in CheckNames |-> Shown(c)],
                                  !.since = now, !.request = n], 1, breaker)

-----------------------------------------------------------------------------
(* What a check made by the service returns; it throws nothing. *)
Answers(kind) ==
    CASE kind \in {"ping", "database"} -> {"up", "down"}
      [] kind = "redis" -> Statuses
      [] kind = "raw" -> Statuses \cup {"throws", "ETIMEDOUT"}

(* The awaited check answers, fails for good, or waits to be tried again.  *)
CheckAnswers(p) ==
    LET r == report[p]
        c == Checks[r.at]
    IN  /\ UnderWay(p) /\ ~r.asleep
        /\ \E a \in Answers(Kind[c]) \cap Statuses :
              ComeTo(p, [r EXCEPT !.services[c] = a], r.at + 1,
                     [breaker EXCEPT ![c] = Succeeded(@)])
        /\ UNCHANGED overlapped

CheckFails(p) ==
    LET r == report[p]
        c == Checks[r.at]
    IN  /\ UnderWay(p) /\ ~r.asleep
        /\ \E e \in Answers(Kind[c]) \ Statuses :
              /\ ~RetriesAfter(r.tries, 2, e)
              /\ ComeTo(p, [r EXCEPT !.services[c] = "down"], r.at + 1,
                        [breaker EXCEPT ![c] = FailedAt(@, config[c], now)])
        /\ UNCHANGED overlapped

CheckWaits(p) ==
    LET r == report[p]
        c == Checks[r.at]
    IN  /\ UnderWay(p) /\ ~r.asleep
        /\ \E e \in Answers(Kind[c]) \ Statuses : RetriesAfter(r.tries, 2, e)
        /\ report' = [report EXCEPT ![p].asleep = TRUE]
        /\ UNCHANGED <<breaker, config, overlapped>>

CheckAgain(p) ==
    /\ UnderWay(p) /\ report[p].asleep
    /\ report' = [report EXCEPT ![p].asleep = FALSE, ![p].tries = @ + 1]
    /\ UNCHANGED <<breaker, config, overlapped>>

-----------------------------------------------------------------------------
(* determineOverallStatus.  A check that threw or was refused is down. *)
DetermineOverallStatus(services) ==
    LET down == Cardinality({c \in CheckNames : services[c] \in {"down", "refused"}})
        degraded == \E c \in CheckNames : services[c] = "degraded"
    IN  IF 2 * down > Cardinality(CheckNames) THEN "unhealthy"
        ELSE IF down > 0 \/ degraded THEN "degraded" ELSE "healthy"

(* A finished report in which a breaker refused a check is not healthy, and *)
(* shows that breaker as open, though it read the breakers before its first *)
(* check: unless another report overlapped it, and tripped the breaker.     *)
RefusedShows ==
    \A p \in Reports, c \in CheckNames :
        report[p].at = Finished /\ report[p].services[c] = "refused" =>
            /\ DetermineOverallStatus(report[p].services) # "healthy"
            /\ p \notin overlapped => report[p].shown[c] = "OPEN"
=============================================================================
