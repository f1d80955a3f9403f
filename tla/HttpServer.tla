----------------------------- MODULE HttpServer -----------------------------
(***************************************************************************)
(* The HTTP application: guards, then the interceptors (logging outside,   *)
(* circuit breaker inside), the handler, and GlobalExceptionFilter for     *)
(* whatever was thrown.  It brings together the breakers, the exceptions,  *)
(* the health reports and the log.                                         *)
(*                                                                         *)
(* But for the reports, no handler here waits for anything but its own     *)
(* promises, so a request is one step.  Left out: the routes of users,     *)
(* sessions and gRPC, which have modules of their own: of them only the    *)
(* errors they end with are seen here; and the bodies of answers.          *)
(***************************************************************************)
EXTENDS Exceptions, HealthChecks, LoggingService

CONSTANTS Errors,          \* what handlers without a breaker throw
          DefaultConfig,   \* the configuration getCircuitBreaker falls back to
          DatabaseConfig,  \* @DatabaseCircuitBreaker's
          RedisConfig,     \* @RedisCircuitBreaker's
          MaxRequests,     \* bound: requests made and entries about none, together
          MaxTime          \* bound: the clock stops here

ASSUME HttpAssumption ==
    /\ {"database", "redis", "demo-service"} \subseteq Names \ CheckNames
    /\ {"Database", "Redis"} \subseteq Names
    /\ \A e \in Errors : Throwable(e)
    /\ \A e \in Errors : e.class = "ExternalServiceException" => e.service \in Names
    /\ {DefaultConfig, DatabaseConfig, RedisConfig} \subseteq ConfigType
    /\ MaxRequests \in Nat /\ MaxTime \in Nat

VARIABLES requests,  \* number of requests begun
          reply,     \* the last answer sent
          outcome    \* history: [1 .. MaxRequests -> Outcomes], of each request

vars == <<breaker, config, now, report, overlapped, logged, requests, reply, outcome>>

Outcomes == {"none", "ok", "failed"}
Reply == [status : Nat, code : Codes \cup {e.code : e \in Errors}, retryAfter : BOOLEAN]
This == requests + 1

Init == /\ breaker = [s \in Names |-> NewBreaker]
        /\ config = [s \in Names |-> Absent]
        /\ now = 0
        /\ HealthInit
        /\ logged = <<>>
        /\ requests = 0
        /\ reply = [status |-> 0, code |-> "", retryAfter |-> FALSE]
        /\ outcome = [n \in 1 .. MaxRequests |-> "none"]

-----------------------------------------------------------------------------
Registered(c, s, cfg) == [c EXCEPT ![s] = IF @ = Absent THEN cfg ELSE @]

(* LoggingInterceptor, when the handler has answered: more than a second   *)
(* since the request came is slow. *)
AnswerAfter(n, since, before) ==
    /\ reply' = [status |-> 200, code |-> "", retryAfter |-> FALSE]
    /\ logged' = logged \o before \o <<LogHttpRequest(n)>>
                        \o (IF now > since THEN <<LogPerformance(n)>> ELSE <<>>)
    /\ outcome' = [outcome EXCEPT ![n] = "ok"]

Answer(n, since) == AnswerAfter(n, since, <<>>)

(* The filter: the breaker it looks up, ... *)
LookedUp(c, e) ==
    IF e.class = "ExternalServiceException" THEN Registered(c, e.service, DefaultConfig)
    ELSE c

(* ... what it logs, ... *)
FilterLogsNothing(n) == <<>>    \* mistake: left to the interceptor

FilterLogs(n) == <<LogError("GlobalExceptionFilter", n),
                   Log("error", "GlobalExceptionFilter", n)>>

(* ... and what it answers. *)
Catch(n, e, before) ==
    LET info == ProcessException(e) IN
    /\ reply' = [status |-> info.status, code |-> info.code,
                 retryAfter |-> info.isRetryable]
    /\ logged' = logged \o before \o FilterLogs(n)
    /\ outcome' = [outcome EXCEPT ![n] = "failed"]

Throws(n, e) == Catch(n, e, <<LogError("HTTP Request", n)>>)

WithinBound ==
    requests + Cardinality({k \in DOMAIN logged : logged[k].request = 0}) < MaxRequests

Arrives == WithinBound /\ requests' = This

-----------------------------------------------------------------------------
(* A handler without a breaker throws. *)
UnguardedRoute(e) ==
    /\ Arrives
    /\ config' = LookedUp(config, e)
    /\ Throws(This, e)
    /\ UNCHANGED <<breaker, now, report, overlapped>>

(* The two handlers with one always throw; when the breaker is open, what  *)
(* is thrown is its plain Error. *)
GuardedRoutes == {[service |-> "database", guard |-> DatabaseConfig, error |-> DatabaseException],
                  [service |-> "redis", guard |-> RedisConfig, error |-> RedisException]}

GuardedRoute(r) ==
    LET s == r.service
        registered == Registered(config, s, r.guard)
    IN  /\ Arrives
        /\ \/ /\ RejectsAt(breaker[s], now)
              /\ config' = registered
              /\ Throws(This, PlainError("Circuit breaker is OPEN"))
              /\ UNCHANGED breaker
           \/ /\ ~RejectsAt(breaker[s], now)
              /\ breaker' = [breaker EXCEPT
                                ![s] = FailedAt(Admitted(@), registered[s], now)]
              /\ config' = LookedUp(registered, r.error)
              /\ Throws(This, r.error)
        /\ UNCHANGED <<now, report, overlapped>>

(* circuit-breaker-demo, which answers 200 whatever happens. *)
DemonstrateCircuitBreaker(shouldFail) ==
    LET s == "demo-service"
        registered == Registered(config, s, DefaultConfig)
        b == breaker[s]
    IN  /\ Arrives
        /\ config' = registered
        /\ breaker' = [breaker EXCEPT ![s] =
              IF RejectsAt(b, now) THEN b
              ELSE IF shouldFail THEN FailedAt(Admitted(b), registered[s], now)
              ELSE Succeeded(Admitted(b))]
        /\ Answer(This, now)
        /\ UNCHANGED <<now, report, overlapped>>

(* health and demo: resetting a breaker by its name, known or not. *)
ResetRoute(s) ==
    /\ Arrives
    /\ breaker' = [breaker EXCEPT ![s] = IF config[s] = Absent THEN @ ELSE Reset(@)]
    /\ Answer(This, now)
    /\ UNCHANGED <<config, now, report, overlapped>>

(* LoggingController, behind JwtAuthGuard and RolesGuard; guards come      *)
(* before the interceptors.  A query that fails is answered all the same.  *)
CanActivate(role, required) == role = required

LogsRoute(role) ==
    /\ Arrives
    /\ \/ role = "nobody" /\ Catch(This, HttpException(401), <<>>)
       \/ role # "nobody" /\ ~CanActivate(role, "admin") /\ Catch(This, HttpException(403), <<>>)
       \/ CanActivate(role, "admin") /\ Answer(This, now)
       \/ /\ CanActivate(role, "admin")
          /\ \E e \in {QueryFailed, StatsFailed} : AnswerAfter(This, now, <<e>>)
    /\ UNCHANGED <<breaker, config, now, report, overlapped>>

(* detailed and health-status: the request ends when its report does. *)
EndsWith(p) ==
    IF report'[p].at = Finished
    THEN Answer(report'[p].request, report'[p].since)
    ELSE UNCHANGED <<reply, logged, outcome>>

DetailedCheck(p) == Arrives /\ BeginReport(p, This) /\ EndsWith(p) /\ UNCHANGED now

HealthStep(p) ==
    /\ CheckAnswers(p) \/ CheckFails(p) \/ CheckWaits(p) \/ CheckAgain(p)
    /\ EndsWith(p)
    /\ UNCHANGED <<now, requests>>

(* bootstrap, and whatever code logs through Nest's logger. *)
OtherEntries == {Log("info", "Bootstrap", 0)} \cup {Log(level, "none", 0) : level \in Levels}

OtherCodeLogs ==
    /\ WithinBound
    /\ \E e \in OtherEntries : logged' = Append(logged, e)
    /\ UNCHANGED <<breaker, config, now, report, overlapped, requests, reply, outcome>>

Tick == /\ now < MaxTime
        /\ now' = now + 1
        /\ UNCHANGED <<breaker, config, report, overlapped, logged, requests, reply, outcome>>

Next == \/ \E e \in Errors : UnguardedRoute(e)
        \/ \E r \in GuardedRoutes : GuardedRoute(r)
        \/ \E shouldFail \in BOOLEAN : DemonstrateCircuitBreaker(shouldFail)
        \/ \E s \in Names : ResetRoute(s)
        \/ \E role \in {"nobody", "user", "admin"} : LogsRoute(role)
        \/ \E p \in Reports : DetailedCheck(p) \/ HealthStep(p)
        \/ OtherCodeLogs
        \/ Tick

Spec == Init /\ [][Next]_vars

-----------------------------------------------------------------------------
TypeOK ==
    /\ breaker \in [Names -> Breaker]
    /\ config \in [Names -> ConfigType \cup {Absent}]
    /\ now \in 0 .. MaxTime
    /\ report \in [Reports -> Report]
    /\ overlapped \subseteq Reports
    /\ logged \in Seq(LogEntry)
    /\ requests \in 0 .. MaxRequests
    /\ reply \in Reply
    /\ outcome \in [1 .. MaxRequests -> Outcomes]

(* An answer says to come back later when that can help, 503, and never    *)
(* when the request itself is at fault, whichever class was thrown.        *)
RetryAfterFits ==
    /\ reply.status = 503 => reply.retryAfter
    /\ reply.status \in 400 .. 499 => ~reply.retryAfter

(* A breaker of a guarded route has the configuration its decorator gives, *)
(* whatever errors of that service the filter was shown before: it files   *)
(* breakers of its own, under the names the exceptions carry.              *)
GuardsKeepTheirConfig ==
    \A r \in GuardedRoutes : config[r.service] \in {Absent, r.guard}

(* A query for errors finds every request that failed, in the handler or   *)
(* before it in a guard, and no request that did not: though three entries *)
(* are logged for a failure and other code logs errors too, as long as     *)
(* there are no more of them than the page a query has by default.         *)
LogTellsOutcomes ==
    LET errors == {k \in DOMAIN logged : logged[k].level = "error"}
        found == {logged[x[2]].request : x \in QueryLogs(Query("error", DefaultLimit, 0))}
        failed == {n \in 1 .. MaxRequests : outcome[n] = "failed"}
    IN  /\ found \subseteq failed \cup {0}
        /\ Cardinality(errors) =< DefaultLimit => failed \subseteq found

(* The statistics count each entry as often as any other, whoever logged   *)
(* it and at whatever level, as long as the page they read holds all of    *)
(* it: the shares of errors and of warnings are right, though the totals   *)
(* are not.                                                                *)
StatsWeighAlike ==
    LET stats == GetLogStats
        Share(count, level) ==
            count * Len(logged)
                = Cardinality({n \in DOMAIN logged : logged[n].level = level}) * stats.totalLogs
        rows == Rows(Query(Anything, StatsLimit, 0))
    IN  Cardinality(rows) =< StatsLimit =>
            Share(stats.errorCount, "error") /\ Share(stats.warningCount, "warn")
=============================================================================
