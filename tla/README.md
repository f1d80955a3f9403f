# Verification of the NestJS learning API

TLA+ models of the parts of this application that keep state, run
concurrently or recover from failure, model-checked with TLC, with proofs in
TLAPS. Paths below are relative to the repository (`src/common/...` is
`src/src/common/...` in `PROJECT.json`).

## 1. The system

A NestJS server for users: HTTP and gRPC routes over MySQL (TypeORM) and
Redis, with circuit breakers, retries, a cache and JWT sessions.

| Component | State | Operations | Talks to | Hard behaviour |
|---|---|---|---|---|
| Circuit breakers `common/circuit-breaker` | per service name: state, failureCount, lastFailureTime, nextAttemptTime; a map of them | `execute` (before and after its await), `reset`, `forceOpen`, `getCircuitBreaker` | interceptor, health checks, exception filter | calls admitted before a trip settle after it; the first configuration of a name wins; a partial configuration |
| Retry `common/retry` | attempt counter of one call | `executeWithRetry`, `calculateDelay` | users service, health checks | a write whose answer was lost is done twice |
| Users `modules/users` | table `users`; Redis `user:<id>`, `user:email:<email>`, `user-list:<query>` | create, findAll, findById, findByEmail, update, delete | table, CacheService, RetryUtil | check-then-write, fill after invalidation, partial failure between table and cache |
| Cache service `modules/cache/cache.service.ts` | Redis | get, mget, exists, keys; set, mset (always with a TTL), del, flush, incr, decr, expire | Redis | which operations swallow a failure (the reads) and which throw (the writes) |
| Sessions `modules/cache/session.service.ts` | Redis `session:<id>`, `blacklist:<id>` | create, get, updateActivity, destroy, destroyUserSessions, blacklist | CacheService | read-then-write of a session, TTLs in whole seconds |
| Authentication `modules/auth` | signed tokens held by clients | login, register, validateToken, logout, refreshToken, logoutAllSessions; JwtStrategy | users table, sessions | logout overlapping validation, refresh failing half way |
| gRPC notifications `modules/grpc` | map of notifications, map from users to Subjects, ids | send, get, markAsRead, delete; subscribe in two steps and its teardown | REST routes through `GrpcClientService`; stream clients | a stream dropped while a client still holds it; calls cut off after they took effect |
| gRPC users | one Subject of changes, never replaced | pass-through to the users service | users service | a cached user's dates are strings |
| Health checks `common/health` | map of checks | `getHealthStatus`, each check in a retry in a breaker | breakers, retry | reports overlap; the states they show were read before the checks ran |
| Exceptions, exception filter | none of their own | classify what was thrown; look a breaker up; log | breaker map (creates entries), log | lookup with the default configuration |
| Cache interceptor `modules/cache/interceptors` | Redis, under a key of user, route and query | look-up, handler, un-awaited write | cache service, any handler | late writes of old results; keys that clients have a part in |
| Logging `modules/logging` | log files | entries of interceptor, filter and other code; queries, statistics | HTTP requests, Nest's logger | one entry in several files, read back together |
| Others | | roles guard, performance interceptor, DTOs, configuration, demo, scripts | | stateless, or pure I/O |

What makes each component correct:

- *Breakers.* A failing service is cut off at the threshold and not earlier;
  a window, once opened, is served whole; it ends; whatever settles late.
- *Users.* What is cached, or told to a client, was committed, field by field;
  Redis never decides how a create ends; every request is answered; caches
  converge.
- *Sessions.* A blacklisted token is refused; only an overlapping activity
  brings an ended session back; a user's logout-all reaches all of that user's
  sessions and nobody else's.
- *Notifications.* A subscribed client gets each later notification of its
  user once and in order; a stream lives as long as somebody uses it.
- *Health.* A report that was refused by a breaker does not call the system
  healthy, and shows that breaker as open.
- *Answers.* A client is told to come back when that helps and only then;
  every failed request is found in the log, and the statistics weigh all
  entries alike.
- *Cache interceptor.* A handler runs once; no user gets what was made for
  another; what is stale is so for a bounded time.

`PROJECT.json` lists every hazard with its line and the properties that cover it.

## 2. Modules

| Module | What it is |
|---|---|
| `CircuitBreaker` | one breaker: a record and an operator for each synchronous section of the class |
| `CircuitBreakerService` | the map of breakers and the calls in flight; extends `CircuitBreaker`, implements `Gate` |
| `Gate` | abstract: what the breakers promise their callers |
| `UsersService` | requests to the users service and `register`, over table and cache; implements `Directory` |
| `Directory` | abstract: what the users service promises its clients |
| `Sessions` | calls to the auth service over the session service |
| `Broadcast` | abstract: what a stream of messages promises |
| `Notifications` | the notification service, its streams and the REST calls; implements `Broadcast` |
| `Exceptions` | the exception classes and the filter's choice of an answer; no state |
| `Retry` | which errors are tried again and the delays; no state |
| `Clock` | `Date.now()`, read by several parts |
| `HealthChecks` | overlapping health reports; extends `CircuitBreaker`, `Retry`, `Clock` |
| `LoggingService` | log entries, files, queries, statistics; extends `Clock` |
| `HttpServer` | composes `Exceptions`, `HealthChecks` and `LoggingService` into the HTTP application |
| `CacheService` | each method of the cache service on Redis; extends `Clock` |
| `CacheInterceptor` | concurrent requests over `CacheService` |
| `MC...` | instances of these for TLC |
| `...Proofs` | the theorems; those of `Sessions` are in `SessionsProofs` and `SessionsRevocationProofs` |

Some operators are marked "mistake": the definition below them as a slip would
have it. Put in that definition's place they break the property that
`PROJECT.json` pairs them with; no specification uses them.

### CircuitBreaker, CircuitBreakerService

`execute` is one synchronous section before its await (`RejectsAt`,
`Admitted`) and one after (`Succeeded` for `onSuccess`, `FailedAt` for
`onFailure`); `Reset` and `ForcedOpenAt` are the two other methods. A service
appears in the map with the first call or lookup that names it; `config[s]` is
`Absent` until then. `Admit` and `Reject` are the part of
`executeWithCircuitBreaker` before the await, `Succeed` and `Fail` the part
after it, in any order and in any state the breaker has moved to. `Lookup` is
the exception filter's. JavaScript's `undefined` is `NaN`: with it every
comparison is false.

`streak` is a history variable: the failures of a service since its last
success or reset, counted from the outcomes of the calls and not from the
code's counter. `lastFailureTime` is kept, `successCount` is not: nothing
depends on it. `forceOpen` has no caller in the repository; the instance of
the main run lets it be used, those of the disagreements do not.

`Gate` says the same with no states: for each service the failures in a row and
the time until which calls are refused. The mapping takes `streak` for the
first and `nextAttemptTime`, where it is a number, for the second. That it is a refinement says what the three states are worth to
callers: `HALF_OPEN` differs from `CLOSED` in nothing they can see, since it
limits no calls, a success leaves the count at 0 from either, and a failure
on top of a full count opens the breaker from either.

### UsersService

One action per await; the requests are chosen at the start and then interleave.
`pc[r]` names the await a request has reached. A database call can be answered,
fail before it takes effect (`down`) or after (`lost`); a Redis call can fail.
`Retry` and `GiveUp` are the two ways round the loop of `executeWithRetry`.
What the model takes from TypeORM (external): `save` of an entity without id
inserts under a fresh id; `save` with an id reads the row (`Save`), and then
writes the columns in which the object differed from it (`SaveRow`, `Updated`),
which does nothing if the row has gone meanwhile (`Missed`), or inserts the
object if there was no row, which fails if there is one by then (`Duplicate`);
`remove` unsets the entity's id (`RemoveClearsId`); a unique violation is an
error. `loaded[r]` is the row that a save has read. Cached list keys are sequences of their `:`-separated segments,
because `clearUserListCache` takes the last one of them. `register` of the auth
service writes the same table without a retry and without a cache
(`CheckRegistered`, `Register`).

`written`, `claimed`, `mine`, `deleted` and `knew` are history: rows ever held,
users an update returned whose UPDATE met no row, creates whose insert was
committed, deletes answered, and which of those a `findById` began after. Two
updates that overlap can leave a row with a field of each while each of them
caches its own object, which was never a row. So what can be said of a cached
user is said of its fields: it is `Known` when its email and its name have each
been in a row of its id, or in a claimed one.

`Directory` is what clients can tell: a table in which nothing is put beside
another row of its email, a history of rows, and for each request one answer. A write is acknowledged to
its request or lost on the way, and may be made once more when it was lost; the
request then ends with a success, or with the cache's error, exactly when it
was acknowledged (`Acked`). Reads are answered with known users of that id or
email, not necessarily with what the table holds; an update merges its fields
into such a user too. The row then keeps each column or takes it from the merged
user, which is what the client is told (`Revise`); or it is so already
(`Agree`), or gone, and inserted again or left alone (`Restore`, `Overlook`). In
the mapping a request's result is nothing until its write or its answer, and
the caches, the retries and the awaits are not seen at all.

### Sessions

One action per await of `login`, `validateToken`, `logout` (with the guard in
front of it), `refreshToken` and `logoutAllSessions`, down to the Redis call.
Time is in ticks, two to a second in the runs: JWTs expire on whole seconds,
`blacklistToken` rounds a TTL down to whole seconds, calls come in between.
`Tick` also drops the entries that have expired. `session[s]` keeps the user
and the deadline. `validateToken` reads the session twice (`GetSession`, then
`ReadSession` of `updateActivity`) and writes it in `Touch`.
`validateToken` and `logoutAllSessions` have no caller under `src/`; they are
public operations with tests, and are modelled as called by other modules.

History: `revoked` (when each token expires that has been blacklisted under a
session's id), `cut` (those of them for which a later logout, with a token that
expires sooner, has rewritten the one entry there is with a shorter TTL), `ended` (sessions a
logout destroyed), `revived` (written again when gone), `due` (validations
whose blacklist check was answered while a token of the session, not cut, was revoked
with at least a second to live), `targets` (the sessions a logout-all has to reach), `shaky`
(calls that met a Redis failure).

### Notifications, Broadcast

The methods of `GrpcNotificationService` have no await, so each is one action.
A subscription is two: the call, which finds or makes the Subject of its user
(`Subscribe`), and the subscription of the transport to the Observable it was
given (`Connect`), by when that Subject may be out of the map. `Teardown` drops
the map entry when the Subject has no observer left. A Subject is a number,
`streamOf` the map, `Observers` follow from the clients. REST calls go through
`GrpcClientService`: `Ask`, then the method runs (`Serve`, or `Refuse` when it
throws), then the answer comes (`Return`), and the transport can break at any
point in between (`Break`); the code retries none of them. `createdAt` is kept
because lists are sorted by it, stably, and cut into pages.

`Broadcast` has readers, topics, and an inbox for each reader; it may drop a
reader at any time, since the code does (a client that subscribes late is on a
Subject nobody pushes to). The mapping: topics are users, the log is `sentTo`,
the readers that have joined are the subscribed clients whose Subject is in the
map.

### HttpServer: Exceptions, HealthChecks, LoggingService, Retry

`Exceptions` has an operator for each constructor and for each handler of the
filter, with `ProcessException` for the order of its `instanceof` tests.
`HealthChecks` runs a report check by check: `BeginReport` reads the states
to be shown, `CheckAnswers`, `CheckFails`, `CheckWaits` and `CheckAgain` are
what the awaited check can do inside its retry; `ComeTo` passes over the checks
whose breakers refuse and is admitted to the next one. `LoggingService` is a
sequence of entries and functions from it: which file takes an entry, what a
query reads back and at what page, what the statistics count, and what either
logs and answers when a file cannot be read. Levels are a constant: the service
logs any, and so does other code by way of Nest's logger.

`HttpServer` is one action per kind of route, each with all that its request
does on the way: guards, interceptors, breaker, handler, filter, log. Only
health reports wait for something, so only they take several steps. The
handlers that throw stand for all routes that do; which exceptions is
the constant `Errors`. `OtherCodeLogs` is an entry that is about no request: the
one of `main.ts`, or one of Nest's logger, at any level.

### CacheInterceptor, CacheService

`CacheService` has one operator per Redis command. `mset` is a pipeline whose
commands can fail singly; `incr` of a missing key makes one without expiry.
A request of the interceptor is `Intercept`, `LookUp`, `Handle`, `Respond` and
`Fill`; the last is the write nobody awaits and comes at any time after the
answer. A key is the sequence of what its ':' separate: the key of `@Cache`
(`Base`, by default the bare name of the method, which two controllers may
share), the user, the route's parameters and the query's. Names and values of
parameters are sequences themselves, because a client may write ':' into them,
and may name a parameter `user`. `Change` is new data for the handler, `Operate` the cache controller,
`UseCounter` other code with keys of its own. `longest` is history: the longest
a result has taken from its read to the cache.

## 3. Runs

| Run | Result | Instance |
|---|---|---|
| `breaker` | passes | one service, 3 calls, thresholds 3 and 2, recovery 2 and 1, clock to 4, at most 5 failures counted |
| `breaker_half_open` | violated | same, nobody forces a breaker open |
| `breaker_partial_config` | violated | a configuration with a threshold alone |
| `users` | passes | 3 requests, 3 ids, 2 emails, 2 names, 1 list query, all failures |
| `users_lists` | violated | list queries and renames, no failure |
| `users_deleted` | violated | findById and delete, `remove()` leaving the id |
| `sessions` | passes | 3 calls, 2 users with a session each, a third id, 5 ticks, Redis failing |
| `sessions_sliding` | violated | same, Redis answering |
| `sessions_blacklist` | violated | same, Redis answering |
| `notifications` | passes | 2 clients, 2 users, 1 REST slot, 2 notifications, 3 Subjects, pages of 1 and 2 |
| `http` | passes | 3 requests or entries of other code, 3 levels, 20 exceptions, 7 breakers, 2 reports over 2 checks, clock to 1 |
| `cache` | passes | 2 requests, 2 handlers of one key, 2 users and nobody, 1 counter, 1 change of the data, TTL 1, clock to 2 |

**breaker.** `ClosedBelowThreshold`, `WindowServed`, `RefusalEndsByTimeOrReset`,
`TripIsEarned`, the refinement `ImplementsGate`, and the liveness property
`EventuallyProbed`. Three calls are
enough for two to open the breaker while the third is still running; the clock
reaches past a second window after the first one. One service is enough for
TLC: the breakers of different services share no state, and the theorems are
for any set of them. `MaxTime` and `MaxFailures` stop the clock and the counter.

**users.** `CachesHoldCommittedFields`, `CreateEndsAsItsSave`, the
refinement `ImplementsDirectory`, and the liveness properties
`EveryRequestAnswered` and `EventuallyCoherent`. The slots are a writer (create,
move to another email, rename, delete), any request or a `register`, and a `findById`: a
writer against a writer with a reader across both. A move and a rename are the
two updates whose columns can mix in a row. Three ids leave room for
the second row that a retried insert could make. Requests are finitely many, so
the system stops: deadlock is not checked.

**sessions.** `RevocationHolds`, `OnlyRevivedReturn`, `LogoutAllReaches`,
`EndsForAReason`. The slots are a validation or a login; a logout, refresh or
logout-all; and any of validate, logout and refresh, also with the tokens of
the session that the run makes. Two logouts of one session, with its refresh
token and with its access token in either order, are among them, which is
where one entry of the blacklist has to serve two tokens. TTLs keep the order of the code's: window <
access token < session < refresh token (1, 2, 3, 4 seconds). Within the 5
ticks access tokens and windows expire; refresh tokens, and sessions nobody
touched, do not. The calls and the clock are bounded, so deadlock is not checked.

**notifications.** `MissesNothing`, `CutOffOnlyAfterLate`, `StreamsAreUsed`,
`PagesCoverOnce`, `AtMostOnce`, and the refinement `ImplementsBroadcast`. Two
clients are enough for one to be late on a Subject out of the map, the other to
be on the Subject made since, and the first to cut the second off when it
leaves: `CutOffOnlyAfterLate` says that this is the only way. The third Subject
is the one made after that. Two notifications tell an order. Users and clients
are interchangeable (symmetry); no liveness is checked here.

**http.** `RetryAfterFits`, `GuardsKeepTheirConfig`,
`RefusedShows`, `LogTellsOutcomes`, `StatsWeighAlike`. Three requests are two
reports and a third thing between them, or two failures that open a breaker
and a call it refuses. The entries about no request count against the same
bound (`WithinBound`). One check is made by the service, one is a registered
function that may reject. `DefaultLimit` is 7 and `StatsLimit` 12 (the code's
are 100 and 10000): three failing requests log nine errors, each read three
times by the statistics, so that pages below, at and above their limit occur;
a failed request beside one that was not, or three entries of other code, fit.
Levels are the three that the
statistics count; a fourth would be as `warn` to everything but them.

**cache.** `HandlerRunsOnce`, `AnswersItsUser`, `BoundedStaleness`, and the
action property `TTLsAreKept`. Two requests are enough for the older result to
overwrite the newer one; the clock goes a tick past the TTL. The asks are two
users' for one list, and one that nobody makes, to a handler of the same name,
with a query that gives it the very key of the first user: what one of those
two cached the other is answered with. `AnswersItsUser` leaves that pair out,
and holds for the users. The cache is not
refreshed when the data change: the bound on staleness is all that is promised.

These three stop at their bounds, so deadlock is not checked.

### Disagreements between code and documentation

1. *A failing half-open call need not reopen the breaker*
   (`HalfOpenFailureReopens`, docs/modules/error-handling.md:700). A success
   that arrives while the breaker is open clears the failure count.
2. *A breaker with a partial configuration never refuses* (`OpenFailsFast`,
   common/error-handling/README.md:59, circuit-breaker.ts:6): the missing
   recovery time makes the deadline NaN.
3. *Cached lists are never cleared* (`ListsCleared`, users.service.ts:311).
4. *A deleted user can be found again* (`DeletedIsGone`, design.md:249):
   a read that overlaps the delete fills the cache after it was cleared.
5. *The first activity shortens a session* (`SlidingExtends`,
   session.service.ts:102): 24 hours become 30 minutes.
6. *A blacklist entry goes before its token* (`BlacklistedUntilExpiry`,
   docs/modules/auth.md:922): its TTL is rounded down.

Each is a property that one run checks alone and finds violated.
`EventuallyCoherent` bounds 3 and 4: no stale entry outlives its TTL.
`RevocationHolds` bounds 6: the gap is less than a second, unless a later
logout has cut the entry short.

Also seen, without a run of their own:

- `@DatabaseCircuitBreaker` and `@RedisCircuitBreaker` on methods of
  `UsersService` have no effect: the interceptor reads the metadata of route
  handlers. The same holds of `@Performance`.
- The exceptions name their services "Database" and "Redis", the decorators
  "database" and "redis": the breaker whose status the filter logs is one that
  nobody calls through. `GuardsKeepTheirConfig` depends on that difference.
- An open breaker's refusal is a plain `Error`: it is answered with 500 and no
  Retry-After.
- Nothing under `src/` registers a health check, so the detailed report is
  always healthy. `retry-demo` never retries.
- The breakers and retries around the checks that the service makes never see
  a failure, since those checks turn every error into a result: against
  health-check.service.ts:51 ("Use circuit breaker for health checks", with a
  threshold of 3) and common/error-handling/README.md:115 ("Comprehensive
  health monitoring with circuit breaker integration"), no such breaker opens.
- Two updates that overlap cache, and answer with, a user that was never a row
  (users.service.ts:241): `Directory` says of it that its fields were.
- A logout with the refresh token, and then one with the access token of that
  session, leaves the refresh token blacklisted for the access token's life only
  (session.service.ts:210): the history `cut`. `BlacklistedUntilExpiry` would be
  violated by this too.
- Log queries cannot filter by module, and the average response time is always
  0: the log format moves those fields below `metadata`. That is against
  modules/logging/README.md:101 and logging.service.spec.ts:237. A query
  without a level finds each entry three times, as do the statistics;
  `StatsWeighAlike` says that the shares of errors and warnings are right all
  the same.
- The keys of the cache interceptor are joined with ':'. Users' keys are apart,
  but a request that no user makes can have the key of a user's by its query
  (`?user=7`), and handlers of one name in two controllers share theirs
  (cache.decorator.ts:18). A cached `null` never hits.
- `GetUser`, `ListUsers` and `UpdateUser` over gRPC throw on a user that came
  from the cache, whose dates are strings; for `UpdateUser` that is after the
  commit, and no event is sent.
- A `register` that loses the race for an email is answered as a failed query
  (400), not as a conflict.

### Fairness

- `CircuitBreakerService`: weak fairness of the clock and of each call's
  settling (a protected function that hangs forever is not covered: the code
  has no timeout), strong fairness of the arrival of requests for each service.
  Nobody is obliged to reset.
- `UsersService`: weak fairness of "some request takes a step" and of "some
  entry expires". Every await is answered with a result or an error, and TTLs
  run out. Requests and the entries they write are finitely many, so neither
  can go on without the other.
- The other specifications state no fairness. In `Notifications` nobody has to
  call or connect; in `HttpServer` a check may hang, since the code sets no
  timeout around one; in `CacheInterceptor` a handler may. `BoundedStaleness`
  bounds by time what would otherwise be a liveness property. The clock of
  `Sessions` stops at `MaxTime`.

## 4. Proofs

`CircuitBreakerServiceProofs` proves, for any services, calls and
configurations (partial ones included), the refinement of `Gate` and five
theorems: `TypeCorrect`,
`ClosedMeansBelowThreshold`, `WindowAlwaysServed`,
`RefusalEndsOnlyByTimeOrReset` and `OpeningsAreEarned`, for the five safety
properties of run `breaker`. The assumptions are those the modules state about
their constants: NaN is not a number, configurations are of `ConfigType` with
the default among them, and the bounds are natural numbers.

None of the properties is inductive by itself. The invariant `Inv` is per
breaker: `Sound(b, cfg, k, t)` says that the counter equals the history
`streak`, that a closed breaker is below its threshold, that a breaker which is
not open has served its window, and that the deadline lies at most one recovery
time ahead. The last part is what shows that a failure which comes late, on a
breaker already open, moves the deadline only forward. A name that is not in
the map has a new breaker, and every running call has its breaker in the map.
One lemma per synchronous section shows that it keeps `Sound` (`AdmittedSound`,
`SucceededSound`, `FailedSound`, `ForcedOpenSound`, `TimeSound`); `OneService`
lifts them to the map; `NextInv` has one step per action. The action properties
follow from `Inv` and what each section does to one breaker (`RefusalKept`).
For `BreakersImplementGate`, the count of a sound breaker is the run of
failures, and each section moves the time until which it refuses as `Gate` does
(`AdmittedKeepsGate`, `FailedShuts` and the like); `GateNext` has one step per action.

`SessionsProofs` proves `EndedOnlyRevived` (for `OnlyRevivedReturn`) and
`SessionsEndForAReason` (for `EndsForAReason`), for any calls, users, session
ids, TTLs and failures of Redis. They assume what `Sessions` states of its
constants: calls are well formed, TTLs and `Second` are positive, and `None` is
none of the things it stands in for. That `uuidv4()` returns an unused id is
part of the model (`NewId`). The invariant `IInv` adds to `OnlyRevivedReturn`:

- `Tokens`: tokens are signed before anybody holds them, what has ended was
  held, and a stored session is its token's user's;
- `Fresh`: the id a login or a refresh has made is signed for that call alone
  and nobody holds it before its session is stored;
- `Doing`: where each call can be, that it has a token somebody holds, and that
  the sessions a scan has kept belong to its user.

So a created session is never one that has ended (`CreateInv`), and a write of
`updateActivity` over an ended one is recorded (`TouchInv`). A session's user is
fixed by its tokens, which is why a scan's snapshot, however old, never leads
to another user's session.

`SessionsRevocationProofs` builds on that invariant and proves
`RevokedStaysRefused` (`RevocationHolds`), `LogoutAllReachesAll`
(`LogoutAllReaches`) and `TypeCorrect`. For the first, `Lasting`: an entry of
the blacklist lasts for all but the last second, the one that rounding takes
away, of every token blacklisted under it that no later logout has cut. For `LogoutAllReaches`, what a
sweep still owes: each target is gone, revived, or still among the keys or
the sessions that the call has yet to destroy.

`UsersServiceProofs` proves the three safety properties of run `users`, and the
refinement of `Directory` (`ServiceImplementsDirectory`). The invariant is about the table (`RowsWritten`: a row is under its own id and in
the history), the caches, and each request alone (`Local`): at which awaits its
operation can be (`Placed`), that what it is about to cache, or to merge fields
into, is known under its id or email (`Carries`), and whether its own
insert was committed (`Inserted`). A step of one request keeps what is said of the others
because what is known stays known. The object of an update becomes known when
its UPDATE is done: a column it wrote is in the row it has left, one it did not
write was in the row it had read, and if there was no row it is claimed. For the refinement a step is of one
of a few kinds, each with its lemma: before the write (`Preparing`,
`FailsBefore`), the write (`Writes`), after it (`Trailing`), or a read (`Tells`,
`Misses`); no step changes what another request can tell (`Visible`).

`NotificationsProofs` proves every property of run `notifications`, the
refinement among them. The invariant's heart is `Owned`: the Subject a client holds is in the map under
that client's user or under nobody, and a Subject that has left the map never
comes back. So those a notification is pushed to are exactly the readers that
have joined, which is what each step of `Broadcast` needs. For `PagesCoverOnce` a
notification's position in the sorted list is the number of those before it;
positions are all different and fill an initial segment, and exactly one page
covers each.

`HttpServerProofs` proves every property of run `http`. For `RefusedShows` the invariant
says of a report that runs alone that the breakers of the checks it has yet to
reach are open only if it has shown them so (`Expected`): only a report fails a
check, and another one would have marked both (`Apart`).
`GuardsKeepConfigurations` assumes that no exception carries the name of a
guarded route's breaker, which is how the code is and nothing in it enforces. For `LogTellsOutcomes` and
`StatsWeighAlike` the invariant `LogInv` says that each failed request has an
error in the log, that errors are of failed requests or of none, and that a
report has left nothing before it ends; the rows of a query are pairs of a file
and a line, so the statistics are cardinalities of products, three files to
each entry of whatever level, and a page with room for all rows holds them all.

`CacheInterceptorProofs` proves `TypeOK`, `HandlerRunsOnce`, `BoundedStaleness`,
`TTLsAreKept` and `AnswersItsUser`. `Read` says that what a request has read
was the newest then; `Cached` turns that into the bound when the result is
written, for each entry alone, so that the order of writes does not matter.
`AnswersItsUser` rests on `KeysOfUsersDiffer`: a user's key is one of `@Cache`,
then "user", then the user, then whatever the client chose. It assumes of ids
that they hold no ':' (they are uuids), and of the keys of `@Cache` that none
goes on with "user" where another ends (`BaseAssumption`); of the query it
assumes nothing. Then what is filed under a key was made for an ask of that key
(`Filed`).

Some of these rest on sequences and sets of any size (pages, logs, keys). Where
an induction would be used, the proofs take a least counterexample instead
(`Least`), or the theorems on finite sets that the library has proved.

`RetryProofs` proves that no delay is more than a quarter over the cap.

Only model-checked: liveness (`EventuallyProbed`, `EveryRequestAnswered`,
`EventuallyCoherent`), which is out of the prover's reach, and the six
violations.

## 5. Not modelled

- *gRPC users*: each method is one call of `UsersService`, followed without an
  await by a mapping of fields and a push on one Subject that is never
  replaced. That a cached user has its dates as strings is a matter of types.
- *Performance interceptor*: no route handler carries its decorator.
- *DTO validation, messages and details of answers, the search in logs,
  configuration, seeds, migrations, files, documentation scripts*: stateless or
  pure I/O. Password hashes, a user's files and search filters are left out of
  `UsersService`; a session's other fields and the statistics out of
  `Sessions`; null results out of `CacheInterceptor`.
- *Passport*: the guard of the HTTP routes (`JwtStrategy`) reads only the
  token's expiry and the user's row; it is modelled where it stands in front of
  `logout`.
- A protected function, a check or a handler that never settles: there is no
  timeout in the code to model.

## 6. Order of the development, and what is left

`CircuitBreaker`, `CircuitBreakerService`, `UsersService` and `Sessions` came
first, with the first proofs; then `Notifications` as a refinement of
`Broadcast`, `HttpServer` with the parts it composes, `CacheInterceptor` over
`CacheService`, `register`, the proofs of the safety properties, and `Gate` and
`Directory` with the proofs that they are implemented. Left:

1. An abstract specification for `Sessions`, as `Gate` and `Directory` are for
   their parts: what a client can tell of its tokens.
2. The routes of users and sessions through `HttpServer`, so that the answers
   of those services meet the filter in one model.
3. The stream of user changes over gRPC, whose order of events can differ from
   that of the commits.
