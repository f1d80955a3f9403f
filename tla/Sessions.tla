------------------------------ MODULE Sessions ------------------------------
(***************************************************************************)
(* AuthService over SessionService: sessions and revoked tokens in Redis,  *)
(* concurrent calls, one action per await.  A login or a refresh signs an  *)
(* access and a refresh token that name one session.  A Redis entry is     *)
(* gone when its TTL has run out; a Redis call may fail.                   *)
(*                                                                         *)
(* Time is counted in ticks, Second of them to a second: tokens expire on  *)
(* whole seconds and TTLs are whole seconds, calls come in between.  TTLs  *)
(* are constants in seconds.                                               *)
(*                                                                         *)
(* Left out: what the session records beside its user, register, the       *)
(* statistics.  A user lookup may find none, an inactive one, or fail.     *)
(*                                                                         *)
(* An operator marked "mistake" is the one below it as a slip would have   *)
(* written it; put in its place, it breaks a property.                     *)
(***************************************************************************)
EXTENDS Integers

CONSTANTS Requests,       \* the slots for concurrent calls
          Menu,           \* [Requests -> sets of calls], what may be asked
          Users,
          Sessions,       \* the bound on session ids
          LoggedIn,       \* [Sessions -> user or None], the logins made at time 0
          Second, MaxTime,
          AccessTTL, RefreshTTL, SessionTTL, SlidingWindow,
          RedisUp,        \* {TRUE}, or BOOLEAN when a Redis call may fail
          None

(* Sessions in Redis and the claims of tokens are records; a call names a  *)
(* user or carries a token, as its operation asks for.                     *)
SessionData == [user : Users, expires : Nat]
Claims == [user : Users, iat : Nat]

TokenOps == {"validate", "logout", "refresh"}
UserOps == {"login", "logoutAll"}
Kinds == {"access", "refresh"}
Call == [op : TokenOps, user : {None}, sid : Sessions, kind : Kinds]
        \cup [op : UserOps, user : Users, sid : {None}, kind : Kinds]

ASSUME SessionsAssumption ==
    /\ LoggedIn \in [Sessions -> Users \cup {None}]
    /\ \A r \in Requests : Menu[r] \subseteq Call
    /\ Second \in Nat \ {0} /\ MaxTime \in Nat
    /\ {AccessTTL, RefreshTTL, SessionTTL, SlidingWindow} \subseteq Nat \ {0}
    /\ RedisUp \subseteq BOOLEAN

ASSUME NoneAssumption ==
    None \notin Users \cup Sessions \cup SessionData \cup Claims

VARIABLES now,
          session,    \* [Sessions -> Entry or None], keys session:<id>
          blacklist,  \* [Sessions -> Nat], when blacklist:<id> expires, 0 if not there
          signed,     \* [Sessions -> [user, iat] or None], what the tokens say
          held,       \* the sessions whose tokens a client was given
          pc,         \* [Requests -> Labels], the await each call is at
          call,       \* [Requests -> Call], what was asked
          new,        \* [Requests -> Sessions or None], the id login or refresh made
          read,       \* [Requests -> user or None], the session updateActivity read
          ttl,        \* [Requests -> Nat], the TTL blacklistToken computed
          keys, mine, \* [Requests -> SUBSET Sessions], getUserSessions' loop
          answer,     \* [Requests -> Answers]
          revoked,    \* history: [Sessions -> SUBSET Nat], when blacklisted tokens expire
          cut,        \* history: those of them that a later logout cut short
          ended,      \* history: sessions that a logout destroyed
          revived,    \* history: sessions written again when they were gone
          due,        \* history: calls whose token was revoked when it was checked
          targets,    \* history: [Requests -> SUBSET Sessions], what logoutAll owes
          shaky       \* history: calls that have met a failure of Redis

store == <<session, blacklist>>
locals == <<call, new, read, ttl, keys, mine>>
history == <<revoked, cut, ended, revived, due, targets, shaky>>
vars == <<now, store, signed, held, pc, answer, locals, history>>

Labels == {"idle", "findUser", "create", "isBlacklisted", "getSession", "readSession",
           "touch", "destroy", "blacklist", "keys", "scan", "destroyEach", "done"}
Answers == {"none", "ok", "unauthorized", "error"}

(* What SETEX stores. *)
EntryInTicks(u, seconds) ==    \* mistake: seconds converted twice
    [user |-> u, expires |-> now + seconds * Second * Second]

Entry(u, seconds) == [user |-> u, expires |-> now + seconds * Second]

Init == /\ now = 0
        /\ session = [s \in Sessions |->
              IF LoggedIn[s] = None THEN None ELSE Entry(LoggedIn[s], SessionTTL)]
        /\ blacklist = [s \in Sessions |-> 0]
        /\ signed = [s \in Sessions |->
              IF LoggedIn[s] = None THEN None ELSE [user |-> LoggedIn[s], iat |-> 0]]
        /\ held = {s \in Sessions : LoggedIn[s] # None}
        /\ pc = [r \in Requests |-> "idle"]
        /\ call \in [Requests -> UNION {Menu[r] : r \in Requests}]
        /\ \A r \in Requests : call[r] \in Menu[r]
        /\ new = [r \in Requests |-> None]
        /\ read = [r \in Requests |-> None]
        /\ ttl = [r \in Requests |-> 0]
        /\ keys = [r \in Requests |-> {}]
        /\ mine = [r \in Requests |-> {}]
        /\ answer = [r \in Requests |-> "none"]
        /\ revoked = [s \in Sessions |-> {}]
        /\ cut = [s \in Sessions |-> {}]
        /\ ended = {}
        /\ revived = {}
        /\ due = {}
        /\ targets = [r \in Requests |-> {}]
        /\ shaky = {}

-----------------------------------------------------------------------------
(* JWT: iat and exp are whole seconds; verify compares whole seconds too.  *)
Exp(s, kind) ==
    Second * (signed[s].iat + IF kind = "access" THEN AccessTTL ELSE RefreshTTL)

Verifies(c) == now < Exp(c.sid, c.kind)

(* blacklistToken: the seconds left, rounded down. *)
Largest(a, b) == IF a > b THEN a ELSE b

SecondsLeftOfHalf(t) == Largest(0, (t - now) \div (2 * Second))    \* mistake: the wrong unit

SecondsLeft(t) == Largest(0, (t - now) \div Second)

Unused == {s \in Sessions : signed[s] = None}

(* uuidv4(), for login and for refresh alike. *)
KeptId(r) == IF call[r].op = "refresh" THEN call[r].sid ELSE CHOOSE s \in Unused : TRUE
                                       \* mistake: a refresh keeps its session's id

NewId(r) == CHOOSE s \in Unused : TRUE

Goto(r, label) == pc' = [pc EXCEPT ![r] = label] /\ UNCHANGED answer

Answer(r, a) == pc' = [pc EXCEPT ![r] = "done"] /\ answer' = [answer EXCEPT ![r] = a]

(* A Redis call of r that fails. *)
RedisFails(r) == FALSE \in RedisUp /\ shaky' = shaky \cup {r}

RedisAnswers == TRUE \in RedisUp /\ UNCHANGED shaky

-----------------------------------------------------------------------------
(* A call arrives.  A token that does not verify is refused at once. *)
FirstLabel == [login |-> "findUser", logout |-> "findUser", refresh |-> "findUser",
               validate |-> "isBlacklisted", logoutAll |-> "keys"]

Begin(r) ==
    /\ pc[r] = "idle"
    /\ call[r].sid # None => call[r].sid \in held
    /\ IF call[r].sid = None \/ Verifies(call[r])
       THEN Goto(r, FirstLabel[call[r].op])
       ELSE Answer(r, "unauthorized")
    /\ UNCHANGED <<now, store, signed, held, locals, history>>

(* The user lookup of every call; in a logout it is JwtStrategy's, before  *)
(* the controller's logout, which verifies the token once more and, when   *)
(* that fails, is answered as a success.  login and refresh go on to sign  *)
(* their tokens.                                                           *)
SignFor(r, u) ==
    /\ Unused # {}
    /\ new' = [new EXCEPT ![r] = NewId(r)]
    /\ signed' = [signed EXCEPT ![NewId(r)] = [user |-> u, iat |-> now \div Second]]
    /\ Goto(r, "create")

FindUser(r) ==
    /\ pc[r] = "findUser"
    /\ \/ Answer(r, "unauthorized") /\ UNCHANGED <<signed, new>>
       \/ call[r].op = "validate" /\ Answer(r, "ok") /\ UNCHANGED <<signed, new>>
       \/ call[r].op = "login" /\ SignFor(r, call[r].user)
       \/ call[r].op = "refresh" /\ SignFor(r, signed[call[r].sid].user)
       \/ /\ call[r].op = "logout"
          /\ IF Verifies(call[r]) THEN Goto(r, "destroy") ELSE Answer(r, "ok")
          /\ UNCHANGED <<signed, new>>
    /\ UNCHANGED <<now, store, held, call, read, ttl, keys, mine, history>>

(* createSession.  A refresh then destroys the session of its old token. *)
Create(r) ==
    /\ pc[r] = "create"
    /\ \/ /\ RedisAnswers
          /\ session' = [session EXCEPT ![new[r]] = Entry(signed[new[r]].user, SessionTTL)]
          /\ IF call[r].op = "login"
             THEN Answer(r, "ok") /\ held' = held \cup {new[r]}
             ELSE Goto(r, "destroy") /\ UNCHANGED held
       \/ /\ RedisFails(r)
          /\ Answer(r, IF call[r].op = "login" THEN "error" ELSE "unauthorized")
          /\ UNCHANGED <<session, held>>
    /\ UNCHANGED <<now, blacklist, signed, locals, revoked, cut, ended, revived, due, targets>>

-----------------------------------------------------------------------------
(* validateToken.  exists and get read a failure as "not there". *)
IsBlacklisted(r) ==
    /\ pc[r] = "isBlacklisted"
    /\ \/ /\ RedisAnswers
          /\ IF blacklist[call[r].sid] # 0
             THEN Answer(r, "unauthorized") ELSE Goto(r, "getSession")
          /\ due' = IF \E t \in revoked[call[r].sid] \ cut[call[r].sid] : now + Second =< t
                    THEN due \cup {r} ELSE due
       \/ RedisFails(r) /\ Goto(r, "getSession") /\ UNCHANGED due
    /\ UNCHANGED <<now, store, signed, held, locals, revoked, cut, ended, revived, targets>>

GetSession(r) ==
    /\ pc[r] = "getSession"
    /\ \/ /\ RedisAnswers
          /\ IF session[call[r].sid] # None
             THEN Goto(r, "readSession") ELSE Answer(r, "unauthorized")
       \/ RedisFails(r) /\ Answer(r, "unauthorized")
    /\ UNCHANGED <<now, store, signed, held, locals, revoked, cut, ended, revived, due, targets>>

(* updateActivity reads the session once more, and writes all of it. *)
ReadSession(r) ==
    /\ pc[r] = "readSession"
    /\ \/ /\ RedisAnswers /\ session[call[r].sid] # None
          /\ read' = [read EXCEPT ![r] = session[call[r].sid].user]
          /\ Goto(r, "touch")
       \/ /\ RedisAnswers /\ session[call[r].sid] = None
          /\ Answer(r, "unauthorized") /\ UNCHANGED read
       \/ RedisFails(r) /\ Answer(r, "unauthorized") /\ UNCHANGED read
    /\ UNCHANGED <<now, store, signed, held, call, new, ttl, keys, mine,
                   revoked, cut, ended, revived, due, targets>>

Touch(r) ==
    /\ pc[r] = "touch"
    /\ \/ /\ RedisAnswers
          /\ session' = [session EXCEPT ![call[r].sid] = Entry(read[r], SlidingWindow)]
          /\ revived' = IF session[call[r].sid] = None
                        THEN revived \cup {call[r].sid} ELSE revived
          /\ Goto(r, "findUser")
       \/ RedisFails(r) /\ Answer(r, "unauthorized") /\ UNCHANGED <<session, revived>>
    /\ read' = [read EXCEPT ![r] = None]
    /\ UNCHANGED <<now, blacklist, signed, held, call, new, ttl, keys, mine,
                   revoked, cut, ended, due, targets>>

-----------------------------------------------------------------------------
(* destroySession, of a logout or a refresh.  logout goes on to blacklist  *)
(* the token, unless less than a second is left of it, and swallows every  *)
(* error.                                                                  *)
Destroy(r) ==
    LET left == SecondsLeft(Exp(call[r].sid, call[r].kind)) IN
    /\ pc[r] = "destroy"
    /\ \/ /\ RedisAnswers
          /\ session' = [session EXCEPT ![call[r].sid] = None]
          /\ \/ call[r].op = "logout" /\ left > 0 /\ Goto(r, "blacklist") /\ UNCHANGED held
             \/ call[r].op = "logout" /\ left = 0 /\ Answer(r, "ok") /\ UNCHANGED held
             \/ call[r].op = "refresh" /\ Answer(r, "ok") /\ held' = held \cup {new[r]}
          /\ ttl' = [ttl EXCEPT ![r] = IF call[r].op = "logout" THEN left ELSE 0]
          /\ ended' = IF call[r].op = "logout" THEN ended \cup {call[r].sid} ELSE ended
       \/ /\ RedisFails(r)
          /\ Answer(r, IF call[r].op = "logout" THEN "ok" ELSE "unauthorized")
          /\ UNCHANGED <<session, held, ttl, ended>>
    /\ new' = [new EXCEPT ![r] = None]
    /\ UNCHANGED <<now, blacklist, signed, call, read, keys, mine,
                   revoked, cut, revived, due, targets>>

Blacklist(r) ==
    LET id == call[r].sid
        expiry == Exp(id, call[r].kind)
    IN
    /\ pc[r] = "blacklist"
    /\ \/ /\ RedisAnswers
          /\ blacklist' = [blacklist EXCEPT ![id] = now + ttl[r] * Second]
          /\ revoked' = [revoked EXCEPT ![id] = @ \cup {expiry}]
          /\ cut' = [cut EXCEPT ![id] = {t \in revoked[id] : t > expiry}]
       \/ RedisFails(r) /\ UNCHANGED <<blacklist, revoked, cut>>
    /\ Answer(r, "ok")
    /\ ttl' = [ttl EXCEPT ![r] = 0]
    /\ UNCHANGED <<now, session, signed, held, call, new, read, keys, mine,
                   ended, revived, due, targets>>

-----------------------------------------------------------------------------
(* logoutAllSessions: KEYS session:*, then each session in turn, keeping   *)
(* the user's, then a del for each of those.  A failure of KEYS reads as   *)
(* no keys, of a get as no session; of a del it ends the call.             *)
Keys(r) ==
    /\ pc[r] = "keys"
    /\ \/ RedisAnswers /\ keys' = [keys EXCEPT ![r] = {s \in Sessions : session[s] # None}]
       \/ RedisFails(r) /\ UNCHANGED keys
    /\ targets' = [targets EXCEPT ![r] = {s \in Sessions :
                      session[s] # None /\ session[s].user = call[r].user}]
    /\ Goto(r, "scan")
    /\ UNCHANGED <<now, store, signed, held, call, new, read, ttl, mine,
                   revoked, cut, ended, revived, due>>

OwnedByAnyone(s, u) == session[s] # None    \* mistake: no comparison of the user

Owned(s, u) == session[s] # None /\ session[s].user = u

Scan(r) ==
    /\ pc[r] = "scan"
    /\ \/ \E s \in keys[r] :
             /\ \/ RedisAnswers /\ mine' = [mine EXCEPT ![r] =
                                     IF Owned(s, call[r].user) THEN @ \cup {s} ELSE @]
                \/ RedisFails(r) /\ UNCHANGED mine
             /\ keys' = [keys EXCEPT ![r] = @ \ {s}]
             /\ UNCHANGED <<pc, answer>>
       \/ keys[r] = {} /\ Goto(r, "destroyEach") /\ UNCHANGED <<keys, mine, shaky>>
    /\ UNCHANGED <<now, store, signed, held, call, new, read, ttl,
                   revoked, cut, ended, revived, due, targets>>

DestroyFirst(r) ==    \* mistake: the call returns after the first del
    /\ pc[r] = "destroyEach" /\ mine[r] # {}
    /\ \E s \in mine[r] : session' = [session EXCEPT ![s] = None]
    /\ mine' = [mine EXCEPT ![r] = {}]
    /\ Answer(r, "ok")
    /\ UNCHANGED <<now, blacklist, signed, held, call, new, read, ttl, keys, history>>

DestroyEach(r) ==
    /\ pc[r] = "destroyEach"
    /\ \/ \E s \in mine[r] : /\ RedisAnswers
                             /\ session' = [session EXCEPT ![s] = None]
                             /\ mine' = [mine EXCEPT ![r] = @ \ {s}]
                             /\ UNCHANGED <<pc, answer>>
       \/ /\ mine[r] # {} /\ RedisFails(r) /\ Answer(r, "error")
          /\ mine' = [mine EXCEPT ![r] = {}] /\ UNCHANGED session
       \/ mine[r] = {} /\ Answer(r, "ok") /\ UNCHANGED <<session, mine, shaky>>
    /\ UNCHANGED <<now, blacklist, signed, held, call, new, read, ttl, keys,
                   revoked, cut, ended, revived, due, targets>>

-----------------------------------------------------------------------------
(* Time passes, and Redis drops what has expired. *)
Tick ==
    /\ now < MaxTime
    /\ now' = now + 1
    /\ session' = [s \in Sessions |->
          IF session[s] # None /\ session[s].expires = now' THEN None ELSE session[s]]
    /\ blacklist' = [s \in Sessions |->
          IF blacklist[s] = now' THEN 0 ELSE blacklist[s]]
    /\ UNCHANGED <<signed, held, pc, answer, locals, history>>

SessionStep(r) == IsBlacklisted(r) \/ GetSession(r) \/ ReadSession(r) \/ Touch(r)

DestroyStep(r) == Destroy(r) \/ Blacklist(r) \/ Keys(r) \/ Scan(r) \/ DestroyEach(r)

Next == \/ \E r \in Requests : \/ Begin(r) \/ FindUser(r) \/ Create(r)
                               \/ SessionStep(r) \/ DestroyStep(r)
        \/ Tick

Spec == Init /\ [][Next]_vars

-----------------------------------------------------------------------------
TypeOK ==
    /\ now \in 0 .. MaxTime
    /\ session \in [Sessions -> SessionData \cup {None}]
    /\ \A s \in Sessions : session[s] # None =>
          /\ session[s].expires > now
          /\ session[s].expires =< now + Second * Largest(SessionTTL, SlidingWindow)
    /\ blacklist \in [Sessions -> Nat]
    /\ signed \in [Sessions -> Claims \cup {None}]
    /\ held \subseteq {s \in Sessions : signed[s] # None}
    /\ pc \in [Requests -> Labels]
    /\ call \in [Requests -> Call]
    /\ new \in [Requests -> Sessions \cup {None}]
    /\ read \in [Requests -> Users \cup {None}]
    /\ ttl \in [Requests -> Nat]
    /\ keys \in [Requests -> SUBSET Sessions]
    /\ mine \in [Requests -> SUBSET Sessions]
    /\ answer \in [Requests -> Answers]

(* Once a logout has blacklisted a token, validateToken refuses every      *)
(* token of its session for as long as that token has a whole second to    *)
(* live, if Redis answers: by its look at the blacklist, so even when the  *)
(* session is back, and whatever other logouts write, but for one: the     *)
(* entry is the session's, and a later logout with a token that expires    *)
(* sooner rewrites it with a TTL that cuts the longer revocation short.    *)
RevocationHolds == \A r \in due : answer[r] = "unauthorized"

(* A session that a logout destroyed comes back by one way only, through   *)
(* an updateActivity that read it before: no login and no refresh restores *)
(* it under its old tokens.                                                *)
OnlyRevivedReturn == \A s \in ended : session[s] # None => s \in revived

(* When logoutAllSessions has succeeded and Redis answered it throughout,  *)
(* the sessions its user had when it began are gone, but for those that    *)
(* an overlapping updateActivity wrote again.                              *)
LogoutAllReaches ==
    \A r \in Requests \ shaky :
        call[r].op = "logoutAll" /\ answer[r] = "ok"
            => \A s \in targets[r] : session[s] # None => s \in revived

(* A session ends before its time only by a logout or a refresh with a     *)
(* token of its own, or by logoutAllSessions for its own user, whatever    *)
(* other users' sessions come and go during its scan.                      *)
EndsForAReason ==
    [][\A s \in Sessions :
         session[s] # None /\ session'[s] = None /\ now' = now =>
           \E r \in Requests :
             \/ call[r].op \in {"logout", "refresh"} /\ call[r].sid = s /\ pc[r] = "destroy"
             \/ call[r].op = "logoutAll" /\ call[r].user = session[s].user]_vars

(* session.service.ts:102, "with sliding expiration, extend the session":  *)
(* the write of an activity never brings a session's end nearer.           *)
SlidingExtends ==
    [][\A r \in Requests :
         LET s == call[r].sid IN
         pc[r] = "touch" /\ session[s] # None /\ session'[s] # None
             => session'[s].expires >= session[s].expires]_vars

(* docs/modules/auth.md:922, the entry has the TTL of the token's expiry:  *)
(* a blacklisted token stays blacklisted until it expires.                 *)
BlacklistedUntilExpiry ==
    \A s \in Sessions : \A t \in revoked[s] : now < t => blacklist[s] # 0
=============================================================================
