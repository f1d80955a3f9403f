-------------------------- MODULE CacheInterceptor --------------------------
(***************************************************************************)
(* CacheInterceptor over CacheService: concurrent requests for decorated   *)
(* handlers.  A request looks in the cache, runs the handler when it finds  *)
(* nothing, and answers; the write to the cache is not awaited and comes   *)
(* at any time after.  Meanwhile what the handler reads changes, entries   *)
(* expire, operators delete keys, and other code uses keys of its own.     *)
(*                                                                         *)
(* No handler of this repository is decorated: the module is about any     *)
(* that are.  A handler's result is the ask it is for and a version of the *)
(* data.  Left out: null results, which a get cannot tell from a miss.     *)
(*                                                                         *)
(* A key is the sequence of what its ':' separate.  A client chooses the   *)
(* names and the values of a query, and may write ':' and "user" in them:  *)
(* each is a sequence itself.                                              *)
(***************************************************************************)
EXTENDS CacheService, Sequences, SequencesExt

CONSTANTS Requests,    \* slots for concurrent requests
          Segments,    \* what stands between two ':' of a key
          Handlers,
          Base,        \* [Handlers -> Seq(Segments)], prefix and key of @Cache
          QueryNames,  \* names of query parameters, as they are sorted
          Asks,        \* what distinguishes requests
          OtherKeys,   \* keys that other code uses, with counters in them
          CacheTTL,    \* the ttl given to @Cache, None for none
          Counts,      \* bound: values of counters
          MaxVersion,  \* bound: changes of the data
          MaxTime      \* bound: the clock stops here

VARIABLES version,   \* what the handler's data is now
          changedAt, \* history: [0 .. MaxVersion -> when that version began]
          req,       \* [Requests -> Request]
          longest    \* history: the longest a result took from read to cache

vars == <<store, now, version, changedAt, req, longest>>

QuerySet == {QueryNames[n] : n \in DOMAIN QueryNames}

(* An ask has a user or None, its route parameters in order, each of them  *)
(* name and value, and for each name of the query a value or None.         *)
Ask == [handler : Handlers, user : Segments \cup {None}, params : Seq(Seq(Segments)),
        query : [QuerySet -> Seq(Segments) \cup {None}]]

ASSUME AskAssumption ==
    /\ QueryNames \in Seq(Seq(Segments))
    /\ "user" \in Segments
    /\ \A a \in Asks : a \in Ask

(* What @Cache is given as a prefix and key, or the bare name of the       *)
(* method: handlers of two controllers may share it.  None goes on with    *)
(* "user" where another ends.                                              *)
ASSUME BaseAssumption ==
    /\ Base \in [Handlers -> Seq(Segments)]
    /\ \A g, h \in Handlers : ~IsPrefix(Base[h] \o <<"user">>, Base[g])

ASSUME BoundsAssumption ==
    /\ CacheTTL \in Nat \cup {None}
    /\ MaxVersion \in Nat /\ MaxTime \in Nat
    /\ Asks # {}

Result == [ask : Asks, version : 0 .. MaxVersion]
Labels == {"idle", "lookUp", "handle", "respond", "fill"}
Answers == {"none", "hit", "made", "error"}
Request == [pc : Labels, ask : Asks, answer : Answers, value : Result \cup {None},
            readAt : Nat, runs : Nat]

(* buildCacheKey: the parts that are joined. *)
Optional(name, value) == IF value = None THEN <<>> ELSE name \o value

QueryParts(q) == FlattenSeq([n \in DOMAIN QueryNames |->
                                Optional(QueryNames[n], q[QueryNames[n]])])

Parts(a) == FlattenSeq(a.params) \o QueryParts(a.query)

UserPart(a) == IF a.user = None THEN <<>> ELSE <<"user", a.user>>

BuildCacheKeyOfAll(a) == Base[a.handler] \o Parts(a)    \* mistake: the user is left out

BuildCacheKey(a) == (Base[a.handler] \o UserPart(a)) \o Parts(a)

(* Other code stays away from the keys of the interceptor. *)
ASSUME KeyAssumption ==
    /\ {BuildCacheKey(a) : a \in Asks} \subseteq Keys \ OtherKeys
    /\ OtherKeys \subseteq Keys
    /\ None \notin Result \cup Counts

Init == /\ store = [k \in Keys |-> None]
        /\ now = 0
        /\ version = 0
        /\ changedAt = [v \in 0 .. MaxVersion |-> 0]
        /\ req \in [Requests -> [pc : {"idle"}, ask : {CHOOSE a \in Asks : TRUE},
                                 answer : {"none"}, value : {None}, readAt : {0}, runs : {0}]]
        /\ longest = 0

-----------------------------------------------------------------------------
(* intercept: the key is looked up; a failing get is a miss. *)
Intercept(r, a) ==
    /\ req[r].pc = "idle"
    /\ req' = [req EXCEPT ![r] = [pc |-> "lookUp", ask |-> a, answer |-> "none",
                                  value |-> None, readAt |-> 0, runs |-> 0]]
    /\ UNCHANGED <<store, now, version, changedAt, longest>>

Key(r) == BuildCacheKey(req[r].ask)

LookUpUnparsed(r) ==    \* mistake: the entry as Redis keeps it
    /\ req[r].pc = "lookUp"
    /\ \/ /\ store[Key(r)] # None
          /\ req' = [req EXCEPT ![r] = [@ EXCEPT !.pc = "idle", !.answer = "hit",
                                                 !.value = store[Key(r)]]]
       \/ req' = [req EXCEPT ![r].pc = "handle"]
    /\ UNCHANGED <<store, now, version, changedAt, longest>>

LookUp(r) ==
    /\ req[r].pc = "lookUp"
    /\ \/ /\ Get(Key(r)) # None
          /\ req' = [req EXCEPT ![r] = [@ EXCEPT !.pc = "idle", !.answer = "hit",
                                                 !.value = Get(Key(r))]]
       \/ req' = [req EXCEPT ![r].pc = "handle"]    \* a miss, or a failure
    /\ UNCHANGED <<store, now, version, changedAt, longest>>

(* next.handle(): the handler reads its data, and returns some time later, *)
(* or throws, which passes the tap by. *)
Handle(r) ==
    /\ req[r].pc = "handle"
    /\ req' = [req EXCEPT ![r] =
          [@ EXCEPT !.pc = "respond", !.readAt = now, !.runs = req[r].runs + 1,
                    !.value = [ask |-> req[r].ask, version |-> version]]]
    /\ UNCHANGED <<store, now, version, changedAt, longest>>

RespondLate(r) ==    \* mistake: a failing write fails the request, which runs again
    /\ req[r].pc = "respond"
    /\ \E pc \in {"fill", "handle"} :
          req' = [req EXCEPT ![r] = [@ EXCEPT !.answer = "made", !.pc = pc]]
    /\ UNCHANGED <<store, now, version, changedAt, longest>>

Respond(r) ==
    /\ req[r].pc = "respond"
    /\ \/ req' = [req EXCEPT ![r] = [@ EXCEPT !.answer = "made", !.pc = "fill"]]
       \/ req' = [req EXCEPT ![r] = [@ EXCEPT !.answer = "error", !.pc = "idle",
                                              !.value = None, !.readAt = 0]]
    /\ UNCHANGED <<store, now, version, changedAt, longest>>

(* The write that nobody awaits; a failure is logged and forgotten. *)
Fill(r) ==
    /\ req[r].pc = "fill"
    /\ req' = [req EXCEPT ![r] = [@ EXCEPT !.pc = "idle", !.value = None, !.readAt = 0]]
    /\ \/ /\ Set(Key(r), req[r].value, CacheTTL)
          /\ longest' = IF now - req[r].readAt > longest THEN now - req[r].readAt ELSE longest
       \/ UNCHANGED <<store, longest>>
    /\ UNCHANGED <<now, version, changedAt>>

-----------------------------------------------------------------------------
(* CacheController: flush, and the deletion of any key. *)
Operate == /\ Flush \/ \E k \in Keys : Del(k)
           /\ UNCHANGED <<now, version, changedAt, req, longest>>

(* Other code, on keys of its own: counters, written in any of the ways    *)
(* there are. *)
Count(k) == IF Get(k) = None THEN 0 ELSE Get(k)

UseCounter(k) ==
    /\ \/ \E n \in Counts : Set(k, n, None)
       \/ \E n \in Counts : MSet([o \in OtherKeys |-> n], None)
       \/ Count(k) + 1 \in Counts /\ Incr(k)
       \/ Count(k) - 1 \in Counts /\ Decr(k)
       \/ \E ttl \in 0 .. DefaultTTL : Expire(k, ttl)
    /\ UNCHANGED <<now, version, changedAt, req, longest>>

Change == /\ version < MaxVersion
          /\ version' = version + 1
          /\ changedAt' = [changedAt EXCEPT ![version + 1] = now]
          /\ UNCHANGED <<store, now, req, longest>>

Tick == /\ now < MaxTime
        /\ now' = now + 1
        /\ store' = Dropped(now + 1)
        /\ UNCHANGED <<version, changedAt, req, longest>>

RequestStep(r) == \/ \E a \in Asks : Intercept(r, a)
                  \/ LookUp(r) \/ Handle(r) \/ Respond(r) \/ Fill(r)

Next == \/ \E r \in Requests : RequestStep(r)
        \/ \E k \in OtherKeys : UseCounter(k)
        \/ Operate \/ Change \/ Tick

Spec == Init /\ [][Next]_vars

-----------------------------------------------------------------------------
TypeOK ==
    /\ \A k \in Keys \ OtherKeys : store[k] \in Entry(Result) \cup {None}
    /\ \A k \in OtherKeys : store[k] \in Entry(Counts) \cup {None}
    /\ now \in 0 .. MaxTime
    /\ version \in 0 .. MaxVersion
    /\ changedAt \in [0 .. MaxVersion -> 0 .. MaxTime]
    /\ req \in [Requests -> Request]
    /\ longest \in 0 .. MaxTime

(* Whatever Redis does, the handler runs once for a request that it        *)
(* answered, not at all for one answered from the cache, and never twice.  *)
HandlerRunsOnce ==
    \A r \in Requests :
        /\ req[r].runs =< 1
        /\ req[r].answer = "hit" => req[r].runs = 0
        /\ req[r].answer \in {"made", "error"} => req[r].runs = 1

(* A request of a user is never answered with what was made for another    *)
(* user, under another key of @Cache or for other parameters, whatever its *)
(* client wrote in the query.  This is not so for requests that no user    *)
(* makes: ?user=7 gives them the key of user 7.                            *)
AnswersItsUser ==
    \A r \in Requests :
        LET asked == req[r].ask
            made == req[r].value.ask
        IN  req[r].value # None /\ asked.user # None /\ made.user # None =>
              /\ made.user = asked.user
              /\ Base[made.handler] = Base[asked.handler]
              /\ Parts(made) = Parts(asked)

TTL == IF CacheTTL \in {None, 0} THEN DefaultTTL ELSE CacheTTL

(* What is in the cache is old by no more than its TTL and the time its    *)
(* result took to get there, even when a slow request overwrites what a    *)
(* later one has found.                                                    *)
BoundedStaleness ==
    \A k \in Keys \ OtherKeys :
        store[k] # None /\ store[k].value.version < version =>
            now < changedAt[store[k].value.version + 1] + longest + TTL
=============================================================================
