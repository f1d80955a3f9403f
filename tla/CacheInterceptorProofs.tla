----------------------- MODULE CacheInterceptorProofs -----------------------
(***************************************************************************)
(* Proofs about CacheInterceptor, for any requests, keys, TTL and data.    *)
(*                                                                         *)
(* The argument about staleness follows a result from the moment its       *)
(* handler read the data: then nothing was newer; the change after it is   *)
(* no earlier (Read); when the result reaches the cache, longest covers    *)
(* the time since; and its entry lasts for the TTL (Cached).  An entry     *)
(* that a later one overwrites, or that overwrites a later one, needs no   *)
(* case of its own: the bound is about each entry alone.                   *)
(***************************************************************************)
EXTENDS CacheInterceptor, SequenceTheorems, WellFoundedInduction, TLAPS

CacheKeys == Keys \ OtherKeys

StoreTyped ==
    /\ store \in [Keys -> Entry(Result \cup Counts) \cup {None}]
    /\ \A k \in CacheKeys : store[k] # None => store[k].value \in Result
    /\ \A k \in OtherKeys : store[k] # None => store[k].value \in Counts

Typed ==
    /\ StoreTyped
    /\ now \in 0 .. MaxTime
    /\ version \in 0 .. MaxVersion
    /\ changedAt \in [0 .. MaxVersion -> 0 .. MaxTime]
    /\ req \in [Requests -> Request]
    /\ longest \in 0 .. MaxTime

(* How often the handler has run, and for what, by where a request is. *)
Phase(r) ==
    LET q == req[r] IN
    /\ q.pc \in {"lookUp", "handle"} => q.runs = 0 /\ q.answer = "none"
    /\ q.pc = "respond" => q.runs = 1 /\ q.answer = "none"
    /\ q.pc = "fill" => q.runs = 1 /\ q.answer = "made"
    /\ q.pc = "idle" => \/ q.runs = 0 /\ q.answer \in {"none", "hit"}
                        \/ q.runs = 1 /\ q.answer \in {"made", "error"}

(* What a request has read was the newest then. *)
Read(r) ==
    LET q == req[r] IN
    q.pc \in {"respond", "fill"} =>
        /\ q.value \in Result /\ q.value.version =< version /\ q.readAt =< now
        /\ q.value.version < version => q.readAt =< changedAt[q.value.version + 1]

(* When the data that followed version v came, or now if none has. *)
Followed(v) == IF v < version THEN changedAt[v + 1] ELSE now

Cached(k) ==
    store[k] # None =>
        /\ store[k].value.version =< version
        /\ store[k].expires \in Nat /\ now < store[k].expires
        /\ store[k].expires =< Followed(store[k].value.version) + longest + TTL

IInv == /\ Typed
        /\ \A r \in Requests : Phase(r) /\ Read(r)
        /\ \A k \in CacheKeys : Cached(k)

-----------------------------------------------------------------------------
(* Where the interceptor writes, and until when. *)
LEMMA KeyTyped ==
    ASSUME IInv, NEW r \in Requests
    PROVE  Key(r) \in CacheKeys /\ Key(r) \in Keys /\ req[r] \in Request
BY KeyAssumption DEF IInv, Typed, Request, Key, CacheKeys

LEMMA EndTyped ==
    ASSUME now \in Nat
    PROVE  /\ TTL \in Nat \ {0} /\ End(CacheTTL) = now + TTL
           /\ \A ttl \in Nat \cup {None} : End(ttl) \in Nat /\ End(ttl) # Never
BY CacheAssumption, BoundsAssumption DEF TTL, End

(* Steps that leave data and requests alone, and drop entries or none. *)
LEMMA DropKeeps ==
    ASSUME IInv, UNCHANGED <<now, version, changedAt, req, longest>>, StoreTyped',
           \A k \in CacheKeys : store'[k] \in {store[k], None}
    PROVE  IInv'
<1>1. Typed'
  BY DEF IInv, Typed
<1>2. ASSUME NEW k \in CacheKeys
      PROVE  Cached(k)'
  BY DEF IInv, Cached, Followed
<1>3. ASSUME NEW r \in Requests
      PROVE  Phase(r)' /\ Read(r)'
  BY DEF IInv, Phase, Read
<1>4. QED BY <1>1, <1>2, <1>3 DEF IInv

LEMMA StoreShrinks ==
    ASSUME StoreTyped, NEW D, store' = [k \in Keys |-> IF k \in D THEN None ELSE store[k]]
    PROVE  StoreTyped' /\ \A k \in Keys : store'[k] \in {store[k], None}
BY KeyAssumption DEF StoreTyped, CacheKeys

(* Steps of a request that leave the store alone. *)
LEMMA RequestKeeps ==
    ASSUME IInv, NEW r \in Requests, NEW q \in Request,
           UNCHANGED <<store, now, version, changedAt, longest>>,
           req' = [req EXCEPT ![r] = q], Phase(r)', Read(r)'
    PROVE  IInv'
<1>1. Typed'
  BY DEF IInv, Typed, StoreTyped
<1>2. ASSUME NEW k \in CacheKeys
      PROVE  Cached(k)'
  BY DEF IInv, Cached, Followed
<1>3. ASSUME NEW p \in Requests
      PROVE  Phase(p)' /\ Read(p)'
  BY DEF IInv, Typed, Phase, Read
<1>4. QED BY <1>1, <1>2, <1>3 DEF IInv

-----------------------------------------------------------------------------
LEMMA InitInv == Init => IInv
<1> SUFFICES ASSUME Init PROVE IInv
  OBVIOUS
<1>1. StoreTyped
  BY KeyAssumption DEF Init, StoreTyped, CacheKeys
<1>2. ASSUME NEW r \in Requests
      PROVE  /\ req[r].pc = "idle" /\ req[r].answer = "none" /\ req[r].runs = 0
             /\ req[r] \in Request
  BY BoundsAssumption DEF Init, Request, Labels, Answers
<1>3. req \in [Requests -> Request]
  BY <1>2 DEF Init
<1>4. Typed
  BY <1>1, <1>3, BoundsAssumption DEF Init, Typed
<1>5. \A r \in Requests : Phase(r) /\ Read(r)
  BY <1>2 DEF Phase, Read
<1>6. \A k \in CacheKeys : Cached(k)
  BY DEF Init, CacheKeys, Cached
<1>7. QED BY <1>4, <1>5, <1>6 DEF IInv

LEMMA InterceptInv ==
    ASSUME IInv, NEW r \in Requests, NEW a \in Asks, Intercept(r, a)
    PROVE  IInv'
<1> DEFINE q == [pc |-> "lookUp", ask |-> a, answer |-> "none",
                 value |-> None, readAt |-> 0, runs |-> 0]
<1>1. q \in Request
  BY DEF Request, Labels, Answers
<1>2. req' = [req EXCEPT ![r] = q] /\ UNCHANGED <<store, now, version, changedAt, longest>>
  BY DEF Intercept
<1>3. Phase(r)' /\ Read(r)'
  BY <1>2 DEF IInv, Typed, Phase, Read
<1>4. QED BY <1>1, <1>2, <1>3, RequestKeeps

LEMMA LookUpInv ==
    ASSUME IInv, NEW r \in Requests, LookUp(r)
    PROVE  IInv'
<1>1. /\ req[r] \in Request /\ Key(r) \in CacheKeys /\ Key(r) \in Keys
      /\ req[r].pc = "lookUp" /\ req[r].runs = 0 /\ req[r].answer = "none"
  BY KeyTyped DEF LookUp, IInv, Phase
<1>2. PICK q : /\ req' = [req EXCEPT ![r] = q]
               /\ \/ /\ Get(Key(r)) # None
                     /\ q = [req[r] EXCEPT !.pc = "idle", !.answer = "hit",
                                           !.value = Get(Key(r))]
                  \/ q = [req[r] EXCEPT !.pc = "handle"]
  BY DEF LookUp
<1>3. Get(Key(r)) # None => Get(Key(r)) \in Result
  BY <1>1 DEF Get, IInv, Typed, StoreTyped
<1>4. q \in Request
  BY <1>1, <1>2, <1>3 DEF Request, Labels, Answers
<1>5. req'[r] = q
  BY <1>2 DEF IInv, Typed
<1>6. q.pc \in {"idle", "handle"} /\ q.runs = 0
      /\ (q.pc = "idle" => q.answer = "hit") /\ (q.pc = "handle" => q.answer = "none")
  BY <1>1, <1>2 DEF Request
<1>7. Phase(r)' /\ Read(r)'
  BY <1>5, <1>6 DEF Phase, Read
<1>8. QED BY <1>2, <1>4, <1>7, RequestKeeps DEF LookUp

LEMMA HandleInv ==
    ASSUME IInv, NEW r \in Requests, Handle(r)
    PROVE  IInv'
<1>1. /\ req[r] \in Request /\ req[r].pc = "handle" /\ req[r].runs = 0
      /\ req[r].answer = "none" /\ now \in Nat /\ version \in 0 .. MaxVersion
  BY BoundsAssumption DEF Handle, IInv, Typed, Phase
<1>2. PICK v : v = [ask |-> req[r].ask, version |-> version]
  OBVIOUS
<1>3. v \in Result /\ v.version = version
  BY <1>1, <1>2 DEF Result, Request
<1>4. PICK q : /\ q = [req[r] EXCEPT !.pc = "respond", !.readAt = now,
                                     !.runs = req[r].runs + 1, !.value = v]
               /\ req' = [req EXCEPT ![r] = q]
  BY <1>2 DEF Handle
<1>5. q \in Request
  <2>1. req[r].runs + 1 \in Nat
    BY <1>1
  <2>2. QED BY <1>1, <1>3, <1>4, <2>1 DEF Request, Labels
<1>6. /\ q.pc = "respond" /\ q.runs = 1 /\ q.answer = "none"
      /\ q.value = v /\ q.readAt = now
  BY <1>1, <1>4 DEF Request
<1>7. req'[r] = q
  BY <1>4 DEF IInv, Typed
<1>8. Phase(r)' /\ Read(r)'
  <2>1. version' = version /\ now' = now
    BY DEF Handle
  <2>2. QED BY <1>1, <1>3, <1>6, <1>7, <2>1, BoundsAssumption DEF Phase, Read
<1>9. QED BY <1>4, <1>5, <1>8, RequestKeeps DEF Handle

LEMMA RespondInv ==
    ASSUME IInv, NEW r \in Requests, Respond(r)
    PROVE  IInv'
<1>1. /\ req[r] \in Request /\ req[r].pc = "respond" /\ req[r].runs = 1 /\ Read(r)
  BY DEF Respond, IInv, Typed, Phase
<1>2. PICK q : /\ req' = [req EXCEPT ![r] = q]
               /\ \/ q = [req[r] EXCEPT !.answer = "made", !.pc = "fill"]
                  \/ q = [req[r] EXCEPT !.answer = "error", !.pc = "idle",
                                        !.value = None, !.readAt = 0]
  BY DEF Respond
<1>3. q \in Request
  <2>1. CASE q = [req[r] EXCEPT !.answer = "made", !.pc = "fill"]
    BY <1>1, <2>1 DEF Request, Labels, Answers
  <2>2. CASE q = [req[r] EXCEPT !.answer = "error", !.pc = "idle",
                                !.value = None, !.readAt = 0]
    BY <1>1, <2>2 DEF Request, Labels, Answers
  <2>3. QED BY <1>2, <2>1, <2>2
<1>3a. /\ q.runs = 1
      /\ \/ q.pc = "fill" /\ q.answer = "made" /\ q.value = req[r].value
                         /\ q.readAt = req[r].readAt
         \/ q.pc = "idle" /\ q.answer = "error"
  BY <1>1, <1>2 DEF Request
<1>4. req'[r] = q
  BY <1>2 DEF IInv, Typed
<1>5. Phase(r)' /\ Read(r)'
  BY <1>1, <1>3a, <1>4 DEF Phase, Read, Respond
<1>6. QED BY <1>2, <1>3, <1>5, RequestKeeps DEF Respond

(* The write: longest covers the time since the data was read. *)
LEMMA FillInv ==
    ASSUME IInv, NEW r \in Requests, Fill(r)
    PROVE  IInv'
<1>1. PICK v, t : v = req[r].value /\ t = req[r].readAt
  OBVIOUS
<1>2. /\ req[r] \in Request /\ req[r].pc = "fill" /\ req[r].runs = 1
      /\ req[r].answer = "made" /\ v \in Result /\ v.version =< version /\ t =< now
      /\ v.version < version => t =< changedAt[v.version + 1]
  BY <1>1 DEF Fill, IInv, Typed, Phase, Read
<1>3. /\ t \in Nat /\ now \in 0 .. MaxTime /\ now \in Nat /\ version \in Nat
      /\ longest \in 0 .. MaxTime /\ v.version \in 0 .. MaxVersion
      /\ version \in 0 .. MaxVersion
  BY <1>1, <1>2, BoundsAssumption DEF IInv, Typed, Request, Result
<1>4. PICK e : e = [value |-> v, expires |-> End(CacheTTL)]
  OBVIOUS
<1>5. /\ e \in Entry(Result \cup Counts) /\ e.value = v /\ e.expires = now + TTL
      /\ TTL \in Nat \ {0} /\ e.expires \in Nat
  BY <1>2, <1>3, <1>4, EndTyped DEF Entry
<1>6. PICK q : /\ q = [req[r] EXCEPT !.pc = "idle", !.value = None, !.readAt = 0]
               /\ req' = [req EXCEPT ![r] = q]
  BY DEF Fill
<1>7. q \in Request /\ q.pc = "idle" /\ q.runs = 1 /\ q.answer = "made"
  <2>1. q \in Request
    BY <1>2, <1>6 DEF Request, Labels
  <2>2. QED BY <1>2, <1>6, <2>1 DEF Request
<1>8. /\ UNCHANGED <<now, version, changedAt>>
      /\ \/ /\ store' = [store EXCEPT ![Key(r)] = e]
            /\ longest' = IF now - t > longest THEN now - t ELSE longest
         \/ UNCHANGED <<store, longest>>
  BY <1>1, <1>4 DEF Fill, Set
<1>9. PICK key \in CacheKeys : key = Key(r) /\ key \in Keys /\ key \notin OtherKeys
  BY KeyTyped DEF CacheKeys
<1>10. \A k \in Keys : store'[k] = store[k] \/ (k = key /\ store'[k] = e /\ now - t =< longest')
  <2>1. now - t \in Int /\ longest \in Int
    BY <1>3, BoundsAssumption
  <2>2. store # store' => now - t =< longest'
    BY <1>8, <2>1
  <2>3. QED BY <1>8, <1>9, <2>2 DEF IInv, Typed, StoreTyped
<1>11. StoreTyped'
  <2>1. store' \in [Keys -> Entry(Result \cup Counts) \cup {None}]
    BY <1>5, <1>8, <1>9 DEF IInv, Typed, StoreTyped
  <2>2. QED BY <1>2, <1>5, <1>9, <1>10, <2>1, KeyAssumption
            DEF IInv, Typed, StoreTyped, CacheKeys
<1>12. longest' \in 0 .. MaxTime /\ longest =< longest'
  BY <1>3, <1>8, BoundsAssumption
<1>13. Typed'
  BY <1>6, <1>7, <1>8, <1>11, <1>12 DEF IInv, Typed
<1>14. ASSUME NEW p \in Requests
       PROVE  Phase(p)' /\ Read(p)'
  <2>1. req'[p] = IF p = r THEN q ELSE req[p]
    BY <1>6 DEF IInv, Typed
  <2>2. QED BY <1>7, <1>8, <2>1 DEF IInv, Phase, Read
<1>15. \A n \in 0 .. MaxVersion : Followed(n) \in Nat /\ Followed(n)' = Followed(n)
  <2>1. ASSUME NEW n \in 0 .. MaxVersion, n < version
        PROVE  changedAt[n + 1] \in Nat
    BY <1>3, <2>1, BoundsAssumption DEF IInv, Typed
  <2>2. QED BY <1>3, <1>8, <2>1 DEF Followed
<1>16. ASSUME NEW k \in CacheKeys
       PROVE  Cached(k)'
  <2>1. CASE store'[k] = store[k]
    <3>1. ASSUME store[k] # None
          PROVE  store[k].value.version \in 0 .. MaxVersion
      BY <3>1 DEF IInv, Typed, StoreTyped, Result
    <3>2. Cached(k)
      BY DEF IInv
    <3>3. ASSUME store[k] # None, NEW n \in 0 .. MaxVersion, n = store[k].value.version
          PROVE  /\ n =< version' /\ store'[k].expires \in Nat /\ now' < store'[k].expires
                 /\ store'[k].expires =< Followed(n)' + longest' + TTL
      BY <1>3, <1>5, <1>8, <1>12, <1>15, <2>1, <3>2, <3>3 DEF Cached
    <3>4. QED BY <2>1, <3>1, <3>3 DEF Cached, Followed
  <2>2. CASE k = key /\ store'[k] = e /\ now - t =< longest'
    <3>1. t =< Followed(v.version)
      BY <1>2, <1>3 DEF Followed
    <3>2. now + TTL =< Followed(v.version) + longest' + TTL
      BY <1>3, <1>5, <1>12, <1>15, <2>2, <3>1
    <3>3. store'[k].value.version = v.version
      BY <1>5, <2>2
    <3>4. QED BY <1>2, <1>3, <1>5, <1>8, <1>15, <2>2, <3>2, <3>3 DEF Cached, Followed
  <2>3. QED BY <1>10, <2>1, <2>2 DEF CacheKeys
<1>17. QED BY <1>13, <1>14, <1>16 DEF IInv

-----------------------------------------------------------------------------
(* Operators delete and flush; Redis drops what has expired. *)
LEMMA OperateInv ==
    ASSUME IInv, Operate
    PROVE  IInv'
<1>1. PICK D : store' = [k \in Keys |-> IF k \in D THEN None ELSE store[k]]
  <2>1. ASSUME Flush
        PROVE  store' = [k \in Keys |-> IF k \in Keys THEN None ELSE store[k]]
    BY <2>1 DEF Flush
  <2>2. ASSUME NEW d \in Keys, Del(d)
        PROVE  store' = [k \in Keys |-> IF k \in {d} THEN None ELSE store[k]]
    BY <2>2 DEF Del, IInv, Typed, StoreTyped
  <2>3. QED BY <2>1, <2>2 DEF Operate
<1>2. StoreTyped' /\ \A k \in Keys : store'[k] \in {store[k], None}
  BY <1>1, StoreShrinks DEF IInv, Typed
<1>3. QED BY <1>2, DropKeeps DEF Operate, CacheKeys

(* Counters are on keys of their own. *)
LEMMA CountTyped ==
    ASSUME IInv, NEW k \in OtherKeys
    PROVE  /\ k \in Keys /\ store[k] \in Entry(Result \cup Counts) \cup {None}
           /\ store[k] # None => /\ store[k] \in Entry(Counts) /\ store[k].value = Count(k)
           /\ store[k] = None => Count(k) = 0
<1>1. k \in Keys /\ store[k] \in Entry(Result \cup Counts) \cup {None}
  BY KeyAssumption DEF IInv, Typed, StoreTyped
<1>2. store[k] # None => store[k] \in Entry(Counts)
  BY <1>1 DEF IInv, Typed, StoreTyped, Entry
<1>3. store[k] # None => store[k].value \in Counts
  BY DEF IInv, Typed, StoreTyped
<1>4. QED BY <1>1, <1>2, <1>3, KeyAssumption DEF Count, Get

(* An entry of a counter, or of many. *)
LEMMA CounterKeeps ==
    ASSUME IInv, UNCHANGED <<now, version, changedAt, req, longest>>,
           NEW f \in [OtherKeys -> Entry(Counts) \cup {None}],
           store' = [k \in Keys |-> IF k \in OtherKeys THEN f[k] ELSE store[k]]
    PROVE  IInv'
<1>1. Entry(Counts) \subseteq Entry(Result \cup Counts)
  BY DEF Entry
<1>2. StoreTyped'
  <2>1. store' \in [Keys -> Entry(Result \cup Counts) \cup {None}]
    BY <1>1 DEF IInv, Typed, StoreTyped
  <2>2. \A k \in OtherKeys : store'[k] # None => store'[k].value \in Counts
    BY KeyAssumption DEF Entry
  <2>3. \A k \in CacheKeys : store'[k] = store[k]
    BY DEF CacheKeys
  <2>4. QED BY <2>1, <2>2, <2>3 DEF IInv, Typed, StoreTyped
<1>3. QED BY <1>2, DropKeeps DEF CacheKeys

LEMMA OneCounterKeeps ==
    ASSUME IInv, UNCHANGED <<now, version, changedAt, req, longest>>,
           NEW k \in OtherKeys, NEW e \in Entry(Counts) \cup {None},
           store' = [store EXCEPT ![k] = e]
    PROVE  IInv'
<1> DEFINE f == [o \in OtherKeys |-> IF o = k THEN e ELSE store[o]]
<1>1. f \in [OtherKeys -> Entry(Counts) \cup {None}]
  BY CountTyped
<1>2. store' = [o \in Keys |-> IF o \in OtherKeys THEN f[o] ELSE store[o]]
  BY CountTyped DEF IInv, Typed, StoreTyped
<1> HIDE DEF f
<1>3. QED BY <1>1, <1>2, CounterKeeps

(* What the commands leave in a key with a counter. *)
LEMMA AddTyped ==
    ASSUME IInv, NEW k \in OtherKeys, NEW d \in Int, Count(k) + d \in Counts, Add(k, d)
    PROVE  \E e \in Entry(Counts) : store' = [store EXCEPT ![k] = e]
<1>1. CASE store[k] = None
  <2> DEFINE e == [value |-> d, expires |-> Never]
  <2>1. e \in Entry(Counts)
    BY <1>1, CountTyped DEF Entry
  <2>2. store' = [store EXCEPT ![k] = e]
    BY <1>1 DEF Add
  <2>3. QED BY <2>1, <2>2
<1>2. CASE store[k] # None
  <2> DEFINE e == [store[k] EXCEPT !.value = store[k].value + d]
  <2>1. e \in Entry(Counts)
    BY <1>2, CountTyped DEF Entry
  <2>2. store' = [store EXCEPT ![k] = e]
    BY <1>2 DEF Add
  <2>3. QED BY <2>1, <2>2
<1>3. QED BY <1>1, <1>2

LEMMA ExpireTyped ==
    ASSUME IInv, NEW k \in OtherKeys, NEW ttl \in Nat, Expire(k, ttl)
    PROVE  \E e \in Entry(Counts) \cup {None} : store' = [store EXCEPT ![k] = e]
<1>1. CASE store[k] = None \/ ttl =< 0
  BY <1>1 DEF Expire
<1>2. CASE ~(store[k] = None \/ ttl =< 0)
  <2> DEFINE e == [store[k] EXCEPT !.expires = now + ttl]
  <2>1. now + ttl \in Nat
    BY BoundsAssumption DEF IInv, Typed
  <2>2. e \in Entry(Counts)
    BY <1>2, <2>1, CountTyped DEF Entry
  <2>3. store' = [store EXCEPT ![k] = e]
    BY <1>2 DEF Expire
  <2>4. QED BY <2>2, <2>3
<1>3. QED BY <1>1, <1>2

LEMMA UseCounterInv ==
    ASSUME IInv, NEW k \in OtherKeys, UseCounter(k)
    PROVE  IInv'
<1>1. UNCHANGED <<now, version, changedAt, req, longest>> /\ now \in Nat
  BY BoundsAssumption DEF UseCounter, IInv, Typed
<1>2. ASSUME NEW n \in Counts, Set(k, n, None)
      PROVE  IInv'
  <2>1. [value |-> n, expires |-> End(None)] \in Entry(Counts)
    BY <1>1, EndTyped DEF Entry
  <2>2. QED BY <1>1, <1>2, <2>1, OneCounterKeeps DEF Set
<1>3. ASSUME NEW n \in Counts, MSet([o \in OtherKeys |-> n], None)
      PROVE  IInv'
  <2>1. PICK done \in SUBSET OtherKeys :
           store' = [o \in Keys |-> IF o \in done THEN [value |-> n, expires |-> End(None)]
                                    ELSE store[o]]
    BY <1>3 DEF MSet
  <2> DEFINE f == [o \in OtherKeys |-> IF o \in done THEN [value |-> n, expires |-> End(None)]
                                       ELSE store[o]]
  <2>2. [value |-> n, expires |-> End(None)] \in Entry(Counts)
    BY <1>1, EndTyped DEF Entry
  <2>3. f \in [OtherKeys -> Entry(Counts) \cup {None}]
    BY <2>2, CountTyped
  <2>4. store' = [o \in Keys |-> IF o \in OtherKeys THEN f[o] ELSE store[o]]
    BY <2>1
  <2> HIDE DEF f
  <2>5. QED BY <1>1, <2>3, <2>4, CounterKeeps
<1>4. ASSUME \/ Count(k) + 1 \in Counts /\ Incr(k)
             \/ Count(k) - 1 \in Counts /\ Decr(k)
      PROVE  IInv'
  <2>1. CASE Count(k) + 1 \in Counts /\ Incr(k)
    BY <1>1, <2>1, AddTyped, OneCounterKeeps DEF Incr
  <2>2. CASE Count(k) - 1 \in Counts /\ Decr(k)
    <3>1. Count(k) + (-1) \in Counts
      BY <2>2, CountTyped
    <3>2. QED BY <1>1, <2>2, <3>1, AddTyped, OneCounterKeeps DEF Decr
  <2>3. QED BY <1>4, <2>1, <2>2
<1>5. ASSUME NEW ttl \in 0 .. DefaultTTL, Expire(k, ttl)
      PROVE  IInv'
  BY <1>1, <1>5, ExpireTyped, OneCounterKeeps, CacheAssumption
<1>6. QED BY <1>2, <1>3, <1>4, <1>5 DEF UseCounter

-----------------------------------------------------------------------------
(* An entry that is left has not expired; what was the newest stays in use *)
(* a moment longer. *)
LEMMA TickInv ==
    ASSUME IInv, Tick
    PROVE  IInv'
<1>1. /\ now \in Nat /\ now' = now + 1 /\ now' \in 0 .. MaxTime
      /\ UNCHANGED <<version, changedAt, req, longest>>
      /\ version \in Nat /\ version \in 0 .. MaxVersion /\ longest \in Nat
      /\ TTL \in Nat
  BY BoundsAssumption, EndTyped DEF Tick, IInv, Typed
<1>2. PICK D : /\ D = {k \in Keys : store[k] # None /\ store[k].expires = now + 1}
               /\ store' = [k \in Keys |-> IF k \in D THEN None ELSE store[k]]
  <2> DEFINE E == {k \in Keys : store[k] # None /\ store[k].expires = now + 1}
  <2>1. store' = [k \in Keys |-> IF k \in E THEN None ELSE store[k]]
    BY DEF Tick, Dropped
  <2>2. QED BY <2>1
<1>3. StoreTyped' /\ \A k \in Keys : store'[k] \in {store[k], None}
  BY <1>2, StoreShrinks DEF IInv, Typed
<1>4. Typed'
  BY <1>1, <1>3 DEF IInv, Typed
<1>5. ASSUME NEW r \in Requests
      PROVE  Phase(r)' /\ Read(r)'
  <2>1. req[r] \in Request
    BY DEF IInv, Typed
  <2>2. QED BY <1>1, <2>1 DEF IInv, Phase, Read, Request
<1>6. ASSUME NEW k \in CacheKeys
      PROVE  Cached(k)'
  <2> SUFFICES ASSUME store'[k] # None PROVE Cached(k)'
    BY DEF Cached
  <2>1. k \in Keys /\ store[k] # None /\ store'[k] = store[k] /\ store[k].expires # now + 1
    BY <1>2 DEF CacheKeys
  <2>2. /\ store[k].value.version \in 0 .. MaxVersion
        /\ store[k].value.version =< version
        /\ store[k].expires \in Nat /\ now < store[k].expires
        /\ store[k].expires =< Followed(store[k].value.version) + longest + TTL
    BY <2>1 DEF IInv, Typed, StoreTyped, Result, Cached
  <2>3. PICK n, x : n = store[k].value.version /\ x = store[k].expires
    OBVIOUS
  <2>4. now' < x
    BY <1>1, <2>1, <2>2, <2>3
  <2>5. x =< Followed(n)' + longest' + TTL
    <3>1. CASE n < version
      <4>1. Followed(n)' = Followed(n)
        BY <1>1, <3>1 DEF Followed
      <4>2. QED BY <1>1, <2>2, <2>3, <4>1
    <3>2. CASE ~(n < version)
      <4>1. Followed(n)' = now + 1 /\ Followed(n) = now
        BY <1>1, <3>2 DEF Followed
      <4>2. QED BY <1>1, <2>2, <2>3, <4>1
    <3>3. QED BY <3>1, <3>2
  <2>6. QED BY <1>1, <2>1, <2>2, <2>3, <2>4, <2>5 DEF Cached, Followed
<1>7. QED BY <1>4, <1>5, <1>6 DEF IInv

(* What was the newest until now is followed from now on. *)
LEMMA ChangeInv ==
    ASSUME IInv, Change
    PROVE  IInv'
<1>1. /\ now \in Nat /\ now \in 0 .. MaxTime /\ version \in Nat
      /\ version < MaxVersion /\ version' = version + 1
      /\ changedAt' = [changedAt EXCEPT ![version + 1] = now]
      /\ UNCHANGED <<store, now, req, longest>>
      /\ changedAt \in [0 .. MaxVersion -> 0 .. MaxTime]
      /\ version + 1 \in 0 .. MaxVersion
  BY BoundsAssumption DEF Change, IInv, Typed
<1>2. Typed'
  BY <1>1 DEF IInv, Typed, StoreTyped
<1>3. \A n \in 0 .. version : Followed(n)' = Followed(n)
  BY <1>1, BoundsAssumption DEF Followed
<1>4. ASSUME NEW r \in Requests
      PROVE  Phase(r)' /\ Read(r)'
  <2> SUFFICES ASSUME req[r].pc \in {"respond", "fill"} PROVE Read(r)'
    BY <1>1 DEF IInv, Phase, Read
  <2>1. PICK n, t : n = req[r].value.version /\ t = req[r].readAt
    OBVIOUS
  <2>2. /\ n \in 0 .. version /\ n =< version /\ t =< now /\ t \in Nat
        /\ n < version => t =< changedAt[n + 1]
    BY <1>1, <2>1 DEF IInv, Typed, Request, Read, Result
  <2>3. n < version' => t =< changedAt'[n + 1]
    BY <1>1, <2>2, BoundsAssumption
  <2>4. QED BY <1>1, <2>1, <2>2, <2>3 DEF IInv, Read
<1>5. ASSUME NEW k \in CacheKeys
      PROVE  Cached(k)'
  <2> SUFFICES ASSUME store[k] # None PROVE Cached(k)'
    BY <1>1 DEF Cached
  <2>1. PICK n : n = store[k].value.version
    OBVIOUS
  <2>2. n \in 0 .. version
    BY <1>1, <2>1 DEF IInv, Typed, StoreTyped, Result, Cached
  <2>3. Followed(n)' = Followed(n) /\ n =< version'
    BY <1>1, <1>3, <2>2
  <2>4. QED BY <1>1, <2>1, <2>3 DEF IInv, Cached, Followed
<1>6. QED BY <1>2, <1>4, <1>5 DEF IInv

LEMMA StutterInv ==
    ASSUME IInv, UNCHANGED vars
    PROVE  IInv'
<1>1. UNCHANGED <<store, now, version, changedAt, req, longest>>
  BY DEF vars
<1>2. StoreTyped'
  BY <1>1 DEF IInv, Typed, StoreTyped
<1>3. QED BY <1>1, <1>2, DropKeeps

LEMMA SpecInv == Spec => []IInv
<1>1. Init => IInv
  BY InitInv
<1>2. IInv /\ [Next]_vars => IInv'
  <2> SUFFICES ASSUME IInv, [Next]_vars PROVE IInv'
    OBVIOUS
  <2>1. ASSUME NEW r \in Requests, RequestStep(r) PROVE IInv'
    BY <2>1, InterceptInv, LookUpInv, HandleInv, RespondInv, FillInv DEF RequestStep
  <2>2. ASSUME NEW k \in OtherKeys, UseCounter(k) PROVE IInv'
    BY <2>2, UseCounterInv
  <2>3. CASE Operate
    BY <2>3, OperateInv
  <2>4. CASE Change
    BY <2>4, ChangeInv
  <2>5. CASE Tick
    BY <2>5, TickInv
  <2>6. CASE UNCHANGED vars
    BY <2>6, StutterInv
  <2>7. QED BY <2>1, <2>2, <2>3, <2>4, <2>5, <2>6 DEF Next
<1>3. QED BY <1>1, <1>2, PTL DEF Spec

-----------------------------------------------------------------------------
(* Every variable keeps its type: the keys of the interceptor hold results *)
(* of handlers, those of other code its counters (cache.interceptor.ts,    *)
(* buildCacheKey).                                                         *)
THEOREM TypeCorrect == Spec => []TypeOK
<1>1. IInv => TypeOK
  BY KeyAssumption DEF IInv, Typed, StoreTyped, CacheKeys, Entry, TypeOK
<1>2. QED BY <1>1, SpecInv, PTL

(* The handler of a request runs at most once, and not at all on a hit,    *)
(* whatever Redis does and however often it fails (cache.interceptor.ts,   *)
(* intercept).                                                             *)
THEOREM RequestsRunTheirHandlerOnce == Spec => []HandlerRunsOnce
<1>1. IInv => HandlerRunsOnce
  BY DEF IInv, Typed, Phase, HandlerRunsOnce, Request, Labels
<1>2. QED BY <1>1, SpecInv, PTL

(* A cached result is old by no more than its TTL and the time it took to  *)
(* get into the cache, though nobody awaits the write and a slow request   *)
(* may overwrite a later one (cache.interceptor.ts, intercept).            *)
THEOREM StalenessIsBounded == Spec => []BoundedStaleness
<1>1. IInv => BoundedStaleness
  <2> SUFFICES ASSUME IInv, NEW k \in Keys \ OtherKeys,
                      store[k] # None, store[k].value.version < version
               PROVE  now < changedAt[store[k].value.version + 1] + longest + TTL
    BY DEF BoundedStaleness
  <2>1. PICK n, x : n = store[k].value.version /\ x = store[k].expires
    OBVIOUS
  <2>2. /\ n \in 0 .. MaxVersion /\ n < version /\ x \in Nat /\ now < x
        /\ x =< Followed(n) + longest + TTL
    BY <2>1 DEF IInv, Typed, StoreTyped, Result, Cached, CacheKeys
  <2>3. Followed(n) = changedAt[n + 1] /\ changedAt[n + 1] \in Nat
    BY <2>2, BoundsAssumption DEF Followed, IInv, Typed
  <2>4. now \in Nat /\ longest \in Nat /\ TTL \in Nat
    BY BoundsAssumption, EndTyped DEF IInv, Typed
  <2>5. QED BY <2>1, <2>2, <2>3, <2>4
<1>2. QED BY <1>1, SpecInv, PTL

-----------------------------------------------------------------------------
(* Keys.  What FlattenSeq joins are sequences, and so is what it returns.  *)
LEMMA Least ==
    ASSUME NEW P, P \subseteq Nat, P # {}
    PROVE  \E n \in P : \A m \in P : n =< m
<1>1. PICK n \in P : \A m \in P : ~(<<m, n>> \in OpToRel(<, Nat))
  BY NatLessThanWellFounded, WFMin
<1>2. \A m \in P : ~(m < n)
  BY <1>1 DEF OpToRel
<1>3. QED BY <1>2

(* What FlattenSeq joins: f[i] is the first i of seqs. *)
IsFlattened(f, seqs, n) ==
    f = [i \in 1 .. n |-> IF i = 1 THEN seqs[i] ELSE f[i - 1] \o seqs[i]]

LEMMA FlattenedExists ==
    ASSUME NEW seqs, NEW n \in Nat
    PROVE  \E f : IsFlattened(f, seqs, n)
<1> DEFINE P == {m \in Nat : ~\E f : IsFlattened(f, seqs, m)}
<1> SUFFICES ASSUME P # {} PROVE FALSE
  OBVIOUS
<1>1. PICK m \in P : \A k \in P : m =< k
  BY Least
<1>2. CASE m = 0
  <2>1. PICK f : f = [i \in 1 .. 0 |-> 0]
    OBVIOUS
  <2>2. IsFlattened(f, seqs, 0)
    BY <2>1 DEF IsFlattened
  <2>3. QED BY <1>2, <2>2
<1>3. CASE m # 0
  <2>1. m - 1 \in Nat /\ m - 1 \notin P
    BY <1>1, <1>3
  <2>2. PICK g : IsFlattened(g, seqs, m - 1)
    BY <2>1
  <2>3. PICK f : f = [i \in 1 .. m |-> IF i < m THEN g[i]
                                       ELSE IF i = 1 THEN seqs[i] ELSE g[i - 1] \o seqs[i]]
    OBVIOUS
  <2>4. ASSUME NEW i \in 1 .. m
        PROVE  f[i] = IF i = 1 THEN seqs[i] ELSE f[i - 1] \o seqs[i]
    <3>1. CASE i < m
      <4>1. i \in 1 .. m - 1 /\ (i # 1 => i - 1 \in 1 .. m /\ i - 1 < m)
        BY <3>1
      <4>2. g[i] = IF i = 1 THEN seqs[i] ELSE g[i - 1] \o seqs[i]
        BY <2>2, <4>1 DEF IsFlattened
      <4>3. QED BY <2>3, <3>1, <4>1, <4>2
    <3>2. CASE i = m
      <4>1. i # 1 => i - 1 \in 1 .. m /\ i - 1 < m
        BY <3>2
      <4>2. QED BY <2>3, <3>2, <4>1
    <3>3. QED BY <3>1, <3>2
  <2>5. f = [i \in 1 .. m |-> IF i = 1 THEN seqs[i] ELSE f[i - 1] \o seqs[i]]
    BY <2>3, <2>4
  <2>6. IsFlattened(f, seqs, m)
    BY <2>5 DEF IsFlattened
  <2>7. QED BY <1>1, <2>6
<1>4. QED BY <1>2, <1>3

LEMMA FlattenedTyped ==
    ASSUME NEW seqs, NEW n \in Nat, \A i \in 1 .. n : seqs[i] \in Seq(Segments),
           NEW f, IsFlattened(f, seqs, n)
    PROVE  \A i \in 1 .. n : f[i] \in Seq(Segments)
<1> DEFINE P == {i \in 1 .. n : f[i] \notin Seq(Segments)}
<1> SUFFICES ASSUME P # {} PROVE FALSE
  OBVIOUS
<1>1. PICK i \in P : \A k \in P : i =< k
  <2>1. P \subseteq Nat
    OBVIOUS
  <2> HIDE DEF P
  <2>2. QED BY <2>1, Least
<1>2. i \in 1 .. n /\ f[i] \notin Seq(Segments)
  OBVIOUS
<1>3. f[i] = IF i = 1 THEN seqs[i] ELSE f[i - 1] \o seqs[i]
  BY <1>2 DEF IsFlattened
<1>4. CASE i = 1
  BY <1>2, <1>3, <1>4
<1>5. CASE i # 1
  <2>1. i - 1 \in 1 .. n /\ ~(i =< i - 1)
    BY <1>2, <1>5
  <2>2. f[i - 1] \in Seq(Segments)
    BY <1>1, <2>1
  <2>3. f[i] = f[i - 1] \o seqs[i] /\ seqs[i] \in Seq(Segments)
    BY <1>2, <1>3, <1>5
  <2>4. QED BY <1>2, <2>2, <2>3, ConcatProperties
<1>6. QED BY <1>4, <1>5

LEMMA FlattenTyped ==
    ASSUME NEW seqs, NEW n \in Nat, Len(seqs) = n, n = 0 => seqs = <<>>,
           \A i \in 1 .. n : seqs[i] \in Seq(Segments)
    PROVE  FlattenSeq(seqs) \in Seq(Segments)
<1>1. CASE n = 0
  BY <1>1 DEF FlattenSeq
<1>2. CASE n # 0
  <2>1. PICK g : IsFlattened(g, seqs, n)
    BY FlattenedExists
  <2>2. PICK f : IsFlattened(f, seqs, n) /\ FlattenSeq(seqs) = f[n]
    BY <1>2, <2>1 DEF FlattenSeq, IsFlattened
  <2>3. n \in 1 .. n
    BY <1>2
  <2>4. QED BY <2>2, <2>3, FlattenedTyped
<1>3. QED BY <1>1, <1>2

LEMMA PartsTyped ==
    ASSUME NEW a \in Asks
    PROVE  Parts(a) \in Seq(Segments)
<1>1. a \in Ask
  BY AskAssumption
<1>2. FlattenSeq(a.params) \in Seq(Segments)
  <2>1. PICK seqs : seqs = a.params /\ seqs \in Seq(Seq(Segments))
    BY <1>1 DEF Ask
  <2>2. /\ Len(seqs) \in Nat /\ (Len(seqs) = 0 => seqs = <<>>)
        /\ \A i \in 1 .. Len(seqs) : seqs[i] \in Seq(Segments)
    BY <2>1, LenProperties, ElementOfSeq, EmptySeq
  <2>3. QED BY <2>1, <2>2, FlattenTyped
<1>3. QueryParts(a.query) \in Seq(Segments)
  <2>1. PICK n \in Nat : n = Len(QueryNames) /\ DOMAIN QueryNames = 1 .. n
    BY AskAssumption, LenProperties
  <2>2. PICK seqs : seqs = [i \in 1 .. n |-> Optional(QueryNames[i], a.query[QueryNames[i]])]
    OBVIOUS
  <2>3. QueryParts(a.query) = FlattenSeq(seqs) /\ Len(seqs) = n /\ (n = 0 => seqs = <<>>)
    BY <2>1, <2>2 DEF QueryParts
  <2>4. ASSUME NEW i \in 1 .. n
        PROVE  seqs[i] \in Seq(Segments)
    <3>1. PICK name, value : name = QueryNames[i] /\ value = a.query[name]
      OBVIOUS
    <3>2. name \in QuerySet /\ name \in Seq(Segments)
      BY <2>1, <3>1, AskAssumption, ElementOfSeq DEF QuerySet
    <3>3. value = None \/ value \in Seq(Segments)
      BY <1>1, <3>1, <3>2 DEF Ask
    <3>4. seqs[i] = Optional(name, value)
      BY <2>2, <3>1
    <3>5. CASE value = None
      BY <3>4, <3>5, EmptySeq DEF Optional
    <3>6. CASE value # None
      BY <3>2, <3>3, <3>4, <3>6, ConcatProperties DEF Optional
    <3>7. QED BY <3>5, <3>6
  <2>5. QED BY <2>3, <2>4, FlattenTyped
<1>4. QED BY <1>2, <1>3, ConcatProperties DEF Parts

(* The sequence p stands in key, after its first n. *)
StandsAt(p, key, n) == \A i \in 1 .. Len(p) : key[n + i] = p[i]

LEMMA Joined ==
    ASSUME NEW s \in Seq(Segments), NEW t \in Seq(Segments), NEW u, u = s \o t
    PROVE  /\ u \in Seq(Segments) /\ Len(u) = Len(s) + Len(t)
           /\ \A i \in 1 .. Len(s) : u[i] = s[i]
           /\ StandsAt(t, u, Len(s))
<1>1. /\ s \o t \in Seq(Segments) /\ Len(s \o t) = Len(s) + Len(t)
      /\ \A i \in 1 .. Len(s) + Len(t) :
            (s \o t)[i] = IF i =< Len(s) THEN s[i] ELSE t[i - Len(s)]
  BY ConcatProperties
<1>2. Len(s) \in Nat /\ Len(t) \in Nat
  BY LenProperties
<1>3. ASSUME NEW i \in 1 .. Len(s)
      PROVE  (s \o t)[i] = s[i]
  BY <1>1, <1>2
<1>4. ASSUME NEW i \in 1 .. Len(t)
      PROVE  (s \o t)[Len(s) + i] = t[i]
  <2>1. /\ Len(s) + i \in 1 .. Len(s) + Len(t) /\ ~(Len(s) + i =< Len(s))
        /\ Len(s) + i - Len(s) = i
    BY <1>2
  <2>2. QED BY <1>1, <2>1
<1>5. QED BY <1>1, <1>3, <1>4 DEF StandsAt

(* Where the parts of the key of a user's ask stand. *)
LEMMA KeyParts ==
    ASSUME NEW a \in Asks, a.user # None,
           NEW b, b = Base[a.handler], NEW p, p = Parts(a), NEW key, key = BuildCacheKey(a)
    PROVE  /\ b \in Seq(Segments) /\ p \in Seq(Segments)
           /\ Len(key) = Len(b) + 2 + Len(p)
           /\ \A i \in 1 .. Len(b) : key[i] = b[i]
           /\ key[Len(b) + 1] = "user" /\ key[Len(b) + 2] = a.user
           /\ StandsAt(p, key, Len(b) + 2)
<1>1. a.handler \in Handlers /\ a.user \in Segments
  BY AskAssumption DEF Ask
<1>2. b \in Seq(Segments) /\ p \in Seq(Segments)
  BY <1>1, BaseAssumption, PartsTyped
<1>3. PICK w \in Segments : w = "user"
  BY AskAssumption
<1>4. /\ <<w, a.user>> \in Seq(Segments) /\ Len(<<w, a.user>>) = 2
      /\ <<w, a.user>>[1] = w /\ <<w, a.user>>[2] = a.user
  BY <1>1
<1>5. PICK u : u = <<w, a.user>> /\ u \in Seq(Segments) /\ Len(u) = 2 /\ u[1] = w /\ u[2] = a.user
  BY <1>4
<1>6. PICK h : h = b \o u
  OBVIOUS
<1>7. /\ h \in Seq(Segments) /\ Len(h) = Len(b) + 2
      /\ \A i \in 1 .. Len(b) : h[i] = b[i]
      /\ \A i \in 1 .. 2 : h[Len(b) + i] = u[i]
  BY <1>2, <1>5, <1>6, Joined DEF StandsAt
<1>8. key = h \o p
  BY <1>3, <1>5, <1>6 DEF BuildCacheKey, UserPart
<1>9. /\ Len(key) = Len(h) + Len(p) /\ StandsAt(p, key, Len(h))
      /\ \A i \in 1 .. Len(h) : key[i] = h[i]
  <2>1. PICK k : k = h \o p
    OBVIOUS
  <2>2. h \in Seq(Segments)
    BY <1>7
  <2>3. /\ Len(k) = Len(h) + Len(p) /\ StandsAt(p, k, Len(h))
        /\ \A i \in 1 .. Len(h) : k[i] = h[i]
    BY ONLY <1>2, <2>1, <2>2, Joined
  <2>4. key = k
    BY ONLY <1>8, <2>1
  <2>5. QED BY <2>3, <2>4
<1>10. Len(b) \in Nat /\ Len(p) \in Nat
  BY <1>2, LenProperties
<1>11. \A i \in 1 .. Len(b) : key[i] = b[i]
  BY <1>7, <1>9, <1>10
<1>12. key[Len(b) + 1] = w /\ key[Len(b) + 2] = a.user
  <2>1. h[Len(b) + 1] = w /\ h[Len(b) + 2] = a.user
    BY <1>5, <1>7
  <2>2. key[Len(b) + 1] = h[Len(b) + 1] /\ key[Len(b) + 2] = h[Len(b) + 2]
    <3>1. Len(b) + 1 \in 1 .. Len(h) /\ Len(b) + 2 \in 1 .. Len(h)
      BY <1>7, <1>10
    <3>2. QED BY <1>9, <3>1
  <2>3. QED BY <2>1, <2>2
<1>13. StandsAt(p, key, Len(b) + 2)
  BY <1>7, <1>9
<1>14. QED BY <1>2, <1>3, <1>7, <1>9, <1>11, <1>12, <1>13

(* Of two asks with one key, neither's base is the longer: it would go on  *)
(* with "user" where the other ends.                                       *)
LEMMA NoLongerBase ==
    ASSUME NEW a \in Asks, NEW b \in Asks, a.user # None, b.user # None,
           BuildCacheKey(a) = BuildCacheKey(b)
    PROVE  ~(Len(Base[a.handler]) < Len(Base[b.handler]))
<1> SUFFICES ASSUME Len(Base[a.handler]) < Len(Base[b.handler])
             PROVE  FALSE
  OBVIOUS
<1>1. PICK s, t, key, p, q : /\ s = Base[a.handler] /\ t = Base[b.handler]
                             /\ key = BuildCacheKey(a) /\ key = BuildCacheKey(b)
                             /\ p = Parts(a) /\ q = Parts(b)
  OBVIOUS
<1>2. /\ s \in Seq(Segments) /\ \A i \in 1 .. Len(s) : key[i] = s[i]
      /\ key[Len(s) + 1] = "user"
  BY <1>1, KeyParts
<1>3. t \in Seq(Segments) /\ \A i \in 1 .. Len(t) : key[i] = t[i]
  BY <1>1, KeyParts
<1>4. Len(s) \in Nat /\ Len(t) \in Nat /\ Len(s) < Len(t)
  BY <1>1, <1>2, <1>3, LenProperties
<1>5. PICK w \in Segments : w = "user"
  BY AskAssumption
<1>6. PICK u : u = s \o <<w>>
  OBVIOUS
<1>7. /\ u \in Seq(Segments) /\ Len(u) = Len(s) + 1
      /\ \A i \in 1 .. Len(s) : u[i] = s[i]
      /\ u[Len(s) + 1] = w
  <2>1. <<w>> \in Seq(Segments) /\ Len(<<w>>) = 1 /\ <<w>>[1] = w
    OBVIOUS
  <2>2. PICK v : v = <<w>> /\ v \in Seq(Segments) /\ Len(v) = 1 /\ v[1] = w
    BY <2>1
  <2>3. /\ u \in Seq(Segments) /\ Len(u) = Len(s) + 1
        /\ \A i \in 1 .. Len(s) : u[i] = s[i]
        /\ \A i \in 1 .. 1 : u[Len(s) + i] = v[i]
    BY <1>2, <1>6, <2>2, Joined DEF StandsAt
  <2>4. QED BY <2>2, <2>3
<1>8. \A i \in 1 .. Len(u) : u[i] = t[i]
  <2>1. ASSUME NEW i \in 1 .. Len(u)
        PROVE  u[i] = t[i]
    <3>1. i \in 1 .. Len(t) /\ i \in 1 .. Len(s) + 1
      BY <1>4, <1>7, <2>1
    <3>2. t[i] = key[i]
      BY <1>3, <3>1
    <3>3. CASE i =< Len(s)
      BY <1>2, <1>4, <1>7, <3>1, <3>2, <3>3
    <3>4. CASE ~(i =< Len(s))
      <4>1. i = Len(s) + 1
        BY <1>4, <3>1, <3>4
      <4>2. key[i] = w
        BY <1>2, <1>5, <4>1
      <4>3. QED BY <1>7, <3>1, <3>2, <3>4, <4>2
    <3>5. QED BY <3>3, <3>4
  <2>2. QED BY <2>1
<1>9. IsPrefix(u, t)
  <2>1. /\ SubSeq(u, 1, Len(u)) \in Seq(Segments) /\ Len(SubSeq(u, 1, Len(u))) = Len(u)
        /\ \A i \in 1 .. Len(u) : SubSeq(u, 1, Len(u))[i] = u[i]
    BY <1>4, <1>7
  <2>2. /\ SubSeq(t, 1, Len(u)) \in Seq(Segments) /\ Len(SubSeq(t, 1, Len(u))) = Len(u)
        /\ \A i \in 1 .. Len(u) : SubSeq(t, 1, Len(u))[i] = t[i]
    BY <1>3, <1>4, <1>7
  <2>3. SubSeq(u, 1, Len(u)) = SubSeq(t, 1, Len(u))
    BY <1>8, <2>1, <2>2, SeqEqual
  <2>4. QED BY <1>4, <1>7, <2>3 DEF IsPrefix
<1>10. a.handler \in Handlers /\ b.handler \in Handlers
  BY AskAssumption DEF Ask
<1>11. QED BY <1>1, <1>5, <1>6, <1>9, <1>10, BaseAssumption

(* buildCacheKey tells users apart, whatever names and values their        *)
(* queries have: where the base ends, the user stands, and what follows    *)
(* are the parameters.  Two asks of users with one key are of one user,    *)
(* for one key of @Cache and for parameters that are spelled alike.        *)
THEOREM KeysOfUsersDiffer ==
    ASSUME NEW a \in Asks, NEW b \in Asks, a.user # None, b.user # None,
           BuildCacheKey(a) = BuildCacheKey(b)
    PROVE  a.user = b.user /\ Base[a.handler] = Base[b.handler] /\ Parts(a) = Parts(b)
<1>1. PICK s, t, key, p, q : /\ s = Base[a.handler] /\ t = Base[b.handler]
                             /\ key = BuildCacheKey(a) /\ key = BuildCacheKey(b)
                             /\ p = Parts(a) /\ q = Parts(b)
  OBVIOUS
<1>2. /\ s \in Seq(Segments) /\ p \in Seq(Segments)
      /\ Len(key) = Len(s) + 2 + Len(p)
      /\ \A i \in 1 .. Len(s) : key[i] = s[i]
      /\ key[Len(s) + 2] = a.user
      /\ StandsAt(p, key, Len(s) + 2)
  <2>1. s = Base[a.handler] /\ p = Parts(a) /\ key = BuildCacheKey(a)
    BY <1>1
  <2>2. /\ s \in Seq(Segments) /\ p \in Seq(Segments)
        /\ Len(key) = Len(s) + 2 + Len(p)
    BY <2>1, KeyParts
  <2>3. /\ \A i \in 1 .. Len(s) : key[i] = s[i]
        /\ key[Len(s) + 2] = a.user
    BY <2>1, KeyParts
  <2>4. StandsAt(p, key, Len(s) + 2)
    BY <2>1, KeyParts
  <2>5. QED BY <2>2, <2>3, <2>4
<1>3. /\ t \in Seq(Segments) /\ q \in Seq(Segments)
      /\ Len(key) = Len(t) + 2 + Len(q)
      /\ \A i \in 1 .. Len(t) : key[i] = t[i]
      /\ key[Len(t) + 2] = b.user
      /\ StandsAt(q, key, Len(t) + 2)
  <2>1. t = Base[b.handler] /\ q = Parts(b) /\ key = BuildCacheKey(b)
    BY <1>1
  <2>2. /\ t \in Seq(Segments) /\ q \in Seq(Segments)
        /\ Len(key) = Len(t) + 2 + Len(q)
    BY <2>1, KeyParts
  <2>3. /\ \A i \in 1 .. Len(t) : key[i] = t[i]
        /\ key[Len(t) + 2] = b.user
    BY <2>1, KeyParts
  <2>4. StandsAt(q, key, Len(t) + 2)
    BY <2>1, KeyParts
  <2>5. QED BY <2>2, <2>3, <2>4
<1>4. Len(s) \in Nat /\ Len(t) \in Nat /\ Len(p) \in Nat /\ Len(q) \in Nat
  BY <1>2, <1>3, LenProperties
<1>5. Len(s) = Len(t)
  <2>1. ~(Len(s) < Len(t)) /\ ~(Len(t) < Len(s))
    BY <1>1, NoLongerBase
  <2>2. QED BY <1>4, <2>1
<1>6. s = t
  BY <1>2, <1>3, <1>5, SeqEqual
<1>7. p = q
  <2>1. Len(p) = Len(q)
    BY <1>2, <1>3, <1>4, <1>5
  <2>2. \A i \in 1 .. Len(p) : p[i] = q[i]
    BY <1>2, <1>3, <1>5, <2>1 DEF StandsAt
  <2>3. QED BY <1>2, <1>3, <2>1, <2>2, SeqEqual
<1>8. QED BY <1>1, <1>2, <1>3, <1>5, <1>6, <1>7

-----------------------------------------------------------------------------
(* Each result is under the key of its own ask, and in the hands of a      *)
(* request with that key. *)
Filed(k) == store[k] # None => BuildCacheKey(store[k].value.ask) = k

Mine(r) ==
    req[r].value # None => BuildCacheKey(req[r].value.ask) = BuildCacheKey(req[r].ask)

OwnInv == /\ \A k \in CacheKeys : Filed(k)
          /\ \A r \in Requests : Mine(r)

LEMMA FiledKeeps ==
    ASSUME OwnInv, UNCHANGED req, \A k \in CacheKeys : store'[k] \in {store[k], None}
    PROVE  OwnInv'
BY DEF OwnInv, Filed, Mine

LEMMA MineKeeps ==
    ASSUME OwnInv, req \in [Requests -> Request], UNCHANGED store,
           NEW r \in Requests, NEW q, req' = [req EXCEPT ![r] = q],
           q.value # None => BuildCacheKey(q.value.ask) = BuildCacheKey(q.ask)
    PROVE  OwnInv'
BY DEF OwnInv, Filed, Mine

LEMMA UseCounterKeepsResults ==
    ASSUME IInv, NEW k \in OtherKeys, UseCounter(k)
    PROVE  \A o \in CacheKeys : store'[o] = store[o]
<1>1. store \in [Keys -> Entry(Result \cup Counts) \cup {None}]
  BY DEF IInv, Typed, StoreTyped
<1>2. ASSUME NEW e, store' = [store EXCEPT ![k] = e]
      PROVE  \A o \in CacheKeys : store'[o] = store[o]
  BY <1>1, <1>2 DEF CacheKeys
<1>3. ASSUME NEW n \in Counts, Set(k, n, None)
      PROVE  \A o \in CacheKeys : store'[o] = store[o]
  BY <1>2, <1>3 DEF Set
<1>4. ASSUME NEW n \in Counts, MSet([o \in OtherKeys |-> n], None)
      PROVE  \A o \in CacheKeys : store'[o] = store[o]
  BY <1>4 DEF MSet, CacheKeys
<1>5. ASSUME NEW d, Add(k, d)
      PROVE  \A o \in CacheKeys : store'[o] = store[o]
  BY <1>2, <1>5 DEF Add
<1>6. ASSUME NEW ttl, Expire(k, ttl)
      PROVE  \A o \in CacheKeys : store'[o] = store[o]
  <2>1. store' = store \/ \E e : store' = [store EXCEPT ![k] = e]
    BY <1>6 DEF Expire
  <2>2. QED BY <1>2, <2>1
<1>7. QED BY <1>3, <1>4, <1>5, <1>6 DEF UseCounter, Incr, Decr

LEMMA LookUpOwn ==
    ASSUME IInv, OwnInv, NEW r \in Requests, LookUp(r)
    PROVE  OwnInv'
<1>1. /\ req[r] \in Request /\ Key(r) \in CacheKeys /\ Key(r) \in Keys
      /\ req \in [Requests -> Request] /\ UNCHANGED store
  BY KeyTyped DEF LookUp, IInv, Typed
<1>2. PICK q : /\ req' = [req EXCEPT ![r] = q]
               /\ \/ /\ Get(Key(r)) # None
                     /\ q = [req[r] EXCEPT !.pc = "idle", !.answer = "hit",
                                           !.value = Get(Key(r))]
                  \/ q = [req[r] EXCEPT !.pc = "handle"]
  BY DEF LookUp
<1>3. CASE Get(Key(r)) # None /\ q.value = Get(Key(r)) /\ q.ask = req[r].ask
  <2>1. PICK v : v = store[Key(r)].value
    OBVIOUS
  <2>2. store[Key(r)] # None /\ q.value = v /\ v \in Result
    BY <1>1, <1>3, <2>1 DEF Get, IInv, Typed, StoreTyped
  <2>3. BuildCacheKey(v.ask) = BuildCacheKey(req[r].ask)
    BY <1>1, <2>1, <2>2 DEF OwnInv, Filed, Key
  <2>4. QED BY <1>1, <1>2, <1>3, <2>2, <2>3, MineKeeps
<1>4. CASE q.value = req[r].value /\ q.ask = req[r].ask
  BY <1>1, <1>2, <1>4, MineKeeps DEF OwnInv, Mine
<1>5. QED BY <1>1, <1>2, <1>3, <1>4 DEF Request

LEMMA FillOwn ==
    ASSUME IInv, OwnInv, NEW r \in Requests, Fill(r)
    PROVE  OwnInv'
<1>1. PICK v, key : v = req[r].value /\ key = Key(r)
  OBVIOUS
<1>2. /\ req[r] \in Request /\ v \in Result /\ key \in CacheKeys
      /\ req \in [Requests -> Request]
      /\ store \in [Keys -> Entry(Result \cup Counts) \cup {None}]
  BY <1>1, KeyTyped DEF Fill, IInv, Typed, StoreTyped, Phase, Read
<1>3. v # None
  BY <1>2, KeyAssumption
<1>4. BuildCacheKey(v.ask) = key
  BY <1>1, <1>3 DEF OwnInv, Mine, Key
<1>5. PICK e : e = [value |-> v, expires |-> End(CacheTTL)]
  OBVIOUS
<1>6. e.value = v
  BY <1>5
<1>7. store' = [store EXCEPT ![key] = e] \/ store' = store
  BY <1>1, <1>5 DEF Fill, Set
<1>8. ASSUME NEW k \in CacheKeys
      PROVE  Filed(k)'
  <2>1. k \in Keys
    BY DEF CacheKeys
  <2>2. store'[k] = store[k] \/ (k = key /\ store'[k] = e)
    BY <1>2, <1>7, <2>1
  <2>3. QED BY <1>4, <1>6, <2>2 DEF OwnInv, Filed
<1>9. PICK q : /\ q = [req[r] EXCEPT !.pc = "idle", !.value = None, !.readAt = 0]
               /\ req' = [req EXCEPT ![r] = q]
  BY DEF Fill
<1>10. q.value = None
  BY <1>2, <1>9 DEF Request
<1>11. ASSUME NEW p \in Requests
       PROVE  Mine(p)'
  <2>1. req'[p] = IF p = r THEN q ELSE req[p]
    BY <1>2, <1>9
  <2>2. QED BY <1>10, <2>1 DEF OwnInv, Mine
<1>12. QED BY <1>8, <1>11 DEF OwnInv

LEMMA RequestOwn ==
    ASSUME IInv, OwnInv, NEW r \in Requests, RequestStep(r)
    PROVE  OwnInv'
<1>1. req[r] \in Request /\ req \in [Requests -> Request]
  BY DEF IInv, Typed
<1>2. ASSUME NEW a \in Asks, Intercept(r, a)
      PROVE  OwnInv'
  <2>1. PICK q : /\ q = [pc |-> "lookUp", ask |-> a, answer |-> "none",
                         value |-> None, readAt |-> 0, runs |-> 0]
                 /\ req' = [req EXCEPT ![r] = q]
    BY <1>2 DEF Intercept
  <2>2. q.value = None /\ UNCHANGED store
    BY <1>2, <2>1 DEF Intercept
  <2>3. QED BY <1>1, <2>1, <2>2, MineKeeps
<1>3. CASE Handle(r)
  <2>1. PICK v : v = [ask |-> req[r].ask, version |-> version]
    OBVIOUS
  <2>2. PICK q : /\ q = [req[r] EXCEPT !.pc = "respond", !.readAt = now,
                                       !.runs = req[r].runs + 1, !.value = v]
                 /\ req' = [req EXCEPT ![r] = q]
    BY <1>3, <2>1 DEF Handle
  <2>3. q.value = v /\ q.ask = req[r].ask /\ v.ask = req[r].ask
    BY <1>1, <2>1, <2>2 DEF Request
  <2>4. UNCHANGED store
    BY <1>3 DEF Handle
  <2>5. QED BY <1>1, <2>2, <2>3, <2>4, MineKeeps
<1>4. CASE Respond(r)
  <2>1. PICK q : /\ req' = [req EXCEPT ![r] = q]
                 /\ \/ q = [req[r] EXCEPT !.answer = "made", !.pc = "fill"]
                    \/ q = [req[r] EXCEPT !.answer = "error", !.pc = "idle",
                                          !.value = None, !.readAt = 0]
    BY <1>4 DEF Respond
  <2>2. q.value = None \/ (q.value = req[r].value /\ q.ask = req[r].ask)
    BY <1>1, <2>1 DEF Request
  <2>3. Mine(r)
    BY DEF OwnInv
  <2>4. q.value # None => BuildCacheKey(q.value.ask) = BuildCacheKey(q.ask)
    BY <2>2, <2>3 DEF Mine
  <2>5. QED BY <1>1, <1>4, <2>1, <2>4, MineKeeps DEF Respond
<1>5. QED BY <1>2, <1>3, <1>4, LookUpOwn, FillOwn DEF RequestStep

(* A request of a user is answered, from the cache or not, with nothing    *)
(* made for another user, another key of @Cache or other parameters: keys  *)
(* of users differ, and whatever else happens nothing is under a key but   *)
(* what was made for it (cache.interceptor.ts, intercept, buildCacheKey).  *)
THEOREM RequestsGetTheirOwn == Spec => []AnswersItsUser
<1>1. Init => OwnInv
  <2> SUFFICES ASSUME Init PROVE OwnInv
    OBVIOUS
  <2>1. \A k \in CacheKeys : Filed(k)
    BY DEF Init, CacheKeys, Filed
  <2>2. \A r \in Requests : Mine(r)
    BY DEF Init, Mine
  <2>3. QED BY <2>1, <2>2 DEF OwnInv
<1>2. IInv /\ OwnInv /\ [Next]_vars => OwnInv'
  <2> SUFFICES ASSUME IInv, OwnInv, [Next]_vars PROVE OwnInv'
    OBVIOUS
  <2>1. ASSUME NEW r \in Requests, RequestStep(r) PROVE OwnInv'
    BY <2>1, RequestOwn
  <2>2. ASSUME NEW k \in OtherKeys, UseCounter(k) PROVE OwnInv'
    BY <2>2, UseCounterKeepsResults, FiledKeeps DEF UseCounter
  <2>3. CASE Operate
    <3>1. \A k \in CacheKeys : store'[k] \in {store[k], None}
      BY <2>3 DEF Operate, Flush, Del, CacheKeys, IInv, Typed, StoreTyped
    <3>2. QED BY <2>3, <3>1, FiledKeeps DEF Operate
  <2>4. CASE Tick
    <3>1. \A k \in CacheKeys : store'[k] \in {store[k], None}
      BY <2>4 DEF Tick, Dropped, CacheKeys
    <3>2. QED BY <2>4, <3>1, FiledKeeps DEF Tick
  <2>5. CASE Change \/ UNCHANGED vars
    BY <2>5, FiledKeeps DEF Change, vars
  <2>6. QED BY <2>1, <2>2, <2>3, <2>4, <2>5 DEF Next
<1>3. IInv /\ OwnInv => AnswersItsUser
  <2> SUFFICES ASSUME IInv, OwnInv, NEW r \in Requests,
                      req[r].value # None, req[r].ask.user # None,
                      req[r].value.ask.user # None
               PROVE  /\ req[r].value.ask.user = req[r].ask.user
                      /\ Base[req[r].value.ask.handler] = Base[req[r].ask.handler]
                      /\ Parts(req[r].value.ask) = Parts(req[r].ask)
    BY DEF AnswersItsUser
  <2>1. req[r].ask \in Asks /\ req[r].value.ask \in Asks
    BY DEF IInv, Typed, Request, Result
  <2>2. BuildCacheKey(req[r].value.ask) = BuildCacheKey(req[r].ask)
    BY DEF OwnInv, Mine
  <2>3. QED BY <2>1, <2>2, KeysOfUsersDiffer
<1>4. QED BY <1>1, <1>2, <1>3, SpecInv, PTL DEF Spec

-----------------------------------------------------------------------------
(* Which commands keep an expiry. *)
KeepsTTLs ==
    \A k \in Keys : store[k] # None /\ store[k].expires # Never /\ store'[k] # None
                        => store'[k].expires # Never

LEMMA DropKeepsTTLs ==
    ASSUME \A k \in Keys : store'[k] \in {store[k], None}
    PROVE  KeepsTTLs
BY DEF KeepsTTLs

LEMMA SetKeepsTTLs ==
    ASSUME IInv, NEW k \in Keys, NEW e, e.expires # Never, store' = [store EXCEPT ![k] = e]
    PROVE  KeepsTTLs
BY DEF KeepsTTLs, IInv, Typed, StoreTyped

LEMMA FillKeepsTTLs ==
    ASSUME IInv, NEW r \in Requests, Fill(r)
    PROVE  KeepsTTLs
<1>1. Key(r) \in Keys /\ End(CacheTTL) # Never
  <2>1. now \in Nat
    BY BoundsAssumption DEF IInv, Typed
  <2>2. QED BY <2>1, KeyTyped, EndTyped, BoundsAssumption
<1>2. CASE Set(Key(r), req[r].value, CacheTTL)
  <2>1. PICK e : /\ e = [value |-> req[r].value, expires |-> End(CacheTTL)]
                 /\ store' = [store EXCEPT ![Key(r)] = e]
    BY <1>2 DEF Set
  <2>2. e.expires # Never
    BY <1>1, <2>1
  <2>3. QED BY <1>1, <2>1, <2>2, SetKeepsTTLs
<1>3. CASE UNCHANGED store
  BY <1>3 DEF KeepsTTLs
<1>4. QED BY <1>2, <1>3 DEF Fill

LEMMA UseCounterKeepsTTLs ==
    ASSUME IInv, NEW k \in OtherKeys, UseCounter(k)
    PROVE  KeepsTTLs
<1>1. now \in Nat /\ End(None) # Never /\ k \in Keys
  <2>1. now \in Nat
    BY BoundsAssumption DEF IInv, Typed
  <2>2. QED BY <2>1, EndTyped, CountTyped
<1>2. ASSUME NEW n \in Counts, Set(k, n, None)
      PROVE  KeepsTTLs
  <2>1. PICK e : e = [value |-> n, expires |-> End(None)] /\ store' = [store EXCEPT ![k] = e]
    BY <1>2 DEF Set
  <2>2. e.expires # Never
    BY <1>1, <2>1
  <2>3. QED BY <1>1, <2>1, <2>2, SetKeepsTTLs
<1>3. ASSUME NEW n \in Counts, MSet([o \in OtherKeys |-> n], None)
      PROVE  KeepsTTLs
  <2>1. PICK e, done : /\ e = [value |-> n, expires |-> End(None)]
                       /\ \A o \in Keys : store'[o] \in {e, store[o]}
    BY <1>3 DEF MSet
  <2>2. QED BY <1>1, <2>1 DEF KeepsTTLs
<1>4. ASSUME NEW d \in Int, Add(k, d)
      PROVE  KeepsTTLs
  <2>1. CASE store[k] = None
    BY <1>4, <2>1 DEF Add, KeepsTTLs, IInv, Typed, StoreTyped
  <2>2. CASE store[k] # None
    <3>1. PICK e : /\ e = [store[k] EXCEPT !.value = store[k].value + d]
                   /\ store' = [store EXCEPT ![k] = e]
      BY <1>4, <2>2 DEF Add
    <3>2. e.expires = store[k].expires
      BY <2>2, <3>1, CountTyped DEF Entry
    <3>3. QED BY <3>1, <3>2 DEF KeepsTTLs, IInv, Typed, StoreTyped
  <2>3. QED BY <2>1, <2>2
<1>5. ASSUME NEW ttl \in 0 .. DefaultTTL, Expire(k, ttl)
      PROVE  KeepsTTLs
  <2>1. CASE store[k] = None \/ ttl =< 0
    BY <1>5, <2>1 DEF Expire, KeepsTTLs, IInv, Typed, StoreTyped
  <2>2. CASE ~(store[k] = None \/ ttl =< 0)
    <3>1. PICK e : /\ e = [store[k] EXCEPT !.expires = now + ttl]
                   /\ store' = [store EXCEPT ![k] = e]
      BY <1>5, <2>2 DEF Expire
    <3>2. now + ttl \in Nat
      BY <1>1, CacheAssumption
    <3>3. e.expires # Never
      BY <2>2, <3>1, <3>2, CountTyped, CacheAssumption DEF Entry
    <3>4. QED BY <1>1, <3>1, <3>3, SetKeepsTTLs
  <2>3. QED BY <2>1, <2>2
<1>6. QED BY <1>2, <1>3, <1>4, <1>5 DEF UseCounter, Incr, Decr

(* No command, of the interceptor or of other code, in any order, turns an *)
(* entry that expires into one that does not (cache.service.ts, set, mset, *)
(* increment, decrement, expire).                                          *)
THEOREM EntriesKeepExpiring == Spec => TTLsAreKept
<1>1. IInv /\ [Next]_vars => [KeepsTTLs]_store
  <2> SUFFICES ASSUME IInv, [Next]_vars PROVE KeepsTTLs \/ UNCHANGED store
    OBVIOUS
  <2>1. ASSUME NEW r \in Requests, RequestStep(r) PROVE KeepsTTLs \/ UNCHANGED store
    BY <2>1, FillKeepsTTLs DEF RequestStep, Intercept, LookUp, Handle, Respond
  <2>2. ASSUME NEW k \in OtherKeys, UseCounter(k) PROVE KeepsTTLs
    BY <2>2, UseCounterKeepsTTLs
  <2>3. CASE Operate
    <3>1. CASE Flush
      BY <3>1 DEF Flush, KeepsTTLs
    <3>2. ASSUME NEW k \in Keys, Del(k)
          PROVE  KeepsTTLs
      BY <3>2 DEF Del, KeepsTTLs, IInv, Typed, StoreTyped
    <3>3. QED BY <2>3, <3>1, <3>2 DEF Operate
  <2>4. CASE Tick
    <3>1. \A k \in Keys : store'[k] \in {store[k], None}
      BY <2>4 DEF Tick, Dropped
    <3>2. QED BY <3>1, DropKeepsTTLs
  <2>5. CASE Change \/ UNCHANGED vars
    BY <2>5 DEF Change, vars
  <2>6. QED BY <2>1, <2>2, <2>3, <2>4, <2>5 DEF Next
<1>2. QED BY <1>1, SpecInv, PTL DEF Spec, TTLsAreKept, KeepsTTLs
=============================================================================
