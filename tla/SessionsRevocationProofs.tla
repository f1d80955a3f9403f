---------------------- MODULE SessionsRevocationProofs ----------------------
(***************************************************************************)
(* More about Sessions: types, revoked tokens, and logoutAllSessions, for  *)
(* any calls, users, TTLs and failures.                                    *)
(*                                                                         *)
(* A token's entry on the blacklist ends early by less than a second, the  *)
(* one that rounding its TTL down takes away (Lasting): so long as more    *)
(* than that is left of the token, the entry is there and validateToken    *)
(* finds it.  The invariant carries the bound from the moment the TTL is   *)
(* computed to the moment the entry is written, some time later.           *)
(***************************************************************************)
EXTENDS SessionsProofs

(* A call has no answer before it is done, and one whose token was seen    *)
(* revoked has been refused.                                               *)
Answered ==
    /\ answer \in [Requests -> Answers]
    /\ \A r \in Requests : pc[r] # "done" => answer[r] = "none"
    /\ due \subseteq Requests
    /\ \A r \in due : pc[r] = "done" /\ answer[r] = "unauthorized"

(* What is on the blacklist, or about to be, lasts for all but the last    *)
(* second of its token, unless it was cut.                                 *)
Covers(end, t) == now + Second =< t => end # 0 /\ t < end + Second

Lasting ==
    /\ blacklist \in [Sessions -> Nat] /\ ttl \in [Requests -> Nat]
    /\ revoked \in [Sessions -> SUBSET Nat] /\ cut \in [Sessions -> SUBSET Nat]
    /\ \A s \in Sessions : \A t \in revoked[s] \ cut[s] : Covers(blacklist[s], t)
    /\ \A r \in Requests : pc[r] = "blacklist" =>
          /\ call[r].op = "logout" /\ ttl[r] > 0
          /\ Exp(call[r].sid, call[r].kind) < now + ttl[r] * Second + Second

RInv == IInv /\ Answered /\ Lasting

-----------------------------------------------------------------------------
(* Rounding down loses less than a second. *)
LEMMA DivBound ==
    ASSUME NEW a \in Int, NEW n \in Nat \ {0}
    PROVE  a \div n \in Int /\ a < (a \div n) * n + n
BY SMTT(30)

LEMMA ProductTyped ==
    ASSUME NEW a \in Nat, NEW b \in Nat \ {0}
    PROVE  a * b \in Nat /\ (a > 0 => a * b > 0)
BY SMTT(30)

LEMMA ExpTyped ==
    ASSUME IInv, NEW s \in Sessions, signed[s] # None, NEW kind
    PROVE  Exp(s, kind) \in Nat
<1>1. signed[s].iat \in Nat
  BY DEF IInv, Typed, Claims
<1>2. signed[s].iat + (IF kind = "access" THEN AccessTTL ELSE RefreshTTL) \in Nat
  BY <1>1, SessionsAssumption
<1>3. QED BY <1>2, SessionsAssumption DEF Exp

LEMMA SecondsLeftBound ==
    ASSUME now \in Nat, NEW t \in Nat, SecondsLeft(t) > 0
    PROVE  SecondsLeft(t) \in Nat /\ t < now + SecondsLeft(t) * Second + Second
<1>1. (t - now) \div Second \in Int
      /\ t - now < ((t - now) \div Second) * Second + Second
  BY DivBound, SessionsAssumption
<1>2. SecondsLeft(t) = (t - now) \div Second
  BY <1>1 DEF SecondsLeft, Largest
<1> DEFINE d == (t - now) \div Second
<1>3. d * Second \in Int
  BY <1>1, SessionsAssumption
<1> HIDE DEF d
<1>4. QED BY <1>1, <1>2, <1>3, SessionsAssumption DEF d

LEMMA InitRInv == Init => RInv
<1> SUFFICES ASSUME Init PROVE RInv
  OBVIOUS
<1>1. Answered
  BY DEF Init, Answered, Answers
<1>2. Lasting
  BY SessionsAssumption DEF Init, Lasting, Covers
<1>3. QED BY <1>1, <1>2, InitInv DEF RInv

(* Steps that neither blacklist nor look there. *)
Quiet(r) ==
    /\ pc[r] # "done"
    /\ \/ UNCHANGED <<pc, answer>>
       \/ \E l \in Labels \ {"done", "blacklist"} : Goto(r, l)
       \/ \E a \in Answers : Answer(r, a)
    /\ UNCHANGED <<now, blacklist, revoked, cut, ttl, call, due>>
    /\ \A s \in Sessions : signed[s] # None => signed'[s] = signed[s]

LEMMA QuietKeeps ==
    ASSUME RInv, NEW r \in Requests, Quiet(r)
    PROVE  Answered' /\ Lasting'
<1>1. /\ \A q \in Requests : \/ pc'[q] = pc[q] /\ answer'[q] = answer[q]
                             \/ q = r /\ pc'[q] # "blacklist"
                                /\ (pc'[q] # "done" => answer'[q] = answer[q])
      /\ answer' \in [Requests -> Answers]
  BY DEF RInv, IInv, Typed, Answered, Quiet, Goto, Answer
<1>2. Answered'
  BY <1>1 DEF RInv, Answered, Quiet
<1>3. ASSUME NEW q \in Requests, pc'[q] = "blacklist"
      PROVE  /\ pc[q] = "blacklist"
             /\ Exp(call[q].sid, call[q].kind)' = Exp(call[q].sid, call[q].kind)
  <2>1. pc[q] = "blacklist"
    BY <1>1, <1>3
  <2>2. call[q].op \in TokenOps
    BY <2>1 DEF RInv, Lasting, TokenOps
  <2>3. call[q].sid \in held
    BY <2>1, <2>2 DEF RInv, IInv, Doing
  <2>4. signed'[call[q].sid] = signed[call[q].sid]
    BY <2>3 DEF RInv, IInv, Typed, Tokens, Quiet
  <2>5. QED BY <2>1, <2>4 DEF Exp, Quiet
<1>4. Lasting'
  BY <1>3 DEF RInv, Lasting, Covers, Quiet
<1>5. QED BY <1>2, <1>4

LEMMA LookupQuiet ==
    ASSUME RInv, NEW r \in Requests, Begin(r) \/ FindUser(r) \/ Create(r)
    PROVE  Quiet(r)
<1>1. CASE Begin(r)
  <2>1. FirstLabel[call[r].op] \in {"findUser", "isBlacklisted", "keys"}
    BY CallFacts DEF RInv, IInv, Typed, TokenOps, UserOps, FirstLabel
  <2>2. QED BY <1>1, <2>1 DEF Begin, Quiet, Labels, Answers, store, locals, history
<1>2. CASE FindUser(r)
  <2>1. \A s \in Sessions : signed[s] # None => signed'[s] = signed[s]
    <3>1. ASSUME NEW u, SignFor(r, u)
          PROVE  \A s \in Sessions : signed[s] # None => signed'[s] = signed[s]
      BY <3>1, NewIdUnused DEF SignFor, RInv, IInv, Typed
    <3>2. QED BY <1>2, <3>1 DEF FindUser
  <2>2. QED BY <1>2, <2>1 DEF FindUser, SignFor, Quiet, Labels, Answers, store, history
<1>3. CASE Create(r)
  BY <1>3 DEF Create, Quiet, Labels, Answers, locals
<1>4. QED BY <1>1, <1>2, <1>3

LEMMA ScanQuiet ==
    ASSUME RInv, NEW r \in Requests,
           \/ GetSession(r) \/ ReadSession(r) \/ Touch(r)
           \/ Keys(r) \/ Scan(r) \/ DestroyEach(r)
    PROVE  Quiet(r)
<1> USE DEF Quiet, Labels, Answers
<1>1. CASE GetSession(r)
  BY <1>1 DEF GetSession, store, locals
<1>2. CASE ReadSession(r)
  BY <1>2 DEF ReadSession, store
<1>3. CASE Touch(r)
  BY <1>3 DEF Touch
<1>4. CASE Keys(r)
  BY <1>4 DEF Keys, store
<1>5. CASE Scan(r)
  BY <1>5 DEF Scan, store
<1>6. CASE DestroyEach(r)
  BY <1>6 DEF DestroyEach
<1>7. QED BY <1>1, <1>2, <1>3, <1>4, <1>5, <1>6

(* A revoked token is seen to be revoked. *)
LEMMA IsBlacklistedKeeps ==
    ASSUME RInv, NEW r \in Requests, IsBlacklisted(r)
    PROVE  Answered' /\ Lasting'
<1>1. pc[r] = "isBlacklisted" /\ call[r].sid \in Sessions
  BY DEF IsBlacklisted, RInv, IInv, Doing, Typed, TokenOps
<1>2. due' = due \/ (due' = due \cup {r} /\ Answer(r, "unauthorized"))
  BY <1>1 DEF IsBlacklisted, RInv, Lasting, Covers
<1>3. /\ Goto(r, "getSession") \/ Answer(r, "unauthorized")
      /\ UNCHANGED <<now, blacklist, revoked, cut, ttl, call, signed>>
  BY DEF IsBlacklisted, store, locals
<1>4. Answered'
  BY <1>1, <1>2, <1>3 DEF RInv, IInv, Typed, Answered, Goto, Answer, Answers
<1>5. \A q \in Requests : pc'[q] = "blacklist" => pc[q] = "blacklist"
  BY <1>3 DEF RInv, IInv, Typed, Goto, Answer
<1>6. Lasting'
  BY <1>3, <1>5 DEF RInv, Lasting, Covers, Exp
<1>7. QED BY <1>4, <1>6

(* The TTL is computed ... *)
LEMMA DestroyKeeps ==
    ASSUME RInv, NEW r \in Requests, Destroy(r)
    PROVE  Answered' /\ Lasting'
<1> DEFINE t == Exp(call[r].sid, call[r].kind)
           left == SecondsLeft(t)
<1>1. /\ pc[r] = "destroy" /\ call[r].sid \in Sessions /\ signed[call[r].sid] # None
  BY DEF Destroy, RInv, IInv, Doing, Typed, Tokens, TokenOps
<1>2. t \in Nat /\ now \in Nat
  BY <1>1, ExpTyped DEF RInv, IInv, Typed
<1>3. /\ UNCHANGED <<now, blacklist, revoked, cut, call, signed, due>>
      /\ \/ /\ Goto(r, "blacklist") /\ call[r].op = "logout" /\ left > 0
            /\ ttl' = [ttl EXCEPT ![r] = left]
         \/ /\ \E a \in Answers : Answer(r, a)
            /\ ttl' = ttl \/ ttl' = [ttl EXCEPT ![r] = 0] \/ ttl' = [ttl EXCEPT ![r] = left]
  BY DEF Destroy, Answers
<1>4. left \in Nat
  BY <1>2, DivBound, SessionsAssumption DEF SecondsLeft, Largest
<1>5. left > 0 => t < now + left * Second + Second
  BY <1>2, SecondsLeftBound
<1>6. Answered'
  BY <1>1, <1>3 DEF RInv, IInv, Typed, Answered, Goto, Answer
<1>7. ASSUME NEW q \in Requests, q # r
      PROVE  pc'[q] = pc[q] /\ ttl'[q] = ttl[q]
  BY <1>3, <1>7 DEF RInv, IInv, Typed, Lasting, Goto, Answer
<1> HIDE DEF left
<1>8. ttl' \in [Requests -> Nat]
  BY <1>3, <1>4 DEF RInv, Lasting
<1>9. pc'[r] = "blacklist" => call[r].op = "logout" /\ ttl'[r] = left /\ left > 0
  BY <1>3, <1>4 DEF RInv, IInv, Typed, Lasting, Goto, Answer
<1>10. \A q \in Requests :
          Exp(call[q].sid, call[q].kind)' = Exp(call[q].sid, call[q].kind)
  BY <1>3 DEF Exp
<1>11. Lasting'
  BY <1>3, <1>5, <1>7, <1>8, <1>9, <1>10 DEF RInv, Lasting, Covers
<1>12. QED BY <1>6, <1>11

(* ... and the entry written, later, with an end counted from then. *)
LEMMA BlacklistKeeps ==
    ASSUME RInv, NEW r \in Requests, Blacklist(r)
    PROVE  Answered' /\ Lasting'
<1> DEFINE id == call[r].sid
           t == Exp(id, call[r].kind)
           e == now + ttl[r] * Second
<1>1. /\ pc[r] = "blacklist" /\ call[r].op = "logout" /\ ttl[r] > 0 /\ t < e + Second
      /\ ttl[r] \in Nat
  BY DEF Blacklist, RInv, Lasting
<1>2. id \in Sessions /\ signed[id] # None
  BY <1>1 DEF RInv, IInv, Doing, Typed, Tokens, TokenOps
<1>3. t \in Nat /\ now \in Nat
  BY <1>2, ExpTyped DEF RInv, IInv, Typed
<1>4. e \in Nat \ {0}
  <2> DEFINE d == ttl[r] * Second
  <2>1. d \in Nat /\ d > 0
    BY <1>1, ProductTyped, SessionsAssumption
  <2> HIDE DEF d
  <2>2. now + d \in Nat \ {0}
    BY <1>3, <2>1
  <2>3. QED BY <2>2 DEF d
<1>5. /\ Answer(r, "ok") /\ UNCHANGED <<now, call, signed, due>>
      /\ ttl' = [ttl EXCEPT ![r] = 0]
      /\ \/ UNCHANGED <<blacklist, revoked, cut>>
         \/ /\ blacklist' = [blacklist EXCEPT ![id] = e]
            /\ revoked' = [revoked EXCEPT ![id] = revoked[id] \cup {t}]
            /\ cut' = [cut EXCEPT ![id] = {x \in revoked[id] : x > t}]
  BY DEF Blacklist
<1>6. Answered'
  BY <1>1, <1>5 DEF RInv, IInv, Typed, Answered, Answer, Answers
<1> HIDE DEF e, t
<1>7. /\ blacklist' \in [Sessions -> Nat]
      /\ revoked' \in [Sessions -> SUBSET Nat] /\ cut' \in [Sessions -> SUBSET Nat]
      /\ \A s \in Sessions : \A x \in revoked'[s] \ cut'[s] :
            now + Second =< x => blacklist'[s] # 0 /\ x < blacklist'[s] + Second
  <2>1. CASE UNCHANGED <<blacklist, revoked, cut>>
    BY <2>1 DEF RInv, Lasting, Covers
  <2>2. CASE ~UNCHANGED <<blacklist, revoked, cut>>
    <3>1. \A s \in Sessions :
             /\ blacklist'[s] = IF s = id THEN e ELSE blacklist[s]
             /\ revoked'[s] = IF s = id THEN revoked[s] \cup {t} ELSE revoked[s]
             /\ cut'[s] = IF s = id THEN {x \in revoked[s] : x > t} ELSE cut[s]
      BY <1>5, <2>2 DEF RInv, Lasting
    <3>2. /\ blacklist' \in [Sessions -> Nat]
          /\ revoked' \in [Sessions -> SUBSET Nat] /\ cut' \in [Sessions -> SUBSET Nat]
      BY <1>2, <1>3, <1>4, <1>5, <2>2 DEF RInv, Lasting
    <3>3. ASSUME NEW s \in Sessions, NEW x \in revoked'[s] \ cut'[s], now + Second =< x
          PROVE  blacklist'[s] # 0 /\ x < blacklist'[s] + Second
      <4>1. CASE s = id
        <5>1. x \in Nat
          BY <3>2, <3>3
        <5>2. x \in revoked[s] \cup {t} /\ x \notin {y \in revoked[s] : y > t}
          BY <3>1, <3>3, <4>1
        <5>3. x =< t
          BY <1>3, <5>1, <5>2
        <5>4. blacklist'[s] = e
          BY <3>1, <4>1
        <5>5. QED BY <1>1, <1>3, <1>4, <5>1, <5>3, <5>4, SessionsAssumption
      <4>2. CASE s # id
        BY <3>1, <3>3, <4>2 DEF RInv, Lasting, Covers
      <4>3. QED BY <4>1, <4>2
    <3>4. QED BY <3>2, <3>3
  <2>3. QED BY <2>1, <2>2
<1>8. \A q \in Requests : pc'[q] = "blacklist" => pc[q] = "blacklist" /\ ttl'[q] = ttl[q]
  BY <1>5 DEF RInv, IInv, Typed, Lasting, Answer
<1>9. \A q \in Requests :
         Exp(call[q].sid, call[q].kind)' = Exp(call[q].sid, call[q].kind)
  BY <1>5 DEF Exp
<1>10. ttl' \in [Requests -> Nat]
  BY <1>5 DEF RInv, Lasting
<1>11. Lasting'
  BY <1>5, <1>7, <1>8, <1>9, <1>10 DEF RInv, Lasting, Covers
<1>12. QED BY <1>6, <1>11

(* Time passes, and an entry goes with the last second of its token. *)
LEMMA TickKeeps ==
    ASSUME RInv, Tick
    PROVE  Answered' /\ Lasting'
<1>1. /\ now \in Nat /\ now' = now + 1 /\ Second \in Nat \ {0}
      /\ UNCHANGED <<pc, answer, due, revoked, cut, ttl, call, signed>>
      /\ blacklist' \in [Sessions -> Nat]
      /\ \A s \in Sessions : blacklist'[s] = IF blacklist[s] = now + 1 THEN 0 ELSE blacklist[s]
  BY SessionsAssumption DEF Tick, RInv, IInv, Typed, Lasting, locals, history
<1>2. Answered'
  BY <1>1 DEF RInv, Answered
<1>3. ASSUME NEW s \in Sessions, NEW t \in revoked'[s] \ cut'[s], now' + Second =< t
      PROVE  blacklist'[s] # 0 /\ t < blacklist'[s] + Second
  <2>1. t \in Nat /\ blacklist[s] \in Nat /\ t \in revoked[s] \ cut[s]
    BY <1>1 DEF RInv, Lasting
  <2>2. now + Second =< t
    BY <1>1, <1>3, <2>1
  <2>3. blacklist[s] # 0 /\ t < blacklist[s] + Second
    BY <2>1, <2>2 DEF RInv, Lasting, Covers
  <2>4. QED BY <1>1, <1>3, <2>1, <2>3
<1>4. ASSUME NEW q \in Requests, pc'[q] = "blacklist"
      PROVE  /\ call'[q].op = "logout" /\ ttl'[q] > 0
             /\ Exp(call[q].sid, call[q].kind)' < now' + ttl'[q] * Second + Second
  <2> DEFINE t == Exp(call[q].sid, call[q].kind)
             d == ttl[q] * Second
  <2>1. call[q].op = "logout" /\ ttl[q] > 0 /\ t < now + d + Second
    BY <1>1, <1>4 DEF RInv, Lasting
  <2>2. signed[call[q].sid] # None /\ call[q].sid \in Sessions
    BY <1>1, <1>4, <2>1 DEF RInv, IInv, Doing, Typed, Tokens, TokenOps
  <2>3. t \in Nat /\ d \in Nat
    BY <2>2, ExpTyped, SessionsAssumption DEF RInv, Lasting
  <2>4. Exp(call[q].sid, call[q].kind)' = t /\ ttl'[q] * Second = d
    BY <1>1 DEF Exp
  <2> HIDE DEF t, d
  <2>5. t < now' + d + Second
    BY <1>1, <2>1, <2>3
  <2>6. QED BY <1>1, <2>1, <2>4, <2>5
<1>5. Lasting'
  BY <1>1, <1>3, <1>4 DEF RInv, Lasting, Covers
<1>6. QED BY <1>2, <1>5

LEMMA NextRInv == RInv /\ [Next]_vars => RInv'
<1> SUFFICES ASSUME RInv, [Next]_vars PROVE RInv'
  OBVIOUS
<1>1. ASSUME NEW r \in Requests,
             \/ Begin(r) \/ FindUser(r) \/ Create(r)
             \/ SessionStep(r) \/ DestroyStep(r)
      PROVE  Answered' /\ Lasting'
  BY <1>1, LookupQuiet, ScanQuiet, QuietKeeps, IsBlacklistedKeeps, DestroyKeeps,
     BlacklistKeeps DEF SessionStep, DestroyStep
<1>2. ASSUME UNCHANGED vars
      PROVE  Answered' /\ Lasting'
  <2>1. UNCHANGED <<now, blacklist, revoked, cut, ttl, pc, answer, call, signed, due>>
    BY <1>2 DEF vars, store, locals, history
  <2>2. QED BY <2>1 DEF RInv, Answered, Lasting, Covers, Exp
<1>3. IInv'
  BY NextInv DEF RInv
<1>4. QED BY <1>1, <1>2, <1>3, TickKeeps DEF Next, RInv

THEOREM SpecRInv == Spec => []RInv
BY InitRInv, NextRInv, PTL DEF Spec

(* logout, then validateToken: once a logout has blacklisted a token,      *)
(* every token of its session is refused at the blacklist while that token *)
(* has a whole second to live, if Redis answers, unless a later logout     *)
(* with a token sooner to expire has cut its entry short; whatever         *)
(* overlapping calls do to the session.                                    *)
THEOREM RevokedStaysRefused == Spec => []RevocationHolds
<1>1. RInv => RevocationHolds
  BY DEF RInv, Answered, IInv, Typed, RevocationHolds
<1> QED
  BY SpecRInv, <1>1, PTL

-----------------------------------------------------------------------------
(* What a call leaves behind in the store: what was there, the session of  *)
(* a new id, or a session written once more.                               *)
StepOf(r) == Begin(r) \/ FindUser(r) \/ Create(r) \/ SessionStep(r) \/ DestroyStep(r)

Stored(r, s) ==
    \/ session'[s] = session[s]
    \/ /\ pc[r] = "create" /\ s = new[r]
       /\ \E u \in Users : session'[s] = Entry(u, SessionTTL)
    \/ /\ s \in held /\ (session[s] # None \/ s \in revived')
       /\ \E u \in Users : session'[s] = Entry(u, SlidingWindow)

LEMMA StoreEffects ==
    ASSUME IInv, NEW r \in Requests, StepOf(r)
    PROVE  /\ \A s \in Sessions : session'[s] # None => Stored(r, s)
           /\ revived \subseteq revived' /\ shaky \subseteq shaky' /\ now' = now
<1> DEFINE Goal == /\ \A s \in Sessions : session'[s] # None => Stored(r, s)
                   /\ revived \subseteq revived' /\ shaky \subseteq shaky' /\ now' = now
<1>1. CASE Begin(r)
  BY <1>1 DEF Begin, store, history, Stored
<1>2. CASE FindUser(r)
  BY <1>2 DEF FindUser, store, history, Stored
<1>3. CASE Create(r)
  <2>1. signed[new[r]].user \in Users
    BY <1>3, NoneAssumption DEF Create, IInv, Fresh, Typed, Claims
  <2>2. QED BY <1>3, <2>1 DEF Create, RedisAnswers, RedisFails, IInv, Typed, Stored
<1>4. CASE IsBlacklisted(r) \/ GetSession(r) \/ ReadSession(r)
  BY <1>4 DEF IsBlacklisted, GetSession, ReadSession, RedisAnswers, RedisFails, store, Stored
<1>5. CASE Touch(r)
  <2>1. call[r].sid \in held /\ read[r] \in Users
    BY <1>5 DEF Touch, IInv, Doing, Typed, Tokens, TokenOps, Claims
  <2>2. /\ UNCHANGED session \/ session' = [session EXCEPT ![call[r].sid] = Entry(read[r], SlidingWindow)]
        /\ session' # session /\ session[call[r].sid] = None => call[r].sid \in revived'
        /\ revived \subseteq revived' /\ shaky \subseteq shaky' /\ now' = now
    BY <1>5 DEF Touch, RedisAnswers, RedisFails
  <2>3. QED BY <2>1, <2>2 DEF IInv, Typed, Stored
<1>6. CASE Destroy(r)
  BY <1>6 DEF Destroy, RedisAnswers, RedisFails, IInv, Typed, Stored
<1>7. CASE Blacklist(r) \/ Keys(r) \/ Scan(r)
  BY <1>7 DEF Blacklist, Keys, Scan, RedisAnswers, RedisFails, store, Stored
<1>8. CASE DestroyEach(r)
  BY <1>8 DEF DestroyEach, RedisAnswers, RedisFails, IInv, Typed, Stored
<1>9. QED BY <1>1, <1>2, <1>3, <1>4, <1>5, <1>6, <1>7, <1>8
              DEF StepOf, SessionStep, DestroyStep

(* Sessions expire in the future, and not too far in it. *)
Bounded ==
    /\ now \in 0 .. MaxTime
    /\ \A s \in Sessions : session[s] # None =>
          /\ session[s].expires > now
          /\ session[s].expires =< now + Second * Largest(SessionTTL, SlidingWindow)

LEMMA ProductMonotone ==
    ASSUME NEW a \in Nat, NEW b \in Nat, NEW c \in Nat, a =< b
    PROVE  a * c =< c * b
BY SMTT(30)

LEMMA EntryBounded ==
    ASSUME now \in Nat, NEW u \in Users, NEW n \in {SessionTTL, SlidingWindow}
    PROVE  /\ Entry(u, n).expires > now
           /\ Entry(u, n).expires =< now + Second * Largest(SessionTTL, SlidingWindow)
<1> DEFINE l == Largest(SessionTTL, SlidingWindow)
<1>1. n \in Nat /\ n > 0 /\ l \in Nat /\ n =< l
  BY SessionsAssumption DEF Largest
<1> HIDE DEF l
<1> DEFINE d == n * Second
           m == Second * l
<1>2. d \in Nat /\ d > 0
  BY <1>1, ProductTyped, SessionsAssumption
<1>3. d =< m
  BY <1>1, ProductMonotone, SessionsAssumption
<1>4. Entry(u, n).expires = now + d
  BY DEF Entry
<1>5. m \in Int
  BY <1>1, SessionsAssumption
<1> HIDE DEF d, m
<1>6. now + d > now /\ now + d =< now + m
  BY <1>2, <1>3, <1>5
<1>7. QED BY <1>4, <1>6 DEF l, m

LEMMA BoundedNext ==
    ASSUME IInv, Bounded, [Next]_vars
    PROVE  Bounded'
<1>1. ASSUME NEW r \in Requests, StepOf(r)
      PROVE  Bounded'
  <2>1. now' = now /\ now \in Nat
    BY <1>1, StoreEffects DEF IInv, Typed
  <2>2. ASSUME NEW s \in Sessions, session'[s] # None
        PROVE  /\ session'[s].expires > now
               /\ session'[s].expires =< now + Second * Largest(SessionTTL, SlidingWindow)
    <3>1. Stored(r, s)
      BY <1>1, <2>2, StoreEffects
    <3>2. QED BY <2>1, <2>2, <3>1, EntryBounded DEF Stored, Bounded
  <2>3. QED BY <2>1, <2>2 DEF Bounded
<1>2. ASSUME Tick
      PROVE  Bounded'
  <2> DEFINE m == Second * Largest(SessionTTL, SlidingWindow)
  <2>1. now \in 0 .. MaxTime /\ now < MaxTime /\ now' = now + 1
    BY <1>2 DEF Tick, Bounded
  <2>2. now' \in 0 .. MaxTime
    BY <2>1, SessionsAssumption
  <2>3. m \in Int
    BY SessionsAssumption DEF Largest
  <2>4. ASSUME NEW s \in Sessions, session'[s] # None
        PROVE  session'[s].expires > now' /\ session'[s].expires =< now' + m
    <3>1. session[s] # None /\ session'[s] = session[s] /\ session[s].expires # now + 1
      BY <1>2, <2>1, <2>4 DEF Tick
    <3>2. session[s].expires \in Nat
      BY <3>1 DEF IInv, Typed, SessionData
    <3>3. session[s].expires > now /\ session[s].expires =< now + m
      BY <3>1 DEF Bounded
    <3> HIDE DEF m
    <3>4. QED BY <2>1, <2>3, <3>1, <3>2, <3>3
  <2>5. QED BY <2>2, <2>4 DEF Bounded
<1>3. ASSUME UNCHANGED vars
      PROVE  Bounded'
  BY <1>3 DEF Bounded, vars, store
<1>4. QED BY <1>1, <1>2, <1>3 DEF Next, StepOf

(* Types, for Sessions: what Redis holds has a TTL of either kind left, or *)
(* less, and tokens are signed before they are held.                       *)
THEOREM TypeCorrect == Spec => []TypeOK
<1>1. Init => Bounded
  <2> SUFFICES ASSUME Init PROVE Bounded
    OBVIOUS
  <2>1. now = 0 /\ 0 \in 0 .. MaxTime
    BY SessionsAssumption DEF Init
  <2>2. \A s \in Sessions : session[s] # None =>
           LoggedIn[s] \in Users /\ session[s] = Entry(LoggedIn[s], SessionTTL)
    BY SessionsAssumption DEF Init
  <2>3. QED BY <2>1, <2>2, EntryBounded DEF Bounded
<1>2. IInv /\ Bounded /\ [Next]_vars => Bounded'
  BY BoundedNext
<1>3. RInv /\ Bounded => TypeOK
  BY DEF RInv, IInv, Typed, Tokens, Answered, Lasting, Bounded, TypeOK
<1> QED
  BY SpecInv, SpecRInv, <1>1, <1>2, <1>3, PTL DEF Spec

-----------------------------------------------------------------------------
(* logoutAllSessions.  The sessions it owes are those of its user, so its  *)
(* scan keeps each that is there; one that is not there when it comes by   *)
(* can only come back by way of updateActivity, for the id of a session    *)
(* about to be created is nobody's target.                                 *)
Left(r) == IF pc[r] = "scan" THEN keys[r] \cup mine[r]
           ELSE IF pc[r] = "destroyEach" THEN mine[r] ELSE {}

Owed(r) ==
    /\ \A s \in targets[r] : signed[s] # None /\ signed[s].user = call[r].user
    /\ targets[r] # {} => call[r].op = "logoutAll" /\ pc[r] \in {"scan", "destroyEach", "done"}
    /\ r \notin shaky => \A s \in targets[r] : session[s] # None => s \in revived \cup Left(r)

Unborn ==
    \A q \in Requests : pc[q] = "create" =>
        session[new[q]] = None /\ \A r \in Requests : new[q] \notin targets[r]

SweepInv == /\ targets \in [Requests -> SUBSET Sessions]
            /\ Unborn /\ \A r \in Requests : Owed(r)

(* A step changes what is known of its own call alone. *)
LEMMA OthersKept ==
    ASSUME IInv, SweepInv, NEW r \in Requests, StepOf(r)
    PROVE  /\ targets' \in [Requests -> SUBSET Sessions]
           /\ call' = call
           /\ \A s \in Sessions : signed[s] # None => signed'[s] = signed[s]
           /\ \A q \in Requests \ {r} :
                 /\ pc'[q] = pc[q] /\ keys'[q] = keys[q] /\ mine'[q] = mine[q]
                 /\ targets'[q] = targets[q] /\ new'[q] = new[q]
<1> USE DEF IInv, Typed, SweepInv, Goto, Answer
<1>1. CASE Begin(r) \/ Create(r)
  BY <1>1 DEF Begin, Create, store, locals, history
<1>2. CASE FindUser(r)
  <2>1. CASE UNCHANGED <<signed, new>>
    BY <1>2, <2>1 DEF FindUser, SignFor, store, history
  <2>2. ASSUME NEW u, SignFor(r, u)
        PROVE  /\ \A s \in Sessions : signed[s] # None => signed'[s] = signed[s]
               /\ \A q \in Requests \ {r} : pc'[q] = pc[q] /\ new'[q] = new[q]
    BY <2>2, NewIdUnused DEF SignFor
  <2>3. QED BY <1>2, <2>1, <2>2 DEF FindUser, history
<1>3. CASE SessionStep(r)
  BY <1>3 DEF SessionStep, IsBlacklisted, GetSession, ReadSession, Touch, store, locals
<1>4. CASE Destroy(r) \/ Blacklist(r)
  BY <1>4 DEF Destroy, Blacklist
<1>5. CASE Keys(r) \/ Scan(r)
  BY <1>5 DEF Keys, Scan, store
<1>6. CASE DestroyEach(r)
  BY <1>6 DEF DestroyEach
<1>7. QED BY <1>1, <1>2, <1>3, <1>4, <1>5, <1>6 DEF StepOf, DestroyStep

(* Where the call goes, and what it is to reach. *)
LEMMA OwnTargets ==
    ASSUME IInv, SweepInv, NEW r \in Requests, StepOf(r)
    PROVE  \/ Keys(r) \/ Scan(r) \/ DestroyEach(r)
           \/ targets[r] = {} /\ targets'[r] = {}
<1> USE DEF SweepInv, Owed
<1>1. CASE Begin(r) \/ FindUser(r) \/ Create(r)
  BY <1>1 DEF Begin, FindUser, Create, store, locals, history
<1>2. CASE SessionStep(r)
  BY <1>2 DEF SessionStep, IsBlacklisted, GetSession, ReadSession, Touch
<1>3. CASE Destroy(r) \/ Blacklist(r)
  BY <1>3 DEF Destroy, Blacklist
<1>4. QED BY <1>1, <1>2, <1>3 DEF StepOf, DestroyStep

LEMMA OthersOwed ==
    ASSUME IInv, SweepInv, NEW r \in Requests, StepOf(r), NEW q \in Requests, q # r
    PROVE  Owed(q)'
<1>1. /\ call' = call /\ pc'[q] = pc[q] /\ keys'[q] = keys[q] /\ mine'[q] = mine[q]
      /\ targets'[q] = targets[q] /\ targets[q] \subseteq Sessions
      /\ \A s \in Sessions : signed[s] # None => signed'[s] = signed[s]
  BY OthersKept DEF SweepInv
<1>2. ASSUME NEW s \in targets[q], session'[s] # None
      PROVE  session[s] # None \/ s \in revived'
  <2>1. Stored(r, s)
    BY <1>1, <1>2, StoreEffects
  <2>2. ~(pc[r] = "create" /\ s = new[r])
    BY DEF SweepInv, Unborn
  <2>3. QED BY <1>2, <2>1, <2>2 DEF Stored
<1>3. revived \subseteq revived' /\ shaky \subseteq shaky'
  BY StoreEffects
<1>4. Left(q)' = Left(q)
  BY <1>1 DEF Left
<1>5. QED BY <1>1, <1>2, <1>3, <1>4 DEF SweepInv, Owed

LEMMA UnbornKept ==
    ASSUME IInv, SweepInv, NEW r \in Requests, StepOf(r)
    PROVE  Unborn'
<1> SUFFICES ASSUME NEW q \in Requests, pc'[q] = "create"
             PROVE  session'[new'[q]] = None /\ \A p \in Requests : new'[q] \notin targets'[p]
  BY DEF Unborn
<1> USE DEF IInv, Typed
<1>1. CASE q = r
  <2>1. PICK u : FindUser(r) /\ SignFor(r, u)
    <3>1. ~Begin(r)
      <4>1. FirstLabel[call[r].op] # "create"
        BY CallFacts DEF TokenOps, UserOps, FirstLabel
      <4>2. QED BY <1>1, <4>1 DEF Begin, Goto, Answer
    <3>2. ~Create(r) /\ ~SessionStep(r)
      BY <1>1 DEF Create, SessionStep, IsBlacklisted, GetSession, ReadSession, Touch, Goto, Answer
    <3>3. ~DestroyStep(r)
      BY <1>1 DEF DestroyStep, Destroy, Blacklist, Keys, Scan, DestroyEach, Goto, Answer
    <3>4. FindUser(r)
      BY <3>1, <3>2, <3>3 DEF StepOf
    <3>5. QED BY <1>1, <3>4 DEF FindUser, Goto, Answer
  <2>2. new'[q] \in Sessions /\ signed[new'[q]] = None
    BY <1>1, <2>1, NewIdUnused DEF SignFor
  <2>3. UNCHANGED <<session, targets>>
    BY <2>1 DEF FindUser, store, history
  <2>4. QED BY <2>2, <2>3 DEF Tokens, SweepInv, Owed
<1>2. CASE q # r
  <2> DEFINE s == new[q]
  <2>1. /\ pc[q] = "create" /\ new'[q] = s /\ s \in Sessions /\ s \notin held
        /\ session[s] = None /\ \A p \in Requests : s \notin targets[p]
    BY <1>2, OthersKept DEF SweepInv, Unborn, Fresh
  <2>2. ~(pc[r] = "create" /\ s = new[r])
    BY <1>2, <2>1, NoneAssumption DEF Fresh
  <2>3. session'[s] = None
    <3>1. session'[s] # None => Stored(r, s)
      BY <2>1, StoreEffects
    <3>2. QED BY <2>1, <2>2, <3>1 DEF Stored
  <2>4. \A p \in Requests : s \notin targets'[p]
    <3>1. Keys(r) \/ targets'[r] = targets[r]
      BY OwnTargets DEF Scan, DestroyEach
    <3>2. s \notin targets'[r]
      BY <2>1, <3>1 DEF Keys, SweepInv
    <3>3. QED BY <2>1, <3>2, OthersKept
  <2>5. QED BY <2>1, <2>3, <2>4
<1>3. QED BY <1>1, <1>2

LEMMA OwnOwed ==
    ASSUME IInv, SweepInv, NEW r \in Requests, StepOf(r)
    PROVE  Owed(r)'
<1> USE DEF IInv, Typed, SweepInv
<1>1. CASE targets'[r] = {}
  BY <1>1 DEF Owed
<1>2. CASE Keys(r)
  <2>1. /\ call[r].op = "logoutAll" /\ pc'[r] = "scan" /\ UNCHANGED <<call, signed, session>>
        /\ targets'[r] = {s \in Sessions : session[s] # None /\ session[s].user = call[r].user}
        /\ r \in shaky' \/ keys'[r] = {s \in Sessions : session[s] # None}
    BY <1>2 DEF Keys, Goto, Doing, RedisFails, store
  <2>2. QED BY <2>1 DEF Owed, Left, Tokens
<1>3. CASE Scan(r)
  <2>1. /\ pc[r] = "scan" /\ UNCHANGED <<call, signed, session, targets, revived>>
        /\ shaky \subseteq shaky'
        /\ \/ /\ pc' = pc
              /\ \E s \in keys[r] :
                    /\ keys'[r] = keys[r] \ {s}
                    /\ r \in shaky' \/ mine'[r] = IF Owned(s, call[r].user)
                                                 THEN mine[r] \cup {s} ELSE mine[r]
           \/ keys[r] = {} /\ mine' = mine /\ pc'[r] = "destroyEach"
    BY <1>3 DEF Scan, Goto, RedisAnswers, RedisFails, store
  <2>2. \A s \in targets[r] : session[s] # None => Owned(s, call[r].user)
    BY DEF Owed, Owned, Tokens
  <2>3. QED BY <2>1, <2>2 DEF Owed, Left
<1>4. CASE DestroyEach(r)
  <2>1. /\ pc[r] = "destroyEach" /\ UNCHANGED <<call, signed, targets, revived>>
        /\ shaky \subseteq shaky'
        /\ \/ /\ pc' = pc
              /\ \E s \in mine[r] : mine'[r] = mine[r] \ {s} /\ session' = [session EXCEPT ![s] = None]
           \/ session' = session /\ pc'[r] = "done" /\ (r \in shaky' \/ mine[r] = {})
    BY <1>4 DEF DestroyEach, Answer, RedisAnswers, RedisFails
  <2>2. QED BY <2>1 DEF Owed, Left
<1>5. QED BY <1>1, <1>2, <1>3, <1>4, OwnTargets

LEMMA SweepNext ==
    ASSUME IInv, SweepInv, [Next]_vars
    PROVE  SweepInv'
<1>1. ASSUME NEW r \in Requests, StepOf(r)
      PROVE  SweepInv'
  <2>1. \A q \in Requests : Owed(q)'
    BY <1>1, OthersOwed, OwnOwed
  <2>2. QED BY <1>1, <2>1, OthersKept, UnbornKept DEF SweepInv
<1>2. ASSUME Tick
      PROVE  SweepInv'
  <2>1. /\ UNCHANGED <<pc, keys, mine, new, call, signed, targets, revived, shaky>>
        /\ \A s \in Sessions : session[s] = None => session'[s] = None
    BY <1>2 DEF Tick, locals, history
  <2>2. Unborn'
    BY <2>1 DEF SweepInv, Unborn, IInv, Fresh
  <2>3. QED BY <2>1, <2>2 DEF SweepInv, Owed, Left
<1>3. ASSUME UNCHANGED vars
      PROVE  SweepInv'
  BY <1>3 DEF SweepInv, Unborn, Owed, Left, vars, store, locals, history
<1>4. QED BY <1>1, <1>2, <1>3 DEF Next, StepOf

(* logoutAllSessions: once it has succeeded, with Redis answering it       *)
(* throughout, none of the sessions its user had when it began is left but *)
(* for those an overlapping updateActivity wrote again, however its two    *)
(* loops interleave with logins, refreshes, logouts and expiries.          *)
THEOREM LogoutAllReachesAll == Spec => []LogoutAllReaches
<1>1. Init => SweepInv
  BY DEF Init, SweepInv, Unborn, Owed
<1>2. IInv /\ SweepInv /\ [Next]_vars => SweepInv'
  BY SweepNext
<1>3. RInv /\ SweepInv => LogoutAllReaches
  <2> SUFFICES ASSUME RInv, SweepInv, NEW r \in Requests \ shaky, answer[r] = "ok",
                      NEW s \in targets[r], session[s] # None
               PROVE  s \in revived
    BY DEF LogoutAllReaches
  <2>1. pc[r] = "done"
    BY DEF RInv, Answered
  <2>2. QED BY <2>1 DEF SweepInv, Owed, Left
<1> QED
  BY SpecInv, SpecRInv, <1>1, <1>2, <1>3, PTL DEF Spec
=============================================================================
