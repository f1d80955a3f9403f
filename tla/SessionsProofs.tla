--------------------------- MODULE SessionsProofs ---------------------------
(***************************************************************************)
(* Proofs about Sessions, for any calls, users, TTLs and failures.         *)
(*                                                                         *)
(* The argument is about ids.  The id that a login or a refresh makes is   *)
(* its own until the session has been stored and its tokens given out      *)
(* (Fresh), while the sessions that calls end, and hence those that have   *)
(* ended, are sessions whose tokens somebody holds (Tokens, Doing).  So a  *)
(* session that is created is never one that ended.                        *)
(***************************************************************************)
EXTENDS Sessions, TLAPS

Typed ==
    /\ now \in Nat
    /\ session \in [Sessions -> SessionData \cup {None}]
    /\ signed \in [Sessions -> Claims \cup {None}]
    /\ held \subseteq Sessions
    /\ pc \in [Requests -> Labels]
    /\ call \in [Requests -> Call]
    /\ new \in [Requests -> Sessions \cup {None}]
    /\ read \in [Requests -> Users \cup {None}]
    /\ keys \in [Requests -> SUBSET Sessions]
    /\ mine \in [Requests -> SUBSET Sessions]

(* Tokens are signed before anybody holds them, and only their holders can *)
(* end their session; a stored session is the one its tokens speak of.     *)
Tokens ==
    /\ ended \subseteq held
    /\ \A s \in held : signed[s] # None
    /\ \A s \in Sessions : session[s] # None =>
          signed[s] # None /\ session[s].user = signed[s].user

(* The id a call has made is signed for it alone, and nobody holds its     *)
(* tokens before its session is stored.                                    *)
Fresh ==
    /\ \A r \in Requests : new[r] # None => signed[new[r]] # None
    /\ \A q, r \in Requests : new[q] = new[r] /\ new[q] # None => q = r
    /\ \A r \in Requests : pc[r] = "create" => new[r] \in Sessions /\ new[r] \notin held

(* Where a call can be, by its operation, and what it then knows. *)
Doing(r) ==
    /\ pc[r] \notin {"idle", "done"} /\ call[r].op \in TokenOps => call[r].sid \in held
    /\ pc[r] \in {"isBlacklisted", "getSession", "readSession", "touch"}
          => call[r].op = "validate"
    /\ pc[r] = "touch" => read[r] = signed[call[r].sid].user
    /\ pc[r] = "create" => call[r].op \in {"login", "refresh"}
    /\ pc[r] = "destroy" => call[r].op \in {"logout", "refresh"}
    /\ pc[r] = "destroy" /\ call[r].op = "refresh" => new[r] \in Sessions
    /\ pc[r] \in {"keys", "scan", "destroyEach"} => call[r].op = "logoutAll"
    /\ \A s \in mine[r] : signed[s] # None /\ signed[s].user = call[r].user

IInv ==
    /\ Typed /\ Tokens /\ Fresh
    /\ \A r \in Requests : Doing(r)
    /\ OnlyRevivedReturn

-----------------------------------------------------------------------------
(* What the operators return. *)

(* A call with a token names a session, one for a user names none. *)
LEMMA CallFacts ==
    ASSUME NEW c \in Call
    PROVE  /\ c.op \in TokenOps \cup UserOps
           /\ c.op \in TokenOps => c.sid \in Sessions /\ c.sid # None
           /\ c.op \in UserOps => c.user \in Users /\ c.sid = None
BY NoneAssumption DEF Call, TokenOps, UserOps

(* What SETEX stores is a session, so a write never ends one. *)
LEMMA EntryTyped ==
    ASSUME NEW u \in Users, NEW n \in Nat, now \in Nat
    PROVE  /\ Entry(u, n) \in SessionData
           /\ Entry(u, n) # None
           /\ Entry(u, n).user = u
<1>1. now + n * Second \in Nat
  BY SessionsAssumption
<1>2. Entry(u, n) \in SessionData
  BY <1>1 DEF Entry, SessionData
<1> QED
  BY <1>2, NoneAssumption DEF Entry

(* Claims signed now are claims. *)
LEMMA ClaimsTyped ==
    ASSUME NEW u \in Users, now \in Nat
    PROVE  LET c == [user |-> u, iat |-> now \div Second]
           IN  c \in Claims /\ c # None
<1>1. now \div Second \in Nat
  BY SessionsAssumption, SMTT(30)
<1>2. [user |-> u, iat |-> now \div Second] \in Claims
  BY <1>1 DEF Claims
<1> QED
  BY <1>2, NoneAssumption

(* uuid never returns an id that is in use. *)
LEMMA NewIdUnused ==
    ASSUME NEW r \in Requests, Unused # {}
    PROVE  NewId(r) \in Sessions /\ NewId(r) # None /\ signed[NewId(r)] = None
<1>1. NewId(r) \in Unused
  BY DEF NewId
<1> QED
  BY <1>1, NoneAssumption DEF Unused

-----------------------------------------------------------------------------
(* The invariant holds at the start ... *)
LEMMA InitInv == Init => IInv
<1> SUFFICES ASSUME Init PROVE IInv
  OBVIOUS
<1> USE DEF Init
<1>1. \A s \in Sessions : LoggedIn[s] # None =>
        /\ Entry(LoggedIn[s], SessionTTL) \in SessionData
        /\ Entry(LoggedIn[s], SessionTTL) # None
        /\ Entry(LoggedIn[s], SessionTTL).user = LoggedIn[s]
        /\ [user |-> LoggedIn[s], iat |-> 0] \in Claims
        /\ [user |-> LoggedIn[s], iat |-> 0] # None
  BY EntryTyped, SessionsAssumption, NoneAssumption DEF Claims
<1>2. call \in [Requests -> Call]
  BY SessionsAssumption
<1>3. Typed
  BY <1>1, <1>2 DEF Typed, Labels
<1>4. Tokens
  BY <1>1 DEF Tokens
<1>5. Fresh
  BY DEF Fresh
<1>6. \A r \in Requests : Doing(r)
  BY DEF Doing
<1>7. OnlyRevivedReturn
  BY DEF OnlyRevivedReturn
<1> QED
  BY <1>3, <1>4, <1>5, <1>6, <1>7 DEF IInv

(* ... and every action keeps it. *)
LEMMA BeginInv ==
    ASSUME IInv, NEW r \in Requests, Begin(r)
    PROVE  IInv'
<1> USE DEF IInv, Begin, Goto, Answer, store, locals, history
<1>1. call[r].op \in TokenOps => call[r].sid \in held
  BY CallFacts DEF Typed
<1>2. /\ FirstLabel[call[r].op] \in {"findUser", "isBlacklisted", "keys"}
      /\ FirstLabel[call[r].op] = "isBlacklisted" => call[r].op = "validate"
      /\ FirstLabel[call[r].op] = "keys" => call[r].op = "logoutAll"
  BY CallFacts DEF Typed, TokenOps, UserOps, FirstLabel
<1>3. Typed'
  BY <1>2 DEF Typed, Labels
<1>4. Tokens'
  BY DEF Tokens
<1>5. Fresh'
  BY <1>2 DEF Fresh, Typed
<1>6. ASSUME NEW q \in Requests PROVE Doing(q)'
  BY <1>1, <1>2 DEF Doing, Typed
<1>7. OnlyRevivedReturn'
  BY DEF OnlyRevivedReturn
<1> QED
  BY <1>3, <1>4, <1>5, <1>6, <1>7

(* Signing takes an id that no token names yet and no session has. *)
LEMMA SignForInv ==
    ASSUME IInv, NEW r \in Requests, NEW u \in Users, pc[r] = "findUser",
           call[r].op \in {"login", "refresh"}, SignFor(r, u),
           UNCHANGED <<now, store, held, call, read, ttl, keys, mine, history>>
    PROVE  IInv'
<1> DEFINE id == NewId(r)
<1> DEFINE claims == [user |-> u, iat |-> now \div Second]
<1> USE DEF IInv, store, history
<1>1. id \in Sessions /\ id # None /\ signed[id] = None
  BY NewIdUnused DEF SignFor
<1>2. claims \in Claims /\ claims # None
  BY ClaimsTyped DEF Typed
<1>3. /\ new' = [new EXCEPT ![r] = id]
      /\ signed' = [signed EXCEPT ![id] = claims]
      /\ pc' = [pc EXCEPT ![r] = "create"]
  BY DEF SignFor, Goto
<1>4. \A s \in Sessions : signed[s] # None => s # id /\ signed'[s] = signed[s]
  BY <1>1, <1>3 DEF Typed
<1>5. signed'[id] # None
  BY <1>1, <1>2, <1>3 DEF Typed
<1> HIDE DEF id, claims
<1>6. Typed'
  BY <1>1, <1>2, <1>3 DEF Typed, Labels
<1>7. Tokens'
  BY <1>4 DEF Tokens, Typed
<1>8. Fresh'
  BY <1>1, <1>3, <1>4, <1>5 DEF Fresh, Typed, Tokens
<1>9. ASSUME NEW q \in Requests PROVE Doing(q)'
  <2>1. CASE q = r
    BY <1>3, <1>4, <2>1 DEF Doing, Typed, TokenOps
  <2>2. CASE q # r
    BY <1>3, <1>4, <2>2 DEF Doing, Typed, Tokens, TokenOps
  <2> QED
    BY <2>1, <2>2
<1>10. OnlyRevivedReturn'
  BY DEF OnlyRevivedReturn
<1> QED
  BY <1>6, <1>7, <1>8, <1>9, <1>10

(* The other ends of the lookup change nothing but where the call is. *)
LEMMA FindUserInv ==
    ASSUME IInv, NEW r \in Requests, FindUser(r)
    PROVE  IInv'
<1> USE DEF IInv, FindUser
<1>1. CASE call[r].op = "login" /\ SignFor(r, call[r].user)
  BY <1>1, SignForInv, CallFacts DEF Typed, UserOps
<1>2. CASE call[r].op = "refresh" /\ SignFor(r, signed[call[r].sid].user)
  <2>1. signed[call[r].sid].user \in Users
    BY <1>2 DEF Doing, Typed, Tokens, TokenOps, Claims
  <2> QED
    BY <1>2, <2>1, SignForInv
<1>3. CASE /\ UNCHANGED <<signed, new>>
           /\ \/ pc' = [pc EXCEPT ![r] = "done"]
              \/ pc' = [pc EXCEPT ![r] = "destroy"] /\ call[r].op = "logout"
  <2> USE <1>3 DEF store, history
  <2>2. Typed'
    BY DEF Typed, Labels
  <2>3. Tokens'
    BY DEF Tokens
  <2>4. Fresh'
    BY DEF Fresh, Typed
  <2>5. ASSUME NEW q \in Requests PROVE Doing(q)'
    BY DEF Doing, Typed
  <2>6. OnlyRevivedReturn'
    BY DEF OnlyRevivedReturn
  <2> QED
    BY <2>2, <2>3, <2>4, <2>5, <2>6
<1> QED
  BY <1>1, <1>2, <1>3 DEF Goto, Answer

(* A step that only takes r further, within what its operation does. *)
LEMMA MoveInv ==
    ASSUME IInv, NEW r \in Requests, NEW label \in Labels,
           pc[r] \notin {"idle", "done"}, pc' = [pc EXCEPT ![r] = label],
           \/ label = "done"
           \/ label \in {"getSession", "readSession"} /\ call[r].op = "validate"
           \/ label = "blacklist"
           \/ label \in {"scan", "destroyEach"} /\ call[r].op = "logoutAll",
           keys' \in [Requests -> SUBSET Sessions],
           UNCHANGED <<now, session, signed, held, call, new, read, mine, ended, revived>>
    PROVE  IInv'
<1> USE DEF IInv
<1>1. Typed'
  BY DEF Typed
<1>2. Tokens'
  BY DEF Tokens
<1>3. Fresh'
  BY DEF Fresh, Typed
<1>4. ASSUME NEW q \in Requests PROVE Doing(q)'
  BY DEF Doing, Typed
<1>5. OnlyRevivedReturn'
  BY DEF OnlyRevivedReturn
<1> QED
  BY <1>1, <1>2, <1>3, <1>4, <1>5

(* The check of the blacklist only moves validateToken on. *)
LEMMA IsBlacklistedInv ==
    ASSUME IInv, NEW r \in Requests, IsBlacklisted(r)
    PROVE  IInv'
<1>1. call[r].op = "validate"
  BY DEF IInv, Doing, IsBlacklisted
<1>2. \E label \in {"done", "getSession"} : pc' = [pc EXCEPT ![r] = label]
  BY DEF IsBlacklisted, Goto, Answer
<1> QED
  BY <1>1, <1>2, MoveInv DEF IsBlacklisted, IInv, Typed, Labels, store, locals

(* getSession found the session, or the call ends. *)
LEMMA GetSessionInv ==
    ASSUME IInv, NEW r \in Requests, GetSession(r)
    PROVE  IInv'
<1>1. call[r].op = "validate"
  BY DEF IInv, Doing, GetSession
<1>2. \E label \in {"done", "readSession"} : pc' = [pc EXCEPT ![r] = label]
  BY DEF GetSession, Goto, Answer
<1> QED
  BY <1>1, <1>2, MoveInv DEF GetSession, IInv, Typed, Labels, store, locals

(* The blacklist is no part of the invariant. *)
LEMMA BlacklistInv ==
    ASSUME IInv, NEW r \in Requests, Blacklist(r)
    PROVE  IInv'
BY MoveInv DEF Blacklist, Answer, IInv, Typed, Labels

(* KEYS names ids of sessions. *)
LEMMA KeysInv ==
    ASSUME IInv, NEW r \in Requests, Keys(r)
    PROVE  IInv'
<1>1. call[r].op = "logoutAll"
  BY DEF IInv, Doing, Keys
<1>2. keys' \in [Requests -> SUBSET Sessions]
  BY DEF Keys, IInv, Typed
<1> QED
  BY <1>1, <1>2, MoveInv DEF Keys, Goto, Labels, store

(* The session that is created has an id nobody holds, so not one that     *)
(* has ended.                                                              *)
LEMMA CreateInv ==
    ASSUME IInv, NEW r \in Requests, Create(r)
    PROVE  IInv'
<1> USE DEF IInv, Create, Answer, Goto, locals
<1> DEFINE id == new[r]
<1> DEFINE entry == Entry(signed[id].user, SessionTTL)
<1>1. /\ id \in Sessions /\ id # None /\ id \notin held
      /\ signed[id] # None /\ signed[id].user \in Users
  BY NoneAssumption DEF Fresh, Typed, Claims
<1>2. entry \in SessionData /\ entry # None /\ entry.user = signed[id].user
  BY <1>1, EntryTyped, SessionsAssumption DEF Typed
<1>3. CASE UNCHANGED <<session, held>> /\ pc' = [pc EXCEPT ![r] = "done"]
  BY <1>3, MoveInv DEF Labels, Typed
<1>4. CASE /\ session' = [session EXCEPT ![id] = entry]
           /\ \/ /\ pc' = [pc EXCEPT ![r] = "done"]
                 /\ held' = held \cup {id}
              \/ /\ pc' = [pc EXCEPT ![r] = "destroy"]
                 /\ call[r].op = "refresh" /\ UNCHANGED held
  <2> HIDE DEF entry
  <2> USE <1>1, <1>2, <1>4
  <2>1. Typed'
    BY DEF Typed, Labels
  <2>2. Tokens'
    BY DEF Tokens, Typed
  <2>3. Fresh'
    BY DEF Fresh, Typed
  <2>4. ASSUME NEW q \in Requests PROVE Doing(q)'
    BY DEF Doing, Typed
  <2>5. OnlyRevivedReturn'
    BY DEF OnlyRevivedReturn, Tokens, Typed
  <2> QED
    BY <2>1, <2>2, <2>3, <2>4, <2>5
<1> QED
  BY <1>3, <1>4 DEF Doing

(* What updateActivity reads is the user of its token. *)
LEMMA ReadSessionInv ==
    ASSUME IInv, NEW r \in Requests, ReadSession(r)
    PROVE  IInv'
<1> USE DEF IInv, ReadSession, Answer, Goto
<1>1. call[r].op = "validate" /\ call[r].sid \in held /\ call[r].sid \in Sessions
  BY DEF Doing, TokenOps, Typed
<1>2. CASE UNCHANGED read /\ pc' = [pc EXCEPT ![r] = "done"]
  BY <1>2, MoveInv DEF Labels, Typed, store
<1>3. CASE /\ session[call[r].sid] # None
           /\ read' = [read EXCEPT ![r] = session[call[r].sid].user]
           /\ pc' = [pc EXCEPT ![r] = "touch"]
  <2> USE <1>1, <1>3 DEF store
  <2>1. /\ session[call[r].sid].user \in Users
        /\ session[call[r].sid].user = signed[call[r].sid].user
    BY DEF Typed, Tokens, SessionData
  <2>2. Typed'
    BY <2>1 DEF Typed, Labels
  <2>3. Tokens'
    BY DEF Tokens
  <2>4. Fresh'
    BY DEF Fresh, Typed
  <2>5. ASSUME NEW q \in Requests PROVE Doing(q)'
    BY <2>1 DEF Doing, Typed
  <2>6. OnlyRevivedReturn'
    BY DEF OnlyRevivedReturn
  <2> QED
    BY <2>2, <2>3, <2>4, <2>5, <2>6
<1> QED
  BY <1>2, <1>3

(* A write over a session that ended while the call held its data marks it *)
(* as revived.                                                             *)
LEMMA TouchInv ==
    ASSUME IInv, NEW r \in Requests, Touch(r)
    PROVE  IInv'
<1> USE DEF IInv, Touch, Answer, Goto
<1> DEFINE id == call[r].sid
<1> DEFINE entry == Entry(read[r], SlidingWindow)
<1>1. /\ call[r].op = "validate" /\ id \in held /\ id \in Sessions
      /\ signed[id] # None /\ read[r] = signed[id].user /\ read[r] \in Users
  BY DEF Doing, TokenOps, Typed, Tokens, Claims
<1>2. entry \in SessionData /\ entry # None /\ entry.user = read[r]
  BY <1>1, EntryTyped, SessionsAssumption DEF Typed
<1>3. read' = [read EXCEPT ![r] = None]
  OBVIOUS
<1>4. \/ UNCHANGED <<session, revived>> /\ pc' = [pc EXCEPT ![r] = "done"]
      \/ /\ session' = [session EXCEPT ![id] = entry]
         /\ revived' = IF session[id] = None THEN revived \cup {id} ELSE revived
         /\ pc' = [pc EXCEPT ![r] = "findUser"]
  OBVIOUS
<1> HIDE DEF entry
<1>5. Typed'
  BY <1>1, <1>2, <1>3, <1>4 DEF Typed, Labels
<1>6. Tokens'
  BY <1>1, <1>2, <1>4 DEF Tokens, Typed
<1>7. Fresh'
  BY <1>4 DEF Fresh, Typed
<1>8. ASSUME NEW q \in Requests PROVE Doing(q)'
  <2>1. \E label \in {"done", "findUser"} : pc' = [pc EXCEPT ![r] = label]
    BY <1>4
  <2>2. UNCHANGED <<call, held, signed, new, mine>>
    OBVIOUS
  <2> HIDE DEF Touch
  <2>3. CASE q = r
    BY <1>1, <2>1, <2>2, <2>3 DEF Doing, Typed
  <2>4. CASE q # r
    BY <1>3, <2>1, <2>2, <2>4 DEF Doing, Typed
  <2> QED
    BY <2>3, <2>4
<1>9. OnlyRevivedReturn'
  BY <1>1, <1>4 DEF OnlyRevivedReturn, Tokens, Typed
<1> QED
  BY <1>5, <1>6, <1>7, <1>8, <1>9

(* Ending a session leaves its tokens signed; a refresh then hands out its *)
(* new ones, a logout records that its session has ended.                  *)
LEMMA DestroyInv ==
    ASSUME IInv, NEW r \in Requests, Destroy(r)
    PROVE  IInv'
<1> USE DEF IInv
<1> DEFINE id == call[r].sid
<1>1. /\ call[r].op \in {"logout", "refresh"} /\ pc[r] = "destroy"
      /\ id \in held /\ id \in Sessions
      /\ call[r].op = "refresh" =>
            new[r] \in Sessions /\ new[r] # None /\ signed[new[r]] # None
  BY NoneAssumption DEF Destroy, Doing, TokenOps, Typed, Fresh
<1>2. /\ new' = [new EXCEPT ![r] = None]
      /\ UNCHANGED <<now, signed, call, read, keys, mine, revived>>
      /\ session' = session \/ session' = [session EXCEPT ![id] = None]
      /\ \/ held' = held
         \/ call[r].op = "refresh" /\ held' = held \cup {new[r]}
      /\ \/ ended' = ended
         \/ ended' = ended \cup {id} /\ session' = [session EXCEPT ![id] = None]
      /\ \E label \in {"done", "blacklist"} : pc' = [pc EXCEPT ![r] = label]
  BY DEF Destroy, Answer, Goto
<1>3. Typed'
  BY <1>1, <1>2 DEF Typed, Labels
<1>4. Tokens'
  BY <1>1, <1>2 DEF Tokens, Typed
<1>5. Fresh'
  BY <1>1, <1>2 DEF Fresh, Typed
<1>6. ASSUME NEW q \in Requests PROVE Doing(q)'
  <2>1. CASE q = r
    BY <1>1, <1>2, <2>1 DEF Doing, Typed
  <2>2. CASE q # r
    BY <1>2, <2>2 DEF Doing, Typed
  <2> QED
    BY <2>1, <2>2
<1>7. OnlyRevivedReturn'
  BY <1>1, <1>2 DEF OnlyRevivedReturn, Tokens, Typed
<1> QED
  BY <1>3, <1>4, <1>5, <1>6, <1>7

(* The sessions a scan keeps are those of its user. *)
LEMMA ScanInv ==
    ASSUME IInv, NEW r \in Requests, Scan(r)
    PROVE  IInv'
<1> USE DEF IInv, Scan
<1>1. call[r].op = "logoutAll"
  BY DEF Doing
<1>2. CASE UNCHANGED mine
  <2>1. UNCHANGED pc \/ pc' = [pc EXCEPT ![r] = "destroyEach"]
    BY DEF Goto
  <2>2. Typed'
    BY <1>2, <2>1 DEF Typed, Labels, store
  <2>3. Tokens'
    BY DEF Tokens, store
  <2>4. Fresh'
    BY <2>1 DEF Fresh, Typed
  <2>5. ASSUME NEW q \in Requests PROVE Doing(q)'
    BY <1>1, <1>2, <2>1 DEF Doing, Typed
  <2>6. OnlyRevivedReturn'
    BY DEF OnlyRevivedReturn, store
  <2> QED
    BY <2>2, <2>3, <2>4, <2>5, <2>6
<1>3. ASSUME NEW s \in Sessions, UNCHANGED pc, Owned(s, call[r].user),
             mine' = [mine EXCEPT ![r] = @ \cup {s}]
      PROVE  IInv'
  <2> USE <1>3 DEF store
  <2>1. signed[s] # None /\ signed[s].user = call[r].user
    BY DEF Owned, Tokens
  <2>2. Typed'
    BY DEF Typed
  <2>3. Tokens'
    BY DEF Tokens
  <2>4. Fresh'
    BY DEF Fresh
  <2>5. ASSUME NEW q \in Requests PROVE Doing(q)'
    BY <2>1 DEF Doing, Typed
  <2>6. OnlyRevivedReturn'
    BY DEF OnlyRevivedReturn
  <2> QED
    BY <2>2, <2>3, <2>4, <2>5, <2>6
<1> QED
  <2>1. CASE keys[r] = {}
    BY <1>2, <2>1
  <2>2. ASSUME NEW s \in keys[r], UNCHANGED <<pc, answer>>,
               mine' = [mine EXCEPT ![r] =
                           IF Owned(s, call[r].user) THEN @ \cup {s} ELSE @]
        PROVE  IInv'
    BY <1>2, <1>3, <2>2 DEF Typed
  <2> QED
    BY <1>2, <2>1, <2>2

(* Ending sessions disturbs no part of the invariant ... *)
LEMMA DestroyEachInv ==
    ASSUME IInv, NEW r \in Requests, DestroyEach(r)
    PROVE  IInv'
<1> USE DEF IInv
<1>1. /\ UNCHANGED <<now, signed, held, call, new, read, keys, ended, revived>>
      /\ \/ session' = session
         \/ \E s \in mine[r] : session' = [session EXCEPT ![s] = None]
      /\ \/ mine' = mine
         \/ \E s \in mine[r] : mine' = [mine EXCEPT ![r] = @ \ {s}]
         \/ mine' = [mine EXCEPT ![r] = {}]
      /\ UNCHANGED pc \/ pc' = [pc EXCEPT ![r] = "done"]
  BY DEF DestroyEach, Answer
<1>2. Typed'
  BY <1>1 DEF Typed, Labels
<1>3. Tokens'
  BY <1>1 DEF Tokens, Typed
<1>4. Fresh'
  BY <1>1 DEF Fresh, Typed
<1>5. ASSUME NEW q \in Requests PROVE Doing(q)'
  <2>1. mine'[q] \subseteq mine[q]
    BY <1>1 DEF Typed
  <2>2. pc'[q] = pc[q] \/ pc'[q] = "done"
    BY <1>1 DEF Typed
  <2> QED
    BY <1>1, <2>1, <2>2 DEF Doing
<1>6. OnlyRevivedReturn'
  BY <1>1 DEF OnlyRevivedReturn, Tokens, Typed
<1> QED
  BY <1>2, <1>3, <1>4, <1>5, <1>6

(* ... and neither does their expiry. *)
LEMMA TickInv ==
    ASSUME IInv, Tick
    PROVE  IInv'
<1> USE DEF IInv
<1>1. /\ UNCHANGED <<signed, held, pc, call, new, read, keys, mine, ended, revived>>
      /\ now' = now + 1
      /\ session' \in [Sessions -> SessionData \cup {None}]
      /\ \A s \in Sessions : session'[s] # None => session'[s] = session[s]
  BY DEF Tick, Typed, locals, history
<1>2. Typed'
  BY <1>1 DEF Typed
<1>3. Tokens'
  BY <1>1 DEF Tokens
<1>4. Fresh'
  BY <1>1 DEF Fresh
<1>5. ASSUME NEW q \in Requests PROVE Doing(q)'
  BY <1>1 DEF Doing
<1>6. OnlyRevivedReturn'
  BY <1>1, <1>3 DEF OnlyRevivedReturn, Tokens, Typed
<1> QED
  BY <1>2, <1>3, <1>4, <1>5, <1>6

(* Together: every step keeps the invariant. *)
LEMMA NextInv == IInv /\ [Next]_vars => IInv'
<1> SUFFICES ASSUME IInv, [Next]_vars PROVE IInv'
  OBVIOUS
<1>1. ASSUME NEW r \in Requests,
             \/ Begin(r) \/ FindUser(r) \/ Create(r)
             \/ SessionStep(r) \/ DestroyStep(r)
      PROVE  IInv'
  BY <1>1, BeginInv, FindUserInv, CreateInv, IsBlacklistedInv, GetSessionInv,
     ReadSessionInv, TouchInv, DestroyInv, BlacklistInv, KeysInv, ScanInv,
     DestroyEachInv DEF SessionStep, DestroyStep
<1>2. CASE UNCHANGED vars
  BY <1>2 DEF IInv, Typed, Tokens, Fresh, Doing, OnlyRevivedReturn, vars, store,
              locals, history
<1> QED
  BY <1>1, <1>2, TickInv DEF Next

(* Every reachable state satisfies the invariant. *)
THEOREM SpecInv == Spec => []IInv
BY InitInv, NextInv, PTL DEF Spec

-----------------------------------------------------------------------------
(* A session that a logout destroyed comes back only through an            *)
(* updateActivity that read it before: whatever calls overlap, for any     *)
(* number of users and sessions and any TTLs, and if Redis fails.          *)
THEOREM EndedOnlyRevived == Spec => []OnlyRevivedReturn
<1>1. IInv => OnlyRevivedReturn
  BY DEF IInv
<1> QED
  BY SpecInv, <1>1, PTL

(* A session ends before its time only by a logout or a refresh with one   *)
(* of its own tokens, or by logoutAllSessions for its own user: the        *)
(* snapshot of keys that getUserSessions works through never leads it to   *)
(* a session of somebody else, however old the snapshot is.                *)
THEOREM SessionsEndForAReason == Spec => EndsForAReason
<1> DEFINE Reason(s) == \E r \in Requests :
             \/ call[r].op \in {"logout", "refresh"} /\ call[r].sid = s /\ pc[r] = "destroy"
             \/ call[r].op = "logoutAll" /\ call[r].user = session[s].user
<1> DEFINE Kept(s) == session[s] # None /\ session'[s] = None /\ now' = now => Reason(s)
<1>1. IInv /\ [Next]_vars => [\A s \in Sessions : Kept(s)]_vars
  <2> SUFFICES ASSUME IInv, Next, NEW s \in Sessions,
                      session[s] # None, session'[s] = None, now' = now
               PROVE  Reason(s)
    OBVIOUS
  <2> USE DEF IInv, store
  <2>1. ASSUME NEW r \in Requests, Create(r)
        PROVE  FALSE
    <3>1. /\ new[r] \in Sessions /\ signed[new[r]].user \in Users
      BY <2>1, NoneAssumption DEF Create, Fresh, Typed, Claims
    <3>2. Entry(signed[new[r]].user, SessionTTL) # None
      BY <3>1, EntryTyped, SessionsAssumption DEF Typed
    <3> QED
      BY <2>1, <3>1, <3>2 DEF Create, Typed
  <2>2. ASSUME NEW r \in Requests, Touch(r)
        PROVE  FALSE
    <3>1. read[r] \in Users /\ call[r].sid \in Sessions
      BY <2>2 DEF Touch, Doing, TokenOps, Typed, Tokens, Claims
    <3>2. Entry(read[r], SlidingWindow) # None
      BY <3>1, EntryTyped, SessionsAssumption DEF Typed
    <3> QED
      BY <2>2, <3>1, <3>2 DEF Touch, Typed
  <2>3. ASSUME NEW r \in Requests, Destroy(r)
        PROVE  Reason(s)
    BY <2>3 DEF Destroy, Doing, Typed
  <2>4. ASSUME NEW r \in Requests, DestroyEach(r)
        PROVE  Reason(s)
    <3>1. s \in mine[r] /\ call[r].op = "logoutAll"
      BY <2>4 DEF DestroyEach, Doing, Typed
    <3>2. call[r].user = session[s].user
      BY <3>1 DEF Doing, Tokens
    <3> QED
      BY <3>1, <3>2
  <2>5. ASSUME NEW r \in Requests,
               \/ Begin(r) \/ FindUser(r) \/ IsBlacklisted(r) \/ GetSession(r)
               \/ ReadSession(r) \/ Blacklist(r) \/ Keys(r) \/ Scan(r)
        PROVE  FALSE
    <3>1. UNCHANGED session
      BY <2>5 DEF Begin, FindUser, IsBlacklisted, GetSession, ReadSession, Blacklist,
                  Keys, Scan
    <3> QED
      BY <3>1
  <2>6. ~Tick
    BY DEF Tick, Typed
  <2> HIDE DEF Reason
  <2> QED
    BY <2>1, <2>2, <2>3, <2>4, <2>5, <2>6 DEF Next, SessionStep, DestroyStep
<1> QED
  BY SpecInv, <1>1, PTL DEF Spec, EndsForAReason

=============================================================================
