------------------------- MODULE UsersServiceProofs -------------------------
(***************************************************************************)
(* Proofs about UsersService, for any requests, users, emails and lists,   *)
(* and whatever Redis and the database do.                                 *)
(*                                                                         *)
(* A step is one request's.  So the invariant is about the table and the   *)
(* caches, and about each request alone: at which awaits it can be, that   *)
(* each field of what it is about to cache or to change is known of its row*)
(* (Known), what its save has read of the row, and whether its own INSERT  *)
(* was committed.  A step keeps what is said of every other request, since *)
(* what was once known stays known.                                        *)
(*                                                                         *)
(* The same invariant makes each step one of the directory's: before its   *)
(* write a request has been told nothing, and after it nothing that it is  *)
(* told changes any more but by its answer.                                *)
(***************************************************************************)
EXTENDS UsersService, TLAPS

(* A row is in the table under its own id, and in the history. *)
RowsWritten == \A i \in Ids : db[i] # None => db[i] \in written /\ db[i].id = i

(* Which operation is at which await; and none is answered but at its end. *)
Placed(r) ==
    /\ answer[r] = "none" <=> pc[r] # "done"
    /\ pc[r] \in {"checkNew", "insert"} => req[r].op = "create"
    /\ pc[r] \in {"checkRegistered", "register"} => req[r].op = "register"
    /\ pc[r] \in {"cacheGet", "dbFind", "fillId", "fillEmail"} =>
          req[r].op \in {"findById", "update", "delete"}
    /\ pc[r] \in {"checkEmail", "save", "saveRow"} => req[r].op = "update"
    /\ pc[r] \in {"storeId", "storeEmail"} => req[r].op \in {"create", "update"}
    /\ pc[r] \in {"remove", "delId", "delEmail"} => req[r].op = "delete"
    /\ pc[r] = "clearLists" => req[r].op \in {"create", "update", "delete"}
    /\ pc[r] \in {"emailGet", "emailDb", "emailFill"} => req[r].op = "findByEmail"
    /\ pc[r] \in {"listGet", "listDb", "listFill"} => req[r].op = "findAll"

(* What a request is about to cache, or to change, is known; what an update *)
(* is about to save is such a user, merged; and what its save has read is a *)
(* row under the same id.                                                   *)
Carries(r) ==
    /\ pc[r] \in {"storeId", "storeEmail", "emailFill"} => user[r] \in Known
    /\ pc[r] \in {"fillId", "fillEmail", "checkEmail", "remove"} =>
          user[r] \in Known /\ user[r].id = req[r].id
    /\ pc[r] \in {"save", "saveRow"} =>
          \E w \in Known : w.id = req[r].id /\ user[r] = Assign(w, req[r])
    /\ pc[r] = "saveRow" /\ loaded[r] # None =>
          loaded[r] \in written /\ loaded[r].id = req[r].id
    /\ pc[r] = "emailFill" => user[r].email = req[r].email
    /\ pc[r] \in {"emailGet", "emailDb"} => user[r] = None
    /\ rows[r] \subseteq written

(* Between its INSERT and its end, a create has one of its own. *)
Inserted(r) ==
    /\ r \in mine => pc[r] \in {"storeId", "storeEmail", "clearLists", "done"}
    /\ req[r].op = "create" /\ pc[r] \in {"storeId", "storeEmail", "clearLists"} => r \in mine
    /\ req[r].op \in {"create", "register"} /\ pc[r] = "done" => (answer[r] = "ok" <=> r \in mine)

Local(r) == Placed(r) /\ Carries(r) /\ Inserted(r)

Inv == /\ TypeOK /\ RowsWritten /\ CachesHoldCommittedFields
       /\ \A r \in Requests : Local(r)

-----------------------------------------------------------------------------
(* What is known stays known, and what was committed or claimed is known. *)
LEMMA KnownGrows ==
    ASSUME written \subseteq written', claimed \subseteq claimed'
    PROVE  Known \subseteq Known'
BY DEF Known

LEMMA KnownKept ==
    ASSUME UNCHANGED <<written, claimed>>
    PROVE  Known' = Known
BY DEF Known

LEMMA CommittedKnown ==
    /\ written \cup claimed \subseteq User => written \cup claimed \subseteq Known
    /\ (written \cup claimed)' \subseteq User => (written \cup claimed)' \subseteq Known'
BY DEF Known

(* A step of r leaves the other requests where they were. *)
OthersKept(r) ==
    /\ written \subseteq written' /\ Known \subseteq Known' /\ req' = req
    /\ \A q \in Requests : q # r =>
          /\ pc'[q] = pc[q] /\ user'[q] = user[q] /\ rows'[q] = rows[q]
          /\ loaded'[q] = loaded[q]
          /\ answer'[q] = answer[q] /\ (q \in mine' <=> q \in mine)

LEMMA OthersLocal ==
    ASSUME NEW r \in Requests, OthersKept(r), NEW q \in Requests, q # r, Local(q)
    PROVE  Local(q)'
<1>1. Placed(q)' /\ Inserted(q)'
  BY DEF OthersKept, Local, Placed, Inserted
<1>2. Carries(q)'
  BY DEF OthersKept, Local, Carries
<1>3. QED BY <1>1, <1>2 DEF Local

(* The table, when a row is written. *)
TableSound == db \in [Ids -> User \cup {None}] /\ RowsWritten

LEMMA TableKept ==
    ASSUME TableSound, UNCHANGED <<db, written, claimed>>
    PROVE  TableSound'
BY DEF TableSound, RowsWritten

LEMMA WriteKeeps ==
    ASSUME TypeOK, RowsWritten, NEW u \in User, Write(u), UNCHANGED claimed
    PROVE  /\ TableSound' /\ written' \subseteq User
           /\ written \subseteq written' /\ u \in written' /\ u \in Known'
<1>1. u.id \in Ids /\ u.email \in Emails
  BY DEF User
<1>2. /\ db' \in [Ids -> User \cup {None}]
      /\ \A i \in Ids : db'[i] = IF i = u.id THEN u ELSE db[i]
      /\ written' = written \cup {u}
  BY <1>1 DEF Write, TypeOK
<1>3. RowsWritten'
  BY <1>2 DEF RowsWritten
<1>4. u \in Known'
  BY <1>2, CommittedKnown DEF TypeOK
<1>5. QED BY <1>2, <1>3, <1>4 DEF TypeOK, TableSound

(* The table, when a row is removed. *)
LEMMA RemoveKeeps ==
    ASSUME TypeOK, RowsWritten, NEW i \in Ids,
           db' = [db EXCEPT ![i] = None], written' = written
    PROVE  TableSound'
<1>1. /\ db' \in [Ids -> User \cup {None}]
      /\ \A j \in Ids : db'[j] = IF j = i THEN None ELSE db[j]
  BY DEF TypeOK
<1>2. QED BY <1>1 DEF TableSound, RowsWritten

(* The caches, when nothing is put into them but what is known. *)
CachesTyped ==
    /\ byId \in [Ids -> Entry(User) \cup {None}]
    /\ byEmail \in [Emails -> Entry(User) \cup {None}]
    /\ lists \in [Queries -> Entry(SUBSET User) \cup {None}]

CachesSound == CachesTyped /\ CachesHoldCommittedFields

LEMMA EntryTyped ==
    ASSUME NEW S, NEW v \in S
    PROVE  SetEx(v) \in Entry(S) /\ SetEx(v).value = v
BY DEF SetEx, Entry

LEMMA CachesKept ==
    ASSUME TypeOK, CachesHoldCommittedFields, UNCHANGED caches,
           written \subseteq written', claimed \subseteq claimed'
    PROVE  CachesSound'
BY KnownGrows DEF TypeOK, CachesHoldCommittedFields, CachesTyped, CachesSound, caches

LEMMA IdCached ==
    ASSUME TypeOK, CachesHoldCommittedFields, UNCHANGED <<byEmail, lists, written, claimed>>,
           NEW u \in Known, byId' = [byId EXCEPT ![u.id] = SetEx(u)]
    PROVE  CachesSound'
<1>1. u \in User /\ u.id \in Ids
  BY DEF Known, User
<1>2. SetEx(u) \in Entry(User) /\ SetEx(u).value = u
  BY <1>1, EntryTyped
<1>3. CachesTyped'
  BY <1>1, <1>2 DEF TypeOK, CachesTyped
<1>4. \A i \in Ids : byId'[i] = IF i = u.id THEN SetEx(u) ELSE byId[i]
  BY DEF TypeOK
<1>5. CachesHoldCommittedFields'
  BY <1>2, <1>4, KnownKept DEF CachesHoldCommittedFields
<1>6. QED BY <1>3, <1>5 DEF CachesSound

LEMMA EmailCached ==
    ASSUME TypeOK, CachesHoldCommittedFields, UNCHANGED <<byId, lists, written, claimed>>,
           NEW u \in Known, byEmail' = [byEmail EXCEPT ![u.email] = SetEx(u)]
    PROVE  CachesSound'
<1>1. u \in User /\ u.email \in Emails
  BY DEF Known, User
<1>2. SetEx(u) \in Entry(User) /\ SetEx(u).value = u
  BY <1>1, EntryTyped
<1>3. CachesTyped'
  BY <1>1, <1>2 DEF TypeOK, CachesTyped
<1>4. \A e \in Emails : byEmail'[e] = IF e = u.email THEN SetEx(u) ELSE byEmail[e]
  BY DEF TypeOK
<1>5. CachesHoldCommittedFields'
  BY <1>2, <1>4, KnownKept DEF CachesHoldCommittedFields
<1>6. QED BY <1>3, <1>5 DEF CachesSound

LEMMA ListCached ==
    ASSUME TypeOK, CachesHoldCommittedFields, UNCHANGED <<byId, byEmail, written, claimed>>,
           NEW q \in Queries, NEW S \in SUBSET written,
           lists' = [lists EXCEPT ![q] = SetEx(S)]
    PROVE  CachesSound'
<1>1. S \in SUBSET User
  BY DEF TypeOK
<1>2. SetEx(S) \in Entry(SUBSET User) /\ SetEx(S).value = S
  BY <1>1, EntryTyped
<1>3. CachesTyped'
  BY <1>2 DEF TypeOK, CachesTyped
<1>4. \A p \in Queries : lists'[p] = IF p = q THEN SetEx(S) ELSE lists[p]
  BY DEF TypeOK
<1>5. CachesHoldCommittedFields'
  BY <1>2, <1>4, KnownKept DEF CachesHoldCommittedFields
<1>6. QED BY <1>3, <1>5 DEF CachesSound

(* Entries that go away. *)
LEMMA CachesDropped ==
    ASSUME TypeOK, CachesHoldCommittedFields, UNCHANGED <<written, claimed>>,
           \/ UNCHANGED byId
           \/ \E i : byId' = [byId EXCEPT ![i] = None],
           \/ UNCHANGED byEmail
           \/ \E e : byEmail' = [byEmail EXCEPT ![e] = None],
           \/ UNCHANGED lists \/ lists' = ClearedLists
           \/ \E q \in Queries : lists' = [lists EXCEPT ![q] = None]
    PROVE  CachesSound'
<1>1. /\ byId' \in [Ids -> Entry(User) \cup {None}]
      /\ \A i \in Ids : byId'[i] \in {None, byId[i]}
  BY DEF TypeOK
<1>2. /\ byEmail' \in [Emails -> Entry(User) \cup {None}]
      /\ \A e \in Emails : byEmail'[e] \in {None, byEmail[e]}
  BY DEF TypeOK
<1>3. /\ lists' \in [Queries -> Entry(SUBSET User) \cup {None}]
      /\ \A q \in Queries : lists'[q] \in {None, lists[q]}
  BY DEF TypeOK, ClearedLists
<1>4. QED BY <1>1, <1>2, <1>3, KnownKept DEF CachesTyped, CachesSound, CachesHoldCommittedFields

-----------------------------------------------------------------------------
(* What a step does with the variables of its own request. *)
LocalsTyped ==
    /\ pc \in [Requests -> Labels]
    /\ user \in [Requests -> User \cup {None}]
    /\ loaded \in [Requests -> User \cup {None}]
    /\ rows \in [Requests -> SUBSET User]
    /\ tries \in [Requests -> 0 .. 2]
    /\ answer \in [Requests -> Answers]

HistoryTyped ==
    /\ written \subseteq User /\ claimed \subseteq User
    /\ mine \subseteq Requests /\ deleted \subseteq Ids
    /\ knew \in [Requests -> SUBSET deleted]

Own(r) == LocalsTyped' /\ HistoryTyped' /\ OthersKept(r) /\ Local(r)'

LEMMA StepCombines ==
    ASSUME Inv, NEW r \in Requests, Own(r), TableSound', CachesSound'
    PROVE  Inv'
<1>1. \A q \in Requests : Local(q)'
  BY OthersLocal DEF Inv, Own
<1>2. \A q \in Requests : req'[q] \in Menu[q]
  BY DEF Own, OthersKept, Inv, TypeOK
<1>3. TypeOK'
  BY <1>2 DEF Own, TypeOK, TableSound, CachesSound, CachesTyped, LocalsTyped, HistoryTyped
<1>4. QED BY <1>1, <1>3 DEF Inv, TableSound, CachesSound

(* Where a request goes and how it ends: it stays, or goes on, at one of   *)
(* labels, or ends with one of answers. *)
Moves(r, labels, answers) ==
    \/ pc[r] \in labels /\ UNCHANGED <<pc, answer>>
    \/ \E l \in labels : Goto(r, l)
    \/ \E a \in answers : Answer(r, a)

(* The attempts of its current loop. *)
Counts(r) ==
    \/ UNCHANGED tries
    \/ tries' = [tries EXCEPT ![r] = 0]
    \/ tries[r] + 1 < 3 /\ tries' = [tries EXCEPT ![r] = @ + 1]

LEMMA RetryMoves ==
    ASSUME NEW r \in Requests, NEW labels, NEW answers
    PROVE  /\ \A l \in labels : Proceed(r, l) => Moves(r, labels, answers) /\ Counts(r)
           /\ \A n \in {2, 3} : LocalsTyped /\ pc[r] \in labels /\ "dbError" \in answers
                 /\ (Retry(r, n) \/ GiveUp(r)) => Moves(r, labels, answers) /\ Counts(r)
BY DEF Proceed, Retry, GiveUp, Moves, Counts, LocalsTyped

(* Where that takes it. *)
Reaches(r, labels, answers) ==
    \/ pc'[r] \in labels /\ answer'[r] = answer[r]
    \/ pc'[r] = "done" /\ answer'[r] \in answers

LEMMA MovesTyped ==
    ASSUME LocalsTyped, NEW r \in Requests, NEW labels \in SUBSET Labels,
           NEW answers \in SUBSET Answers, Moves(r, labels, answers), Counts(r)
    PROVE  /\ pc' \in [Requests -> Labels] /\ answer' \in [Requests -> Answers]
           /\ tries' \in [Requests -> 0 .. 2]
           /\ \A q \in Requests : q # r => pc'[q] = pc[q] /\ answer'[q] = answer[q]
           /\ Reaches(r, labels, answers)
<1>1. tries' \in [Requests -> 0 .. 2]
  <2>1. tries \in [Requests -> 0 .. 2] /\ tries[r] \in 0 .. 2
    BY DEF LocalsTyped
  <2>2. \/ tries' = tries \/ tries' = [tries EXCEPT ![r] = 0]
        \/ tries[r] + 1 < 3 /\ tries' = [tries EXCEPT ![r] = tries[r] + 1]
    BY DEF Counts
  <2>3. QED BY <2>1, <2>2
<1>2. "done" \in Labels
  BY DEF Labels
<1>3. ASSUME NEW l \in labels, Goto(r, l)
      PROVE  /\ pc' \in [Requests -> Labels] /\ answer' = answer /\ pc'[r] = l
             /\ \A q \in Requests : q # r => pc'[q] = pc[q]
  BY <1>3 DEF LocalsTyped, Goto
<1>4. ASSUME NEW a \in answers, Answer(r, a)
      PROVE  /\ pc' \in [Requests -> Labels] /\ answer' \in [Requests -> Answers]
             /\ pc'[r] = "done" /\ answer'[r] = a
             /\ \A q \in Requests : q # r => pc'[q] = pc[q] /\ answer'[q] = answer[q]
  BY <1>2, <1>4 DEF LocalsTyped, Answer
<1>5. CASE pc[r] \in labels /\ UNCHANGED <<pc, answer>>
  BY <1>1, <1>5 DEF LocalsTyped, Reaches
<1>6. QED BY <1>1, <1>3, <1>4, <1>5 DEF Moves, LocalsTyped, Reaches

(* The variables of a request and the history, put together. *)
LEMMA OwnCombines ==
    ASSUME Inv, NEW r \in Requests, NEW labels \in SUBSET Labels,
           NEW answers \in SUBSET Answers, Moves(r, labels, answers), Counts(r),
           user' = user \/ \E v \in User : user' = [user EXCEPT ![r] = v],
           rows' = rows \/ \E S \in SUBSET User : rows' = [rows EXCEPT ![r] = S],
           loaded' = loaded \/ \E v \in User \cup {None} : loaded' = [loaded EXCEPT ![r] = v],
           HistoryTyped', req' = req, written \subseteq written', claimed \subseteq claimed',
           mine' = mine \/ mine' = mine \cup {r},
           Local(r)'
    PROVE  Own(r)
<1>1. LocalsTyped
  BY DEF Inv, TypeOK, LocalsTyped
<1>2. /\ pc' \in [Requests -> Labels] /\ answer' \in [Requests -> Answers]
      /\ tries' \in [Requests -> 0 .. 2]
      /\ \A q \in Requests : q # r => pc'[q] = pc[q] /\ answer'[q] = answer[q]
  BY <1>1, MovesTyped
<1>3. /\ user' \in [Requests -> User \cup {None}]
      /\ \A q \in Requests : q # r => user'[q] = user[q]
  BY <1>1 DEF LocalsTyped
<1>4. /\ rows' \in [Requests -> SUBSET User]
      /\ \A q \in Requests : q # r => rows'[q] = rows[q]
  BY <1>1 DEF LocalsTyped
<1>5. /\ loaded' \in [Requests -> User \cup {None}]
      /\ \A q \in Requests : q # r => loaded'[q] = loaded[q]
  BY <1>1 DEF LocalsTyped
<1>6. OthersKept(r)
  BY <1>2, <1>3, <1>4, <1>5, KnownGrows DEF OthersKept
<1>7. QED BY <1>2, <1>3, <1>4, <1>5, <1>6 DEF Own, LocalsTyped

LEMMA InvParts ==
    ASSUME Inv, NEW r \in Requests
    PROVE  /\ LocalsTyped /\ HistoryTyped /\ Local(r)
           /\ TableSound /\ CachesSound
           /\ written \subseteq Known /\ Known \subseteq User
           /\ req[r].op \in DOMAIN FirstLabel
           /\ req[r].op \in {"create", "register"} =>
                 req[r].email \in Emails /\ req[r].name \in Names
           /\ req[r].op \in {"findById", "update", "delete"} => req[r].id \in Ids
           /\ req[r].op = "update" => /\ req[r].email \in Emails \cup {None}
                                     /\ req[r].name \in Names \cup {None}
           /\ req[r].op = "findByEmail" => req[r].email \in Emails
           /\ req[r].op = "findAll" => req[r].id \in Queries
<1>1. req[r] \in Menu[r]
  BY DEF Inv, TypeOK
<1>2. written \subseteq Known /\ Known \subseteq User
  BY CommittedKnown DEF Inv, TypeOK, Known
<1>3. QED
  BY <1>1, <1>2, MenuAssumption
     DEF Inv, TypeOK, LocalsTyped, HistoryTyped, TableSound, CachesSound, CachesTyped

-----------------------------------------------------------------------------
(* create and register. *)
LEMMA CheckNewOwn ==
    ASSUME Inv, NEW r \in Requests, CheckNew(r)
    PROVE  Own(r)
<1> DEFINE ls == {"checkNew", "insert"}
           as == {"conflict", "dbError"}
<1>1. ls \in SUBSET Labels /\ as \in SUBSET Answers
  BY DEF Labels, Answers
<1>2. Moves(r, ls, as) /\ Counts(r)
  <2>1. CASE Answer(r, "conflict") /\ UNCHANGED tries
    BY <2>1 DEF Moves, Counts
  <2>2. CASE Proceed(r, "insert")
    BY <2>2, RetryMoves
  <2>3. CASE Retry(r, 2) \/ GiveUp(r)
    BY <2>3, InvParts, RetryMoves DEF CheckNew
  <2>4. QED BY <2>1, <2>2, <2>3 DEF CheckNew
<1> HIDE DEF ls, as
<1>3. Reaches(r, ls, as)
  BY <1>1, <1>2, InvParts, MovesTyped
<1>4. pc[r] = "checkNew" /\ UNCHANGED <<req, loaded, user, rows, history>>
  BY DEF CheckNew
<1>5. Local(r)'
  BY <1>3, <1>4, InvParts DEF Reaches, Local, Placed, Carries, Inserted, history, ls, as
<1>6. QED BY <1>1, <1>2, <1>4, <1>5, InvParts, OwnCombines DEF HistoryTyped, history

LEMMA NewUserTyped ==
    ASSUME Inv, NEW r \in Requests, IdsLeft, req[r].op \in {"create", "register"}
    PROVE  NewUser(r) \in User
<1>1. FreshId \in Ids
  BY DEF IdsLeft, FreshId
<1>2. QED BY <1>1, InvParts DEF NewUser, User

LEMMA InsertKeeps ==
    ASSUME Inv, NEW r \in Requests, Insert(r)
    PROVE  Own(r) /\ TableSound' /\ CachesSound'
<1> DEFINE ls == {"insert", "storeId"}
           as == {"conflict", "dbError"}
           u == NewUser(r)
<1>1. ls \in SUBSET Labels /\ as \in SUBSET Answers
  BY DEF Labels, Answers
<1>2. /\ pc[r] = "insert" /\ req[r].op = "create" /\ u \in User
      /\ UNCHANGED <<caches, req, loaded, rows, claimed, deleted, knew>>
  BY InvParts, NewUserTyped DEF Insert, Local, Placed
<1> HIDE DEF u
<1>3. (~Violates(u) /\ Write(u)) \/ UNCHANGED <<db, written, claimed>>
  BY DEF Insert, u
<1>4. /\ TableSound' /\ written' \subseteq User /\ written \subseteq written'
      /\ Write(u) => u \in Known'
  <2>1. CASE ~Violates(u) /\ Write(u)
    BY <1>2, <2>1, WriteKeeps DEF Inv
  <2>2. CASE UNCHANGED <<db, written, claimed>>
    <3>1. Write(u) => u \in written
      BY <2>2 DEF Write
    <3>2. QED BY <2>2, <3>1, InvParts, TableKept, KnownKept DEF HistoryTyped
  <2>3. QED BY <1>3, <2>1, <2>2
<1>5. CachesSound'
  BY <1>2, <1>4, CachesKept DEF Inv
<1>6. ASSUME ~Violates(u), Write(u), user' = [user EXCEPT ![r] = u],
             mine' = mine \cup {r}, Proceed(r, "storeId")
      PROVE  Own(r)
  <2>1. /\ Moves(r, ls, as) /\ Counts(r)
        /\ pc'[r] = "storeId" /\ answer'[r] = answer[r]
    BY <1>6, InvParts, RetryMoves DEF Proceed, Goto, LocalsTyped
  <2>2. user'[r] = u /\ u \in Known'
    BY <1>4, <1>6, InvParts DEF LocalsTyped
  <2>3. Local(r)'
    BY <1>2, <1>4, <1>6, <2>1, <2>2, InvParts DEF Local, Placed, Carries, Inserted
  <2>4. HistoryTyped'
    BY <1>2, <1>4, <1>6, InvParts DEF HistoryTyped
  <2>5. QED BY <1>1, <1>2, <1>4, <1>6, <2>1, <2>3, <2>4, OwnCombines
<1>7. ASSUME Moves(r, {"insert"}, as), Counts(r), UNCHANGED <<user, mine>>
      PROVE  Own(r)
  <2>1. Moves(r, ls, as)
    BY <1>7 DEF Moves
  <2> HIDE DEF ls
  <2>2. Reaches(r, {"insert"}, as)
    BY <1>1, <1>7, InvParts, MovesTyped DEF Labels
  <2>3. Local(r)'
    BY <1>2, <1>4, <1>7, <2>2, InvParts DEF Reaches, Local, Placed, Carries, Inserted
  <2>4. HistoryTyped'
    BY <1>2, <1>4, <1>7, InvParts DEF HistoryTyped
  <2>5. QED BY <1>1, <1>2, <1>4, <1>7, <2>1, <2>3, <2>4, OwnCombines
<1>8. ASSUME Retry(r, 3) \/ GiveUp(r) \/ (Answer(r, "conflict") /\ UNCHANGED tries)
      PROVE  Moves(r, {"insert"}, as) /\ Counts(r)
  <2>1. CASE Retry(r, 3) \/ GiveUp(r)
    BY <1>2, <2>1, InvParts, RetryMoves
  <2>2. CASE Answer(r, "conflict") /\ UNCHANGED tries
    BY <2>2 DEF Moves, Counts
  <2>3. QED BY <1>8, <2>1, <2>2
<1>9. Own(r)
  BY <1>6, <1>7, <1>8 DEF Insert, u
<1>10. QED BY <1>4, <1>5, <1>9

LEMMA CheckRegisteredOwn ==
    ASSUME Inv, NEW r \in Requests, CheckRegistered(r)
    PROVE  Own(r)
<1> DEFINE ls == {"register"}
           as == {"conflict", "dbError"}
<1>1. ls \in SUBSET Labels /\ as \in SUBSET Answers
  BY DEF Labels, Answers
<1>2. Moves(r, ls, as) /\ Counts(r)
  BY DEF CheckRegistered, Moves, Counts
<1> HIDE DEF ls, as
<1>3. Reaches(r, ls, as)
  BY <1>1, <1>2, InvParts, MovesTyped
<1>4. pc[r] = "checkRegistered" /\ UNCHANGED <<req, loaded, user, rows, history>>
  BY DEF CheckRegistered
<1>5. Local(r)'
  BY <1>3, <1>4, InvParts DEF Reaches, Local, Placed, Carries, Inserted, history, ls, as
<1>6. QED BY <1>1, <1>2, <1>4, <1>5, InvParts, OwnCombines DEF HistoryTyped, history

LEMMA RegisterKeeps ==
    ASSUME Inv, NEW r \in Requests, Register(r)
    PROVE  Own(r) /\ TableSound' /\ CachesSound'
<1> DEFINE as == {"ok", "dbError"}
           u == NewUser(r)
<1>1. as \in SUBSET Answers
  BY DEF Answers
<1>2. /\ pc[r] = "register" /\ req[r].op = "register" /\ u \in User
      /\ UNCHANGED <<caches, req, loaded, rows, tries, claimed, deleted, knew>>
  BY InvParts, NewUserTyped DEF Register, Local, Placed
<1>3. \/ /\ ~Violates(u) /\ Write(u) /\ user' = [user EXCEPT ![r] = u]
         /\ mine' = mine \cup {r} /\ Answer(r, "ok")
      \/ ~Violates(u) /\ Write(u) /\ Answer(r, "dbError") /\ UNCHANGED <<user, mine>>
      \/ UNCHANGED <<db, written, claimed>> /\ Answer(r, "dbError") /\ UNCHANGED <<user, mine>>
  BY DEF Register
<1> HIDE DEF u
<1>4. /\ TableSound' /\ written' \subseteq User /\ written \subseteq written'
      /\ Write(u) => u \in Known'
  <2>1. CASE ~Violates(u) /\ Write(u)
    BY <1>2, <2>1, WriteKeeps DEF Inv
  <2>2. CASE UNCHANGED <<db, written, claimed>>
    <3>1. Write(u) => u \in written
      BY <2>2 DEF Write
    <3>2. QED BY <2>2, <3>1, InvParts, TableKept, KnownKept DEF HistoryTyped
  <2>3. QED BY <1>3, <2>1, <2>2
<1>5. CachesSound'
  BY <1>2, <1>4, CachesKept DEF Inv
<1>6. Moves(r, {}, as) /\ Counts(r)
  BY <1>2, <1>3 DEF Moves, Counts
<1>7. pc'[r] = "done" /\ answer'[r] \in as /\ (answer'[r] = "ok" <=> r \in mine')
  BY <1>2, <1>3, InvParts DEF LocalsTyped, Answer, Local, Inserted
<1>8. Local(r)'
  BY <1>2, <1>4, <1>7, InvParts DEF Local, Placed, Carries, Inserted
<1>9. HistoryTyped'
  BY <1>2, <1>3, <1>4, InvParts DEF HistoryTyped
<1>10. Own(r)
  BY <1>1, <1>2, <1>3, <1>4, <1>6, <1>8, <1>9, OwnCombines
<1>11. QED BY <1>4, <1>5, <1>10

-----------------------------------------------------------------------------
(* findById, on its own and inside update and delete. *)
LEMMA AssignTyped ==
    ASSUME Inv, NEW r \in Requests, req[r].op = "update", NEW u \in Known
    PROVE  Assign(u, req[r]) \in User
<1>1. u \in User
  BY DEF Known
<1>2. QED BY <1>1, InvParts DEF Assign, User

LEMMA FoundOwn ==
    ASSUME Inv, NEW r \in Requests, NEW u \in Known, u.id = req[r].id, Found(r, u),
           answer[r] = "none",
           req[r].op \in {"findById", "update", "delete"}, r \notin mine,
           UNCHANGED <<req, loaded, rows, tries, written, claimed, mine, deleted>>, HistoryTyped'
    PROVE  Own(r)
<1> DEFINE ls == {"remove", "checkEmail", "save"}
<1>1. ls \in SUBSET Labels /\ {"ok"} \in SUBSET Answers
  BY DEF Labels, Answers
<1>2. /\ u \in User
      /\ req[r].op = "update" => Assign(u, req[r]) \in User
  BY AssignTyped DEF Known
<1>3. PICK l \in ls, v \in User :
         /\ user' = [user EXCEPT ![r] = v]
         /\ \/ Answer(r, "ok") /\ req[r].op = "findById" /\ v = u
            \/ l = "remove" /\ Goto(r, l) /\ req[r].op = "delete" /\ v = u
            \/ l = "checkEmail" /\ Goto(r, l) /\ req[r].op = "update" /\ v = u
            \/ l = "save" /\ Goto(r, l) /\ req[r].op = "update" /\ v = Assign(u, req[r])
  <2>1. CASE req[r].op = "findById"
    BY <1>2, <2>1 DEF Found
  <2>2. CASE req[r].op = "delete"
    BY <1>2, <2>2 DEF Found
  <2>3. CASE req[r].op = "update"
    BY <1>2, <2>3 DEF Found
  <2>4. QED BY <2>1, <2>2, <2>3
<1>4. Moves(r, ls, {"ok"}) /\ Counts(r)
  BY <1>3 DEF Moves, Counts
<1>5. /\ user'[r] = v
      /\ \/ pc'[r] = "done" /\ answer'[r] = "ok"
         \/ pc'[r] = "remove" /\ req[r].op = "delete" /\ answer' = answer /\ v = u
         \/ pc'[r] = "checkEmail" /\ req[r].op = "update" /\ answer' = answer /\ v = u
         \/ /\ pc'[r] = "save" /\ req[r].op = "update" /\ answer' = answer
            /\ v = Assign(u, req[r])
  BY <1>3, InvParts DEF LocalsTyped, Goto, Answer
<1>6. Local(r)'
  BY <1>5, InvParts, KnownKept DEF Local, Placed, Carries, Inserted
<1> HIDE DEF ls
<1>7. QED BY <1>1, <1>3, <1>4, <1>6, OwnCombines

LEMMA CacheGetOwn ==
    ASSUME Inv, NEW r \in Requests, CacheGet(r)
    PROVE  Own(r)
<1>1. /\ pc[r] = "cacheGet" /\ req[r].op \in {"findById", "update", "delete"}
      /\ r \notin mine /\ req[r].id \in Ids /\ answer[r] = "none"
  BY InvParts DEF CacheGet, Local, Placed, Inserted
<1>2. HistoryTyped' /\ UNCHANGED <<req, loaded, rows, tries, written, claimed, mine, deleted>>
  BY InvParts DEF HistoryTyped, CacheGet
<1>3. CASE byId[req[r].id] # None /\ Found(r, byId[req[r].id].value)
  <2>1. byId[req[r].id].value \in Known /\ byId[req[r].id].value.id = req[r].id
    BY <1>1, <1>3, InvParts DEF CachesSound, CachesHoldCommittedFields
  <2>2. QED BY <1>1, <1>2, <1>3, <2>1, FoundOwn
<1>4. CASE Goto(r, "dbFind") /\ UNCHANGED user
  <2>1. {"dbFind"} \in SUBSET Labels /\ {} \in SUBSET Answers
    BY DEF Labels
  <2>2. Moves(r, {"dbFind"}, {}) /\ Counts(r)
    BY <1>2, <1>4 DEF Moves, Counts
  <2>3. pc'[r] = "dbFind" /\ answer'[r] = answer[r]
    BY <1>4, InvParts DEF LocalsTyped, Goto
  <2>4. Local(r)'
    BY <1>1, <1>2, <2>3, InvParts DEF Local, Placed, Carries, Inserted
  <2>5. QED BY <1>2, <1>4, <2>1, <2>2, <2>4, OwnCombines
<1>5. QED BY <1>3, <1>4 DEF CacheGet

LEMMA DbFindOwn ==
    ASSUME Inv, NEW r \in Requests, DbFind(r)
    PROVE  Own(r)
<1> DEFINE ls == {"dbFind", "fillId"}
           as == {"notFound", "dbError"}
<1>1. ls \in SUBSET Labels /\ as \in SUBSET Answers
  BY DEF Labels, Answers
<1>2. /\ pc[r] = "dbFind" /\ UNCHANGED <<req, loaded, rows, history>>
      /\ req[r].op \in {"findById", "update", "delete"} /\ req[r].id \in Ids
  BY InvParts DEF DbFind, Local, Placed
<1>3. HistoryTyped'
  BY <1>2, InvParts DEF HistoryTyped, history
<1>4. ASSUME db[req[r].id] # None, user' = [user EXCEPT ![r] = db[req[r].id]],
             Proceed(r, "fillId")
      PROVE  Own(r)
  <2>1. /\ db[req[r].id] \in User /\ db[req[r].id] \in written
        /\ db[req[r].id].id = req[r].id
    BY <1>2, <1>4, InvParts DEF TableSound, RowsWritten
  <2>2. Moves(r, ls, as) /\ Counts(r)
    BY <1>4, RetryMoves
  <2>3. pc'[r] = "fillId" /\ user'[r] = db[req[r].id] /\ answer'[r] = answer[r]
    BY <1>4, InvParts DEF LocalsTyped, Proceed, Goto
  <2>4. Local(r)'
    BY <1>2, <2>1, <2>3, InvParts, KnownKept DEF Local, Placed, Carries, Inserted, history
  <2>5. QED BY <1>1, <1>2, <1>3, <1>4, <2>1, <2>2, <2>4, OwnCombines DEF history
<1>5. ASSUME UNCHANGED user,
             \/ Retry(r, 2) \/ GiveUp(r)
             \/ Answer(r, "notFound") /\ UNCHANGED tries
      PROVE  Own(r)
  <2>1. Moves(r, {"dbFind"}, as) /\ Counts(r)
    <3>1. CASE Retry(r, 2) \/ GiveUp(r)
      BY <1>2, <3>1, InvParts, RetryMoves
    <3>2. CASE Answer(r, "notFound") /\ UNCHANGED tries
      BY <3>2 DEF Moves, Counts
    <3>3. QED BY <1>5, <3>1, <3>2
  <2>2. Moves(r, ls, as)
    BY <2>1 DEF Moves
  <2> HIDE DEF ls, as
  <2>3. Reaches(r, {"dbFind"}, as)
    BY <1>1, <2>1, InvParts, MovesTyped DEF Labels
  <2>4. Local(r)'
    BY <1>2, <1>5, <2>3, InvParts
       DEF Reaches, Local, Placed, Carries, Inserted, history, as
  <2>5. QED BY <1>1, <1>2, <1>3, <1>5, <2>1, <2>2, <2>4, OwnCombines DEF history
<1>6. QED BY <1>4, <1>5 DEF DbFind

(* A step that moves its request on, keeping all but its user. *)
LEMMA MovedOwn ==
    ASSUME Inv, NEW r \in Requests, NEW labels \in SUBSET Labels,
           NEW answers \in SUBSET Answers, Moves(r, labels, answers),
           UNCHANGED <<req, loaded, rows, tries, written, claimed, mine, deleted, knew>>,
           user' = user \/ \E v \in User : user' = [user EXCEPT ![r] = v],
           Reaches(r, labels, answers) => Local(r)'
    PROVE  Own(r)
<1>1. Counts(r)
  BY DEF Counts
<1>2. Reaches(r, labels, answers)
  BY <1>1, InvParts, MovesTyped
<1>3. HistoryTyped'
  BY InvParts DEF HistoryTyped
<1>4. QED BY <1>1, <1>2, <1>3, OwnCombines

LEMMA FillIdKeeps ==
    ASSUME Inv, NEW r \in Requests, FillId(r)
    PROVE  Own(r) /\ TableSound' /\ CachesSound'
<1>1. /\ pc[r] = "fillId" /\ req[r].op \in {"findById", "update", "delete"}
      /\ r \notin mine /\ user[r] \in Known /\ user[r].id = req[r].id
      /\ answer[r] = "none"
      /\ UNCHANGED <<db, byEmail, lists, req, loaded, rows, tries, written, claimed, mine, deleted, knew>>
  BY InvParts DEF FillId, Local, Placed, Carries, Inserted, HistoryTyped, history
<1>2. TableSound'
  BY <1>1, InvParts, TableKept
<1>3. CASE /\ byId' = [byId EXCEPT ![user[r].id] = SetEx(user[r])]
           /\ Goto(r, "fillEmail") /\ UNCHANGED user
  <2>1. CachesSound'
    BY <1>1, <1>3, IdCached DEF Inv
  <2>2. Moves(r, {"fillEmail"}, {}) /\ {"fillEmail"} \in SUBSET Labels
    BY <1>3 DEF Moves, Labels
  <2>3. Reaches(r, {"fillEmail"}, {}) => Local(r)'
    BY <1>1, <1>3, InvParts, KnownKept DEF Reaches, Local, Placed, Carries, Inserted
  <2>4. Own(r)
    BY <1>1, <1>3, <2>2, <2>3, MovedOwn
  <2>5. QED BY <1>2, <2>1, <2>4
<1>4. CASE Found(r, user[r]) /\ UNCHANGED byId
  <2>1. HistoryTyped' /\ CachesSound'
    BY <1>1, <1>4, InvParts, CachesKept DEF HistoryTyped, Inv, caches
  <2>2. Own(r)
    BY <1>1, <1>4, <2>1, FoundOwn
  <2>3. QED BY <1>2, <2>1, <2>2
<1>5. QED BY <1>3, <1>4 DEF FillId

LEMMA FillEmailKeeps ==
    ASSUME Inv, NEW r \in Requests, FillEmail(r)
    PROVE  Own(r) /\ TableSound' /\ CachesSound'
<1>1. /\ pc[r] = "fillEmail" /\ req[r].op \in {"findById", "update", "delete"}
      /\ r \notin mine /\ user[r] \in Known /\ user[r].id = req[r].id
      /\ answer[r] = "none"
      /\ UNCHANGED <<db, byId, lists, req, loaded, rows, tries, written, claimed, mine, deleted, knew>>
      /\ Found(r, user[r])
  BY InvParts DEF FillEmail, Local, Placed, Carries, Inserted, HistoryTyped, history
<1>2. TableSound' /\ HistoryTyped'
  BY <1>1, InvParts, TableKept DEF HistoryTyped
<1>3. CachesSound'
  <2>1. CASE byEmail' = [byEmail EXCEPT ![user[r].email] = SetEx(user[r])]
    BY <1>1, <2>1, EmailCached DEF Inv
  <2>2. CASE UNCHANGED byEmail
    BY <1>1, <2>2, CachesKept DEF Inv, caches
  <2>3. QED BY <2>1, <2>2 DEF FillEmail
<1>4. Own(r)
  BY <1>1, <1>2, FoundOwn
<1>5. QED BY <1>2, <1>3, <1>4

-----------------------------------------------------------------------------
(* What update does. *)
LEMMA CheckEmailOwn ==
    ASSUME Inv, NEW r \in Requests, CheckEmail(r)
    PROVE  Own(r)
<1> DEFINE ls == {"save"}
           as == {"conflict", "dbError"}
<1>1. ls \in SUBSET Labels /\ as \in SUBSET Answers
  BY DEF Labels, Answers
<1>2. /\ pc[r] = "checkEmail" /\ req[r].op = "update"
      /\ user[r] \in Known /\ user[r].id = req[r].id
      /\ UNCHANGED <<req, loaded, rows, tries, written, claimed, mine, deleted, knew>>
  BY InvParts DEF CheckEmail, Local, Placed, Carries, history
<1>3. Assign(user[r], req[r]) \in User
  BY <1>2, AssignTyped
<1>4. \/ user' = user /\ \E a \in as : Answer(r, a)
      \/ user' = [user EXCEPT ![r] = Assign(user[r], req[r])]
  BY DEF CheckEmail
<1>5. \/ pc'[r] = "done" /\ answer'[r] \in as
      \/ user'[r] = Assign(user[r], req[r])
  BY <1>2, <1>3, <1>4, InvParts DEF LocalsTyped, Answer
<1>6. Moves(r, ls, as)
  BY DEF CheckEmail, Moves
<1>7. Reaches(r, ls, as) => Local(r)'
  BY <1>2, <1>5, InvParts, KnownKept DEF Reaches, Local, Placed, Carries, Inserted
<1> HIDE DEF ls, as
<1>8. QED BY <1>1, <1>2, <1>3, <1>4, <1>6, <1>7, MovedOwn

LEMMA Saving ==
    ASSUME Inv, NEW r \in Requests, pc[r] \in {"save", "saveRow"}
    PROVE  /\ user[r] \in User /\ user[r].id = req[r].id /\ user[r].id \in Ids
           /\ req[r].op = "update" /\ r \notin mine
<1>1. /\ req[r].op = "update" /\ r \notin mine
      /\ \E w \in Known : w.id = req[r].id /\ user[r] = Assign(w, req[r])
  BY InvParts DEF Local, Placed, Carries, Inserted
<1>2. PICK w \in Known : w.id = req[r].id /\ user[r] = Assign(w, req[r])
  BY <1>1
<1>3. user[r] \in User
  BY <1>1, <1>2, AssignTyped
<1>4. w \in User /\ user[r].id = w.id
  BY <1>2 DEF Assign, Known, User
<1>5. QED BY <1>1, <1>2, <1>3, <1>4 DEF User

LEMMA SaveOwn ==
    ASSUME Inv, NEW r \in Requests, Save(r)
    PROVE  Own(r)
<1> DEFINE u == user[r]
           ls == {"storeId", "saveRow"}
<1>1. /\ pc[r] = "save" /\ req[r].op = "update" /\ u.id = req[r].id /\ u.id \in Ids
      /\ r \notin mine
      /\ UNCHANGED <<req, user, rows, tries, written, claimed, mine, deleted, knew>>
  BY Saving DEF Save, history
<1>2. /\ db[u.id] \in User \cup {None}
      /\ db[u.id] # None => db[u.id] \in written /\ db[u.id].id = u.id
  BY <1>1, InvParts DEF TableSound, RowsWritten
<1>3. \/ db[u.id] = u /\ Goto(r, "storeId") /\ UNCHANGED loaded
      \/ Goto(r, "saveRow") /\ loaded' = [loaded EXCEPT ![r] = db[u.id]]
      \/ Answer(r, "dbError") /\ UNCHANGED loaded
  BY DEF Save
<1>4. ls \in SUBSET Labels /\ {"dbError"} \in SUBSET Answers
  BY DEF Labels, Answers
<1>5. Moves(r, ls, {"dbError"}) /\ Counts(r)
  BY <1>1, <1>3 DEF Moves, Counts
<1>6. \/ pc'[r] = "storeId" /\ db[u.id] = u /\ answer'[r] = answer[r]
      \/ pc'[r] = "saveRow" /\ loaded'[r] = db[u.id] /\ answer'[r] = answer[r]
      \/ pc'[r] = "done" /\ answer'[r] = "dbError"
  BY <1>3, InvParts DEF LocalsTyped, Goto, Answer
<1>7. db[u.id] = u => u \in Known
  BY <1>1, <1>2, Saving, InvParts, TableAssumption
<1>8. Local(r)'
  BY <1>1, <1>2, <1>6, <1>7, KnownKept, InvParts DEF Local, Placed, Carries, Inserted
<1>9. HistoryTyped'
  BY <1>1, InvParts DEF HistoryTyped
<1> HIDE DEF ls
<1>10. QED BY <1>1, <1>2, <1>3, <1>4, <1>5, <1>8, <1>9, OwnCombines

(* The row that an update leaves, and that what it returns is known of. *)
LEMMA UpdateKnown ==
    ASSUME Inv, NEW r \in Requests, pc[r] = "saveRow", ~Missed(r), Write(Saved(r)),
           UNCHANGED claimed
    PROVE  /\ TableSound' /\ written' \subseteq User /\ written \subseteq written'
           /\ user[r] \in Known'
<1> DEFINE u == user[r]
           row == db[u.id]
           x == Saved(r)
<1>1. /\ u \in User /\ u.id = req[r].id /\ u.id \in Ids
      /\ loaded[r] # None => loaded[r] \in written /\ loaded[r].id = u.id
  BY Saving, InvParts DEF Local, Carries
<1>2. CASE loaded[r] = None
  <2>1. x = u
    BY <1>2 DEF Saved
  <2>2. QED BY <1>1, <2>1, WriteKeeps DEF Inv
<1>3. CASE loaded[r] # None
  <2>1. row \in User /\ row.id = u.id
    BY <1>1, <1>3, InvParts DEF TableSound, RowsWritten, Missed
  <2>2. x = Updated(row, loaded[r], u)
    BY <1>3 DEF Saved
  <2>3. /\ x \in User /\ x.id = u.id
        /\ u.email # loaded[r].email => x.email = u.email
        /\ u.name # loaded[r].name => x.name = u.name
    BY <1>1, <2>1, <2>2 DEF Updated, User
  <2> HIDE DEF x
  <2>4. /\ TableSound' /\ written' \subseteq User
        /\ written \subseteq written' /\ x \in written'
    BY <2>3, WriteKeeps DEF Inv, x
  <2>5. loaded[r] \in written' /\ loaded[r].id = u.id
    BY <1>1, <1>3, <2>4
  <2>6. /\ \E w \in written' : w.id = u.id /\ w.email = u.email
        /\ \E v \in written' : v.id = u.id /\ v.name = u.name
    BY <2>3, <2>4, <2>5
  <2>7. u \in Known'
    BY <1>1, <2>6 DEF Known
  <2>8. QED BY <2>4, <2>7
<1>4. QED BY <1>2, <1>3

LEMMA SaveRowKeeps ==
    ASSUME Inv, NEW r \in Requests, SaveRow(r)
    PROVE  Own(r) /\ TableSound' /\ CachesSound'
<1> DEFINE u == user[r]
<1>1. /\ pc[r] = "saveRow" /\ req[r].op = "update" /\ u \in User /\ r \notin mine
      /\ loaded' = [loaded EXCEPT ![r] = None]
      /\ UNCHANGED <<caches, req, user, rows, tries, mine, deleted, knew>>
  BY Saving DEF SaveRow
<1>2. \/ /\ ~Missed(r) /\ Write(Saved(r)) /\ UNCHANGED claimed
         /\ Goto(r, "storeId") \/ Answer(r, "dbError")
      \/ Goto(r, "storeId") /\ claimed' = claimed \cup {u} /\ UNCHANGED <<db, written>>
      \/ UNCHANGED <<db, written, claimed>> /\ Answer(r, "dbError")
  BY DEF SaveRow
<1>3. /\ TableSound' /\ written' \subseteq User /\ written \subseteq written'
      /\ claimed' \subseteq User /\ claimed \subseteq claimed'
      /\ (u \in Known' \/ Answer(r, "dbError"))
  <2>1. CASE ~Missed(r) /\ Write(Saved(r)) /\ UNCHANGED claimed
    BY <1>1, <2>1, UpdateKnown, InvParts DEF HistoryTyped
  <2>2. CASE claimed' = claimed \cup {u} /\ UNCHANGED <<db, written>>
    <3>1. TableSound'
      BY <2>2, InvParts DEF TableSound, RowsWritten
    <3>2. written' \subseteq User /\ claimed' \subseteq User
      BY <1>1, <2>2, InvParts DEF HistoryTyped
    <3>3. u \in Known'
      BY <2>2, <3>2, CommittedKnown
    <3>4. QED BY <2>2, <3>1, <3>2, <3>3
  <2>3. CASE UNCHANGED <<db, written, claimed>> /\ Answer(r, "dbError")
    BY <2>3, InvParts, TableKept DEF HistoryTyped
  <2>4. QED BY <1>2, <2>1, <2>2, <2>3
<1> HIDE DEF u
<1>4. CachesSound'
  BY <1>1, <1>3, CachesKept DEF Inv
<1>5. Moves(r, {"storeId"}, {"dbError"}) /\ Counts(r)
  BY <1>1, <1>2 DEF Moves, Counts
<1>6. \/ pc'[r] = "storeId" /\ u \in Known' /\ answer'[r] = answer[r]
      \/ pc'[r] = "done" /\ answer'[r] = "dbError"
  BY <1>2, <1>3, InvParts DEF LocalsTyped, Goto, Answer
<1>7. Local(r)'
  BY <1>1, <1>3, <1>6, InvParts DEF Local, Placed, Carries, Inserted, u
<1>8. HistoryTyped'
  BY <1>1, <1>3, InvParts DEF HistoryTyped
<1>9. {"storeId"} \in SUBSET Labels /\ {"dbError"} \in SUBSET Answers
  BY DEF Labels, Answers
<1>10. Own(r)
  BY <1>1, <1>3, <1>5, <1>7, <1>8, <1>9, OwnCombines
<1>11. QED BY <1>3, <1>4, <1>10

(* What follows a save or a remove: cacheUser and clearUserCache. *)
LEMMA StoreIdKeeps ==
    ASSUME Inv, NEW r \in Requests, StoreId(r)
    PROVE  Own(r) /\ TableSound' /\ CachesSound'
<1> DEFINE as == {IF req[r].op = "create" THEN "ok" ELSE "cacheError"}
<1>1. /\ pc[r] = "storeId" /\ req[r].op \in {"create", "update"} /\ user[r] \in Known
      /\ (req[r].op = "create" => r \in mine)
      /\ UNCHANGED <<db, byEmail, lists, req, loaded, user, rows, tries>>
      /\ UNCHANGED <<written, claimed, mine, deleted, knew>>
  BY InvParts DEF StoreId, Local, Placed, Carries, Inserted, history
<1>2. TableSound'
  BY <1>1, InvParts, TableKept
<1>3. /\ Moves(r, {"storeEmail"}, as)
      /\ UNCHANGED byId \/ byId' = [byId EXCEPT ![user[r].id] = SetEx(user[r])]
  BY DEF StoreId, CacheFailed, Moves
<1>4. CachesSound'
  <2>1. CASE UNCHANGED byId
    BY <1>1, <2>1, CachesKept DEF Inv, caches
  <2>2. CASE byId' = [byId EXCEPT ![user[r].id] = SetEx(user[r])]
    BY <1>1, <2>2, IdCached DEF Inv
  <2>3. QED BY <1>3, <2>1, <2>2
<1>5. {"storeEmail"} \in SUBSET Labels /\ as \in SUBSET Answers
  BY DEF Labels, Answers
<1>6. Reaches(r, {"storeEmail"}, as) => Local(r)'
  BY <1>1, InvParts, KnownKept DEF Reaches, Local, Placed, Carries, Inserted
<1> HIDE DEF as
<1>7. Own(r)
  BY <1>1, <1>3, <1>5, <1>6, MovedOwn
<1>8. QED BY <1>2, <1>4, <1>7

LEMMA StoreEmailKeeps ==
    ASSUME Inv, NEW r \in Requests, StoreEmail(r)
    PROVE  Own(r) /\ TableSound' /\ CachesSound'
<1> DEFINE as == {IF req[r].op = "create" THEN "ok" ELSE "cacheError"}
<1>1. /\ pc[r] = "storeEmail" /\ req[r].op \in {"create", "update"} /\ user[r] \in Known
      /\ (req[r].op = "create" => r \in mine)
      /\ UNCHANGED <<db, byId, lists, req, loaded, user, rows, tries>>
      /\ UNCHANGED <<written, claimed, mine, deleted, knew>>
  BY InvParts DEF StoreEmail, Local, Placed, Carries, Inserted, history
<1>2. TableSound'
  BY <1>1, InvParts, TableKept
<1>3. /\ Moves(r, {"clearLists"}, as)
      /\ UNCHANGED byEmail \/ byEmail' = [byEmail EXCEPT ![user[r].email] = SetEx(user[r])]
  BY DEF StoreEmail, CacheFailed, Moves
<1>4. CachesSound'
  <2>1. CASE UNCHANGED byEmail
    BY <1>1, <2>1, CachesKept DEF Inv, caches
  <2>2. CASE byEmail' = [byEmail EXCEPT ![user[r].email] = SetEx(user[r])]
    BY <1>1, <2>2, EmailCached DEF Inv
  <2>3. QED BY <1>3, <2>1, <2>2
<1>5. {"clearLists"} \in SUBSET Labels /\ as \in SUBSET Answers
  BY DEF Labels, Answers
<1>6. Reaches(r, {"clearLists"}, as) => Local(r)'
  BY <1>1, InvParts DEF Reaches, Local, Placed, Carries, Inserted
<1> HIDE DEF as
<1>7. Own(r)
  BY <1>1, <1>3, <1>5, <1>6, MovedOwn
<1>8. QED BY <1>2, <1>4, <1>7

LEMMA ClearListsKeeps ==
    ASSUME Inv, NEW r \in Requests, ClearLists(r)
    PROVE  Own(r) /\ TableSound' /\ CachesSound'
<1> DEFINE as == {"ok"} \cup {IF req[r].op = "create" THEN "ok" ELSE "cacheError"}
<1>1. /\ pc[r] = "clearLists" /\ req[r].op \in {"create", "update", "delete"}
      /\ (req[r].op = "create" => r \in mine)
      /\ UNCHANGED <<db, byId, req, loaded, user, rows, tries, written, claimed, mine, knew>>
  BY InvParts DEF ClearLists, Local, Placed, Inserted
<1>2. TableSound'
  BY <1>1, InvParts, TableKept
<1>3. /\ Moves(r, {}, as) /\ Counts(r)
      /\ \/ UNCHANGED deleted
         \/ req[r].op = "delete" /\ deleted' = deleted \cup {req[r].id}
      /\ UNCHANGED lists \/ lists' = ClearedLists
      /\ UNCHANGED byEmail \/ \E e : byEmail' = [byEmail EXCEPT ![e] = None]
  BY <1>1 DEF ClearLists, CacheFailed, Moves, Counts
<1>4. CachesSound'
  BY <1>1, <1>3, CachesDropped DEF Inv
<1>5. {} \in SUBSET Labels /\ as \in SUBSET Answers
  BY DEF Labels, Answers
<1>6. Reaches(r, {}, as)
  BY <1>3, <1>5, InvParts, MovesTyped
<1>7. Local(r)'
  BY <1>1, <1>6, InvParts DEF Reaches, Local, Placed, Carries, Inserted
<1>8. HistoryTyped'
  BY <1>1, <1>3, InvParts DEF HistoryTyped
<1> HIDE DEF as
<1>9. Own(r)
  BY <1>1, <1>3, <1>5, <1>7, <1>8, OwnCombines
<1>10. QED BY <1>2, <1>4, <1>9

(* What delete does. *)
LEMMA RemoveStepKeeps ==
    ASSUME Inv, NEW r \in Requests, Remove(r)
    PROVE  Own(r) /\ TableSound' /\ CachesSound'
<1>1. /\ pc[r] = "remove" /\ req[r].op = "delete" /\ r \notin mine
      /\ user[r] \in Known /\ user[r] \in User
      /\ UNCHANGED caches
      /\ UNCHANGED <<req, loaded, user, rows, tries, written, claimed, mine, deleted, knew>>
  BY InvParts DEF Remove, Local, Placed, Carries, Inserted, HistoryTyped, history
<1>2. /\ Moves(r, {"delId"}, {"dbError"})
      /\ UNCHANGED db \/ db' = [db EXCEPT ![user[r].id] = None]
  BY DEF Remove, Moves
<1>3. TableSound'
  <2>1. user[r].id \in Ids
    BY <1>1 DEF User
  <2>2. CASE UNCHANGED db
    BY <1>1, <2>2, InvParts, TableKept
  <2>3. CASE db' = [db EXCEPT ![user[r].id] = None]
    BY <1>1, <2>1, <2>3, RemoveKeeps DEF Inv
  <2>4. QED BY <1>2, <2>2, <2>3
<1>4. CachesSound'
  BY <1>1, CachesKept DEF Inv
<1>5. {"delId"} \in SUBSET Labels /\ {"dbError"} \in SUBSET Answers
  BY DEF Labels, Answers
<1>6. Reaches(r, {"delId"}, {"dbError"}) => Local(r)'
  BY <1>1, InvParts DEF Reaches, Local, Placed, Carries, Inserted
<1>7. Own(r)
  BY <1>1, <1>2, <1>5, <1>6, MovedOwn
<1>8. QED BY <1>3, <1>4, <1>7

LEMMA DelIdKeeps ==
    ASSUME Inv, NEW r \in Requests, DelId(r)
    PROVE  Own(r) /\ TableSound' /\ CachesSound'
<1>1. /\ pc[r] = "delId" /\ req[r].op = "delete"
      /\ UNCHANGED <<db, byEmail, lists, req, loaded, user, rows, tries>>
      /\ UNCHANGED <<written, claimed, mine, deleted, knew>>
  BY InvParts DEF DelId, Local, Placed, history
<1>2. /\ Moves(r, {"delEmail"}, {"cacheError"})
      /\ UNCHANGED byId \/ \E i : byId' = [byId EXCEPT ![i] = None]
  BY <1>1 DEF DelId, CacheFailed, Moves
<1>3. TableSound' /\ CachesSound'
  BY <1>1, <1>2, InvParts, TableKept, CachesDropped DEF Inv
<1>4. {"delEmail"} \in SUBSET Labels /\ {"cacheError"} \in SUBSET Answers
  BY DEF Labels, Answers
<1>5. Reaches(r, {"delEmail"}, {"cacheError"}) => Local(r)'
  BY <1>1, InvParts DEF Reaches, Local, Placed, Carries, Inserted
<1>6. Own(r)
  BY <1>1, <1>2, <1>4, <1>5, MovedOwn
<1>7. QED BY <1>3, <1>6

LEMMA DelEmailKeeps ==
    ASSUME Inv, NEW r \in Requests, DelEmail(r)
    PROVE  Own(r) /\ TableSound' /\ CachesSound'
<1>1. /\ pc[r] = "delEmail" /\ req[r].op = "delete"
      /\ UNCHANGED <<db, byId, lists, req, loaded, user, rows, tries>>
      /\ UNCHANGED <<written, claimed, mine, deleted, knew>>
  BY InvParts DEF DelEmail, Local, Placed, history
<1>2. /\ Moves(r, {"clearLists"}, {"cacheError"})
      /\ UNCHANGED byEmail \/ \E e : byEmail' = [byEmail EXCEPT ![e] = None]
  BY <1>1 DEF DelEmail, CacheFailed, Moves
<1>3. TableSound' /\ CachesSound'
  BY <1>1, <1>2, InvParts, TableKept, CachesDropped DEF Inv
<1>4. {"clearLists"} \in SUBSET Labels /\ {"cacheError"} \in SUBSET Answers
  BY DEF Labels, Answers
<1>5. Reaches(r, {"clearLists"}, {"cacheError"}) => Local(r)'
  BY <1>1, InvParts DEF Reaches, Local, Placed, Carries, Inserted
<1>6. Own(r)
  BY <1>1, <1>2, <1>4, <1>5, MovedOwn
<1>7. QED BY <1>3, <1>6

-----------------------------------------------------------------------------
(* findByEmail and findAll. *)
LEMMA EmailGetOwn ==
    ASSUME Inv, NEW r \in Requests, EmailGet(r)
    PROVE  Own(r)
<1>1. /\ pc[r] = "emailGet" /\ req[r].op = "findByEmail" /\ req[r].email \in Emails
      /\ UNCHANGED <<req, loaded, rows, tries, written, claimed, mine, deleted, knew>>
  BY InvParts DEF EmailGet, Local, Placed, history
<1>2. Moves(r, {"emailDb"}, {"ok"})
  BY DEF EmailGet, Moves
<1>3. user' = user \/ \E v \in User : user' = [user EXCEPT ![r] = v]
  BY <1>1, InvParts DEF EmailGet, CachesSound, CachesHoldCommittedFields, HistoryTyped
<1>4. {"emailDb"} \in SUBSET Labels /\ {"ok"} \in SUBSET Answers
  BY DEF Labels, Answers
<1>5. pc'[r] = "done" \/ user'[r] = None
  BY <1>1, InvParts DEF EmailGet, Answer, LocalsTyped, Local, Carries
<1>6. Reaches(r, {"emailDb"}, {"ok"}) => Local(r)'
  BY <1>1, <1>5, InvParts DEF Reaches, Local, Placed, Carries, Inserted
<1>7. QED BY <1>1, <1>2, <1>3, <1>4, <1>6, MovedOwn

LEMMA EmailDbOwn ==
    ASSUME Inv, NEW r \in Requests, EmailDb(r)
    PROVE  Own(r)
<1> DEFINE as == {"ok", "dbError"}
<1>1. /\ pc[r] = "emailDb" /\ req[r].op = "findByEmail"
      /\ UNCHANGED <<req, loaded, rows, tries, written, claimed, mine, deleted, knew>>
  BY InvParts DEF EmailDb, Local, Placed, history
<1>2. \A u \in Rows : u \in User /\ u \in written
  BY InvParts DEF Rows, TableSound, RowsWritten
<1>3. Moves(r, {"emailFill"}, as)
  BY DEF EmailDb, Moves
<1>4. /\ user' = user \/ \E v \in User : user' = [user EXCEPT ![r] = v]
      /\ \/ pc'[r] = "done"
         \/ user'[r] \in Known /\ user'[r].email = req[r].email
  <2>1. CASE \E u \in WithEmail(req[r].email) : user' = [user EXCEPT ![r] = u]
    BY <1>2, <2>1, InvParts DEF WithEmail, LocalsTyped
  <2>2. CASE UNCHANGED user /\ \E a \in as : Answer(r, a)
    BY <2>2, InvParts DEF LocalsTyped, Answer
  <2>3. QED BY <2>1, <2>2 DEF EmailDb
<1>5. {"emailFill"} \in SUBSET Labels /\ as \in SUBSET Answers
  BY DEF Labels, Answers
<1>6. Reaches(r, {"emailFill"}, as) => Local(r)'
  BY <1>1, <1>4, InvParts, KnownKept DEF Reaches, Local, Placed, Carries, Inserted
<1> HIDE DEF as
<1>7. QED BY <1>1, <1>3, <1>4, <1>5, <1>6, MovedOwn

LEMMA EmailFillKeeps ==
    ASSUME Inv, NEW r \in Requests, EmailFill(r)
    PROVE  Own(r) /\ TableSound' /\ CachesSound'
<1> DEFINE as == {"ok", "cacheError"}
<1>1. /\ pc[r] = "emailFill" /\ req[r].op = "findByEmail"
      /\ user[r] \in Known /\ user[r].email = req[r].email
      /\ UNCHANGED <<db, byId, lists, req, loaded, user, rows, tries>>
      /\ UNCHANGED <<written, claimed, mine, deleted, knew>>
  BY InvParts DEF EmailFill, Local, Placed, Carries, history
<1>2. TableSound'
  BY <1>1, InvParts, TableKept
<1>3. /\ Moves(r, {}, as)
      /\ UNCHANGED byEmail \/ byEmail' = [byEmail EXCEPT ![user[r].email] = SetEx(user[r])]
  BY <1>1 DEF EmailFill, Moves
<1>4. CachesSound'
  <2>1. CASE UNCHANGED byEmail
    BY <1>1, <2>1, CachesKept DEF Inv, caches
  <2>2. CASE byEmail' = [byEmail EXCEPT ![user[r].email] = SetEx(user[r])]
    BY <1>1, <2>2, EmailCached DEF Inv
  <2>3. QED BY <1>3, <2>1, <2>2
<1>5. {} \in SUBSET Labels /\ as \in SUBSET Answers
  BY DEF Labels, Answers
<1>6. Reaches(r, {}, as) => Local(r)'
  BY <1>1, InvParts DEF Reaches, Local, Placed, Carries, Inserted
<1> HIDE DEF as
<1>7. Own(r)
  BY <1>1, <1>3, <1>5, <1>6, MovedOwn
<1>8. QED BY <1>2, <1>4, <1>7

LEMMA ListGetOwn ==
    ASSUME Inv, NEW r \in Requests, ListGet(r)
    PROVE  Own(r)
<1>1. /\ pc[r] = "listGet" /\ req[r].op = "findAll" /\ req[r].id \in Queries
      /\ UNCHANGED <<req, loaded, user, tries, written, claimed, mine, deleted, knew>>
  BY InvParts DEF ListGet, Local, Placed, history
<1>2. Moves(r, {"listDb"}, {"ok"}) /\ Counts(r)
  BY <1>1 DEF ListGet, Moves, Counts
<1>3. rows' = rows \/ \E S \in SUBSET written : rows' = [rows EXCEPT ![r] = S]
  BY <1>1, InvParts DEF ListGet, CachesSound, CachesHoldCommittedFields
<1>4. {"listDb"} \in SUBSET Labels /\ {"ok"} \in SUBSET Answers
  BY DEF Labels, Answers
<1>5. Reaches(r, {"listDb"}, {"ok"})
  BY <1>2, <1>4, InvParts, MovesTyped
<1>6. rows'[r] \subseteq written
  BY <1>3, InvParts DEF LocalsTyped, Local, Carries
<1>7. Local(r)'
  BY <1>1, <1>5, <1>6, InvParts DEF Reaches, Local, Placed, Carries, Inserted
<1>8. HistoryTyped' /\ written \subseteq User
  BY <1>1, InvParts DEF HistoryTyped
<1>9. QED BY <1>1, <1>2, <1>3, <1>4, <1>7, <1>8, OwnCombines

LEMMA ListDbOwn ==
    ASSUME Inv, NEW r \in Requests, ListDb(r)
    PROVE  Own(r)
<1>1. /\ pc[r] = "listDb" /\ req[r].op = "findAll"
      /\ UNCHANGED <<req, loaded, user, tries, written, claimed, mine, deleted, knew>>
  BY InvParts DEF ListDb, Local, Placed, history
<1>2. Moves(r, {"listFill"}, {"dbError"}) /\ Counts(r)
  BY <1>1 DEF ListDb, Moves, Counts
<1>3. Rows \subseteq written
  BY InvParts DEF Rows, TableSound, RowsWritten
<1>4. rows' = rows \/ \E S \in SUBSET written : rows' = [rows EXCEPT ![r] = S]
  BY <1>3 DEF ListDb
<1>5. {"listFill"} \in SUBSET Labels /\ {"dbError"} \in SUBSET Answers
  BY DEF Labels, Answers
<1>6. Reaches(r, {"listFill"}, {"dbError"})
  BY <1>2, <1>5, InvParts, MovesTyped
<1>7. rows'[r] \subseteq written
  BY <1>4, InvParts DEF LocalsTyped, Local, Carries
<1>8. Local(r)'
  BY <1>1, <1>6, <1>7, InvParts DEF Reaches, Local, Placed, Carries, Inserted
<1>9. HistoryTyped' /\ written \subseteq User
  BY <1>1, InvParts DEF HistoryTyped
<1>10. QED BY <1>1, <1>2, <1>4, <1>5, <1>8, <1>9, OwnCombines

LEMMA ListFillKeeps ==
    ASSUME Inv, NEW r \in Requests, ListFill(r)
    PROVE  Own(r) /\ TableSound' /\ CachesSound'
<1> DEFINE as == {"ok", "cacheError"}
<1>1. /\ pc[r] = "listFill" /\ req[r].op = "findAll" /\ req[r].id \in Queries
      /\ rows[r] \in SUBSET written
      /\ UNCHANGED <<db, byId, byEmail, req, loaded, user, rows, tries>>
      /\ UNCHANGED <<written, claimed, mine, deleted, knew>>
  BY InvParts DEF ListFill, Local, Placed, Carries, history
<1>2. TableSound'
  BY <1>1, InvParts, TableKept
<1>3. /\ Moves(r, {}, as)
      /\ UNCHANGED lists \/ lists' = [lists EXCEPT ![req[r].id] = SetEx(rows[r])]
  BY DEF ListFill, Moves
<1>4. CachesSound'
  <2>1. CASE UNCHANGED lists
    BY <1>1, <2>1, CachesKept DEF Inv, caches
  <2>2. CASE lists' = [lists EXCEPT ![req[r].id] = SetEx(rows[r])]
    BY <1>1, <2>2, ListCached DEF Inv
  <2>3. QED BY <1>3, <2>1, <2>2
<1>5. {} \in SUBSET Labels /\ as \in SUBSET Answers
  BY DEF Labels, Answers
<1>6. Reaches(r, {}, as) => Local(r)'
  BY <1>1, InvParts DEF Reaches, Local, Placed, Carries, Inserted
<1> HIDE DEF as
<1>7. Own(r)
  BY <1>1, <1>3, <1>5, <1>6, MovedOwn
<1>8. QED BY <1>2, <1>4, <1>7

-----------------------------------------------------------------------------
LEMMA InitInv == Init => Inv
<1> SUFFICES ASSUME Init
             PROVE  Inv
  OBVIOUS
<1>1. ASSUME NEW r \in Requests
      PROVE  /\ req[r].op \in DOMAIN FirstLabel /\ pc[r] = FirstLabel[req[r].op]
             /\ user[r] = None /\ rows[r] = {} /\ answer[r] = "none" /\ mine = {}
  BY <1>1, MenuAssumption DEF Init
<1>2. ASSUME NEW r \in Requests
      PROVE  pc[r] \in Labels /\ Local(r)
  <2>1. pc[r] \in {"checkNew", "cacheGet", "emailGet", "listGet", "checkRegistered"}
    BY <1>1 DEF FirstLabel
  <2>2. /\ pc[r] = "checkNew" => req[r].op = "create"
        /\ pc[r] = "cacheGet" => req[r].op \in {"findById", "update", "delete"}
        /\ pc[r] = "emailGet" => req[r].op = "findByEmail"
        /\ pc[r] = "listGet" => req[r].op = "findAll"
        /\ pc[r] = "checkRegistered" => req[r].op = "register"
    BY <1>1 DEF FirstLabel
  <2>3. QED BY <1>1, <2>1, <2>2 DEF Labels, Local, Placed, Carries, Inserted
<1>3. RowsWritten
  BY DEF Init, RowsWritten, Rows
<1>4. CachesHoldCommittedFields
  BY DEF Init, CachesHoldCommittedFields
<1>5. pc \in [Requests -> Labels]
  BY <1>2 DEF Init
<1>6. TypeOK
  BY <1>5, TableAssumption DEF Init, TypeOK, Answers
<1>7. QED BY <1>2, <1>3, <1>4, <1>6 DEF Inv

(* A step that leaves the table and the caches alone. *)
LEMMA ReadingCombines ==
    ASSUME Inv, NEW r \in Requests, Own(r), UNCHANGED <<db, caches, written, claimed>>
    PROVE  Inv'
<1>1. TableSound' /\ CachesSound'
  BY InvParts, TableKept, CachesKept DEF Inv
<1>2. QED BY <1>1, StepCombines

LEMMA StepInv ==
    ASSUME Inv, NEW r \in Requests, Step(r)
    PROVE  Inv'
<1>1. CASE CacheGet(r)
  BY <1>1, CacheGetOwn, ReadingCombines DEF CacheGet
<1>2. CASE DbFind(r)
  BY <1>2, DbFindOwn, ReadingCombines DEF DbFind, history
<1>3. CASE FillId(r)
  BY <1>3, FillIdKeeps, StepCombines
<1>4. CASE FillEmail(r)
  BY <1>4, FillEmailKeeps, StepCombines
<1>5. CASE CheckNew(r)
  BY <1>5, CheckNewOwn, ReadingCombines DEF CheckNew, history
<1>6. CASE Insert(r)
  BY <1>6, InsertKeeps, StepCombines
<1>7. CASE CheckRegistered(r)
  BY <1>7, CheckRegisteredOwn, ReadingCombines DEF CheckRegistered, history
<1>8. CASE Register(r)
  BY <1>8, RegisterKeeps, StepCombines
<1>9. CASE CheckEmail(r)
  BY <1>9, CheckEmailOwn, ReadingCombines DEF CheckEmail, history
<1>10. CASE Save(r)
  BY <1>10, SaveOwn, ReadingCombines DEF Save, history
<1>11. CASE StoreId(r)
  BY <1>11, StoreIdKeeps, StepCombines
<1>12. CASE StoreEmail(r)
  BY <1>12, StoreEmailKeeps, StepCombines
<1>13. CASE ClearLists(r)
  BY <1>13, ClearListsKeeps, StepCombines
<1>14. CASE Remove(r)
  BY <1>14, RemoveStepKeeps, StepCombines
<1>15. CASE DelId(r)
  BY <1>15, DelIdKeeps, StepCombines
<1>16. CASE DelEmail(r)
  BY <1>16, DelEmailKeeps, StepCombines
<1>17. CASE EmailGet(r)
  BY <1>17, EmailGetOwn, ReadingCombines DEF EmailGet, history
<1>18. CASE EmailDb(r)
  BY <1>18, EmailDbOwn, ReadingCombines DEF EmailDb, history
<1>19. CASE EmailFill(r)
  BY <1>19, EmailFillKeeps, StepCombines
<1>20. CASE ListGet(r)
  BY <1>20, ListGetOwn, ReadingCombines DEF ListGet, history
<1>21. CASE ListDb(r)
  BY <1>21, ListDbOwn, ReadingCombines DEF ListDb, history
<1>22. CASE ListFill(r)
  BY <1>22, ListFillKeeps, StepCombines
<1>23. CASE SaveRow(r)
  BY <1>23, SaveRowKeeps, StepCombines
<1>24. QED
  BY <1>1, <1>2, <1>3, <1>4, <1>5, <1>6, <1>7, <1>8, <1>9, <1>10, <1>11, <1>12,
     <1>13, <1>14, <1>15, <1>16, <1>17, <1>18, <1>19, <1>20, <1>21, <1>22, <1>23
     DEF Step, FindByIdStep, WriteStep, FindStep

(* Nothing but the caches changes when Redis drops an entry. *)
LEMMA DropInv ==
    ASSUME Inv, UNCHANGED <<db, locals, history>>, CachesSound'
    PROVE  Inv'
<1>1. TableSound' /\ LocalsTyped' /\ HistoryTyped'
  BY DEF Inv, TypeOK, TableSound, RowsWritten, LocalsTyped, HistoryTyped, locals, history
<1>2. ASSUME NEW q \in Requests
      PROVE  Local(q)' /\ req'[q] \in Menu[q]
  <2>1. Local(q) /\ req[q] \in Menu[q]
    BY DEF Inv, TypeOK
  <2>2. QED BY <2>1, KnownKept DEF Local, Placed, Carries, Inserted, locals, history
<1>3. TypeOK'
  BY <1>1, <1>2 DEF TypeOK, TableSound, CachesSound, CachesTyped, LocalsTyped, HistoryTyped
<1>4. QED BY <1>1, <1>2, <1>3 DEF Inv, TableSound, CachesSound

LEMMA ExpireInv == Inv /\ Expire => Inv'
<1> SUFFICES ASSUME Inv, Expire
             PROVE  Inv'
  OBVIOUS
<1>1. /\ UNCHANGED <<db, locals, history>>
      /\ UNCHANGED byId \/ \E i : byId' = [byId EXCEPT ![i] = None]
      /\ UNCHANGED byEmail \/ \E e : byEmail' = [byEmail EXCEPT ![e] = None]
      /\ \/ UNCHANGED lists \/ lists' = ClearedLists
         \/ \E q \in Queries : lists' = [lists EXCEPT ![q] = None]
  BY DEF Expire, ExpireId, ExpireEmail, ExpireList
<1>2. CachesSound'
  BY <1>1, CachesDropped DEF Inv, history
<1>3. QED BY <1>1, <1>2, DropInv

LEMMA Invariance == Spec => []Inv
<1>1. Inv /\ [Next]_vars => Inv'
  <2> SUFFICES ASSUME Inv, [Next]_vars
               PROVE  Inv'
    OBVIOUS
  <2>1. CASE \E r \in Requests : Step(r)
    BY <2>1, StepInv
  <2>2. CASE Expire
    BY <2>2, ExpireInv
  <2>3. CASE UNCHANGED vars
    <3>1. UNCHANGED <<db, caches, locals, history>>
      BY <2>3 DEF vars
    <3>2. CachesSound'
      BY <3>1, CachesKept DEF Inv, history
    <3>3. QED BY <3>1, <3>2, DropInv
  <2>4. QED BY <2>1, <2>2, <2>3 DEF Next
<1>2. QED BY InitInv, <1>1, PTL DEF Spec

(* Types, for UsersService: every variable holds what the code can put     *)
(* there, however requests, failures and expiries interleave.              *)
THEOREM TypeCorrect == Spec => []TypeOK
<1>1. Inv => TypeOK
  BY DEF Inv
<1>2. QED BY Invariance, <1>1, PTL

(* cacheUser and the list cache: no field of a cached user is one that was *)
(* neither committed under its id nor returned by an update whose row had  *)
(* gone, no user is under a key of another's, and lists hold rows.         *)
THEOREM CachesStayCommitted == Spec => []CachesHoldCommittedFields
<1>1. Inv => CachesHoldCommittedFields
  BY DEF Inv
<1>2. QED BY Invariance, <1>1, PTL

(* create and register succeed for their clients just when their own save  *)
(* has resolved, whatever Redis does after it.                             *)
THEOREM CreatesEndAsTheirSave == Spec => []CreateEndsAsItsSave
<1>1. Inv => CreateEndsAsItsSave
  BY DEF Inv, Local, Inserted, CreateEndsAsItsSave
<1>2. QED BY Invariance, <1>1, PTL
-----------------------------------------------------------------------------
(* The directory, which is what clients can tell of the service.  A step   *)
(* is one of its steps or is not seen at all; which, depends on whether    *)
(* the write of the request is behind it.                                  *)
AfterWrite == {"storeId", "storeEmail", "clearLists", "delId", "delEmail"}

Seen(r) == Contract!Write(r) \/ Contract!Refuse(r) \/ Contract!Read(r)
Maps(r) == UNCHANGED Contract!dvars \/ Seen(r)

LEMMA StepOwn ==
    ASSUME Inv, NEW r \in Requests, Step(r)
    PROVE  Own(r)
<1>1. CASE FindByIdStep(r)
  BY <1>1, CacheGetOwn, DbFindOwn, FillIdKeeps, FillEmailKeeps DEF FindByIdStep
<1>2. CASE WriteStep(r)
  BY <1>2, CheckNewOwn, InsertKeeps, CheckRegisteredOwn, RegisterKeeps, CheckEmailOwn,
     SaveOwn, SaveRowKeeps, StoreIdKeeps, StoreEmailKeeps, ClearListsKeeps, RemoveStepKeeps,
     DelIdKeeps, DelEmailKeeps DEF WriteStep
<1>3. CASE FindStep(r)
  BY <1>3, EmailGetOwn, EmailDbOwn, EmailFillKeeps, ListGetOwn, ListDbOwn, ListFillKeeps
     DEF FindStep
<1>4. QED BY <1>1, <1>2, <1>3 DEF Step

(* A step of r changes what is acknowledged to r, and told to r, and to no *)
(* other request. *)
LEMMA Visible ==
    ASSUME NEW r \in Requests, OthersKept(r)
    PROVE  /\ r \in AckedRequests <=> Acked(r)
           /\ r \in AckedRequests' <=> Acked(r)'
           /\ Acked(r)' => AckedRequests' = AckedRequests \cup {r}
           /\ (Acked(r)' <=> Acked(r)) => AckedRequests' = AckedRequests
           /\ Results' = [Results EXCEPT ![r] = Result(r)']
           /\ Result(r)' = Result(r) => Results' = Results
<1>1. ASSUME NEW q \in Requests, q # r
      PROVE  (Acked(q)' <=> Acked(q)) /\ Result(q)' = Result(q)
  <2>1. Acked(q)' <=> Acked(q)
    BY <1>1 DEF OthersKept, Acked
  <2>2. QED BY <1>1, <2>1 DEF OthersKept, Result
<1>2. /\ AckedRequests = {q \in Requests : Acked(q)}
      /\ AckedRequests' = {q \in Requests : Acked(q)'}
  BY DEF AckedRequests
<1>3. Results = [q \in Requests |-> Result(q)] /\ Results' = [q \in Requests |-> Result(q)']
  BY DEF Results
<1>4. QED BY <1>1, <1>2, <1>3

(* Nothing has been told to a request whose write is ahead of it. *)
LEMMA Untold ==
    ASSUME NEW r \in Requests, Local(r), pc[r] \notin AfterWrite, pc[r] # "done"
    PROVE  ~Acked(r) /\ Result(r) = None /\ answer[r] = "none" /\ r \notin mine
<1>1. answer[r] = "none" /\ r \notin mine
  BY DEF Local, Placed, Inserted, AfterWrite
<1>2. ~Acked(r)
  BY <1>1 DEF Acked, AfterWrite
<1>3. QED BY <1>1, <1>2 DEF Result

LEMMA Unseen ==
    ASSUME NEW r \in Requests, OthersKept(r), UNCHANGED <<db, written, claimed, answer>>,
           Acked(r)' <=> Acked(r), Result(r)' = Result(r)
    PROVE  Maps(r)
<1>1. UNCHANGED <<req, AckedRequests, Results>>
  BY Visible DEF OthersKept
<1>2. QED BY <1>1 DEF Maps, Contract!dvars

(* What happens before the write: reads, checks and attempts. *)
LEMMA Preparing ==
    ASSUME Inv, NEW r \in Requests, Own(r), pc[r] \notin AfterWrite, pc[r] # "done",
           pc'[r] \notin AfterWrite, UNCHANGED <<db, written, claimed, mine, answer>>
    PROVE  Maps(r)
<1>1. ~Acked(r) /\ Result(r) = None /\ answer[r] = "none" /\ r \notin mine
  BY Untold, InvParts
<1>2. ~Acked(r)'
  BY <1>1 DEF Acked, AfterWrite
<1>3. Result(r)' = None
  BY <1>1, <1>2 DEF Result
<1>4. QED BY <1>1, <1>2, <1>3, Unseen DEF Own

-----------------------------------------------------------------------------
(* How requests that write end. *)
Writing == {"create", "register", "update", "delete"}

EndsWell(r, a) ==
    /\ a \in {"ok", "notFound", "conflict", "dbError", "cacheError"}
    /\ a = "cacheError" => req[r].op \in {"update", "delete"}
    /\ a = "notFound" => req[r].op \in {"update", "delete"} /\ db[req[r].id] = None
    /\ a = "conflict" => req[r].op # "delete" /\ WithEmail(req[r].email) # {}

LEMMA Ends ==
    ASSUME NEW r \in Requests, OthersKept(r), NEW a, Answer(r, a), EndsWell(r, a),
           a \in {"ok", "cacheError"} <=> Acked(r)'
    PROVE  Contract!EndWriting(r)
<1>1. r \in AckedRequests' <=> Acked(r)'
  BY Visible
<1>2. answer' = [answer EXCEPT ![r] = a]
  BY DEF Answer
<1>3. WithEmail(req[r].email) # {} => Contract!Taken(req[r].email)
  BY DEF WithEmail, Rows, Contract!Taken, Contract!Rows
<1>4. QED BY <1>1, <1>2, <1>3 DEF EndsWell, Contract!EndWriting

LEMMA Refuses ==
    ASSUME NEW r \in Requests, OthersKept(r), NEW a, Answer(r, a), EndsWell(r, a),
           req[r].op \in Writing, UNCHANGED <<db, written, claimed>>,
           a \in {"ok", "cacheError"} <=> Acked(r)',
           Acked(r)' <=> Acked(r), Result(r)' = Result(r)
    PROVE  Maps(r)
<1>1. Contract!EndWriting(r)
  BY Ends
<1>2. UNCHANGED <<AckedRequests, Results>>
  BY Visible
<1>3. Contract!Refuse(r)
  BY <1>1, <1>2 DEF Contract!Refuse, Contract!Writing, Writing
<1>4. QED BY <1>3 DEF Maps, Seen

(* Without a write, or with one that failed. *)
LEMMA FailsBefore ==
    ASSUME Inv, NEW r \in Requests, Own(r), pc[r] \notin AfterWrite, pc[r] # "done",
           req[r].op \in Writing, UNCHANGED <<db, written, claimed, mine>>,
           NEW a \in {"notFound", "conflict", "dbError"}, Answer(r, a), EndsWell(r, a)
    PROVE  Maps(r)
<1>1. ~Acked(r) /\ Result(r) = None /\ r \notin mine
  BY Untold, InvParts
<1>2. pc'[r] = "done" /\ answer'[r] = a
  BY InvParts DEF Answer, LocalsTyped
<1>3. ~Acked(r)'
  BY <1>1, <1>2 DEF Acked
<1>4. Result(r)' = None
  BY <1>2, <1>3 DEF Result
<1>5. QED BY <1>1, <1>3, <1>4, Refuses DEF Own

(* What happens after the write, to the caches only, and how it ends. *)
LEMMA Trailing ==
    ASSUME Inv, NEW r \in Requests, Own(r), pc[r] \in AfterWrite,
           UNCHANGED <<db, written, claimed, user, mine>>,
           \/ \E l \in AfterWrite : Goto(r, l)
           \/ \E a \in {"ok", "cacheError"} :
                 Answer(r, a) /\ (a = "cacheError" => req[r].op # "create")
    PROVE  Maps(r)
<1>1. /\ req[r].op \in {"create", "update", "delete"} /\ req' = req
      /\ req[r].op = "create" => r \in mine
  BY InvParts DEF Local, Placed, Inserted, AfterWrite, Own, OthersKept
<1>2. Acked(r)
  BY <1>1 DEF Acked, AfterWrite
<1>3. CASE \E l \in AfterWrite : Goto(r, l)
  <2>1. pc'[r] \in AfterWrite /\ UNCHANGED answer
    BY <1>3, InvParts DEF Goto, LocalsTyped
  <2>2. Acked(r)'
    BY <1>1, <2>1 DEF Acked, AfterWrite
  <2>3. Result(r)' = Result(r)
    BY <1>1, <1>2, <2>2 DEF Result
  <2>4. QED BY <1>2, <2>1, <2>2, <2>3, Unseen DEF Own
<1>4. ASSUME NEW a \in {"ok", "cacheError"}, Answer(r, a),
             a = "cacheError" => req[r].op # "create"
      PROVE  Maps(r)
  <2>1. answer'[r] = a
    BY <1>4, InvParts DEF Answer, LocalsTyped
  <2>2. Acked(r)'
    BY <1>1, <1>4, <2>1 DEF Acked
  <2>3. Result(r)' = Result(r)
    BY <1>1, <1>2, <2>2 DEF Result
  <2>4. EndsWell(r, a) /\ req[r].op \in Writing
    BY <1>1, <1>4 DEF EndsWell, Writing
  <2>5. QED BY <1>2, <1>4, <2>2, <2>3, <2>4, Refuses DEF Own
<1>5. QED BY <1>3, <1>4

-----------------------------------------------------------------------------
(* The writes: what they put or drop, and whether their request learns it. *)
LEMMA PastKnown ==
    ASSUME Inv
    PROVE  /\ written \cup claimed \subseteq Known
           /\ Contract!Known(written \cup claimed) = Known
           /\ Contract!Known((written \cup claimed)') = Known'
BY CommittedKnown DEF Inv, TypeOK, Known, User, Contract!Known, Contract!User

LEMMA Puts ==
    ASSUME NEW u, ~Violates(u), Write(u), UNCHANGED claimed
    PROVE  Contract!Put(u)
BY DEF Violates, Write, Rows, Contract!Put, Contract!Rows

(* A request may learn of its write. *)
Learns(r, x) ==
    \/ Acked(r)' /\ Result(r)' = x
    \/ ~Acked(r)' /\ Result(r)' = None

LEMMA AcksMap ==
    ASSUME NEW r \in Requests, OthersKept(r), ~Acked(r), Result(r) = None, NEW x, Learns(r, x)
    PROVE  Contract!Ack(r, x)
BY Visible DEF Learns, Contract!Ack

(* After its write a request goes on, or is answered as it learnt. *)
LEMMA Writes ==
    ASSUME NEW r \in Requests, OthersKept(r), ~Acked(r),
           Contract!Add(r) \/ Contract!Change(r) \/ Contract!Drop(r),
           \/ UNCHANGED answer
           \/ Answer(r, "ok") /\ Acked(r)'
           \/ Answer(r, "dbError") /\ ~Acked(r)'
    PROVE  Maps(r)
<1>1. r \notin AckedRequests
  BY Visible
<1>2. EndsWell(r, "ok") /\ EndsWell(r, "dbError")
  BY DEF EndsWell
<1>3. UNCHANGED answer \/ Contract!EndWriting(r)
  BY <1>2, Ends
<1>4. Contract!Write(r)
  BY <1>1, <1>3 DEF Contract!Write
<1>5. QED BY <1>4 DEF Maps, Seen

(* create and register. *)
LEMMA InsertMaps ==
    ASSUME Inv, NEW r \in Requests, Insert(r)
    PROVE  Maps(r)
<1> DEFINE u == NewUser(r)
<1>1. /\ Own(r) /\ OthersKept(r) /\ pc[r] = "insert" /\ req[r].op = "create"
      /\ req' = req /\ IdsLeft /\ u \in User /\ UNCHANGED claimed
  BY InsertKeeps, InvParts, NewUserTyped DEF Insert, Own, OthersKept, Local, Placed
<1>2. ~Acked(r) /\ Result(r) = None /\ r \notin mine /\ answer[r] = "none"
  BY <1>1, Untold, InvParts DEF AfterWrite
<1>3. ASSUME Violates(u), Answer(r, "conflict"), UNCHANGED <<db, written, claimed, mine>>
      PROVE  Maps(r)
  <2>1. WithEmail(req[r].email) # {}
    BY <1>3 DEF Violates, NewUser, WithEmail
  <2>2. EndsWell(r, "conflict") /\ req[r].op \in Writing
    BY <1>1, <2>1 DEF EndsWell, Writing
  <2>3. QED BY <1>1, <1>3, <2>2, FailsBefore DEF AfterWrite
<1>4. ASSUME UNCHANGED <<db, written, claimed, mine>>, Retry(r, 3) \/ GiveUp(r)
      PROVE  Maps(r)
  <2>1. EndsWell(r, "dbError") /\ req[r].op \in Writing
    BY <1>1 DEF EndsWell, Writing
  <2>2. CASE Answer(r, "dbError")
    BY <1>1, <1>4, <2>1, <2>2, FailsBefore DEF AfterWrite
  <2>3. CASE UNCHANGED <<pc, answer>>
    BY <1>1, <1>4, <2>3, Preparing DEF AfterWrite
  <2>4. QED BY <1>4, <2>2, <2>3 DEF Retry, GiveUp
<1>5. ASSUME ~Violates(u), Write(u), NEW x, x = u, Learns(r, x)
      PROVE  Contract!Add(r)
  <2>1. Contract!Put(u) /\ Contract!Ack(r, u)
    BY <1>1, <1>2, <1>5, Puts, AcksMap
  <2>2. FreshId \in Ids /\ \A w \in written \cup claimed : w.id # FreshId
    BY <1>1, PastKnown DEF IdsLeft, FreshId, Unused
  <2>3. u = [id |-> FreshId, email |-> req[r].email, name |-> req[r].name]
    BY DEF NewUser
  <2>4. QED BY <1>1, <2>1, <2>2, <2>3 DEF Contract!Add
<1>6. ASSUME ~Violates(u), Write(u), user' = [user EXCEPT ![r] = u],
             mine' = mine \cup {r}, Proceed(r, "storeId")
      PROVE  Maps(r)
  <2>1. Acked(r)' /\ Result(r)' = u
    BY <1>1, <1>6, InvParts DEF Acked, Result, LocalsTyped
  <2>2. Contract!Add(r)
    BY <1>5, <1>6, <2>1 DEF Learns
  <2>3. QED BY <1>1, <1>2, <1>6, <2>2, Writes DEF Proceed, Goto
<1>7. ASSUME ~Violates(u), Write(u), Retry(r, 3) \/ GiveUp(r), UNCHANGED mine
      PROVE  Maps(r)
  <2>1. Answer(r, "dbError") \/ UNCHANGED <<pc, answer>>
    BY <1>7 DEF Retry, GiveUp
  <2>2. ~Acked(r)' /\ answer'[r] # "ok"
    BY <1>1, <1>2, <1>7, <2>1, InvParts DEF Acked, Answer, LocalsTyped
  <2>3. Result(r)' = None
    BY <2>2 DEF Result
  <2>4. Contract!Add(r)
    BY <1>5, <1>7, <2>2, <2>3 DEF Learns
  <2>5. QED BY <1>1, <1>2, <2>1, <2>2, <2>4, Writes
<1>8. QED BY <1>3, <1>4, <1>6, <1>7 DEF Insert

LEMMA RegisterMaps ==
    ASSUME Inv, NEW r \in Requests, Register(r)
    PROVE  Maps(r)
<1> DEFINE u == NewUser(r)
<1>1. /\ Own(r) /\ OthersKept(r) /\ pc[r] = "register" /\ req[r].op = "register"
      /\ req' = req /\ IdsLeft /\ UNCHANGED claimed
  BY RegisterKeeps, InvParts DEF Register, Own, OthersKept, Local, Placed
<1>2. ~Acked(r) /\ Result(r) = None /\ r \notin mine /\ answer[r] = "none"
  BY <1>1, Untold, InvParts DEF AfterWrite
<1>3. CASE Answer(r, "dbError") /\ UNCHANGED <<db, written, claimed, mine>>
  <2>1. EndsWell(r, "dbError") /\ req[r].op \in Writing
    BY <1>1 DEF EndsWell, Writing
  <2>2. QED BY <1>1, <1>3, <2>1, FailsBefore DEF AfterWrite
<1>4. CASE /\ ~Violates(u) /\ Write(u)
           /\ \/ /\ user' = [user EXCEPT ![r] = u]
                 /\ mine' = mine \cup {r} /\ Answer(r, "ok")
              \/ Answer(r, "dbError") /\ UNCHANGED mine
  <2>1. \/ Answer(r, "ok") /\ Acked(r)' /\ Result(r)' = u
        \/ Answer(r, "dbError") /\ ~Acked(r)' /\ Result(r)' = None
    <3>1. CASE user' = [user EXCEPT ![r] = u] /\ mine' = mine \cup {r} /\ Answer(r, "ok")
      BY <1>1, <3>1, InvParts DEF Acked, Result, LocalsTyped
    <3>2. CASE Answer(r, "dbError") /\ UNCHANGED mine
      <4>1. ~Acked(r)' /\ answer'[r] = "dbError"
        BY <1>1, <1>2, <3>2, InvParts DEF Acked, Answer, LocalsTyped
      <4>2. QED BY <3>2, <4>1 DEF Result
    <3>3. QED BY <1>4, <3>1, <3>2
  <2>2. Contract!Put(u) /\ Contract!Ack(r, u)
    BY <1>1, <1>2, <1>4, <2>1, Puts, AcksMap DEF Learns
  <2>3. FreshId \in Ids /\ \A w \in written \cup claimed : w.id # FreshId
    BY <1>1, PastKnown DEF IdsLeft, FreshId, Unused
  <2>4. u = [id |-> FreshId, email |-> req[r].email, name |-> req[r].name]
    BY DEF NewUser
  <2>5. Contract!Add(r)
    BY <1>1, <2>2, <2>3, <2>4 DEF Contract!Add
  <2>6. QED BY <1>1, <1>2, <2>1, <2>5, Writes
<1>5. QED BY <1>3, <1>4 DEF Register

(* update and delete. *)
LEMMA Merged ==
    ASSUME Inv, NEW r \in Requests, pc[r] \in {"save", "saveRow"},
           \/ Contract!Revise(r, user[r]) \/ Contract!Agree(r, user[r])
           \/ Contract!Restore(r, user[r]) \/ Contract!Overlook(r, user[r])
    PROVE  Contract!Change(r)
<1>1. PICK w \in Known : w.id = req[r].id /\ user[r] = Assign(w, req[r])
  BY InvParts DEF Local, Carries
<1>2. user[r] = Contract!Merge(w, req[r])
  BY <1>1 DEF Assign, Contract!Merge
<1>3. req[r].op = "update" /\ w \in Contract!Known(written \cup claimed)
  BY <1>1, Saving, PastKnown
<1>4. QED BY <1>1, <1>2, <1>3 DEF Contract!Change

(* A save that goes on to cache its object has been acknowledged. *)
LEMMA SaveLearns ==
    ASSUME Inv, NEW r \in Requests, OthersKept(r), UNCHANGED <<req, user, mine>>,
           req[r].op = "update", pc[r] \in {"save", "saveRow"},
           Goto(r, "storeId") \/ Answer(r, "dbError")
    PROVE  /\ ~Acked(r) /\ Learns(r, user[r]) /\ Contract!Ack(r, user[r])
           /\ Goto(r, "storeId") => UNCHANGED answer /\ Acked(r)'
           /\ Answer(r, "dbError") => ~Acked(r)'
<1>1. ~Acked(r) /\ Result(r) = None /\ r \notin mine
  BY Untold, InvParts DEF AfterWrite
<1>2. CASE Goto(r, "storeId")
  <2>1. pc'[r] = "storeId" /\ UNCHANGED answer /\ pc' # pc
    BY <1>2, InvParts DEF Goto, LocalsTyped
  <2>2. Acked(r)' /\ Result(r)' = user[r]
    BY <2>1 DEF Acked, Result
  <2>3. ~Answer(r, "dbError")
    BY <2>1, InvParts DEF Answer, LocalsTyped
  <2>4. QED BY <1>1, <2>1, <2>2, <2>3, AcksMap DEF Learns
<1>3. CASE Answer(r, "dbError")
  <2>1. pc'[r] = "done" /\ answer'[r] = "dbError"
    BY <1>3, InvParts DEF Answer, LocalsTyped
  <2>2. ~Acked(r)'
    BY <1>1, <2>1 DEF Acked
  <2>3. Result(r)' = None
    BY <2>1, <2>2 DEF Result
  <2>4. ~Goto(r, "storeId")
    BY <2>1, InvParts DEF Goto, LocalsTyped
  <2>5. QED BY <1>1, <2>2, <2>3, <2>4, AcksMap DEF Learns
<1>4. QED BY <1>2, <1>3

LEMMA SaveMaps ==
    ASSUME Inv, NEW r \in Requests, Save(r)
    PROVE  Maps(r)
<1> DEFINE u == user[r]
<1>1. /\ Own(r) /\ OthersKept(r) /\ pc[r] = "save" /\ req[r].op = "update"
      /\ UNCHANGED <<req, user, db, written, claimed, mine>>
  BY SaveOwn, Saving DEF Save, Own, history
<1>2. CASE db[u.id] = u /\ Goto(r, "storeId")
  <2>1. /\ ~Acked(r) /\ Contract!Ack(r, u) /\ UNCHANGED answer
    BY <1>1, <1>2, SaveLearns
  <2>2. Contract!Agree(r, u)
    BY <1>1, <1>2, <2>1 DEF Contract!Agree
  <2>3. Contract!Change(r)
    BY <1>1, <2>2, Merged
  <2>4. QED BY <1>1, <2>1, <2>3, Writes
<1>3. CASE Goto(r, "saveRow")
  <2>1. UNCHANGED answer /\ pc'[r] = "saveRow"
    BY <1>3, InvParts DEF Goto, LocalsTyped
  <2>2. QED BY <1>1, <2>1, Preparing DEF AfterWrite
<1>4. CASE Answer(r, "dbError")
  <2>1. EndsWell(r, "dbError") /\ req[r].op \in Writing
    BY <1>1 DEF EndsWell, Writing
  <2>2. QED BY <1>1, <1>4, <2>1, FailsBefore DEF AfterWrite
<1>5. QED BY <1>2, <1>3, <1>4 DEF Save

LEMMA SaveRowMaps ==
    ASSUME Inv, NEW r \in Requests, SaveRow(r)
    PROVE  Maps(r)
<1> DEFINE u == user[r]
           row == db[u.id]
           x == Saved(r)
<1>1. /\ Own(r) /\ OthersKept(r) /\ pc[r] = "saveRow" /\ req[r].op = "update"
      /\ UNCHANGED <<req, user, mine>> /\ u \in User /\ u.id \in Ids
  BY SaveRowKeeps, Saving DEF SaveRow, Own
<1>2. CASE UNCHANGED <<db, written, claimed>> /\ Answer(r, "dbError")
  <2>1. EndsWell(r, "dbError") /\ req[r].op \in Writing
    BY <1>1 DEF EndsWell, Writing
  <2>2. QED BY <1>1, <1>2, <2>1, FailsBefore DEF AfterWrite
<1>3. ASSUME Goto(r, "storeId") \/ Answer(r, "dbError"),
             \/ Contract!Ack(r, u) => Contract!Revise(r, u)
             \/ Contract!Ack(r, u) => Contract!Restore(r, u)
             \/ Contract!Ack(r, u) => Contract!Overlook(r, u)
      PROVE  Maps(r)
  <2>1. /\ ~Acked(r) /\ Contract!Ack(r, u)
        /\ Goto(r, "storeId") => UNCHANGED answer
        /\ Answer(r, "dbError") => ~Acked(r)'
    BY <1>1, <1>3, SaveLearns
  <2>2. Contract!Change(r)
    BY <1>1, <1>3, <2>1, Merged
  <2>3. QED BY <1>1, <1>3, <2>1, <2>2, Writes
<1>4. ASSUME ~Missed(r), ~Duplicate(r), ~Violates(x), Write(x), UNCHANGED claimed,
             Goto(r, "storeId") \/ Answer(r, "dbError")
      PROVE  Maps(r)
  <2>1. Contract!Put(x)
    BY <1>4, Puts
  <2>2. CASE loaded[r] = None
    <3>1. x = u /\ row = None
      BY <1>4, <2>2 DEF Saved, Duplicate
    <3>2. Contract!Ack(r, u) => Contract!Restore(r, u)
      BY <2>1, <3>1 DEF Contract!Restore
    <3>3. QED BY <1>3, <1>4, <3>2
  <2>3. CASE loaded[r] # None
    <3>1. row # None /\ row \in User /\ row.id = u.id
      BY <1>1, <1>4, <2>3, InvParts DEF TableSound, RowsWritten, Missed
    <3>2. x = Updated(row, loaded[r], u)
      BY <2>3 DEF Saved
    <3>3. /\ x \in User /\ x.id = u.id
          /\ x.email \in {row.email, u.email} /\ x.name \in {row.name, u.name}
      BY <1>1, <3>1, <3>2 DEF Updated, User
    <3>4. u \in Contract!Known((written \cup claimed)')
      BY <1>1, <1>4, UpdateKnown, PastKnown
    <3> HIDE DEF x
    <3>5. x \in Contract!User
      BY <3>3 DEF User, Contract!User
    <3>6. Contract!Ack(r, u) => Contract!Revise(r, u)
      BY <2>1, <3>1, <3>3, <3>4, <3>5 DEF Contract!Revise
    <3>7. QED BY <1>3, <1>4, <3>6
  <2>4. QED BY <2>2, <2>3
<1>5. ASSUME Missed(r), Goto(r, "storeId"), claimed' = claimed \cup {u},
             UNCHANGED <<db, written>>
      PROVE  Maps(r)
  <2>1. r \in AckedRequests'
    BY <1>1, <1>5, SaveLearns, Visible
  <2>2. Contract!Ack(r, u) => Contract!Overlook(r, u)
    BY <1>5, <2>1 DEF Missed, Contract!Overlook
  <2>3. QED BY <1>3, <1>5, <2>2
<1>6. QED BY <1>2, <1>4, <1>5 DEF SaveRow

LEMMA RemoveMaps ==
    ASSUME Inv, NEW r \in Requests, Remove(r)
    PROVE  Maps(r)
<1>1. /\ Own(r) /\ OthersKept(r) /\ pc[r] = "remove" /\ req[r].op = "delete"
      /\ UNCHANGED <<req, loaded, user, mine, written, claimed>> /\ user[r].id = req[r].id
  BY RemoveStepKeeps, InvParts DEF Remove, Own, OthersKept, Local, Placed, Carries, history
<1>2. ~Acked(r) /\ Result(r) = None /\ r \notin mine /\ answer[r] = "none"
  BY <1>1, Untold, InvParts DEF AfterWrite
<1>3. CASE Answer(r, "dbError") /\ UNCHANGED db
  <2>1. EndsWell(r, "dbError") /\ req[r].op \in Writing
    BY <1>1 DEF EndsWell, Writing
  <2>2. QED BY <1>1, <1>3, <2>1, FailsBefore DEF AfterWrite
<1>4. CASE /\ db' = [db EXCEPT ![user[r].id] = None]
           /\ Goto(r, "delId") \/ Answer(r, "dbError")
  <2>1. \/ UNCHANGED answer /\ Acked(r)' /\ Result(r)' = None
        \/ Answer(r, "dbError") /\ ~Acked(r)' /\ Result(r)' = None
    <3>1. CASE Goto(r, "delId")
      <4>1. pc'[r] = "delId" /\ UNCHANGED answer
        BY <3>1, InvParts DEF Goto, LocalsTyped
      <4>2. QED BY <1>1, <4>1 DEF Acked, Result
    <3>2. CASE Answer(r, "dbError")
      <4>1. ~Acked(r)' /\ answer'[r] = "dbError"
        BY <1>1, <1>2, <3>2, InvParts DEF Acked, Answer, LocalsTyped
      <4>2. QED BY <3>2, <4>1 DEF Result
    <3>3. QED BY <1>4, <3>1, <3>2
  <2>2. Contract!Ack(r, None)
    BY <1>1, <1>2, <2>1, AcksMap DEF Learns
  <2>3. Contract!Drop(r)
    BY <1>1, <1>4, <2>2 DEF Contract!Drop
  <2>4. QED BY <1>1, <1>2, <2>1, <2>3, Writes
<1>5. QED BY <1>3, <1>4 DEF Remove

-----------------------------------------------------------------------------
(* findById, and the same inside update and delete. *)
LEMMA FoundMaps ==
    ASSUME Inv, NEW r \in Requests, Own(r), pc[r] \notin AfterWrite, pc[r] # "done",
           NEW u \in Known, u.id = req[r].id, Found(r, u),
           req[r].op \in {"findById", "update", "delete"}, UNCHANGED <<db, written, claimed, mine>>
    PROVE  Maps(r)
<1>1. ~Acked(r) /\ Result(r) = None /\ r \notin mine /\ answer[r] = "none" /\ req' = req
  BY Untold, InvParts DEF Own, OthersKept
<1>2. CASE req[r].op = "findById"
  <2>1. Answer(r, "ok") /\ user' = [user EXCEPT ![r] = u]
    BY <1>2 DEF Found
  <2>2. ~Acked(r)'
    BY <1>1, <1>2 DEF Acked
  <2>3. Result(r)' = u
    BY <1>1, <1>2, <2>1, <2>2, InvParts DEF Result, Answer, LocalsTyped
  <2>4. AckedRequests' = AckedRequests /\ Results' = [Results EXCEPT ![r] = u]
    BY <1>1, <2>2, <2>3, Visible DEF Own
  <2>5. Contract!Tell(r, u)
    BY <2>1, <2>4 DEF Answer, Contract!Tell
  <2>6. Contract!Read(r)
    BY <1>2, <2>4, <2>5, PastKnown DEF Contract!Read, Contract!Find
  <2>7. QED BY <2>6 DEF Maps, Seen
<1>3. CASE req[r].op \in {"update", "delete"}
  <2>1. \E l \in {"remove", "checkEmail", "save"} : Goto(r, l)
    BY <1>3 DEF Found
  <2>2. UNCHANGED answer /\ pc'[r] \notin AfterWrite
    BY <2>1, InvParts DEF Goto, LocalsTyped, AfterWrite
  <2>3. QED BY <2>2, Preparing
<1>4. QED BY <1>2, <1>3

(* A request that reads and gets no rows, or an error. *)
LEMMA Misses ==
    ASSUME Inv, NEW r \in Requests, Own(r), pc[r] \notin AfterWrite, pc[r] # "done",
           UNCHANGED <<db, written, claimed, mine>>,
           req[r].op \in {"findById", "findByEmail", "findAll"},
           NEW a, Answer(r, a),
           \/ a = "dbError"
           \/ a = "notFound" /\ req[r].op = "findById" /\ db[req[r].id] = None
           \/ a = "cacheError" /\ req[r].op \in {"findByEmail", "findAll"}
    PROVE  Maps(r)
<1>1. ~Acked(r) /\ Result(r) = None /\ r \notin mine /\ req' = req
  BY Untold, InvParts DEF Own, OthersKept
<1>2. answer'[r] = a /\ answer' = [answer EXCEPT ![r] = a]
  BY InvParts DEF Answer, LocalsTyped
<1>3. ~Acked(r)'
  BY <1>1 DEF Acked
<1>4. Result(r)' = None
  BY <1>2, <1>3 DEF Result
<1>5. UNCHANGED <<AckedRequests, Results>>
  BY <1>1, <1>3, <1>4, Visible DEF Own
<1>6. Contract!Miss(r)
  BY <1>2, <1>5 DEF Contract!Miss, Contract!Writing
<1>7. Contract!Read(r)
  BY <1>5, <1>6 DEF Contract!Read
<1>8. QED BY <1>7 DEF Maps, Seen

LEMMA CacheGetMaps ==
    ASSUME Inv, NEW r \in Requests, CacheGet(r)
    PROVE  Maps(r)
<1>1. /\ Own(r) /\ pc[r] = "cacheGet" /\ UNCHANGED <<db, written, claimed, mine>>
      /\ req[r].op \in {"findById", "update", "delete"} /\ req[r].id \in Ids
  BY CacheGetOwn, InvParts DEF CacheGet, Local, Placed
<1>2. CASE byId[req[r].id] # None /\ Found(r, byId[req[r].id].value)
  <2>1. byId[req[r].id].value \in Known /\ byId[req[r].id].value.id = req[r].id
    BY <1>1, <1>2, InvParts DEF CachesSound, CachesHoldCommittedFields
  <2>2. QED BY <1>1, <1>2, <2>1, FoundMaps DEF AfterWrite
<1>3. CASE Goto(r, "dbFind")
  <2>1. UNCHANGED answer /\ pc'[r] = "dbFind"
    BY <1>3, InvParts DEF Goto, LocalsTyped
  <2>2. QED BY <1>1, <2>1, Preparing DEF AfterWrite
<1>4. QED BY <1>2, <1>3 DEF CacheGet

LEMMA DbFindMaps ==
    ASSUME Inv, NEW r \in Requests, DbFind(r)
    PROVE  Maps(r)
<1>1. /\ Own(r) /\ pc[r] = "dbFind" /\ UNCHANGED <<db, written, claimed, mine>>
      /\ req[r].op \in {"findById", "update", "delete"}
  BY DbFindOwn, InvParts DEF DbFind, Local, Placed, history
<1>2. CASE Proceed(r, "fillId") \/ UNCHANGED <<pc, answer>>
  <2>1. UNCHANGED answer /\ pc'[r] \in {"fillId", "dbFind"}
    BY <1>1, <1>2, InvParts DEF Proceed, Goto, LocalsTyped
  <2>2. QED BY <1>1, <2>1, Preparing DEF AfterWrite
<1>3. ASSUME NEW a \in {"notFound", "dbError"}, Answer(r, a),
             a = "notFound" => db[req[r].id] = None
      PROVE  Maps(r)
  <2>1. CASE req[r].op = "findById"
    BY <1>1, <1>3, <2>1, Misses DEF AfterWrite
  <2>2. CASE req[r].op \in {"update", "delete"}
    <3>1. EndsWell(r, a) /\ req[r].op \in Writing
      BY <1>3, <2>2 DEF EndsWell, Writing
    <3>2. QED BY <1>1, <1>3, <3>1, FailsBefore DEF AfterWrite
  <2>3. QED BY <1>1, <2>1, <2>2
<1>4. QED BY <1>2, <1>3 DEF DbFind, Retry, GiveUp

LEMMA FillIdMaps ==
    ASSUME Inv, NEW r \in Requests, FillId(r)
    PROVE  Maps(r)
<1>1. /\ Own(r) /\ pc[r] = "fillId" /\ UNCHANGED <<db, written, claimed, mine>>
      /\ req[r].op \in {"findById", "update", "delete"}
      /\ user[r] \in Known /\ user[r].id = req[r].id
  BY FillIdKeeps, InvParts DEF FillId, Local, Placed, Carries, history
<1>2. CASE Goto(r, "fillEmail")
  <2>1. UNCHANGED answer /\ pc'[r] = "fillEmail"
    BY <1>2, InvParts DEF Goto, LocalsTyped
  <2>2. QED BY <1>1, <2>1, Preparing DEF AfterWrite
<1>3. CASE Found(r, user[r])
  BY <1>1, <1>3, FoundMaps DEF AfterWrite
<1>4. QED BY <1>2, <1>3 DEF FillId

LEMMA FillEmailMaps ==
    ASSUME Inv, NEW r \in Requests, FillEmail(r)
    PROVE  Maps(r)
<1>1. /\ Own(r) /\ pc[r] = "fillEmail" /\ UNCHANGED <<db, written, claimed, mine>>
      /\ req[r].op \in {"findById", "update", "delete"} /\ Found(r, user[r])
      /\ user[r] \in Known /\ user[r].id = req[r].id
  BY FillEmailKeeps, InvParts DEF FillEmail, Local, Placed, Carries, history
<1>2. QED BY <1>1, FoundMaps DEF AfterWrite

(* The checks for an email. *)
LEMMA CheckNewMaps ==
    ASSUME Inv, NEW r \in Requests, CheckNew(r)
    PROVE  Maps(r)
<1>1. /\ Own(r) /\ pc[r] = "checkNew" /\ UNCHANGED <<db, written, claimed, mine>>
      /\ req[r].op = "create"
  BY CheckNewOwn, InvParts DEF CheckNew, Local, Placed, history
<1>2. CASE Proceed(r, "insert") \/ UNCHANGED <<pc, answer>>
  <2>1. UNCHANGED answer /\ pc'[r] \in {"insert", "checkNew"}
    BY <1>1, <1>2, InvParts DEF Proceed, Goto, LocalsTyped
  <2>2. QED BY <1>1, <2>1, Preparing DEF AfterWrite
<1>3. ASSUME NEW a \in {"conflict", "dbError"}, Answer(r, a),
             a = "conflict" => WithEmail(req[r].email) # {}
      PROVE  Maps(r)
  <2>1. EndsWell(r, a) /\ req[r].op \in Writing
    BY <1>1, <1>3 DEF EndsWell, Writing
  <2>2. QED BY <1>1, <1>3, <2>1, FailsBefore DEF AfterWrite
<1>4. QED BY <1>2, <1>3 DEF CheckNew, Retry, GiveUp

LEMMA CheckRegisteredMaps ==
    ASSUME Inv, NEW r \in Requests, CheckRegistered(r)
    PROVE  Maps(r)
<1>1. /\ Own(r) /\ pc[r] = "checkRegistered" /\ UNCHANGED <<db, written, claimed, mine>>
      /\ req[r].op = "register"
  BY CheckRegisteredOwn, InvParts DEF CheckRegistered, Local, Placed, history
<1>2. CASE Goto(r, "register")
  <2>1. UNCHANGED answer /\ pc'[r] = "register"
    BY <1>2, InvParts DEF Goto, LocalsTyped
  <2>2. QED BY <1>1, <2>1, Preparing DEF AfterWrite
<1>3. ASSUME NEW a \in {"conflict", "dbError"}, Answer(r, a),
             a = "conflict" => WithEmail(req[r].email) # {}
      PROVE  Maps(r)
  <2>1. EndsWell(r, a) /\ req[r].op \in Writing
    BY <1>1, <1>3 DEF EndsWell, Writing
  <2>2. QED BY <1>1, <1>3, <2>1, FailsBefore DEF AfterWrite
<1>4. QED BY <1>2, <1>3 DEF CheckRegistered

LEMMA CheckEmailMaps ==
    ASSUME Inv, NEW r \in Requests, CheckEmail(r)
    PROVE  Maps(r)
<1>1. /\ Own(r) /\ pc[r] = "checkEmail" /\ UNCHANGED <<db, written, claimed, mine>>
      /\ req[r].op = "update"
  BY CheckEmailOwn, InvParts DEF CheckEmail, Local, Placed, history
<1>2. CASE Goto(r, "save")
  <2>1. UNCHANGED answer /\ pc'[r] = "save"
    BY <1>2, InvParts DEF Goto, LocalsTyped
  <2>2. QED BY <1>1, <2>1, Preparing DEF AfterWrite
<1>3. ASSUME NEW a \in {"conflict", "dbError"}, Answer(r, a),
             a = "conflict" => WithEmail(req[r].email) # {}
      PROVE  Maps(r)
  <2>1. EndsWell(r, a) /\ req[r].op \in Writing
    BY <1>1, <1>3 DEF EndsWell, Writing
  <2>2. QED BY <1>1, <1>3, <2>1, FailsBefore DEF AfterWrite
<1>4. QED BY <1>2, <1>3 DEF CheckEmail

(* cacheUser and clearUserCache, after a write. *)
LEMMA TrailingMaps ==
    ASSUME Inv, NEW r \in Requests,
           StoreId(r) \/ StoreEmail(r) \/ ClearLists(r) \/ DelId(r) \/ DelEmail(r)
    PROVE  Maps(r)
<1>1. Own(r)
  BY StoreIdKeeps, StoreEmailKeeps, ClearListsKeeps, DelIdKeeps, DelEmailKeeps
<1>2. pc[r] \in AfterWrite /\ UNCHANGED <<db, written, claimed, user, mine>>
  BY DEF StoreId, StoreEmail, ClearLists, DelId, DelEmail, AfterWrite, history
<1>3. CacheFailed(r) => \E a \in {"ok", "cacheError"} :
                           Answer(r, a) /\ (a = "cacheError" => req[r].op # "create")
  BY DEF CacheFailed
<1>4. \/ \E l \in AfterWrite : Goto(r, l)
      \/ Answer(r, "ok") \/ CacheFailed(r)
  BY DEF StoreId, StoreEmail, ClearLists, DelId, DelEmail, AfterWrite
<1>5. QED BY <1>1, <1>2, <1>3, <1>4, Trailing

(* findByEmail and findAll. *)
LEMMA Tells ==
    ASSUME Inv, NEW r \in Requests, Own(r), pc[r] \notin AfterWrite, pc[r] # "done",
           UNCHANGED <<db, written, claimed, mine>>, req[r].op \in {"findByEmail", "findAll"},
           Answer(r, "ok"),
           \/ /\ req[r].op = "findByEmail"
              /\ WithEmail(req[r].email) = {} /\ user'[r] = None
           \/ /\ req[r].op = "findByEmail"
              /\ user'[r] \in Known /\ user'[r].email = req[r].email
           \/ req[r].op = "findAll" /\ rows'[r] \subseteq written
    PROVE  Maps(r)
<1> DEFINE x == IF req[r].op = "findAll" THEN rows'[r] ELSE user'[r]
<1>1. ~Acked(r) /\ r \notin mine /\ req' = req
  BY Untold, InvParts DEF Own, OthersKept
<1>2. answer'[r] = "ok" /\ answer' = [answer EXCEPT ![r] = "ok"]
  BY InvParts DEF Answer, LocalsTyped
<1>3. ~Acked(r)'
  BY <1>1 DEF Acked
<1>4. Result(r)' = x
  BY <1>1, <1>2, <1>3 DEF Result
<1>5. AckedRequests' = AckedRequests /\ Results' = [Results EXCEPT ![r] = x]
  BY <1>1, <1>3, <1>4, Visible DEF Own
<1>6. Contract!Tell(r, x)
  BY <1>2, <1>5 DEF Contract!Tell
<1>7. Contract!Find(r)
  <2>1. CASE req[r].op = "findByEmail" /\ WithEmail(req[r].email) = {} /\ user'[r] = None
    <3>1. ~Contract!Taken(req[r].email)
      BY <2>1 DEF WithEmail, Rows, Contract!Taken, Contract!Rows
    <3>2. QED BY <1>6, <2>1, <3>1 DEF Contract!Find
  <2>2. CASE req[r].op = "findByEmail" /\ user'[r] \in Known /\ user'[r].email = req[r].email
    BY <1>6, <2>2, PastKnown DEF Contract!Find
  <2>3. CASE req[r].op = "findAll" /\ rows'[r] \subseteq written
    BY <1>6, <2>3 DEF Contract!Find
  <2>4. QED BY <2>1, <2>2, <2>3
<1>8. Contract!Read(r)
  BY <1>5, <1>7 DEF Contract!Read
<1>9. QED BY <1>8 DEF Maps, Seen

LEMMA EmailGetMaps ==
    ASSUME Inv, NEW r \in Requests, EmailGet(r)
    PROVE  Maps(r)
<1>1. /\ Own(r) /\ pc[r] = "emailGet" /\ UNCHANGED <<db, written, claimed, mine>>
      /\ req[r].op = "findByEmail" /\ req[r].email \in Emails
  BY EmailGetOwn, InvParts DEF EmailGet, Local, Placed, history
<1>2. CASE /\ byEmail[req[r].email] # None /\ Answer(r, "ok")
           /\ user' = [user EXCEPT ![r] = byEmail[req[r].email].value]
  <2>1. user'[r] \in Known /\ user'[r].email = req[r].email
    BY <1>1, <1>2, InvParts DEF CachesSound, CachesHoldCommittedFields, LocalsTyped
  <2>2. QED BY <1>1, <1>2, <2>1, Tells DEF AfterWrite
<1>3. CASE Goto(r, "emailDb")
  <2>1. UNCHANGED answer /\ pc'[r] = "emailDb"
    BY <1>3, InvParts DEF Goto, LocalsTyped
  <2>2. QED BY <1>1, <2>1, Preparing DEF AfterWrite
<1>4. QED BY <1>2, <1>3 DEF EmailGet

LEMMA EmailDbMaps ==
    ASSUME Inv, NEW r \in Requests, EmailDb(r)
    PROVE  Maps(r)
<1>1. /\ Own(r) /\ pc[r] = "emailDb" /\ UNCHANGED <<db, written, claimed, mine>>
      /\ req[r].op = "findByEmail" /\ user[r] = None
  BY EmailDbOwn, InvParts DEF EmailDb, Local, Placed, Carries, history
<1>2. CASE Goto(r, "emailFill")
  <2>1. UNCHANGED answer /\ pc'[r] = "emailFill"
    BY <1>2, InvParts DEF Goto, LocalsTyped
  <2>2. QED BY <1>1, <2>1, Preparing DEF AfterWrite
<1>3. CASE WithEmail(req[r].email) = {} /\ Answer(r, "ok") /\ UNCHANGED user
  BY <1>1, <1>3, Tells DEF AfterWrite
<1>4. CASE Answer(r, "dbError")
  BY <1>1, <1>4, Misses DEF AfterWrite
<1>5. QED BY <1>2, <1>3, <1>4 DEF EmailDb

LEMMA EmailFillMaps ==
    ASSUME Inv, NEW r \in Requests, EmailFill(r)
    PROVE  Maps(r)
<1>1. /\ Own(r) /\ pc[r] = "emailFill" /\ UNCHANGED <<db, user, written, claimed, mine>>
      /\ req[r].op = "findByEmail"
      /\ user[r] \in Known /\ user[r].email = req[r].email
  BY EmailFillKeeps, InvParts DEF EmailFill, Local, Placed, Carries, history
<1>2. CASE Answer(r, "ok")
  BY <1>1, <1>2, Tells DEF AfterWrite
<1>3. CASE Answer(r, "cacheError")
  BY <1>1, <1>3, Misses DEF AfterWrite
<1>4. QED BY <1>2, <1>3 DEF EmailFill

LEMMA ListGetMaps ==
    ASSUME Inv, NEW r \in Requests, ListGet(r)
    PROVE  Maps(r)
<1>1. /\ Own(r) /\ pc[r] = "listGet" /\ UNCHANGED <<db, written, claimed, mine>>
      /\ req[r].op = "findAll" /\ req[r].id \in Queries
  BY ListGetOwn, InvParts DEF ListGet, Local, Placed, history
<1>2. CASE /\ lists[req[r].id] # None /\ Answer(r, "ok")
           /\ rows' = [rows EXCEPT ![r] = lists[req[r].id].value]
  <2>1. rows'[r] \subseteq written
    BY <1>1, <1>2, InvParts DEF CachesSound, CachesHoldCommittedFields, LocalsTyped
  <2>2. QED BY <1>1, <1>2, <2>1, Tells DEF AfterWrite
<1>3. CASE Goto(r, "listDb")
  <2>1. UNCHANGED answer /\ pc'[r] = "listDb"
    BY <1>3, InvParts DEF Goto, LocalsTyped
  <2>2. QED BY <1>1, <2>1, Preparing DEF AfterWrite
<1>4. QED BY <1>2, <1>3 DEF ListGet

LEMMA ListDbMaps ==
    ASSUME Inv, NEW r \in Requests, ListDb(r)
    PROVE  Maps(r)
<1>1. /\ Own(r) /\ pc[r] = "listDb" /\ UNCHANGED <<db, written, claimed, mine>>
      /\ req[r].op = "findAll"
  BY ListDbOwn, InvParts DEF ListDb, Local, Placed, history
<1>2. CASE Goto(r, "listFill")
  <2>1. UNCHANGED answer /\ pc'[r] = "listFill"
    BY <1>2, InvParts DEF Goto, LocalsTyped
  <2>2. QED BY <1>1, <2>1, Preparing DEF AfterWrite
<1>3. CASE Answer(r, "dbError")
  BY <1>1, <1>3, Misses DEF AfterWrite
<1>4. QED BY <1>2, <1>3 DEF ListDb

LEMMA ListFillMaps ==
    ASSUME Inv, NEW r \in Requests, ListFill(r)
    PROVE  Maps(r)
<1>1. /\ Own(r) /\ pc[r] = "listFill" /\ UNCHANGED <<db, rows, written, claimed, mine>>
      /\ req[r].op = "findAll" /\ rows[r] \subseteq written
  BY ListFillKeeps, InvParts DEF ListFill, Local, Placed, Carries, history
<1>2. CASE Answer(r, "ok")
  BY <1>1, <1>2, Tells DEF AfterWrite
<1>3. CASE Answer(r, "cacheError")
  BY <1>1, <1>3, Misses DEF AfterWrite
<1>4. QED BY <1>2, <1>3 DEF ListFill

-----------------------------------------------------------------------------
LEMMA StepMaps ==
    ASSUME Inv, NEW r \in Requests, Step(r)
    PROVE  Maps(r)
<1>1. CASE FindByIdStep(r)
  BY <1>1, CacheGetMaps, DbFindMaps, FillIdMaps, FillEmailMaps DEF FindByIdStep
<1>2. CASE WriteStep(r)
  BY <1>2, CheckNewMaps, InsertMaps, CheckRegisteredMaps, RegisterMaps, CheckEmailMaps,
     SaveMaps, SaveRowMaps, RemoveMaps, TrailingMaps DEF WriteStep
<1>3. CASE FindStep(r)
  BY <1>3, EmailGetMaps, EmailDbMaps, EmailFillMaps, ListGetMaps, ListDbMaps, ListFillMaps
     DEF FindStep
<1>4. QED BY <1>1, <1>2, <1>3 DEF Step

LEMMA NotDone ==
    ASSUME NEW r \in Requests, Step(r)
    PROVE  pc[r] # "done"
<1>1. CASE FindByIdStep(r)
  BY <1>1 DEF FindByIdStep, CacheGet, DbFind, FillId, FillEmail
<1>2. CASE WriteStep(r)
  BY <1>2 DEF WriteStep, CheckNew, Insert, CheckRegistered, Register, CheckEmail, Save, SaveRow,
              StoreId, StoreEmail, ClearLists, Remove, DelId, DelEmail
<1>3. CASE FindStep(r)
  BY <1>3 DEF FindStep, EmailGet, EmailDb, EmailFill, ListGet, ListDb, ListFill
<1>4. QED BY <1>1, <1>2, <1>3 DEF Step

(* Nothing of what Redis drops is seen. *)
LEMMA ExpireUnseen ==
    ASSUME UNCHANGED <<db, locals, history>>
    PROVE  UNCHANGED Contract!dvars
<1>1. UNCHANGED <<db, pc, req, loaded, user, rows, answer, written, claimed, mine>>
  BY DEF locals, history
<1>2. ASSUME NEW q
      PROVE  (Acked(q)' <=> Acked(q)) /\ Result(q)' = Result(q)
  BY <1>1 DEF Acked, Result
<1>3. AckedRequests' = AckedRequests /\ Results' = Results
  BY <1>2 DEF AckedRequests, Results
<1>4. QED BY <1>1, <1>3 DEF Contract!dvars

LEMMA InitMaps == Init => Contract!Init
<1> SUFFICES ASSUME Init
             PROVE  Contract!Init
  OBVIOUS
<1>1. db \in [Ids -> User \cup {None}] /\ written \cup claimed = Rows
  BY TableAssumption DEF Init
<1>2. ASSUME NEW r \in Requests
      PROVE  ~Acked(r) /\ Result(r) = None
  <2>1. Inv
    BY InitInv
  <2>2. answer[r] = "none" /\ pc[r] \notin AfterWrite /\ pc[r] # "done"
    <3>1. answer[r] = "none" /\ req[r].op \in DOMAIN FirstLabel /\ pc[r] = FirstLabel[req[r].op]
      BY <1>2, <2>1, InvParts DEF Init
    <3>2. QED BY <3>1 DEF FirstLabel, AfterWrite
  <2>3. QED BY <2>1, <2>2, Untold, InvParts
<1>3. AckedRequests = {} /\ Results = [r \in Requests |-> None]
  BY <1>2 DEF AckedRequests, Results
<1>4. QED BY <1>1, <1>3 DEF Init, Rows, User, Contract!Init, Contract!Rows, Contract!User

LEMMA NextMaps == Inv /\ [Next]_vars => [Contract!Next]_Contract!dvars
<1> SUFFICES ASSUME Inv, [Next]_vars
             PROVE  [Contract!Next]_Contract!dvars
  OBVIOUS
<1>1. ASSUME NEW r \in Requests, Step(r)
      PROVE  Contract!Next \/ UNCHANGED Contract!dvars
  <2>1. Maps(r) /\ req' = req /\ answer[r] = "none"
    BY <1>1, StepMaps, StepOwn, NotDone, InvParts DEF Own, OthersKept, Local, Placed
  <2>2. QED BY <2>1 DEF Maps, Seen, Contract!Next
<1>2. CASE Expire
  BY <1>2, ExpireUnseen DEF Expire, ExpireId, ExpireEmail, ExpireList
<1>3. CASE UNCHANGED vars
  BY <1>3, ExpireUnseen DEF vars
<1>4. QED BY <1>1, <1>2, <1>3 DEF Next

(* The users service is a directory to its clients: whatever the caches    *)
(* hold, however requests interleave, calls fail and retries repeat, it    *)
(* answers as Directory says (create, findById, findByEmail, findAll,      *)
(* update, delete, AuthService.register).                                  *)
THEOREM ServiceImplementsDirectory == Spec => ImplementsDirectory
BY InitMaps, NextMaps, Invariance, PTL DEF Spec, ImplementsDirectory, Contract!Spec
=============================================================================
