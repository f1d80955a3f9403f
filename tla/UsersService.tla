---------------------------- MODULE UsersService ----------------------------
(***************************************************************************)
(* UsersService over its MySQL table and its Redis cache: concurrent       *)
(* requests, one action per await.  Every user is cached under its id and  *)
(* under its email, and every list query under a key of its own; entries   *)
(* are written with a TTL and Redis drops them some time later.            *)
(*                                                                         *)
(* A request is a record [op, id, email, name]; in an update an email or a *)
(* name of None is a field the DTO does not have.  name stands for all the *)
(* fields but the email.  Redis calls can fail, and so can database calls, *)
(* before they take effect ("down") or after ("lost").  A call that fails  *)
(* transiently is retried where the code wraps it in RetryUtil.            *)
(*                                                                         *)
(* Left out: password hashing, the files relation, search filters.         *)
(*                                                                         *)
(* An operator marked "mistake" is the one below it as a slip would have   *)
(* written it; put in its place, it breaks a property.                     *)
(***************************************************************************)
EXTENDS Integers, Sequences

CONSTANTS Requests,    \* the slots for concurrent requests
          Menu,        \* [Requests -> sets of requests], what may be asked
          Ids, Emails, Names,
          Queries,     \* list queries, as the segments of their cache keys
          InitialUsers,\* the rows the table starts with
          None,
          RedisUp,     \* {TRUE}, or BOOLEAN when a Redis call may fail
          DbOutcomes,  \* of "ok", "down", "lost": what a write may meet
          RemoveClearsId  \* TypeORM: remove() unsets the entity's id

VARIABLES db,        \* [Ids -> User or None], the users table
          byId,      \* [Ids -> Entry or None], keys user:<id>
          byEmail,   \* [Emails -> Entry or None], keys user:email:<email>
          lists,     \* [Queries -> Entry or None], keys user-list:<query>
          pc,        \* [Requests -> Labels], the await each request is at
          req,       \* [Requests -> Menu[r]], what was asked
          user,      \* [Requests -> User or None], the local variable
          loaded,    \* [Requests -> User or None], the row a save has read
          rows,      \* [Requests -> SUBSET User], what a list query read
          tries,     \* [Requests -> Nat], attempts of the current retry loop
          answer,    \* [Requests -> Answers]
          written,   \* history: every row the table has ever held
          claimed,   \* history: users an update returned whose UPDATE met no row
          mine,      \* history: requests whose INSERT was committed
          deleted,   \* history: ids whose delete has been answered
          knew       \* history: what deleted was when a findById began

caches == <<byId, byEmail, lists>>
locals == <<pc, req, user, loaded, rows, tries, answer>>
history == <<written, claimed, mine, deleted, knew>>
vars == <<db, caches, locals, history>>

User == [id : Ids, email : Emails, name : Names]
Entry(S) == [value : S, expires : BOOLEAN]
Answers == {"none", "ok", "notFound", "conflict", "dbError", "cacheError"}
Labels == {"done", "checkNew", "insert", "cacheGet", "dbFind", "fillId",
           "fillEmail", "checkEmail", "save", "saveRow", "storeId", "storeEmail",
           "clearLists", "remove", "delId", "delEmail", "emailGet", "emailDb", "emailFill",
           "listGet", "listDb", "listFill", "checkRegistered", "register"}

(* The DTOs are valid, and the table abides by its constraint. *)
ASSUME TableAssumption ==
    /\ None \notin User
    /\ InitialUsers \subseteq User
    /\ \A u, w \in InitialUsers : u.email = w.email => u = w

Rows == {db[i] : i \in Ids} \ {None}
WithEmail(e) == {u \in Rows : u.email = e}

(* What was ever committed under an id, or returned by an update whose row *)
(* had gone, is known of it; a user is known when each of its fields is.   *)
Known ==
    {u \in User : \E w, v \in written \cup claimed :
         w.id = u.id /\ v.id = u.id /\ w.email = u.email /\ v.name = u.name}

(* The first await of each operation. *)
FirstLabel == [create |-> "checkNew", findById |-> "cacheGet", update |-> "cacheGet",
               delete |-> "cacheGet", findByEmail |-> "emailGet", findAll |-> "listGet",
               register |-> "checkRegistered"]

ASSUME MenuAssumption ==
    \A r \in Requests : \A q \in Menu[r] :
        /\ q.op \in DOMAIN FirstLabel
        /\ q.op \in {"create", "register"} => q.email \in Emails /\ q.name \in Names
        /\ q.op \in {"findById", "update", "delete"} => q.id \in Ids
        /\ q.op = "update" => q.email \in Emails \cup {None} /\ q.name \in Names \cup {None}
        /\ q.op = "findByEmail" => q.email \in Emails
        /\ q.op = "findAll" => q.id \in Queries

Init == /\ db \in [Ids -> InitialUsers \cup {None}]
        /\ Rows = InitialUsers
        /\ \A i \in Ids : db[i] # None => db[i].id = i
        /\ byId = [i \in Ids |-> None]
        /\ byEmail = [e \in Emails |-> None]
        /\ lists = [q \in Queries |-> None]
        /\ req \in [Requests -> UNION {Menu[r] : r \in Requests}]
        /\ \A r \in Requests : req[r] \in Menu[r]
        /\ pc = [r \in Requests |-> FirstLabel[req[r].op]]
        /\ user = [r \in Requests |-> None]
        /\ loaded = [r \in Requests |-> None]
        /\ rows = [r \in Requests |-> {}]
        /\ tries = [r \in Requests |-> 0]
        /\ answer = [r \in Requests |-> "none"]
        /\ written = InitialUsers
        /\ claimed = {}
        /\ mine = {}
        /\ deleted = {}
        /\ knew = [r \in Requests |-> {}]

-----------------------------------------------------------------------------
(* CacheService.set: setex with options.ttl or the default, never without. *)
SetForever(v) == [value |-> v, expires |-> FALSE]    \* mistake: SET without EX

SetEx(v) == [value |-> v, expires |-> TRUE]

(* Where a request goes next, and how it ends. *)
Goto(r, label) == pc' = [pc EXCEPT ![r] = label] /\ UNCHANGED answer

Answer(r, a) ==
    /\ pc' = [pc EXCEPT ![r] = "done"]
    /\ answer' = [answer EXCEPT ![r] = a]

(* One more attempt of executeWithRetry after a transient failure, or its  *)
(* error once the attempts are used up.                                    *)
RetryEndlessly(r, maxAttempts) ==    \* mistake: the last attempt does not break
    /\ tries' = [tries EXCEPT ![r] = (@ + 1) % maxAttempts]
    /\ UNCHANGED <<pc, answer>>

Retry(r, maxAttempts) ==
    IF tries[r] + 1 < maxAttempts
    THEN tries' = [tries EXCEPT ![r] = @ + 1] /\ UNCHANGED <<pc, answer>>
    ELSE Answer(r, "dbError") /\ UNCHANGED tries

(* An error that retryCondition does not list ends the loop at once. *)
GiveUp(r) == Answer(r, "dbError") /\ UNCHANGED tries

Proceed(r, label) == Goto(r, label) /\ tries' = [tries EXCEPT ![r] = 0]

(* The merged object of update: Object.assign(user, updateUserDto). *)
AssignAll(u, dto) ==    \* mistake: fields the DTO does not have overwrite too
    [u EXCEPT !.email = dto.email, !.name = dto.name]

Assign(u, dto) ==
    [u EXCEPT !.email = IF dto.email = None THEN @ ELSE dto.email,
              !.name = IF dto.name = None THEN @ ELSE dto.name]

ChangesEmail(dto, u) == dto.email # None /\ dto.email # u.email

(* What each caller of findById does with the user it returns; update goes *)
(* to the database first only when the email changes.                      *)
Found(r, u) ==
    CASE req[r].op = "findById" -> Answer(r, "ok") /\ user' = [user EXCEPT ![r] = u]
      [] req[r].op = "delete" -> Goto(r, "remove") /\ user' = [user EXCEPT ![r] = u]
      [] req[r].op = "update" ->
            IF ChangesEmail(req[r], u)
            THEN Goto(r, "checkEmail") /\ user' = [user EXCEPT ![r] = u]
            ELSE Goto(r, "save") /\ user' = [user EXCEPT ![r] = Assign(u, req[r])]

-----------------------------------------------------------------------------
(* findById, on its own and inside update and delete. *)
CacheGet(r) ==
    /\ pc[r] = "cacheGet"
    /\ \/ TRUE \in RedisUp /\ byId[req[r].id] # None
          /\ Found(r, byId[req[r].id].value)
       \/ (FALSE \in RedisUp \/ byId[req[r].id] = None)
          /\ Goto(r, "dbFind") /\ UNCHANGED user
    /\ knew' = [knew EXCEPT ![r] = deleted]
    /\ UNCHANGED <<db, caches, req, loaded, rows, tries, written, claimed, mine, deleted>>

DbFind(r) ==
    /\ pc[r] = "dbFind"
    /\ \/ db[req[r].id] # None
          /\ user' = [user EXCEPT ![r] = db[req[r].id]]
          /\ Proceed(r, "fillId")
       \/ db[req[r].id] = None
          /\ Answer(r, "notFound") /\ UNCHANGED <<user, tries>>
       \/ "down" \in DbOutcomes
          /\ (Retry(r, 2) \/ GiveUp(r)) /\ UNCHANGED user
    /\ UNCHANGED <<db, caches, req, loaded, rows, history>>

(* cacheUser: a failure of the first set skips the second.  findById goes  *)
(* on all the same.                                                        *)
FillId(r) ==
    /\ pc[r] = "fillId"
    /\ \/ byId' = [byId EXCEPT ![user[r].id] = SetEx(user[r])]
          /\ Goto(r, "fillEmail") /\ UNCHANGED user
       \/ FALSE \in RedisUp /\ Found(r, user[r]) /\ UNCHANGED byId
    /\ UNCHANGED <<db, byEmail, lists, req, loaded, rows, tries, history>>

FillEmail(r) ==
    /\ pc[r] = "fillEmail"
    /\ \/ byEmail' = [byEmail EXCEPT ![user[r].email] = SetEx(user[r])]
       \/ FALSE \in RedisUp /\ UNCHANGED byEmail
    /\ Found(r, user[r])
    /\ UNCHANGED <<db, byId, lists, req, loaded, rows, tries, history>>

-----------------------------------------------------------------------------
(* The table: a primary key, and the unique constraint on email.           *)
Violates(u) == \E w \in Rows : w.id # u.id /\ w.email = u.email

Write(u) == db' = [db EXCEPT ![u.id] = u] /\ written' = written \cup {u}

(* create: the check for the email, and the hash, which takes its time. *)
CheckNew(r) ==
    /\ pc[r] = "checkNew"
    /\ \/ WithEmail(req[r].email) # {} /\ Answer(r, "conflict") /\ UNCHANGED tries
       \/ WithEmail(req[r].email) = {} /\ Proceed(r, "insert")
       \/ "down" \in DbOutcomes /\ (Retry(r, 2) \/ GiveUp(r))
    /\ UNCHANGED <<db, caches, req, loaded, user, rows, history>>

(* create: save of an entity that has no id, an INSERT under a new one. The *)
(* loop repeats it, also when only the answer was lost.  (Ids is a bound:   *)
(* nothing is inserted once all of them have been used.)                    *)
Unused(i) == \A w \in Known : w.id # i
IdsLeft == \E i \in Ids : Unused(i)
FreshId == CHOOSE i \in Ids : Unused(i)

NewUser(r) == [id |-> FreshId, email |-> req[r].email, name |-> req[r].name]

Insert(r) ==
    /\ pc[r] = "insert" /\ IdsLeft
    /\ \/ /\ Violates(NewUser(r))
          /\ Answer(r, "conflict")
          /\ UNCHANGED <<db, user, tries, written, mine>>
       \/ /\ ~Violates(NewUser(r)) /\ Write(NewUser(r))
          /\ user' = [user EXCEPT ![r] = NewUser(r)]
          /\ mine' = mine \cup {r}
          /\ Proceed(r, "storeId")
       \/ /\ ~Violates(NewUser(r)) /\ "lost" \in DbOutcomes /\ Write(NewUser(r))
          /\ Retry(r, 3) \/ GiveUp(r)
          /\ UNCHANGED <<user, mine>>
       \/ /\ "down" \in DbOutcomes
          /\ Retry(r, 3) \/ GiveUp(r)
          /\ UNCHANGED <<db, user, written, mine>>
    /\ UNCHANGED <<caches, req, loaded, rows, claimed, deleted, knew>>

(* AuthService.register does the same with neither retry nor cache, and     *)
(* lets a violation of the constraint through as the error it is.          *)
CheckRegistered(r) ==
    /\ pc[r] = "checkRegistered"
    /\ \/ WithEmail(req[r].email) # {} /\ Answer(r, "conflict")
       \/ WithEmail(req[r].email) = {} /\ Goto(r, "register")
       \/ "down" \in DbOutcomes /\ Answer(r, "dbError")
    /\ UNCHANGED <<db, caches, req, loaded, user, rows, tries, history>>

Register(r) ==
    /\ pc[r] = "register" /\ IdsLeft
    /\ \/ /\ Violates(NewUser(r)) \/ "down" \in DbOutcomes
          /\ Answer(r, "dbError")
          /\ UNCHANGED <<db, user, written, mine>>
       \/ /\ ~Violates(NewUser(r)) /\ Write(NewUser(r))
          /\ \/ /\ user' = [user EXCEPT ![r] = NewUser(r)]
                /\ mine' = mine \cup {r}
                /\ Answer(r, "ok")
             \/ "lost" \in DbOutcomes /\ Answer(r, "dbError") /\ UNCHANGED <<user, mine>>
    /\ UNCHANGED <<caches, req, loaded, rows, tries, claimed, deleted, knew>>

(* update: another user may own the new email already. *)
CheckEmail(r) ==
    /\ pc[r] = "checkEmail"
    /\ \/ WithEmail(req[r].email) # {} /\ Answer(r, "conflict") /\ UNCHANGED user
       \/ WithEmail(req[r].email) = {} /\ Goto(r, "save")
          /\ user' = [user EXCEPT ![r] = Assign(@, req[r])]
       \/ "down" \in DbOutcomes /\ Answer(r, "dbError") /\ UNCHANGED user
    /\ UNCHANGED <<db, caches, req, loaded, rows, tries, history>>

(* update: save of the merged object.  As the object has an id, TypeORM    *)
(* first reads the row under it, and then, if the two differ, writes the   *)
(* columns in which they did: rows change between the two, and an UPDATE   *)
(* that meets no row is no error.  It inserts the object if it read no row.*)
Save(r) ==
    /\ pc[r] = "save"
    /\ \/ db[user[r].id] = user[r] /\ Goto(r, "storeId") /\ UNCHANGED loaded
       \/ db[user[r].id] # user[r] /\ Goto(r, "saveRow")
          /\ loaded' = [loaded EXCEPT ![r] = db[user[r].id]]
       \/ "down" \in DbOutcomes /\ Answer(r, "dbError") /\ UNCHANGED loaded
    /\ UNCHANGED <<db, caches, req, user, rows, tries, history>>

Updated(row, seen, u) ==
    [row EXCEPT !.email = IF u.email = seen.email THEN @ ELSE u.email,
                !.name = IF u.name = seen.name THEN @ ELSE u.name]

Missed(r) == loaded[r] # None /\ db[user[r].id] = None
Duplicate(r) == loaded[r] = None /\ db[user[r].id] # None

Saved(r) == IF loaded[r] = None THEN user[r]
            ELSE Updated(db[user[r].id], loaded[r], user[r])

SaveRowUnchecked(r) ==    \* mistake: a failed save goes on to cache the object
    /\ pc[r] = "saveRow"
    /\ \/ ~Missed(r) /\ ~Duplicate(r) /\ ~Violates(Saved(r)) /\ Write(Saved(r))
       \/ "down" \in DbOutcomes /\ UNCHANGED <<db, written>>
    /\ Goto(r, "storeId")
    /\ loaded' = [loaded EXCEPT ![r] = None]
    /\ UNCHANGED <<caches, req, user, rows, tries, claimed, mine, deleted, knew>>

SaveRow(r) ==
    /\ pc[r] = "saveRow"
    /\ \/ /\ ~Missed(r) /\ ~Duplicate(r) /\ ~Violates(Saved(r))
          /\ Write(Saved(r))
          /\ Goto(r, "storeId") \/ ("lost" \in DbOutcomes /\ Answer(r, "dbError"))
          /\ UNCHANGED claimed
       \/ /\ Missed(r) /\ Goto(r, "storeId")
          /\ claimed' = claimed \cup {user[r]}
          /\ UNCHANGED <<db, written>>
       \/ /\ \/ Duplicate(r) \/ (~Missed(r) /\ Violates(Saved(r)))
             \/ "down" \in DbOutcomes \/ (Missed(r) /\ "lost" \in DbOutcomes)
          /\ Answer(r, "dbError")
          /\ UNCHANGED <<db, written, claimed>>
    /\ loaded' = [loaded EXCEPT ![r] = None]
    /\ UNCHANGED <<caches, req, user, rows, tries, mine, deleted, knew>>

(* cacheUser after a save.  create answers its client all the same when    *)
(* Redis fails; update lets the error through, its save being committed.   *)
CacheFailedLoudly(r) == Answer(r, "cacheError")    \* mistake: not caught in create

CacheFailed(r) == Answer(r, IF req[r].op = "create" THEN "ok" ELSE "cacheError")

StoreId(r) ==
    /\ pc[r] = "storeId"
    /\ \/ byId' = [byId EXCEPT ![user[r].id] = SetEx(user[r])] /\ Goto(r, "storeEmail")
       \/ FALSE \in RedisUp /\ CacheFailed(r) /\ UNCHANGED byId
    /\ UNCHANGED <<db, byEmail, lists, req, loaded, user, rows, tries, history>>

StoreEmail(r) ==
    /\ pc[r] = "storeEmail"
    /\ \/ byEmail' = [byEmail EXCEPT ![user[r].email] = SetEx(user[r])]
          /\ Goto(r, "clearLists")
       \/ FALSE \in RedisUp /\ CacheFailed(r) /\ UNCHANGED byEmail
    /\ UNCHANGED <<db, byId, lists, req, loaded, user, rows, tries, history>>

(* clearUserListCache asks for the keys user-list:* and deletes, for each, *)
(* what key.split(':').pop() leaves of it: the last segment.  KEYS failing *)
(* reads as no keys.  The keys of a user's old email are deleted after it, *)
(* if the DTO's email differs from that of the object it was assigned to.  *)
LastSegments == {<<q[Len(q)]>> : q \in {k \in Queries : lists[k] # None}}

ClearedLists == [q \in Queries |-> IF q \in LastSegments THEN None ELSE lists[q]]

ClearLists(r) ==
    /\ pc[r] = "clearLists"
    /\ \/ /\ lists' = ClearedLists
          /\ byEmail' = IF req[r].op = "update" /\ ChangesEmail(req[r], user[r])
                        THEN [byEmail EXCEPT ![user[r].email] = None] ELSE byEmail
          /\ Answer(r, "ok")
          /\ deleted' = IF req[r].op = "delete" THEN deleted \cup {req[r].id} ELSE deleted
       \/ /\ FALSE \in RedisUp /\ LastSegments # {}
          /\ CacheFailed(r)
          /\ UNCHANGED <<lists, byEmail, deleted>>
    /\ UNCHANGED <<db, byId, req, loaded, user, rows, tries, written, claimed, mine, knew>>

(* delete: remove, then clearUserCache, by an id that remove has unset. *)
RemoveUnawaited(r) ==    \* mistake: no await, whatever becomes of it
    /\ pc[r] = "remove"
    /\ \/ db' = [db EXCEPT ![user[r].id] = None]
       \/ "down" \in DbOutcomes /\ UNCHANGED db
    /\ Goto(r, "delId")
    /\ UNCHANGED <<caches, req, loaded, user, rows, tries, history>>

Remove(r) ==
    /\ pc[r] = "remove"
    /\ \/ db' = [db EXCEPT ![user[r].id] = None] /\ Goto(r, "delId")
       \/ "lost" \in DbOutcomes /\ db' = [db EXCEPT ![user[r].id] = None]
          /\ Answer(r, "dbError")
       \/ "down" \in DbOutcomes /\ Answer(r, "dbError") /\ UNCHANGED db
    /\ UNCHANGED <<caches, req, loaded, user, rows, tries, history>>

DelId(r) ==
    /\ pc[r] = "delId"
    /\ \/ /\ byId' = IF RemoveClearsId THEN byId ELSE [byId EXCEPT ![user[r].id] = None]
          /\ Goto(r, "delEmail")
       \/ FALSE \in RedisUp /\ CacheFailed(r) /\ UNCHANGED byId
    /\ UNCHANGED <<db, byEmail, lists, req, loaded, user, rows, tries, history>>

DelEmail(r) ==
    /\ pc[r] = "delEmail"
    /\ \/ byEmail' = [byEmail EXCEPT ![user[r].email] = None] /\ Goto(r, "clearLists")
       \/ FALSE \in RedisUp /\ CacheFailed(r) /\ UNCHANGED byEmail
    /\ UNCHANGED <<db, byId, lists, req, loaded, user, rows, tries, history>>

-----------------------------------------------------------------------------
(* findByEmail: no retry, and a failing set fails the request. *)
EmailGet(r) ==
    /\ pc[r] = "emailGet"
    /\ \/ TRUE \in RedisUp /\ byEmail[req[r].email] # None
          /\ user' = [user EXCEPT ![r] = byEmail[req[r].email].value]
          /\ Answer(r, "ok")
       \/ (FALSE \in RedisUp \/ byEmail[req[r].email] = None)
          /\ Goto(r, "emailDb") /\ UNCHANGED user
    /\ UNCHANGED <<db, caches, req, loaded, rows, tries, history>>

EmailDb(r) ==
    /\ pc[r] = "emailDb"
    /\ \/ \E u \in WithEmail(req[r].email) :
             user' = [user EXCEPT ![r] = u] /\ Goto(r, "emailFill")
       \/ WithEmail(req[r].email) = {} /\ Answer(r, "ok") /\ UNCHANGED user
       \/ "down" \in DbOutcomes /\ Answer(r, "dbError") /\ UNCHANGED user
    /\ UNCHANGED <<db, caches, req, loaded, rows, tries, history>>

EmailFill(r) ==
    /\ pc[r] = "emailFill"
    /\ \/ byEmail' = [byEmail EXCEPT ![req[r].email] = SetEx(user[r])] /\ Answer(r, "ok")
       \/ FALSE \in RedisUp /\ Answer(r, "cacheError") /\ UNCHANGED byEmail
    /\ UNCHANGED <<db, byId, lists, req, loaded, user, rows, tries, history>>

(* findAll, for the query req[r].id. *)
ListGet(r) ==
    /\ pc[r] = "listGet"
    /\ \/ TRUE \in RedisUp /\ lists[req[r].id] # None
          /\ rows' = [rows EXCEPT ![r] = lists[req[r].id].value]
          /\ Answer(r, "ok")
       \/ (FALSE \in RedisUp \/ lists[req[r].id] = None)
          /\ Goto(r, "listDb") /\ UNCHANGED rows
    /\ UNCHANGED <<db, caches, req, loaded, user, tries, history>>

ListDb(r) ==
    /\ pc[r] = "listDb"
    /\ \/ rows' = [rows EXCEPT ![r] = Rows] /\ Goto(r, "listFill")
       \/ "down" \in DbOutcomes /\ Answer(r, "dbError") /\ UNCHANGED rows
    /\ UNCHANGED <<db, caches, req, loaded, user, tries, history>>

ListFill(r) ==
    /\ pc[r] = "listFill"
    /\ \/ lists' = [lists EXCEPT ![req[r].id] = SetEx(rows[r])] /\ Answer(r, "ok")
       \/ FALSE \in RedisUp /\ Answer(r, "cacheError") /\ UNCHANGED lists
    /\ UNCHANGED <<db, byId, byEmail, req, loaded, user, rows, tries, history>>

-----------------------------------------------------------------------------
(* Redis drops an entry whose TTL has run out. *)
ExpireId(i) == /\ byId[i] # None /\ byId[i].expires
               /\ byId' = [byId EXCEPT ![i] = None]
               /\ UNCHANGED <<db, byEmail, lists, locals, history>>

ExpireEmail(e) == /\ byEmail[e] # None /\ byEmail[e].expires
                  /\ byEmail' = [byEmail EXCEPT ![e] = None]
                  /\ UNCHANGED <<db, byId, lists, locals, history>>

ExpireList(q) == /\ lists[q] # None /\ lists[q].expires
                 /\ lists' = [lists EXCEPT ![q] = None]
                 /\ UNCHANGED <<db, byId, byEmail, locals, history>>

FindByIdStep(r) == CacheGet(r) \/ DbFind(r) \/ FillId(r) \/ FillEmail(r)
WriteStep(r) == \/ CheckNew(r) \/ Insert(r) \/ CheckRegistered(r) \/ Register(r)
                \/ CheckEmail(r) \/ Save(r) \/ SaveRow(r)
                \/ StoreId(r) \/ StoreEmail(r) \/ ClearLists(r)
                \/ Remove(r) \/ DelId(r) \/ DelEmail(r)
FindStep(r) == \/ EmailGet(r) \/ EmailDb(r) \/ EmailFill(r)
               \/ ListGet(r) \/ ListDb(r) \/ ListFill(r)

Step(r) == FindByIdStep(r) \/ WriteStep(r) \/ FindStep(r)

Expire == \/ \E i \in Ids : ExpireId(i)
          \/ \E e \in Emails : ExpireEmail(e)
          \/ \E q \in Queries : ExpireList(q)

Next == (\E r \in Requests : Step(r)) \/ Expire

Spec == Init /\ [][Next]_vars

(* Awaits are answered, with a result or an error, and TTLs run out.  The  *)
(* requests and what they cache are finitely many, so it is enough that    *)
(* neither stops altogether while something is left to do.                 *)
Fairness == WF_vars(\E r \in Requests : Step(r)) /\ WF_vars(Expire)

FairSpec == Spec /\ Fairness

-----------------------------------------------------------------------------
TypeOK ==
    /\ db \in [Ids -> User \cup {None}]
    /\ byId \in [Ids -> Entry(User) \cup {None}]
    /\ byEmail \in [Emails -> Entry(User) \cup {None}]
    /\ lists \in [Queries -> Entry(SUBSET User) \cup {None}]
    /\ pc \in [Requests -> Labels]
    /\ \A r \in Requests : req[r] \in Menu[r]
    /\ user \in [Requests -> User \cup {None}]
    /\ loaded \in [Requests -> User \cup {None}]
    /\ rows \in [Requests -> SUBSET User]
    /\ tries \in [Requests -> 0 .. 2]
    /\ answer \in [Requests -> Answers]
    /\ written \subseteq User /\ claimed \subseteq User
    /\ mine \subseteq Requests
    /\ deleted \subseteq Ids
    /\ knew \in [Requests -> SUBSET deleted]

(* However stale, each field of a cached user is one its row has had, and  *)
(* the user is under the key it belongs to: an update or a create that     *)
(* fails, or is still under way, leaves nothing of it in the cache (create,*)
(* update, cacheUser).  Lists hold rows.  The user as a whole need not have*)
(* been a row: of two updates that overlap each caches its own object.     *)
CachesHoldCommittedFields ==
    /\ \A i \in Ids : byId[i] # None =>
          byId[i].value \in Known /\ byId[i].value.id = i
    /\ \A e \in Emails : byEmail[e] # None =>
          byEmail[e].value \in Known /\ byEmail[e].value.email = e
    /\ \A q \in Queries : lists[q] # None => lists[q].value \subseteq written

(* Redis never decides how a create ends: it is answered as a success when *)
(* its save has resolved, and only then; so is a register.                 *)
CreateEndsAsItsSave ==
    \A r \in Requests :
        req[r].op \in {"create", "register"} /\ pc[r] = "done" => (answer[r] = "ok" <=> r \in mine)

(* The retries are bounded, so every request is answered. *)
EveryRequestAnswered == <>(\A r \in Requests : pc[r] = "done")

(* Once the requests are over the caches come to agree with the table,     *)
(* whatever stale rows, old emails, deleted users or lists they held: all  *)
(* they hold is bound to expire (CacheService.set).                        *)
Coherent ==
    /\ \A i \in Ids : byId[i] # None => byId[i].value = db[i]
    /\ \A e \in Emails : byEmail[e] # None => byEmail[e].value \in Rows
    /\ \A q \in Queries : lists[q] # None => lists[q].value = Rows

EventuallyCoherent == <>[]Coherent

(* What clients can tell of the service, whatever is cached, retried, lost *)
(* or out of date: an answer of success, or of an error after one, is to a *)
(* write that was made, to a row that had gone, or that had all of it      *)
(* already; an update merges its fields with those known under its id, if  *)
(* not with the row there is, and changes no column to anything else; reads*)
(* tell of what was committed, and only of what was asked for (findById,   *)
(* findByEmail, findAll, create, update, delete).                          *)
Acked(r) ==
    \/ r \in mine
    \/ /\ req[r].op \in {"update", "delete"}
       /\ \/ pc[r] \in {"storeId", "storeEmail", "clearLists", "delId", "delEmail"}
          \/ answer[r] \in {"ok", "cacheError"}

Result(r) ==
    CASE Acked(r) -> IF req[r].op = "delete" THEN None ELSE user[r]
      [] ~Acked(r) /\ answer[r] = "ok" -> IF req[r].op = "findAll" THEN rows[r] ELSE user[r]
      [] OTHER -> None

AckedRequests == {r \in Requests : Acked(r)}
Results == [r \in Requests |-> Result(r)]

Contract == INSTANCE Directory WITH asked <- req, table <- db,
                                    past <- written \cup claimed,
                                    acked <- AckedRequests, result <- Results

ImplementsDirectory == Contract!Spec

(* users.service.ts:311 "Clear all user list cache entries": when a create *)
(* or an update has cleared the lists, none is left.                       *)
ListsCleared ==
    [][\A r \in Requests :
         pc[r] = "clearLists" /\ answer'[r] = "ok"
             => \A q \in Queries : lists'[q] = None]_vars

(* design.md:249, a deleted user cannot be found any more: a findById that *)
(* begins after the delete was answered does not return the user.          *)
DeletedIsGone ==
    \A r \in Requests :
        req[r].op = "findById" /\ answer[r] = "ok" => req[r].id \notin knew[r]
=============================================================================
