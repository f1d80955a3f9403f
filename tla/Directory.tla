------------------------------ MODULE Directory ------------------------------
(***************************************************************************)
(* What the users service promises its clients, told without caches or     *)
(* retries: a table in which no two rows share an email, and one answer to *)
(* each request.  A request that writes may have its write acknowledged to *)
(* it, and is then answered with success or with an error that comes after *)
(* a success; an error can hide a write that was made.                     *)
(*                                                                         *)
(* Clients are told of fields that their row has had, not of the row there *)
(* is, nor even of one that ever was: the fields of a user may be of more  *)
(* than one row of it.  An update merges its fields with such a user; a    *)
(* column of the row then keeps its value or takes that of the merged user,*)
(* which is what the client is told.  If the row is gone it is inserted    *)
(* again, or left alone.                                                   *)
(***************************************************************************)
CONSTANTS Requests, Ids, Emails, Names, None

User == [id : Ids, email : Emails, name : Names]

VARIABLES asked,    \* [Requests -> request]: op, id, email, name
          table,    \* [Ids -> User or None]
          past,     \* every row there was, or that was acknowledged though gone
          acked,    \* the requests whose write was acknowledged to them
          result,   \* [Requests -> what the answer holds, or None]
          answer    \* [Requests -> how it ended, "none" until then]

dvars == <<asked, table, past, acked, result, answer>>

Rows == {table[i] : i \in Ids} \ {None}

Writing == {"create", "register", "update", "delete"}

Init == /\ table \in [Ids -> User \cup {None}]
        /\ \A i \in Ids : table[i] # None => table[i].id = i
        /\ past = Rows
        /\ acked = {}
        /\ result = [r \in Requests |-> None]
        /\ answer = [r \in Requests |-> "none"]

-----------------------------------------------------------------------------
(* The users each of whose fields one of the rows S under their id has had. *)
Known(S) ==
    {u \in User : \E w, v \in S :
         w.id = u.id /\ v.id = u.id /\ w.email = u.email /\ v.name = u.name}

Taken(email) == \E u \in Rows : u.email = email

(* A row is put under its id, unless another has its email. *)
Put(u) == /\ \A w \in Rows : w.email = u.email => w.id = u.id
          /\ past' = past \cup {u}
          /\ table' = [table EXCEPT ![u.id] = u]

(* The acknowledgement of a write reaches the request, or gets lost. *)
Ack(r, x) == \/ acked' = acked \cup {r} /\ result' = [result EXCEPT ![r] = x]
             \/ UNCHANGED <<acked, result>>

Merge(u, fields) ==
    [u EXCEPT !.email = IF fields.email = None THEN @ ELSE fields.email,
              !.name = IF fields.name = None THEN @ ELSE fields.name]

(* create and register: a row under an id that none has had. *)
Add(r) == /\ asked[r].op \in {"create", "register"}
          /\ \E i \in Ids : LET u == [id |-> i, email |-> asked[r].email, name |-> asked[r].name]
                           IN  (\A w \in past : w.id # i) /\ Put(u) /\ Ack(r, u)

(* An update of the row that is there, if not yet as the merged user is... *)
Revise(r, u) == LET row == table[u.id]
                IN  /\ row # None
                    /\ \E x \in User : /\ x.id = u.id
                                      /\ x.email \in {row.email, u.email}
                                      /\ x.name \in {row.name, u.name}
                                      /\ Put(x)
                    /\ Ack(r, u)
                    /\ r \in acked' => u \in Known(past')

Agree(r, u) == table[u.id] = u /\ Ack(r, u) /\ UNCHANGED <<table, past>>

(* ... and of one that has gone. *)
Restore(r, u) == table[u.id] = None /\ Put(u) /\ Ack(r, u)

Overlook(r, u) == /\ table[u.id] = None /\ UNCHANGED table
                  /\ past' = past \cup {u}
                  /\ Ack(r, u) /\ r \in acked'

Change(r) == /\ asked[r].op = "update"
             /\ \E w \in Known(past) :
                   /\ w.id = asked[r].id
                   /\ LET u == Merge(w, asked[r])
                      IN  Revise(r, u) \/ Agree(r, u) \/ Restore(r, u) \/ Overlook(r, u)

Drop(r) == /\ asked[r].op = "delete"
           /\ table' = [table EXCEPT ![asked[r].id] = None]
           /\ UNCHANGED past
           /\ Ack(r, None)

(* How a request that writes may end: as its acknowledgement says. *)
EndWriting(r) ==
    \E a \in {"ok", "notFound", "conflict", "dbError", "cacheError"} :
        /\ answer' = [answer EXCEPT ![r] = a]
        /\ a \in {"ok", "cacheError"} <=> r \in acked'
        /\ a = "cacheError" => asked[r].op \in {"update", "delete"}
        /\ a = "notFound" => asked[r].op \in {"update", "delete"} /\ table[asked[r].id] = None
        /\ a = "conflict" => asked[r].op # "delete" /\ Taken(asked[r].email)

(* A write, or another one after the acknowledgement of one was lost. *)
Write(r) == /\ r \notin acked
            /\ Add(r) \/ Change(r) \/ Drop(r)
            /\ UNCHANGED answer \/ EndWriting(r)

Refuse(r) == /\ asked[r].op \in Writing
             /\ EndWriting(r)
             /\ UNCHANGED <<table, past, acked, result>>

(* What a request that reads may be told. *)
Tell(r, x) == result' = [result EXCEPT ![r] = x] /\ answer' = [answer EXCEPT ![r] = "ok"]

Find(r) ==
    \/ /\ asked[r].op = "findById"
       /\ \E u \in Known(past) : u.id = asked[r].id /\ Tell(r, u)
    \/ /\ asked[r].op = "findByEmail"
       /\ \/ \E u \in Known(past) : u.email = asked[r].email /\ Tell(r, u)
          \/ ~Taken(asked[r].email) /\ Tell(r, None)
    \/ /\ asked[r].op = "findAll"
       /\ \E S \in SUBSET past : Tell(r, S)

Miss(r) == /\ \/ asked[r].op = "findById" /\ table[asked[r].id] = None
                 /\ answer' = [answer EXCEPT ![r] = "notFound"]
              \/ asked[r].op \notin Writing /\ answer' = [answer EXCEPT ![r] = "dbError"]
              \/ asked[r].op \in {"findByEmail", "findAll"}
                 /\ answer' = [answer EXCEPT ![r] = "cacheError"]
           /\ UNCHANGED result

Read(r) == UNCHANGED <<table, past, acked>> /\ (Find(r) \/ Miss(r))

Next == \E r \in Requests : /\ answer[r] = "none"
                            /\ UNCHANGED asked
                            /\ Write(r) \/ Refuse(r) \/ Read(r)

Spec == Init /\ [][Next]_dvars
=============================================================================
