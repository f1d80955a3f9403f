--------------------------- MODULE MCUsersService ---------------------------
(* Instances of UsersService for TLC: one user in the table, a second email *)
(* to move to, a second name, one list query.                               *)
EXTENDS UsersService

CONSTANTS r1, r2, r3, u1, u2, u3

MCUsers == {[id |-> u1, email |-> "e1", name |-> "n1"]}

(* page 1, limit 10: the cache key is user-list:page:1:limit:10 *)
MCQuery == <<"page", "1", "limit", "10">>
MCQueries == {MCQuery}

Request(op, id, email, name) == [op |-> op, id |-> id, email |-> email, name |-> name]

Create == Request("create", None, "e2", "n1")
Registration == Request("register", None, "e2", "n1")
FindById == Request("findById", u1, None, None)
Move == Request("update", u1, "e2", None)
Rename == Request("update", u1, None, "n2")
Delete == Request("delete", u1, None, None)
FindByEmail == Request("findByEmail", None, "e1", None)
FindAll == Request("findAll", MCQuery, None, None)

Writers == {Create, Move, Rename, Delete}
Readers == {FindById, FindByEmail, FindAll}

(* A writer beside any other request, and a reader across both. *)
MCMenu == [r \in Requests |-> CASE r = r1 -> Writers
                                [] r = r2 -> Writers \cup Readers \cup {Registration}
                                [] r = r3 -> {FindById}]
MCSequential == [r \in Requests |-> {FindAll, Rename}]
MCDeleting == [r \in Requests |-> {FindById, Delete}]
=============================================================================
