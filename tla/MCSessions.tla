---------------------------- MODULE MCSessions ------------------------------
EXTENDS Sessions
CONSTANTS r1, r2, r3, u1, u2, s1, s2, s3

WithToken(op, s, kind) == [op |-> op, user |-> None, sid |-> s, kind |-> kind]
ForUser(op, u) == [op |-> op, user |-> u, sid |-> None, kind |-> "access"]

(* u1 has the session s1, u2 has s2; s3 is for a login or a refresh. *)
MCLoggedIn == [s \in Sessions |-> CASE s = s1 -> u1 [] s = s2 -> u2 [] OTHER -> None]

Validate(s) == {WithToken("validate", s, k) : k \in Kinds}
Refresh(s) == {WithToken("refresh", s, "refresh")}
Logout(s) == {WithToken("logout", s, k) : k \in Kinds}

(* A validation, or a login; anything that ends a session; and a last call *)
(* for a session of u1.  Two logouts, with either token each, leave r1 to  *)
(* be refused or not.                                                      *)
MCMenu == [r \in Requests |->
    CASE r = r1 -> Validate(s1) \cup {ForUser("login", u1)}
      [] r = r2 -> Logout(s1) \cup Refresh(s1) \cup {ForUser("logoutAll", u1)}
      [] r = r3 -> Validate(s1) \cup Logout(s1) \cup Refresh(s1) \cup Validate(s3)]
=============================================================================
