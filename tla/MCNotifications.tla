--------------------------- MODULE MCNotifications ---------------------------
(* Two subscribers and two users.  It takes no more for one client to be   *)
(* late, the other to be on the Subject made since, and the first to cut   *)
(* the second off when it leaves.                                          *)
EXTENDS Notifications, TLC

CONSTANTS c1, c2, k1, u1, u2

Interchangeable == Permutations({c1, c2}) \cup Permutations({u1, u2})
=============================================================================
