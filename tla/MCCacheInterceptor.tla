------------------------- MODULE MCCacheInterceptor -------------------------
(* Two requests for a list, each of one user or another or of nobody; one  *)
(* counter.  A public handler of another controller has the same name, and *)
(* so the same key of @Cache: asked by nobody with ?user=u1:id:7&view=2,   *)
(* it gets the key of u1 asking for the list of 7, ?view=2.  Time goes on  *)
(* past the TTL, so that what a slow request wrote last has the time to    *)
(* get old.                                                                *)
EXTENDS CacheInterceptor, TLC

CONSTANTS r1, r2, counter

MCCounts == 0 .. 1

MCSegments == {"list", "user", "id", "view", "u1", "u2", "7", "2"}

MCHandlers == {"own", "public"}

MCBase == [h \in MCHandlers |-> <<"list">>]

MCQueryNames == <<<<"user">>, <<"view">>>>

MCQuery(user) == [x \in QuerySet |-> IF x = <<"view">> THEN <<"2">> ELSE user]

MCAsks ==
    [handler : {"own"}, user : {"u1", "u2"}, params : {<<<<"id", "7">>>>}, query : {MCQuery(None)}]
    \cup {[handler |-> "public", user |-> None, params |-> <<>>,
           query |-> MCQuery(<<"u1", "id", "7">>)]}

(* The keys of the asks, written out: TLC would build them at every step.  *)
(* And that of nobody asking for 7, which operators may delete too.        *)
MCKeys == {<<"list", "user", "u1", "id", "7", "view", "2">>,
           <<"list", "user", "u2", "id", "7", "view", "2">>,
           <<"list", "id", "7", "view", "2">>, counter}

Interchangeable == Permutations(Requests)
=============================================================================
