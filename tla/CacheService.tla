---------------------------- MODULE CacheService ----------------------------
(***************************************************************************)
(* CacheService over Redis: what each method does to the keys.  Every      *)
(* method is one Redis command, which can fail before it takes effect; get *)
(* and mget read a failure as a miss, the others throw.  An operator here  *)
(* is the command taking effect: a failure is a step that changes nothing. *)
(***************************************************************************)
EXTENDS Integers, Clock

CONSTANTS Keys, None,
          DefaultTTL,   \* defaultTTL
          Never         \* the expiry of an entry that has none

ASSUME CacheAssumption == DefaultTTL \in Nat \ {0} /\ Never \notin Nat

VARIABLE store    \* [Keys -> Entry or None]

Entry(Values) == [value : Values, expires : Nat \cup {Never}]

(* options.ttl || this.defaultTTL *)
EndOfNothing(ttl) ==    \* mistake: no default
    IF ttl \in {None, 0} THEN Never ELSE now + ttl

End(ttl) == now + IF ttl \in {None, 0} THEN DefaultTTL ELSE ttl

Get(k) == IF store[k] = None THEN None ELSE store[k].value

Set(k, v, ttl) == store' = [store EXCEPT ![k] = [value |-> v, expires |-> End(ttl)]]

Del(k) == store' = [store EXCEPT ![k] = None]

Flush == store' = [k \in Keys |-> None]

(* A pipeline of SETEX: exec does not reject when some of its commands     *)
(* fail, so mset succeeds with any part of the pairs written.              *)
MSet(pairs, ttl) ==
    \E done \in SUBSET DOMAIN pairs :
        store' = [k \in Keys |-> IF k \in done
                                 THEN [value |-> pairs[k], expires |-> End(ttl)]
                                 ELSE store[k]]

(* INCR and DECR: a key that is not there counts as 0, and gets no expiry; *)
(* one that is keeps its own.                                              *)
AddAnew(k, d) ==    \* mistake: a GET and a SET
    store' = [store EXCEPT ![k] = [value |-> d + IF @ = None THEN 0 ELSE @.value,
                                   expires |-> Never]]

Add(k, d) ==
    store' = [store EXCEPT ![k] = IF @ = None THEN [value |-> d, expires |-> Never]
                                  ELSE [@ EXCEPT !.value = store[k].value + d]]

Incr(k) == Add(k, 1)
Decr(k) == Add(k, -1)

(* EXPIRE: nothing on a key that is not there; a time that is over deletes. *)
Expire(k, ttl) ==
    store' = [store EXCEPT ![k] = IF @ = None \/ ttl =< 0 THEN None
                                  ELSE [@ EXCEPT !.expires = now + ttl]]

(* Redis drops what has expired. *)
Dropped(t) == [k \in Keys |-> IF store[k] # None /\ store[k].expires = t
                              THEN None ELSE store[k]]

(* An entry that can expire never becomes one that cannot.                 *)
TTLsAreKept ==
    [][\A k \in Keys :
         store[k] # None /\ store[k].expires # Never /\ store'[k] # None
             => store'[k].expires # Never]_store
=============================================================================
