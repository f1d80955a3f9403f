------------------------------ MODULE Broadcast ------------------------------
(***************************************************************************)
(* What a stream of messages promises its readers: a message published on  *)
(* a topic is put in the inbox of every reader that has joined the topic   *)
(* and of nobody else, once and in the order of publication.  A reader may *)
(* be dropped at any time, and from then on is sent nothing.               *)
(*                                                                         *)
(* log is the sequence of topics published on; a message is its index.     *)
(***************************************************************************)
EXTENDS Integers, Sequences

CONSTANTS Readers, Topics

VARIABLES log, topic, joined, inbox

bvars == <<log, topic, joined, inbox>>

Init == /\ log = <<>>
        /\ topic \in [Readers -> Topics]
        /\ joined = {}
        /\ inbox = [c \in Readers |-> <<>>]

(* A reader picks a topic, and starts with an empty inbox. *)
Open(c) == /\ c \notin joined
           /\ \E t \in Topics : topic' = [topic EXCEPT ![c] = t]
           /\ inbox' = [inbox EXCEPT ![c] = <<>>]
           /\ UNCHANGED <<log, joined>>

Join(c) == /\ inbox[c] = <<>>
           /\ joined' = joined \cup {c}
           /\ UNCHANGED <<log, topic, inbox>>

Drop == /\ joined' \in SUBSET joined
        /\ UNCHANGED <<log, topic, inbox>>

Publish(t) == /\ log' = Append(log, t)
              /\ inbox' = [c \in Readers |->
                    IF c \in joined /\ topic[c] = t
                    THEN Append(inbox[c], Len(log) + 1) ELSE inbox[c]]
              /\ UNCHANGED <<topic, joined>>

Next == \/ \E c \in Readers : Open(c) \/ Join(c)
        \/ Drop
        \/ \E t \in Topics : Publish(t)

Spec == Init /\ [][Next]_bvars
=============================================================================
