-------------------------------- MODULE Gate --------------------------------
(***************************************************************************)
(* What the breakers promise their callers, told without their states: a   *)
(* service has a gate, which lets a call enter unless it is shut.  As many *)
(* failures in a row as the service's terms allow shut it for a while, and *)
(* so does every failure on top of them, or an operator; time or a reset   *)
(* opens it.  A success starts the count afresh and opens nothing.         *)
(*                                                                         *)
(* There is no trial of a single call in this promise, and no difference   *)
(* between a gate that has never been shut and one that time has opened.   *)
(***************************************************************************)
EXTENDS Integers

CONSTANTS Services, Calls,
          Terms,     \* [threshold, recovery]: failures in a row that shut a
                     \* gate, and for how long
          Missing,   \* what terms say that leave one of the two out
          Absent     \* the terms of a service that no call has named

VARIABLES clock,
          terms,     \* [Services -> Terms or Absent]
          run,       \* [Services -> failures since the last success or reset]
          until,     \* [Services -> when the gate opens]
          call       \* [Calls -> the caller's phase and service]

gvars == <<clock, terms, run, until, call>>

Init == /\ clock = 0
        /\ terms = [s \in Services |-> Absent]
        /\ run = [s \in Services |-> 0]
        /\ until = [s \in Services |-> 0]
        /\ call \in [Calls -> [phase : {"idle"}, service : Services]]

(* The first terms that are named are the service's. *)
Name(s) == \E t \in Terms : terms' = [terms EXCEPT ![s] = IF @ = Absent THEN t ELSE @]

Shut(s) == clock < until[s]

(* A gate whose terms have no recovery is shut for no time at all. *)
End(s) == IF terms[s].recovery = Missing THEN 0 ELSE clock + terms[s].recovery

Look(s) == Name(s) /\ UNCHANGED <<clock, run, until, call>>

Enter(c, s) == /\ call[c].phase # "running"
               /\ ~Shut(s)
               /\ Name(s)
               /\ call' = [call EXCEPT ![c] = [phase |-> "running", service |-> s]]
               /\ UNCHANGED <<clock, run, until>>

Refuse(c, s) == /\ call[c].phase # "running"
                /\ Shut(s)
                /\ Name(s)
                /\ call' = [call EXCEPT ![c] = [phase |-> "rejected", service |-> s]]
                /\ UNCHANGED <<clock, run, until>>

Inside(c, s) == call[c].phase = "running" /\ call[c].service = s

Succeed(c, s) == /\ Inside(c, s)
                 /\ call' = [call EXCEPT ![c].phase = "resolved"]
                 /\ run' = [run EXCEPT ![s] = 0]
                 /\ UNCHANGED <<clock, terms, until>>

TooMany(s, n) == terms[s].threshold # Missing /\ n >= terms[s].threshold

Fail(c, s) ==
    /\ Inside(c, s)
    /\ call' = [call EXCEPT ![c].phase = "failed"]
    /\ run' = [run EXCEPT ![s] = @ + 1]
    /\ until' = [until EXCEPT ![s] = IF TooMany(s, run[s] + 1) THEN End(s) ELSE @]
    /\ UNCHANGED <<clock, terms>>

(* An operator opens some gates, or shuts one. *)
Reset == \E some \in SUBSET Services :
            /\ run' = [s \in Services |-> IF s \in some THEN 0 ELSE run[s]]
            /\ until' = [s \in Services |-> IF s \in some THEN 0 ELSE until[s]]
            /\ UNCHANGED <<clock, terms, call>>

Force(s) == /\ terms[s] # Absent
            /\ until' = [until EXCEPT ![s] = End(s)]
            /\ UNCHANGED <<clock, terms, run, call>>

Tick == clock' = clock + 1 /\ UNCHANGED <<terms, run, until, call>>

Next == \/ \E s \in Services : Look(s) \/ Force(s)
        \/ \E c \in Calls, s \in Services :
              Enter(c, s) \/ Refuse(c, s) \/ Succeed(c, s) \/ Fail(c, s)
        \/ Reset
        \/ Tick

Spec == Init /\ [][Next]_gvars
=============================================================================
