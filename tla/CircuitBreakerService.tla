------------------------ MODULE CircuitBreakerService ------------------------
(***************************************************************************)
(* CircuitBreakerService: the map from service names to breakers, and the  *)
(* calls in flight through them.  A call enters through                    *)
(* executeWithCircuitBreaker (for the routes, through the interceptor),    *)
(* awaits the protected function, and comes back to a breaker that other   *)
(* calls, the clock, an operator's reset or forceOpen have moved on.       *)
(*                                                                         *)
(* The map entry of a service appears with the first call or lookup that   *)
(* names it, and its configuration is the one that call brought: here      *)
(* config[s] is Absent until then and breaker[s] is a new breaker.         *)
(***************************************************************************)
EXTENDS CircuitBreaker

CONSTANTS Services,       \* the names breakers are registered under
          Calls,          \* slots for concurrent calls
          Configs,        \* the configurations callers bring
          DefaultConfig,  \* the one getCircuitBreaker falls back to
          Absent,         \* the configuration of a name not in the map
          Forcible,       \* services whose breaker somebody forces open:
                          \* the method is public, nothing under src/ calls it
          MaxTime,        \* bound: the clock stops here
          MaxFailures     \* bound: on failureCount

ASSUME ConfigAssumption == /\ DefaultConfig \in Configs
                           /\ Configs \subseteq ConfigType
                           /\ Absent \notin Configs
ASSUME BoundAssumption == MaxTime \in Nat /\ MaxFailures \in Nat

VARIABLES breaker,   \* [Services -> Breaker], the objects in the map
          config,    \* [Services -> Configs or Absent], what each was built with
          call,      \* [Calls -> Call], what each caller is doing
          now,       \* Date.now(), taken to be monotonic
          streak     \* history: failures of each service since its last
                     \* success or reset, counted from the outcomes alone

vars == <<breaker, config, call, now, streak>>

Phases == {"idle", "running", "resolved", "failed", "rejected"}
Call == [phase : Phases, service : Services]

TypeOK == /\ breaker \in [Services -> Breaker]
          /\ config \in [Services -> Configs \cup {Absent}]
          /\ call \in [Calls -> Call]
          /\ now \in Nat
          /\ streak \in [Services -> Nat]

Init == /\ breaker = [s \in Services |-> NewBreaker]
        /\ config = [s \in Services |-> Absent]
        /\ call \in [Calls -> [phase : {"idle"}, service : Services]]
        /\ now = 0
        /\ streak = [s \in Services |-> 0]

-----------------------------------------------------------------------------
Running(c, s) == call[c].phase = "running" /\ call[c].service = s
Registered(s) == config[s] # Absent

(* getCircuitBreaker: the first configuration given for a name wins. *)
GetCircuitBreaker(s, cfg) ==
    config' = [config EXCEPT ![s] = IF @ = Absent THEN cfg ELSE @]

(* getCircuitBreaker(name) with no configuration, as the exception filter  *)
(* and the demo controller call it to read a status.                       *)
Lookup(s) == /\ GetCircuitBreaker(s, DefaultConfig)
             /\ UNCHANGED <<breaker, call, now, streak>>

(* execute up to the await, for a call let through ... *)
Admit(c, s, cfg) ==
    /\ call[c].phase # "running"
    /\ GetCircuitBreaker(s, cfg)
    /\ ~RejectsAt(breaker[s], now)
    /\ breaker' = [breaker EXCEPT ![s] = Admitted(@)]
    /\ call' = [call EXCEPT ![c] = [phase |-> "running", service |-> s]]
    /\ UNCHANGED <<now, streak>>

(* ... and for one turned away. *)
Reject(c, s, cfg) ==
    /\ call[c].phase # "running"
    /\ GetCircuitBreaker(s, cfg)
    /\ RejectsAt(breaker[s], now)
    /\ call' = [call EXCEPT ![c] = [phase |-> "rejected", service |-> s]]
    /\ UNCHANGED <<breaker, now, streak>>

(* The protected function settles, and execute goes on from its await. *)
Succeed(c, s) ==
    /\ Running(c, s)
    /\ breaker' = [breaker EXCEPT ![s] = Succeeded(@)]
    /\ call' = [call EXCEPT ![c].phase = "resolved"]
    /\ streak' = [streak EXCEPT ![s] = 0]
    /\ UNCHANGED <<config, now>>

Fail(c, s) ==
    /\ Running(c, s)
    /\ breaker[s].failureCount < MaxFailures
    /\ breaker' = [breaker EXCEPT ![s] = FailedAt(@, config[s], now)]
    /\ call' = [call EXCEPT ![c].phase = "failed"]
    /\ streak' = [streak EXCEPT ![s] = @ + 1]
    /\ UNCHANGED <<config, now>>

ResetCircuitBreaker(s) ==
    /\ Registered(s)
    /\ breaker' = [breaker EXCEPT ![s] = Reset(@)]
    /\ streak' = [streak EXCEPT ![s] = 0]
    /\ UNCHANGED <<config, call, now>>

(* Resetting an entry that is not in the map is no different here: its     *)
(* placeholder already is a new breaker.                                   *)
ResetAllCircuitBreakers ==
    /\ breaker' = [s \in Services |-> Reset(breaker[s])]
    /\ streak' = [s \in Services |-> 0]
    /\ UNCHANGED <<config, call, now>>

ForceOpenCircuitBreaker(s) ==
    /\ s \in Forcible
    /\ Registered(s)
    /\ breaker' = [breaker EXCEPT ![s] = ForcedOpenAt(@, config[s], now)]
    /\ UNCHANGED <<config, call, now, streak>>

Tick == /\ now < MaxTime
        /\ now' = now + 1
        /\ UNCHANGED <<breaker, config, call, streak>>

Execute(c, s) == \E cfg \in Configs : Admit(c, s, cfg) \/ Reject(c, s, cfg)
Settle(c) == \E s \in Services : Succeed(c, s) \/ Fail(c, s)

ServiceStep(s) == \/ Lookup(s)
                  \/ ResetCircuitBreaker(s)
                  \/ ForceOpenCircuitBreaker(s)
                  \/ \E c \in Calls : Execute(c, s)

Next == \/ \E s \in Services : ServiceStep(s)
        \/ \E c \in Calls : Settle(c)
        \/ ResetAllCircuitBreakers
        \/ Tick

Spec == Init /\ [][Next]_vars

(* Time passes, a protected function settles sooner or later, and requests *)
(* for every service keep arriving.  Nothing makes an operator reset.      *)
Fairness == /\ WF_vars(Tick)
            /\ \A c \in Calls : WF_vars(Settle(c))
            /\ \A s \in Services : SF_vars(\E c \in Calls : Execute(c, s))

FairSpec == Spec /\ Fairness

-----------------------------------------------------------------------------
(* A service whose breaker is closed has failed fewer times in a row than  *)
(* its threshold, whatever calls were in flight when it last opened or was *)
(* reset: onFailure never leaves a failing service unguarded.              *)
ClosedBelowThreshold ==
    \A s \in Services :
        Registered(s) /\ breaker[s].state = "CLOSED"
            => ~AtLeast(streak[s], config[s].threshold)

(* A breaker that lets calls through has served its whole window: no call  *)
(* is running half-open, and no success has closed the breaker, before the *)
(* recovery time of its last opening (execute, onSuccess).                 *)
WindowServed ==
    \A s \in Services :
        breaker[s].state # "OPEN" => ~Less(now, breaker[s].nextAttemptTime)

(* Once a breaker turns callers away only the clock or an operator's reset *)
(* makes it accept one: neither the late success nor the late failure of a *)
(* call admitted before it opened, nor forcing it open again, cuts the     *)
(* window short.                                                           *)
RefusalEndsByTimeOrReset ==
    [][\A s \in Services :
         RejectsAt(breaker[s], now) /\ ~RejectsAt(breaker'[s], now')
             => now' > now \/ breaker'[s] = NewBreaker]_vars

(* A failing call opens a breaker only after as many failures in a row as  *)
(* the threshold asks: successes of overlapping calls start the count      *)
(* afresh, and a breaker just reset or closed starts from nothing.         *)
TripIsEarned ==
    [][\A s \in Services :
         LET opened == breaker[s].state # "OPEN" /\ breaker'[s].state = "OPEN"
             failed == streak'[s] > streak[s]
         IN  opened /\ failed => AtLeast(streak'[s], config[s].threshold)]_vars

(* A breaker does not stay open for good: while requests arrive, one whose *)
(* recovery time lies within the modelled time leaves OPEN, unless it is   *)
(* opened anew for longer than that.                                       *)
EventuallyProbed ==
    \A s \in Services :
        LET due == breaker[s].nextAttemptTime \in 0 .. MaxTime
        IN  breaker[s].state = "OPEN" /\ due ~> breaker[s].state # "OPEN" \/ ~due

(* What callers can tell of the breakers, whatever overlaps: a count of     *)
(* failures in a row and a time, and neither the three states nor a probe.  *)
(* A late success closes a half-open breaker that others have entered, a    *)
(* late failure moves on an open one, a breaker half open still counts: to  *)
(* callers it is all the same as with the gate of Gate (execute, onSuccess, *)
(* onFailure, reset, forceOpen).                                            *)
Promise == INSTANCE Gate WITH
              Terms <- Configs, Missing <- NaN,
              clock <- now, terms <- config, run <- streak,
              until <- [s \in Services |-> IF breaker[s].nextAttemptTime = NaN THEN 0
                                           ELSE breaker[s].nextAttemptTime]

ImplementsGate == Promise!Spec

(* docs/modules/error-handling.md:700 draws HALF_OPEN --> OPEN for every   *)
(* failing call.  The code opens only at the threshold, and a call that    *)
(* succeeded late, while the breaker was open, has zeroed the count.       *)
HalfOpenFailureReopens ==
    [][\A s \in Services :
         breaker[s].state = "HALF_OPEN" /\ streak'[s] > streak[s]
             => breaker'[s].state = "OPEN"]_vars

(* circuit-breaker.ts:6 says that an open circuit fails fast: a breaker    *)
(* that a failure has opened does not admit a call at that same instant.   *)
OpenFailsFast ==
    [][\A s \in Services :
         breaker[s].state = "OPEN" /\ breaker'[s].state = "HALF_OPEN"
             => now > breaker[s].lastFailureTime]_vars
=============================================================================
