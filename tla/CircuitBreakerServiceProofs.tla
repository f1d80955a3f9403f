--------------------- MODULE CircuitBreakerServiceProofs ---------------------
(***************************************************************************)
(* Proofs about CircuitBreakerService, for any set of services, of calls   *)
(* and of configurations, complete or partial.                             *)
(*                                                                         *)
(* The argument is per breaker.  Sound(b, cfg, k, t) says what is true at  *)
(* time t of a breaker b built with cfg whose service has failed k times   *)
(* in a row; the lemmas show that every synchronous section of the class   *)
(* keeps it, and the passing of time too.  The invariant of the service is *)
(* Sound of every entry in the map, a new breaker for every other name,    *)
(* and that no call runs through a breaker that is not there.              *)
(***************************************************************************)
EXTENDS CircuitBreakerService, TLAPS

(* What the class keeps true of one breaker.  The last conjunct bounds the *)
(* window: without it a failure that comes late, on a breaker already      *)
(* open, might bring the recovery time forward.                            *)
Sound(b, cfg, k, t) ==
    /\ b.failureCount = k
    /\ b.state = "CLOSED" => ~AtLeast(b.failureCount, cfg.threshold)
    /\ b.state # "OPEN" => ~Less(t, b.nextAttemptTime)
    /\ \/ b.nextAttemptTime = 0
       \/ b.nextAttemptTime = NaN /\ cfg.recovery = NaN
       \/ /\ b.nextAttemptTime # NaN /\ cfg.recovery # NaN
          /\ b.nextAttemptTime <= t + cfg.recovery

EntrySound(s) ==
    IF Registered(s)
    THEN Sound(breaker[s], config[s], streak[s], now)
    ELSE breaker[s] = NewBreaker /\ streak[s] = 0

Inv == /\ TypeOK
       /\ \A s \in Services : EntrySound(s)
       /\ \A c \in Calls, s \in Services : Running(c, s) => Registered(s)

-----------------------------------------------------------------------------
(* The sections of the class, one lemma each: they return breakers and     *)
(* keep Sound.                                                             *)

(* A breaker fresh from the constructor or from reset is sound. *)
LEMMA NewBreakerSound ==
    ASSUME NEW cfg \in ConfigType, NEW t \in Nat
    PROVE  NewBreaker \in Breaker /\ Sound(NewBreaker, cfg, 0, t)
BY NaNAssumption DEF NewBreaker, Breaker, States, Sound, ConfigType, AtLeast, Less

(* Letting a call in, which execute does only when RejectsAt is false. *)
LEMMA AdmittedSound ==
    ASSUME NEW b \in Breaker, NEW cfg \in ConfigType, NEW k \in Nat, NEW t \in Nat,
           Sound(b, cfg, k, t), ~RejectsAt(b, t)
    PROVE  Admitted(b) \in Breaker /\ Sound(Admitted(b), cfg, k, t)
BY NaNAssumption
   DEF Admitted, RejectsAt, Breaker, States, Sound, ConfigType, AtLeast, Less

(* onSuccess, in any of the three states. *)
LEMMA SucceededSound ==
    ASSUME NEW b \in Breaker, NEW cfg \in ConfigType, NEW k \in Nat, NEW t \in Nat,
           Sound(b, cfg, k, t)
    PROVE  Succeeded(b) \in Breaker /\ Sound(Succeeded(b), cfg, 0, t)
<1> DEFINE r == Succeeded(b)
<1>1. /\ r \in Breaker
      /\ r.failureCount = 0 /\ r.nextAttemptTime = b.nextAttemptTime
      /\ r.state = IF b.state = "HALF_OPEN" THEN "CLOSED" ELSE b.state
  BY DEF Succeeded, Breaker, States
<1> HIDE DEF r
<1>2. Sound(r, cfg, 0, t)
  BY <1>1, NaNAssumption DEF Breaker, Sound, ConfigType, AtLeast
<1>3. QED BY <1>1, <1>2 DEF r

(* onFailure, in any of the three states. *)
LEMMA FailedSound ==
    ASSUME NEW b \in Breaker, NEW cfg \in ConfigType, NEW k \in Nat, NEW t \in Nat,
           Sound(b, cfg, k, t)
    PROVE  FailedAt(b, cfg, t) \in Breaker /\ Sound(FailedAt(b, cfg, t), cfg, k + 1, t)
<1> DEFINE r == FailedAt(b, cfg, t)
           n == b.failureCount + 1
           counted == [b EXCEPT !.failureCount = n, !.lastFailureTime = t]
           opened == [counted EXCEPT !.state = "OPEN",
                                     !.nextAttemptTime = Plus(t, cfg.recovery)]
<1>1. n \in Nat /\ b.failureCount = k
  BY DEF Breaker, Sound
<1>2. r = IF AtLeast(counted.failureCount, cfg.threshold) THEN opened ELSE counted
  BY DEF FailedAt
<1> HIDE DEF r, n
<1>3. /\ counted \in Breaker /\ counted.failureCount = n
      /\ counted.state = b.state /\ counted.nextAttemptTime = b.nextAttemptTime
  BY <1>1 DEF Breaker
<1> HIDE DEF counted
<1>4. Plus(t, cfg.recovery) \in Nat \cup {NaN}
  BY DEF Plus, ConfigType
<1>5. /\ opened \in Breaker /\ opened.failureCount = n
      /\ opened.state = "OPEN" /\ opened.nextAttemptTime = Plus(t, cfg.recovery)
  BY <1>3, <1>4 DEF Breaker, States
<1> HIDE DEF opened
<1>6. n = k + 1
  BY <1>1 DEF n
<1>7. CASE AtLeast(counted.failureCount, cfg.threshold)
  <2>1. r = opened
    BY <1>2, <1>7
  <2>2. \/ r.nextAttemptTime = NaN /\ cfg.recovery = NaN
        \/ /\ r.nextAttemptTime # NaN /\ cfg.recovery # NaN
           /\ r.nextAttemptTime <= t + cfg.recovery
    BY <1>5, <2>1, NaNAssumption DEF Plus, ConfigType
  <2>3. QED BY <1>5, <1>6, <2>1, <2>2 DEF Sound, r
<1>8. CASE ~AtLeast(counted.failureCount, cfg.threshold)
  <2>1. r = counted
    BY <1>2, <1>8
  <2>2. Sound(r, cfg, k + 1, t)
    BY <1>3, <1>6, <1>8, <2>1 DEF Sound
  <2>3. QED BY <1>3, <2>1, <2>2 DEF r
<1>9. QED BY <1>7, <1>8

(* forceOpen. *)
LEMMA ForcedOpenSound ==
    ASSUME NEW b \in Breaker, NEW cfg \in ConfigType, NEW k \in Nat, NEW t \in Nat,
           Sound(b, cfg, k, t)
    PROVE  ForcedOpenAt(b, cfg, t) \in Breaker /\ Sound(ForcedOpenAt(b, cfg, t), cfg, k, t)
<1> DEFINE r == ForcedOpenAt(b, cfg, t)
<1>1. Plus(t, cfg.recovery) \in Nat \cup {NaN}
  BY DEF Plus, ConfigType
<1>2. /\ r \in Breaker
      /\ r.failureCount = b.failureCount
      /\ r.state = "OPEN"
      /\ r.nextAttemptTime = Plus(t, cfg.recovery)
  BY <1>1 DEF ForcedOpenAt, Breaker, States
<1> HIDE DEF r
<1>3. Sound(r, cfg, k, t)
  BY <1>2, NaNAssumption DEF Sound, ConfigType, Plus
<1>4. QED BY <1>2, <1>3 DEF r

(* The clock moves on while the breaker stands still. *)
LEMMA TimeSound ==
    ASSUME NEW b \in Breaker, NEW cfg \in ConfigType, NEW k \in Nat, NEW t \in Nat,
           Sound(b, cfg, k, t)
    PROVE  Sound(b, cfg, k, t + 1)
BY NaNAssumption DEF Breaker, States, Sound, ConfigType, AtLeast, Less

-----------------------------------------------------------------------------
(* Calls, resets and ticks keep the invariant of the service. *)

LEMMA InitInv == Init => Inv
<1> SUFFICES ASSUME Init PROVE Inv
  OBVIOUS
<1>1. NewBreaker \in Breaker
  BY DEF NewBreaker, Breaker, States
<1>2. TypeOK
  BY <1>1 DEF Init, TypeOK, Call, Phases
<1>3. \A s \in Services : EntrySound(s)
  BY DEF Init, EntrySound, Registered
<1>4. \A c \in Calls, s \in Services : Running(c, s) => Registered(s)
  BY DEF Init, Running
<1>5. QED BY <1>2, <1>3, <1>4 DEF Inv

(* The configuration a call finds in the map, and those of the others. *)
LEMMA Lookups ==
    ASSUME Inv, NEW s \in Services, NEW cfg \in Configs, GetCircuitBreaker(s, cfg)
    PROVE  /\ config' \in [Services -> Configs \cup {Absent}]
           /\ config'[s] \in Configs
           /\ Registered(s) => config'[s] = config[s]
           /\ \A z \in Services \ {s} : config'[z] = config[z]
           /\ \A z \in Services : Registered(z) => Registered(z)'
           /\ Sound(breaker[s], config'[s], streak[s], now)
<1>1. config \in [Services -> Configs \cup {Absent}] /\ now \in Nat
  BY DEF Inv, TypeOK
<1>2. /\ config' \in [Services -> Configs \cup {Absent}]
      /\ config'[s] \in Configs
      /\ Registered(s) => config'[s] = config[s]
      /\ \A z \in Services \ {s} : config'[z] = config[z]
  BY <1>1, ConfigAssumption DEF GetCircuitBreaker, Registered
<1>3. \A z \in Services : Registered(z) => Registered(z)'
  BY <1>2, ConfigAssumption DEF Registered
<1>4. Sound(breaker[s], config'[s], streak[s], now)
  <2>1. EntrySound(s)
    BY DEF Inv
  <2>2. CASE Registered(s)
    BY <1>2, <2>1, <2>2 DEF EntrySound
  <2>3. CASE ~Registered(s)
    <3>1. config'[s] \in ConfigType
      BY <1>2, ConfigAssumption
    <3>2. Sound(NewBreaker, config'[s], 0, now)
      BY <1>1, <3>1, NewBreakerSound
    <3>3. QED BY <2>1, <2>3, <3>2 DEF EntrySound
  <2>4. QED BY <2>2, <2>3
<1>5. QED BY <1>2, <1>3, <1>4

(* A step that changes the breaker and the count of one service keeps the  *)
(* invariant if it leaves that breaker sound.                              *)
LEMMA OneService ==
    ASSUME Inv, NEW s \in Services, NEW b \in Breaker, NEW k \in Nat,
           Registered(s)', config' \in [Services -> Configs \cup {Absent}],
           \A z \in Services \ {s} : config'[z] = config[z],
           breaker' = [breaker EXCEPT ![s] = b],
           streak' = [streak EXCEPT ![s] = k],
           now' = now, call' \in [Calls -> Call],
           \A c \in Calls, z \in Services : Running(c, z)' => Registered(z)',
           Sound(b, config'[s], k, now)
    PROVE  Inv'
<1>1. TypeOK'
  BY DEF Inv, TypeOK
<1>2. ASSUME NEW z \in Services PROVE EntrySound(z)'
  <2>1. CASE z = s
    <3>1. breaker'[s] = b /\ streak'[s] = k
      BY DEF Inv, TypeOK
    <3>2. QED BY <2>1, <3>1 DEF EntrySound, Registered
  <2>2. CASE z # s
    <3>1. /\ breaker'[z] = breaker[z] /\ streak'[z] = streak[z]
          /\ config'[z] = config[z]
      BY <2>2 DEF Inv, TypeOK
    <3>2. EntrySound(z)
      BY DEF Inv
    <3>3. QED BY <3>1, <3>2 DEF EntrySound, Registered
  <2>3. QED BY <2>1, <2>2
<1>3. QED BY <1>1, <1>2 DEF Inv

LEMMA NextInv == Inv /\ [Next]_vars => Inv'
<1> SUFFICES ASSUME Inv, [Next]_vars PROVE Inv'
  OBVIOUS
<1>t. TypeOK /\ now \in Nat /\ now + 1 \in Nat
  BY DEF Inv, TypeOK
<1>r. \A s \in Services : /\ breaker[s] \in Breaker /\ streak[s] \in Nat
                          /\ Registered(s) => config[s] \in ConfigType
                          /\ breaker = [breaker EXCEPT ![s] = breaker[s]]
                          /\ streak = [streak EXCEPT ![s] = streak[s]]
  BY <1>t, ConfigAssumption DEF TypeOK, Registered
<1>k. \A c \in Calls, s \in Services : Running(c, s) => Registered(s)
  BY DEF Inv
<1>e. \A s \in Services : Registered(s) => Sound(breaker[s], config[s], streak[s], now)
  BY DEF Inv, EntrySound
<1>1. ASSUME NEW s \in Services, Lookup(s) PROVE Inv'
  <2>1. GetCircuitBreaker(s, DefaultConfig)
    BY <1>1 DEF Lookup
  <2>2. /\ config' \in [Services -> Configs \cup {Absent}]
        /\ config'[s] \in Configs
        /\ \A z \in Services \ {s} : config'[z] = config[z]
        /\ \A z \in Services : Registered(z) => Registered(z)'
        /\ Sound(breaker[s], config'[s], streak[s], now)
    BY <2>1, Lookups, ConfigAssumption
  <2>3. Registered(s)'
    BY <2>2, ConfigAssumption DEF Registered
  <2>4. \A c \in Calls, z \in Services : Running(c, z)' => Registered(z)'
    BY <1>1, <1>k, <2>2 DEF Lookup, Running
  <2>5. /\ breaker' = [breaker EXCEPT ![s] = breaker[s]]
        /\ streak' = [streak EXCEPT ![s] = streak[s]]
        /\ now' = now /\ call' \in [Calls -> Call]
    BY <1>1, <1>r, <1>t DEF Lookup, TypeOK
  <2>6. QED BY <1>r, <2>2, <2>3, <2>4, <2>5, OneService
<1>2. ASSUME NEW s \in Services, NEW c \in Calls, NEW cfg \in Configs,
             Admit(c, s, cfg) \/ Reject(c, s, cfg)
      PROVE  Inv'
  <2>1. GetCircuitBreaker(s, cfg)
    BY <1>2 DEF Admit, Reject
  <2>2. /\ config' \in [Services -> Configs \cup {Absent}]
        /\ config'[s] \in Configs
        /\ \A z \in Services \ {s} : config'[z] = config[z]
        /\ \A z \in Services : Registered(z) => Registered(z)'
        /\ Sound(breaker[s], config'[s], streak[s], now)
    BY <2>1, Lookups
  <2>3. Registered(s)' /\ config'[s] \in ConfigType
    BY <2>2, ConfigAssumption DEF Registered
  <2>4. /\ call' \in [Calls -> Call] /\ now' = now
        /\ streak' = [streak EXCEPT ![s] = streak[s]]
    BY <1>2, <1>r, <1>t DEF Admit, Reject, TypeOK, Call, Phases
  <2>5. \A d \in Calls, z \in Services : Running(d, z)' => Registered(z)'
    <3> SUFFICES ASSUME NEW d \in Calls, NEW z \in Services, Running(d, z)', z # s
                 PROVE  Registered(z)'
      BY <2>3
    <3>1. Running(d, z)
      BY <1>2, <1>t DEF Admit, Reject, Running, TypeOK
    <3>2. QED BY <1>k, <2>2, <3>1
  <2>6. CASE Admit(c, s, cfg)
    <3>1. /\ ~RejectsAt(breaker[s], now)
          /\ breaker' = [breaker EXCEPT ![s] = Admitted(breaker[s])]
      BY <2>6 DEF Admit
    <3>2. /\ Admitted(breaker[s]) \in Breaker
          /\ Sound(Admitted(breaker[s]), config'[s], streak[s], now)
      BY <1>r, <1>t, <2>2, <2>3, <3>1, AdmittedSound
    <3>3. QED BY <1>r, <2>2, <2>3, <2>4, <2>5, <3>1, <3>2, OneService
  <2>7. CASE Reject(c, s, cfg)
    <3>1. breaker' = [breaker EXCEPT ![s] = breaker[s]]
      BY <1>r, <2>7 DEF Reject
    <3>2. QED BY <1>r, <2>2, <2>3, <2>4, <2>5, <3>1, OneService
  <2>8. QED BY <1>2, <2>6, <2>7
<1>3. ASSUME NEW c \in Calls, NEW s \in Services, Succeed(c, s) \/ Fail(c, s)
      PROVE  Inv'
  <2>1. /\ config' = config /\ now' = now
        /\ call' = [call EXCEPT ![c].phase = call'[c].phase]
        /\ call'[c].phase \in {"resolved", "failed"}
    BY <1>3, <1>t DEF Succeed, Fail, TypeOK, Call
  <2>2. /\ Registered(s) /\ Registered(s)' /\ config'[s] \in ConfigType
        /\ config' \in [Services -> Configs \cup {Absent}]
    BY <1>3, <1>k, <1>r, <1>t, <2>1 DEF Succeed, Fail, Registered, TypeOK
  <2>3. call' \in [Calls -> Call]
    BY <1>t, <2>1 DEF TypeOK, Call, Phases
  <2>4. \A d \in Calls, z \in Services : Running(d, z)' => Registered(z)'
    <3> SUFFICES ASSUME NEW d \in Calls, NEW z \in Services, Running(d, z)'
                 PROVE  Registered(z)'
      OBVIOUS
    <3>1. Running(d, z)
      <4>1. CASE d = c
        BY <2>1, <4>1 DEF Running
      <4>2. CASE d # c
        BY <1>t, <2>1, <4>2 DEF Running, TypeOK
      <4>3. QED BY <4>1, <4>2
    <3>2. QED BY <1>k, <2>1, <3>1 DEF Registered
  <2>5. CASE Succeed(c, s)
    <3>1. /\ breaker' = [breaker EXCEPT ![s] = Succeeded(breaker[s])]
          /\ streak' = [streak EXCEPT ![s] = 0]
      BY <2>5 DEF Succeed
    <3>2. /\ Succeeded(breaker[s]) \in Breaker
          /\ Sound(Succeeded(breaker[s]), config'[s], 0, now)
      BY <1>e, <1>r, <1>t, <2>1, <2>2, SucceededSound
    <3>3. QED BY <2>1, <2>2, <2>3, <2>4, <3>1, <3>2, OneService
  <2>6. CASE Fail(c, s)
    <3>1. /\ breaker' = [breaker EXCEPT ![s] = FailedAt(breaker[s], config[s], now)]
          /\ streak' = [streak EXCEPT ![s] = streak[s] + 1]
      BY <2>6 DEF Fail
    <3>2. /\ FailedAt(breaker[s], config[s], now) \in Breaker
          /\ Sound(FailedAt(breaker[s], config[s], now), config'[s], streak[s] + 1, now)
      BY <1>e, <1>r, <1>t, <2>1, <2>2, FailedSound
    <3>3. streak[s] + 1 \in Nat
      BY <1>r
    <3>4. QED BY <2>1, <2>2, <2>3, <2>4, <3>1, <3>2, <3>3, OneService
  <2>7. QED BY <1>3, <2>5, <2>6
<1>4. ASSUME NEW s \in Services, ResetCircuitBreaker(s) PROVE Inv'
  <2>1. /\ Registered(s) /\ config' = config /\ now' = now /\ call' = call
        /\ breaker' = [breaker EXCEPT ![s] = NewBreaker]
        /\ streak' = [streak EXCEPT ![s] = 0]
    BY <1>4 DEF ResetCircuitBreaker, Reset
  <2>2. NewBreaker \in Breaker /\ Sound(NewBreaker, config'[s], 0, now)
    BY <1>r, <1>t, <2>1, NewBreakerSound
  <2>3. QED
    BY <1>k, <1>t, <2>1, <2>2, OneService DEF Registered, Running, TypeOK
<1>5. ASSUME ResetAllCircuitBreakers PROVE Inv'
  <2>1. /\ config' = config /\ now' = now /\ call' = call
        /\ breaker' = [s \in Services |-> NewBreaker]
        /\ streak' = [s \in Services |-> 0]
    BY <1>5 DEF ResetAllCircuitBreakers, Reset
  <2>2. NewBreaker \in Breaker
    BY DEF NewBreaker, Breaker, States
  <2>3. TypeOK'
    BY <1>t, <2>1, <2>2 DEF TypeOK
  <2>4. ASSUME NEW s \in Services PROVE EntrySound(s)'
    <3>1. Registered(s) => Sound(NewBreaker, config[s], 0, now)
      BY <1>r, <1>t, NewBreakerSound
    <3>2. QED BY <2>1, <3>1 DEF EntrySound, Registered
  <2>5. QED BY <1>k, <2>1, <2>3, <2>4 DEF Inv, Running, Registered
<1>6. ASSUME NEW s \in Services, ForceOpenCircuitBreaker(s) PROVE Inv'
  <2>1. /\ Registered(s) /\ config' = config /\ now' = now /\ call' = call
        /\ breaker' = [breaker EXCEPT ![s] = ForcedOpenAt(breaker[s], config[s], now)]
        /\ streak' = [streak EXCEPT ![s] = streak[s]]
    BY <1>6, <1>r DEF ForceOpenCircuitBreaker
  <2>2. /\ ForcedOpenAt(breaker[s], config[s], now) \in Breaker
        /\ Sound(ForcedOpenAt(breaker[s], config[s], now), config'[s], streak[s], now)
    BY <1>e, <1>r, <1>t, <2>1, ForcedOpenSound
  <2>3. QED
    BY <1>k, <1>r, <1>t, <2>1, <2>2, OneService DEF Registered, Running, TypeOK
<1>7. ASSUME Tick PROVE Inv'
  <2>1. /\ config' = config /\ breaker' = breaker /\ call' = call
        /\ streak' = streak /\ now' = now + 1
    BY <1>7 DEF Tick
  <2>2. TypeOK'
    BY <1>t, <2>1 DEF TypeOK
  <2>3. ASSUME NEW s \in Services PROVE EntrySound(s)'
    <3>1. EntrySound(s)
      BY DEF Inv
    <3>2. Registered(s) => Sound(breaker[s], config[s], streak[s], now + 1)
      BY <1>e, <1>r, <1>t, TimeSound
    <3>3. QED BY <2>1, <3>1, <3>2 DEF EntrySound, Registered
  <2>4. QED BY <1>k, <2>1, <2>2, <2>3 DEF Inv, Running, Registered
<1>8. CASE UNCHANGED vars
  BY <1>8 DEF vars, Inv, TypeOK, EntrySound, Registered, Running
<1>9. QED
  BY <1>1, <1>2, <1>3, <1>4, <1>5, <1>6, <1>7, <1>8
     DEF Next, ServiceStep, Execute, Settle

-----------------------------------------------------------------------------
(* The results. *)

(* Every behaviour of the service keeps its invariant. *)
THEOREM SpecInv == Spec => []Inv
<1>1. Init => Inv
  BY InitInv
<1>2. Inv /\ [Next]_vars => Inv'
  BY NextInv
<1>3. QED BY <1>1, <1>2, PTL DEF Spec

(* The map, the breakers in it and the calls in flight stay well formed. *)
THEOREM TypeCorrect == Spec => []TypeOK
<1>1. Inv => TypeOK
  BY DEF Inv
<1>2. QED BY <1>1, SpecInv, PTL

(* onFailure leaves no breaker closed whose service has failed threshold   *)
(* times in a row: failureCount is the length of that row, although late   *)
(* answers, half-open successes and resets all write to it.                *)
THEOREM ClosedMeansBelowThreshold == Spec => []ClosedBelowThreshold
<1>1. Inv => ClosedBelowThreshold
  BY DEF Inv, EntrySound, Sound, ClosedBelowThreshold
<1>2. QED BY <1>1, SpecInv, PTL

(* No breaker is half open or closed before the recovery time of its last  *)
(* opening (execute, onSuccess).                                           *)
THEOREM WindowAlwaysServed == Spec => []WindowServed
<1>1. Inv => WindowServed
  <2> SUFFICES ASSUME Inv, NEW s \in Services, breaker[s].state # "OPEN"
               PROVE  ~Less(now, breaker[s].nextAttemptTime)
    BY DEF WindowServed
  <2>1. EntrySound(s) /\ now \in Nat
    BY DEF Inv, TypeOK
  <2>2. CASE Registered(s)
    BY <2>1, <2>2 DEF EntrySound, Sound
  <2>3. CASE ~Registered(s)
    BY <2>1, <2>3 DEF EntrySound, NewBreaker, Less
  <2>4. QED BY <2>2, <2>3
<1>2. QED BY <1>1, SpecInv, PTL

(* What a single section of the class can do to a breaker that is turning  *)
(* callers away: nothing but reset makes it stop within the same instant.  *)
LEMMA RefusalKept ==
    ASSUME NEW b \in Breaker, NEW cfg \in ConfigType, NEW k \in Nat, NEW t \in Nat,
           Sound(b, cfg, k, t), RejectsAt(b, t)
    PROVE  /\ RejectsAt(Succeeded(b), t)
           /\ RejectsAt(FailedAt(b, cfg, t), t)
           /\ RejectsAt(ForcedOpenAt(b, cfg, t), t)
<1>1. /\ b.state = "OPEN" /\ b.nextAttemptTime \in Nat /\ t < b.nextAttemptTime
      /\ cfg.recovery \in Nat /\ b.nextAttemptTime <= t + cfg.recovery
  BY NaNAssumption DEF RejectsAt, Less, Sound, Breaker, ConfigType
<1>2. Plus(t, cfg.recovery) \in Nat /\ t < Plus(t, cfg.recovery)
  BY <1>1, NaNAssumption DEF Plus
<1>3. RejectsAt(Succeeded(b), t)
  BY <1>1 DEF Succeeded, RejectsAt, Breaker, Less
<1>4. RejectsAt(ForcedOpenAt(b, cfg, t), t)
  <2>1. /\ ForcedOpenAt(b, cfg, t).state = "OPEN"
        /\ ForcedOpenAt(b, cfg, t).nextAttemptTime = Plus(t, cfg.recovery)
    BY DEF ForcedOpenAt, Breaker
  <2>2. QED BY <1>2, <2>1, NaNAssumption DEF RejectsAt, Less
<1>5. RejectsAt(FailedAt(b, cfg, t), t)
  <2> DEFINE counted == [b EXCEPT !.failureCount = b.failureCount + 1,
                                  !.lastFailureTime = t]
             opened == [counted EXCEPT !.state = "OPEN",
                                       !.nextAttemptTime = Plus(t, cfg.recovery)]
  <2>1. FailedAt(b, cfg, t) \in {counted, opened}
    BY DEF FailedAt
  <2>2. counted.state = "OPEN" /\ counted.nextAttemptTime = b.nextAttemptTime
    BY <1>1 DEF Breaker
  <2>3. opened.state = "OPEN" /\ opened.nextAttemptTime = Plus(t, cfg.recovery)
    BY DEF Breaker
  <2> HIDE DEF counted, opened
  <2>4. RejectsAt(counted, t) /\ RejectsAt(opened, t)
    BY <1>1, <1>2, <2>2, <2>3, NaNAssumption DEF RejectsAt, Less
  <2>5. QED BY <2>1, <2>4
<1>6. QED BY <1>3, <1>4, <1>5

(* No late answer, and no forced opening, cuts short the window of a       *)
(* breaker that is turning callers away: only time and a reset end it.     *)
THEOREM RefusalEndsOnlyByTimeOrReset == Spec => RefusalEndsByTimeOrReset
<1> DEFINE Kept(s) == RejectsAt(breaker[s], now) /\ ~RejectsAt(breaker'[s], now')
                         => now' > now \/ breaker'[s] = NewBreaker
           A == \A s \in Services : Kept(s)
<1>1. Inv /\ [Next]_vars => [A]_vars
  <2> SUFFICES ASSUME Inv, Next, NEW s \in Services, RejectsAt(breaker[s], now)
               PROVE  RejectsAt(breaker'[s], now') \/ now' > now \/ breaker'[s] = NewBreaker
    OBVIOUS
  <2>1. /\ breaker[s] \in Breaker /\ streak[s] \in Nat /\ now \in Nat
        /\ breaker \in [Services -> Breaker] /\ EntrySound(s)
    BY DEF Inv, TypeOK
  <2>2. Registered(s) /\ config[s] \in ConfigType
    <3>1. ~RejectsAt(NewBreaker, now)
      BY DEF RejectsAt, NewBreaker
    <3>2. Registered(s)
      BY <2>1, <3>1 DEF EntrySound
    <3>3. config[s] \in Configs
      BY <3>2 DEF Inv, TypeOK, Registered
    <3>4. QED BY <3>2, <3>3, ConfigAssumption
  <2>3. /\ RejectsAt(Succeeded(breaker[s]), now)
        /\ RejectsAt(FailedAt(breaker[s], config[s], now), now)
        /\ RejectsAt(ForcedOpenAt(breaker[s], config[s], now), now)
    BY <2>1, <2>2, RefusalKept DEF EntrySound
  <2>4. ASSUME NEW z \in Services, ServiceStep(z)
        PROVE  RejectsAt(breaker'[s], now') \/ breaker'[s] = NewBreaker
    <3>1. CASE Lookup(z)
      BY <3>1 DEF Lookup
    <3>2. CASE ResetCircuitBreaker(z)
      BY <2>1, <3>2 DEF ResetCircuitBreaker, Reset
    <3>3. CASE ForceOpenCircuitBreaker(z)
      BY <2>1, <2>3, <3>3 DEF ForceOpenCircuitBreaker
    <3>4. ASSUME NEW c \in Calls, NEW cfg \in Configs, Admit(c, z, cfg)
          PROVE  RejectsAt(breaker'[s], now')
      BY <2>1, <3>4 DEF Admit
    <3>5. ASSUME NEW c \in Calls, NEW cfg \in Configs, Reject(c, z, cfg)
          PROVE  RejectsAt(breaker'[s], now')
      BY <3>5 DEF Reject
    <3>6. QED BY <2>4, <3>1, <3>2, <3>3, <3>4, <3>5 DEF ServiceStep, Execute
  <2>5. ASSUME NEW c \in Calls, NEW z \in Services, Succeed(c, z)
        PROVE  RejectsAt(breaker'[s], now')
    BY <2>1, <2>3, <2>5 DEF Succeed
  <2>6. ASSUME NEW c \in Calls, NEW z \in Services, Fail(c, z)
        PROVE  RejectsAt(breaker'[s], now')
    BY <2>1, <2>3, <2>6 DEF Fail
  <2>7. CASE ResetAllCircuitBreakers
    BY <2>7 DEF ResetAllCircuitBreakers, Reset
  <2>8. CASE Tick
    BY <2>1, <2>8 DEF Tick
  <2>9. QED BY <2>4, <2>5, <2>6, <2>7, <2>8 DEF Next, Settle
<1>2. QED BY <1>1, SpecInv, PTL DEF Spec, RefusalEndsByTimeOrReset

(* The count behind every opening: a failing call opens a breaker only     *)
(* with as many failures in a row as the threshold asks, however calls     *)
(* that were admitted before or after overlap with it.                     *)
THEOREM OpeningsAreEarned == Spec => TripIsEarned
<1> DEFINE Opened(s) == breaker[s].state # "OPEN" /\ breaker'[s].state = "OPEN"
           Earned(s) == Opened(s) /\ streak'[s] > streak[s]
                           => AtLeast(streak'[s], config[s].threshold)
           A == \A s \in Services : Earned(s)
<1>1. Inv /\ [Next]_vars => [A]_vars
  <2> SUFFICES ASSUME Inv, Next, NEW s \in Services, Opened(s), streak'[s] > streak[s]
               PROVE  AtLeast(streak'[s], config[s].threshold)
    OBVIOUS
  <2>1. /\ breaker \in [Services -> Breaker] /\ streak \in [Services -> Nat]
        /\ EntrySound(s)
    BY DEF Inv, TypeOK
  <2>2. ASSUME NEW c \in Calls, NEW z \in Services, Fail(c, z)
        PROVE  AtLeast(streak'[s], config[s].threshold)
    <3>1. z = s
      BY <2>1, <2>2 DEF Fail
    <3>2. /\ breaker'[s] = FailedAt(breaker[s], config[s], now)
          /\ streak'[s] = streak[s] + 1
      BY <2>1, <2>2, <3>1 DEF Fail
    <3>3. breaker[s].failureCount = streak[s]
      <4>1. Running(c, s)
        BY <2>2, <3>1 DEF Fail
      <4>2. Registered(s)
        BY <4>1 DEF Inv
      <4>3. QED BY <2>1, <4>2 DEF EntrySound, Sound
    <3>4. AtLeast(breaker[s].failureCount + 1, config[s].threshold)
      <4> SUFFICES ASSUME ~AtLeast(breaker[s].failureCount + 1, config[s].threshold)
                   PROVE  FALSE
        OBVIOUS
      <4> DEFINE counted == [breaker[s] EXCEPT !.failureCount = @ + 1,
                                               !.lastFailureTime = now]
      <4>1. /\ counted.failureCount = breaker[s].failureCount + 1
            /\ counted.state = breaker[s].state
        BY <2>1 DEF Breaker
      <4>2. FailedAt(breaker[s], config[s], now) = counted
        BY <4>1 DEF FailedAt
      <4>3. QED BY <3>2, <4>1, <4>2
    <3>5. QED BY <3>2, <3>3, <3>4
  <2>3. ASSUME NEW z \in Services, ServiceStep(z)
        PROVE  streak'[s] = streak[s] \/ streak'[s] = 0
    BY <2>1, <2>3 DEF ServiceStep, Lookup, ResetCircuitBreaker,
                      ForceOpenCircuitBreaker, Execute, Admit, Reject
  <2>4. ASSUME NEW c \in Calls, NEW z \in Services, Succeed(c, z)
        PROVE  streak'[s] = streak[s] \/ streak'[s] = 0
    BY <2>1, <2>4 DEF Succeed
  <2>5. CASE ResetAllCircuitBreakers
    BY <2>1, <2>5 DEF ResetAllCircuitBreakers
  <2>6. CASE Tick
    BY <2>1, <2>6 DEF Tick
  <2>7. streak[s] \in Nat
    BY <2>1
  <2>8. QED BY <2>2, <2>3, <2>4, <2>5, <2>6, <2>7 DEF Next, Settle
<1>2. QED BY <1>1, SpecInv, PTL DEF Spec, TripIsEarned

-----------------------------------------------------------------------------
(* The service implements Gate.  When a breaker opens, as its callers see  *)
(* it: the three states drop out.                                          *)
Opens(b) == IF b.nextAttemptTime = NaN THEN 0 ELSE b.nextAttemptTime

Gates == [s \in Services |-> Opens(breaker[s])]

(* Whether a call is turned away is a matter of time alone: a breaker that *)
(* is not open has served its window.                                      *)
LEMMA ShutByTime ==
    ASSUME Inv, NEW s \in Services
    PROVE  RejectsAt(breaker[s], now) <=> Promise!Shut(s)
<1>1. /\ breaker[s] \in Breaker /\ now \in Nat
      /\ breaker[s].state # "OPEN" => ~Less(now, breaker[s].nextAttemptTime)
  BY NaNAssumption DEF Inv, TypeOK, EntrySound, Sound, NewBreaker, Less
<1>2. Promise!Shut(s) <=> now < Opens(breaker[s])
  BY DEF Promise!Shut, Opens
<1>3. now < Opens(breaker[s]) <=> Less(now, breaker[s].nextAttemptTime)
  BY <1>1, NaNAssumption DEF Opens, Less, Breaker
<1>4. QED BY <1>1, <1>2, <1>3 DEF RejectsAt

(* What the sections of the class do to the gate. *)
LEMMA AdmittedKeepsGate ==
    ASSUME NEW b \in Breaker
    PROVE  Opens(Admitted(b)) = Opens(b)
BY DEF Admitted, Opens, Breaker

LEMMA SucceededKeepsGate ==
    ASSUME NEW b \in Breaker
    PROVE  Opens(Succeeded(b)) = Opens(b)
BY DEF Succeeded, Opens, Breaker

LEMMA NewBreakerOpen == Opens(NewBreaker) = 0
BY NaNAssumption DEF Opens, NewBreaker

LEMMA ForcedOpenShuts ==
    ASSUME NEW b \in Breaker, NEW cfg \in ConfigType, NEW t \in Nat
    PROVE  Opens(ForcedOpenAt(b, cfg, t)) = IF cfg.recovery = NaN THEN 0 ELSE t + cfg.recovery
<1>1. ForcedOpenAt(b, cfg, t).nextAttemptTime = Plus(t, cfg.recovery)
  BY DEF ForcedOpenAt, Breaker
<1>2. cfg.recovery # NaN => t + cfg.recovery # NaN
  BY NaNAssumption DEF ConfigType
<1>3. QED BY <1>1, <1>2 DEF Opens, Plus

LEMMA FailedShuts ==
    ASSUME NEW b \in Breaker, NEW cfg \in ConfigType, NEW t \in Nat
    PROVE  Opens(FailedAt(b, cfg, t)) =
              IF cfg.threshold # NaN /\ b.failureCount + 1 >= cfg.threshold
              THEN IF cfg.recovery = NaN THEN 0 ELSE t + cfg.recovery
              ELSE Opens(b)
<1> DEFINE counted == [b EXCEPT !.failureCount = @ + 1, !.lastFailureTime = t]
<1>1. counted.failureCount = b.failureCount + 1 /\ Opens(counted) = Opens(b)
  BY DEF Opens, Breaker
<1>2. PICK e : e = Plus(t, cfg.recovery)
  OBVIOUS
<1>3. [counted EXCEPT !.state = "OPEN", !.nextAttemptTime = e].nextAttemptTime = e
  BY DEF Breaker
<1>4. FailedAt(b, cfg, t) = IF AtLeast(counted.failureCount, cfg.threshold)
                            THEN [counted EXCEPT !.state = "OPEN", !.nextAttemptTime = e]
                            ELSE counted
  BY <1>2 DEF FailedAt
<1>5. cfg.recovery # NaN => t + cfg.recovery # NaN
  BY NaNAssumption DEF ConfigType
<1> HIDE DEF counted
<1>6. CASE AtLeast(counted.failureCount, cfg.threshold)
  BY <1>1, <1>2, <1>3, <1>4, <1>5, <1>6 DEF Opens, Plus, AtLeast
<1>7. CASE ~AtLeast(counted.failureCount, cfg.threshold)
  BY <1>1, <1>4, <1>7 DEF AtLeast
<1>8. QED BY <1>6, <1>7

(* One breaker moves, the other gates stay. *)
LEMMA GatesMove ==
    ASSUME Inv, NEW s \in Services, NEW b, breaker' = [breaker EXCEPT ![s] = b]
    PROVE  Gates' = [Gates EXCEPT ![s] = Opens(b)]
BY DEF Inv, TypeOK, Gates

LEMMA NamedTerms ==
    ASSUME NEW s \in Services, NEW cfg \in Configs, GetCircuitBreaker(s, cfg)
    PROVE  Promise!Name(s)
BY DEF GetCircuitBreaker, Promise!Name

LEMMA GateNext == Inv /\ [Next]_vars => [Promise!Next]_Promise!gvars
<1> SUFFICES ASSUME Inv, [Next]_vars PROVE [Promise!Next]_Promise!gvars
  OBVIOUS
<1>t. /\ now \in Nat /\ \A s \in Services : breaker[s] \in Breaker
      /\ breaker \in [Services -> Breaker] /\ streak \in [Services -> Nat]
      /\ \A s \in Services : Registered(s) => config[s] \in ConfigType
  BY ConfigAssumption DEF Inv, TypeOK, Registered
<1>g. Gates = [s \in Services |-> IF breaker[s].nextAttemptTime = NaN THEN 0
                                  ELSE breaker[s].nextAttemptTime]
  BY DEF Gates, Opens
<1>g2. Gates' = [s \in Services |-> IF breaker'[s].nextAttemptTime = NaN THEN 0
                                    ELSE breaker'[s].nextAttemptTime]
  BY DEF Gates, Opens
<1>s. ASSUME NEW s \in Services
      PROVE  [Gates EXCEPT ![s] = Opens(breaker[s])] = Gates
  BY DEF Gates
<1>1. ASSUME NEW s \in Services, Lookup(s) PROVE Promise!Next
  <2>1. Promise!Name(s) /\ UNCHANGED <<now, streak, Gates, call>>
    BY <1>1, NamedTerms, ConfigAssumption DEF Lookup, Gates
  <2>2. Promise!Look(s)
    BY <1>g, <1>g2, <2>1 DEF Promise!Look
  <2>3. QED BY <2>2 DEF Promise!Next
<1>2. ASSUME NEW c \in Calls, NEW s \in Services, NEW cfg \in Configs, Admit(c, s, cfg)
      PROVE  Promise!Next
  <2>1. /\ ~Promise!Shut(s) /\ Promise!Name(s)
        /\ breaker' = [breaker EXCEPT ![s] = Admitted(breaker[s])]
    BY <1>2, ShutByTime, NamedTerms DEF Admit
  <2>2. Gates' = Gates
    <3>1. Gates' = [Gates EXCEPT ![s] = Opens(Admitted(breaker[s]))]
      BY <2>1, GatesMove
    <3>2. Opens(Admitted(breaker[s])) = Opens(breaker[s])
      BY <1>t, AdmittedKeepsGate
    <3>3. QED BY <1>s, <3>1, <3>2
  <2>3. Promise!Enter(c, s)
    BY <1>2, <1>g, <1>g2, <2>1, <2>2 DEF Admit, Promise!Enter
  <2>4. QED BY <2>3 DEF Promise!Next
<1>3. ASSUME NEW c \in Calls, NEW s \in Services, NEW cfg \in Configs, Reject(c, s, cfg)
      PROVE  Promise!Next
  <2>1. Promise!Shut(s) /\ Promise!Name(s) /\ Gates' = Gates
    BY <1>3, ShutByTime, NamedTerms DEF Reject, Gates
  <2>2. Promise!Refuse(c, s)
    BY <1>3, <1>g, <1>g2, <2>1 DEF Reject, Promise!Refuse
  <2>3. QED BY <2>2 DEF Promise!Next
<1>4. ASSUME NEW c \in Calls, NEW s \in Services, Succeed(c, s) PROVE Promise!Next
  <2>1. breaker' = [breaker EXCEPT ![s] = Succeeded(breaker[s])]
    BY <1>4 DEF Succeed
  <2>2. Gates' = Gates
    <3>1. Gates' = [Gates EXCEPT ![s] = Opens(Succeeded(breaker[s]))]
      BY <2>1, GatesMove
    <3>2. Opens(Succeeded(breaker[s])) = Opens(breaker[s])
      BY <1>t, SucceededKeepsGate
    <3>3. QED BY <1>s, <3>1, <3>2
  <2>3. Promise!Succeed(c, s)
    BY <1>4, <1>g, <1>g2, <2>2 DEF Succeed, Running, Promise!Succeed, Promise!Inside
  <2>4. QED BY <2>3 DEF Promise!Next
<1>5. ASSUME NEW c \in Calls, NEW s \in Services, Fail(c, s) PROVE Promise!Next
  <2>1. /\ breaker' = [breaker EXCEPT ![s] = FailedAt(breaker[s], config[s], now)]
        /\ Registered(s) /\ config[s] \in ConfigType
    BY <1>5, <1>t DEF Fail, Inv
  <2>2. breaker[s].failureCount = streak[s]
    BY <2>1 DEF Inv, EntrySound, Sound
  <2>3. Opens(FailedAt(breaker[s], config[s], now)) =
           IF Promise!TooMany(s, streak[s] + 1) THEN Promise!End(s) ELSE Gates[s]
    BY <1>t, <2>1, <2>2, FailedShuts DEF Promise!TooMany, Promise!End, Gates
  <2>4. Gates' = [Gates EXCEPT ![s] = IF Promise!TooMany(s, streak[s] + 1)
                                      THEN Promise!End(s) ELSE Gates[s]]
    BY <2>1, <2>3, GatesMove
  <2>5. Promise!Fail(c, s)
    BY <1>5, <1>g, <1>g2, <2>4 DEF Fail, Running, Promise!Fail, Promise!Inside
  <2>6. QED BY <2>5 DEF Promise!Next
<1>6. ASSUME NEW some \in SUBSET Services, UNCHANGED <<config, call, now>>,
             breaker' = [s \in Services |-> IF s \in some THEN NewBreaker ELSE breaker[s]],
             streak' = [s \in Services |-> IF s \in some THEN 0 ELSE streak[s]]
      PROVE  Promise!Next
  <2>1. Gates' = [s \in Services |-> IF s \in some THEN 0 ELSE Gates[s]]
    BY <1>6, NewBreakerOpen DEF Gates
  <2>2. Promise!Reset
    BY <1>6, <1>g, <1>g2, <2>1 DEF Promise!Reset
  <2>3. QED BY <2>2 DEF Promise!Next
<1>7. ASSUME NEW s \in Services, ResetCircuitBreaker(s) PROVE Promise!Next
  <2>1. /\ breaker' = [z \in Services |-> IF z \in {s} THEN NewBreaker ELSE breaker[z]]
        /\ streak' = [z \in Services |-> IF z \in {s} THEN 0 ELSE streak[z]]
    BY <1>7, <1>t DEF ResetCircuitBreaker, Reset
  <2>2. QED BY <1>6, <1>7, <2>1 DEF ResetCircuitBreaker
<1>8. CASE ResetAllCircuitBreakers
  <2>1. /\ breaker' = [z \in Services |-> IF z \in Services THEN NewBreaker ELSE breaker[z]]
        /\ streak' = [z \in Services |-> IF z \in Services THEN 0 ELSE streak[z]]
    BY <1>8 DEF ResetAllCircuitBreakers, Reset
  <2>2. QED BY <1>6, <1>8, <2>1 DEF ResetAllCircuitBreakers
<1>9. ASSUME NEW s \in Services, ForceOpenCircuitBreaker(s) PROVE Promise!Next
  <2>1. /\ breaker' = [breaker EXCEPT ![s] = ForcedOpenAt(breaker[s], config[s], now)]
        /\ Registered(s) /\ config[s] \in ConfigType
    BY <1>9, <1>t DEF ForceOpenCircuitBreaker
  <2>2. Opens(ForcedOpenAt(breaker[s], config[s], now)) = Promise!End(s)
    BY <1>t, <2>1, ForcedOpenShuts DEF Promise!End
  <2>3. Gates' = [Gates EXCEPT ![s] = Promise!End(s)]
    BY <2>1, <2>2, GatesMove
  <2>4. Promise!Force(s)
    BY <1>9, <1>g, <1>g2, <2>1, <2>3 DEF ForceOpenCircuitBreaker, Registered, Promise!Force
  <2>5. QED BY <2>4 DEF Promise!Next
<1>10. CASE Tick
  <2>1. Promise!Tick
    BY <1>10 DEF Tick, Promise!Tick
  <2>2. QED BY <2>1 DEF Promise!Next
<1>11. CASE UNCHANGED vars
  BY <1>11 DEF vars, Promise!gvars
<1>12. QED
  BY <1>1, <1>2, <1>3, <1>4, <1>5, <1>7, <1>8, <1>9, <1>10, <1>11
     DEF Next, ServiceStep, Execute, Settle

(* The breakers implement Gate: what their callers can tell is a count of  *)
(* failures in a row and a time.  Whatever calls overlap, HALF_OPEN lets   *)
(* as many in as CLOSED, and a success closes nothing that time had not    *)
(* opened (circuit-breaker.ts, execute, onSuccess, onFailure).             *)
THEOREM BreakersImplementGate == Spec => ImplementsGate
<1>1. Init => Promise!Init
  BY NewBreakerOpen DEF Init, Promise!Init, Opens
<1>2. QED BY <1>1, GateNext, SpecInv, PTL DEF Spec, ImplementsGate, Promise!Spec
=============================================================================
