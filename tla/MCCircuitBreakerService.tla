----------------------- MODULE MCCircuitBreakerService -----------------------
(* Instances of CircuitBreakerService for TLC: one run with interacting     *)
(* calls and configurations, and two small ones for the disagreements.     *)
EXTENDS CircuitBreakerService

CONSTANTS c1, c2, c3, s1

(* The default configuration is the more patient one, as in the code. *)
MCDefault == [threshold |-> 3, recovery |-> 2]
MCSpecific == [threshold |-> 2, recovery |-> 1]

(* { failureThreshold: 2 } alone, as a decorator's argument. *)
MCPartial == [threshold |-> 2, recovery |-> NaN]

MCConfigs == {MCDefault, MCSpecific}
MCConfigsWithPartial == {MCDefault, MCPartial}
=============================================================================
