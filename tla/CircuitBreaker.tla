--------------------------- MODULE CircuitBreaker ---------------------------
(***************************************************************************)
(* The circuit breaker of one provider in one process                      *)
(* (services/providers/circuit_breaker.py), as operators on its state.     *)
(* Time is counted in ticks.  last_failure_ts is read in OPEN only and     *)
(* last_probe_ts in HALF_OPEN only, and each is set on the way in, so one  *)
(* timer stands for both; counts and timers stop where nothing more        *)
(* depends on them.                                                        *)
(***************************************************************************)
EXTENDS Integers

CONSTANTS
  Threshold,  \* FAILURE_THRESHOLD
  Cooldown,   \* COOLDOWN_SECONDS
  ProbeGap    \* a probe is let through after more than this

ASSUME BreakerAssumption ==
  /\ Threshold \in Nat \ {0}
  /\ Cooldown \in Nat /\ ProbeGap \in Nat /\ Cooldown > ProbeGap

Breaker == [state : {"CLOSED", "OPEN", "HALF_OPEN"}, failures : 0 .. Threshold,
            since : 0 .. Cooldown]

Closed == [state |-> "CLOSED", failures |-> 0, since |-> 0]

Sooner(a, b) == IF a < b THEN a ELSE b

Ticked(b) == IF b.state = "CLOSED" THEN b ELSE [b EXCEPT !.since = Sooner(@ + 1, Cooldown)]

(* can_execute: the answer, and the state it leaves when the answer is yes. *)
Admits(b) ==
  \/ b.state = "CLOSED"
  \/ b.state = "OPEN" /\ b.since >= Cooldown
  \/ b.state = "HALF_OPEN" /\ b.since > ProbeGap

(* Variant: the time of the probe is not noted.                            *)
AdmittedUntimed(b) == IF b.state = "CLOSED" THEN b ELSE [b EXCEPT !.state = "HALF_OPEN"]

Admitted(b) ==
  IF b.state = "CLOSED" THEN b ELSE [b EXCEPT !.state = "HALF_OPEN", !.since = 0]

Succeeded(b) == Closed

Failed(b) ==
  LET n == Sooner(b.failures + 1, Threshold) IN
  IF n = Threshold THEN [state |-> "OPEN", failures |-> n, since |-> 0]
  ELSE [b EXCEPT !.failures = n]
=============================================================================
