--------------------------- MODULE CircuitBreaker ---------------------------
(***************************************************************************)
(* One circuit of the process-wide breaker (services/circuit_breaker.py)    *)
(* and the calls that pass through guard(): a call is admitted, awaits the  *)
(* vendor, and reports success or failure to a circuit that may have        *)
(* changed since, or is cancelled and reports nothing.  An admin's Test     *)
(* connection (connector_verification.py) resets the circuit.               *)
(*                                                                         *)
(* Each method holds the breaker's lock for its whole body, so it is one    *)
(* step.  The clock is abstracted to whether the cooldown has run out, and  *)
(* the cooldown to the number of times it was doubled.                      *)
(***************************************************************************)
EXTENDS Naturals, FiniteSets

CONSTANTS
  Callers,        \* calls of the connector that may be in flight at once
  Testers,        \* those made by Test connection
  FailThreshold,  \* FAIL_THRESHOLD
  MaxDoublings    \* doublings of COOLDOWN_SECONDS up to MAX_COOLDOWN_SECONDS

ASSUME TestersCall == Testers \subseteq Callers
ASSUME ThresholdIsPositive == FailThreshold \in Nat \ {0}
ASSUME DoublingsAreNat == MaxDoublings \in Nat

VARIABLES
  circuit,    \* the Circuit
  flight,     \* what each call is: not made, admitted, admitted as the probe
  abandoned,  \* history: a probe was cancelled since probing was last cleared
  meddled     \* history: a call other than the probe, or a reset, cleared probing

breakerVars == <<circuit, flight, abandoned, meddled>>

(* phase: opened_at is None; set and cooling down; set and past the cooldown. *)
FreshCircuit == [failures |-> 0, phase |-> "closed", doublings |-> 0, probing |-> FALSE]
Probes == {c \in Callers : flight[c] = "probe"}

(* Values stay in their types; failures counts no further than the threshold.*)
BreakerTypeOK ==
  /\ circuit \in [failures : 0..FailThreshold, phase : {"closed", "open", "half_open"},
                  doublings : 0..MaxDoublings, probing : BOOLEAN]
  /\ flight \in [Callers -> {"none", "plain", "probe"}]
  /\ abandoned \in BOOLEAN /\ meddled \in BOOLEAN

BreakerInit ==
  /\ circuit = FreshCircuit
  /\ flight = [c \in Callers |-> "none"]
  /\ abandoned = FALSE /\ meddled = FALSE

-----------------------------------------------------------------------------
(* check: closed admits everybody, half-open the first one.                  *)
AdmitsProbe == circuit.phase = "half_open" /\ ~circuit.probing
Refuses == circuit.phase # "closed" /\ ~AdmitsProbe

CallAdmitted(c) ==
  /\ flight[c] = "none" /\ circuit.phase = "closed"
  /\ flight' = [flight EXCEPT ![c] = "plain"]
  /\ UNCHANGED <<circuit, abandoned, meddled>>

CallProbes(c) ==
  /\ flight[c] = "none" /\ AdmitsProbe
  /\ flight' = [flight EXCEPT ![c] = "probe"]
  /\ circuit' = [circuit EXCEPT !.probing = TRUE]
  /\ abandoned' = FALSE /\ meddled' = (meddled /\ Probes # {})

(* Test connection, refused, drops the circuit and asks again.               *)
TestOverrides(c) ==
  /\ c \in Testers /\ flight[c] = "none" /\ Refuses
  /\ circuit' = FreshCircuit /\ flight' = [flight EXCEPT ![c] = "plain"]
  /\ meddled' = TRUE /\ abandoned' = FALSE

(* record_success closes the circuit whoever the caller is; Test connection  *)
(* then drops it, which leaves the same fields.                              *)
CallSucceeds(c) ==
  /\ flight[c] # "none" /\ flight' = [flight EXCEPT ![c] = "none"]
  /\ circuit' = FreshCircuit
  /\ meddled' = (meddled \/ flight[c] # "probe") /\ abandoned' = FALSE

(* record_failure: after a probe, whoever reports, the pause doubles;        *)
(* otherwise the threshold opens a closed circuit.                           *)
AfterFailureMutant == [circuit EXCEPT
  !.failures = IF @ < FailThreshold THEN @ + 1 ELSE FailThreshold,
  !.phase = IF circuit.failures + 1 >= FailThreshold THEN "open" ELSE circuit.phase]
AfterFailure ==
  LET failures == IF circuit.failures < FailThreshold THEN circuit.failures + 1 ELSE FailThreshold
  IN  IF circuit.probing
      THEN [failures |-> failures, phase |-> "open", probing |-> FALSE,
            doublings |-> IF circuit.doublings < MaxDoublings THEN circuit.doublings + 1
                          ELSE MaxDoublings]
      ELSE [circuit EXCEPT !.failures = failures,
              !.phase = IF failures >= FailThreshold /\ circuit.phase = "closed"
                        THEN "open" ELSE circuit.phase]

CallFails(c) ==
  /\ flight[c] # "none" /\ flight' = [flight EXCEPT ![c] = "none"]
  /\ circuit' = AfterFailure
  /\ meddled' = (meddled \/ flight[c] # "probe") /\ abandoned' = FALSE

(* guard catches Exception: a cancelled call (CancelledError, a killed task) *)
(* reports neither way.                                                      *)
CallCancelled(c) ==
  /\ flight[c] # "none" /\ flight' = [flight EXCEPT ![c] = "none"]
  /\ abandoned' = (abandoned \/ flight[c] = "probe")
  /\ UNCHANGED <<circuit, meddled>>

CooldownEnds ==
  /\ circuit.phase = "open" /\ circuit' = [circuit EXCEPT !.phase = "half_open"]
  /\ UNCHANGED <<flight, abandoned, meddled>>

CallNext(c) ==
  \/ CallAdmitted(c) \/ CallProbes(c) \/ TestOverrides(c)
  \/ CallSucceeds(c) \/ CallFails(c) \/ CallCancelled(c)

BreakerNext == CooldownEnds \/ \E c \in Callers : CallNext(c)

BreakerSpec == BreakerInit /\ [][BreakerNext]_breakerVars

-----------------------------------------------------------------------------
(* "Half-open admits exactly one caller" (check): two probes are out         *)
(* together only if a call that was not the probe, one admitted before the   *)
(* circuit opened or by an override, reported while the first one was out.   *)
OneProbeAtATime == Cardinality(Probes) > 1 => meddled

(* The flag that keeps every caller out belongs to a probe that will report, *)
(* so a circuit is never shut for good, except after a probe was cancelled:  *)
(* then only a call from before the opening or Test connection frees it.     *)
ProbeWillReport == circuit.probing => Probes # {} \/ abandoned

(* While a circuit is half-open one caller tries it, and its word decides:   *)
(* both of the above.                                                        *)
HalfOpenHolds == OneProbeAtATime /\ ProbeWillReport
=============================================================================
