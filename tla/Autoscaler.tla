------------------------------ MODULE Autoscaler ------------------------------
(***************************************************************************)
(* The draft-pool controller, dispec/router/autoscale.py: one observation  *)
(* of the load moves the replica count by at most one, up above one        *)
(* utilisation threshold and down below a lower one.                       *)
(*                                                                         *)
(* Abstracted: utilisations are tenths and the comparisons are multiplied  *)
(* out; the divisions of the code are exact enough for the same outcome.   *)
(***************************************************************************)
EXTENDS Integers

CONSTANTS
  MinReplicas, MaxReplicas, SeqsPerReplica,
  ScaleUpTenths, ScaleDownTenths,  \* scale_up_util, scale_down_util
  Loads                            \* the loads that may be observed

ASSUME ReplicaBounds ==
  /\ MinReplicas \in Nat \ {0} /\ MaxReplicas \in Nat /\ MinReplicas <= MaxReplicas
  /\ SeqsPerReplica \in Nat \ {0}

\* The band between the thresholds is wide enough for any replica count: the
\* defaults are 0.8 and 0.4.
ASSUME WideBand ==
  ScaleUpTenths \in Nat /\ ScaleDownTenths \in Nat /\ 2 * ScaleDownTenths <= ScaleUpTenths

ASSUME LoadsAreCounts == Loads \subseteq Nat

VARIABLES
  replicas,
  load,      \* ghost: the load observed last
  lastMove   \* ghost: the last change of replicas under that load

scalerVars == <<replicas, load, lastMove>>

Capacity == replicas * SeqsPerReplica

Overloaded(n) == 10 * n > ScaleUpTenths * Capacity

\* Mutant: one threshold for both directions.
UnderloadedAtOnce(n) == 10 * n < ScaleUpTenths * Capacity

Underloaded(n) == 10 * n < ScaleDownTenths * Capacity

Move(n) ==
  IF Overloaded(n) /\ replicas < MaxReplicas THEN 1
  ELSE IF Underloaded(n) /\ replicas > MinReplicas THEN -1 ELSE 0

Observe(n) == replicas' = replicas + Move(n)

-----------------------------------------------------------------------------
ScalerInit == replicas = MinReplicas /\ load = 0 /\ lastMove = 0

Observation(n) ==
  /\ Observe(n)
  /\ load' = n
  /\ lastMove' = IF Move(n) = 0 /\ n = load THEN lastMove ELSE Move(n)

\* The controller on its own: any load may be observed.
ScalerSpec == ScalerInit /\ [][\E n \in Loads : Observation(n)]_scalerVars

-----------------------------------------------------------------------------
\* Properties.

ScalerTypeOK ==
  replicas \in MinReplicas..MaxReplicas /\ load \in Nat /\ lastMove \in {-1, 0, 1}

\* Hysteresis (lines 6-7, "so it doesn't flap"): under a load that stays the
\* same the pool never turns around.
NoFlap == [][load' = load => lastMove' # -lastMove \/ lastMove = 0]_scalerVars
==============================================================================
