----------------------------- MODULE ReplicaMath -----------------------------
(***************************************************************************)
(* The pure arithmetic of an AgentDeploy: how many replicas to render and  *)
(* how many of them one rollout pass may replace (pods.go), and the spec   *)
(* fields those two computations read.                                     *)
(*                                                                         *)
(* An optional field of the Go API (a pointer) is a value or Nil.          *)
(***************************************************************************)
EXTENDS Integers

CONSTANT Nil    \* an unset optional field

ASSUME NilAssumption == Nil \notin Int

DefaultMinReplicas == 1
DefaultMaxReplicas == 50

Optional(S) == S \cup {Nil}

(***************************************************************************)
(* Scale keeps the three fields of the autoscaling block that decide the   *)
(* replica count; MaxUnavailable is the IntOrString of the strategy: a     *)
(* string that is no percentage has the value Nil.                         *)
(***************************************************************************)
Scale == [disabled : BOOLEAN, min : Optional(Int), max : Optional(Int)]

MaxUnavailable == [percent : BOOLEAN, value : Int] \cup [percent : {TRUE}, value : {Nil}]

-----------------------------------------------------------------------------

atLeastOne(v) == IF v < 1 THEN 1 ELSE v

clampInt(v, lo, hi) == IF v < lo THEN lo ELSE IF v > hi THEN hi ELSE v

\* scaleBounds(s) = <<lo, hi>>; an inverted pair collapses onto its minimum.
LowBound(s) ==
  IF s.min # Nil /\ s.min > DefaultMinReplicas THEN s.min ELSE DefaultMinReplicas

HighBound(s) ==
  LET hi == IF s.max # Nil THEN s.max ELSE DefaultMaxReplicas
  IN  IF hi < LowBound(s) THEN LowBound(s) ELSE hi

\* The number of replica slots to render pods for: spec.replicas as written
\* when autoscaling is off, otherwise held within the scale bounds.
DesiredReplicas(s) ==
  IF s.scale.disabled
  THEN IF s.replicas = Nil THEN 1 ELSE atLeastOne(s.replicas)
  ELSE IF s.replicas = Nil
       THEN LowBound(s.scale)
       ELSE clampInt(s.replicas, LowBound(s.scale), HighBound(s.scale))

-----------------------------------------------------------------------------

DefaultMaxUnavailable == [percent |-> TRUE, value |-> 25]

GetMaxUnavailable(s) ==
  IF s.maxUnavailable = Nil THEN DefaultMaxUnavailable ELSE s.maxUnavailable

\* Percentages scale with the replica count and round up (the roundUp
\* argument of GetScaledValueFromIntOrPercent).
ScaledUp(mu, total) ==
  IF mu.percent THEN (mu.value * total + 99) \div 100 ELSE mu.value

Malformed(mu) == mu.value = Nil

\* Mutant of ResolveMaxUnavailable: the budget is not floored at one.
ResolveUnfloored(s, desired) ==
  LET mu == GetMaxUnavailable(s)
  IN  IF Malformed(mu) THEN 1 ELSE ScaledUp(mu, desired)

\* The replacement budget of one pass: one if the percentage cannot be read,
\* and never below one.
ResolveMaxUnavailable(s, desired) ==
  LET mu == GetMaxUnavailable(s)
  IN  IF Malformed(mu) THEN 1 ELSE atLeastOne(ScaledUp(mu, desired))

=============================================================================
