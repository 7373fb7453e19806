------------------------------ MODULE Decision ------------------------------
(***************************************************************************)
(* What the autoscaler decides from one snapshot (scaling/decision), as a  *)
(* function: Decide and the pacing around it.                              *)
(*                                                                         *)
(* Floating point is exact here: percentages are integers, a confidence    *)
(* counts tenths, and the target in-flight level of a replica is a         *)
(* fraction over TargetUnit.  The knee is a positive integer; its lower    *)
(* bound 1e-9 is thus never reached.  Counts are int32; what a step        *)
(* converted from uint32 adds to them wraps around.                        *)
(***************************************************************************)
EXTENDS Integers

CONSTANTS
  defaultKneePerReplica, DefaultMinReplicas,
  SignBit           \* 2^31

ASSUME DecisionAssumption ==
  /\ defaultKneePerReplica \in Nat \ {0} /\ SignBit \in Nat \ {0}
  /\ DefaultMinReplicas \in 1 .. SignBit - 1

confFloor == 6          \* tenths
TargetUnit == 100000    \* tenths of a knee, percent, percent

Lower(a, b) == IF a <= b THEN a ELSE b
Higher(a, b) == IF a >= b THEN a ELSE b

Int32 == -SignBit .. SignBit - 1

\* A uint32, or a sum of two int32, as int32.
int32(n) ==
  CASE n >= SignBit  -> n - 2 * SignBit
    [] n < -SignBit  -> n + 2 * SignBit
    [] n \in Int32   -> n

clamp(v, lo, hi) == Higher(lo, Lower(v, hi))

minMax(spec) ==
  LET min == Higher(spec.min, DefaultMinReplicas) IN [min |-> min, max |-> Higher(spec.max, min)]

\* The replicas the sample was measured over, else those that serve.
inflightBasis(in) ==
  CASE in.sample.replicas > 0 -> in.sample.replicas
    [] in.sample.replicas <= 0 /\ in.ready > 0 -> in.ready
    [] OTHER -> in.current

\* Zero stands for the default, and more than 100 percent for 100.
targetSaturation(spec) == IF spec.saturation = 0 THEN 80 ELSE Lower(spec.saturation, 100)

\* The knee is blended from the default to the learned one, and discounted
\* down to confFloor, as confidence grows from 0 to 10 tenths.
scalingTarget(spec, est) ==
  LET knee == 10 * defaultKneePerReplica
              + (est.knee - defaultKneePerReplica) * est.confidence
  IN knee * targetSaturation(spec) * (10 * confFloor + (10 - confFloor) * est.confidence)

CeilDiv(a, b) == (a + b - 1) \div b

Total(in) == in.sample.inflight * inflightBasis(in)

Keep(in) == [replicas |-> in.current, skip |-> TRUE]
Move(n) == [replicas |-> n, skip |-> FALSE]

\* Nothing is added when the rate limit is what holds the load back.
scaleUp(in, desired) ==
  IF \/ in.maxInFlight > 0 /\ Total(in) >= in.maxInFlight
     \/ in.sinceLast < in.spec.upCooldown
  THEN Keep(in)
  ELSE Move(int32(in.current + Lower(desired - in.current, int32(in.spec.stepUp))))

\* Mutant of scaleDown: no step cap.
scaleDownAtOnce(in, desired) ==
  IF in.sinceLast < in.spec.downCooldown THEN Keep(in) ELSE Move(desired)

scaleDown(in, desired) ==
  IF in.sinceLast < in.spec.downCooldown THEN Keep(in)
  ELSE Move(int32(in.current - Lower(in.current - desired, int32(in.spec.stepDown))))

\* Where the load wants the fleet to be.
Sized(in) ==
  LET range == minMax(in.spec) IN
  clamp(CeilDiv(Total(in) * TargetUnit, scalingTarget(in.spec, in.est)), range.min, range.max)

Decide(in) ==
  LET range == minMax(in.spec) IN
  CASE range.min = range.max ->
         [replicas |-> range.min, skip |-> in.current = range.min]
    [] range.min # range.max /\ in.current \notin range.min .. range.max ->
         Move(clamp(in.current, range.min, range.max))
    [] range.min # range.max /\ in.current \in range.min .. range.max /\ Total(in) <= 0 ->
         IF in.current <= range.min \/ in.sinceLast < in.spec.downCooldown THEN Keep(in)
         ELSE Move(Higher(int32(in.current - int32(in.spec.stepDown)), range.min))
    [] OTHER ->
         CASE Sized(in) = in.current -> Keep(in)
           [] Sized(in) > in.current -> scaleUp(in, Sized(in))
           [] OTHER -> scaleDown(in, Sized(in))
=============================================================================
