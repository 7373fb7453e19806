----------------------------- MODULE Autoscaler -----------------------------
(***************************************************************************)
(* The autoscaling loop of one AgentDeploy: the Sampler measures, the      *)
(* Autoscaler's workers decide and patch spec.replicas, the AgentDeploy    *)
(* controller follows and reports, and users edit the AgentSet.            *)
(*                                                                         *)
(* The knee is known and trusted (confidence 10).  Times are ages, counted *)
(* up to the bound at which nothing depends on them.  A sample is the      *)
(* total in-flight load; load is what clients cause.  Healthy stands for   *)
(* enabled, Running, and some replica ready.  The pods of the controller   *)
(* are only counted; how it replaces them is the subject of AgentDeploy.   *)
(***************************************************************************)
EXTENDS Decision

CONSTANTS
  Workers, Loads,
  Ranges,           \* the [min, max] users write
  StepUp, StepDown, UpCooldown, DownCooldown,
  Knee,
  maxSampleAge,
  MaxLoadChanges, MaxEdits,   \* bounds
  None

ASSUME AutoscalerAssumption ==
  /\ UpCooldown \in Nat /\ DownCooldown \in Nat /\ maxSampleAge \in Nat
  /\ StepUp \in 1 .. SignBit - 1 /\ StepDown \in 1 .. SignBit - 1 /\ Knee \in Nat \ {0}
  /\ Ranges \subseteq [min : Int32, max : Int32] /\ Loads \subseteq Nat /\ None \notin Int

VARIABLES
  range, replicas,  \* spec.scale and spec.replicas
  status,           \* replicas, desired, updating
  sinceScaled,      \* age of status.lastScaledAt
  edited,           \* the controller has another pod spec to roll out
  healthy,
  load, sample, sampleAge,
  worker,           \* the count each worker is about to patch
  sincePatch,       \* age of the last patch that changed spec.replicas
  lagged,           \* some decision missed, or overlapped, another write of the replicas
  changes, edits

vars == <<range, replicas, status, sinceScaled, edited, healthy, load, sample,
          sampleAge, worker, sincePatch, lagged, changes, edits>>

Cap == IF UpCooldown >= DownCooldown THEN UpCooldown ELSE DownCooldown
Older(age, bound) == IF age < bound THEN age + 1 ELSE age

scale == [min |-> range.min, max |-> range.max, saturation |-> 100, stepUp |-> StepUp,
          stepDown |-> StepDown, upCooldown |-> UpCooldown, downCooldown |-> DownCooldown]

DesiredReplicas == clamp(replicas, minMax(scale).min, minMax(scale).max)

TypeOK ==
  /\ range \in Ranges /\ replicas \in Nat \ {0}
  /\ status.replicas \in Nat \ {0} /\ status.desired \in Nat \ {0}
  /\ sinceScaled \in 0 .. Cap /\ sincePatch \in 0 .. Cap
  /\ \A w \in Workers : worker[w] = None \/ worker[w] \in minMax(scale).min .. minMax(scale).max
       \/ lagged

-----------------------------------------------------------------------------
(* The world *)

LoadChanges ==
  /\ changes < MaxLoadChanges /\ changes' = changes + 1
  /\ load' \in Loads \ {load}
  /\ UNCHANGED <<range, replicas, status, sinceScaled, edited, healthy, sample, sampleAge,
                 worker, sincePatch, lagged, edits>>

HealthChanges ==
  /\ edits < MaxEdits /\ edits' = edits + 1
  /\ healthy' = ~healthy
  /\ UNCHANGED <<range, replicas, status, sinceScaled, edited, load, sample, sampleAge,
                 worker, sincePatch, lagged, changes>>

\* Workers whose patch is on its way, and a count not carried out yet.
InHand == {w \in Workers : worker[w] # None}
Outstanding == DesiredReplicas # status.desired

\* An edit of the AgentSet, of the range or of the pod spec: its controller
\* writes the whole spec, which has no replicas, and the API server fills in
\* the default 1.
EditAgentSet ==
  /\ edits < MaxEdits /\ edits' = edits + 1
  /\ range' \in Ranges /\ edited' \in {edited, TRUE}
  /\ replicas' = 1
  /\ lagged' = (lagged \/ Outstanding \/ InHand # {})
  /\ UNCHANGED <<status, sinceScaled, healthy, load, sample, sampleAge, worker, sincePatch, changes>>

Tick ==
  /\ sinceScaled' = Older(sinceScaled, Cap) /\ sincePatch' = Older(sincePatch, Cap)
  /\ sampleAge' = Older(sampleAge, maxSampleAge + 1)
  /\ UNCHANGED <<range, replicas, status, edited, healthy, load, sample, worker, lagged, changes, edits>>

-----------------------------------------------------------------------------
(* The AgentDeploy controller *)

\* A pass of reconcilePods up to the status it reports: a new desired count
\* restarts the cooldown, another pod spec begins a rollout.
Reconcile ==
  /\ Outstanding \/ edited
  /\ sinceScaled' = IF Outstanding THEN 0 ELSE sinceScaled
  /\ status' = [status EXCEPT !.desired = DesiredReplicas, !.updating = @ \/ edited]
  /\ edited' = FALSE
  /\ UNCHANGED <<range, replicas, healthy, load, sample, sampleAge, worker, sincePatch,
                 lagged, changes, edits>>

\* A pod more or less, and its report.
PodChanges ==
  /\ status.replicas # status.desired
  /\ status' = [status EXCEPT !.replicas = IF @ < status.desired THEN @ + 1 ELSE @ - 1]
  /\ UNCHANGED <<range, replicas, sinceScaled, edited, healthy, load, sample, sampleAge, worker,
                 sincePatch, lagged, changes, edits>>

RolloutEnds ==
  /\ status.updating /\ status.replicas = status.desired
  /\ status' = [status EXCEPT !.updating = FALSE]
  /\ UNCHANGED <<range, replicas, sinceScaled, edited, healthy, load, sample, sampleAge, worker,
                 sincePatch, lagged, changes, edits>>

-----------------------------------------------------------------------------
(* Sampler and Autoscaler *)

\* Mutant of collectSample: an idle agent yields no sample.
collectSampleBusy ==
  /\ healthy /\ load > 0
  /\ sample' = load /\ sampleAge' = 0
  /\ <<sample, sampleAge>> # <<sample', sampleAge'>>
  /\ UNCHANGED <<range, replicas, status, sinceScaled, edited, healthy, load, worker,
                 sincePatch, lagged, changes, edits>>

collectSample ==
  /\ healthy
  /\ sample' = load /\ sampleAge' = 0
  /\ <<sample, sampleAge>> # <<sample', sampleAge'>>
  /\ UNCHANGED <<range, replicas, status, sinceScaled, edited, healthy, load, worker,
                 sincePatch, lagged, changes, edits>>

Inputs ==
  [current |-> status.replicas, ready |-> status.replicas,
   sample |-> [replicas |-> 1, inflight |-> sample], spec |-> scale, maxInFlight |-> 0,
   est |-> [knee |-> Knee, confidence |-> 10], sinceLast |-> sinceScaled]

\* Mutant of Gated: it does not wait for the last change to be carried out.
GatedLoose ==
  \/ ~healthy \/ status.updating
  \/ sinceScaled < DownCooldown /\ sinceScaled < UpCooldown
  \/ sample = None \/ sampleAge > maxSampleAge

\* The early returns of scaleKey.
Gated ==
  \/ ~healthy
  \/ status.updating
  \/ status.replicas # status.desired
  \/ sinceScaled < DownCooldown /\ sinceScaled < UpCooldown
  \/ sample = None
  \/ sampleAge > maxSampleAge

\* What scaleKey makes of the state: a count to patch, or None.
Outcome ==
  IF Gated THEN None
  ELSE LET dec == Decide(Inputs) IN
       IF dec.skip \/ dec.replicas = status.replicas THEN None ELSE dec.replicas

\* A patch against the copy that was read, so one of the same count is empty.
scaleKey(w) ==
  /\ worker[w] = None
  /\ \E n \in {Outcome} : n \notin {None, replicas} /\ worker' = [worker EXCEPT ![w] = n]
  /\ lagged' = (lagged \/ Outstanding \/ InHand # {})
  /\ UNCHANGED <<range, replicas, status, sinceScaled, edited, healthy, load, sample,
                 sampleAge, sincePatch, changes, edits>>

\* A merge patch of spec.replicas, on no condition.
applyReplicas(w) ==
  /\ worker[w] # None
  /\ replicas' = worker[w]
  /\ sincePatch' = IF replicas' = replicas THEN sincePatch ELSE 0
  /\ worker' = [worker EXCEPT ![w] = None]
  /\ UNCHANGED <<range, status, sinceScaled, edited, healthy, load, sample, sampleAge,
                 lagged, changes, edits>>

\* The patch fails; the key comes round again.
PatchFails(w) ==
  /\ worker[w] # None
  /\ edits < MaxEdits /\ edits' = edits + 1
  /\ worker' = [worker EXCEPT ![w] = None]
  /\ UNCHANGED <<range, replicas, status, sinceScaled, edited, healthy, load, sample, sampleAge,
                 sincePatch, lagged, changes>>

Init ==
  /\ range \in Ranges /\ replicas = 1
  /\ status = [replicas |-> DesiredReplicas, desired |-> DesiredReplicas, updating |-> FALSE]
  /\ sinceScaled = Cap /\ sincePatch = Cap
  /\ edited = FALSE /\ healthy = TRUE
  /\ load \in Loads /\ sample = None /\ sampleAge = 0
  /\ worker = [w \in Workers |-> None]
  /\ lagged = FALSE /\ changes = 0 /\ edits = 0

Next ==
  \/ LoadChanges \/ HealthChanges \/ EditAgentSet \/ Tick
  \/ Reconcile \/ PodChanges \/ RolloutEnds \/ collectSample
  \/ \E w \in Workers : scaleKey(w) \/ applyReplicas(w) \/ PatchFails(w)

Spec == Init /\ [][Next]_vars

\* Clocks run, loops and the controller come round, pods follow.  The key is
\* given to some worker often enough to meet a sample that is fresh.
Fairness ==
  /\ WF_vars(Tick) /\ WF_vars(Reconcile) /\ WF_vars(PodChanges) /\ WF_vars(RolloutEnds)
  /\ WF_vars(collectSample)
  /\ SF_vars(\E w \in Workers : scaleKey(w))
  /\ \A w \in Workers : WF_vars(applyReplicas(w))

FairSpec == Spec /\ Fairness

-----------------------------------------------------------------------------
(* Properties *)

\* Under a load that stays, on a healthy agent, the fleet settles at the size
\* the load asks for: it neither oscillates nor gets stuck, whatever cooldowns,
\* steps, edits and stale samples come in between.
EventuallySized ==
  <>[]healthy /\ <>[][load' = load]_load =>
    <>[](status.replicas = IF load = 0 THEN minMax(scale).min
           ELSE Sized([Inputs EXCEPT !.sample.inflight = load]))

\* As long as each decision saw what the write before it led to and was patched
\* before the next one (by a worker that took the same key, or by an edit), an
\* operation changes what runs by at most its step, after the cooldown of its
\* direction since the last patch, however late its own patch lands.
PacedWhenFollowed ==
  [][~lagged => \A w \in Workers : applyReplicas(w) =>
       \/ /\ replicas' \in status.replicas .. status.replicas + StepUp
          /\ sincePatch >= UpCooldown
       \/ /\ replicas' \in status.replicas - StepDown .. status.replicas
          /\ sincePatch >= DownCooldown]_vars

\* Violated.  "ReplicasPerScaleDown defines the number of maximum replicas that
\* can be changed in a single scaled down operation" (docs/APIs.md): in a range
\* that nobody changes, a window the autoscaler has raised (nothing else sets
\* replicas above the default 1) never shrinks by more than the step at once.
ShedsByStep ==
  [][(/\ status'.desired < status.desired
      /\ status.desired > clamp(1, minMax(scale).min, minMax(scale).max))
       => status.desired - status'.desired <= StepDown]_vars
=============================================================================
