------------------------------ MODULE MCRollout ------------------------------
(***************************************************************************)
(* AgentDeploy in two settings over the same variables: passes that read   *)
(* stale caches ("stale"), and rolling updates of one window of slots that *)
(* start from a deploy long converged and read caches that have caught up  *)
(* ("rollout").                                                            *)
(***************************************************************************)
EXTENDS MCAgentDeploy

CONSTANTS
  StaleSpecs, \* the specs written in the first setting
  StaleNames, \* bound: the pod names used there
  RollSpecs,  \* the specs of the second: one window of slots and one budget
  RollFrom,   \* and those among them it starts from
  ShortLag    \* bound: undelivered object events; in the second, pod events too

ASSUME RollAssumption ==
  /\ StaleSpecs \subseteq Specs /\ RollSpecs \subseteq Specs /\ RollFrom \subseteq RollSpecs
  /\ \A s \in RollSpecs : 1 .. DesiredReplicas(s) \subseteq Names
  /\ \A s, t \in RollSpecs :
       /\ DesiredReplicas(s) = DesiredReplicas(t)
       /\ ResolveMaxUnavailable(s, DesiredReplicas(s)) =
            ResolveMaxUnavailable(t, DesiredReplicas(t))

VARIABLE setting

\* One Ready pod per slot, an exact status, nothing queued: the state that
\* the behaviours from Init end in.
Settled(s) ==
  LET d == DesiredReplicas(s)
  IN  /\ object =
           [spec |-> s,
            status |-> [desired |-> d, update |-> s.hash, current |-> s.hash,
                        replicas |-> d, ready |-> d, updated |-> d, updatedReady |-> d,
                        phase |-> "Running",
                        conditions |-> [deployed |-> "True", podsHealthy |-> "True",
                                        message |-> Nil]]]
      /\ objView = object /\ objStream = <<>>
      /\ pods = [n \in Names |->
                   IF n \in 1 .. d
                   THEN [newPod(n - 1, s.hash) EXCEPT !.phase = "ready"] ELSE Nil]
      /\ podView = pods /\ podStream = <<>>
      /\ queued = FALSE /\ pass = Nil /\ faults = 0

MCInit ==
  \/ setting = "stale" /\ Init /\ object.spec \in StaleSpecs
  \/ setting = "rollout" /\ \E s \in RollFrom : Settled(s)

\* A pass that begins reads caches that have caught up.
ReadsCurrent == pass = Nil /\ pass' # Nil => InSync

\* Bound: in the first setting there are no evictions and fewer names.
Spared ==
  /\ ~\E n \in Names : Evict(n)
  /\ \A n \in Names \ StaleNames : pods'[n] = Nil

MCNext ==
  /\ Next /\ Len(objStream') <= ShortLag /\ UNCHANGED setting
  /\ \/ setting = "stale" /\ object'.spec \in StaleSpecs /\ Spared
     \/ /\ setting = "rollout" /\ object'.spec \in RollSpecs /\ ReadsCurrent
        /\ Len(podStream') <= ShortLag

MCSpec == MCInit /\ [][MCNext]_<<vars, setting>>

\* Two images for three slots, one slot at a time.  The second spec gets
\* there by the defaults: 25% of 3, and scale bounds that collapse on 3.
ThreeSlots ==
  {FixedSpec("h1", 3, 1),
   [hash |-> "h2", replicas |-> 5, maxUnavailable |-> Nil,
    scale |-> [disabled |-> FALSE, min |-> 3, max |-> 1]]}

FirstImage == {s \in ThreeSlots : s.hash = "h1"}

AllSpecs == RollAndScale \cup ThreeSlots

FiveNames == 1 .. 5

-----------------------------------------------------------------------------
(* Properties: those of AgentDeploy in the settings where they apply. *)

\* On stale caches no slot is left without a pod at rest.
ServedOnStale == setting = "stale" => QuiescentServed

\* In a rollout every disturbance costs at most one batch of slots.
BudgetInRollout == setting = "rollout" => BudgetPerDisturbance
=============================================================================
