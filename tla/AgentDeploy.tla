----------------------------- MODULE AgentDeploy -----------------------------
(***************************************************************************)
(* The AgentDeploy controller: one AgentDeploy object, its pods, and the   *)
(* reconcile loop of pkg/reconciler/agentdeploy that rolls the pods.       *)
(*                                                                         *)
(* The controller reads through the manager's informer caches and writes   *)
(* to the API server.  The two are kept apart here: pods and object are    *)
(* what the API server holds, podView and objView what the caches hold,    *)
(* and podStream and objStream the watch events on their way from one to   *)
(* the other.  A reconcile pass therefore plans on a past state, and its   *)
(* writes land one API call at a time among the steps of the kubelet, the  *)
(* user and the watches.                                                   *)
(*                                                                         *)
(* Abstractions.  The hash of the rendered pod spec is a member of Hashes  *)
(* and a pod name (deploy, index, random suffix) a member of Names that is *)
(* in use nowhere.  The two per-deploy Services matter here only in that   *)
(* reconciling them may fail.  Timestamps, messages and events are left    *)
(* out.  The object is never deleted.                                      *)
(***************************************************************************)
EXTENDS ReplicaMath, Sequences, FiniteSets

CONSTANTS
  Names,      \* pod names
  Hashes,     \* pod-spec hashes
  Broken,     \* the hashes whose pods never become Ready
  Specs,      \* the AgentDeploy specs a user may write
  FaultKinds, \* the disturbances of this instance, among AllFaults
  MaxFaults,  \* bound: how many disturbances happen
  MaxLag      \* bound: undelivered events per watch stream

AllFaults == {"edit", "stale", "evict", "unready", "fail", "restart"}

AgentDeploySpec ==
  [hash : Hashes, replicas : Optional(Int), scale : Scale,
   maxUnavailable : Optional(MaxUnavailable)]

ASSUME ConstantsAssumption ==
  /\ IsFiniteSet(Names)
  /\ Broken \subseteq Hashes
  /\ Specs \subseteq AgentDeploySpec
  /\ FaultKinds \subseteq AllFaults
  /\ MaxFaults \in Nat
  /\ MaxLag \in Nat \ {0}

-----------------------------------------------------------------------------

VARIABLES
  object,     \* the AgentDeploy on the API server: its spec and its status
  pods,       \* the pods on the API server, by name
  objView,    \* the AgentDeploy informer's cache
  objStream,  \* versions of the object not yet delivered to it
  podView,    \* the Pod informer's cache
  podStream,  \* pod events not yet delivered to it
  queued,     \* the workqueue holds the object's key
  pass,       \* the reconcile pass in progress, or Nil
  faults      \* disturbances so far

vars == <<object, pods, objView, objStream, podView, podStream, queued, pass, faults>>

apiVars  == <<object, pods>>
viewVars == <<objView, objStream, podView, podStream>>

(***************************************************************************)
(* A pod starts not Ready; once Ready it may lose and regain readiness.    *)
(* Its slot (the replica annotation) and its hash never change.            *)
(***************************************************************************)
Pod == [replica : Nat, hash : Hashes,
        phase : {"starting", "ready", "unready"}, terminating : BOOLEAN]

PodMap == [Names -> Optional(Pod)]

Tri == {"True", "False", "Unknown"}

\* message: the "ready/desired" text of a False PodsHealthy condition.
Conditions ==
  [deployed : Tri, podsHealthy : Tri, message : Optional(Nat \X Nat)]

Status ==
  [desired : Nat, update : Optional(Hashes), current : Optional(Hashes),
   replicas : Nat, ready : Nat, updated : Nat, updatedReady : Nat,
   phase : {"", "Running", "Unknown", "Failed"}, conditions : Conditions]

Object == [spec : Specs, status : Status]

(***************************************************************************)
(* What a pass holds: the object and the pod list it read, the pods it     *)
(* keeps (one in each slot already on the desired hash), the writes that   *)
(* follow from these, and how far it has got with them.                    *)
(***************************************************************************)
Plan == [outside : SUBSET Names, duplicates : SUBSET Names,
         needsCreate : SUBSET Nat, needsReplace : SUBSET Nat,
         batch : SUBSET Nat, replaced : SUBSET Names]

Pass == [ad : Object, seen : PodMap, kept : SUBSET Names, plan : Plan,
         deleted : SUBSET Names, created : SUBSET Nat]

\* The absent pod and the absent pass are not taken for a pod or a pass.
ASSUME AbsentAssumption == Nil \notin Pod /\ Nil \notin Pass

TypeOK ==
  /\ object \in Object
  /\ pods \in PodMap
  /\ objView \in Object
  /\ objStream \in Seq(Object)
  /\ podView \in PodMap
  /\ podStream \in Seq([name : Names, pod : Optional(Pod)])
  /\ queued \in BOOLEAN
  /\ pass \in Optional(Pass)
  /\ faults \in Nat

-----------------------------------------------------------------------------
(* Reading a pod list *)

Live(view, n) == view[n] # Nil /\ ~view[n].terminating

podReady(pod) == pod.phase = "ready"

\* The live pods of one slot on hash h, and those on any other hash.
OnHash(view, r, h) ==
  {n \in Names : Live(view, n) /\ view[n].replica = r /\ view[n].hash = h}

OffHash(view, r, h) ==
  {n \in Names : Live(view, n) /\ view[n].replica = r /\ view[n].hash # h}

\* Mutant of FirstN: one slot too many.
FirstNPlusOne(S, k) == {r \in S : Cardinality({q \in S : q < r}) <= k}

FirstN(S, k) == {r \in S : Cardinality({q \in S : q < r}) < k}

(***************************************************************************)
(* The plan of a pass.  reconcilePods interleaves this classification with *)
(* its writes, but its inputs are fixed by the one List it makes.  The     *)
(* batch is empty while the wait gate is closed: some pod that is kept is  *)
(* not Ready.                                                              *)
(***************************************************************************)
PlanOf(ad, seen, kept) ==
  LET desired   == DesiredReplicas(ad.spec)
      hash      == ad.spec.hash
      satisfied == {seen[n].replica : n \in kept}
      needsReplace ==
        {r \in 0 .. desired - 1 : r \notin satisfied /\ OffHash(seen, r, hash) # {}}
      batch ==
        IF \A n \in kept : podReady(seen[n])
        THEN FirstN(needsReplace, ResolveMaxUnavailable(ad.spec, desired))
        ELSE {}
  IN  [outside      |-> {n \in Names : Live(seen, n) /\ seen[n].replica >= desired},
       duplicates   |-> {n \in Names : /\ Live(seen, n)
                                       /\ seen[n].replica < desired
                                       /\ seen[n].hash = hash
                                       /\ n \notin kept},
       needsCreate  |-> (0 .. desired - 1) \ (satisfied \cup needsReplace),
       needsReplace |-> needsReplace,
       batch        |-> batch,
       replaced     |-> UNION {OffHash(seen, r, hash) : r \in batch}]

PassDone(p) ==
  /\ p.plan.outside \cup p.plan.duplicates \cup p.plan.replaced \subseteq p.deleted
  /\ p.plan.needsCreate \cup p.plan.batch \subseteq p.created

Untouched(p) == p.deleted = {} /\ p.created = {}

\* A slot's pods are kept one each; which of several duplicates comes first
\* in the list, and so survives, is arbitrary.
KeepOnePerSlot(view, ad) ==
  {K \in SUBSET {n \in Names : /\ Live(view, n)
                               /\ view[n].hash = ad.spec.hash
                               /\ view[n].replica < DesiredReplicas(ad.spec)} :
     \A r \in 0 .. DesiredReplicas(ad.spec) - 1 :
        OnHash(view, r, ad.spec.hash) # {} =>
          \E n \in K : {m \in K : view[m].replica = r} = {n}}

-----------------------------------------------------------------------------
(* The status a pass computes *)

ZeroStatus ==
  [desired |-> 0, update |-> Nil, current |-> Nil,
   replicas |-> 0, ready |-> 0, updated |-> 0, updatedReady |-> 0, phase |-> "",
   conditions |-> [deployed |-> "Unknown", podsHealthy |-> "Unknown", message |-> Nil]]

InitializeConditions(st) ==
  [st EXCEPT !.conditions = ZeroStatus.conditions]

\* The head of reconcilePods: a new hash restarts the rollout counters.
Begun(p) ==
  LET st  == InitializeConditions(p.ad.status)
      new == st.update # p.ad.spec.hash
  IN  [st EXCEPT !.desired = DesiredReplicas(p.ad.spec), !.update = p.ad.spec.hash,
                 !.updated = IF new THEN 0 ELSE @,
                 !.updatedReady = IF new THEN 0 ELSE @]

\* CurrentHash follows once no slot of the window is left to replace.
Promoted(p) ==
  [Begun(p) EXCEPT
     !.current = IF p.plan.needsReplace = {} THEN p.ad.spec.hash ELSE @,
     !.conditions.deployed = "True"]

updatePodStatus(st, view) ==
  LET live == {n \in Names : Live(view, n)}
  IN  [st EXCEPT
         !.replicas = Cardinality(live),
         !.ready    = Cardinality({n \in live : podReady(view[n])}),
         !.updated  = Cardinality({n \in live : view[n].hash = st.update}),
         !.updatedReady =
            Cardinality({n \in live : view[n].hash = st.update /\ podReady(view[n])})]

Summarised(st) ==
  IF st.desired > 0 /\ st.ready = st.desired
  THEN [st EXCEPT !.phase = "Running", !.conditions.podsHealthy = "True"]
  ELSE [st EXCEPT !.phase = "Unknown", !.conditions.podsHealthy = "False",
                  !.conditions.message = <<st.ready, st.desired>>]

Failed(st) == [st EXCEPT !.phase = "Failed", !.conditions.deployed = "False"]

(***************************************************************************)
(* persist sends a merge patch: the fields in which the new status differs *)
(* from the one the pass read, with no resource version attached.  Fields  *)
(* that do not differ keep whatever value the server has.  The conditions  *)
(* are one such field; equal ones still carry a new transition time unless *)
(* that falls in the same second, so they are sent or not.                 *)
(***************************************************************************)
Merge(old, new, server) == IF new # old THEN new ELSE server

MergePatch(old, new, server, restamped) ==
  [desired      |-> Merge(old.desired, new.desired, server.desired),
   update       |-> Merge(old.update, new.update, server.update),
   current      |-> Merge(old.current, new.current, server.current),
   replicas     |-> Merge(old.replicas, new.replicas, server.replicas),
   ready        |-> Merge(old.ready, new.ready, server.ready),
   updated      |-> Merge(old.updated, new.updated, server.updated),
   updatedReady |-> Merge(old.updatedReady, new.updatedReady, server.updatedReady),
   phase        |-> Merge(old.phase, new.phase, server.phase),
   conditions   |-> IF restamped THEN new.conditions
                    ELSE Merge(old.conditions, new.conditions, server.conditions)]

-----------------------------------------------------------------------------
(* The API server and the watches *)

Disturb(kind) ==
  /\ kind \in FaultKinds
  /\ faults < MaxFaults
  /\ faults' = faults + 1

\* Store a new version of the object; a write that changes nothing is no event.
WriteObject(new) ==
  /\ Len(objStream) < MaxLag
  /\ object' = new
  /\ objStream' = IF new = object THEN objStream ELSE Append(objStream, new)

WritePod(n, pod) ==
  /\ Len(podStream) < MaxLag
  /\ pods' = [pods EXCEPT ![n] = pod]
  /\ podStream' = IF pods[n] = pod THEN podStream
                  ELSE Append(podStream, [name |-> n, pod |-> pod])

\* A user, or the AgentSet controller on a user's behalf, writes the spec.
EditSpec(s) ==
  /\ Disturb("edit")
  /\ s # object.spec
  /\ WriteObject([object EXCEPT !.spec = s])
  /\ UNCHANGED <<pods, objView, podView, podStream, queued, pass>>

\* Mutant of DeliverObject: the watch drops spec changes as well.
DeliverObjectSilently ==
  /\ objStream # <<>>
  /\ objView' = Head(objStream)
  /\ objStream' = Tail(objStream)
  /\ UNCHANGED <<object, pods, podView, podStream, queued, pass, faults>>

\* The AgentDeploy watch passes a generation change and drops a status change.
DeliverObject ==
  /\ objStream # <<>>
  /\ objView' = Head(objStream)
  /\ objStream' = Tail(objStream)
  /\ queued' = (queued \/ Head(objStream).spec # objView.spec)
  /\ UNCHANGED <<object, pods, podView, podStream, pass, faults>>

\* Mutant of DeliverPod: only pods that appear or go requeue the AgentDeploy.
DeliverPodIfNewOrGone ==
  /\ podStream # <<>>
  /\ podView' = [podView EXCEPT ![Head(podStream).name] = Head(podStream).pod]
  /\ podStream' = Tail(podStream)
  /\ queued' = (queued \/ Nil \in {podView[Head(podStream).name], Head(podStream).pod})
  /\ UNCHANGED <<object, pods, objView, objStream, pass, faults>>

\* Every event of an owned pod requeues its AgentDeploy.
DeliverPod ==
  /\ podStream # <<>>
  /\ podView' = [podView EXCEPT ![Head(podStream).name] = Head(podStream).pod]
  /\ podStream' = Tail(podStream)
  /\ queued' = TRUE
  /\ UNCHANGED <<object, pods, objView, objStream, pass, faults>>

-----------------------------------------------------------------------------
(* A reconcile pass *)

InSync == objStream = <<>> /\ podStream = <<>>

(***************************************************************************)
(* The workqueue hands out the key; Get and List read the caches.  Nothing *)
(* makes them wait for the watches: a pass on caches that are behind is    *)
(* the disturbance "stale".  Get and List are one step, since a cache that *)
(* advances between them is the object cache being behind.                 *)
(***************************************************************************)
Start ==
  /\ queued /\ pass = Nil
  /\ IF InSync THEN UNCHANGED faults ELSE Disturb("stale")
  /\ queued' = FALSE
  /\ \E K \in KeepOnePerSlot(podView, objView) :
       pass' = [ad |-> objView, seen |-> podView, kept |-> K,
                plan |-> PlanOf(objView, podView, K),
                deleted |-> {}, created |-> {}]
  /\ UNCHANGED <<apiVars, viewVars>>

\* Which delete comes next: pods outside the window in any order, then the
\* duplicates slot by slot, then, once every empty slot is filled, the old
\* pods of the batch slot by slot.
DeletesNext(n) ==
  \/ n \in pass.plan.outside
  \/ /\ n \in pass.plan.duplicates
     /\ pass.plan.outside \subseteq pass.deleted
     /\ \A m \in pass.plan.duplicates \ pass.deleted :
          pass.seen[m].replica >= pass.seen[n].replica
  \/ /\ n \in pass.plan.replaced
     /\ pass.plan.outside \cup pass.plan.duplicates \subseteq pass.deleted
     /\ pass.plan.needsCreate \subseteq pass.created
     /\ \A r \in pass.plan.batch \ pass.created : r >= pass.seen[n].replica

\* Mutant of CreatesNext: a slot of the batch is created before its old pods
\* are deleted.
CreatesNextEarly(r) ==
  /\ pass.plan.outside \cup pass.plan.duplicates \subseteq pass.deleted
  /\ \/ /\ r \in pass.plan.needsCreate
        /\ \A q \in pass.plan.needsCreate \ pass.created : q >= r
     \/ /\ r \in pass.plan.batch
        /\ pass.plan.needsCreate \subseteq pass.created
        /\ \A q \in pass.plan.batch \ pass.created : q >= r

\* Which slot is created next: the empty slots in order, then each slot of
\* the batch once all its old pods are deleted.
CreatesNext(r) ==
  /\ pass.plan.outside \cup pass.plan.duplicates \subseteq pass.deleted
  /\ \/ /\ r \in pass.plan.needsCreate
        /\ \A q \in pass.plan.needsCreate \ pass.created : q >= r
     \/ /\ r \in pass.plan.batch
        /\ pass.plan.needsCreate \subseteq pass.created
        /\ \A q \in pass.plan.batch \ pass.created : q >= r
        /\ OffHash(pass.seen, r, pass.ad.spec.hash) \subseteq pass.deleted

\* Delete is idempotent: a pod that is gone or terminating stays as it is.
DeletePod(n) ==
  /\ pass # Nil
  /\ DeletesNext(n) /\ n \notin pass.deleted
  /\ WritePod(n, IF pods[n] = Nil THEN Nil ELSE [pods[n] EXCEPT !.terminating = TRUE])
  /\ pass' = [pass EXCEPT !.deleted = @ \cup {n}]
  /\ UNCHANGED <<object, objView, objStream, podView, queued, faults>>

\* A name with a random suffix: one that no pod, cache or event mentions and
\* no write of this pass is about.
Unused(n) ==
  /\ pods[n] = Nil /\ podView[n] = Nil
  /\ \A i \in 1 .. Len(podStream) : podStream[i].name # n
  /\ pass # Nil => ~Live(pass.seen, n)

newPod(r, h) == [replica |-> r, hash |-> h, phase |-> "starting", terminating |-> FALSE]

CreatePod(r) ==
  /\ pass # Nil
  /\ CreatesNext(r) /\ r \notin pass.created
  /\ \E n \in Names :
       /\ Unused(n) /\ n = CHOOSE m \in Names : Unused(m)
       /\ WritePod(n, newPod(r, pass.ad.spec.hash))
  /\ pass' = [pass EXCEPT !.created = @ \cup {r}]
  /\ UNCHANGED <<object, objView, objStream, podView, queued, faults>>

PatchStatus(st) ==
  \E new \in {st}, restamped \in BOOLEAN :
    WriteObject([object EXCEPT
      !.status = MergePatch(pass.ad.status, new, object.status, restamped)])

\* The pass is over: count the pods of a second List and persist the status.
Persist ==
  /\ pass # Nil /\ PassDone(pass)
  /\ PatchStatus(Summarised(updatePodStatus(Promoted(pass), podView)))
  /\ pass' = Nil
  /\ UNCHANGED <<pods, objView, podView, podStream, queued, faults>>

\* An error ends the pass and requeues the key; the status patch that
\* reports it may fail as well.
Abort(st) ==
  /\ Disturb("fail")
  /\ PatchStatus(st) \/ UNCHANGED <<object, objStream>>
  /\ pass' = Nil
  /\ queued' = TRUE
  /\ UNCHANGED <<pods, objView, podView, podStream>>

ServicesFail ==
  /\ pass # Nil /\ Untouched(pass)
  /\ Abort(Failed(InitializeConditions(pass.ad.status)))

\* The List fails before any write, or a write that is due fails.
PodsFail ==
  /\ pass # Nil /\ (Untouched(pass) \/ ~PassDone(pass))
  /\ Abort(Failed(Begun(pass)))

\* The second List fails: the counters stay, the phase is not recomputed.  A
\* pass whose only failure is the status patch is the unpatched case of this.
StatusFails ==
  /\ pass # Nil /\ PassDone(pass)
  /\ Abort(Promoted(pass))

\* The process dies, or leadership moves: the pass is lost, the caches are
\* listed afresh, and every object is queued.
Restart ==
  /\ Disturb("restart")
  /\ objView' = object /\ objStream' = <<>>
  /\ podView' = pods /\ podStream' = <<>>
  /\ queued' = TRUE
  /\ pass' = Nil
  /\ UNCHANGED apiVars

-----------------------------------------------------------------------------
(* The kubelet and everyone else who touches pods *)

BecomeReady(n) ==
  /\ Live(pods, n) /\ ~podReady(pods[n]) /\ pods[n].hash \notin Broken
  /\ WritePod(n, [pods[n] EXCEPT !.phase = "ready"])
  /\ UNCHANGED <<object, objView, objStream, podView, queued, pass, faults>>

LoseReady(n) ==
  /\ Disturb("unready")
  /\ Live(pods, n) /\ podReady(pods[n])
  /\ WritePod(n, [pods[n] EXCEPT !.phase = "unready"])
  /\ UNCHANGED <<object, objView, objStream, podView, queued, pass>>

\* A drain, a user or the drift watcher deletes a pod.
Evict(n) ==
  /\ Disturb("evict")
  /\ Live(pods, n)
  /\ WritePod(n, [pods[n] EXCEPT !.terminating = TRUE])
  /\ UNCHANGED <<object, objView, objStream, podView, queued, pass>>

\* A terminating pod has drained and is removed.
Removed(n) ==
  /\ pods[n] # Nil /\ pods[n].terminating
  /\ WritePod(n, Nil)
  /\ UNCHANGED <<object, objView, objStream, podView, queued, pass, faults>>

-----------------------------------------------------------------------------

\* A new AgentDeploy, already in the caches and queued, with no pods.
Init ==
  /\ object \in [spec : Specs, status : {ZeroStatus}]
  /\ objView = object /\ objStream = <<>>
  /\ pods = [n \in Names |-> Nil]
  /\ podView = pods /\ podStream = <<>>
  /\ queued = TRUE
  /\ pass = Nil
  /\ faults = 0

Controller ==
  \/ Start
  \/ \E n \in Names : DeletePod(n)
  \/ pass # Nil /\ \E r \in pass.plan.needsCreate \cup pass.plan.batch : CreatePod(r)
  \/ Persist

Errors == ServicesFail \/ PodsFail \/ StatusFails \/ Restart

Kubelet == \E n \in Names : BecomeReady(n) \/ LoseReady(n) \/ Evict(n) \/ Removed(n)

Next ==
  \/ Controller
  \/ Errors
  \/ Kubelet
  \/ \E s \in Specs : EditSpec(s)
  \/ DeliverObject
  \/ DeliverPod

Spec == Init /\ [][Next]_vars

(***************************************************************************)
(* Fairness.  The watches deliver, the single reconcile worker runs a      *)
(* queued key and finishes the pass it began, the kubelet brings up pods   *)
(* of a hash that is not broken and removes the ones that terminate.  No   *)
(* disturbance is ever owed.  A pass the worker must begin is one on       *)
(* caches that have caught up: with no new writes they always do.          *)
(***************************************************************************)
Fairness ==
  /\ WF_vars(DeliverObject) /\ WF_vars(DeliverPod)
  /\ WF_vars(Controller)
  /\ \A n \in Names : WF_vars(BecomeReady(n)) /\ WF_vars(Removed(n))

FairSpec == Spec /\ Fairness

-----------------------------------------------------------------------------
(* Properties *)

LiveIn(r) == {n \in Names : Live(pods, n) /\ pods[n].replica = r}

WindowNow == 0 .. DesiredReplicas(object.spec) - 1

\* Nothing is left to do: no event under way, no pass, no key in the queue,
\* and every pod as far as the kubelet can bring it.
Quiescent ==
  /\ InSync /\ ~queued /\ pass = Nil
  /\ \A n \in Names :
       pods[n] # Nil => ~pods[n].terminating
                        /\ (podReady(pods[n]) \/ pods[n].hash \in Broken)

\* Each slot of the window holds exactly one live pod, on the hash of the
\* spec, and no other slot holds any.
Converged ==
  /\ \A r \in WindowNow :
       \E n \in Names : LiveIn(r) = {n} /\ pods[n].hash = object.spec.hash
  /\ \A n \in Names : Live(pods, n) => pods[n].replica \in WindowNow

\* Each slot of the window holds a live pod on the hash of the spec, perhaps
\* among others, and no other slot holds any.
Served ==
  /\ \A r \in WindowNow : \E n \in LiveIn(r) : pods[n].hash = object.spec.hash
  /\ \A n \in Names : Live(pods, n) => pods[n].replica \in WindowNow

\* The status counts the pods the server has and names the hash they run.
StatusExact ==
  LET live == {n \in Names : Live(pods, n)}
      st   == object.status
  IN  /\ st.desired = DesiredReplicas(object.spec)
      /\ st.replicas = Cardinality(live)
      /\ st.ready = Cardinality({n \in live : podReady(pods[n])})
      /\ st.updatedReady <= st.updated
      /\ st.update = object.spec.hash /\ st.current = st.update
      /\ (st.phase = "Running") <=> (st.ready = st.desired)
      /\ (st.conditions.podsHealthy = "True") <=> (st.phase = "Running")
      /\ st.conditions.deployed = "True"

(***************************************************************************)
(* Two live pods never share a slot, so the stable per-slot hostname names *)
(* one pod: reconcilePods creates into a slot only after every live pod it *)
(* saw there is deleted.  Holds when each pass reads caches that are up to *)
(* date, whatever fails or crashes between its writes.                     *)
(***************************************************************************)
SlotExclusive ==
  \A m, n \in Names :
    Live(pods, m) /\ Live(pods, n) /\ pods[m].replica = pods[n].replica => m = n

(***************************************************************************)
(* Even on stale caches the rollout is delete-then-create: when a pod is   *)
(* created in a slot, none of the pods of another hash that the pass saw   *)
(* live in that slot is still live on the server.                          *)
(***************************************************************************)
CreatesAfterDeletes ==
  \A n \in Names : pods[n] = Nil /\ pods'[n] # Nil =>
    \A m \in OffHash(pass.seen, pods'[n].replica, pods'[n].hash) : ~Live(pods', m)

DeleteThenCreate == [][CreatesAfterDeletes]_vars

(***************************************************************************)
(* Stale caches may leave a pod too many, never a slot without one: at     *)
(* rest every slot of the window has a live pod on the hash of the spec,   *)
(* and no pod is outside the window.  (A hash whose pods never become      *)
(* Ready holds the wait gate shut, and old pods in the slots behind it.)   *)
(***************************************************************************)
QuiescentServed == Quiescent /\ object.spec.hash \notin Broken => Served

\* The slots of the window in which no live pod is Ready.
Unavailable ==
  {r \in WindowNow : \A n \in LiveIn(r) : ~podReady(pods[n])}

(***************************************************************************)
(* From a fully available deploy, every disturbance (an edit, a failed or  *)
(* interrupted pass, an eviction) costs at most one more batch of          *)
(* maxUnavailable slots at the same time.                                  *)
(***************************************************************************)
BudgetPerDisturbance ==
  Cardinality(Unavailable) <=
    faults * ResolveMaxUnavailable(object.spec, DesiredReplicas(object.spec))

(***************************************************************************)
(* Once the disturbances end the pods converge to the spec, the persisted  *)
(* status to the pods, and both stay there.  No wakeup may be lost on the  *)
(* way: the wait gate and the early returns of reconcilePods rely on a     *)
(* later pod event to resume.                                              *)
(***************************************************************************)
EventuallyConverged == <>[](object.spec.hash \in Broken \/ (Converged /\ StatusExact))

-----------------------------------------------------------------------------
(* What a comment says, and the code does not keep *)

(***************************************************************************)
(* The classification comment of reconcilePods: within-slot duplicates     *)
(* "are pruned unconditionally".  At rest no pod of an earlier hash shares *)
(* a slot with a pod on the hash of the spec.                              *)
(***************************************************************************)
OldPodsPruned ==
  Quiescent => \A n \in Names : Live(pods, n) => pods[n].hash = object.spec.hash
=============================================================================
