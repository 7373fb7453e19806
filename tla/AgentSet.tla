------------------------------ MODULE AgentSet ------------------------------
(***************************************************************************)
(* The AgentSet controller: one AgentSet, its child AgentDeploys, and the  *)
(* objects it keeps by deleting and recreating them: the entry Service,    *)
(* the daemon Deployment and the daemon Service.                           *)
(*                                                                         *)
(* Reads go to the informer cache: a cached copy is some earlier state of  *)
(* the object and takes the current one whenever it syncs.  Writes go to   *)
(* the API server, one call per step.  The AgentSet is queued when the     *)
(* copy of its spec, of a child or of a Service changes; Deployments are   *)
(* not watched.  A spec is named by its generation, and a hash stands for  *)
(* everything hashed.  An object of the cluster is a hash, a child a hash  *)
(* and the phase that its own controller reports.                          *)
(***************************************************************************)
EXTENDS Integers, Sequences, FiniteSets

CONSTANTS Agents, Settings, None

AllKinds == {"child", "delete", "error", "restart"}
AllNames == {"entry", "daemon", "daemonService"}

VARIABLES
  setting,               \* what the users, the cluster and the faults are like: fixed
  gen, status,           \* the AgentSet
  view,                  \* its cached copy: gen, status
  child, childView,
  object, objView,
  news,                  \* children and objects with changes not delivered yet
  deployment,            \* the incarnation of the daemon Deployment
  daemonPods,            \* incarnations whose pod exists
  queued,
  pass,                  \* the reconciliation under way, or None
  faults

vars == <<setting, gen, status, view, child, childView, object, objView, news, deployment,
          daemonPods, queued, pass, faults>>

cluster == <<setting, gen, child, object, news, deployment, daemonPods>>
caches == <<view, childView, objView>>

Specs == setting.specs           \* of each generation: agents, hash, valid
Objs == setting.objs             \* the recreated objects that are considered, in order
StaleSelf == setting.staleSelf   \* the AgentSet's own copy may lag behind its status

Names == {Objs[i] : i \in DOMAIN Objs}
Services == {"entry", "daemonService"} \cap Names

ASSUME AgentSetAssumption ==
  /\ IsFiniteSet(Agents) /\ Agents \cap AllNames = {}
  /\ \A s \in Settings :
       /\ s.specs \in Seq([agents : SUBSET Agents, hash : STRING, valid : BOOLEAN])
       /\ s.specs # <<>> /\ s.objs \in Seq(AllNames)
       /\ s.staleSelf \in BOOLEAN /\ s.kinds \subseteq AllKinds /\ s.maxFaults \in Nat

Tri == {"True", "False", "Unknown"}
Phases == {"Unknown", "Running", "Failed"}
Status == [phase : Phases, observed : 0 .. Len(Specs), count : 0 .. Cardinality(Agents),
           configured : Tri, deployed : Tri, healthy : Tri]
Child == [hash : {s.hash : s \in {Specs[g] : g \in DOMAIN Specs}}, phase : Phases]

TypeOK ==
  /\ gen \in DOMAIN Specs /\ status \in Status
  /\ view \in [gen : DOMAIN Specs, status : Status]
  /\ {child, childView} \subseteq [Agents -> Child \cup {None}]
  /\ pass # None =>
       /\ pass.pc \in {"apply", "recreate", "failed"}
       /\ pass.todo \subseteq Agents /\ pass.next \in 1 .. Len(Objs) + 1 /\ pass.st \in Status

-----------------------------------------------------------------------------
(* What is wanted *)

\* The entry and daemon Services depend on names only; the daemon's
\* environment holds the whole spec.
HashOf(o, g) == IF o = "daemon" THEN Specs[g].hash ELSE "fixed"

buildDesired(g) == [a \in Specs[g].agents |-> Specs[g].hash]

needsUpdate(existing, hash) == existing.hash # hash

aggregateChildHealth(desired, existing) ==
  IF DOMAIN desired = {} THEN [phase |-> "Unknown", healthy |-> "Unknown"]
  ELSE IF \E a \in DOMAIN desired : existing[a] # None /\ existing[a].phase = "Failed"
  THEN [phase |-> "Failed", healthy |-> "False"]
  ELSE IF \E a \in DOMAIN desired : existing[a] = None \/ existing[a].phase # "Running"
  THEN [phase |-> "Unknown", healthy |-> "Unknown"]
  ELSE [phase |-> "Running", healthy |-> "True"]

-----------------------------------------------------------------------------
(* The world: users, the children's controllers, the garbage collector *)

Fault(kind) == kind \in setting.kinds /\ faults < setting.maxFaults /\ faults' = faults + 1

EditSpec ==
  /\ gen < Len(Specs) /\ gen' = gen + 1
  /\ UNCHANGED <<setting, status, child, object, news, deployment, daemonPods, caches, queued, pass, faults>>

ChildRuns(a) ==
  /\ child[a] # None /\ child[a].phase # "Running"
  /\ child' = [child EXCEPT ![a].phase = "Running"] /\ news' = news \cup {a}
  /\ UNCHANGED <<setting, gen, status, object, deployment, daemonPods, caches, queued, pass, faults>>

ChildTroubled(a) ==
  /\ child[a] # None /\ child[a].phase = "Running"
  /\ Fault("child")
  /\ \E p \in {"Unknown", "Failed"} : child' = [child EXCEPT ![a].phase = p]
  /\ news' = news \cup {a}
  /\ UNCHANGED <<setting, gen, status, object, deployment, daemonPods, caches, queued, pass>>

ServiceDeleted(o) ==
  /\ object[o] # None /\ Fault("delete")
  /\ object' = [object EXCEPT ![o] = None] /\ news' = news \cup {o}
  /\ UNCHANGED <<setting, gen, status, child, deployment, daemonPods, caches, queued, pass>>

\* The Deployment's controller starts its pod; the pod of a deleted Deployment
\* is collected in the background.
PodStarts ==
  /\ "daemon" \in Names /\ object["daemon"] # None /\ deployment \notin daemonPods
  /\ daemonPods' = daemonPods \cup {deployment}
  /\ UNCHANGED <<setting, gen, status, child, object, news, deployment, caches, queued, pass, faults>>

PodCollected(i) ==
  /\ i \in daemonPods /\ (object["daemon"] = None \/ i # deployment)
  /\ daemonPods' = daemonPods \ {i}
  /\ UNCHANGED <<setting, gen, status, child, object, news, deployment, caches, queued, pass, faults>>

-----------------------------------------------------------------------------
(* The informers *)

\* Status-only updates are filtered out.
SyncSelf ==
  /\ view # [gen |-> gen, status |-> status]
  /\ view' = [gen |-> gen, status |-> status]
  /\ queued' = (queued \/ view.gen # gen)
  /\ UNCHANGED <<cluster, status, childView, objView, pass, faults>>

\* Mutant of SyncChild: children are watched for their spec only.
SyncChildSpec(a) ==
  /\ a \in news /\ news' = news \ {a}
  /\ childView' = [childView EXCEPT ![a] = child[a]]
  /\ queued' = (queued \/ childView[a] = None \/ child[a] = None
                  \/ childView[a].hash # child[a].hash)
  /\ UNCHANGED <<setting, gen, child, object, deployment, daemonPods, status, view, objView, pass, faults>>

SyncChild(a) ==
  /\ a \in news /\ news' = news \ {a}
  /\ childView' = [childView EXCEPT ![a] = child[a]]
  /\ queued' = TRUE
  /\ UNCHANGED <<setting, gen, child, object, deployment, daemonPods, status, view, objView, pass, faults>>

\* Mutant of SyncObject: Services are not watched either.
SyncObjectSilently(o) ==
  /\ o \in news /\ news' = news \ {o}
  /\ objView' = [objView EXCEPT ![o] = object[o]]
  /\ UNCHANGED <<setting, gen, child, object, deployment, daemonPods, status, view, childView, queued,
                 pass, faults>>

SyncObject(o) ==
  /\ o \in news /\ news' = news \ {o}
  /\ objView' = [objView EXCEPT ![o] = object[o]]
  /\ queued' = (queued \/ o \in Services)
  /\ UNCHANGED <<setting, gen, child, object, deployment, daemonPods, status, view, childView, pass,
                 faults>>

-----------------------------------------------------------------------------
(* A reconciliation *)

Begun(g) == [view.status EXCEPT !.observed = g, !.configured = "True", !.deployed = "Unknown",
                                !.healthy = "Unknown"]

Rejected(st) == [st EXCEPT !.configured = "False", !.phase = "Failed"]
DeployFailed(st) == [st EXCEPT !.deployed = "False", !.phase = "Failed"]

\* Reads the AgentSet and lists its children.
Begin ==
  /\ queued /\ pass = None
  /\ StaleSelf \/ view = [gen |-> gen, status |-> status]
  /\ queued' = FALSE
  /\ LET valid == Specs[view.gen].valid
         desired == buildDesired(view.gen)
     IN pass' =
       [pc |-> IF valid THEN "apply" ELSE "failed", as |-> view, existing |-> childView,
        todo |-> {a \in Agents :
                    IF a \in DOMAIN desired
                    THEN childView[a] = None \/ needsUpdate(childView[a], desired[a])
                    ELSE childView[a] # None},
        next |-> 1, retry |-> FALSE,
        st |-> IF valid THEN Begun(view.gen) ELSE Rejected(Begun(view.gen))]
  /\ UNCHANGED <<cluster, status, caches, faults>>

\* The list fails: the pass is over before anything is marked as failed.
ListFails ==
  /\ queued /\ pass = None /\ Specs[view.gen].valid
  /\ StaleSelf \/ view = [gen |-> gen, status |-> status]
  /\ Fault("error") /\ queued' = FALSE
  /\ pass' = [pc |-> "failed", as |-> view, existing |-> childView, todo |-> {}, next |-> 1,
              retry |-> TRUE, st |-> Begun(view.gen)]
  /\ UNCHANGED <<cluster, status, caches>>

Fails == pass' = [pass EXCEPT !.pc = "failed", !.retry = TRUE, !.st = DeployFailed(@)]

\* Wanted children first, in any order, then the orphans.  An update carries
\* the version the copy had, and conflicts when the child has changed since.
applyDesiredState(a) ==
  /\ pass # None /\ pass.pc = "apply" /\ a \in pass.todo
  /\ LET desired == buildDesired(pass.as.gen)
         existing == pass.existing[a]
         Write(c) == /\ child' = [child EXCEPT ![a] = c] /\ news' = news \cup {a}
                     /\ pass' = [pass EXCEPT !.todo = @ \ {a}]
     IN \/ /\ a \in DOMAIN desired /\ existing = None
           /\ IF child[a] = None THEN Write([hash |-> desired[a], phase |-> "Unknown"])
              ELSE pass' = [pass EXCEPT !.todo = @ \ {a}] /\ UNCHANGED <<child, news>>
        \/ /\ a \in DOMAIN desired /\ existing # None
           /\ IF child[a] = existing THEN Write([existing EXCEPT !.hash = desired[a]])
              ELSE Fails /\ UNCHANGED <<child, news>>
        \/ /\ pass.todo \cap DOMAIN desired = {}
           /\ Write(None)
  /\ UNCHANGED <<setting, gen, status, object, deployment, daemonPods, caches, queued, faults>>

Create(o) ==
  IF object[o] # None THEN UNCHANGED <<object, news, deployment>>
  ELSE /\ object' = [object EXCEPT ![o] = HashOf(o, pass.as.gen)] /\ news' = news \cup {o}
       /\ deployment' = IF o = "daemon" THEN deployment + 1 ELSE deployment

Pending(o) ==
  /\ pass # None /\ pass.pc = "apply" /\ pass.todo = {}
  /\ pass.next <= Len(Objs) /\ o = Objs[pass.next]

\* Up to the first write: create what the cache lacks, keep what matches,
\* delete the rest by name.
Ensure(o) ==
  /\ Pending(o)
  /\ \/ /\ objView[o] = None /\ Create(o)
        /\ pass' = [pass EXCEPT !.next = @ + 1]
     \/ /\ objView[o] = HashOf(o, pass.as.gen) /\ UNCHANGED <<object, news, deployment>>
        /\ pass' = [pass EXCEPT !.next = @ + 1]
     \/ /\ objView[o] \notin {None, HashOf(o, pass.as.gen)}
        /\ object' = [object EXCEPT ![o] = None]
        /\ news' = IF object[o] = None THEN news ELSE news \cup {o}
        /\ pass' = [pass EXCEPT !.pc = "recreate"] /\ UNCHANGED deployment
  /\ UNCHANGED <<setting, gen, status, child, daemonPods, caches, queued, faults>>

reconcileEntryService == Ensure("entry")
reconcileDaemonDeployment == Ensure("daemon")
reconcileDaemonService == Ensure("daemonService")

Recreate ==
  /\ pass # None /\ pass.pc = "recreate"
  /\ Create(Objs[pass.next])
  /\ pass' = [pass EXCEPT !.pc = "apply", !.next = @ + 1]
  /\ UNCHANGED <<setting, gen, status, child, daemonPods, caches, queued, faults>>

\* Any later call fails.
APIError ==
  /\ pass # None /\ pass.pc # "failed"
  /\ Fault("error") /\ Fails
  /\ UNCHANGED <<cluster, status, caches, queued>>

\* The pass is over; the status it reports.
Finished ==
  /\ pass # None
  /\ \/ pass.pc = "failed"
     \/ pass.pc = "apply" /\ pass.todo = {} /\ pass.next > Len(Objs)

Outcome ==
  IF pass.pc = "failed" THEN pass.st
  ELSE LET health == aggregateChildHealth(buildDesired(pass.as.gen), pass.existing) IN
       [pass.st EXCEPT !.deployed = "True", !.phase = health.phase, !.healthy = health.healthy,
                       !.count = Cardinality(Specs[pass.as.gen].agents)]

\* A merge patch writes the fields in which the new status differs from the
\* copy; the conditions are one field, whose times nearly always differ.
Merge(old, new, server) == IF new # old THEN new ELSE server

Merged(old, new, server, restamped) ==
  LET Conds(s) == <<s.configured, s.deployed, s.healthy>>
      cs == IF restamped THEN Conds(new) ELSE Merge(Conds(old), Conds(new), Conds(server))
  IN [phase |-> Merge(old.phase, new.phase, server.phase),
      observed |-> Merge(old.observed, new.observed, server.observed),
      count |-> Merge(old.count, new.count, server.count),
      configured |-> cs[1], deployed |-> cs[2], healthy |-> cs[3]]

persist ==
  /\ Finished
  /\ \E restamped \in BOOLEAN : status' = Merged(pass.as.status, Outcome, status, restamped)
  /\ queued' = (queued \/ pass.retry) /\ pass' = None
  /\ UNCHANGED <<cluster, caches, faults>>

PersistFails ==
  /\ Finished /\ Fault("error")
  /\ queued' = TRUE /\ pass' = None
  /\ UNCHANGED <<cluster, status, caches>>

\* A restart lists everything anew and queues every AgentSet.
Restart ==
  /\ Fault("restart")
  /\ view' = [gen |-> gen, status |-> status] /\ childView' = child /\ objView' = object
  /\ news' = {} /\ queued' = TRUE /\ pass' = None
  /\ UNCHANGED <<setting, gen, child, object, deployment, daemonPods, status>>

-----------------------------------------------------------------------------
Init ==
  /\ setting \in Settings
  /\ gen = 1
  /\ status = [phase |-> "Unknown", observed |-> 0, count |-> 0, configured |-> "Unknown",
               deployed |-> "Unknown", healthy |-> "Unknown"]
  /\ view = [gen |-> gen, status |-> status]
  /\ child = [a \in Agents |-> None] /\ childView = child
  /\ object = [o \in AllNames |-> None] /\ objView = object
  /\ news = {} /\ deployment = 0 /\ daemonPods = {}
  /\ queued = TRUE /\ pass = None /\ faults = 0

Controller ==
  \/ Begin \/ Recreate \/ persist
  \/ \E a \in Agents : applyDesiredState(a)
  \/ reconcileEntryService \/ reconcileDaemonDeployment \/ reconcileDaemonService

Next ==
  \/ Controller \/ ListFails \/ APIError \/ PersistFails \/ Restart \/ EditSpec
  \/ SyncSelf \/ PodStarts \/ \E i \in daemonPods : PodCollected(i)
  \/ \E a \in Agents : ChildRuns(a) \/ ChildTroubled(a) \/ SyncChild(a)
  \/ \E o \in Names : SyncObject(o)
  \/ \E o \in Services : ServiceDeleted(o)

Spec == Init /\ [][Next]_vars

\* The controller works its queue, watches deliver, children recover.
Fairness ==
  /\ WF_vars(Controller) /\ WF_vars(SyncSelf)
  /\ WF_vars(PodStarts) /\ WF_vars(\E i \in daemonPods : PodCollected(i))
  /\ \A a \in Agents : WF_vars(ChildRuns(a)) /\ WF_vars(SyncChild(a))
  /\ \A o \in AllNames : WF_vars(SyncObject(o))

FairSpec == Spec /\ Fairness

-----------------------------------------------------------------------------
(* Properties *)

\* The children are those of the generation g.
Deployed(g) ==
  /\ g \in DOMAIN Specs
  /\ \A a \in Agents :
       IF a \in Specs[g].agents THEN child[a] # None /\ child[a].hash = Specs[g].hash
       ELSE child[a] = None

\* When no event is left to deliver and nothing is queued, the work is done: the
\* children and the Services are there as the spec wants them, none recreated
\* too early or deleted by a pass that had not seen it.
QuietMeansDone ==
  (~queued /\ pass = None /\ news = {} /\ view.gen = gen /\ Specs[gen].valid) =>
    /\ \A o \in Services : object[o] = "fixed"
    /\ Deployed(gen)

\* Objects, copies and passes keep their types, and no event is left
\* undelivered and unhandled with work still to do (QuietMeansDone).
QuietDone == TypeOK /\ QuietMeansDone

\* The users rest in the end, and if their last spec is valid, the system gets
\* there through conflicts, stale lists, errors half-way, restarts and invalid
\* specs: the children are exactly the ones it asks for and carry its hash, a
\* Service that somebody deleted is back, and the phase says how the children
\* are.  The last may fail when the AgentSet's own copy lags behind its status.
SetSettles ==
  <>[](Specs[gen].valid =>
         /\ Deployed(gen)
         /\ \A o \in Services : object[o] = "fixed"
         /\ ~StaleSelf =>
              /\ status.observed = gen
              /\ status.phase = IF Specs[gen].agents = {} THEN "Unknown" ELSE "Running")
=============================================================================
