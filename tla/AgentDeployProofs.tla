-------------------------- MODULE AgentDeployProofs --------------------------
(***************************************************************************)
(* Machine-checked proofs about AgentDeploy, for every set of names,       *)
(* hashes and specs and every bound.                                       *)
(***************************************************************************)
EXTENDS MCRollout, TLAPS, FiniteSetTheorems,
        WellFoundedInduction

-----------------------------------------------------------------------------
(* Sequences *)

\* What Append and Tail do to a stream of events.
LEMMA AppendSeq ==
  ASSUME NEW S, NEW s \in Seq(S), NEW e \in S
  PROVE  /\ Append(s, e) \in Seq(S) /\ Len(Append(s, e)) = Len(s) + 1
         /\ Append(s, e)[Len(s) + 1] = e
         /\ \A i \in 1 .. Len(s) : Append(s, e)[i] = s[i]
OBVIOUS

LEMMA HeadTailSeq ==
  ASSUME NEW S, NEW s \in Seq(S), s # <<>>
  PROVE  /\ Head(s) \in S /\ Tail(s) \in Seq(S) /\ Head(s) = s[1]
         /\ Len(s) \in Nat \ {0} /\ Len(Tail(s)) = Len(s) - 1
         /\ \A i \in 1 .. Len(s) - 1 : Tail(s)[i] = s[i + 1]
OBVIOUS

-----------------------------------------------------------------------------
(* The arithmetic *)

\* An AgentDeploy never renders zero replicas.
LEMMA DesiredReplicasType ==
  ASSUME NEW s \in AgentDeploySpec
  PROVE  DesiredReplicas(s) \in Nat \ {0}
<1>1. LowBound(s.scale) \in Nat \ {0}
  BY NilAssumption DEF LowBound, DefaultMinReplicas, AgentDeploySpec, Scale, Optional
<1>2. HighBound(s.scale) \in Nat \ {0}
  BY <1>1, NilAssumption
     DEF HighBound, DefaultMaxReplicas, AgentDeploySpec, Scale, Optional
<1> QED
  BY <1>1, <1>2, NilAssumption
     DEF DesiredReplicas, AgentDeploySpec, Scale, Optional, atLeastOne, clampInt

\* The window of a spec has a slot at least, and its bounds are in order (DesiredReplicas,
\* scaleBounds).
LEMMA BoundsInOrder ==
  ASSUME NEW s \in Scale
  PROVE  /\ LowBound(s) \in Int /\ HighBound(s) \in Int
         /\ 1 <= LowBound(s) /\ LowBound(s) <= HighBound(s)
BY NilAssumption DEF Scale, Optional, LowBound, HighBound, DefaultMinReplicas, DefaultMaxReplicas

\* Whatever replicas and the scale block hold, at least one slot is rendered, with
\* autoscaling no fewer than min and, unless the bounds are inverted, no more than
\* max (DesiredReplicas).
THEOREM WindowBounded ==
  ASSUME NEW s \in AgentDeploySpec
  PROVE  /\ DesiredReplicas(s) \in Int /\ DesiredReplicas(s) >= 1
         /\ ~s.scale.disabled =>
              DesiredReplicas(s) \in LowBound(s.scale) .. HighBound(s.scale)
<1>1. s.scale \in Scale /\ s.replicas \in Optional(Int)
  BY Zenon DEF AgentDeploySpec
<1> QED
  BY <1>1, BoundsInOrder, NilAssumption
     DEF DesiredReplicas, atLeastOne, clampInt, Optional, Scale

\* A percentage of the window, however it rounds, and a string that is none, is a
\* budget of at least one slot and never more than the window
\* (ResolveMaxUnavailable).
THEOREM BudgetBounded ==
  ASSUME NEW s \in AgentDeploySpec, NEW desired \in Nat \ {0},
         GetMaxUnavailable(s).percent, GetMaxUnavailable(s).value \in (0 .. 100) \cup {Nil}
  PROVE  ResolveMaxUnavailable(s, desired) \in 1 .. desired
<1>a. CASE Malformed(GetMaxUnavailable(s))
  BY <1>a DEF ResolveMaxUnavailable
<1>b. SUFFICES ASSUME ~Malformed(GetMaxUnavailable(s))
               PROVE  ResolveMaxUnavailable(s, desired) \in 1 .. desired
  BY <1>a
<1> DEFINE p == GetMaxUnavailable(s).value
           n == p * desired
           q == (n + 99) \div 100
<1>1. n \in Int /\ 0 <= n /\ n <= 100 * desired
  <2>1. p \in Int /\ 0 <= p /\ p <= 100
    BY <1>b DEF Malformed
  <2> HIDE DEF p
  <2> QED
    BY <2>1
<1>2. q \in Int /\ q <= desired
  <2> HIDE DEF n
  <2> QED
    BY <1>1
<1>3. ScaledUp(GetMaxUnavailable(s), desired) = q
  BY Zenon DEF ScaledUp
<1> HIDE DEF q
<1> QED
  BY <1>b, <1>2, <1>3 DEF ResolveMaxUnavailable, atLeastOne

-----------------------------------------------------------------------------
(* Type correctness *)

\* Counting pods always gives a natural number.
LEMMA CountType ==
  ASSUME NEW S \in SUBSET Names
  PROVE  Cardinality(S) \in Nat
BY ConstantsAssumption, FS_Subset, FS_CardinalityType, Zenon

\* Every plan deletes pods by name and fills slots by index.
LEMMA PlanType ==
  ASSUME NEW ad \in Object, NEW seen \in PodMap, NEW kept \in SUBSET Names
  PROVE  PlanOf(ad, seen, kept) \in Plan
<1>1. DesiredReplicas(ad.spec) \in Nat
  BY DesiredReplicasType, ConstantsAssumption, Zenon DEF Object
<1> DEFINE d == DesiredReplicas(ad.spec)
           h == ad.spec.hash
           sat == {seen[n].replica : n \in kept}
           rep == {r \in 0 .. d - 1 : r \notin sat /\ OffHash(seen, r, h) # {}}
           bat == IF \A n \in kept : podReady(seen[n])
                  THEN FirstN(rep, ResolveMaxUnavailable(ad.spec, d)) ELSE {}
           old == UNION {OffHash(seen, r, h) : r \in bat}
<1>2. rep \in SUBSET Nat /\ (0 .. d - 1) \ (sat \cup rep) \in SUBSET Nat
  BY <1>1
<1>3. bat \in SUBSET rep
  BY Zenon DEF FirstN
<1>4. old \in SUBSET Names
  BY Zenon DEF OffHash
<1> HIDE DEF d, h, sat, rep, bat, old
<1>5. PlanOf(ad, seen, kept) =
        [outside |-> {n \in Names : Live(seen, n) /\ seen[n].replica >= d},
         duplicates |-> {n \in Names : /\ Live(seen, n) /\ seen[n].replica < d
                                       /\ seen[n].hash = h /\ n \notin kept},
         needsCreate |-> (0 .. d - 1) \ (sat \cup rep),
         needsReplace |-> rep, batch |-> bat, replaced |-> old]
  BY Zenon DEF PlanOf, d, h, sat, rep, bat, old
<1> QED
  BY <1>2, <1>3, <1>4, <1>5 DEF Plan

\* The status a pass computes is a status.
LEMMA StatusType ==
  ASSUME NEW p \in Pass, NEW view \in PodMap
  PROVE  /\ InitializeConditions(p.ad.status) \in Status
         /\ Begun(p) \in Status
         /\ Promoted(p) \in Status
         /\ \A st \in Status : /\ Failed(st) \in Status
                               /\ updatePodStatus(st, view) \in Status
                               /\ Summarised(st) \in Status
<1>1. p.ad.spec \in AgentDeploySpec /\ p.ad.status \in Status /\ p.ad.spec.hash \in Hashes
  BY ConstantsAssumption, Zenon DEF Pass, Object, AgentDeploySpec
<1>2. DesiredReplicas(p.ad.spec) \in Nat
  BY <1>1, DesiredReplicasType, Zenon
<1>3. InitializeConditions(p.ad.status) \in Status
  BY <1>1, Zenon DEF InitializeConditions, Status, ZeroStatus, Conditions, Tri, Optional
<1>4. Begun(p) \in Status
  BY <1>1, <1>2, <1>3 DEF Begun, Status, Optional
<1>5. Promoted(p) \in Status
  <2> DEFINE b == Begun(p)
             c == IF p.plan.needsReplace = {} THEN p.ad.spec.hash ELSE b.current
  <2>1. b \in Status /\ c \in Optional(Hashes)
    BY <1>1, <1>4, Zenon DEF Status, Optional
  <2>2. Promoted(p) = [b EXCEPT !.current = c, !.conditions.deployed = "True"]
    BY Zenon DEF Promoted
  <2> HIDE DEF b, c
  <2>3. [b.conditions EXCEPT !.deployed = "True"] \in Conditions
    BY <2>1, Zenon DEF Status, Conditions, Tri
  <2>4. Promoted(p) =
          [b EXCEPT !.current = c,
                    !.conditions = [b.conditions EXCEPT !.deployed = "True"]]
    BY <2>1, <2>2, Zenon DEF Status
  <2> QED
    BY <2>1, <2>3, <2>4, Zenon DEF Status
<1>6. ASSUME NEW st \in Status
      PROVE  Failed(st) \in Status /\ Summarised(st) \in Status
  BY DEF Failed, Summarised, Status, Conditions, Tri, Optional
<1>7. ASSUME NEW st \in Status
      PROVE  updatePodStatus(st, view) \in Status
  <2> DEFINE live == {n \in Names : Live(view, n)}
  <2>1. /\ Cardinality(live) \in Nat
        /\ Cardinality({n \in live : podReady(view[n])}) \in Nat
        /\ Cardinality({n \in live : view[n].hash = st.update}) \in Nat
        /\ Cardinality({n \in live : view[n].hash = st.update /\ podReady(view[n])}) \in Nat
    BY CountType, Zenon
  <2> QED
    BY <2>1, Zenon DEF updatePodStatus, Status
<1> QED
  BY <1>3, <1>4, <1>5, <1>6, <1>7, Zenon

\* A merge patch of statuses is a status.
LEMMA MergeType ==
  ASSUME NEW old \in Status, NEW new \in Status, NEW server \in Status,
         NEW restamped \in BOOLEAN
  PROVE  MergePatch(old, new, server, restamped) \in Status
BY Zenon DEF MergePatch, Merge, Status

\* Writes keep the server and the streams well typed.
LEMMA WriteObjectType ==
  ASSUME TypeOK, NEW new \in Object, WriteObject(new)
  PROVE  object' \in Object /\ objStream' \in Seq(Object)
BY DEF TypeOK, WriteObject

LEMMA WritePodType ==
  ASSUME TypeOK, NEW n \in Names, NEW pod \in Optional(Pod), WritePod(n, pod)
  PROVE  /\ pods' \in PodMap
         /\ podStream' \in Seq([name : Names, pod : Optional(Pod)])
<1>1. pods' \in PodMap
  BY Zenon DEF TypeOK, WritePod, PodMap
<1>2. [name |-> n, pod |-> pod] \in [name : Names, pod : Optional(Pod)]
  BY Zenon
<1>3. podStream' \in Seq([name : Names, pod : Optional(Pod)])
  BY <1>2, AppendSeq, Zenon DEF TypeOK, WritePod
<1> QED
  BY <1>1, <1>3, Zenon

LEMMA PatchStatusType ==
  ASSUME TypeOK, pass # Nil, NEW st \in Status, PatchStatus(st)
  PROVE  object' \in Object /\ objStream' \in Seq(Object)
<1>1. PICK new \in {st}, restamped \in BOOLEAN :
        WriteObject([object EXCEPT
          !.status = MergePatch(pass.ad.status, new, object.status, restamped)])
  BY Zenon DEF PatchStatus
<1>2. object.status \in Status /\ pass.ad.status \in Status /\ object \in Object
  BY Zenon DEF TypeOK, Optional, Pass, Object
<1>3. MergePatch(pass.ad.status, new, object.status, restamped) \in Status
  BY <1>1, <1>2, MergeType, Zenon
<1>4. [object EXCEPT !.status = MergePatch(pass.ad.status, new, object.status, restamped)]
        \in Object
  BY <1>2, <1>3, Zenon DEF Object
<1> QED
  BY <1>1, <1>4, WriteObjectType, Zenon

LEMMA AbortType ==
  ASSUME TypeOK, pass # Nil, NEW st \in Status, Abort(st)
  PROVE  TypeOK'
<1>1. object' \in Object /\ objStream' \in Seq(Object)
  BY PatchStatusType, Zenon DEF Abort, TypeOK
<1> QED
  BY <1>1 DEF Abort, Disturb, TypeOK, Optional

\* A pod with another phase or marked for deletion is a pod.
LEMMA PodUpdateType ==
  ASSUME TypeOK, NEW n \in Names, pods[n] # Nil
  PROVE  /\ pods[n] \in Pod
         /\ [pods[n] EXCEPT !.terminating = TRUE] \in Optional(Pod)
         /\ [pods[n] EXCEPT !.phase = "ready"] \in Optional(Pod)
         /\ [pods[n] EXCEPT !.phase = "unready"] \in Optional(Pod)
<1>1. pods[n] \in Pod
  BY Zenon DEF TypeOK, PodMap, Optional
<1> QED
  BY <1>1, Zenon DEF Pod, Optional

LEMMA TypeInit == Init => TypeOK
<1>1. ZeroStatus \in Status
  BY Zenon DEF ZeroStatus, Status, Conditions, Tri, Optional
<1> QED
  BY <1>1 DEF Init, TypeOK, Object, PodMap, Optional

LEMMA TypeNext == TypeOK /\ [Next]_vars => TypeOK'
<1> SUFFICES ASSUME TypeOK, [Next]_vars PROVE TypeOK'
  BY Zenon
<1>1. CASE Start
  <2>1. PICK K \in KeepOnePerSlot(podView, objView) :
          pass' = [ad |-> objView, seen |-> podView, kept |-> K,
                   plan |-> PlanOf(objView, podView, K), deleted |-> {}, created |-> {}]
    BY <1>1, Zenon DEF Start
  <2>2. K \in SUBSET Names
    BY Zenon DEF KeepOnePerSlot
  <2>3. PlanOf(objView, podView, K) \in Plan
    BY <2>2, PlanType, Zenon DEF TypeOK
  <2>4. pass' \in Optional(Pass)
    BY <2>1, <2>2, <2>3, Zenon DEF TypeOK, Pass, Optional
  <2>5. faults' \in Nat
    BY <1>1 DEF Start, Disturb, TypeOK
  <2>6. queued' \in BOOLEAN
    BY <1>1, Zenon DEF Start
  <2> QED
    BY <1>1, <2>4, <2>5, <2>6 DEF Start, TypeOK, apiVars, viewVars
<1>2. ASSUME NEW n \in Names, DeletePod(n) PROVE TypeOK'
  <2>1. (IF pods[n] = Nil THEN Nil ELSE [pods[n] EXCEPT !.terminating = TRUE]) \in Optional(Pod)
    BY PodUpdateType, Zenon DEF Optional
  <2>2. pods' \in PodMap /\ podStream' \in Seq([name : Names, pod : Optional(Pod)])
    BY <1>2, <2>1, WritePodType, Zenon DEF DeletePod
  <2>3. pass' \in Optional(Pass)
    BY <1>2, Zenon DEF DeletePod, TypeOK, Pass, Optional
  <2> QED
    BY <1>2, <2>2, <2>3, Zenon DEF DeletePod, TypeOK
<1>3. ASSUME pass # Nil, NEW r \in pass.plan.needsCreate \cup pass.plan.batch, CreatePod(r)
      PROVE  TypeOK'
  <2>1. pass \in Pass /\ r \in Nat /\ pass.ad.spec.hash \in Hashes
    BY <1>3, ConstantsAssumption, Zenon
       DEF TypeOK, Optional, Pass, Plan, Object, AgentDeploySpec
  <2>2. newPod(r, pass.ad.spec.hash) \in Optional(Pod)
    BY <2>1, Zenon DEF newPod, Pod, Optional
  <2>3. PICK n \in Names : WritePod(n, newPod(r, pass.ad.spec.hash))
    BY <1>3, Zenon DEF CreatePod
  <2>4. pods' \in PodMap /\ podStream' \in Seq([name : Names, pod : Optional(Pod)])
    BY <2>2, <2>3, WritePodType, Zenon
  <2>5. pass' \in Optional(Pass)
    BY <1>3, <2>1, Zenon DEF CreatePod, Pass, Optional
  <2> QED
    BY <1>3, <2>4, <2>5, Zenon DEF CreatePod, TypeOK
<1>4. CASE Persist
  <2>1. pass \in Pass /\ podView \in PodMap
    BY <1>4, Zenon DEF Persist, TypeOK, Optional
  <2>2. Summarised(updatePodStatus(Promoted(pass), podView)) \in Status
    BY <2>1, StatusType, Zenon
  <2>3. object' \in Object /\ objStream' \in Seq(Object)
    BY <1>4, <2>2, PatchStatusType, Zenon DEF Persist
  <2> QED
    BY <1>4, <2>3, Zenon DEF Persist, TypeOK, Optional
<1>5. CASE ServicesFail \/ PodsFail \/ StatusFails
  <2>1. pass # Nil /\ pass \in Pass /\ podView \in PodMap
    BY <1>5, Zenon DEF ServicesFail, PodsFail, StatusFails, TypeOK, Optional
  <2>2. \E st \in Status : Abort(st)
    BY <1>5, <2>1, StatusType, Zenon DEF ServicesFail, PodsFail, StatusFails
  <2> QED
    BY <2>1, <2>2, AbortType, Zenon
<1>6. CASE Restart
  BY <1>6 DEF Restart, Disturb, TypeOK, apiVars, Optional
<1>7. ASSUME NEW n \in Names, BecomeReady(n) \/ LoseReady(n) \/ Evict(n) \/ Removed(n)
      PROVE  TypeOK'
  <2>1. \E pod \in Optional(Pod) : WritePod(n, pod)
    BY <1>7, PodUpdateType, Zenon DEF BecomeReady, LoseReady, Evict, Removed, Live, Optional
  <2>2. pods' \in PodMap /\ podStream' \in Seq([name : Names, pod : Optional(Pod)])
    BY <2>1, WritePodType, Zenon
  <2> QED
    BY <1>7, <2>2 DEF BecomeReady, LoseReady, Evict, Removed, Disturb, TypeOK
<1>8. ASSUME NEW s \in Specs, EditSpec(s) PROVE TypeOK'
  <2>1. [object EXCEPT !.spec = s] \in Object
    BY Zenon DEF TypeOK, Object
  <2>2. object' \in Object /\ objStream' \in Seq(Object)
    BY <1>8, <2>1, WriteObjectType, Zenon DEF EditSpec
  <2> QED
    BY <1>8, <2>2 DEF EditSpec, Disturb, TypeOK
<1>9. CASE DeliverObject
  <2>1. Head(objStream) \in Object /\ Tail(objStream) \in Seq(Object)
    BY <1>9, HeadTailSeq, Zenon DEF DeliverObject, TypeOK
  <2> QED
    BY <1>9, <2>1, Zenon DEF DeliverObject, TypeOK
<1>10. CASE DeliverPod
  <2>1. /\ Head(podStream) \in [name : Names, pod : Optional(Pod)]
        /\ Tail(podStream) \in Seq([name : Names, pod : Optional(Pod)])
    BY <1>10, HeadTailSeq, Zenon DEF DeliverPod, TypeOK
  <2> QED
    BY <1>10, <2>1, Zenon DEF DeliverPod, TypeOK, PodMap
<1>11. CASE UNCHANGED vars
  BY <1>11, Zenon DEF vars, TypeOK
<1> QED
  BY <1>1, <1>2, <1>3, <1>4, <1>5, <1>6, <1>7, <1>8, <1>9, <1>10, <1>11, Zenon
     DEF Next, Controller, Errors, Kubelet

\* Every reachable state of the controller, its caches and the API server is
\* well typed: every status a pass computes or patches, every plan it makes
\* and every pod it renders.
THEOREM TypeCorrect == Spec => []TypeOK
BY TypeInit, TypeNext, PTL DEF Spec

-----------------------------------------------------------------------------
(* Delete, then create: on any caches *)

(***************************************************************************)
(* What reconcilePods' classification establishes about the list it read:  *)
(* only live pods are deleted, an empty slot has no live pod, and a slot   *)
(* of the batch has none on the desired hash.                              *)
(***************************************************************************)
PlanSound(p) ==
  /\ \A n \in p.plan.outside \cup p.plan.duplicates \cup p.plan.replaced : Live(p.seen, n)
  /\ \A r \in p.plan.needsCreate :
       OnHash(p.seen, r, p.ad.spec.hash) = {} /\ OffHash(p.seen, r, p.ad.spec.hash) = {}
  /\ \A r \in p.plan.batch : OnHash(p.seen, r, p.ad.spec.hash) = {}

\* A pod the pass has deleted does not come back to life.
PassInv ==
  pass # Nil =>
    /\ PlanSound(pass)
    /\ \A n \in pass.deleted : Live(pass.seen, n) /\ ~Live(pods, n)

\* The plan made from a list and a choice of kept pods is sound.
LEMMA PlanIsSound ==
  ASSUME NEW ad \in Object, NEW seen \in PodMap, NEW kept \in KeepOnePerSlot(seen, ad),
         NEW p, p.ad = ad, p.seen = seen, p.plan = PlanOf(ad, seen, kept)
  PROVE  PlanSound(p)
<1> DEFINE d == DesiredReplicas(ad.spec)
           h == ad.spec.hash
           sat == {seen[n].replica : n \in kept}
           rep == {r \in 0 .. d - 1 : r \notin sat /\ OffHash(seen, r, h) # {}}
           bat == IF \A n \in kept : podReady(seen[n])
                  THEN FirstN(rep, ResolveMaxUnavailable(ad.spec, d)) ELSE {}
           old == UNION {OffHash(seen, r, h) : r \in bat}
<1>1. bat \in SUBSET rep
  BY Zenon DEF FirstN
<1>2. \A n \in old : Live(seen, n)
  BY Zenon DEF OffHash
<1>3. ASSUME NEW r \in 0 .. d - 1, r \notin sat
      PROVE  OnHash(seen, r, h) = {}
  <2>1. SUFFICES ASSUME OnHash(seen, r, h) # {} PROVE FALSE
    BY Zenon
  <2>2. PICK n \in kept : {m \in kept : seen[m].replica = r} = {n}
    BY <1>3, <2>1, Zenon DEF KeepOnePerSlot
  <2>3. seen[n].replica = r
    BY <2>2, Zenon
  <2> QED
    BY <1>3, <2>3, Zenon
<1>4. \A r \in rep : r \in 0 .. d - 1 /\ r \notin sat
  BY Zenon
<1>5. \A r \in (0 .. d - 1) \ (sat \cup rep) :
        r \notin sat /\ OffHash(seen, r, h) = {}
  BY Zenon
<1> HIDE DEF sat, rep, bat, old
<1>6. /\ p.plan.outside = {n \in Names : Live(seen, n) /\ seen[n].replica >= d}
      /\ p.plan.duplicates = {n \in Names : /\ Live(seen, n) /\ seen[n].replica < d
                                            /\ seen[n].hash = h /\ n \notin kept}
      /\ p.plan.needsCreate = (0 .. d - 1) \ (sat \cup rep)
      /\ p.plan.batch = bat /\ p.plan.replaced = old
  BY DEF PlanOf, sat, rep, bat, old
<1>7. \A n \in p.plan.outside \cup p.plan.duplicates \cup p.plan.replaced : Live(seen, n)
  BY <1>2, <1>6, Zenon
<1>8. \A r \in p.plan.needsCreate : OnHash(seen, r, h) = {} /\ OffHash(seen, r, h) = {}
  BY <1>3, <1>5, <1>6, Zenon
<1>9. \A r \in p.plan.batch : OnHash(seen, r, h) = {}
  BY <1>1, <1>3, <1>4, <1>6, Zenon
<1> QED
  BY <1>7, <1>8, <1>9, Zenon DEF PlanSound

\* What a write to one pod does to which pods are live.
LEMMA WritePodLive ==
  ASSUME TypeOK, NEW n \in Names, NEW pod, WritePod(n, pod)
  PROVE  pods'[n] = pod /\ \A m \in Names \ {n} : pods'[m] = pods[m]
BY Zenon DEF TypeOK, PodMap, WritePod

\* The steps of the kubelet and of other users: no pod comes to life or moves.
LEMMA KubeletLive ==
  ASSUME TypeOK, NEW n \in Names, BecomeReady(n) \/ LoseReady(n) \/ Evict(n) \/ Removed(n)
  PROVE  /\ pass' = pass
         /\ \A m \in Names :
              /\ Live(pods', m) => Live(pods, m) /\ pods'[m].replica = pods[m].replica
              /\ pods[m] = Nil => pods'[m] = Nil
<1>1. PICK pod :
        /\ WritePod(n, pod)
        /\ pods[n] # Nil
        /\ pod # Nil => /\ pod.terminating \/ ~pods[n].terminating
                        /\ pod.replica = pods[n].replica
  <2>1. pods[n] # Nil /\ pods[n] \in Pod
    BY PodUpdateType, Zenon DEF BecomeReady, LoseReady, Evict, Removed, Live
  <2> QED
    BY <2>1 DEF BecomeReady, LoseReady, Evict, Removed, Live, Pod
<1>2. pods'[n] = pod /\ \A m \in Names \ {n} : pods'[m] = pods[m]
  BY <1>1, WritePodLive, Zenon
<1>3. pass' = pass
  BY Zenon DEF BecomeReady, LoseReady, Evict, Removed
<1> QED
  BY <1>1, <1>2, <1>3, Zenon DEF Live

\* What creating a pod does: one name not in use becomes a live pod.
LEMMA CreatePodLive ==
  ASSUME TypeOK, NEW r, CreatePod(r)
  PROVE  \E n \in Names :
           /\ Unused(n) /\ pods'[n] = newPod(r, pass.ad.spec.hash)
           /\ \A m \in Names \ {n} : pods'[m] = pods[m]
BY WritePodLive, Zenon DEF CreatePod

\* A slot is created only when no pod the pass saw in it is left to delete.
LEMMA CreatesIntoEmptied ==
  ASSUME TypeOK, PassInv, NEW r, CreatePod(r)
  PROVE  /\ OnHash(pass.seen, r, pass.ad.spec.hash) = {}
         /\ \A m \in OffHash(pass.seen, r, pass.ad.spec.hash) : ~Live(pods, m)
<1>1. PlanSound(pass) /\ \A n \in pass.deleted : ~Live(pods, n)
  BY Zenon DEF PassInv, CreatePod
<1>2. CASE r \in pass.plan.needsCreate
  BY <1>1, <1>2, Zenon DEF PlanSound
<1>3. CASE r \in pass.plan.batch /\ OffHash(pass.seen, r, pass.ad.spec.hash) \subseteq pass.deleted
  BY <1>1, <1>3, Zenon DEF PlanSound
<1> QED
  BY <1>2, <1>3, Zenon DEF CreatePod, CreatesNext

LEMMA PassInit == Init => PassInv
BY Zenon DEF Init, PassInv

LEMMA PassNext == TypeOK /\ PassInv /\ [Next]_vars => PassInv'
<1> SUFFICES ASSUME TypeOK, PassInv, [Next]_vars PROVE PassInv'
  BY Zenon
<1>1. CASE Start
  <2>1. PICK K \in KeepOnePerSlot(podView, objView) :
          pass' = [ad |-> objView, seen |-> podView, kept |-> K,
                   plan |-> PlanOf(objView, podView, K), deleted |-> {}, created |-> {}]
    BY <1>1, Zenon DEF Start
  <2>2. PlanSound(pass')
    BY <2>1, PlanIsSound, Zenon DEF TypeOK
  <2> QED
    BY <2>1, <2>2, Zenon DEF PassInv, PlanSound
<1>2. ASSUME NEW n \in Names, DeletePod(n) PROVE PassInv'
  <2>1. /\ pods'[n] = IF pods[n] = Nil THEN Nil ELSE [pods[n] EXCEPT !.terminating = TRUE]
        /\ \A m \in Names \ {n} : pods'[m] = pods[m]
    BY <1>2, WritePodLive, Zenon DEF DeletePod
  <2>2. pass \in Pass /\ pass' = [pass EXCEPT !.deleted = @ \cup {n}]
    BY <1>2, Zenon DEF DeletePod, TypeOK, Optional
  <2>3. Live(pass.seen, n)
    BY <1>2, Zenon DEF DeletePod, DeletesNext, PassInv, PlanSound
  <2>4. ~Live(pods', n)
    BY <2>1, PodUpdateType, Zenon DEF Live, Pod
  <2>5. \A m \in pass'.deleted : Live(pass.seen, m) /\ ~Live(pods', m)
    <3>1. pass'.deleted = pass.deleted \cup {n} /\ pass.deleted \subseteq Names
      BY <2>2, Zenon DEF Pass
    <3>2. \A m \in pass.deleted \ {n} : Live(pass.seen, m) /\ ~Live(pods', m)
      BY <1>2, <2>1, <3>1, Zenon DEF PassInv, DeletePod, Live
    <3> QED
      BY <2>3, <2>4, <3>1, <3>2, Zenon
  <2>6. pass'.seen = pass.seen /\ pass'.ad = pass.ad /\ pass'.plan = pass.plan
    BY <2>2, Zenon DEF Pass
  <2> QED
    BY <1>2, <2>5, <2>6, Zenon DEF PassInv, PlanSound, DeletePod
<1>3. ASSUME NEW r, CreatePod(r) PROVE PassInv'
  <2>1. PICK n \in Names : /\ Unused(n)
                           /\ \A m \in Names \ {n} : pods'[m] = pods[m]
    BY <1>3, CreatePodLive, Zenon
  <2>2. pass # Nil /\ pass \in Pass /\ pass' = [pass EXCEPT !.created = @ \cup {r}]
    BY <1>3, Zenon DEF CreatePod, TypeOK, Optional
  <2>3. n \notin pass.deleted
    BY <2>1, <2>2, Zenon DEF Unused, PassInv
  <2>4. /\ pass'.seen = pass.seen /\ pass'.ad = pass.ad /\ pass'.plan = pass.plan
        /\ pass'.deleted = pass.deleted /\ pass.deleted \subseteq Names
    BY <2>2, Zenon DEF Pass
  <2>5. \A m \in pass.deleted : Live(pass.seen, m) /\ ~Live(pods', m)
    BY <2>1, <2>2, <2>3, <2>4 DEF PassInv, Live
  <2> QED
    BY <2>2, <2>4, <2>5, Zenon DEF PassInv, PlanSound
<1>4. CASE Persist \/ ServicesFail \/ PodsFail \/ StatusFails \/ Restart
  BY <1>4, Zenon DEF PassInv, Persist, ServicesFail, PodsFail, StatusFails, Abort, Restart
<1>5. ASSUME NEW n \in Names, BecomeReady(n) \/ LoseReady(n) \/ Evict(n) \/ Removed(n)
      PROVE  PassInv'
  <2>1. pass' = pass /\ \A m \in Names : Live(pods', m) => Live(pods, m)
    BY <1>5, KubeletLive, Zenon
  <2>2. pass # Nil => pass.deleted \subseteq Names
    BY Zenon DEF TypeOK, Optional, Pass
  <2> QED
    BY <2>1, <2>2, Zenon DEF PassInv, PlanSound
<1>6. CASE (\E s \in Specs : EditSpec(s)) \/ DeliverObject \/ DeliverPod
  BY <1>6, Zenon DEF PassInv, PlanSound, EditSpec, DeliverObject, DeliverPod, Live
<1>7. CASE UNCHANGED vars
  BY <1>7, Zenon DEF vars, PassInv, PlanSound, Live
<1> QED
  BY <1>1, <1>2, <1>3, <1>4, <1>5, <1>6, <1>7 DEF Next, Controller, Errors, Kubelet

\* No step other than CreatePod brings a pod into being, and CreatePod does
\* so in a slot whose old pods are deleted.
LEMMA CreateStep ==
  ASSUME TypeOK, PassInv, [Next]_vars
  PROVE  CreatesAfterDeletes
<1>1. CASE \A n \in Names : pods[n] = Nil => pods'[n] = Nil
  BY <1>1, Zenon DEF CreatesAfterDeletes
<1>2. ASSUME NEW r, CreatePod(r) PROVE CreatesAfterDeletes
  <2>1. PICK n \in Names : /\ Unused(n) /\ pods'[n] = newPod(r, pass.ad.spec.hash)
                           /\ \A m \in Names \ {n} : pods'[m] = pods[m]
    BY <1>2, CreatePodLive, Zenon
  <2>2. pods'[n].replica = r /\ pods'[n].hash = pass.ad.spec.hash
    BY <2>1 DEF newPod
  <2>3. n \notin OffHash(pass.seen, r, pass.ad.spec.hash)
    BY <1>2, <2>1, Zenon DEF Unused, OffHash, CreatePod
  <2>4. \A m \in OffHash(pass.seen, r, pass.ad.spec.hash) : m \in Names \ {n} /\ ~Live(pods, m)
    BY <1>2, <2>3, CreatesIntoEmptied, Zenon DEF OffHash
  <2> QED
    BY <2>1, <2>2, <2>4, Zenon DEF CreatesAfterDeletes, Live
<1>3. ASSUME NEW n \in Names, DeletePod(n)
      PROVE  \A m \in Names : pods[m] = Nil => pods'[m] = Nil
  BY <1>3, WritePodLive, Zenon DEF DeletePod
<1>4. ASSUME NEW n \in Names, BecomeReady(n) \/ LoseReady(n) \/ Evict(n) \/ Removed(n)
      PROVE  \A m \in Names : pods[m] = Nil => pods'[m] = Nil
  BY <1>4, KubeletLive, Zenon
<1>5. CASE pods' = pods
  BY <1>1, <1>5, Zenon
<1> QED
  BY <1>1, <1>2, <1>3, <1>4, <1>5
     DEF Next, Controller, Errors, Kubelet, Start, Persist, ServicesFail, PodsFail,
         StatusFails, Abort, Restart, EditSpec, DeliverObject, DeliverPod, vars, apiVars

\* The rollout is delete-then-create whatever the caches showed: when
\* reconcilePods creates a pod in a slot, every pod of another hash it saw
\* live in that slot is already terminating or gone on the server.
THEOREM DeleteBeforeCreate == Spec => DeleteThenCreate
<1>1. TypeOK /\ PassInv /\ [Next]_vars => [CreatesAfterDeletes]_vars
  BY CreateStep, Zenon
<1> QED
  BY <1>1, TypeInit, TypeNext, PassInit, PassNext, PTL DEF Spec, DeleteThenCreate

-----------------------------------------------------------------------------
(* One live pod per slot: on caches that have caught up *)

\* No event about pod n is under way, at all or after the i-th.
NoEvent(n) == \A j \in 1 .. Len(podStream) : podStream[j].name # n

LastEvent(n, i) ==
  podStream[i].name = n /\ \A j \in 1 .. Len(podStream) : j > i => podStream[j].name # n

(***************************************************************************)
(* The watch loses nothing: the cache holds the server's version of a pod  *)
(* no event is under way for, and the last event for a pod carries it.     *)
(***************************************************************************)
CacheInv ==
  \A n \in Names :
    /\ NoEvent(n) => podView[n] = pods[n]
    /\ \A i \in 1 .. Len(podStream) : LastEvent(n, i) => podStream[i].pod = pods[n]

\* A pod live during a pass was seen by it in its slot, or created by it.
AccountedFor ==
  pass # Nil =>
    \A n \in Names : Live(pods, n) =>
      \/ Live(pass.seen, n) /\ pass.seen[n].replica = pods[n].replica
      \/ ~Live(pass.seen, n) /\ pods[n].replica \in pass.created

LEMMA CacheInit == Init => CacheInv
BY DEF Init, CacheInv, NoEvent, LastEvent

\* A write to a pod and the event it emits keep the cache invariant.
LEMMA CacheWrite ==
  ASSUME TypeOK, CacheInv, NEW n \in Names, NEW pod, WritePod(n, pod), podView' = podView
  PROVE  CacheInv'
<1>1. pods'[n] = pod /\ \A m \in Names \ {n} : pods'[m] = pods[m]
  BY WritePodLive, Zenon
<1>2. CASE pods[n] = pod
  <2>1. podStream' = podStream /\ pods' = pods
    BY <1>2, Zenon DEF WritePod, TypeOK, PodMap
  <2> QED
    BY <2>1, Zenon DEF CacheInv, NoEvent, LastEvent
<1>3. CASE pods[n] # pod
  <2>1. podStream' = Append(podStream, [name |-> n, pod |-> pod])
    BY <1>3, Zenon DEF WritePod
  <2> DEFINE k == Len(podStream)
  <2>2. /\ k \in Nat /\ Len(podStream') = k + 1
        /\ podStream'[k + 1] = [name |-> n, pod |-> pod]
        /\ \A i \in 1 .. k : podStream'[i] = podStream[i]
    BY <2>1, AppendSeq DEF TypeOK
  <2> HIDE DEF k
  <2>3. ASSUME NEW m \in Names PROVE NoEvent(m)' => podView'[m] = pods'[m]
    <3> SUFFICES ASSUME NoEvent(m)' PROVE podView'[m] = pods'[m]
      BY Zenon
    <3>1. m # n
      BY <2>2 DEF NoEvent
    <3>2. NoEvent(m)
      BY <2>2 DEF NoEvent, k
    <3> QED
      BY <1>1, <3>1, <3>2, Zenon DEF CacheInv
  <2>4. ASSUME NEW m \in Names, NEW i \in 1 .. k + 1, LastEvent(m, i)'
        PROVE  podStream'[i].pod = pods'[m]
    <3>1. CASE i = k + 1
      BY <1>1, <2>2, <2>4, <3>1 DEF LastEvent
    <3>2. CASE i \in 1 .. k
      <4>1. m # n
        BY <2>2, <2>4, <3>2 DEF LastEvent
      <4>2. LastEvent(m, i)
        BY <2>2, <2>4, <3>2 DEF LastEvent, k
      <4> QED
        BY <1>1, <2>2, <3>2, <4>1, <4>2 DEF CacheInv, k
    <3> QED
      BY <2>2, <2>4, <3>1, <3>2
  <2> QED
    BY <2>2, <2>3, <2>4, Zenon DEF CacheInv
<1> QED
  BY <1>2, <1>3, Zenon

\* Delivering the oldest event keeps it.
LEMMA CacheDeliver ==
  ASSUME TypeOK, CacheInv, DeliverPod
  PROVE  CacheInv'
<1> DEFINE e == Head(podStream)
           k == Len(podStream)
<1>1. /\ k \in Nat /\ k > 0 /\ Len(podStream') = k - 1
      /\ e = podStream[1]
      /\ \A i \in 1 .. k - 1 : podStream'[i] = podStream[i + 1]
  BY HeadTailSeq DEF DeliverPod, TypeOK
<1>2. e.name \in Names
  <2>1. Head(podStream) \in [name : Names, pod : Optional(Pod)]
    BY HeadTailSeq, Zenon DEF DeliverPod, TypeOK
  <2> QED
    BY <2>1, Zenon
<1>3. /\ podView'[e.name] = e.pod
      /\ \A m \in Names \ {e.name} : podView'[m] = podView[m]
      /\ pods' = pods
  BY <1>2, Zenon DEF DeliverPod, TypeOK, PodMap
<1> HIDE DEF e, k
<1>4. ASSUME NEW m \in Names, NoEvent(m)' PROVE podView'[m] = pods'[m]
  <2>1. \A j \in 2 .. k : podStream[j].name # m
    <3> SUFFICES ASSUME NEW j \in 2 .. k PROVE podStream[j].name # m
      BY Zenon
    <3>1. j - 1 \in 1 .. k - 1 /\ (j - 1) + 1 = j
      BY <1>1
    <3>2. podStream'[j - 1] = podStream[j]
      BY <1>1, <3>1, Zenon
    <3> QED
      BY <1>1, <1>4, <3>1, <3>2, Zenon DEF NoEvent
  <2>2. CASE m = e.name
    <3>1. LastEvent(m, 1)
      BY <1>1, <2>1, <2>2 DEF LastEvent, k
    <3> QED
      BY <1>1, <1>3, <2>2, <3>1 DEF CacheInv, k
  <2>3. CASE m # e.name
    <3>1. NoEvent(m)
      BY <1>1, <2>1, <2>3 DEF NoEvent, k
    <3> QED
      BY <1>3, <2>3, <3>1, Zenon DEF CacheInv
  <2> QED
    BY <2>2, <2>3, Zenon
<1>5. ASSUME NEW m \in Names, NEW i \in 1 .. k - 1, LastEvent(m, i)'
      PROVE  podStream'[i].pod = pods'[m]
  <2>1. podStream'[i] = podStream[i + 1] /\ i + 1 \in 1 .. k
    BY <1>1
  <2>2. ASSUME NEW j \in 1 .. k, j > i + 1 PROVE podStream[j].name # m
    <3>1. j - 1 \in 1 .. k - 1 /\ j - 1 > i /\ (j - 1) + 1 = j
      BY <1>1, <2>2
    <3>2. podStream'[j - 1] = podStream[j]
      BY <1>1, <3>1, Zenon
    <3> QED
      BY <1>1, <1>5, <3>1, <3>2, Zenon DEF LastEvent
  <2>3. LastEvent(m, i + 1)
    BY <1>5, <2>1, <2>2, Zenon DEF LastEvent, k
  <2> QED
    BY <1>3, <2>1, <2>3, Zenon DEF CacheInv, k
<1> QED
  BY <1>1, <1>4, <1>5, Zenon DEF CacheInv

LEMMA CacheNext == TypeOK /\ CacheInv /\ [Next]_vars => CacheInv'
<1> SUFFICES ASSUME TypeOK, CacheInv, [Next]_vars PROVE CacheInv'
  OBVIOUS
<1>1. CASE UNCHANGED <<pods, podView, podStream>>
  BY <1>1, Zenon DEF CacheInv, NoEvent, LastEvent
<1>2. ASSUME NEW n \in Names, DeletePod(n) PROVE CacheInv'
  BY <1>2, CacheWrite, Zenon DEF DeletePod
<1>3. ASSUME NEW r, CreatePod(r) PROVE CacheInv'
  BY <1>3, CacheWrite, Zenon DEF CreatePod
<1>4. ASSUME NEW n \in Names, BecomeReady(n) \/ LoseReady(n) \/ Evict(n) \/ Removed(n)
      PROVE  CacheInv'
  BY <1>4, CacheWrite, Zenon DEF BecomeReady, LoseReady, Evict, Removed
<1>5. CASE Restart
  BY <1>5 DEF Restart, apiVars, CacheInv, NoEvent, LastEvent
<1> QED
  BY <1>1, <1>2, <1>3, <1>4, <1>5, CacheDeliver
     DEF Next, Controller, Errors, Kubelet, Start, Persist, ServicesFail, PodsFail,
         StatusFails, Abort, EditSpec, DeliverObject, vars, apiVars, viewVars

SlotInv == SlotExclusive /\ AccountedFor

LEMMA SlotInit == Init => SlotInv
BY Zenon DEF Init, SlotInv, SlotExclusive, AccountedFor, Live

\* A step in which no pod comes to life or moves, and the pass is unchanged
\* or over, keeps the slots exclusive.
LEMMA SlotShrink ==
  ASSUME SlotInv,
         \A m \in Names : Live(pods', m) => Live(pods, m) /\ pods'[m].replica = pods[m].replica,
         pass' = pass \/ pass' = Nil
  PROVE  SlotInv'
BY DEF SlotInv, SlotExclusive, AccountedFor, Live

LEMMA SlotNext ==
  ASSUME TypeOK, PassInv, CacheInv, SlotInv, [Next]_vars, Start => InSync
  PROVE  SlotInv'
<1>1. CASE Start
  <2>1. podStream = <<>> /\ pods' = pods
    BY <1>1, Zenon DEF Start, InSync, apiVars
  <2>2. \A n \in Names : podView[n] = pods[n]
    BY <2>1 DEF CacheInv, NoEvent
  <2>3. pass'.seen = podView
    BY <1>1 DEF Start
  <2> QED
    BY <2>1, <2>2, <2>3, Zenon DEF SlotInv, SlotExclusive, AccountedFor, Live
<1>2. ASSUME NEW n \in Names, DeletePod(n) PROVE SlotInv'
  <2>1. /\ pods'[n] = IF pods[n] = Nil THEN Nil ELSE [pods[n] EXCEPT !.terminating = TRUE]
        /\ \A m \in Names \ {n} : pods'[m] = pods[m]
    BY <1>2, WritePodLive, Zenon DEF DeletePod
  <2>2. ~Live(pods', n)
    BY <2>1, PodUpdateType, Zenon DEF Live, Pod
  <2>3. \A m \in Names : Live(pods', m) => Live(pods, m) /\ pods'[m] = pods[m]
    BY <2>1, <2>2, Zenon DEF Live
  <2>4. pass # Nil /\ pass'.seen = pass.seen /\ pass'.created = pass.created
    BY <1>2, Zenon DEF DeletePod, TypeOK, Optional, Pass
  <2> QED
    BY <2>3, <2>4 DEF SlotInv, SlotExclusive, AccountedFor
<1>3. ASSUME NEW r, CreatePod(r) PROVE SlotInv'
  <2>1. PICK n \in Names : /\ Unused(n) /\ pods'[n] = newPod(r, pass.ad.spec.hash)
                           /\ \A m \in Names \ {n} : pods'[m] = pods[m]
    BY <1>3, CreatePodLive, Zenon
  <2>2. /\ pass # Nil /\ r \notin pass.created
        /\ pass'.seen = pass.seen /\ pass'.created = pass.created \cup {r}
    BY <1>3, Zenon DEF CreatePod, TypeOK, Optional, Pass
  <2>3. pods'[n].replica = r /\ ~Live(pass.seen, n)
    BY <2>1, <2>2 DEF newPod, Unused
  \* No pod is live in the slot: the pass would have seen or created it.
  <2>4. \A m \in Names \ {n} : Live(pods, m) => pods[m].replica # r
    <3> SUFFICES ASSUME NEW m \in Names \ {n}, Live(pods, m), pods[m].replica = r
                 PROVE  FALSE
      BY Zenon
    <3>1. Live(pass.seen, m) /\ pass.seen[m].replica = r
      BY <2>2, Zenon DEF SlotInv, AccountedFor
    <3>2. m \in OnHash(pass.seen, r, pass.ad.spec.hash) \cup OffHash(pass.seen, r, pass.ad.spec.hash)
      BY <3>1, Zenon DEF OnHash, OffHash
    <3> QED
      BY <1>3, <3>2, CreatesIntoEmptied, Zenon
  <2>5. SlotExclusive'
    BY <2>1, <2>3, <2>4 DEF SlotInv, SlotExclusive, Live
  <2>6. AccountedFor'
    BY <2>1, <2>2, <2>3, Zenon DEF SlotInv, AccountedFor, Live
  <2> QED
    BY <2>5, <2>6, Zenon DEF SlotInv
<1>4. ASSUME NEW n \in Names, BecomeReady(n) \/ LoseReady(n) \/ Evict(n) \/ Removed(n)
      PROVE  SlotInv'
  BY <1>4, KubeletLive, SlotShrink, Zenon
<1>5. CASE pods' = pods /\ (pass' = pass \/ pass' = Nil)
  BY <1>5, SlotShrink, Zenon DEF Live
<1> QED
  BY <1>1, <1>2, <1>3, <1>4, <1>5, Zenon
     DEF Next, Controller, Errors, Kubelet, Persist, ServicesFail, PodsFail, StatusFails,
         Abort, Restart, EditSpec, DeliverObject, DeliverPod, vars, apiVars

\* Two live pods never share a slot when every pass reads caches that have
\* caught up: through any number of edits, evictions, failed writes and
\* restarts in the middle of a pass, and for any number of replicas.
THEOREM OnePodPerSlot ==
  ASSUME "stale" \notin FaultKinds
  PROVE  Spec => []SlotExclusive
<1>1. SlotInv => SlotExclusive
  BY Zenon DEF SlotInv
<1>2. Start => InSync
  BY Zenon DEF Start, Disturb
<1>3. TypeOK /\ PassInv /\ CacheInv /\ SlotInv /\ [Next]_vars => SlotInv'
  BY <1>2, SlotNext, Zenon
<1> QED
  BY <1>1, <1>3, TypeInit, TypeNext, PassInit, PassNext, CacheInit, CacheNext, SlotInit,
     PTL DEF Spec


-----------------------------------------------------------------------------
(* No slot is left without a pod: on any caches *)

\* The least member of a set of slots.
LEMMA LeastOf ==
  ASSUME NEW S, S \subseteq Nat, S # {}
  PROVE  \E x \in S : \A y \in S : x <= y
<1>1. PICK x \in S : \A y \in S : ~(<<y, x>> \in OpToRel(<, Nat))
  BY NatLessThanWellFounded, WFMin, Zenon
<1>2. ASSUME NEW y \in S PROVE x <= y
  <2>1. x \in Nat /\ y \in Nat
    BY Zenon
  <2>2. ~(y < x)
    BY <1>1, <2>1, Zenon DEF OpToRel
  <2> QED
    BY <2>1, <2>2
<1> QED
  BY <1>2, Zenon

\* The budget of a pass is at least one slot, so a batch is empty only when
\* nothing is left to replace (resolveMaxUnavailable, reconcilePods).
LEMMA BudgetType ==
  ASSUME NEW s \in AgentDeploySpec
  PROVE  ResolveMaxUnavailable(s, DesiredReplicas(s)) \in Nat \ {0}
<1> DEFINE mu == GetMaxUnavailable(s)
           d == DesiredReplicas(s)
<1>a. CASE Malformed(mu)
  BY <1>a DEF ResolveMaxUnavailable
<1>b. SUFFICES ASSUME ~Malformed(mu)
               PROVE  ResolveMaxUnavailable(s, d) \in Nat \ {0}
  BY <1>a
<1>1. mu.percent \in BOOLEAN /\ mu.value \in Int
  <2>1. s.maxUnavailable = Nil \/ s.maxUnavailable \in MaxUnavailable
    BY Zenon DEF AgentDeploySpec, Optional
  <2>2. CASE s.maxUnavailable = Nil
    BY <2>2 DEF GetMaxUnavailable, DefaultMaxUnavailable
  <2>3. CASE s.maxUnavailable # Nil
    BY <1>b, <2>1, <2>3, Zenon DEF GetMaxUnavailable, MaxUnavailable, Malformed
  <2> QED
    BY <2>2, <2>3, Zenon
<1>2. d \in Nat
  BY DesiredReplicasType, Zenon
<1>3. ScaledUp(mu, d) \in Int
  <2> HIDE DEF mu, d
  <2> QED
    BY <1>1, <1>2 DEF ScaledUp
<1> HIDE DEF d
<1>4. ResolveMaxUnavailable(s, d) = atLeastOne(ScaledUp(mu, d))
  BY <1>b, Zenon DEF ResolveMaxUnavailable
<1> HIDE DEF mu
<1> QED
  BY <1>3, <1>4 DEF atLeastOne, d

LEMMA BatchNonEmpty ==
  ASSUME NEW S, S \subseteq Nat, S # {}, NEW k \in Nat \ {0}
  PROVE  FirstN(S, k) # {}
<1>1. PICK x \in S : \A y \in S : x <= y
  BY LeastOf, Zenon
<1>2. {q \in S : q < x} = {}
  <2>1. ASSUME NEW q \in S PROVE ~(q < x)
    <3>1. q \in Nat /\ x \in Nat /\ x <= q
      BY <1>1, Zenon
    <3> QED
      BY <3>1
  <2> QED
    BY <2>1, Zenon
<1>3. Cardinality({q \in S : q < x}) = 0
  BY <1>2, FS_EmptySet, Zenon
<1>4. Cardinality({q \in S : q < x}) < k
  BY <1>3
<1>5. x \in FirstN(S, k)
  BY <1>1, <1>4, Zenon DEF FirstN
<1> QED
  BY <1>5, Zenon

(***************************************************************************)
(* A list that gives a pass nothing to do: no pod is outside the window,   *)
(* and once the pods on the hash are all Ready each slot has one.          *)
(***************************************************************************)
Calm(view, spec) ==
  /\ \A n \in Names : Live(view, n) => view[n].replica \in 0 .. DesiredReplicas(spec) - 1
  /\ (\A n \in Names : Live(view, n) /\ view[n].hash = spec.hash => podReady(view[n]))
       => \A r \in 0 .. DesiredReplicas(spec) - 1 : OnHash(view, r, spec.hash) # {}

\* A plan with no writes is made from such a list.
LEMMA EmptyPlanCalm ==
  ASSUME NEW ad \in Object, NEW seen \in PodMap, NEW kept \in KeepOnePerSlot(seen, ad),
         PlanOf(ad, seen, kept).outside = {}, PlanOf(ad, seen, kept).needsCreate = {},
         PlanOf(ad, seen, kept).batch = {}
  PROVE  Calm(seen, ad.spec)
<1> DEFINE d == DesiredReplicas(ad.spec)
           h == ad.spec.hash
           b == ResolveMaxUnavailable(ad.spec, d)
           sat == {seen[n].replica : n \in kept}
           rep == {r \in 0 .. d - 1 : r \notin sat /\ OffHash(seen, r, h) # {}}
           plan == PlanOf(ad, seen, kept)
<1>1. ad.spec \in AgentDeploySpec
  BY ConstantsAssumption, Zenon DEF Object
<1>2. d \in Nat \ {0} /\ b \in Nat \ {0}
  BY <1>1, DesiredReplicasType, BudgetType, Zenon
<1>3. kept \subseteq {n \in Names : Live(seen, n) /\ seen[n].hash = h /\ seen[n].replica < d}
  BY Zenon DEF KeepOnePerSlot
<1>4. /\ plan.outside = {n \in Names : Live(seen, n) /\ seen[n].replica >= d}
      /\ plan.needsCreate = (0 .. d - 1) \ (sat \cup rep)
      /\ plan.batch = IF \A n \in kept : podReady(seen[n]) THEN FirstN(rep, b) ELSE {}
  BY Zenon DEF PlanOf
<1> HIDE DEF d, h, b, sat, rep, plan
<1>5. ASSUME NEW n \in Names, Live(seen, n) PROVE seen[n].replica \in 0 .. d - 1
  <2>1. seen[n].replica \in Nat
    BY <1>5, Zenon DEF PodMap, Live, Optional, Pod
  <2>2. ~(seen[n].replica >= d)
    BY <1>4, <1>5, Zenon DEF plan
  <2> QED
    BY <1>2, <2>1, <2>2
<1>6. ASSUME \A n \in Names : Live(seen, n) /\ seen[n].hash = h => podReady(seen[n]),
             NEW r \in 0 .. d - 1
      PROVE  OnHash(seen, r, h) # {}
  <2>1. \A n \in kept : podReady(seen[n])
    BY <1>3, <1>6, Zenon
  <2>2. FirstN(rep, b) = {}
    BY <1>4, <2>1, Zenon DEF plan
  <2>3. rep = {}
    <3>1. rep \subseteq Nat
      BY <1>2 DEF rep
    <3> QED
      BY <1>2, <2>2, <3>1, BatchNonEmpty, Zenon
  <2>4. r \in sat
    BY <1>4, <1>6, <2>3, Zenon DEF plan
  <2>5. PICK n \in kept : seen[n].replica = r
    BY <2>4, Zenon DEF sat
  <2> QED
    BY <1>3, <2>5, Zenon DEF OnHash
<1> QED
  BY <1>5, <1>6, Zenon DEF Calm, d, h

\* The object's cache loses nothing: the last version under way is the server's.
ObjectCacheInv ==
  IF objStream = <<>> THEN objView = object ELSE objStream[Len(objStream)] = object

\* The plan of a pass is the one its list and its object call for.
PlanMade ==
  pass # Nil =>
    /\ pass.kept \in KeepOnePerSlot(pass.seen, pass.ad)
    /\ pass.plan = PlanOf(pass.ad, pass.seen, pass.kept)

(***************************************************************************)
(* No wakeup is lost.  Without a key in the queue the caches are what the  *)
(* running pass read, and either a pod event is still to come or the pass  *)
(* has written nothing; without a pass as well, either such an event is    *)
(* to come or the caches leave nothing to do.                              *)
(***************************************************************************)
NoLostWakeup ==
  ~queued =>
    IF pass = Nil
    THEN podStream # <<>> \/ Calm(podView, objView.spec)
    ELSE /\ pass.ad.spec = objView.spec /\ pass.seen = podView
         /\ podStream # <<>> \/ Untouched(pass)

RestInv == ObjectCacheInv /\ PlanMade /\ NoLostWakeup

\* A pass that has begun is a pass.
LEMMA StartEnters ==
  ASSUME TypeOK, Start
  PROVE  pass = Nil /\ pass' # Nil
<1>1. PICK K \in KeepOnePerSlot(podView, objView) :
        pass' = [ad |-> objView, seen |-> podView, kept |-> K,
                 plan |-> PlanOf(objView, podView, K), deleted |-> {}, created |-> {}]
  BY Zenon DEF Start
<1>2. K \in SUBSET Names
  BY Zenon DEF KeepOnePerSlot
<1>3. PlanOf(objView, podView, K) \in Plan
  BY <1>2, PlanType, Zenon DEF TypeOK
<1>4. pass' \in Pass
  BY <1>1, <1>2, <1>3, Zenon DEF TypeOK, Pass
<1> QED
  BY <1>4, AbsentAssumption, Zenon DEF Start

LEMMA RestInit == Init => RestInv
BY Zenon DEF Init, RestInv, ObjectCacheInv, PlanMade, NoLostWakeup

\* A write to the object keeps its cache sound and the spec of a patch the same.
LEMMA ObjectWritten ==
  ASSUME TypeOK, ObjectCacheInv, NEW new, WriteObject(new), objView' = objView
  PROVE  ObjectCacheInv'
<1>1. CASE new = object
  BY <1>1, Zenon DEF WriteObject, ObjectCacheInv
<1>2. CASE new # object
  <2>1. objStream' = Append(objStream, new) /\ object' = new
    BY <1>2, Zenon DEF WriteObject
  <2>2. objStream' # <<>> /\ objStream'[Len(objStream')] = new
    BY <2>1 DEF TypeOK
  <2> QED
    BY <2>1, <2>2, Zenon DEF ObjectCacheInv
<1> QED
  BY <1>1, <1>2, Zenon

LEMMA ObjectPatched ==
  ASSUME TypeOK, NEW st, PatchStatus(st)
  PROVE  /\ \E new : WriteObject(new)
         /\ object'.spec = object.spec
<1>1. PICK new \in {st}, restamped \in BOOLEAN :
        WriteObject([object EXCEPT
          !.status = MergePatch(pass.ad.status, new, object.status, restamped)])
  BY Zenon DEF PatchStatus
<1>2. object.spec = [object EXCEPT !.status = MergePatch(pass.ad.status, new, object.status, restamped)].spec
  BY Zenon DEF TypeOK, Object
<1> QED
  BY <1>1, <1>2, Zenon DEF WriteObject

LEMMA ObjectCacheNext == TypeOK /\ ObjectCacheInv /\ [Next]_vars => ObjectCacheInv'
<1> SUFFICES ASSUME TypeOK, ObjectCacheInv, [Next]_vars PROVE ObjectCacheInv'
  BY Zenon
<1>1. CASE UNCHANGED <<object, objView, objStream>>
  BY <1>1, Zenon DEF ObjectCacheInv
<1>2. CASE Persist
  BY <1>2, ObjectPatched, ObjectWritten, Zenon DEF Persist
<1>3. CASE \E st : Abort(st)
  BY <1>1, <1>3, ObjectPatched, ObjectWritten, Zenon DEF Abort
<1>4. CASE Restart
  BY <1>4, Zenon DEF Restart, apiVars, ObjectCacheInv
<1>5. ASSUME NEW s \in Specs, EditSpec(s) PROVE ObjectCacheInv'
  BY <1>5, ObjectWritten, Zenon DEF EditSpec
<1>6. CASE DeliverObject
  <2>1. /\ objStream # <<>> /\ objView' = objStream[1] /\ objStream' = Tail(objStream)
        /\ object' = object /\ objStream[Len(objStream)] = object
    BY <1>6 DEF DeliverObject, ObjectCacheInv, TypeOK
  <2>2. CASE Len(objStream) = 1
    <3>1. objStream' = <<>>
      BY <2>1, <2>2 DEF TypeOK
    <3> QED
      BY <2>1, <2>2, <3>1, Zenon DEF ObjectCacheInv
  <2>3. CASE Len(objStream) # 1
    <3> DEFINE k == Len(objStream)
    <3>1. k \in Nat /\ k > 0 /\ Len(objStream') = k - 1
          /\ \A i \in 1 .. k - 1 : objStream'[i] = objStream[i + 1]
      BY <2>1, HeadTailSeq DEF TypeOK
    <3> HIDE DEF k
    <3>2. k - 1 \in 1 .. k - 1 /\ (k - 1) + 1 = k
      BY <2>3, <3>1 DEF k
    <3>3. objStream'[k - 1] = objStream[k]
      BY <3>1, <3>2, Zenon
    <3>4. objStream' # <<>>
      BY <3>1, <3>2
    <3> QED
      BY <2>1, <3>1, <3>3, <3>4, Zenon DEF ObjectCacheInv, k
  <2> QED
    BY <2>2, <2>3, Zenon
<1>7. CASE Start \/ (\E n \in Names : DeletePod(n)) \/ (\E r : CreatePod(r)) \/ Kubelet \/ DeliverPod
  BY <1>1, <1>7, Zenon
     DEF Start, apiVars, viewVars, DeletePod, CreatePod, Kubelet, BecomeReady, LoseReady,
         Evict, Removed, DeliverPod
<1> QED
  BY <1>1, <1>2, <1>3, <1>4, <1>5, <1>6, <1>7, Zenon
     DEF Next, Controller, Errors, ServicesFail, PodsFail, StatusFails, vars

LEMMA PlanMadeNext == TypeOK /\ PlanMade /\ [Next]_vars => PlanMade'
<1> SUFFICES ASSUME TypeOK, PlanMade, [Next]_vars PROVE PlanMade'
  BY Zenon
<1>1. CASE pass' = pass \/ pass' = Nil
  BY <1>1, Zenon DEF PlanMade
<1>2. CASE Start
  <2>1. PICK K \in KeepOnePerSlot(podView, objView) :
          pass' = [ad |-> objView, seen |-> podView, kept |-> K,
                   plan |-> PlanOf(objView, podView, K), deleted |-> {}, created |-> {}]
    BY <1>2, Zenon DEF Start
  <2> QED
    BY <2>1, Zenon DEF PlanMade
<1>3. CASE (\E n \in Names : DeletePod(n)) \/ (\E r : CreatePod(r))
  <2>1. /\ pass # Nil /\ pass \in Pass
        /\ \E x : pass' = [pass EXCEPT !.deleted = x] \/ pass' = [pass EXCEPT !.created = x]
    BY <1>3, Zenon DEF DeletePod, CreatePod, TypeOK, Optional
  <2>2. pass'.kept = pass.kept /\ pass'.seen = pass.seen /\ pass'.ad = pass.ad /\ pass'.plan = pass.plan
    BY <2>1, Zenon DEF Pass
  <2> QED
    BY <2>1, <2>2, Zenon DEF PlanMade
<1> QED
  BY <1>1, <1>2, <1>3, Zenon
     DEF Next, Controller, Errors, Kubelet, Persist, ServicesFail, PodsFail, StatusFails, Abort,
         Restart, BecomeReady, LoseReady, Evict, Removed, EditSpec, DeliverObject, DeliverPod, vars

\* A write to a pod never empties the stream of its events.
LEMMA StreamGrows ==
  ASSUME TypeOK, NEW n, NEW pod, WritePod(n, pod)
  PROVE  /\ podStream # <<>> => podStream' # <<>>
         /\ pods[n] # pod => podStream' # <<>>
BY DEF WritePod, TypeOK

\* A delete of a pod the pass saw live is an event, or one is under way.
LEMMA DeleteLeavesEvent ==
  ASSUME TypeOK, PassInv, CacheInv, pass # Nil, pass.seen = podView,
         NEW n \in Names, DeletePod(n)
  PROVE  podStream' # <<>>
<1> DEFINE pod == IF pods[n] = Nil THEN Nil ELSE [pods[n] EXCEPT !.terminating = TRUE]
<1>1. WritePod(n, pod)
  BY Zenon DEF DeletePod
<1>2. Live(podView, n)
  BY Zenon DEF DeletePod, DeletesNext, PassInv, PlanSound
<1>3. CASE podStream = <<>>
  <2>1. NoEvent(n)
    BY <1>3 DEF NoEvent
  <2>2. Live(pods, n)
    BY <1>2, <2>1, Zenon DEF CacheInv, Live
  <2>3. pods[n] \in Pod /\ pods[n] # Nil /\ ~pods[n].terminating
    BY <2>2, PodUpdateType, Zenon DEF Live
  <2>4. pod.terminating /\ pod = [pods[n] EXCEPT !.terminating = TRUE]
    BY <2>3, Zenon DEF Pod
  <2>5. pods[n] # pod
    BY <2>3, <2>4, Zenon
  <2> HIDE DEF pod
  <2> QED
    BY <1>1, <2>5, StreamGrows, Zenon
<1>4. CASE podStream # <<>>
  <2> HIDE DEF pod
  <2> QED
    BY <1>1, <1>4, StreamGrows, Zenon
<1> QED
  BY <1>3, <1>4, Zenon

\* A pass with nothing left to do that has written nothing leaves calm caches.
LEMMA DoneUntouchedCalm ==
  ASSUME TypeOK, PlanMade, pass # Nil, PassDone(pass), Untouched(pass)
  PROVE  Calm(pass.seen, pass.ad.spec)
<1>1. pass.ad \in Object /\ pass.seen \in PodMap
  BY Zenon DEF TypeOK, Optional, Pass
<1>2. pass.plan.outside = {} /\ pass.plan.needsCreate = {} /\ pass.plan.batch = {}
  BY Zenon DEF PassDone, Untouched
<1> QED
  BY <1>1, <1>2, EmptyPlanCalm, Zenon DEF PlanMade

LEMMA WakeupNext ==
  TypeOK /\ PassInv /\ CacheInv /\ RestInv /\ [Next]_vars => NoLostWakeup'
<1> SUFFICES ASSUME TypeOK, PassInv, CacheInv, PlanMade, NoLostWakeup, [Next]_vars, ~queued'
             PROVE  IF pass' = Nil
                    THEN podStream' # <<>> \/ Calm(podView, objView.spec)'
                    ELSE /\ pass'.ad.spec = objView'.spec /\ pass'.seen = podView'
                         /\ podStream' # <<>> \/ Untouched(pass')
  BY Zenon DEF NoLostWakeup, RestInv
<1>1. CASE Start
  <2>1. PICK K \in KeepOnePerSlot(podView, objView) :
          pass' = [ad |-> objView, seen |-> podView, kept |-> K,
                   plan |-> PlanOf(objView, podView, K), deleted |-> {}, created |-> {}]
    BY <1>1, Zenon DEF Start
  <2>2. objView' = objView /\ podView' = podView
    BY <1>1, Zenon DEF Start, viewVars
  <2>3. pass' # Nil => Untouched(pass') /\ pass'.ad.spec = objView.spec /\ pass'.seen = podView
    BY <2>1, Zenon DEF Untouched
  <2>4. pass' # Nil
    BY <1>1, StartEnters, Zenon
  <2> QED
    BY <2>2, <2>3, <2>4, Zenon
<1>2. ASSUME NEW n \in Names, DeletePod(n)
      PROVE  /\ podStream' # <<>>
             /\ pass'.ad.spec = objView'.spec /\ pass'.seen = podView'
  <2>1. /\ pass # Nil /\ pass \in Pass /\ ~queued /\ objView' = objView /\ podView' = podView
        /\ pass' = [pass EXCEPT !.deleted = @ \cup {n}]
    BY <1>2, Zenon DEF DeletePod, TypeOK, Optional
  <2>2. pass.ad.spec = objView.spec /\ pass.seen = podView
    BY <2>1, Zenon DEF NoLostWakeup
  <2>3. pass'.ad = pass.ad /\ pass'.seen = pass.seen
    BY <2>1, Zenon DEF Pass
  <2>4. podStream' # <<>>
    BY <1>2, <2>1, <2>2, DeleteLeavesEvent, Zenon
  <2> QED
    BY <2>1, <2>2, <2>3, <2>4, Zenon
<1>3. ASSUME NEW r, CreatePod(r)
      PROVE  /\ podStream' # <<>>
             /\ pass'.ad.spec = objView'.spec /\ pass'.seen = podView'
  <2>1. /\ pass # Nil /\ pass \in Pass /\ ~queued /\ objView' = objView /\ podView' = podView
        /\ pass' = [pass EXCEPT !.created = @ \cup {r}]
    BY <1>3, Zenon DEF CreatePod, TypeOK, Optional
  <2>2. pass.ad.spec = objView.spec /\ pass.seen = podView
    BY <2>1, Zenon DEF NoLostWakeup
  <2>3. pass'.ad = pass.ad /\ pass'.seen = pass.seen
    BY <2>1, Zenon DEF Pass
  <2>4. PICK n \in Names : pods[n] = Nil /\ WritePod(n, newPod(r, pass.ad.spec.hash))
    BY <1>3, Zenon DEF CreatePod, Unused
  <2>5. newPod(r, pass.ad.spec.hash) # Nil
    <3>1. r \in Nat /\ pass.ad.spec.hash \in Hashes
      BY <1>3, <2>1, ConstantsAssumption, Zenon
         DEF CreatePod, CreatesNext, Pass, Plan, Object, AgentDeploySpec
    <3>2. newPod(r, pass.ad.spec.hash) \in Pod
      BY <3>1, Zenon DEF newPod, Pod
    <3> QED
      BY <3>2, AbsentAssumption, Zenon
  <2>6. podStream' # <<>>
    BY <2>4, <2>5, StreamGrows, Zenon
  <2> QED
    BY <2>2, <2>3, <2>1, <2>6, Zenon
<1>4. CASE Persist
  <2>1. /\ pass # Nil /\ PassDone(pass) /\ pass' = Nil /\ ~queued
        /\ podStream' = podStream /\ podView' = podView /\ objView' = objView
    BY <1>4, Zenon DEF Persist
  <2>2. /\ pass.ad.spec = objView.spec /\ pass.seen = podView
        /\ podStream # <<>> \/ Untouched(pass)
    BY <2>1, Zenon DEF NoLostWakeup
  <2>3. podStream # <<>> \/ Calm(podView, objView.spec)
    BY <2>1, <2>2, DoneUntouchedCalm, Zenon
  <2> QED
    BY <2>1, <2>3, Zenon
<1>5. ASSUME NEW n \in Names, BecomeReady(n) \/ LoseReady(n) \/ Evict(n) \/ Removed(n)
      PROVE  /\ podStream # <<>> => podStream' # <<>>
             /\ queued' = queued /\ pass' = pass /\ objView' = objView /\ podView' = podView
  BY <1>5, StreamGrows, Zenon DEF BecomeReady, LoseReady, Evict, Removed
<1>6. CASE DeliverObject
  <2>1. /\ ~queued /\ objView'.spec = objView.spec
        /\ podStream' = podStream /\ podView' = podView /\ pass' = pass
    BY <1>6, Zenon DEF DeliverObject
  <2>2. Calm(podView', objView'.spec) = Calm(podView, objView.spec)
    BY <2>1, Zenon
  <2> QED
    BY <2>1, <2>2, Zenon DEF NoLostWakeup
<1>7. CASE /\ podStream # <<>> => podStream' # <<>>
           /\ queued' = queued /\ pass' = pass /\ objView' = objView /\ podView' = podView
  BY <1>7, Zenon DEF NoLostWakeup, Calm, Live, OnHash
<1>8. CASE (\E st : Abort(st)) \/ Restart \/ DeliverPod
  BY <1>8, Zenon DEF Abort, Restart, DeliverPod
<1>9. ASSUME NEW s \in Specs, EditSpec(s)
      PROVE  /\ podStream # <<>> => podStream' # <<>>
             /\ queued' = queued /\ pass' = pass /\ objView' = objView /\ podView' = podView
  BY <1>9, Zenon DEF EditSpec
<1>10. CASE UNCHANGED vars
  BY <1>7, <1>10, Zenon DEF vars
<1> QED
  BY <1>1, <1>2, <1>3, <1>4, <1>5, <1>6, <1>7, <1>8, <1>9, <1>10, Zenon
     DEF Next, Controller, Errors, Kubelet, ServicesFail, PodsFail, StatusFails

\* At rest the caches are the server's and leave nothing to do.
LEMMA RestServed ==
  ASSUME TypeOK, CacheInv, RestInv
  PROVE  QuiescentServed
<1> SUFFICES ASSUME Quiescent, object.spec.hash \notin Broken PROVE Served
  BY Zenon DEF QuiescentServed
<1> DEFINE d == DesiredReplicas(object.spec)
           h == object.spec.hash
<1>1. podStream = <<>> /\ objStream = <<>> /\ ~queued /\ pass = Nil
  BY Zenon DEF Quiescent, InSync
<1>2. \A n \in Names : podView[n] = pods[n]
  BY <1>1 DEF CacheInv, NoEvent
<1>3. Calm(podView, object.spec)
  BY <1>1, Zenon DEF RestInv, ObjectCacheInv, NoLostWakeup
<1>4. \A n \in Names : Live(pods, n) => pods[n].replica \in 0 .. d - 1
  BY <1>2, <1>3, Zenon DEF Calm, Live
<1>5. \A n \in Names : Live(podView, n) /\ podView[n].hash = h => podReady(podView[n])
  BY <1>2, Zenon DEF Quiescent, Live
<1>6. \A r \in 0 .. d - 1 : OnHash(podView, r, h) # {}
  BY <1>3, <1>5, Zenon DEF Calm
<1>7. \A r \in 0 .. d - 1 : \E n \in LiveIn(r) : pods[n].hash = h
  <2> SUFFICES ASSUME NEW r \in 0 .. d - 1 PROVE \E n \in LiveIn(r) : pods[n].hash = h
    BY Zenon
  <2>1. PICK n \in Names : Live(podView, n) /\ podView[n].replica = r /\ podView[n].hash = h
    BY <1>6, Zenon DEF OnHash
  <2>2. Live(pods, n) /\ pods[n].replica = r /\ pods[n].hash = h
    BY <1>2, <2>1, Zenon DEF Live
  <2> QED
    BY <2>2, Zenon DEF LiveIn
<1> QED
  BY <1>4, <1>7, Zenon DEF Served, WindowNow

LEMMA RestNext ==
  TypeOK /\ PassInv /\ CacheInv /\ RestInv /\ [Next]_vars => RestInv'
BY ObjectCacheNext, PlanMadeNext, WakeupNext, Zenon DEF RestInv

\* No wakeup of the controller is lost: whenever it is at rest, and the desired
\* hash is one whose pods can become Ready, each slot of the window has a pod on
\* that hash and no pod is outside the window, whatever caches the passes read.
THEOREM RestIsServed == Spec => []QuiescentServed
<1>1. TypeOK /\ CacheInv /\ RestInv => QuiescentServed
  BY RestServed, Zenon
<1> QED
  BY <1>1, TypeInit, TypeNext, PassInit, PassNext, CacheInit, CacheNext, RestInit, RestNext,
     PTL DEF Spec

\* The same in the model that is checked, where it is the "stale" setting.
THEOREM StaleIsServed == MCSpec => []ServedOnStale
<1> DEFINE Inv == setting = "stale" => TypeOK /\ PassInv /\ CacheInv /\ RestInv
<1>1. MCInit => Inv
  BY TypeInit, PassInit, CacheInit, RestInit, Zenon DEF MCInit
<1>2. Inv /\ [MCNext]_<<vars, setting>> => Inv'
  <2> SUFFICES ASSUME Inv, [MCNext]_<<vars, setting>>, setting' = "stale"
               PROVE  (TypeOK /\ PassInv /\ CacheInv /\ RestInv)'
    BY Zenon
  <2>1. setting = "stale" /\ [Next]_vars
    BY Zenon DEF MCNext
  <2> QED
    BY <2>1, TypeNext, PassNext, CacheNext, RestNext, Zenon
<1>3. Inv => ServedOnStale
  BY RestServed, Zenon DEF ServedOnStale
<1> QED
  BY <1>1, <1>2, <1>3, PTL DEF MCSpec

-----------------------------------------------------------------------------
(* A rollout stays within its budget: on caches that have caught up *)

Budget(s) == ResolveMaxUnavailable(s, DesiredReplicas(s))

\* The slots the running pass replaces, or {}.
Batch == IF pass = Nil THEN {} ELSE pass.plan.batch

\* The unavailable slots that have no pod on the hash of the spec, not even one
\* that is still starting.
Lost == {r \in Unavailable : \A n \in LiveIn(r) : pods[n].hash # object.spec.hash}

\* The running pass is about an earlier hash.
Outdated == pass # Nil /\ pass.ad.spec.hash # object.spec.hash

\* Those that no pass of the current hash is about to fill, and those that a pass
\* of an earlier hash may still empty or fill with a pod to be replaced.
Charged ==
  IF pass = Nil THEN Lost
  ELSE IF Outdated THEN Lost \cup Batch
  ELSE Lost \ (Batch \ pass.created)

\* A batch may still come: some pod is to be replaced, or will be.
Rolling == Outdated \/ \E n \in Names : Live(pods, n) /\ pods[n].hash # object.spec.hash

(***************************************************************************)
(* The slots that are down or about to be are paid for by the disturbances *)
(* so far; and while a batch may still come it is paid for as well, on top *)
(* of the slots that it would not wait for.                                *)
(***************************************************************************)
Paid == Cardinality(Unavailable \cup Batch) <= faults * Budget(object.spec)

PaidAhead ==
  Rolling => Cardinality(Charged) + Budget(object.spec) <= faults * Budget(object.spec)

\* A rollout's passes are about specs of the rollout, find no duplicates, and
\* fill a slot of the batch once its old pods are deleted.
RollPass ==
  pass # Nil =>
    /\ pass.ad.spec \in RollSpecs
    /\ pass.plan.duplicates = {}
    /\ \A r \in pass.plan.batch \cap pass.created :
         OffHash(pass.seen, r, pass.ad.spec.hash) \subseteq pass.deleted

\* A nonempty set of slots of a window has a greatest member.
LEMMA GreatestOf ==
  ASSUME NEW d \in Nat, NEW S, S \subseteq 0 .. d - 1, S # {}
  PROVE  \E x \in S : \A y \in S : y <= x
<1> DEFINE U == {j \in Nat : \A y \in S : y <= j}
<1>1. U \subseteq Nat /\ d \in U
  OBVIOUS
<1>2. PICK j \in U : \A i \in U : j <= i
  BY <1>1, LeastOf, Zenon
<1>3. j \in S
  <2> SUFFICES ASSUME j \notin S PROVE FALSE
    BY Zenon
  <2>1. j \in Nat /\ \A y \in S : y \in Nat /\ y < j
    <3>1. j \in Nat /\ \A y \in S : y \in 0 .. d - 1 /\ y <= j /\ y # j
      BY <1>2, Zenon
    <3> QED
      BY <3>1
  <2>2. j - 1 \in Nat
    <3>1. PICK y \in S : TRUE
      BY Zenon
    <3> QED
      BY <2>1, <3>1
  <2>3. \A y \in S : y <= j - 1
    BY <2>1
  <2>4. j - 1 \in U
    BY <2>2, <2>3, Zenon
  <2>5. j <= j - 1
    BY <1>2, <2>4, Zenon
  <2> QED
    BY <2>1, <2>5
<1> QED
  BY <1>2, <1>3, Zenon

\* Sets of slots of a window are finite and count in order.
LEMMA SlotsCount ==
  ASSUME NEW d \in Nat, NEW S \in SUBSET (0 .. d - 1), NEW T \in SUBSET S
  PROVE  /\ IsFiniteSet(S) /\ IsFiniteSet(T)
         /\ Cardinality(S) \in Nat /\ Cardinality(T) \in Nat
         /\ Cardinality(T) <= Cardinality(S)
<1>1. IsFiniteSet(0 .. d - 1)
  BY FS_Interval
<1>2. IsFiniteSet(S)
  BY <1>1, FS_Subset, Zenon
<1> QED
  BY <1>2, FS_Subset, FS_CardinalityType, Zenon

\* Two sets of slots together count at most as much as apart.
LEMMA SlotsUnion ==
  ASSUME NEW d \in Nat, NEW S \in SUBSET (0 .. d - 1), NEW T \in SUBSET (0 .. d - 1)
  PROVE  Cardinality(S \cup T) <= Cardinality(S) + Cardinality(T)
<1>1. IsFiniteSet(S) /\ IsFiniteSet(T)
  BY SlotsCount, Zenon
<1>2. /\ Cardinality(S) \in Nat /\ Cardinality(T) \in Nat
      /\ Cardinality(S \cap T) \in Nat
      /\ Cardinality(S \cup T) = Cardinality(S) + Cardinality(T) - Cardinality(S \cap T)
  BY <1>1, FS_Union, FS_Intersection, FS_CardinalityType, Zenon
<1> QED
  BY <1>2

LEMMA OneMoreSlot ==
  ASSUME NEW d \in Nat, NEW S \in SUBSET (0 .. d - 1), NEW r \in 0 .. d - 1
  PROVE  Cardinality(S \cup {r}) <= Cardinality(S) + 1
<1>1. Cardinality({r}) = 1
  BY FS_Singleton, Zenon
<1> QED
  BY <1>1, SlotsUnion, Zenon

\* A batch is no larger than the budget (reconcilePods: needsReplace[:maxUnavailable]).
LEMMA BatchBounded ==
  ASSUME NEW d \in Nat, NEW S \in SUBSET (0 .. d - 1), NEW k \in Nat
  PROVE  Cardinality(FirstN(S, k)) <= k
<1> DEFINE F == FirstN(S, k)
<1>1. F \subseteq S /\ F \subseteq 0 .. d - 1
  BY Zenon DEF FirstN
<1>2. CASE F = {}
  BY <1>2, FS_EmptySet
<1>3. CASE F # {}
  <2>1. PICK m \in F : \A y \in F : y <= m
    BY <1>1, <1>3, GreatestOf, Zenon
  <2> DEFINE L == {q \in S : q < m}
  <2>2. Cardinality(L) < k /\ m \in 0 .. d - 1
    BY <1>1, <2>1, Zenon DEF FirstN
  <2>3. F \subseteq L \cup {m}
    <3> SUFFICES ASSUME NEW y \in F, y # m PROVE y < m
      BY <1>1, Zenon
    <3>1. y <= m /\ y \in 0 .. d - 1
      BY <1>1, <2>1, Zenon
    <3> QED
      BY <2>2, <3>1
  <2> HIDE DEF F, L
  <2>4. L \in SUBSET (0 .. d - 1) /\ L \cup {m} \in SUBSET (0 .. d - 1)
    BY <2>2, Zenon DEF L
  <2>5. Cardinality(L \cup {m}) <= Cardinality(L) + 1
    BY <2>2, <2>4, OneMoreSlot, Zenon
  <2>6. /\ Cardinality(F) <= Cardinality(L \cup {m}) /\ Cardinality(F) \in Nat
        /\ Cardinality(L \cup {m}) \in Nat
    BY <2>3, <2>4, SlotsCount, Zenon
  <2>7. Cardinality(L) \in Nat
    BY <2>4, SlotsCount, Zenon
  <2> QED
    BY <2>2, <2>5, <2>6, <2>7 DEF F
<1> QED
  BY <1>2, <1>3, Zenon

\* The specs of a rollout share their window and their budget.
LEMMA RollShape ==
  ASSUME NEW s \in RollSpecs, NEW t \in RollSpecs
  PROVE  /\ s \in AgentDeploySpec
         /\ DesiredReplicas(s) \in Nat \ {0} /\ Budget(s) \in Nat \ {0}
         /\ DesiredReplicas(t) = DesiredReplicas(s) /\ Budget(t) = Budget(s)
<1>1. s \in AgentDeploySpec
  BY RollAssumption, ConstantsAssumption, Zenon
<1> QED
  BY <1>1, DesiredReplicasType, BudgetType, RollAssumption, Zenon DEF Budget

\* What a plan replaces is a set of slots of the window within the budget.
LEMMA BatchShape ==
  ASSUME NEW ad \in Object, NEW seen \in PodMap, NEW kept
  PROVE  /\ PlanOf(ad, seen, kept).batch \subseteq 0 .. DesiredReplicas(ad.spec) - 1
         /\ Cardinality(PlanOf(ad, seen, kept).batch) <= Budget(ad.spec)
<1> DEFINE d == DesiredReplicas(ad.spec)
           b == ResolveMaxUnavailable(ad.spec, d)
           sat == {seen[n].replica : n \in kept}
           rep == {r \in 0 .. d - 1 : r \notin sat /\ OffHash(seen, r, ad.spec.hash) # {}}
           bat == PlanOf(ad, seen, kept).batch
<1>1. d \in Nat /\ b \in Nat
  BY DesiredReplicasType, BudgetType, ConstantsAssumption, Zenon DEF Object
<1>2. bat = FirstN(rep, b) \/ bat = {}
  BY Zenon DEF PlanOf
<1>3. rep \in SUBSET (0 .. d - 1)
  BY Zenon
<1> HIDE DEF d, b, rep, bat
<1>4. CASE bat = FirstN(rep, b)
  <2>1. Cardinality(bat) <= b
    BY <1>1, <1>3, <1>4, BatchBounded, Zenon
  <2>2. bat \subseteq rep
    BY <1>4, Zenon DEF FirstN
  <2> QED
    BY <1>3, <2>1, <2>2, Zenon DEF Budget, b, d, bat
<1>5. CASE bat = {}
  <2>1. Cardinality(bat) = 0
    BY <1>5, FS_EmptySet, Zenon
  <2>2. Cardinality(bat) <= b
    BY <1>1, <2>1
  <2> QED
    BY <1>5, <2>2, Zenon DEF Budget, b, d, bat
<1> QED
  BY <1>2, <1>4, <1>5, Zenon

RollBase == TypeOK /\ PlanMade /\ object.spec \in RollSpecs /\ RollPass

\* The sets the invariant counts are sets of slots of the window.
LEMMA RollSets ==
  ASSUME RollBase, NEW d, d = DesiredReplicas(object.spec)
  PROVE  /\ d \in Nat \ {0} /\ Budget(object.spec) \in Nat \ {0} /\ faults \in Nat
         /\ Unavailable \subseteq 0 .. d - 1 /\ Batch \subseteq 0 .. d - 1
         /\ Lost \subseteq Unavailable
         /\ Charged \subseteq Unavailable \cup Batch
         /\ Cardinality(Batch) <= Budget(object.spec)
<1>1. d \in Nat \ {0} /\ Budget(object.spec) \in Nat \ {0} /\ faults \in Nat
  BY RollShape, Zenon DEF RollBase, TypeOK
<1>2. Unavailable \subseteq 0 .. d - 1 /\ Lost \subseteq Unavailable
  BY Zenon DEF Unavailable, Lost, WindowNow
<1>3. Batch \subseteq 0 .. d - 1 /\ Cardinality(Batch) <= Budget(object.spec)
  <2>1. CASE pass = Nil
    <3>1. Batch = {} /\ Cardinality(Batch) = 0
      BY <2>1, FS_EmptySet, Zenon DEF Batch
    <3> QED
      BY <1>1, <3>1
  <2>2. CASE pass # Nil
    <3>1. pass.ad \in Object /\ pass.seen \in PodMap
      BY <2>2, Zenon DEF RollBase, TypeOK, Optional, Pass
    <3>2. pass.ad.spec \in RollSpecs /\ object.spec \in RollSpecs
      BY <2>2, Zenon DEF RollBase, RollPass
    <3>3. DesiredReplicas(pass.ad.spec) = d /\ Budget(pass.ad.spec) = Budget(object.spec)
      BY <3>2, RollShape, Zenon
    <3>4. Batch = PlanOf(pass.ad, pass.seen, pass.kept).batch
      BY <2>2, Zenon DEF RollBase, PlanMade, Batch
    <3> QED
      BY <3>1, <3>3, <3>4, BatchShape, Zenon
  <2> QED
    BY <2>1, <2>2, Zenon
<1>4. Charged \subseteq Unavailable \cup Batch
  BY <1>2, Zenon DEF Charged
<1> QED
  BY <1>1, <1>2, <1>3, <1>4, Zenon

\* A step that takes down no further slot.
LEMMA PaidQuiet ==
  ASSUME RollBase, object'.spec \in RollSpecs, Paid, PaidAhead, faults' = faults,
         (Unavailable \cup Batch)' \subseteq Unavailable \cup Batch,
         Rolling' => Rolling /\ Charged' \subseteq Charged
  PROVE  Paid' /\ PaidAhead'
<1> DEFINE d == DesiredReplicas(object.spec)
           b == Budget(object.spec)
           X == Unavailable \cup Batch
           Y == (Unavailable \cup Batch)'
           q == faults * b
<1>1. /\ d \in Nat /\ b \in Nat /\ faults \in Nat
      /\ X \in SUBSET (0 .. d - 1) /\ Charged \in SUBSET (0 .. d - 1)
      /\ Budget(object'.spec) = b
  BY RollSets, RollShape, Zenon DEF RollBase
<1>2. q \in Nat
  BY <1>1
<1>3. Cardinality(Y) <= Cardinality(X) /\ Cardinality(Y) \in Nat /\ Cardinality(X) \in Nat
  BY <1>1, SlotsCount, Zenon
<1>4. Cardinality(X) <= q
  BY Zenon DEF Paid
<1>5. Paid'
  <2>1. Cardinality(Y) <= q
    <3> HIDE DEF X, Y, q
    <3> QED
      BY <1>2, <1>3, <1>4
  <2> QED
    BY <1>1, <2>1, Zenon DEF Paid, Budget
<1>6. ASSUME Rolling' PROVE Cardinality(Charged') + b <= q
  <2>1. Cardinality(Charged) + b <= q
    BY <1>6, Zenon DEF PaidAhead
  <2>2. /\ Cardinality(Charged') <= Cardinality(Charged)
        /\ Cardinality(Charged') \in Nat /\ Cardinality(Charged) \in Nat
    BY <1>1, <1>6, SlotsCount, Zenon
  <2> HIDE DEF b, q
  <2> QED
    BY <1>1, <1>2, <2>1, <2>2
<1> QED
  BY <1>1, <1>5, <1>6, Zenon DEF PaidAhead, Budget

\* A disturbance that may leave the running batch undone, or call for another.
LEMMA PaidReplanned ==
  ASSUME RollBase, object'.spec \in RollSpecs, Paid, faults' = faults + 1,
         (Unavailable \cup Batch)' \subseteq Unavailable \cup Batch,
         Charged' \subseteq Unavailable \cup Batch
  PROVE  Paid' /\ PaidAhead'
<1> DEFINE d == DesiredReplicas(object.spec)
           b == Budget(object.spec)
           X == Unavailable \cup Batch
           Y == (Unavailable \cup Batch)'
           q == faults * b
<1>1. /\ d \in Nat /\ b \in Nat /\ faults \in Nat
      /\ X \in SUBSET (0 .. d - 1)
      /\ Budget(object'.spec) = b
  BY RollSets, RollShape, Zenon DEF RollBase
<1>2. q \in Nat /\ faults' * b = q + b
  <2> HIDE DEF b
  <2> QED
    BY <1>1
<1>3. /\ Cardinality(Y) <= Cardinality(X) /\ Cardinality(Y) \in Nat /\ Cardinality(X) \in Nat
      /\ Cardinality(Charged') <= Cardinality(X) /\ Cardinality(Charged') \in Nat
  BY <1>1, SlotsCount, Zenon
<1>4. Cardinality(X) <= q
  BY Zenon DEF Paid
<1>5. Cardinality(Y) <= q + b /\ Cardinality(Charged') + b <= q + b
  <2> HIDE DEF X, Y, q, b
  <2> QED
    BY <1>1, <1>2, <1>3, <1>4
<1> QED
  BY <1>1, <1>2, <1>5, Zenon DEF Paid, PaidAhead, Budget

\* A disturbance that takes down one slot.
LEMMA PaidOneSlot ==
  ASSUME RollBase, object'.spec \in RollSpecs, Paid, PaidAhead, faults' = faults + 1,
         NEW r \in 0 .. DesiredReplicas(object.spec) - 1,
         (Unavailable \cup Batch)' \subseteq (Unavailable \cup Batch) \cup {r},
         Rolling' => Rolling /\ Charged' \subseteq Charged \cup {r}
  PROVE  Paid' /\ PaidAhead'
<1> DEFINE d == DesiredReplicas(object.spec)
           b == Budget(object.spec)
           X == Unavailable \cup Batch
           Y == (Unavailable \cup Batch)'
           q == faults * b
<1>1. /\ d \in Nat /\ b \in Nat \ {0} /\ faults \in Nat
      /\ X \in SUBSET (0 .. d - 1) /\ Charged \in SUBSET (0 .. d - 1)
      /\ X \cup {r} \in SUBSET (0 .. d - 1) /\ Charged \cup {r} \in SUBSET (0 .. d - 1)
      /\ Budget(object'.spec) = b
  BY RollSets, RollShape, Zenon DEF RollBase
<1>2. q \in Nat /\ faults' * b = q + b
  <2> HIDE DEF b
  <2> QED
    BY <1>1
<1>3. /\ Cardinality(Y) <= Cardinality(X \cup {r}) /\ Cardinality(Y) \in Nat
      /\ Cardinality(X \cup {r}) \in Nat /\ Cardinality(X) \in Nat
      /\ Cardinality(X \cup {r}) <= Cardinality(X) + 1
  BY <1>1, SlotsCount, OneMoreSlot, Zenon
<1>4. Cardinality(X) <= q
  BY Zenon DEF Paid
<1>5. Cardinality(Y) <= q + b
  <2> HIDE DEF X, Y, q, b
  <2> QED
    BY <1>1, <1>2, <1>3, <1>4
<1>6. ASSUME Rolling' PROVE Cardinality(Charged') + b <= q + b
  <2>1. Cardinality(Charged) + b <= q
    BY <1>6, Zenon DEF PaidAhead
  <2>2. /\ Cardinality(Charged') <= Cardinality(Charged \cup {r})
        /\ Cardinality(Charged') \in Nat /\ Cardinality(Charged) \in Nat
        /\ Cardinality(Charged \cup {r}) \in Nat
        /\ Cardinality(Charged \cup {r}) <= Cardinality(Charged) + 1
    BY <1>1, <1>6, SlotsCount, OneMoreSlot, Zenon
  <2> HIDE DEF b, q
  <2> QED
    BY <1>1, <1>2, <2>1, <2>2
<1> QED
  BY <1>1, <1>2, <1>5, <1>6, Zenon DEF Paid, PaidAhead, Budget

\* A step of a rollout never moves the window.
LEMMA SameWindow ==
  ASSUME object.spec \in RollSpecs, object'.spec \in RollSpecs
  PROVE  WindowNow' = WindowNow
<1>1. DesiredReplicas(object'.spec) = DesiredReplicas(object.spec)
  BY RollShape, Zenon
<1> QED
  BY <1>1, Zenon DEF WindowNow

\* A step that spares the live pods outside the slots Q takes down and strips of
\* the current hash no slot outside Q.
LEMMA PodsSpared ==
  ASSUME object.spec \in RollSpecs, object'.spec \in RollSpecs,
         object'.spec.hash = object.spec.hash, NEW Q,
         \A m \in Names : Live(pods, m) /\ pods[m].replica \notin Q =>
           /\ Live(pods', m) /\ pods'[m].replica = pods[m].replica
           /\ pods'[m].hash = pods[m].hash
           /\ podReady(pods[m]) => podReady(pods'[m])
  PROVE  Unavailable' \subseteq Unavailable \cup Q /\ Lost' \subseteq Lost \cup Q
<1>1. WindowNow' = WindowNow
  BY SameWindow, Zenon
<1>2. ASSUME NEW r \in WindowNow \ Q, NEW m \in LiveIn(r)
      PROVE  /\ m \in LiveIn(r)' /\ pods'[m].hash = pods[m].hash
             /\ podReady(pods[m]) => podReady(pods'[m])
  BY <1>2, Zenon DEF LiveIn, Live
<1>3. Unavailable' \subseteq Unavailable \cup Q
  BY <1>1, <1>2, Zenon DEF Unavailable
<1>4. ASSUME NEW r \in Lost', r \notin Q PROVE r \in Lost
  <2>1. /\ r \in Unavailable /\ r \in WindowNow
        /\ \A m \in LiveIn(r)' : pods'[m].hash # object.spec.hash
    BY <1>3, <1>4, Zenon DEF Lost, Unavailable
  <2> QED
    BY <1>2, <1>4, <2>1, Zenon DEF Lost
<1> QED
  BY <1>3, <1>4, Zenon

\* A rollout step that leaves the pods and the desired hash alone moves neither set.
LEMMA PodsAlone ==
  ASSUME object.spec \in RollSpecs, object'.spec \in RollSpecs, pods' = pods
  PROVE  /\ Unavailable' = Unavailable
         /\ object'.spec.hash = object.spec.hash => Lost' = Lost
<1>1. WindowNow' = WindowNow
  BY SameWindow, Zenon
<1>2. \A r : LiveIn(r)' = LiveIn(r)
  BY Zenon DEF LiveIn, Live
<1>3. Unavailable' = Unavailable
  BY <1>1, <1>2, Zenon DEF Unavailable
<1> QED
  BY <1>2, <1>3, Zenon DEF Lost

\* A list with one live pod per slot has no duplicates to prune.
LEMMA NoDuplicates ==
  ASSUME NEW ad \in Object, NEW seen \in PodMap, NEW K \in KeepOnePerSlot(seen, ad),
         \A m, n \in Names :
           Live(seen, m) /\ Live(seen, n) /\ seen[m].replica = seen[n].replica => m = n
  PROVE  PlanOf(ad, seen, K).duplicates = {}
<1> DEFINE d == DesiredReplicas(ad.spec)
           h == ad.spec.hash
<1>1. PlanOf(ad, seen, K).duplicates =
        {n \in Names : Live(seen, n) /\ seen[n].replica < d /\ seen[n].hash = h /\ n \notin K}
  BY Zenon DEF PlanOf
<1>2. ASSUME NEW n \in Names, Live(seen, n), seen[n].replica < d, seen[n].hash = h
      PROVE  n \in K
  <2> DEFINE r == seen[n].replica
  <2>1. r \in Nat /\ d \in Nat
    BY <1>2, DesiredReplicasType, ConstantsAssumption, Zenon
       DEF PodMap, Live, Optional, Pod, Object
  <2>2. r \in 0 .. d - 1
    <3> HIDE DEF d
    <3> QED
      BY <1>2, <2>1
  <2>3. n \in OnHash(seen, r, h)
    BY <1>2, Zenon DEF OnHash
  <2>4. PICK k \in K : {m \in K : seen[m].replica = r} = {k}
    BY <2>2, <2>3, Zenon DEF KeepOnePerSlot
  <2>5. k \in Names /\ Live(seen, k) /\ seen[k].replica = r
    BY <2>4, Zenon DEF KeepOnePerSlot
  <2> QED
    BY <1>2, <2>5, Zenon
<1> HIDE DEF d, h
<1> QED
  BY <1>1, <1>2, Zenon

\* When a batch is begun the pods on the hash are all Ready (the wait gate), so
\* the slots that are down are the ones without such a pod.
LEMMA GateOpen ==
  ASSUME TypeOK, SlotExclusive, NEW K \in KeepOnePerSlot(podView, object),
         \A n \in Names : podView[n] = pods[n],
         PlanOf(object, podView, K).batch # {}
  PROVE  /\ Unavailable \subseteq Lost
         /\ \E n \in Names : Live(pods, n) /\ pods[n].hash # object.spec.hash
<1> DEFINE d == DesiredReplicas(object.spec)
           h == object.spec.hash
           b == ResolveMaxUnavailable(object.spec, d)
           sat == {podView[n].replica : n \in K}
           rep == {r \in 0 .. d - 1 : r \notin sat /\ OffHash(podView, r, h) # {}}
           plan == PlanOf(object, podView, K)
<1>1. plan.batch = IF \A n \in K : podReady(podView[n]) THEN FirstN(rep, b) ELSE {}
  BY Zenon DEF PlanOf
<1>2. (\A n \in K : podReady(podView[n])) /\ FirstN(rep, b) # {}
  BY <1>1, Zenon
<1>3. PICK r \in 0 .. d - 1 : OffHash(podView, r, h) # {}
  BY <1>2, Zenon DEF FirstN
<1>4. \E n \in Names : Live(pods, n) /\ pods[n].hash # h
  BY <1>3, Zenon DEF OffHash, Live
<1>5. plan.duplicates = {}
  BY NoDuplicates, Zenon DEF TypeOK, SlotExclusive, Live
<1>6. plan.duplicates =
        {n \in Names : Live(podView, n) /\ podView[n].replica < d /\ podView[n].hash = h /\ n \notin K}
  BY Zenon DEF PlanOf
<1>7. ASSUME NEW q \in Unavailable, NEW n \in LiveIn(q), pods[n].hash = h PROVE FALSE
  <2>1. q \in 0 .. d - 1 /\ n \in Names /\ Live(pods, n) /\ pods[n].replica = q /\ ~podReady(pods[n])
    BY <1>7, Zenon DEF Unavailable, WindowNow, LiveIn
  <2>2. d \in Nat
    BY DesiredReplicasType, ConstantsAssumption, Zenon DEF TypeOK, Object
  <2>3. q < d
    <3> HIDE DEF d
    <3> QED
      BY <2>1, <2>2
  <2>4. n \in K
    <3> HIDE DEF d, plan
    <3> QED
      BY <1>5, <1>6, <1>7, <2>1, <2>3, Zenon DEF Live
  <2> QED
    BY <1>2, <2>1, <2>4, Zenon
<1> QED
  BY <1>4, <1>7, Zenon DEF Lost

Rollout ==
  /\ RollBase /\ PassInv /\ CacheInv /\ SlotInv /\ ObjectCacheInv
  /\ Paid /\ PaidAhead

\* A pass of a rollout begins on the server's own state.
LEMMA StartsCurrent ==
  ASSUME Rollout, Start, InSync
  PROVE  /\ object' = object /\ pods' = pods /\ faults' = faults
         /\ \A n \in Names : podView[n] = pods[n]
         /\ \E K \in KeepOnePerSlot(podView, object) :
              pass' = [ad |-> object, seen |-> podView, kept |-> K,
                       plan |-> PlanOf(object, podView, K), deleted |-> {}, created |-> {}]
         /\ pass = Nil /\ pass' # Nil
<1>1. object' = object /\ pods' = pods /\ faults' = faults /\ pass = Nil
  BY Zenon DEF Start, apiVars
<1>2. \A n \in Names : podView[n] = pods[n]
  BY DEF InSync, Rollout, CacheInv, NoEvent
<1>3. objView = object
  BY Zenon DEF InSync, Rollout, ObjectCacheInv
<1>4. PICK K \in KeepOnePerSlot(podView, object) :
        pass' = [ad |-> object, seen |-> podView, kept |-> K,
                 plan |-> PlanOf(object, podView, K), deleted |-> {}, created |-> {}]
  BY <1>3, Zenon DEF Start
<1>5. pass' # Nil
  BY StartEnters, Zenon DEF Rollout, RollBase
<1> QED
  BY <1>1, <1>2, <1>4, <1>5, Zenon

\* What a write of a pass does to the pass.
LEMMA PassDeletes ==
  ASSUME TypeOK, NEW n, DeletePod(n)
  PROVE  /\ pass # Nil /\ pass \in Pass /\ pass' # Nil
         /\ pass'.ad = pass.ad /\ pass'.seen = pass.seen /\ pass'.plan = pass.plan
         /\ pass'.deleted = pass.deleted \cup {n} /\ pass'.created = pass.created
<1>1. pass # Nil /\ pass \in Pass /\ pass' = [pass EXCEPT !.deleted = @ \cup {n}]
  BY Zenon DEF DeletePod, TypeOK, Optional
<1>2. n \in Names
  BY <1>1, Zenon DEF DeletePod, DeletesNext, Pass, Plan
<1>3. pass' \in Pass
  BY <1>1, <1>2, Zenon DEF Pass
<1> QED
  BY <1>1, <1>3, AbsentAssumption, Zenon DEF Pass

LEMMA PassCreates ==
  ASSUME TypeOK, NEW r, CreatePod(r)
  PROVE  /\ pass # Nil /\ pass \in Pass /\ pass' # Nil
         /\ pass'.ad = pass.ad /\ pass'.seen = pass.seen /\ pass'.plan = pass.plan
         /\ pass'.deleted = pass.deleted /\ pass'.created = pass.created \cup {r}
<1>1. pass # Nil /\ pass \in Pass /\ pass' = [pass EXCEPT !.created = @ \cup {r}]
  BY Zenon DEF CreatePod, TypeOK, Optional
<1>2. r \in Nat
  BY <1>1, Zenon DEF CreatePod, CreatesNext, Pass, Plan
<1>3. pass' \in Pass
  BY <1>1, <1>2, Zenon DEF Pass
<1> QED
  BY <1>1, <1>3, AbsentAssumption, Zenon DEF Pass

LEMMA RollPassNext ==
  ASSUME Rollout, [Next]_vars, Start => InSync
  PROVE  RollPass'
<1> USE DEF Rollout, RollBase
<1>1. CASE Start
  <2>1. PICK K \in KeepOnePerSlot(podView, object) :
          pass' = [ad |-> object, seen |-> podView, kept |-> K,
                   plan |-> PlanOf(object, podView, K), deleted |-> {}, created |-> {}]
    BY <1>1, StartsCurrent, Zenon
  <2>2. \A n \in Names : podView[n] = pods[n]
    BY <1>1, StartsCurrent, Zenon
  <2>3. PlanOf(object, podView, K).duplicates = {}
    BY <2>2, NoDuplicates, Zenon DEF TypeOK, SlotInv, SlotExclusive, Live
  <2> QED
    BY <2>1, <2>3, Zenon DEF RollPass
<1>2. ASSUME NEW n \in Names, DeletePod(n) PROVE RollPass'
  BY <1>2, PassDeletes, Zenon DEF RollPass
<1>3. ASSUME NEW r, CreatePod(r) PROVE RollPass'
  <2>1. r \in pass.plan.batch => OffHash(pass.seen, r, pass.ad.spec.hash) \subseteq pass.deleted
    BY <1>3, Zenon DEF CreatePod, CreatesNext, PassInv, PlanSound
  <2> QED
    <3>1. /\ pass # Nil /\ pass'.ad = pass.ad /\ pass'.seen = pass.seen /\ pass'.plan = pass.plan
          /\ pass'.deleted = pass.deleted /\ pass'.created = pass.created \cup {r}
      BY <1>3, PassCreates, Zenon
    <3>2. \A x \in pass.plan.batch \cap (pass.created \cup {r}) :
            OffHash(pass.seen, x, pass.ad.spec.hash) \subseteq pass.deleted
      BY <2>1, <3>1, Zenon DEF RollPass
    <3> QED
      BY <3>1, <3>2, Zenon DEF RollPass
<1>4. CASE pass' = pass \/ pass' = Nil
  BY <1>4, Zenon DEF RollPass
<1> QED
  BY <1>1, <1>2, <1>3, <1>4, Zenon
     DEF Next, Controller, Errors, Kubelet, Persist, ServicesFail, PodsFail, StatusFails, Abort,
         Restart, BecomeReady, LoseReady, Evict, Removed, EditSpec, DeliverObject, DeliverPod, vars

\* A pass that begins a batch has been paid for ahead.
LEMMA StartPaid ==
  ASSUME Rollout, Start, InSync, object'.spec \in RollSpecs
  PROVE  Paid' /\ PaidAhead'
<1> DEFINE d == DesiredReplicas(object.spec)
           b == Budget(object.spec)
           q == faults * b
<1>1. PICK K \in KeepOnePerSlot(podView, object) :
        pass' = [ad |-> object, seen |-> podView, kept |-> K,
                 plan |-> PlanOf(object, podView, K), deleted |-> {}, created |-> {}]
  BY StartsCurrent, Zenon
<1>2. /\ object' = object /\ pods' = pods /\ faults' = faults
      /\ pass = Nil /\ pass' # Nil /\ \A n \in Names : podView[n] = pods[n]
  BY StartsCurrent, Zenon
<1> DEFINE P == PlanOf(object, podView, K).batch
<1>3. /\ pass'.ad = object /\ pass'.created = {} /\ pass'.plan.batch = P
  BY <1>1, Zenon
<1>4. /\ Unavailable' = Unavailable /\ Lost' = Lost
  BY <1>2, PodsAlone, Zenon DEF Rollout, RollBase
<1>5. ~Outdated' /\ ~Outdated /\ Batch' = P /\ Batch = {} /\ Charged = Lost
  BY <1>2, <1>3, Zenon DEF Outdated, Batch, Charged
<1>6. Charged' \subseteq Charged /\ (Rolling' => Rolling)
  BY <1>2, <1>4, <1>5, Zenon DEF Charged, Rolling, Live
<1>7. CASE P = {}
  <2>1. (Unavailable \cup Batch)' \subseteq Unavailable \cup Batch
    BY <1>4, <1>5, <1>7, Zenon
  <2> QED
    BY <1>2, <1>6, <2>1, PaidQuiet, Zenon DEF Rollout
<1>8. CASE P # {}
  <2>1. Unavailable \subseteq Lost /\ Rolling
    BY <1>2, <1>8, GateOpen, Zenon DEF Rollout, RollBase, SlotInv, Rolling
  <2>2. /\ d \in Nat /\ b \in Nat /\ faults \in Nat
        /\ Lost \in SUBSET (0 .. d - 1)
    BY RollSets, Zenon DEF Rollout
  <2>3. P \in SUBSET (0 .. d - 1) /\ Cardinality(P) <= b
    BY BatchShape, Zenon DEF Rollout, RollBase, TypeOK
  <2>4. Cardinality(Lost) + b <= q
    BY <1>5, <2>1, Zenon DEF Rollout, PaidAhead
  <2> DEFINE Y == (Unavailable \cup Batch)'
  <2>5. Y \in SUBSET (Lost \cup P) /\ Lost \cup P \in SUBSET (0 .. d - 1)
    BY <1>4, <1>5, <2>1, <2>2, <2>3, Zenon
  <2>6. /\ Cardinality(Y) <= Cardinality(Lost \cup P)
        /\ Cardinality(Y) \in Nat /\ Cardinality(Lost \cup P) \in Nat
        /\ Cardinality(Lost) \in Nat /\ Cardinality(P) \in Nat
        /\ Cardinality(Lost \cup P) <= Cardinality(Lost) + Cardinality(P)
    <3> HIDE DEF Y, P, d
    <3> QED
      BY <2>2, <2>3, <2>5, SlotsCount, SlotsUnion, Zenon
  <2>7. q \in Nat
    BY <2>2
  <2>8. Cardinality(Y) <= q
    <3> HIDE DEF Y, P, d, b, q
    <3> QED
      BY <2>2, <2>3, <2>4, <2>6, <2>7
  <2>9. Paid'
    BY <1>2, <2>8, Zenon DEF Paid, Budget
  <2>10. Cardinality(Charged') <= Cardinality(Lost) /\ Cardinality(Charged') \in Nat
    BY <1>5, <1>6, <2>2, SlotsCount, Zenon
  <2>11. Cardinality(Charged') + b <= q
    <3> HIDE DEF b, q
    <3> QED
      BY <2>2, <2>4, <2>6, <2>7, <2>10
  <2> QED
    BY <1>2, <2>9, <2>11, Zenon DEF PaidAhead, Budget
<1> QED
  BY <1>7, <1>8, Zenon

\* The pods a plan deletes: those outside the window, and the old ones in its batch.
LEMMA PlanDeletes ==
  ASSUME NEW ad, NEW seen, NEW kept, NEW p, p = PlanOf(ad, seen, kept)
  PROVE  /\ \A n \in p.outside : seen[n].replica >= DesiredReplicas(ad.spec)
         /\ \A n \in p.replaced : \E x \in p.batch : n \in OffHash(seen, x, ad.spec.hash)
<1>1. p.replaced = UNION {OffHash(seen, x, ad.spec.hash) : x \in p.batch}
  BY Zenon DEF PlanOf
<1>2. \A n \in p.outside : seen[n].replica >= DesiredReplicas(ad.spec)
  BY Zenon DEF PlanOf
<1> QED
  BY <1>1, <1>2, Zenon

\* A delete of a running pass takes down a slot of its batch at most.
LEMMA DeletePaid ==
  ASSUME Rollout, NEW n \in Names, DeletePod(n), object'.spec \in RollSpecs
  PROVE  Paid' /\ PaidAhead'
<1> USE DEF Rollout, RollBase
<1> DEFINE r == pass.seen[n].replica
           d == DesiredReplicas(object.spec)
<1>1. /\ pass # Nil /\ pass \in Pass /\ pass' # Nil /\ pass'.ad = pass.ad
      /\ pass'.plan = pass.plan /\ pass'.created = pass.created
  BY PassDeletes, Zenon
<1>2. object' = object /\ faults' = faults /\ n \notin pass.deleted
  BY Zenon DEF DeletePod
<1>3. /\ pods'[n] = IF pods[n] = Nil THEN Nil ELSE [pods[n] EXCEPT !.terminating = TRUE]
      /\ \A m \in Names \ {n} : pods'[m] = pods[m]
  BY WritePodLive, Zenon DEF DeletePod
<1>4. ~Live(pods', n)
  BY <1>3, PodUpdateType, Zenon DEF Live, Pod
<1>5. Live(pass.seen, n)
  BY <1>1, Zenon DEF DeletePod, DeletesNext, PassInv, PlanSound
<1>6. Live(pods, n) => pods[n].replica = r
  BY <1>1, <1>5, Zenon DEF SlotInv, AccountedFor
<1>7. Unavailable' \subseteq Unavailable \cup {r} /\ Lost' \subseteq Lost \cup {r}
  <2>1. \A m \in Names : Live(pods, m) /\ pods[m].replica \notin {r} =>
           /\ Live(pods', m) /\ pods'[m].replica = pods[m].replica
           /\ pods'[m].hash = pods[m].hash
           /\ podReady(pods[m]) => podReady(pods'[m])
    BY <1>3, <1>6, Zenon DEF Live
  <2> QED
    BY <1>2, <2>1, PodsSpared, Zenon
<1>8. Batch' = Batch /\ Batch = pass.plan.batch /\ (Outdated' <=> Outdated)
  BY <1>1, <1>2, Zenon DEF Batch, Outdated
<1>9. Rolling' => Rolling
  BY <1>2, <1>3, <1>4, <1>8, Zenon DEF Rolling, Live
<1>10. Unavailable' \subseteq WindowNow /\ Lost' \subseteq Unavailable' /\ WindowNow = 0 .. d - 1
  <2>1. WindowNow' = WindowNow
    BY <1>2, SameWindow, Zenon
  <2> QED
    BY <2>1, Zenon DEF Unavailable, Lost, WindowNow
\* A pod outside the window is in no slot of it; a duplicate there is not; an old
\* pod of the batch is in a slot that is still to be filled.
<1>11. r \notin 0 .. d - 1 \/ r \in Batch \ pass.created
  <2>1. n \in pass.plan.outside \/ n \in pass.plan.replaced
    BY <1>1, Zenon DEF DeletePod, DeletesNext, RollPass
  <2>2. CASE n \in pass.plan.outside
    <3>1. pass.ad.spec \in RollSpecs /\ pass.plan = PlanOf(pass.ad, pass.seen, pass.kept)
      BY <1>1, Zenon DEF RollPass, PlanMade
    <3>2. DesiredReplicas(pass.ad.spec) = d /\ d \in Nat
      BY <3>1, RollShape, Zenon
    <3>3. r >= d
      BY <2>2, <3>1, <3>2, PlanDeletes, Zenon
    <3>4. r \in Nat
      BY <1>1, <1>5, Zenon DEF Pass, PodMap, Live, Optional, Pod
    <3> HIDE DEF r, d
    <3> QED
      BY <3>2, <3>3, <3>4
  <2>3. CASE n \in pass.plan.replaced
    <3>1. pass.plan = PlanOf(pass.ad, pass.seen, pass.kept)
      BY <1>1, Zenon DEF PlanMade
    <3>2. PICK x \in pass.plan.batch : n \in OffHash(pass.seen, x, pass.ad.spec.hash)
      BY <2>3, <3>1, PlanDeletes, Zenon
    <3>3. x = r
      BY <3>2, Zenon DEF OffHash
    <3>4. x \notin pass.created
      BY <1>1, <1>2, <3>2, Zenon DEF RollPass
    <3> QED
      BY <1>8, <3>3, <3>4, Zenon
  <2> QED
    BY <2>1, <2>2, <2>3, Zenon
<1> HIDE DEF r, d
<1>12. (Unavailable \cup Batch)' \subseteq Unavailable \cup Batch
  BY <1>7, <1>8, <1>10, <1>11, Zenon
<1>13. Lost' \subseteq Lost \cup (Batch \ pass.created)
  BY <1>7, <1>10, <1>11, Zenon
<1>14. Charged' \subseteq Charged
  BY <1>1, <1>8, <1>13, Zenon DEF Charged
<1> QED
  BY <1>2, <1>9, <1>12, <1>14, PaidQuiet, Zenon

\* A create of a running pass brings a slot nearer to the desired hash, or is of
\* an earlier hash.
LEMMA CreatePaid ==
  ASSUME Rollout, NEW r, CreatePod(r), object'.spec \in RollSpecs
  PROVE  Paid' /\ PaidAhead'
<1> USE DEF Rollout, RollBase
<1> DEFINE h == pass.ad.spec.hash
<1>1. /\ pass # Nil /\ pass \in Pass /\ pass' # Nil /\ pass'.ad = pass.ad
      /\ pass'.plan = pass.plan /\ pass'.created = pass.created \cup {r}
  BY PassCreates, Zenon
<1>2. object' = object /\ faults' = faults
  BY Zenon DEF CreatePod
<1>3. PICK n \in Names : /\ pods[n] = Nil /\ pods'[n] = newPod(r, h)
                         /\ \A m \in Names \ {n} : pods'[m] = pods[m]
  BY CreatePodLive, Zenon DEF Unused
<1>4. Live(pods', n) /\ pods'[n].replica = r /\ pods'[n].hash = h
  <2>1. r \in Nat /\ h \in Hashes
    BY <1>1, ConstantsAssumption, Zenon
       DEF CreatePod, CreatesNext, Pass, Plan, Object, AgentDeploySpec
  <2>2. newPod(r, h) \in Pod
    BY <2>1, Zenon DEF newPod, Pod
  <2>3. newPod(r, h) # Nil
    BY <2>2, AbsentAssumption, Zenon
  <2>4. /\ newPod(r, h).replica = r /\ newPod(r, h).hash = h
        /\ newPod(r, h).terminating = FALSE
    BY Zenon DEF newPod
  <2> QED
    BY <1>3, <2>3, <2>4, Zenon DEF Live
<1>5. Unavailable' \subseteq Unavailable /\ Lost' \subseteq Lost
  <2>1. \A m \in Names : Live(pods, m) /\ pods[m].replica \notin {} =>
           /\ Live(pods', m) /\ pods'[m].replica = pods[m].replica
           /\ pods'[m].hash = pods[m].hash
           /\ podReady(pods[m]) => podReady(pods'[m])
    BY <1>3, Zenon DEF Live
  <2>2. Unavailable' \subseteq Unavailable \cup {} /\ Lost' \subseteq Lost \cup {}
    BY <1>2, <2>1, PodsSpared, Zenon
  <2> QED
    BY <2>2, Zenon
<1>6. Batch' = Batch /\ (Outdated' <=> Outdated)
  BY <1>1, <1>2, Zenon DEF Batch, Outdated
<1>7. ~Outdated => h = object.spec.hash /\ r \notin Lost'
  <2>1. n \in LiveIn(r)'
    BY <1>4, Zenon DEF LiveIn
  <2> QED
    BY <1>1, <1>2, <1>4, <2>1, Zenon DEF Outdated, Lost
<1>8. Rolling' => Rolling
  BY <1>2, <1>3, <1>4, <1>6, <1>7, Zenon DEF Rolling, Live
<1>9. Charged' \subseteq Charged
  BY <1>1, <1>5, <1>6, <1>7, Zenon DEF Charged
<1>10. (Unavailable \cup Batch)' \subseteq Unavailable \cup Batch
  BY <1>5, <1>6, Zenon
<1> QED
  BY <1>2, <1>8, <1>9, <1>10, PaidQuiet, Zenon

\* The kubelet takes down one slot at most, and only in a disturbance.
LEMMA KubeletPaid ==
  ASSUME Rollout, NEW n \in Names, object'.spec \in RollSpecs,
         BecomeReady(n) \/ LoseReady(n) \/ Evict(n) \/ Removed(n)
  PROVE  Paid' /\ PaidAhead'
<1> USE DEF Rollout, RollBase
<1> DEFINE d == DesiredReplicas(object.spec)
<1>1. object' = object /\ pass' = pass
  BY Zenon DEF BecomeReady, LoseReady, Evict, Removed
<1>2. \A m \in Names \ {n} : pods'[m] = pods[m]
  BY WritePodLive, Zenon DEF BecomeReady, LoseReady, Evict, Removed
<1>3. Live(pods', n) => /\ Live(pods, n) /\ pods'[n].replica = pods[n].replica
                        /\ pods'[n].hash = pods[n].hash
  <2>1. CASE Removed(n)
    BY <2>1, WritePodLive, Zenon DEF Removed, Live
  <2>2. CASE Evict(n)
    <3>1. pods[n] \in Pod /\ pods'[n] = [pods[n] EXCEPT !.terminating = TRUE]
      BY <2>2, WritePodLive, PodUpdateType, Zenon DEF Evict, Live
    <3> QED
      BY <3>1, Zenon DEF Live, Pod
  <2>3. CASE BecomeReady(n) \/ LoseReady(n)
    <3>1. /\ pods[n] \in Pod /\ Live(pods, n)
          /\ \E p : pods'[n] = [pods[n] EXCEPT !.phase = p]
      BY <2>3, WritePodLive, PodUpdateType, Zenon DEF BecomeReady, LoseReady, Live
    <3> QED
      BY <3>1, Zenon DEF Pod
  <2> QED
    BY <2>1, <2>2, <2>3, Zenon
<1>4. Batch' = Batch /\ (Outdated' <=> Outdated)
  BY <1>1, Zenon DEF Batch, Outdated
<1>5. Rolling' => Rolling
  BY <1>1, <1>2, <1>3, <1>4, Zenon DEF Rolling, Live
<1>6. ASSUME NEW Q, \A m \in Names : Live(pods, m) /\ pods[m].replica \notin Q =>
           /\ Live(pods', m) /\ pods'[m].replica = pods[m].replica
           /\ pods'[m].hash = pods[m].hash
           /\ podReady(pods[m]) => podReady(pods'[m])
      PROVE  /\ (Unavailable \cup Batch)' \subseteq (Unavailable \cup Batch) \cup (Q \cap (0 .. d - 1))
             /\ Charged' \subseteq Charged \cup (Q \cap (0 .. d - 1))
  <2>1. Unavailable' \subseteq Unavailable \cup Q /\ Lost' \subseteq Lost \cup Q
    BY <1>1, <1>6, PodsSpared, Zenon
  <2>2. Unavailable' \subseteq 0 .. d - 1 /\ Lost' \subseteq Unavailable'
    BY <1>1, Zenon DEF Unavailable, Lost, WindowNow
  <2> HIDE DEF d
  <2>3. Lost' \subseteq Lost \cup (Q \cap (0 .. d - 1))
    BY <2>1, <2>2, Zenon
  <2> QED
    BY <1>1, <1>4, <2>1, <2>2, <2>3, Zenon DEF Charged
<1>7. CASE BecomeReady(n) \/ Removed(n)
  <2>1. \A m \in Names : Live(pods, m) /\ pods[m].replica \notin {} =>
           /\ Live(pods', m) /\ pods'[m].replica = pods[m].replica
           /\ pods'[m].hash = pods[m].hash
           /\ podReady(pods[m]) => podReady(pods'[m])
    <3>1. CASE Removed(n)
      <4>1. ~Live(pods, n)
        BY <3>1, Zenon DEF Removed, Live
      <4> QED
        BY <1>2, <4>1, Zenon DEF Live
    <3>2. CASE BecomeReady(n)
      <4>1. /\ pods[n] \in Pod /\ Live(pods, n) /\ ~podReady(pods[n])
            /\ pods'[n] = [pods[n] EXCEPT !.phase = "ready"]
        BY <3>2, WritePodLive, PodUpdateType, Zenon DEF BecomeReady, Live
      <4>2. pods'[n] \in Pod /\ ~pods'[n].terminating
        BY <4>1, Zenon DEF Pod, Live
      <4>3. Live(pods', n)
        BY <4>2, AbsentAssumption, Zenon DEF Live
      <4> QED
        BY <1>2, <1>3, <4>1, <4>3, Zenon DEF Live
    <3> QED
      BY <1>7, <3>1, <3>2, Zenon
  <2>2. /\ (Unavailable \cup Batch)' \subseteq Unavailable \cup Batch /\ Charged' \subseteq Charged
    BY <1>6, <2>1, Zenon
  <2>3. faults' = faults
    BY <1>7, Zenon DEF BecomeReady, Removed
  <2> QED
    BY <1>1, <1>5, <2>2, <2>3, PaidQuiet, Zenon
<1>8. CASE LoseReady(n) \/ Evict(n)
  <2> DEFINE Q == {pods[n].replica} \cap (0 .. d - 1)
  <2>1. \A m \in Names : Live(pods, m) /\ pods[m].replica \notin {pods[n].replica} =>
           /\ Live(pods', m) /\ pods'[m].replica = pods[m].replica
           /\ pods'[m].hash = pods[m].hash
           /\ podReady(pods[m]) => podReady(pods'[m])
    BY <1>2, Zenon DEF Live
  <2>2. /\ (Unavailable \cup Batch)' \subseteq (Unavailable \cup Batch) \cup Q
        /\ Charged' \subseteq Charged \cup Q
    BY <1>6, <2>1, Zenon
  <2>3. PICK r \in 0 .. d - 1 : Q \subseteq {r}
    <3>1. d \in Nat \ {0}
      BY RollShape, Zenon
    <3>2. 0 \in 0 .. d - 1
      <4> HIDE DEF d
      <4> QED
        BY <3>1
    <3> HIDE DEF d
    <3> QED
      BY <3>2, Zenon
  <2>4. faults' = faults + 1
    BY <1>8, Zenon DEF LoseReady, Evict, Disturb
  <2>5. /\ (Unavailable \cup Batch)' \subseteq (Unavailable \cup Batch) \cup {r}
        /\ Charged' \subseteq Charged \cup {r}
    <3> HIDE DEF Q
    <3> QED
      BY <2>2, <2>3, Zenon
  <2> QED
    BY <1>1, <1>5, <2>3, <2>4, <2>5, PaidOneSlot, Zenon
<1> QED
  BY <1>7, <1>8, Zenon

\* The end of a pass, the user and the watches.
LEMMA OthersPaid ==
  ASSUME Rollout, object'.spec \in RollSpecs,
         \/ Persist \/ ServicesFail \/ PodsFail \/ StatusFails \/ Restart
         \/ (\E s \in Specs : EditSpec(s)) \/ DeliverObject \/ DeliverPod
         \/ UNCHANGED vars
  PROVE  Paid' /\ PaidAhead'
<1> USE DEF Rollout, RollBase
<1>1. pods' = pods
  BY Zenon DEF Persist, ServicesFail, PodsFail, StatusFails, Abort, Restart, apiVars, EditSpec,
               DeliverObject, DeliverPod, vars
<1>2. Unavailable' = Unavailable /\ (object'.spec.hash = object.spec.hash => Lost' = Lost)
  BY <1>1, PodsAlone, Zenon
<1>3. Charged' \subseteq Unavailable' \cup Batch'
  BY Zenon DEF Charged, Lost
<1>4. CASE Persist
  <2>1. /\ pass # Nil /\ PassDone(pass) /\ pass' = Nil /\ faults' = faults
        /\ object'.spec = object.spec
    BY <1>4, ObjectPatched, Zenon DEF Persist
  <2>2. Batch' = {} /\ Charged' = Lost /\ ~Outdated'
    BY <1>2, <2>1, Zenon DEF Batch, Charged, Outdated
  <2>3. Lost \subseteq Charged
    BY <2>1, Zenon DEF Charged, PassDone, Batch
  <2>4. Rolling' => Rolling
    BY <1>1, <2>1, <2>2, Zenon DEF Rolling, Live
  <2>5. (Unavailable \cup Batch)' \subseteq Unavailable \cup Batch /\ Charged' \subseteq Charged
    BY <1>2, <2>2, <2>3, Zenon
  <2> QED
    BY <2>1, <2>4, <2>5, PaidQuiet, Zenon
<1>5. CASE faults' = faults + 1 /\ (pass' = pass \/ pass' = Nil)
  <2>1. Batch' \subseteq Batch
    BY <1>5, Zenon DEF Batch
  <2>2. /\ (Unavailable \cup Batch)' \subseteq Unavailable \cup Batch
        /\ Charged' \subseteq Unavailable \cup Batch
    BY <1>2, <1>3, <2>1, Zenon
  <2> QED
    BY <1>5, <2>2, PaidReplanned, Zenon
<1>6. CASE faults' = faults /\ pass' = pass /\ object' = object
  <2>1. Batch' = Batch /\ (Outdated' <=> Outdated) /\ Lost' = Lost
    BY <1>2, <1>6, Zenon DEF Batch, Outdated
  <2>2. Charged' = Charged
    BY <1>6, <2>1, Zenon DEF Charged
  <2>3. Rolling' => Rolling
    BY <1>1, <1>6, <2>1, Zenon DEF Rolling, Live
  <2>4. (Unavailable \cup Batch)' \subseteq Unavailable \cup Batch
    BY <1>2, <2>1, Zenon
  <2> QED
    BY <1>6, <2>2, <2>3, <2>4, PaidQuiet, Zenon
<1> QED
  BY <1>4, <1>5, <1>6, Zenon
     DEF ServicesFail, PodsFail, StatusFails, Abort, Restart, EditSpec, Disturb, DeliverObject,
         DeliverPod, vars

LEMMA RolloutNext ==
  ASSUME Rollout, [Next]_vars, Start => InSync, object'.spec \in RollSpecs
  PROVE  Rollout'
<1>1. TypeOK' /\ PassInv' /\ CacheInv' /\ ObjectCacheInv' /\ PlanMade'
  BY TypeNext, PassNext, CacheNext, ObjectCacheNext, PlanMadeNext, Zenon DEF Rollout, RollBase
<1>2. SlotInv'
  BY SlotNext, Zenon DEF Rollout, RollBase
<1>3. RollPass'
  BY RollPassNext, Zenon
<1>4. Paid' /\ PaidAhead'
  BY StartPaid, DeletePaid, CreatePaid, KubeletPaid, OthersPaid, Zenon
     DEF Next, Controller, Errors, Kubelet
<1> QED
  BY <1>1, <1>2, <1>3, <1>4, Zenon DEF Rollout, RollBase

\* The settled deploy a rollout starts from.
LEMMA RolloutInit ==
  ASSUME NEW s \in RollSpecs, Settled(s)
  PROVE  Rollout
<1> DEFINE d == DesiredReplicas(s)
           up(n) == [newPod(n - 1, s.hash) EXCEPT !.phase = "ready"]
<1>1. /\ s \in Specs /\ s \in AgentDeploySpec /\ d \in Nat \ {0} /\ 1 .. d \subseteq Names
      /\ s.hash \in Hashes /\ Budget(s) \in Nat \ {0}
  BY RollShape, RollAssumption, Zenon DEF AgentDeploySpec
<1>2. \A n \in 1 .. d : n - 1 \in Nat
  <2> HIDE DEF d
  <2> QED
    BY <1>1
<1>3. \A n \in 1 .. d :
        /\ up(n) \in Pod /\ up(n).replica = n - 1 /\ up(n).hash = s.hash
        /\ podReady(up(n)) /\ up(n).terminating = FALSE /\ up(n) # Nil
  <2> SUFFICES ASSUME NEW n \in 1 .. d
               PROVE  /\ up(n) \in Pod /\ up(n).replica = n - 1 /\ up(n).hash = s.hash
                      /\ podReady(up(n)) /\ up(n).terminating = FALSE /\ up(n) # Nil
    BY Zenon
  <2> DEFINE p == newPod(n - 1, s.hash)
  <2>1. p \in Pod /\ p.replica = n - 1 /\ p.hash = s.hash /\ p.terminating = FALSE
    BY <1>1, <1>2, Zenon DEF newPod, Pod
  <2>2. up(n) = [p EXCEPT !.phase = "ready"]
    BY Zenon
  <2> HIDE DEF up, p
  <2>3. /\ up(n) \in Pod /\ up(n).replica = p.replica /\ up(n).hash = p.hash
        /\ up(n).phase = "ready" /\ up(n).terminating = p.terminating
    BY <2>1, <2>2, Zenon DEF Pod
  <2> QED
    BY <2>1, <2>3, AbsentAssumption, Zenon DEF podReady
<1>4. /\ pods = [n \in Names |-> IF n \in 1 .. d THEN up(n) ELSE Nil]
      /\ object.spec = s /\ objView = object /\ objStream = <<>>
      /\ podView = pods /\ podStream = <<>> /\ queued = FALSE /\ pass = Nil /\ faults = 0
  BY Zenon DEF Settled
<1>5. object \in Object
  <2>1. \E st \in Status : object = [spec |-> s, status |-> st]
    <3>1. d \in Nat
      BY <1>1, Zenon
    <3> HIDE DEF d
    <3> QED
      BY <1>1, <3>1, Zenon DEF Settled, Status, Conditions, Tri, Optional, d
  <2>2. PICK st \in Status : object = [spec |-> s, status |-> st]
    BY <2>1, Zenon
  <2>3. s \in Specs
    BY <1>1, Zenon
  <2> QED
    BY <2>2, <2>3 DEF Object
<1> HIDE DEF up, d
<1>6. pods \in PodMap
  BY <1>3, <1>4, Zenon DEF PodMap, Optional
<1>7. TypeOK
  <2>1. objStream \in Seq(Object) /\ podStream \in Seq([name : Names, pod : Optional(Pod)])
    BY <1>4
  <2>2. faults \in Nat
    BY <1>4
  <2> QED
    BY <1>4, <1>5, <1>6, <2>1, <2>2, Zenon DEF TypeOK, Optional
<1>8. \A n \in Names : Live(pods, n) <=> n \in 1 .. d
  BY <1>3, <1>4, Zenon DEF Live
<1>9. \A n \in 1 .. d : n \in Names /\ pods[n] = up(n)
  BY <1>1, <1>4, Zenon
<1>10. SlotInv
  <2>1. ASSUME NEW m \in Names, NEW n \in Names, Live(pods, m), Live(pods, n),
               pods[m].replica = pods[n].replica
        PROVE  m = n
    <3>1. m \in 1 .. d /\ n \in 1 .. d /\ m - 1 = n - 1
      BY <1>3, <1>8, <1>9, <2>1, Zenon
    <3> QED
      BY <1>1, <3>1
  <2> QED
    BY <1>4, <2>1, Zenon DEF SlotInv, SlotExclusive, AccountedFor
<1>11. PassInv /\ ObjectCacheInv /\ PlanMade /\ RollPass
  BY <1>4, Zenon DEF PassInv, ObjectCacheInv, PlanMade, RollPass
<1>12. CacheInv
  BY <1>4 DEF CacheInv, NoEvent, LastEvent
<1>13. Unavailable = {} /\ Batch = {} /\ ~Rolling
  <2>1. ASSUME NEW r \in Unavailable PROVE FALSE
    <3>1. r \in 0 .. d - 1
      BY <1>4, <2>1, Zenon DEF Unavailable, WindowNow, d
    <3>2. r + 1 \in 1 .. d /\ (r + 1) - 1 = r
      BY <1>1, <3>1
    <3>3. r + 1 \in LiveIn(r) /\ podReady(pods[r + 1])
      BY <1>3, <1>8, <1>9, <3>2, Zenon DEF LiveIn
    <3> QED
      BY <2>1, <3>3, Zenon DEF Unavailable
  <2>2. ~Rolling
    BY <1>3, <1>4, <1>8, <1>9, Zenon DEF Rolling, Outdated
  <2> QED
    BY <1>4, <2>1, <2>2, Zenon DEF Batch
<1>14. Paid /\ PaidAhead
  <2>1. Cardinality(Unavailable \cup Batch) = 0
    BY <1>13, FS_EmptySet, Zenon
  <2>2. 0 <= faults * Budget(s)
    BY <1>1, <1>4
  <2> QED
    BY <1>4, <1>13, <2>1, <2>2, Zenon DEF Paid, PaidAhead
<1> QED
  BY <1>4, <1>7, <1>10, <1>11, <1>12, <1>14, Zenon DEF Rollout, RollBase

\* What is paid for bounds what is down.
LEMMA RolloutBudget ==
  ASSUME Rollout
  PROVE  BudgetPerDisturbance
<1> DEFINE d == DesiredReplicas(object.spec)
           b == Budget(object.spec)
           X == Unavailable \cup Batch
           q == faults * b
<1>1. d \in Nat /\ b \in Nat /\ faults \in Nat /\ X \in SUBSET (0 .. d - 1)
  BY RollSets, Zenon DEF Rollout
<1>2. /\ Cardinality(Unavailable) <= Cardinality(X)
      /\ Cardinality(Unavailable) \in Nat /\ Cardinality(X) \in Nat
  BY <1>1, SlotsCount, Zenon
<1>3. Cardinality(X) <= q /\ q \in Nat
  BY <1>1 DEF Rollout, Paid
<1>4. Cardinality(Unavailable) <= q
  <2> HIDE DEF X, q
  <2> QED
    BY <1>2, <1>3
<1> QED
  BY <1>4, Zenon DEF BudgetPerDisturbance, Budget

\* For any window, any budget and any number of pods, hashes and disturbances: in
\* rolling updates between specs of one window and one maxUnavailable, from a
\* settled deploy and on caches that have caught up, k disturbances (edits,
\* failed passes, restarts, evictions, lost readiness) never have more than
\* k * maxUnavailable slots down at once.
THEOREM RolloutWithinBudget == MCSpec => []BudgetInRollout
<1> DEFINE Inv == setting = "rollout" => Rollout
<1>1. MCInit => Inv
  BY RolloutInit, RollAssumption, Zenon DEF MCInit
<1>2. Inv /\ [MCNext]_<<vars, setting>> => Inv'
  <2> SUFFICES ASSUME Inv, [MCNext]_<<vars, setting>>, setting' = "rollout"
               PROVE  Rollout'
    BY Zenon
  <2>1. Rollout
    BY Zenon DEF MCNext
  <2>2. CASE UNCHANGED <<vars, setting>>
    <3>1. object' = object /\ (Start => InSync)
      BY <2>1, <2>2, StartEnters, Zenon DEF vars, Start, Rollout, RollBase
    <3> QED
      BY <2>1, <2>2, <3>1, RolloutNext, Zenon DEF Rollout, RollBase
  <2>3. CASE MCNext
    <3>1. Next /\ object'.spec \in RollSpecs /\ ReadsCurrent
      BY <2>3, Zenon DEF MCNext
    <3>2. Start => InSync
      BY <3>1, StartEnters, <2>1, Zenon DEF ReadsCurrent, Rollout, RollBase
    <3> QED
      BY <2>1, <3>1, <3>2, RolloutNext, Zenon
  <2> QED
    BY <2>2, <2>3, Zenon
<1>3. Inv => BudgetInRollout
  BY RolloutBudget, Zenon DEF BudgetInRollout
<1> QED
  BY <1>1, <1>2, <1>3, PTL DEF MCSpec
=============================================================================
