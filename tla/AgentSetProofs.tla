--------------------------- MODULE AgentSetProofs ---------------------------
(***************************************************************************)
(* Proofs about AgentSet: no wakeup is lost, for every set of agents, every *)
(* sequence of specs and any number of faults.                             *)
(***************************************************************************)
EXTENDS AgentSet, FiniteSetTheorems, TLAPS

Hashes == {s.hash : s \in {Specs[g] : g \in DOMAIN Specs}}
ChildMap == [Agents -> Child \cup {None}]
Pass ==
  [pc : {"apply", "recreate", "failed"}, as : [gen : DOMAIN Specs, status : Status],
   existing : ChildMap, todo : SUBSET Agents, next : 1 .. Len(Objs) + 1, retry : BOOLEAN,
   st : Status]

\* None is not a pass.
NoneIsNoPass ==
  \A p, v, e, t, n, r, st :
    None # [pc |-> p, as |-> v, existing |-> e, todo |-> t, next |-> n, retry |-> r, st |-> st]

SetTyped ==
  /\ setting \in Settings
  /\ gen \in DOMAIN Specs /\ status \in Status
  /\ view \in [gen : DOMAIN Specs, status : Status]
  /\ child \in ChildMap /\ childView \in ChildMap
  /\ DOMAIN object = AllNames /\ DOMAIN objView = AllNames
  /\ queued \in BOOLEAN
  /\ pass # None => pass \in Pass /\ (pass.pc = "recreate" => pass.next <= Len(Objs))

-----------------------------------------------------------------------------
(* The inductive invariant *)

\* A copy that is not up to date has an event on its way.
Watched ==
  /\ \A a \in Agents : a \in news \/ childView[a] = child[a]
  /\ \A o \in AllNames : o \in news \/ objView[o] = object[o]

\* The copies show the child, or the object, as the spec wants it, or an event
\* is on its way.
ChildSeen(a) ==
  \/ a \in news
  \/ IF a \in Specs[view.gen].agents
     THEN childView[a] # None /\ childView[a].hash = Specs[view.gen].hash
     ELSE childView[a] = None
ObjectSeen(o) == o \in Services => o \in news \/ objView[o] = "fixed"

\* Nothing is under way and nothing is queued: all that is wanted is there.
Resting ==
  ~queued /\ pass = None /\ Specs[view.gen].valid =>
    (\A a \in Agents : ChildSeen(a)) /\ (\A o \in Services : ObjectSeen(o))

\* The objects before the nth.
Handled(n) == {Objs[i] : i \in {j \in DOMAIN Objs : j < n}}

(***************************************************************************)
(* A pass during which nothing is queued works on the copies as they are,  *)
(* and what it has dealt with is there; it is tried again when it fails,   *)
(* unless the spec is invalid.                                             *)
(***************************************************************************)
Working ==
  ~queued /\ pass # None =>
    /\ pass.as.gen = view.gen /\ pass.existing = childView
    /\ pass.pc = "failed" => pass.retry \/ ~Specs[view.gen].valid
    /\ pass.pc # "failed" =>
         /\ \A a \in Agents \ pass.todo : ChildSeen(a)
         /\ \A o \in Handled(pass.next) : ObjectSeen(o)
    /\ pass.pc = "recreate" /\ Objs[pass.next] \in Services => Objs[pass.next] \in news

QuietInv == SetTyped /\ Watched /\ Resting /\ Working

-----------------------------------------------------------------------------
(* Types *)

\* What is given stays as it is, and so do the types that depend on it.
LEMMA SettingKept ==
  ASSUME setting' = setting
  PROVE  /\ Specs' = Specs /\ Objs' = Objs /\ StaleSelf' = StaleSelf
         /\ Names' = Names /\ Services' = Services
         /\ Status' = Status /\ Child' = Child /\ ChildMap' = ChildMap /\ Pass' = Pass
<1>1. Specs' = Specs /\ Objs' = Objs /\ StaleSelf' = StaleSelf
  BY Zenon DEF Specs, Objs, StaleSelf
<1>2. Names' = Names /\ Status' = Status /\ Child' = Child
  BY <1>1, Zenon DEF Names, Status, Child
<1>3. Services' = Services /\ ChildMap' = ChildMap
  BY <1>2, Zenon DEF Services, ChildMap
<1>4. Pass' = Pass
  BY <1>1, <1>2, <1>3, Zenon DEF Pass
<1> QED
  BY <1>1, <1>2, <1>3, <1>4, Zenon

\* What the assumption on the settings says of the one that is given.
LEMMA SettingFacts ==
  ASSUME setting \in Settings
  PROVE  /\ Len(Specs) \in Nat /\ Len(Specs) >= 1 /\ DOMAIN Specs = 1 .. Len(Specs)
         /\ \A g \in DOMAIN Specs :
              Specs[g].agents \in SUBSET Agents /\ Specs[g].hash \in Hashes /\ Specs[g].valid \in BOOLEAN
         /\ Len(Objs) \in Nat /\ DOMAIN Objs = 1 .. Len(Objs)
         /\ \A i \in DOMAIN Objs : Objs[i] \in AllNames
         /\ Services \subseteq AllNames
<1> DEFINE Given == [agents : SUBSET Agents, hash : STRING, valid : BOOLEAN]
<1>1. Specs \in Seq(Given) /\ Specs # <<>> /\ Objs \in Seq(AllNames)
  BY AgentSetAssumption, Zenon DEF Specs, Objs
<1> HIDE DEF Given
<1>2. Len(Specs) \in Nat /\ DOMAIN Specs = 1 .. Len(Specs) /\ Len(Specs) >= 1
  BY <1>1
<1>3. \A g \in DOMAIN Specs : Specs[g] \in Given
  BY <1>1
<1>4. Len(Objs) \in Nat /\ DOMAIN Objs = 1 .. Len(Objs) /\ \A i \in DOMAIN Objs : Objs[i] \in AllNames
  BY <1>1
<1>5. \A g \in DOMAIN Specs :
        Specs[g].agents \in SUBSET Agents /\ Specs[g].hash \in Hashes /\ Specs[g].valid \in BOOLEAN
  BY <1>3, Zenon DEF Hashes, Given
<1>6. Services \subseteq AllNames
  BY Zenon DEF Services, AllNames
<1> QED
  BY <1>2, <1>4, <1>5, <1>6, Zenon

\* The statuses that a pass computes.
LEMMA StatusFacts ==
  ASSUME setting \in Settings
  PROVE  /\ \A st \in Status : DeployFailed(st) \in Status /\ Rejected(st) \in Status
         /\ \A g \in DOMAIN Specs : view.status \in Status => Begun(g) \in Status
         /\ pass \in Pass => Outcome \in Status
<1>1. ASSUME NEW st \in Status PROVE DeployFailed(st) \in Status /\ Rejected(st) \in Status
  BY Zenon DEF DeployFailed, Rejected, Status, Tri, Phases
<1>2. ASSUME NEW g \in DOMAIN Specs, view.status \in Status PROVE Begun(g) \in Status
  <2>1. g \in 0 .. Len(Specs)
    BY SettingFacts
  <2> QED
    BY <1>2, <2>1, Zenon DEF Begun, Status, Tri
<1>3. ASSUME pass \in Pass PROVE Outcome \in Status
  <2> DEFINE h == aggregateChildHealth(buildDesired(pass.as.gen), pass.existing)
             n == Cardinality(Specs[pass.as.gen].agents)
  <2>1. pass.as.gen \in DOMAIN Specs /\ pass.st \in Status
    BY <1>3, Zenon DEF Pass
  <2>2. Specs[pass.as.gen].agents \in SUBSET Agents
    BY <2>1, SettingFacts, Zenon
  <2>3. n \in 0 .. Cardinality(Agents)
    <3>1. IsFiniteSet(Agents)
      BY AgentSetAssumption, Zenon
    <3>2. IsFiniteSet(Specs[pass.as.gen].agents) /\ n <= Cardinality(Agents)
      BY <2>2, <3>1, FS_Subset, Zenon
    <3>3. n \in Nat /\ Cardinality(Agents) \in Nat
      BY <3>1, <3>2, FS_CardinalityType, Zenon
    <3> QED
      BY <3>2, <3>3
  <2>4. h.phase \in Phases /\ h.healthy \in Tri
    BY DEF aggregateChildHealth, Phases, Tri
  <2> HIDE DEF h, n
  <2>5. [pass.st EXCEPT !.deployed = "True", !.phase = h.phase, !.healthy = h.healthy,
                        !.count = n] \in Status
    <3>1. "True" \in Tri
      BY DEF Tri
    <3> HIDE DEF Tri, Phases
    <3> QED
      BY <2>1, <2>3, <2>4, <3>1, Zenon DEF Status
  <2> QED
    BY <2>1, <2>5, Zenon DEF Outcome, h, n
<1> QED
  BY <1>1, <1>2, <1>3, Zenon

\* A merge patch of statuses is a status.
LEMMA MergedStatus ==
  ASSUME NEW o \in Status, NEW n \in Status, NEW s \in Status, NEW r \in BOOLEAN
  PROVE  Merged(o, n, s, r) \in Status
<1>1. /\ Merge(o.phase, n.phase, s.phase) \in Phases
      /\ Merge(o.observed, n.observed, s.observed) \in 0 .. Len(Specs)
      /\ Merge(o.count, n.count, s.count) \in 0 .. Cardinality(Agents)
  BY Zenon DEF Merge, Status
<1>2. /\ n.configured \in Tri /\ n.deployed \in Tri /\ n.healthy \in Tri
      /\ s.configured \in Tri /\ s.deployed \in Tri /\ s.healthy \in Tri
  BY Zenon DEF Status
<1> DEFINE Conds(x) == <<x.configured, x.deployed, x.healthy>>
           cs == IF r THEN Conds(n) ELSE Merge(Conds(o), Conds(n), Conds(s))
<1>3. cs \in {Conds(n), Conds(s)}
  BY Zenon DEF Merge
<1>4. cs[1] \in Tri /\ cs[2] \in Tri /\ cs[3] \in Tri
  <2>1. \A x : Conds(x)[1] = x.configured /\ Conds(x)[2] = x.deployed /\ Conds(x)[3] = x.healthy
    OBVIOUS
  <2> HIDE DEF Conds, cs
  <2> QED
    BY <1>2, <1>3, <2>1, Zenon
<1> QED
  BY <1>1, <1>4, Zenon DEF Merged, Status

\* A pass is not None.
LEMMA PassIsNotNone ==
  ASSUME NoneIsNoPass, NEW q \in Pass
  PROVE  q # None
<1>1. q = [pc |-> q.pc, as |-> q.as, existing |-> q.existing, todo |-> q.todo, next |-> q.next,
           retry |-> q.retry, st |-> q.st]
  BY DEF Pass
<1> QED
  BY <1>1, Zenon DEF NoneIsNoPass

\* The fields of the pass under way.
LEMMA PassFacts ==
  ASSUME SetTyped, pass # None
  PROVE  /\ pass \in Pass /\ pass.pc \in {"apply", "recreate", "failed"}
         /\ pass.as.gen \in DOMAIN Specs /\ pass.as.status \in Status /\ pass.existing \in ChildMap
         /\ pass.todo \in SUBSET Agents /\ pass.next \in 1 .. Len(Objs) + 1
         /\ pass.retry \in BOOLEAN /\ pass.st \in Status
BY Zenon DEF SetTyped, Pass

\* A pass goes on, or fails.
LEMMA PassGoesOn ==
  ASSUME SetTyped, pass # None
  PROVE  /\ \A t \in SUBSET Agents : [pass EXCEPT !.todo = t] \in Pass
         /\ pass.next <= Len(Objs) =>
              [pass EXCEPT !.next = @ + 1] \in Pass /\ [pass EXCEPT !.pc = "apply", !.next = @ + 1] \in Pass
         /\ [pass EXCEPT !.pc = "recreate"] \in Pass
         /\ [pass EXCEPT !.pc = "failed", !.retry = TRUE, !.st = DeployFailed(@)] \in Pass
<1>1. /\ pass \in Pass /\ pass.pc \in {"apply", "recreate", "failed"}
      /\ pass.as \in [gen : DOMAIN Specs, status : Status] /\ pass.existing \in ChildMap
      /\ pass.todo \in SUBSET Agents /\ pass.next \in 1 .. Len(Objs) + 1
      /\ pass.retry \in BOOLEAN /\ pass.st \in Status /\ setting \in Settings
  BY Zenon DEF SetTyped, Pass
<1>2. pass.next <= Len(Objs) => pass.next + 1 \in 1 .. Len(Objs) + 1
  BY <1>1, SettingFacts
<1>3. DeployFailed(pass.st) \in Status
  BY <1>1, StatusFacts, Zenon
<1>4. ASSUME NEW t \in SUBSET Agents PROVE [pass EXCEPT !.todo = t] \in Pass
  BY <1>1, Zenon DEF Pass
<1>5. ASSUME pass.next <= Len(Objs)
      PROVE  [pass EXCEPT !.next = @ + 1] \in Pass /\ [pass EXCEPT !.pc = "apply", !.next = @ + 1] \in Pass
  BY <1>1, <1>2, <1>5, Zenon DEF Pass
<1>6. [pass EXCEPT !.pc = "recreate"] \in Pass
  BY <1>1, Zenon DEF Pass
<1>7. [pass EXCEPT !.pc = "failed", !.retry = TRUE, !.st = DeployFailed(@)] \in Pass
  BY <1>1, <1>3, Zenon DEF Pass
<1> QED
  BY <1>4, <1>5, <1>6, <1>7, Zenon

-----------------------------------------------------------------------------
(* The world and the informers *)

\* What changes in the cluster has an event on its way.
LEMMA NewsOnly ==
  ASSUME QuietInv, setting' = setting, gen' \in DOMAIN Specs, status' = status, view' = view,
         childView' = childView, objView' = objView, queued' = queued, pass' = pass,
         news \subseteq news', child' \in ChildMap, DOMAIN object' = AllNames,
         \A a \in Agents : a \in news' \/ child'[a] = child[a],
         \A o \in AllNames : o \in news' \/ object'[o] = object[o]
  PROVE  QuietInv'
<1>1. /\ Specs' = Specs /\ Objs' = Objs /\ Services' = Services
      /\ Status' = Status /\ ChildMap' = ChildMap /\ Pass' = Pass
  BY SettingKept, Zenon
<1>2. SetTyped'
  BY <1>1, Zenon DEF QuietInv, SetTyped
<1>3. Watched'
  BY Zenon DEF QuietInv, Watched
<1>4. /\ \A a : ChildSeen(a) => ChildSeen(a)'
      /\ \A o : ObjectSeen(o) => ObjectSeen(o)'
  BY <1>1, Zenon DEF ChildSeen, ObjectSeen
<1>5. Resting'
  BY <1>1, <1>4, Zenon DEF QuietInv, Resting
<1>6. Working'
  <2> SUFFICES ASSUME ~queued', pass' # None
               PROVE  /\ pass.as.gen = view.gen /\ pass.existing = childView
                      /\ pass.pc = "failed" => pass.retry \/ ~Specs[view.gen].valid
                      /\ pass.pc # "failed" =>
                           /\ \A a \in Agents \ pass.todo : ChildSeen(a)'
                           /\ \A o \in Handled(pass.next) : ObjectSeen(o)'
                      /\ pass.pc = "recreate" /\ Objs[pass.next] \in Services => Objs[pass.next] \in news'
    BY <1>1, Zenon DEF Working, Handled
  <2>1. ~queued /\ pass # None /\ Working
    BY Zenon DEF QuietInv
  <2> QED
    BY <1>4, <2>1, Zenon DEF Working
<1> QED
  BY <1>2, <1>3, <1>5, <1>6, Zenon DEF QuietInv

\* The users edit the spec and delete Services, children run and fail, pods of
\* the daemon come and go.
LEMMA WorldStep ==
  ASSUME QuietInv,
         \/ EditSpec \/ PodStarts \/ (\E i \in daemonPods : PodCollected(i)) \/ UNCHANGED vars
         \/ \E a \in Agents : ChildRuns(a) \/ ChildTroubled(a)
         \/ \E o \in Services : ServiceDeleted(o)
  PROVE  QuietInv'
<1>1. /\ setting \in Settings /\ gen \in DOMAIN Specs /\ child \in ChildMap
      /\ DOMAIN object = AllNames
  BY Zenon DEF QuietInv, SetTyped
<1>2. CASE EditSpec
  <2>1. gen' = gen + 1 /\ gen < Len(Specs)
    BY <1>2, Zenon DEF EditSpec
  <2>2. gen' \in DOMAIN Specs
    BY <1>1, <2>1, SettingFacts
  <2>3. /\ setting' = setting /\ status' = status /\ view' = view /\ childView' = childView
        /\ objView' = objView /\ queued' = queued /\ pass' = pass /\ news' = news
        /\ child' = child /\ object' = object
    BY <1>2 DEF EditSpec, caches
  <2> QED
    BY <1>1, <2>2, <2>3, NewsOnly, Zenon
<1>3. CASE PodStarts \/ (\E i \in daemonPods : PodCollected(i)) \/ UNCHANGED vars
  <2>1. /\ setting' = setting /\ status' = status /\ view' = view /\ childView' = childView
        /\ objView' = objView /\ queued' = queued /\ pass' = pass /\ news' = news
        /\ child' = child /\ object' = object /\ gen' = gen
    BY <1>3 DEF PodStarts, PodCollected, vars, caches
  <2> QED
    BY <1>1, <2>1, NewsOnly, Zenon
<1>4. ASSUME NEW a \in Agents, ChildRuns(a) \/ ChildTroubled(a) PROVE QuietInv'
  <2>1. /\ setting' = setting /\ status' = status /\ view' = view /\ childView' = childView
        /\ objView' = objView /\ queued' = queued /\ pass' = pass /\ news' = news \cup {a}
        /\ object' = object /\ gen' = gen
        /\ \E p \in Phases : child' = [child EXCEPT ![a].phase = p]
        /\ child[a] # None
    BY <1>4 DEF ChildRuns, ChildTroubled, caches, Phases
  <2>2. child[a] \in Child
    BY <1>1, <2>1, Zenon DEF ChildMap
  <2>3. \A p \in Phases : [child[a] EXCEPT !.phase = p] \in Child
    BY <2>2, Zenon DEF Child
  <2>4. child' \in ChildMap /\ \A x \in Agents : x = a \/ child'[x] = child[x]
    BY <1>1, <2>1, <2>3, Zenon DEF ChildMap
  <2> QED
    BY <1>1, <2>1, <2>4, NewsOnly, Zenon
<1>5. ASSUME NEW o \in Services, ServiceDeleted(o) PROVE QuietInv'
  <2>1. /\ setting' = setting /\ status' = status /\ view' = view /\ childView' = childView
        /\ objView' = objView /\ queued' = queued /\ pass' = pass /\ news' = news \cup {o}
        /\ child' = child /\ gen' = gen /\ object' = [object EXCEPT ![o] = None]
    BY <1>5 DEF ServiceDeleted, caches
  <2>2. DOMAIN object' = AllNames /\ \A x \in AllNames : x = o \/ object'[x] = object[x]
    BY <1>1, <2>1, Zenon
  <2> QED
    BY <1>1, <2>1, <2>2, NewsOnly, Zenon
<1> QED
  BY <1>2, <1>3, <1>4, <1>5, Zenon

\* Nothing is claimed while the AgentSet is queued, but that the copies are
\* watched.
LEMMA WhileQueued ==
  ASSUME SetTyped', Watched', queued'
  PROVE  QuietInv'
BY Zenon DEF QuietInv, Resting, Working

\* The AgentSet's own copy syncs: a new generation queues it.
LEMMA SyncSelfStep ==
  ASSUME QuietInv, SyncSelf
  PROVE  QuietInv'
<1>1. /\ setting' = setting /\ gen' = gen /\ status' = status /\ child' = child
      /\ childView' = childView /\ object' = object /\ objView' = objView /\ news' = news
      /\ pass' = pass /\ view' = [gen |-> gen, status |-> status]
      /\ queued' = (queued \/ view.gen # gen)
  BY DEF SyncSelf, cluster
<1>2. /\ Specs' = Specs /\ Objs' = Objs /\ Services' = Services
      /\ Status' = Status /\ ChildMap' = ChildMap /\ Pass' = Pass
  BY <1>1, SettingKept, Zenon
<1>3. SetTyped /\ Watched /\ Resting /\ Working
  BY Zenon DEF QuietInv
<1>4. SetTyped'
  BY <1>1, <1>2, <1>3, Zenon DEF SetTyped
<1>5. Watched'
  BY <1>1, <1>3, Zenon DEF Watched
<1>6. ASSUME ~queued' PROVE Resting' /\ Working'
  <2>1. ~queued /\ view'.gen = view.gen
    BY <1>1, <1>3, <1>6, Zenon DEF SetTyped
  <2>2. (\A a : ChildSeen(a)' <=> ChildSeen(a)) /\ (\A o : ObjectSeen(o)' <=> ObjectSeen(o))
    BY <1>1, <1>2, <2>1, Zenon DEF ChildSeen, ObjectSeen
  <2>3. Handled(pass.next)' = Handled(pass.next)
    BY <1>1, <1>2, Zenon DEF Handled
  <2>4. Resting'
    BY <1>1, <1>2, <1>3, <2>1, <2>2, Zenon DEF Resting
  <2>5. Working'
    BY <1>1, <1>2, <1>3, <2>1, <2>2, <2>3, Zenon DEF Working
  <2> QED
    BY <2>4, <2>5, Zenon
<1>7. CASE queued'
  BY <1>4, <1>5, <1>7, WhileQueued, Zenon
<1> QED
  BY <1>4, <1>5, <1>6, <1>7, Zenon DEF QuietInv

\* A copy of a child syncs, which queues the AgentSet.
LEMMA SyncChildStep ==
  ASSUME QuietInv, NEW a \in Agents, SyncChild(a)
  PROVE  QuietInv'
<1>1. /\ setting' = setting /\ gen' = gen /\ status' = status /\ view' = view /\ child' = child
      /\ object' = object /\ objView' = objView /\ news' = news \ {a} /\ pass' = pass
      /\ childView' = [childView EXCEPT ![a] = child[a]] /\ queued' = TRUE
  BY DEF SyncChild
<1>2. /\ Specs' = Specs /\ Objs' = Objs /\ Status' = Status /\ ChildMap' = ChildMap /\ Pass' = Pass
  BY <1>1, SettingKept, Zenon
<1>3. SetTyped /\ Watched /\ a \notin AllNames
  BY AgentSetAssumption, Zenon DEF QuietInv
<1>4. childView' \in ChildMap /\ childView'[a] = child[a] /\ \A x \in Agents : x = a \/ childView'[x] = childView[x]
  BY <1>1, <1>3, Zenon DEF SetTyped, ChildMap
<1>5. SetTyped'
  BY <1>1, <1>2, <1>3, <1>4, Zenon DEF SetTyped
<1>6. Watched'
  BY <1>1, <1>3, <1>4, Zenon DEF Watched
<1> QED
  BY <1>1, <1>5, <1>6, WhileQueued, Zenon

\* A copy of an object syncs: that of a Service queues the AgentSet, that of
\* the daemon Deployment does not.
LEMMA SyncObjectStep ==
  ASSUME QuietInv, NEW o \in Names, SyncObject(o)
  PROVE  QuietInv'
<1>1. /\ setting' = setting /\ gen' = gen /\ status' = status /\ view' = view /\ child' = child
      /\ object' = object /\ childView' = childView /\ news' = news \ {o} /\ pass' = pass
      /\ objView' = [objView EXCEPT ![o] = object[o]] /\ queued' = (queued \/ o \in Services)
  BY DEF SyncObject
<1>2. /\ Specs' = Specs /\ Objs' = Objs /\ Services' = Services
      /\ Status' = Status /\ ChildMap' = ChildMap /\ Pass' = Pass
  BY <1>1, SettingKept, Zenon
<1>3. SetTyped /\ Watched /\ Resting /\ Working
  BY Zenon DEF QuietInv
<1>4. o \in AllNames /\ o \notin Agents
  <2>1. o \in AllNames
    BY <1>3, SettingFacts, Zenon DEF SetTyped, Names
  <2> QED
    BY <2>1, AgentSetAssumption, Zenon
<1>5. DOMAIN objView' = AllNames /\ objView'[o] = object[o] /\ \A x \in AllNames : x = o \/ objView'[x] = objView[x]
  BY <1>1, <1>3, <1>4, Zenon DEF SetTyped
<1>6. SetTyped'
  BY <1>1, <1>2, <1>3, <1>5, Zenon DEF SetTyped
<1>7. Watched'
  BY <1>1, <1>3, <1>4, <1>5, Zenon DEF Watched
<1>8. ASSUME ~queued' PROVE Resting' /\ Working'
  <2>1. ~queued /\ o \notin Services
    BY <1>1, <1>8, Zenon
  <2>2. Services \subseteq AllNames
    BY Zenon DEF Services, AllNames
  <2>3. (\A a \in Agents : ChildSeen(a) => ChildSeen(a)') /\ (\A x : ObjectSeen(x) => ObjectSeen(x)')
    BY <1>1, <1>2, <1>4, <1>5, <2>1, <2>2, Zenon DEF ChildSeen, ObjectSeen
  <2>4. Handled(pass.next)' = Handled(pass.next)
    BY <1>1, <1>2, Zenon DEF Handled
  <2>5. Resting'
    BY <1>1, <1>2, <1>3, <2>1, <2>3, Zenon DEF Resting
  <2>6. Working'
    BY <1>1, <1>2, <1>3, <2>1, <2>3, <2>4, Zenon DEF Working
  <2> QED
    BY <2>5, <2>6, Zenon
<1>9. CASE queued'
  BY <1>6, <1>7, <1>9, WhileQueued, Zenon
<1> QED
  BY <1>6, <1>7, <1>8, <1>9, Zenon DEF QuietInv

-----------------------------------------------------------------------------
(* The controller *)

\* A pass begins on the copies as they are; what it has not to do is there.
LEMMA BeginStep ==
  ASSUME QuietInv, NoneIsNoPass, Begin
  PROVE  QuietInv'
<1> DEFINE g == view.gen
           todo == {a \in Agents : IF a \in DOMAIN buildDesired(g)
                                   THEN childView[a] = None \/ needsUpdate(childView[a], buildDesired(g)[a])
                                   ELSE childView[a] # None}
           pc == IF Specs[g].valid THEN "apply" ELSE "failed"
           st == IF Specs[g].valid THEN Begun(g) ELSE Rejected(Begun(g))
<1>1. /\ setting' = setting /\ gen' = gen /\ status' = status /\ view' = view /\ child' = child
      /\ object' = object /\ childView' = childView /\ objView' = objView /\ news' = news
      /\ queued' = FALSE
      /\ pass' = [pc |-> pc, as |-> view, existing |-> childView, todo |-> todo, next |-> 1,
                  retry |-> FALSE, st |-> st]
  BY DEF Begin, cluster, caches
<1>2. /\ Specs' = Specs /\ Objs' = Objs /\ Services' = Services
      /\ Status' = Status /\ ChildMap' = ChildMap /\ Pass' = Pass
  BY <1>1, SettingKept, Zenon
<1>3. SetTyped /\ Watched
  BY Zenon DEF QuietInv
<1>4. g \in DOMAIN Specs /\ st \in Status
  <2>1. g \in DOMAIN Specs /\ view.status \in Status /\ setting \in Settings
    BY <1>3, Zenon DEF SetTyped
  <2>2. Begun(g) \in Status
    BY <2>1, StatusFacts, Zenon
  <2> QED
    BY <2>1, <2>2, StatusFacts, Zenon
<1>5. 1 \in 1 .. Len(Objs) + 1
  BY <1>3, SettingFacts DEF SetTyped
<1>6. ASSUME NEW a \in Agents, a \notin todo PROVE ChildSeen(a)
  BY <1>6, Zenon DEF ChildSeen, buildDesired, needsUpdate
<1> HIDE DEF st, g
<1>7. todo \in SUBSET Agents /\ pc \in {"apply", "recreate", "failed"} /\ pc # "recreate"
  BY Zenon
<1>8. pc = "failed" => ~Specs[g].valid
  BY Zenon
<1> HIDE DEF todo, pc
<1>9. /\ pass' \in Pass /\ pass'.pc = pc /\ pass'.as = view /\ pass'.existing = childView
      /\ pass'.todo = todo /\ pass'.next = 1
  BY <1>1, <1>3, <1>4, <1>5, <1>7, Zenon DEF Pass, SetTyped
<1>10. pass' # None
  BY <1>9, PassIsNotNone, Zenon
<1>11. SetTyped'
  BY <1>1, <1>2, <1>3, <1>7, <1>9, Zenon DEF SetTyped
<1>12. Watched'
  BY <1>1, <1>3, Zenon DEF Watched
<1>13. Resting'
  BY <1>10, Zenon DEF Resting
<1>14. Working'
  <2>1. \A a : ChildSeen(a)' <=> ChildSeen(a)
    BY <1>1, <1>2, Zenon DEF ChildSeen
  <2>2. Handled(pass.next)' = {}
    <3>1. \A j \in DOMAIN Objs : ~(j < 1)
      BY <1>3, SettingFacts DEF SetTyped
    <3> QED
      BY <1>2, <1>9, <3>1, Zenon DEF Handled
  <2> QED
    BY <1>1, <1>2, <1>6, <1>7, <1>8, <1>9, <2>1, <2>2, Zenon DEF Working, g
<1> QED
  BY <1>11, <1>12, <1>13, <1>14, Zenon DEF QuietInv

\* The list fails: the pass is tried again.
LEMMA ListFailsStep ==
  ASSUME QuietInv, NoneIsNoPass, ListFails
  PROVE  QuietInv'
<1>1. /\ setting' = setting /\ gen' = gen /\ status' = status /\ view' = view /\ child' = child
      /\ object' = object /\ childView' = childView /\ objView' = objView /\ news' = news
      /\ queued' = FALSE
      /\ pass' = [pc |-> "failed", as |-> view, existing |-> childView, todo |-> {}, next |-> 1,
                  retry |-> TRUE, st |-> Begun(view.gen)]
  BY DEF ListFails, cluster, caches
<1>2. /\ Specs' = Specs /\ Objs' = Objs /\ Status' = Status /\ ChildMap' = ChildMap /\ Pass' = Pass
  BY <1>1, SettingKept, Zenon
<1>3. SetTyped /\ Watched
  BY Zenon DEF QuietInv
<1>4. Begun(view.gen) \in Status /\ 1 \in 1 .. Len(Objs) + 1
  <2>1. view.gen \in DOMAIN Specs /\ view.status \in Status /\ setting \in Settings
    BY <1>3, Zenon DEF SetTyped
  <2>2. 1 \in 1 .. Len(Objs) + 1
    BY <2>1, SettingFacts
  <2> QED
    BY <2>1, <2>2, StatusFacts, Zenon
<1>5. /\ pass' \in Pass /\ pass'.pc = "failed" /\ pass'.as = view /\ pass'.existing = childView
      /\ pass'.retry
  BY <1>1, <1>3, <1>4, Zenon DEF Pass, SetTyped
<1>6. pass' # None
  BY <1>5, PassIsNotNone, Zenon
<1>7. SetTyped'
  BY <1>1, <1>2, <1>3, <1>5, Zenon DEF SetTyped
<1>8. Watched'
  BY <1>1, <1>3, Zenon DEF Watched
<1>9. Resting'
  BY <1>6, Zenon DEF Resting
<1>10. Working'
  BY <1>1, <1>5, Zenon DEF Working
<1> QED
  BY <1>7, <1>8, <1>9, <1>10, Zenon DEF QuietInv

\* A step of the pass: what it writes has an event on its way.
LEMMA PassStep ==
  ASSUME QuietInv, NoneIsNoPass, pass # None,
         setting' = setting, gen' = gen, status' = status, view' = view,
         childView' = childView, objView' = objView, queued' = queued,
         news \subseteq news', child' \in ChildMap, DOMAIN object' = AllNames,
         \A a \in Agents : a \in news' \/ child'[a] = child[a],
         \A o \in AllNames : o \in news' \/ object'[o] = object[o],
         pass' \in Pass, pass'.as = pass.as, pass'.existing = pass.existing,
         pass'.pc = "recreate" => pass'.next <= Len(Objs),
         pass'.pc = "failed" /\ ~queued => pass'.retry \/ ~Specs[view.gen].valid,
         pass'.pc # "failed" /\ ~queued =>
           /\ \A a \in Agents \ pass'.todo : a \in news' \/ ChildSeen(a)
           /\ \A o \in Handled(pass'.next) : o \in news' \/ ObjectSeen(o),
         pass'.pc = "recreate" /\ Objs[pass'.next] \in Services /\ ~queued => Objs[pass'.next] \in news'
  PROVE  QuietInv'
<1>1. /\ Specs' = Specs /\ Objs' = Objs /\ Services' = Services
      /\ Status' = Status /\ ChildMap' = ChildMap /\ Pass' = Pass
  BY SettingKept, Zenon
<1>2. SetTyped /\ Watched /\ Working
  BY Zenon DEF QuietInv
<1>3. SetTyped'
  BY <1>1, <1>2, Zenon DEF SetTyped
<1>4. Watched'
  BY <1>2, Zenon DEF Watched
<1>5. pass' # None
  BY PassIsNotNone, Zenon
<1>6. Resting'
  BY <1>5, Zenon DEF Resting
<1>7. /\ \A a : a \in news' \/ ChildSeen(a) => ChildSeen(a)'
      /\ \A o : o \in news' \/ ObjectSeen(o) => ObjectSeen(o)'
  BY <1>1, Zenon DEF ChildSeen, ObjectSeen
<1>8. Working'
  <2>1. Handled(pass.next)' = Handled(pass'.next)
    BY <1>1, Zenon DEF Handled
  <2>2. ~queued => pass.as.gen = view.gen /\ pass.existing = childView
    BY <1>2, Zenon DEF Working
  <2> QED
    BY <1>1, <1>7, <2>1, <2>2, Zenon DEF Working
<1> QED
  BY <1>3, <1>4, <1>6, <1>8, Zenon DEF QuietInv

\* A write fails, or any other call: the pass is tried again.
LEMMA FailsStep ==
  ASSUME QuietInv, NoneIsNoPass, pass # None, Fails,
         UNCHANGED <<setting, gen, status, view, childView, objView, queued, news, child, object>>
  PROVE  QuietInv'
<1>1. /\ setting' = setting /\ gen' = gen /\ status' = status /\ view' = view /\ child' = child
      /\ object' = object /\ childView' = childView /\ objView' = objView /\ news' = news
      /\ queued' = queued
  OBVIOUS
<1>2. SetTyped /\ child \in ChildMap /\ DOMAIN object = AllNames
  BY Zenon DEF QuietInv, SetTyped
<1>3. pass' \in Pass
  BY <1>2, PassGoesOn, Zenon DEF Fails
<1>4. pass \in Pass
  BY <1>2, Zenon DEF SetTyped
<1>5. pass'.as = pass.as /\ pass'.existing = pass.existing /\ pass'.pc = "failed" /\ pass'.retry
  BY <1>4, Zenon DEF Fails, Pass
<1> QED
  BY <1>1, <1>2, <1>3, <1>5, PassStep, Zenon

\* A child is created, updated or deleted: one that exists already, or has
\* changed, has an event on its way.
LEMMA ApplyStep ==
  ASSUME QuietInv, NoneIsNoPass, NEW a \in Agents, applyDesiredState(a)
  PROVE  QuietInv'
<1> DEFINE desired == buildDesired(pass.as.gen)
           existing == pass.existing[a]
           Wrote(c) == child' = [child EXCEPT ![a] = c] /\ news' = news \cup {a}
           Done == pass' = [pass EXCEPT !.todo = @ \ {a}]
<1>1. /\ setting' = setting /\ gen' = gen /\ status' = status /\ view' = view
      /\ object' = object /\ childView' = childView /\ objView' = objView /\ queued' = queued
      /\ pass # None /\ pass.pc = "apply" /\ a \in pass.todo
  BY DEF applyDesiredState, caches
<1>2. \/ Wrote([hash |-> desired[a], phase |-> "Unknown"]) /\ Done /\ a \in DOMAIN desired
      \/ existing = None /\ child[a] # None /\ Done /\ child' = child /\ news' = news
      \/ a \in DOMAIN desired /\ existing # None /\ Wrote([existing EXCEPT !.hash = desired[a]]) /\ Done
      \/ Fails /\ child' = child /\ news' = news
      \/ Wrote(None) /\ Done
  BY DEF applyDesiredState
<1>3. SetTyped /\ Watched /\ Working /\ child \in ChildMap /\ DOMAIN object = AllNames
  BY Zenon DEF QuietInv, SetTyped
<1>4. /\ pass \in Pass /\ pass.as.gen \in DOMAIN Specs /\ pass.existing \in ChildMap
      /\ pass.todo \in SUBSET Agents
  BY <1>1, <1>3, PassFacts, Zenon
<1>5. CASE Fails /\ child' = child /\ news' = news
  BY <1>1, <1>5, FailsStep, Zenon
<1>6. ASSUME Done, child' \in ChildMap, \A x \in Agents : x = a \/ child'[x] = child[x],
             news' = news \cup {a}
      PROVE  QuietInv'
  <2>1. pass' \in Pass
    <3>1. pass.todo \ {a} \in SUBSET Agents
      BY <1>4, Zenon
    <3> QED
      BY <1>1, <1>3, <1>6, <3>1, PassGoesOn, Zenon
  <2>2. /\ pass'.as = pass.as /\ pass'.existing = pass.existing /\ pass'.pc = "apply"
        /\ pass'.todo = pass.todo \ {a} /\ pass'.next = pass.next
    BY <1>1, <1>4, <1>6, Zenon DEF Pass
  <2>3. ~queued => /\ \A x \in Agents \ pass.todo : ChildSeen(x)
                   /\ \A o \in Handled(pass.next) : ObjectSeen(o)
    BY <1>1, <1>3, Zenon DEF Working
  <2>4. "apply" # "failed" /\ "apply" # "recreate"
    OBVIOUS
  <2> QED
    BY <1>1, <1>3, <1>6, <2>1, <2>2, <2>3, <2>4, PassStep, Zenon
<1>7. ASSUME existing = None, child[a] # None, Done, child' = child, news' = news
      PROVE  QuietInv'
  <2>1. CASE queued
    <3>1. pass' \in Pass
      <4>1. pass.todo \ {a} \in SUBSET Agents
        BY <1>4, Zenon
      <4> QED
        BY <1>1, <1>3, <1>7, <4>1, PassGoesOn, Zenon
    <3>2. pass'.as = pass.as /\ pass'.existing = pass.existing /\ pass'.pc = "apply"
      BY <1>1, <1>4, <1>7, Zenon DEF Pass
    <3>3. "apply" # "failed" /\ "apply" # "recreate"
      OBVIOUS
    <3> QED
      BY <1>1, <1>3, <1>7, <2>1, <3>1, <3>2, <3>3, PassStep, Zenon
  <2>2. CASE ~queued
    <3>1. childView[a] = None
      BY <1>1, <1>3, <1>7, <2>2, Zenon DEF Working
    <3>2. a \in news
      BY <1>3, <1>7, <3>1, Zenon DEF Watched
    <3>3. news' = news \cup {a}
      BY <1>7, <3>2, Zenon
    <3> QED
      BY <1>3, <1>6, <1>7, <3>3, Zenon
  <2> QED
    BY <2>1, <2>2, Zenon
<1>8. ASSUME NEW c \in Child \cup {None}, Wrote(c), Done PROVE QuietInv'
  <2>1. child' \in ChildMap /\ \A x \in Agents : x = a \/ child'[x] = child[x]
    BY <1>3, <1>8, Zenon DEF ChildMap
  <2> QED
    BY <1>6, <1>8, <2>1, Zenon
<1>9. ASSUME a \in DOMAIN desired PROVE desired[a] \in {s.hash : s \in {Specs[g] : g \in DOMAIN Specs}}
  BY <1>4, <1>9, Zenon DEF buildDesired
<1>10. ASSUME a \in DOMAIN desired
       PROVE  /\ [hash |-> desired[a], phase |-> "Unknown"] \in Child
              /\ existing # None => [existing EXCEPT !.hash = desired[a]] \in Child
  <2>1. existing # None => existing \in Child
    BY <1>4, Zenon DEF ChildMap
  <2>2. "Unknown" \in Phases
    BY DEF Phases
  <2> HIDE DEF desired, existing
  <2> QED
    BY <1>9, <1>10, <2>1, <2>2, Zenon DEF Child
<1> HIDE DEF desired, existing, Wrote, Done
<1> QED
  BY <1>2, <1>5, <1>7, <1>8, <1>10, Zenon

\* A call fails.
LEMMA APIErrorStep ==
  ASSUME QuietInv, NoneIsNoPass, APIError
  PROVE  QuietInv'
<1>1. /\ pass # None /\ Fails
      /\ UNCHANGED <<setting, gen, status, view, childView, objView, queued, news, child, object>>
  BY DEF APIError, cluster, caches
<1> QED
  BY <1>1, FailsStep, Zenon

\* One object after the other.
LEMMA HandledNext ==
  ASSUME setting \in Settings, NEW n \in 1 .. Len(Objs)
  PROVE  \A o \in Handled(n + 1) : o \in Handled(n) \/ o = Objs[n]
<1>1. \A j \in DOMAIN Objs : j < n + 1 => j < n \/ j = n
  BY SettingFacts
<1> QED
  BY <1>1, Zenon DEF Handled

\* The pass goes on to the next object: this one matches, or an event of it is
\* on its way.
LEMMA NextObject ==
  ASSUME QuietInv, NoneIsNoPass, pass # None, pass.pc # "failed", pass.next <= Len(Objs),
         setting' = setting, gen' = gen, status' = status, view' = view, child' = child,
         childView' = childView, objView' = objView, queued' = queued,
         pass' = [pass EXCEPT !.pc = "apply", !.next = @ + 1],
         news \subseteq news', DOMAIN object' = AllNames,
         \A o \in AllNames : o \in news' \/ object'[o] = object[o],
         Objs[pass.next] \in news' \/ ObjectSeen(Objs[pass.next])
  PROVE  QuietInv'
<1>1. SetTyped /\ Working /\ child \in ChildMap /\ setting \in Settings
  BY Zenon DEF QuietInv, SetTyped
<1>2. pass \in Pass /\ pass.next \in 1 .. Len(Objs) + 1 /\ pass' \in Pass
  BY <1>1, PassFacts, PassGoesOn, Zenon
<1>3. /\ pass'.as = pass.as /\ pass'.existing = pass.existing /\ pass'.pc = "apply"
      /\ pass'.todo = pass.todo /\ pass'.next = pass.next + 1
  BY <1>2, Zenon DEF Pass
<1>4. \A o \in Handled(pass'.next) : o \in Handled(pass.next) \/ o = Objs[pass.next]
  <2>1. pass.next \in 1 .. Len(Objs)
    BY <1>1, <1>2, SettingFacts
  <2> QED
    BY <1>1, <1>3, <2>1, HandledNext, Zenon
<1>5. ~queued => /\ \A x \in Agents \ pass.todo : ChildSeen(x)
                 /\ \A o \in Handled(pass.next) : ObjectSeen(o)
  BY <1>1, Zenon DEF Working
<1>6. "apply" # "failed" /\ "apply" # "recreate"
  OBVIOUS
<1> QED
  BY <1>1, <1>2, <1>3, <1>4, <1>5, <1>6, PassStep, Zenon

\* Creating an object: it is there, with an event on its way, or was there.
LEMMA Created ==
  ASSUME QuietInv, NEW o \in AllNames, Create(o)
  PROVE  /\ news \subseteq news' /\ DOMAIN object' = AllNames
         /\ \A x \in AllNames : x \in news' \/ object'[x] = object[x]
         /\ o \in news' \/ object[o] # None
<1>1. \/ object[o] # None /\ object' = object /\ news' = news
      \/ object' = [object EXCEPT ![o] = HashOf(o, pass.as.gen)] /\ news' = news \cup {o}
  BY DEF Create
<1>2. DOMAIN object = AllNames
  BY Zenon DEF QuietInv, SetTyped
<1> QED
  BY <1>1, <1>2, Zenon

\* An object that the cache lacks is created, one that matches is kept, and one
\* that does not is deleted.
LEMMA EnsureStep ==
  ASSUME QuietInv, NoneIsNoPass, NEW o, Ensure(o)
  PROVE  QuietInv'
<1>1. /\ setting' = setting /\ gen' = gen /\ status' = status /\ view' = view /\ child' = child
      /\ childView' = childView /\ objView' = objView /\ queued' = queued
      /\ pass # None /\ pass.pc = "apply" /\ pass.next <= Len(Objs) /\ o = Objs[pass.next]
  BY DEF Ensure, Pending, caches
<1>2. SetTyped /\ Watched /\ Working /\ child \in ChildMap /\ DOMAIN object = AllNames /\ setting \in Settings
  BY Zenon DEF QuietInv, SetTyped
<1>3. pass \in Pass /\ pass.next \in 1 .. Len(Objs) + 1
  BY <1>1, <1>2, PassFacts, Zenon
<1>4. pass.next \in DOMAIN Objs /\ o \in AllNames
  BY <1>1, <1>2, <1>3, SettingFacts
<1>5. [pass EXCEPT !.next = @ + 1] = [pass EXCEPT !.pc = "apply", !.next = @ + 1]
  BY <1>1, <1>3, Zenon DEF Pass
<1>6. o \in Services => HashOf(o, pass.as.gen) = "fixed"
  BY Zenon DEF Services, HashOf
<1>7. pass.pc # "failed"
  BY <1>1
<1>8. CASE objView[o] = None /\ Create(o) /\ pass' = [pass EXCEPT !.next = @ + 1]
  <2>1. o \in news' \/ ObjectSeen(o)
    BY <1>2, <1>4, <1>8, Created, Zenon DEF Watched
  <2> QED
    BY <1>1, <1>2, <1>4, <1>5, <1>7, <1>8, <2>1, Created, NextObject, Zenon
<1>9. CASE /\ objView[o] = HashOf(o, pass.as.gen) /\ object' = object /\ news' = news
           /\ pass' = [pass EXCEPT !.next = @ + 1]
  <2>1. ObjectSeen(o)
    BY <1>6, <1>9, Zenon DEF ObjectSeen
  <2> QED
    BY <1>1, <1>2, <1>5, <1>7, <1>9, <2>1, NextObject, Zenon
<1>10. CASE /\ objView[o] # None /\ object' = [object EXCEPT ![o] = None]
            /\ news' = IF object[o] = None THEN news ELSE news \cup {o}
            /\ pass' = [pass EXCEPT !.pc = "recreate"]
  <2>1. o \in news' /\ news \subseteq news'
    BY <1>2, <1>4, <1>10, Zenon DEF Watched
  <2>2. DOMAIN object' = AllNames /\ \A x \in AllNames : x \in news' \/ object'[x] = object[x]
    BY <1>2, <1>10, <2>1, Zenon
  <2>3. pass' \in Pass
    BY <1>1, <1>2, <1>10, PassGoesOn, Zenon
  <2>4. /\ pass'.as = pass.as /\ pass'.existing = pass.existing /\ pass'.pc = "recreate"
        /\ pass'.todo = pass.todo /\ pass'.next = pass.next
    BY <1>3, <1>10, Zenon DEF Pass
  <2>5. ~queued => /\ \A x \in Agents \ pass.todo : ChildSeen(x)
                   /\ \A x \in Handled(pass.next) : ObjectSeen(x)
    BY <1>1, <1>2, <1>7, Zenon DEF Working
  <2>6. "recreate" # "failed"
    OBVIOUS
  <2> QED
    BY <1>1, <1>2, <2>1, <2>2, <2>3, <2>4, <2>5, <2>6, PassStep, Zenon
<1> QED
  BY <1>8, <1>9, <1>10, Zenon DEF Ensure

\* What was deleted is created anew.
LEMMA RecreateStep ==
  ASSUME QuietInv, NoneIsNoPass, Recreate
  PROVE  QuietInv'
<1> DEFINE o == Objs[pass.next]
<1>1. /\ setting' = setting /\ gen' = gen /\ status' = status /\ view' = view /\ child' = child
      /\ childView' = childView /\ objView' = objView /\ queued' = queued
      /\ pass # None /\ pass.pc = "recreate" /\ Create(o)
      /\ pass' = [pass EXCEPT !.pc = "apply", !.next = @ + 1]
  BY DEF Recreate, caches
<1>2. SetTyped /\ Working /\ child \in ChildMap /\ setting \in Settings
  BY Zenon DEF QuietInv, SetTyped
<1>3. pass \in Pass /\ pass.next \in 1 .. Len(Objs) + 1 /\ pass.next <= Len(Objs)
  BY <1>1, <1>2, PassFacts, Zenon DEF SetTyped
<1>4. o \in AllNames
  BY <1>2, <1>3, SettingFacts
<1>5. /\ news \subseteq news' /\ DOMAIN object' = AllNames
      /\ \A x \in AllNames : x \in news' \/ object'[x] = object[x]
  BY <1>1, <1>4, Created, Zenon
<1>6. pass.pc # "failed"
  BY <1>1
<1>7. CASE queued
  <2>1. pass' \in Pass
    BY <1>1, <1>2, <1>3, PassGoesOn, Zenon
  <2>2. pass'.as = pass.as /\ pass'.existing = pass.existing /\ pass'.pc = "apply"
    BY <1>1, <1>3, Zenon DEF Pass
  <2>3. "apply" # "failed" /\ "apply" # "recreate"
    OBVIOUS
  <2> QED
    BY <1>1, <1>2, <1>5, <1>7, <2>1, <2>2, <2>3, PassStep, Zenon
<1>8. CASE ~queued
  <2>1. o \in news' \/ ObjectSeen(o)
    BY <1>1, <1>2, <1>5, <1>8, Zenon DEF Working, ObjectSeen
  <2> QED
    BY <1>1, <1>3, <1>5, <1>6, <2>1, NextObject, Zenon
<1> QED
  BY <1>7, <1>8, Zenon

\* The pass is over: it has dealt with everything, or is tried again.
LEMMA PersistStep ==
  ASSUME QuietInv, persist \/ PersistFails
  PROVE  QuietInv'
<1>1. /\ setting' = setting /\ gen' = gen /\ view' = view /\ child' = child
      /\ object' = object /\ childView' = childView /\ objView' = objView /\ news' = news
      /\ pass' = None /\ Finished /\ pass # None
      /\ \/ queued' = (queued \/ pass.retry)
         \/ queued' = TRUE
      /\ \/ status' = status
         \/ \E r \in BOOLEAN : status' = Merged(pass.as.status, Outcome, status, r)
  BY DEF persist, PersistFails, Finished, cluster, caches
<1>2. /\ Specs' = Specs /\ Objs' = Objs /\ Services' = Services
      /\ Status' = Status /\ ChildMap' = ChildMap /\ Pass' = Pass
  BY <1>1, SettingKept, Zenon
<1>3. SetTyped /\ Watched /\ Working /\ queued \in BOOLEAN /\ setting \in Settings
  BY Zenon DEF QuietInv, SetTyped
<1>4. pass \in Pass /\ pass.as.status \in Status /\ pass.retry \in BOOLEAN /\ pass.next \in 1 .. Len(Objs) + 1
  BY <1>1, <1>3, PassFacts, Zenon
<1>5. status' \in Status
  <2>1. Outcome \in Status /\ status \in Status
    BY <1>3, <1>4, StatusFacts, Zenon DEF SetTyped
  <2> QED
    BY <1>1, <1>4, <2>1, MergedStatus, Zenon
<1>6. SetTyped'
  BY <1>1, <1>2, <1>3, <1>4, <1>5, Zenon DEF SetTyped
<1>7. Watched'
  BY <1>1, <1>3, Zenon DEF Watched
<1>8. ASSUME ~queued', Specs[view.gen].valid
      PROVE  (\A a \in Agents : ChildSeen(a)) /\ (\A o \in Services : ObjectSeen(o))
  <2>1. ~queued /\ ~pass.retry
    BY <1>1, <1>8, Zenon
  <2>2. pass.pc # "failed"
    BY <1>1, <1>3, <1>8, <2>1, Zenon DEF Working
  <2>3. pass.todo = {} /\ pass.next > Len(Objs)
    BY <1>1, <2>2, Zenon DEF Finished
  <2>4. \A i \in DOMAIN Objs : i < pass.next
    BY <1>3, <1>4, <2>3, SettingFacts
  <2>5. Services \subseteq Handled(pass.next)
    BY <2>4, Zenon DEF Services, Names, Handled
  <2> QED
    BY <1>1, <1>3, <2>1, <2>2, <2>3, <2>5, Zenon DEF Working
<1>9. Resting'
  <2>1. (\A a : ChildSeen(a)' <=> ChildSeen(a)) /\ (\A o : ObjectSeen(o)' <=> ObjectSeen(o))
    BY <1>1, <1>2, Zenon DEF ChildSeen, ObjectSeen
  <2> QED
    BY <1>1, <1>2, <1>8, <2>1, Zenon DEF Resting
<1>10. Working'
  BY <1>1, Zenon DEF Working
<1> QED
  BY <1>6, <1>7, <1>9, <1>10, Zenon DEF QuietInv

\* A restart makes the copies anew and queues the AgentSet.
LEMMA RestartStep ==
  ASSUME QuietInv, Restart
  PROVE  QuietInv'
<1>1. /\ setting' = setting /\ gen' = gen /\ status' = status /\ child' = child
      /\ object' = object /\ childView' = child /\ objView' = object
      /\ view' = [gen |-> gen, status |-> status] /\ pass' = None /\ queued' = TRUE
  BY DEF Restart
<1>2. Specs' = Specs /\ Status' = Status /\ ChildMap' = ChildMap
  BY <1>1, SettingKept, Zenon
<1>3. SetTyped
  BY Zenon DEF QuietInv
<1>4. SetTyped'
  BY <1>1, <1>2, <1>3, Zenon DEF SetTyped
<1>5. Watched'
  BY <1>1, Zenon DEF Watched
<1> QED
  BY <1>1, <1>4, <1>5, WhileQueued, Zenon

-----------------------------------------------------------------------------
\* Every step keeps the invariant.
LEMMA QuietStep ==
  ASSUME QuietInv, NoneIsNoPass, [Next]_vars
  PROVE  QuietInv'
<1>1. CASE \/ EditSpec \/ PodStarts \/ (\E i \in daemonPods : PodCollected(i)) \/ UNCHANGED vars
           \/ (\E a \in Agents : ChildRuns(a) \/ ChildTroubled(a))
           \/ \E o \in Services : ServiceDeleted(o)
  BY <1>1, WorldStep, Zenon
<1>2. CASE SyncSelf
  BY <1>2, SyncSelfStep, Zenon
<1>3. CASE \E a \in Agents : SyncChild(a)
  BY <1>3, SyncChildStep, Zenon
<1>4. CASE \E o \in Names : SyncObject(o)
  BY <1>4, SyncObjectStep, Zenon
<1>5. CASE Begin
  BY <1>5, BeginStep, Zenon
<1>6. CASE \E a \in Agents : applyDesiredState(a)
  BY <1>6, ApplyStep, Zenon
<1>7. CASE reconcileEntryService \/ reconcileDaemonDeployment \/ reconcileDaemonService
  BY <1>7, EnsureStep, Zenon DEF reconcileEntryService, reconcileDaemonDeployment, reconcileDaemonService
<1>8. CASE Recreate
  BY <1>8, RecreateStep, Zenon
<1>9. CASE persist \/ PersistFails
  BY <1>9, PersistStep, Zenon
<1>10. CASE APIError
  BY <1>10, APIErrorStep, Zenon
<1>11. CASE Restart
  BY <1>11, RestartStep, Zenon
<1>12. CASE ListFails
  BY <1>12, ListFailsStep, Zenon
<1> QED
  BY <1>1, <1>2, <1>3, <1>4, <1>5, <1>6, <1>7, <1>8, <1>9, <1>10, <1>11, <1>12, Zenon
     DEF Next, Controller

\* A new AgentSet is queued.
LEMMA QuietStart ==
  ASSUME Init
  PROVE  QuietInv
<1>1. setting \in Settings /\ gen = 1 /\ queued = TRUE /\ pass = None /\ childView = child /\ objView = object
  BY Zenon DEF Init
<1>2. 1 \in DOMAIN Specs /\ 0 \in 0 .. Len(Specs) /\ 0 \in 0 .. Cardinality(Agents)
  <2>1. Cardinality(Agents) \in Nat
    BY AgentSetAssumption, FS_CardinalityType, Zenon
  <2> QED
    BY <1>1, <2>1, SettingFacts
<1>3. status \in Status
  <2>1. status = [phase |-> "Unknown", observed |-> 0, count |-> 0, configured |-> "Unknown",
                  deployed |-> "Unknown", healthy |-> "Unknown"]
    BY Zenon DEF Init
  <2> QED
    BY <1>2, <2>1 DEF Status, Phases, Tri
<1>4. child \in ChildMap /\ DOMAIN object = AllNames /\ view = [gen |-> gen, status |-> status]
  BY Zenon DEF Init, ChildMap
<1>5. SetTyped
  BY <1>1, <1>2, <1>3, <1>4, Zenon DEF SetTyped
<1>6. Watched
  BY <1>1, Zenon DEF Watched
<1> QED
  BY <1>1, <1>5, <1>6, Zenon DEF QuietInv, Resting, Working

\* What the invariant says once every event is delivered.
LEMMA QuietMeans ==
  ASSUME QuietInv
  PROVE  QuietDone
<1>1. SetTyped /\ Watched /\ Resting
  BY Zenon DEF QuietInv
<1>2. TypeOK
  <2>1. pass # None => /\ pass.pc \in {"apply", "recreate", "failed"}
                       /\ pass.todo \subseteq Agents /\ pass.next \in 1 .. Len(Objs) + 1
                       /\ pass.st \in Status
    BY <1>1, PassFacts, Zenon
  <2> QED
    BY <1>1, <2>1, Zenon DEF TypeOK, SetTyped, ChildMap
<1>3. QuietMeansDone
  <2> SUFFICES ASSUME ~queued, pass = None, news = {}, view.gen = gen, Specs[gen].valid
               PROVE  (\A o \in Services : object[o] = "fixed") /\ Deployed(gen)
    BY Zenon DEF QuietMeansDone
  <2>1. (\A a \in Agents : ChildSeen(a)) /\ (\A o \in Services : ObjectSeen(o))
    BY <1>1, Zenon DEF Resting
  <2>2. (\A a \in Agents : childView[a] = child[a]) /\ (\A o \in AllNames : objView[o] = object[o])
    BY <1>1, Zenon DEF Watched
  <2>3. Services \subseteq AllNames /\ gen \in DOMAIN Specs
    BY <1>1, Zenon DEF Services, AllNames, SetTyped
  <2> QED
    BY <2>1, <2>2, <2>3, Zenon DEF ChildSeen, ObjectSeen, Deployed
<1> QED
  BY <1>2, <1>3, Zenon DEF QuietDone

(***************************************************************************)
(* No wakeup of the AgentSet controller is lost (QuietDone).  For every    *)
(* set of agents, every sequence of specs, valid or not, any number of     *)
(* conflicts, API errors, restarts and Services deleted by hand, and       *)
(* however the caches lag: when nothing is queued and no event is left to  *)
(* deliver, the children and the Services are as the spec wants them.      *)
(***************************************************************************)
THEOREM AgentSetQuiet ==
  ASSUME NoneIsNoPass
  PROVE  Spec => []QuietDone
<1>1. Init => QuietInv
  BY QuietStart, Zenon
<1>2. QuietInv /\ [Next]_vars => QuietInv'
  BY QuietStep, Zenon
<1>3. QuietInv => QuietDone
  BY QuietMeans, Zenon
<1> QED
  BY <1>1, <1>2, <1>3, PTL DEF Spec
=============================================================================
