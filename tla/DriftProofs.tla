----------------------------- MODULE DriftProofs -----------------------------
(***************************************************************************)
(* The daemon's cache of reported hashes charges no pod with the report of *)
(* another, for every number of peers, slots, pods and faults.             *)
(***************************************************************************)
EXTENDS DriftReload, TLAPS

\* TypeOK element by element, and that a host is named after the slot of its pod.
PodsTyped == DOMAIN pods \subseteq Ids /\ \A i \in DOMAIN pods : pods[i] \in Pod
CacheTyped ==
  /\ DOMAIN byPod \subseteq Ids /\ \A i \in DOMAIN byPod : byPod[i] \in Held
  /\ DOMAIN hostToPod \subseteq Slots
  /\ \A h \in DOMAIN hostToPod : hostToPod[h] \in DOMAIN byPod /\ hostToPod[h][1] = h
  /\ \A i \in DOMAIN byPod : i[1] \in DOMAIN hostToPod /\ hostToPod[i[1]] = i
ClusterTyped ==
  /\ cards \in [Peers -> (SUBSET Cards) \ {{}}]
  /\ desired \in 1 .. MaxReplicas
  /\ oldHash \subseteq Slots /\ updating \in BOOLEAN
GatesTyped == gates \in [Peers -> gatedHash]
PassTyped == hosts \subseteq Slots /\ toDelete \subseteq Ids /\ faults \in Nat

Inv == PodsTyped /\ CacheTyped /\ ClusterTyped /\ GatesTyped /\ PassTyped /\ ReportsOwnCard

\* The invariant says what CacheSound says.
LEMMA InvSound == Inv => CacheSound
<1> SUFFICES ASSUME Inv PROVE CacheSound
  BY Zenon
<1>1. Range(pods) \subseteq Pod /\ Range(byPod) \subseteq Held /\ Range(hostToPod) \subseteq Ids
  BY Zenon DEF Inv, PodsTyped, CacheTyped, Range
<1>2. CacheMatchesHosts
  BY Zenon DEF Inv, CacheTyped, CacheMatchesHosts, Range
<1> QED
  BY <1>1, <1>2, Zenon DEF Inv, PodsTyped, CacheTyped, ClusterTyped, GatesTyped, PassTyped, TypeOK, CacheSound

\* A gate stays a gate (observe).
LEMMA Observed ==
  ASSUME NEW g \in gatedHash, NEW hash \in Cards
  PROVE  observe(g, hash) \in gatedHash
<1> DEFINE count == IF hash = g.pending THEN g.pendingCount + 1 ELSE 1
<1>1. /\ g.accepted \in Cards \cup {None} /\ g.pending \in Cards \cup {None}
      /\ g.pendingCount \in 0 .. StabilityWindow - 1 /\ StabilityWindow \in Nat \ {0}
  BY GateAssumption, Zenon DEF gatedHash
<1>2. count \in Nat
  BY <1>1
<1>3. \A a \in Cards \cup {None} : [noGate EXCEPT !.accepted = a] \in gatedHash
  BY <1>1 DEF noGate, gatedHash
<1>4. ASSUME ~(count >= StabilityWindow)
      PROVE  [g EXCEPT !.pending = hash, !.pendingCount = count] \in gatedHash
  <2>1. count \in 0 .. StabilityWindow - 1
    BY <1>1, <1>2, <1>4
  <2> HIDE DEF count
  <2> QED
    BY <2>1, Zenon DEF gatedHash
<1>5. observe(g, hash) = IF hash = g.accepted THEN [noGate EXCEPT !.accepted = g.accepted]
                         ELSE IF count >= StabilityWindow THEN [noGate EXCEPT !.accepted = hash]
                         ELSE [g EXCEPT !.pending = hash, !.pendingCount = count]
  BY Zenon DEF observe
<1> HIDE DEF count
<1> QED
  BY <1>1, <1>3, <1>4, <1>5, Zenon

\* Scraping a host keeps the two indexes in step (set).
LEMMA SetKeeps ==
  ASSUME CacheTyped, NEW host \in Slots, NEW pod \in Ids, NEW hashes \in Held,
         pod[1] = host, set(host, pod, hashes)
  PROVE  /\ CacheTyped'
         /\ \A i \in DOMAIN byPod' :
              IF i = pod THEN byPod'[i] = hashes
              ELSE i \in DOMAIN byPod /\ byPod'[i] = byPod[i]
<1> DEFINE prev == {hostToPod[h] : h \in {host} \cap DOMAIN hostToPod} \ {pod}
<1>1. /\ byPod' = Put(Without(byPod, prev), pod, hashes)
      /\ hostToPod' = Put(hostToPod, host, pod)
  BY Zenon DEF set
<1>2. /\ DOMAIN byPod' = (DOMAIN byPod \ prev) \cup {pod} /\ byPod'[pod] = hashes
      /\ \A i \in DOMAIN byPod \ prev : i # pod => byPod'[i] = byPod[i]
  <2>1. /\ DOMAIN Without(byPod, prev) = DOMAIN byPod \ prev
        /\ \A y \in DOMAIN byPod \ prev : Without(byPod, prev)[y] = byPod[y]
    BY Zenon DEF Without, Restrict
  <2> HIDE DEF prev
  <2> QED
    BY <1>1, <2>1, Zenon DEF Put
<1>3. /\ DOMAIN hostToPod' = DOMAIN hostToPod \cup {host} /\ hostToPod'[host] = pod
      /\ \A h \in DOMAIN hostToPod : h # host => hostToPod'[h] = hostToPod[h]
  BY <1>1, Zenon DEF Put
<1>4. \A i \in DOMAIN byPod \ prev : i[1] = host => i = pod
  BY Zenon DEF CacheTyped
<1>5. \A h \in DOMAIN hostToPod : h # host => hostToPod[h] \notin prev
  BY DEF CacheTyped
<1> HIDE DEF prev
<1>6. CacheTyped'
  BY <1>2, <1>3, <1>4, <1>5, Zenon DEF CacheTyped
<1> QED
  BY <1>2, <1>6, Zenon

\* Dropping dead hosts keeps them in step (prune).
LEMMA PruneKeeps ==
  ASSUME CacheTyped, NEW liveHosts, prune(liveHosts)
  PROVE  /\ CacheTyped'
         /\ \A i \in DOMAIN byPod' : i \in DOMAIN byPod /\ byPod'[i] = byPod[i]
<1> DEFINE dead == DOMAIN hostToPod \ liveHosts
           gone == {hostToPod[h] : h \in dead}
<1>1. byPod' = Without(byPod, gone) /\ hostToPod' = Without(hostToPod, dead)
  BY Zenon DEF prune
<1>2. \A i \in DOMAIN byPod : i \in gone <=> i[1] \in dead
  BY Zenon DEF CacheTyped
<1> HIDE DEF gone, dead
<1>3. /\ DOMAIN byPod' = DOMAIN byPod \ gone /\ DOMAIN hostToPod' = DOMAIN hostToPod \ dead
      /\ \A i \in DOMAIN byPod' : byPod'[i] = byPod[i]
      /\ \A h \in DOMAIN hostToPod' : hostToPod'[h] = hostToPod[h]
  BY <1>1, Zenon DEF Without, Restrict
<1> QED
  BY <1>2, <1>3 DEF CacheTyped

\* Reports stay true when live pods keep what they hold, or come to hold a first card.
LEMMA OwnCardKept ==
  ASSUME ReportsOwnCard, faults' = 0 => faults = 0, UNCHANGED byPod,
         \A i \in Live' \cap DOMAIN byPod :
           i \in Live /\ \A p \in Peers : \/ pods'[i].held[p] = pods[i].held[p]
                                           \/ pods[i].held[p] = None
  PROVE  ReportsOwnCard'
BY DEF ReportsOwnCard

\* A deleted pod vanishes or is seen terminating (Terminated).
LEMMA TerminatedKeeps ==
  ASSUME PodsTyped, NEW i \in DOMAIN pods, Terminated(i)
  PROVE  /\ PodsTyped'
         /\ \A j \in Live' : j \in Live /\ pods'[j].held = pods[j].held
<1>1. CASE Lingering
  <2>1. pods' = [pods EXCEPT ![i] = [@ EXCEPT !.phase = "terminating"]]
    BY <1>1, Zenon DEF Terminated
  <2>2. pods[i] \in Pod
    BY Zenon DEF PodsTyped
  <2>3. /\ [pods[i] EXCEPT !.phase = "terminating"] \in Pod
        /\ [pods[i] EXCEPT !.phase = "terminating"].phase = "terminating"
    BY <2>2, Zenon DEF Pod
  <2>4. /\ DOMAIN pods' = DOMAIN pods /\ pods'[i] \in Pod /\ pods'[i].phase = "terminating"
        /\ \A j \in DOMAIN pods : j # i => pods'[j] = pods[j]
    BY <2>1, <2>3, Zenon
  <2> QED
    BY <2>4, Zenon DEF PodsTyped, Live
<1>2. CASE ~Lingering
  <2>1. /\ DOMAIN pods' = DOMAIN pods \ {i}
        /\ \A j \in DOMAIN pods' : pods'[j] = pods[j]
    BY <1>2, Zenon DEF Terminated, Without, Restrict
  <2> QED
    BY <2>1, Zenon DEF PodsTyped, Live
<1> QED
  BY <1>1, <1>2, Zenon

\* What remains when only pods change, and each as OwnCardKept asks.
LEMMA OnlyPods ==
  ASSUME Inv, PodsTyped', ClusterTyped', UNCHANGED <<daemon, toDelete>>,
         faults' \in Nat, faults' = 0 => faults = 0,
         faults' = 0 => \A i \in Live' \cap DOMAIN byPod :
           i \in Live /\ \A p \in Peers : \/ pods'[i].held[p] = pods[i].held[p]
                                           \/ pods[i].held[p] = None
  PROVE  Inv'
<1>1. UNCHANGED <<gates, byPod, hostToPod, hosts, toDelete>>
  BY Zenon DEF daemon
<1>2. CacheTyped' /\ GatesTyped' /\ PassTyped'
  BY <1>1, Zenon DEF Inv, CacheTyped, GatesTyped, PassTyped
<1>3. ReportsOwnCard'
  <2>1. CASE faults' = 0
    BY <1>1, <2>1, OwnCardKept, Zenon DEF Inv
  <2>2. CASE faults' # 0
    BY <2>2, Zenon DEF ReportsOwnCard
  <2> QED
    BY <2>1, <2>2, Zenon
<1> QED
  BY <1>2, <1>3, Zenon DEF Inv

\* The peers, the AgentDeploy's controller and its pods keep the invariant.
LEMMA ClusterStep ==
  ASSUME Inv,
         \/ \E p \in Peers, c \in Cards : PeerRollsOut(p, c) \/ PeerSettles(p, c)
         \/ \E n \in 1 .. MaxReplicas : Rescale(n)
         \/ StartRollout \/ PersistStatus
         \/ \E s \in Slots : Refill(s)
         \/ \E i \in Ids : ControllerDeletes(i) \/ BecomeReady(i) \/ Gone(i) \/ ContainerRestarts(i)
         \/ \E i \in Ids, p \in Peers : Resolve(i, p)
  PROVE  Inv'
<1> USE DriftAssumption
<1>1. /\ PodsTyped /\ ClusterTyped /\ faults \in Nat
      /\ \A i \in DOMAIN pods : pods[i] \in Pod /\ i \in Ids
  BY Zenon DEF Inv, PassTyped, PodsTyped
<1>2. ASSUME UNCHANGED pods
      PROVE  PodsTyped' /\ Live' = Live
  BY <1>1, <1>2, Zenon DEF PodsTyped, Live
<1>3. ASSUME UNCHANGED cluster
      PROVE  ClusterTyped'
  BY <1>1, <1>3, Zenon DEF cluster, ClusterTyped
<1>4. ASSUME UNCHANGED <<pods, daemon, toDelete, faults>>, ClusterTyped'
      PROVE  Inv'
  BY <1>1, <1>2, <1>4, OnlyPods, Zenon
<1>5. ASSUME NEW p \in Peers, NEW c \in Cards, PeerRollsOut(p, c) \/ PeerSettles(p, c)
      PROVE  Inv'
  <2>1. cards' \in [Peers -> (SUBSET Cards) \ {{}}]
    <3>1. cards' \in {[cards EXCEPT ![p] = cards[p] \cup {c}], [cards EXCEPT ![p] = {c}]}
      BY <1>5, Zenon DEF PeerRollsOut, PeerSettles
    <3>2. cards[p] \cup {c} \in (SUBSET Cards) \ {{}} /\ {c} \in (SUBSET Cards) \ {{}}
      <4>1. cards[p] \subseteq Cards
        BY <1>1, Zenon DEF ClusterTyped
      <4>2. \A T : T \subseteq Cards /\ c \in T => T \in (SUBSET Cards) \ {{}}
        BY Zenon
      <4>3. cards[p] \cup {c} \subseteq Cards /\ {c} \subseteq Cards
        BY <4>1, Zenon
      <4> QED
        BY <4>2, <4>3, Zenon
    <3> QED
      BY <1>1, <3>1, <3>2, Zenon DEF ClusterTyped
  <2>2. ClusterTyped'
    BY <1>1, <1>5, <2>1, Zenon DEF ClusterTyped, PeerRollsOut, PeerSettles
  <2> QED
    BY <1>4, <1>5, <2>2, Zenon DEF PeerRollsOut, PeerSettles
<1>6. ASSUME NEW n \in 1 .. MaxReplicas, Rescale(n)
      PROVE  Inv'
  <2>1. ClusterTyped'
    BY <1>1, <1>6, Zenon DEF ClusterTyped, Rescale
  <2> QED
    BY <1>4, <1>6, <2>1, Zenon DEF Rescale
<1>7. ASSUME StartRollout \/ PersistStatus
      PROVE  Inv'
  <2>1. ClusterTyped'
    <3>1. 0 .. desired - 1 \subseteq Slots
      BY <1>1 DEF ClusterTyped, Slots
    <3>2. CASE StartRollout
      BY <1>1, <3>1, <3>2, Zenon DEF ClusterTyped, StartRollout
    <3>3. CASE PersistStatus
      BY <1>1, <3>3, Zenon DEF ClusterTyped, PersistStatus
    <3> QED
      BY <1>7, <3>2, <3>3, Zenon
  <2> QED
    BY <1>4, <1>7, <2>1, Zenon DEF StartRollout, PersistStatus
<1>8. ASSUME NEW s \in Slots, Refill(s)
      PROVE  Inv'
  <2> DEFINE free == {n \in Incarnations : <<s, n>> \notin Remembered}
             k == CHOOSE n \in free : TRUE
             new == <<s, k>>
             pod == [phase |-> "starting", held |-> [p \in Peers |-> None]]
  <2>1. free # {} /\ pods' = Put(pods, new, pod)
    BY <1>8, Zenon DEF Refill
  <2>2. new \in Ids /\ new \notin Remembered
    <3>1. k \in free
      BY <2>1, Zenon
    <3> HIDE DEF k
    <3>2. k \in Incarnations /\ <<s, k>> \notin Remembered
      BY <3>1, Zenon
    <3> QED
      BY <3>2, Zenon DEF Ids
  <2>3. pod \in Pod
    BY Zenon DEF Pod, Held
  <2> HIDE DEF new, pod, k
  <2>4. /\ DOMAIN pods' = DOMAIN pods \cup {new} /\ pods'[new] = pod
        /\ \A i \in DOMAIN pods : i # new => pods'[i] = pods[i]
    BY <2>1, Zenon DEF Put
  <2>5. PodsTyped'
    BY <1>1, <2>2, <2>3, <2>4, Zenon DEF PodsTyped
  <2>6. \A i \in Live' \cap DOMAIN byPod : i \in Live /\ pods'[i].held = pods[i].held
    BY <2>2, <2>4, Zenon DEF Live, Remembered
  <2>7. ClusterTyped' /\ UNCHANGED <<daemon, toDelete, faults>>
    BY <1>1, <1>8, Zenon DEF ClusterTyped, Refill
  <2> QED
    BY <1>1, <2>5, <2>6, <2>7, OnlyPods, Zenon
<1>9. ASSUME NEW i \in Ids, ControllerDeletes(i)
      PROVE  Inv'
  <2>1. i \in DOMAIN pods /\ Terminated(i) /\ UNCHANGED <<cluster, daemon, toDelete, faults>>
    BY <1>9, Zenon DEF ControllerDeletes, Live
  <2>2. PodsTyped' /\ \A j \in Live' : j \in Live /\ pods'[j].held = pods[j].held
    BY <1>1, <2>1, TerminatedKeeps, Zenon
  <2> QED
    BY <1>1, <1>3, <2>1, <2>2, OnlyPods, Zenon
<1>10. ASSUME NEW i \in Ids, BecomeReady(i)
       PROVE  Inv'
  <2>1. /\ i \in DOMAIN pods /\ pods[i].phase = "starting"
        /\ pods' = [pods EXCEPT ![i] = [@ EXCEPT !.phase = "ready"]]
        /\ UNCHANGED <<cluster, daemon, toDelete, faults>>
    BY <1>10, Zenon DEF BecomeReady
  <2>2. /\ [pods[i] EXCEPT !.phase = "ready"] \in Pod
        /\ [pods[i] EXCEPT !.phase = "ready"].held = pods[i].held
    BY <1>1, <2>1, Zenon DEF Pod
  <2>3. /\ DOMAIN pods' = DOMAIN pods /\ pods'[i] \in Pod /\ pods'[i].held = pods[i].held
        /\ \A j \in DOMAIN pods : j # i => pods'[j] = pods[j]
    BY <2>1, <2>2, Zenon
  <2>4. PodsTyped' /\ \A j \in Live' : j \in Live /\ pods'[j].held = pods[j].held
    BY <1>1, <2>1, <2>3, Zenon DEF PodsTyped, Live
  <2> QED
    BY <1>1, <1>3, <2>1, <2>4, OnlyPods, Zenon
<1>11. ASSUME NEW i \in Ids, Gone(i)
       PROVE  Inv'
  <2>1. pods' = Without(pods, {i}) /\ UNCHANGED <<cluster, daemon, toDelete, faults>>
    BY <1>11, Zenon DEF Gone
  <2>2. DOMAIN pods' = DOMAIN pods \ {i} /\ \A j \in DOMAIN pods' : pods'[j] = pods[j]
    BY <2>1, Zenon DEF Without, Restrict
  <2>3. PodsTyped' /\ \A j \in Live' : j \in Live /\ pods'[j].held = pods[j].held
    BY <1>1, <2>2, Zenon DEF PodsTyped, Live
  <2> QED
    BY <1>1, <1>3, <2>1, <2>3, OnlyPods, Zenon
<1>12. ASSUME NEW i \in Ids, ContainerRestarts(i)
       PROVE  Inv'
  <2> DEFINE pod == [phase |-> "starting", held |-> [p \in Peers |-> None]]
  <2>1. /\ i \in DOMAIN pods /\ pods' = [pods EXCEPT ![i] = pod] /\ faults' = faults + 1
        /\ UNCHANGED <<cluster, daemon, toDelete>>
    BY <1>12, Zenon DEF ContainerRestarts, Live, Fault
  <2>2. pod \in Pod
    BY Zenon DEF Pod, Held
  <2> HIDE DEF pod
  <2>3. PodsTyped'
    BY <1>1, <2>1, <2>2, Zenon DEF PodsTyped
  <2>4. faults' \in Nat /\ faults' # 0
    BY <1>1, <2>1
  <2> QED
    BY <1>3, <2>1, <2>3, <2>4, OnlyPods, Zenon
<1>13. ASSUME NEW i \in Ids, NEW p \in Peers, Resolve(i, p)
       PROVE  Inv'
  <2>1. PICK c \in cards[p] : pods' = [pods EXCEPT ![i].held[p] = c]
    BY <1>13, Zenon DEF Resolve
  <2> DEFINE held == [pods[i].held EXCEPT ![p] = c]
             pod == [pods[i] EXCEPT !.held = held]
  <2>2. /\ i \in DOMAIN pods /\ pods[i] \in Pod /\ pods[i].held[p] = None /\ c \in Cards
        /\ UNCHANGED <<cluster, daemon, toDelete, faults>>
    BY <1>1, <1>13, Zenon DEF Resolve, Live, ClusterTyped
  <2>3. /\ held \in Held /\ \A q \in Peers : q # p => held[q] = pods[i].held[q]
    BY <2>2, Zenon DEF Pod, Held
  <2>4. pods' = [pods EXCEPT ![i] = pod]
    BY <2>1, Zenon
  <2> HIDE DEF held
  <2>5. pod \in Pod /\ pod.held = held /\ pod.phase = pods[i].phase
    BY <2>2, <2>3, Zenon DEF Pod
  <2> HIDE DEF pod
  <2>6. /\ DOMAIN pods' = DOMAIN pods /\ pods'[i] = pod
        /\ \A j \in DOMAIN pods : j # i => pods'[j] = pods[j]
    BY <2>2, <2>4, Zenon
  <2>7. PodsTyped'
    BY <1>1, <2>5, <2>6, Zenon DEF PodsTyped
  <2>8. \A j \in Live' :
          j \in Live /\ \A q \in Peers : \/ pods'[j].held[q] = pods[j].held[q]
                                          \/ pods[j].held[q] = None
    BY <2>2, <2>3, <2>5, <2>6 DEF Live
  <2> QED
    BY <1>1, <1>3, <2>2, <2>7, <2>8, OnlyPods, Zenon
<1> QED
  BY <1>5, <1>6, <1>7, <1>8, <1>9, <1>10, <1>11, <1>12, <1>13, Zenon

\* The daemon's tick, its scrapes and its restart, and the watcher, keep the invariant.
LEMMA DaemonStep ==
  ASSUME Inv, Daemon \/ DaemonRestarts \/ Watcher
  PROVE  Inv'
<1>1. /\ PodsTyped /\ CacheTyped /\ ClusterTyped /\ GatesTyped /\ PassTyped /\ ReportsOwnCard
      /\ faults \in Nat
  BY Zenon DEF Inv, PassTyped
<1>2. ASSUME UNCHANGED pods
      PROVE  PodsTyped' /\ Live' = Live
  BY <1>1, <1>2, Zenon DEF PodsTyped, Live
<1>3. ASSUME UNCHANGED cluster
      PROVE  ClusterTyped'
  BY <1>1, <1>3, Zenon DEF cluster, ClusterTyped
<1>4. ASSUME UNCHANGED daemon
      PROVE  CacheTyped' /\ GatesTyped' /\ UNCHANGED <<byPod, hosts>>
  BY <1>1, <1>4, Zenon DEF daemon, CacheTyped, GatesTyped
<1>5. ASSUME UNCHANGED pods, faults' \in Nat, faults' = 0 => faults = 0,
             \A i \in DOMAIN byPod' :
               \/ i \in DOMAIN byPod /\ byPod'[i] = byPod[i]
               \/ i \in DOMAIN pods /\ byPod'[i] = pods[i].held
      PROVE  ReportsOwnCard'
  BY <1>1, <1>2, <1>5, Zenon DEF ReportsOwnCard
<1>6. ASSUME ScrapeTick
      PROVE  Inv'
  <2>1. PICK r \in Answers, found \in {Discover, {}} :
          /\ IF found # Discover \/ \E p \in Peers : r[p] = None
             THEN Fault ELSE UNCHANGED faults
          /\ scrapePeerCardsOnce(r)
          /\ IF found = {} THEN UNCHANGED <<byPod, hostToPod>> ELSE prune(found)
          /\ hosts' = found \cap Slots
    BY <1>6, Zenon DEF ScrapeTick
  <2>2. UNCHANGED <<cluster, pods, toDelete>>
    BY <1>6, Zenon DEF ScrapeTick
  <2>3. faults' \in Nat /\ (faults' = 0 => faults = 0)
    BY <1>1, <2>1 DEF Fault
  <2>4. GatesTyped'
    <3>1. \A p \in Peers : (IF r[p] = None THEN gates[p] ELSE observe(gates[p], r[p])) \in gatedHash
      BY <1>1, Observed, Zenon DEF GatesTyped, Answers, Held
    <3> QED
      BY <2>1, <3>1, Zenon DEF GatesTyped, scrapePeerCardsOnce
  <2>5. /\ CacheTyped'
        /\ \A i \in DOMAIN byPod' : i \in DOMAIN byPod /\ byPod'[i] = byPod[i]
    <3>1. CASE found = {}
      BY <1>1, <2>1, <3>1, Zenon DEF CacheTyped
    <3>2. CASE found # {}
      BY <1>1, <2>1, <3>2, PruneKeeps, Zenon
    <3> QED
      BY <3>1, <3>2, Zenon
  <2>6. PassTyped'
    BY <1>1, <2>1, <2>2, <2>3, Zenon DEF PassTyped
  <2> QED
    BY <1>2, <1>3, <1>5, <2>2, <2>3, <2>4, <2>5, <2>6, Zenon DEF Inv
<1>7. ASSUME NEW h \in Slots, ScrapeIntrospect(h)
      PROVE  Inv'
  <2>1. PICK i \in At(h) : set(h, i, pods[i].held)
    BY <1>7, Zenon DEF ScrapeIntrospect
  <2>2. UNCHANGED <<cluster, pods, gates, toDelete, faults>> /\ hosts' = hosts \ {h}
    BY <1>7, Zenon DEF ScrapeIntrospect
  <2>3. i \in DOMAIN pods /\ i \in Ids /\ i[1] = h /\ pods[i].held \in Held
    BY <1>1, Zenon DEF At, PodsTyped, Pod
  <2>4. /\ CacheTyped'
        /\ \A j \in DOMAIN byPod' : IF j = i THEN byPod'[j] = pods[i].held
                                     ELSE j \in DOMAIN byPod /\ byPod'[j] = byPod[j]
    BY <1>1, <2>1, <2>3, SetKeeps
  <2>5. GatesTyped' /\ PassTyped'
    BY <1>1, <2>2, Zenon DEF GatesTyped, PassTyped
  <2>6. ReportsOwnCard'
    BY <1>1, <1>5, <2>2, <2>3, <2>4, Zenon
  <2> QED
    BY <1>2, <1>3, <2>2, <2>4, <2>5, <2>6, Zenon DEF Inv
<1>8. ASSUME NEW h \in Slots, ScrapeFails(h)
      PROVE  Inv'
  <2>1. UNCHANGED <<cluster, pods, gates, byPod, hostToPod, toDelete>> /\ hosts' = hosts \ {h}
    BY <1>8, Zenon DEF ScrapeFails
  <2>2. faults' \in Nat /\ (faults' = 0 => faults = 0)
    BY <1>1, <1>8 DEF ScrapeFails, Fault
  <2>3. CacheTyped' /\ GatesTyped' /\ PassTyped'
    BY <1>1, <2>1, <2>2, Zenon DEF CacheTyped, GatesTyped, PassTyped
  <2> QED
    BY <1>2, <1>3, <1>5, <2>1, <2>2, <2>3, Zenon DEF Inv
<1>9. ASSUME DaemonRestarts
      PROVE  Inv'
  <2>1. /\ gates' = [p \in Peers |-> noGate] /\ byPod' = <<>> /\ hostToPod' = <<>>
        /\ hosts' = {} /\ faults' = faults + 1 /\ UNCHANGED <<cluster, pods, toDelete>>
    BY <1>9, Zenon DEF DaemonRestarts, Fault
  <2>2. noGate \in gatedHash
    BY GateAssumption DEF noGate, gatedHash
  <2>3. DOMAIN byPod' = {} /\ DOMAIN hostToPod' = {}
    BY <2>1
  <2>4. CacheTyped' /\ GatesTyped' /\ PassTyped'
    BY <1>1, <2>1, <2>2, <2>3 DEF CacheTyped, GatesTyped, PassTyped
  <2>5. ReportsOwnCard'
    BY <2>3, Zenon DEF ReportsOwnCard
  <2> QED
    BY <1>2, <1>3, <2>1, <2>4, <2>5, Zenon DEF Inv
<1>10. ASSUME reconcileDrift \/ DeleteFails
       PROVE  Inv'
  <2>1. UNCHANGED <<cluster, pods, daemon>> /\ faults' \in Nat /\ (faults' = 0 => faults = 0)
    BY <1>1, <1>10 DEF reconcileDrift, DeleteFails, Fault
  <2>2. toDelete' \subseteq Ids
    <3>1. CASE reconcileDrift
      <4>1. toDelete' \subseteq stalePodNames(GetPeerCardDrift) \cap Live
        BY <3>1, Zenon DEF reconcileDrift, Batches, kSubset
      <4> QED
        BY <1>1, <4>1, Zenon DEF Live, PodsTyped
    <3>2. CASE DeleteFails
      BY <3>2, Zenon DEF DeleteFails
    <3> QED
      BY <1>10, <3>1, <3>2, Zenon
  <2>3. PassTyped'
    BY <1>1, <1>4, <2>1, <2>2, Zenon DEF PassTyped
  <2> QED
    BY <1>2, <1>3, <1>4, <1>5, <2>1, <2>3, Zenon DEF Inv
<1>11. ASSUME NEW i \in Ids, DeleteStale(i)
       PROVE  Inv'
  <2>1. /\ UNCHANGED <<cluster, daemon, faults>> /\ toDelete' = toDelete \ {i}
        /\ IF i \in Live THEN Terminated(i) ELSE UNCHANGED pods
    BY <1>11, Zenon DEF DeleteStale
  <2>2. PodsTyped' /\ \A j \in Live' : j \in Live /\ pods'[j].held = pods[j].held
    <3>1. CASE i \in Live
      BY <1>1, <2>1, <3>1, TerminatedKeeps, Zenon DEF Live
    <3>2. CASE i \notin Live
      BY <1>2, <2>1, <3>2, Zenon
    <3> QED
      BY <3>1, <3>2, Zenon
  <2>3. ReportsOwnCard'
    BY <1>1, <1>4, <2>1, <2>2, OwnCardKept, Zenon
  <2>4. PassTyped'
    BY <1>1, <1>4, <2>1, Zenon DEF PassTyped
  <2> QED
    BY <1>3, <1>4, <2>1, <2>2, <2>3, <2>4, Zenon DEF Inv
<1> QED
  BY <1>6, <1>7, <1>8, <1>9, <1>10, <1>11, Zenon DEF Daemon, Watcher

\* A fleet at rest, all scraped (Init).
LEMMA InvInit == Init => Inv
<1> SUFFICES ASSUME Init PROVE Inv
  BY Zenon
<1> DEFINE c == CHOOSE x \in Cards : TRUE
           n == CHOOSE x \in Incarnations : TRUE
           held == [p \in Peers |-> c]
           ids == Slots \X {n}
<1>1. c \in Cards /\ n \in Incarnations /\ c # None
  BY DriftAssumption, GateAssumption, Zenon
<1>2. /\ cards = [p \in Peers |-> {c}] /\ desired = MaxReplicas /\ oldHash = {}
      /\ updating = FALSE /\ hosts = {} /\ toDelete = {} /\ faults = 0
      /\ pods = [i \in ids |-> [phase |-> "ready", held |-> held]]
      /\ gates = [p \in Peers |-> [noGate EXCEPT !.accepted = c]]
      /\ byPod = [i \in ids |-> held] /\ hostToPod = [s \in Slots |-> <<s, n>>]
  BY Zenon DEF Init
<1> HIDE DEF c, n
<1>3. ids \subseteq Ids /\ held \in Held
  BY <1>1, Zenon DEF Ids, Held
<1>4. (\A i \in ids : i[1] \in Slots /\ i = <<i[1], n>>) /\ \A s \in Slots : <<s, n>> \in ids
  OBVIOUS
<1> HIDE DEF ids, held
<1>5. PodsTyped
  BY <1>2, <1>3, Zenon DEF PodsTyped, Pod
<1>6. CacheTyped
  BY <1>2, <1>3, <1>4, Zenon DEF CacheTyped
<1>7. ClusterTyped
  <2>1. {c} \in (SUBSET Cards) \ {{}}
    BY <1>1, Zenon
  <2>2. cards \in [Peers -> (SUBSET Cards) \ {{}}]
    BY <1>2, <2>1, Zenon
  <2>3. desired \in 1 .. MaxReplicas
    BY <1>2, DriftAssumption
  <2> QED
    BY <1>2, <2>2, <2>3, Zenon DEF ClusterTyped
<1>8. GatesTyped
  <2>1. [noGate EXCEPT !.accepted = c] \in gatedHash
    BY <1>1, GateAssumption DEF noGate, gatedHash
  <2> QED
    BY <1>2, <2>1, Zenon DEF GatesTyped
<1>9. PassTyped /\ ReportsOwnCard
  BY <1>2, Zenon DEF PassTyped, ReportsOwnCard
<1> QED
  BY <1>5, <1>6, <1>7, <1>8, <1>9, Zenon DEF Inv

\* For every number of peers, slots and pods, whatever is replaced, rescaled, scraped,
\* lost or restarted in between: the report cache holds one pod per host, the one last
\* scraped there, and as long as no call fails and no container restarts it charges a
\* live pod with nothing that pod does not hold (set, prune, scrapeIntrospectOnce).
THEOREM NoFalseReports == Spec => []CacheSound
<1>1. Inv /\ [Next]_vars => Inv'
  <2> SUFFICES ASSUME Inv, [Next]_vars PROVE Inv'
    BY Zenon
  <2>1. CASE UNCHANGED vars
    <3>1. UNCHANGED <<cards, desired, oldHash, updating, pods, gates, byPod, hostToPod, hosts,
                      toDelete, faults>>
      BY <2>1, Zenon DEF vars, cluster, daemon
    <3> QED
      BY <3>1, Zenon DEF Inv, PodsTyped, CacheTyped, ClusterTyped, GatesTyped, PassTyped,
         ReportsOwnCard, Live
  <2>2. CASE Next
    BY <2>2, ClusterStep, DaemonStep, Zenon DEF Next, Controller, Kubelet
  <2> QED
    BY <2>1, <2>2, Zenon
<1> QED
  BY <1>1, InvInit, InvSound, PTL DEF Spec
==============================================================================
