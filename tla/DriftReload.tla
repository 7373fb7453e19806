----------------------------- MODULE DriftReload -----------------------------
(***************************************************************************)
(* Restarting the pods that hold an outdated AgentCard of a peer.          *)
(*                                                                         *)
(* Three parties act on one dependent AgentDeploy.  Its pods resolve the   *)
(* card of each peer once and report its hash through their broker.  The   *)
(* daemon (pkg/daemon/server/rater) polls the peers through a stability    *)
(* gate and the pods through DNS.  The drift watcher of the controller     *)
(* (pkg/reconciler/agentdeploy/driftwatch) compares the two and deletes    *)
(* the pods it takes for stale.                                            *)
(*                                                                         *)
(* Abstractions.  A pod is a slot and an incarnation, for the random       *)
(* suffix of its name; a number is used again once nothing remembers it.   *)
(* The AgentDeploy controller is its effect: an empty slot of the window   *)
(* is refilled, a pod outside it is deleted, a rollout deletes pods (see   *)
(* AgentDeploy).  A hash is the card it is computed from.  The watcher's   *)
(* order of deletion is left open.  Tracking is the subject of WorkSet.    *)
(***************************************************************************)
EXTENDS StabilityGate, FiniteSets, FiniteSetsExt, Functions

CONSTANTS
  Peers,            \* the managed peers of the AgentDeploy
  MaxReplicas,      \* the largest window
  Incarnations,     \* what tells the pods of one slot apart
  Lingering,        \* whether a deleted pod is seen terminating
  MaxUnavailable,   \* ResolveMaxUnavailable of the AgentDeploy
  MaxChanges,       \* bound: changes of cards, window and template
  MaxFaults         \* bound: calls that fail and containers that restart

ASSUME DriftAssumption ==
  /\ MaxReplicas \in Nat \ {0} /\ Incarnations # {} /\ Cards # {}
  /\ Lingering \in BOOLEAN
  /\ MaxUnavailable \in Nat \ {0}
  /\ MaxChanges \in Nat /\ MaxFaults \in Nat

Slots == 0 .. MaxReplicas - 1
Ids   == Slots \X Incarnations
Held  == [Peers -> Cards \cup {None}]

VARIABLES
  cards,      \* the cards the replicas of each peer serve
  desired,    \* the window of the AgentDeploy
  oldHash,    \* the slots a rollout has yet to replace
  updating,   \* status.updateHash # status.currentHash, as persisted
  pods,       \* the pods there are, terminating ones included
  gates,      \* daemon: gatedHash of each peer
  byPod,      \* daemon: peerHashCache.byPod
  hostToPod,  \* daemon: peerHashCache.hostToPod
  hosts,      \* daemon: the hosts the current tick has yet to scrape
  toDelete,   \* watcher: the pods reconcileDrift has yet to delete
  changes, faults

cluster == <<cards, desired, oldHash, updating, changes>>
daemon  == <<gates, byPod, hostToPod, hosts>>
vars == <<cluster, pods, daemon, toDelete, faults>>

Pod  == [phase : {"starting", "ready", "terminating"}, held : Held]

TypeOK ==
  /\ cards \in [Peers -> (SUBSET Cards) \ {{}}]
  /\ desired \in 1 .. MaxReplicas
  /\ oldHash \subseteq Slots /\ updating \in BOOLEAN
  /\ DOMAIN pods \subseteq Ids /\ Range(pods) \subseteq Pod
  /\ gates \in [Peers -> gatedHash]
  /\ DOMAIN byPod \subseteq Ids /\ Range(byPod) \subseteq Held
  /\ DOMAIN hostToPod \subseteq Slots
  /\ Range(hostToPod) \subseteq Ids
  /\ hosts \subseteq Slots
  /\ toDelete \subseteq Ids

Live     == {i \in DOMAIN pods : pods[i].phase # "terminating"}
At(s)    == {i \in DOMAIN pods : i[1] = s}
Unready  == {s \in 0 .. desired - 1 : ~\E i \in At(s) : pods[i].phase = "ready"}
Without(f, S) == Restrict(f, DOMAIN f \ S)
Put(f, x, v)  == [y \in DOMAIN f \cup {x} |-> IF y = x THEN v ELSE f[y]]

Fault  == faults < MaxFaults /\ faults' = faults + 1
Change == changes < MaxChanges /\ changes' = changes + 1

-----------------------------------------------------------------------------
(* The peers, and the AgentDeploy's own controller and pods *)

PeerRollsOut(p, c) ==
  /\ Change
  /\ c \notin cards[p] /\ cards' = [cards EXCEPT ![p] = @ \cup {c}]
  /\ UNCHANGED <<desired, oldHash, updating, pods, daemon, toDelete, faults>>

\* A rollout of the peer ends, or is rolled back.
PeerSettles(p, c) ==
  /\ Cardinality(cards[p]) > 1
  /\ c \in cards[p] /\ cards' = [cards EXCEPT ![p] = {c}]
  /\ UNCHANGED <<desired, oldHash, updating, changes, pods, daemon, toDelete, faults>>

Rescale(n) ==
  /\ Change
  /\ n # desired /\ desired' = n
  /\ oldHash' = oldHash \cap 0 .. n - 1
  /\ UNCHANGED <<cards, updating, pods, daemon, toDelete, faults>>

\* The template is edited.
StartRollout ==
  /\ Change
  /\ oldHash' = {s \in 0 .. desired - 1 : At(s) \cap Live # {}}
  /\ UNCHANGED <<cards, desired, updating, pods, daemon, toDelete, faults>>

\* A pass of the controller ends: only now the rollout shows in the status.
PersistStatus ==
  /\ updating # (oldHash # {}) /\ updating' = (oldHash # {})
  /\ UNCHANGED <<cards, desired, oldHash, changes, pods, daemon, toDelete, faults>>

Terminated(i) ==
  pods' = IF Lingering THEN [pods EXCEPT ![i].phase = "terminating"]
          ELSE Without(pods, {i})

\* The controller deletes a pod outside the window, or the next of a rollout.
ControllerDeletes(i) ==
  /\ i \in Live
  /\ i[1] >= desired \/ (i[1] \in oldHash /\ Unready = {})
  /\ Terminated(i)
  /\ UNCHANGED <<cluster, daemon, toDelete, faults>>

Remembered == DOMAIN pods \cup DOMAIN byPod \cup toDelete

\* The controller fills a slot no live pod is in, from the current template.
Refill(s) ==
  /\ s < desired /\ At(s) \cap Live = {}
  /\ LET free == {n \in Incarnations : <<s, n>> \notin Remembered}
     IN  /\ free # {}
         /\ pods' = Put(pods, <<s, CHOOSE n \in free : TRUE>>,
                        [phase |-> "starting", held |-> [p \in Peers |-> None]])
  /\ oldHash' = oldHash \ {s}
  /\ UNCHANGED <<cards, desired, updating, changes, daemon, toDelete, faults>>

BecomeReady(i) ==
  /\ i \in DOMAIN pods /\ pods[i].phase = "starting"
  /\ pods' = [pods EXCEPT ![i].phase = "ready"]
  /\ UNCHANGED <<cluster, daemon, toDelete, faults>>

Gone(i) ==
  /\ i \in DOMAIN pods \ Live
  /\ pods' = Without(pods, {i})
  /\ UNCHANGED <<cluster, daemon, toDelete, faults>>

\* The agent builds its client for a peer, from the card it is given.
Resolve(i, p) ==
  /\ i \in Live /\ pods[i].held[p] = None
  /\ \E c \in cards[p] : pods' = [pods EXCEPT ![i].held[p] = c]
  /\ UNCHANGED <<cluster, daemon, toDelete, faults>>

\* The agent's container restarts in its pod, which clears what it holds.
ContainerRestarts(i) ==
  /\ Fault
  /\ i \in Live
  /\ pods' = [pods EXCEPT ![i] =
                [phase |-> "starting", held |-> [p \in Peers |-> None]]]
  /\ UNCHANGED <<cluster, daemon, toDelete>>

-----------------------------------------------------------------------------
(* The daemon: one scrape tick polls the peers, then the pods *)

\* What one poll of every peer returns; None where it fails.
Answers == {r \in Held : \A p \in Peers : r[p] \in cards[p] \cup {None}}

scrapePeerCardsOnce(r) ==
  gates' = [p \in Peers |-> IF r[p] = None THEN gates[p]
                            ELSE observe(gates[p], r[p])]

\* Hosts are numbered from zero up to the count of addresses.
Discover == 0 .. Cardinality(DOMAIN pods) - 1

prune(liveHosts) ==
  LET dead == DOMAIN hostToPod \ liveHosts
  IN  /\ byPod' = Without(byPod, {hostToPod[h] : h \in dead})
      /\ hostToPod' = Without(hostToPod, dead)

\* A tick polls the peers and looks the pods up.  When the lookup fails or
\* finds no address it ends there, without pruning.  A host that no slot
\* bears fails to be scraped at once.
ScrapeTick ==
  /\ hosts = {}
  /\ \E r \in Answers, found \in {Discover, {}} :
       /\ IF found # Discover \/ \E p \in Peers : r[p] = None
          THEN Fault ELSE UNCHANGED faults
       /\ scrapePeerCardsOnce(r)
       /\ IF found = {} THEN UNCHANGED <<byPod, hostToPod>> ELSE prune(found)
       /\ hosts' = found \cap Slots
  /\ UNCHANGED <<cluster, pods, toDelete>>

\* Mutant of set: the name last seen behind the host is kept.
setKeepsPrev(host, pod, hashes) ==
  /\ byPod' = Put(byPod, pod, hashes)
  /\ hostToPod' = Put(hostToPod, host, pod)

set(host, pod, hashes) ==
  LET prev == {hostToPod[h] : h \in {host} \cap DOMAIN hostToPod} \ {pod}
  IN  /\ byPod' = Put(Without(byPod, prev), pod, hashes)
      /\ hostToPod' = Put(hostToPod, host, pod)

\* The hosts of a tick are scraped concurrently; the next tick waits for all.
ScrapeIntrospect(h) ==
  /\ h \in hosts /\ hosts' = hosts \ {h}
  /\ \E i \in At(h) : set(h, i, pods[i].held)
  /\ UNCHANGED <<cluster, pods, gates, toDelete, faults>>

\* A host without a running broker cannot be scraped; any other may fail.
ScrapeFails(h) ==
  /\ h \in hosts /\ hosts' = hosts \ {h}
  /\ \/ Fault
     \/ ~(\E i \in At(h) : pods[i].phase = "ready") /\ UNCHANGED faults
  /\ UNCHANGED <<cluster, pods, gates, byPod, hostToPod, toDelete>>

\* The daemon is replaced: all it knows is in memory.
DaemonRestarts ==
  /\ Fault
  /\ gates' = [p \in Peers |-> noGate]
  /\ byPod' = <<>> /\ hostToPod' = <<>> /\ hosts' = {}
  /\ UNCHANGED <<cluster, pods, toDelete>>

-----------------------------------------------------------------------------
(* The watcher *)

\* The daemon's answer: what each peer serves, and what the pods report of it.
snapshot(p) == gates[p].accepted
reportedByPeer(p) ==
  [i \in {j \in DOMAIN byPod : byPod[j][p] # None} |-> byPod[i][p]]
GetPeerCardDrift ==
  [p \in Peers |-> [latestHash |-> snapshot(p), reportedHashes |-> reportedByPeer(p)]]

stalePodNames(drift) ==
  UNION {{i \in DOMAIN drift[p].reportedHashes :
            drift[p].reportedHashes[i] # drift[p].latestHash} :
         p \in {q \in Peers : drift[q].latestHash # None}}

\* The stale pods that still live, at most a batch of them.
Batches ==
  LET found == stalePodNames(GetPeerCardDrift) \cap Live
  IN  IF Cardinality(found) <= MaxUnavailable THEN {found}
      ELSE kSubset(MaxUnavailable, found)

\* The status gate, the daemon's answer and the list of pods.
reconcileDrift ==
  /\ toDelete = {}
  /\ ~updating
  /\ toDelete' \in Batches \ {{}}
  /\ UNCHANGED <<cluster, pods, daemon, faults>>

\* The deletes of a pass; one whose pod is gone already is no failure.
DeleteStale(i) ==
  /\ i \in toDelete /\ toDelete' = toDelete \ {i}
  /\ IF i \in Live THEN Terminated(i) ELSE UNCHANGED pods
  /\ UNCHANGED <<cluster, daemon, faults>>

\* A delete fails: the rest of the pass is left to the next one.
DeleteFails ==
  /\ toDelete # {} /\ toDelete' = {}
  /\ Fault
  /\ UNCHANGED <<cluster, pods, daemon>>

-----------------------------------------------------------------------------
\* A fleet at rest: every slot holds a Ready pod with the one card there is,
\* and the daemon has seen it all.  It does not matter which card is first.
Init ==
    LET c == CHOOSE c \in Cards : TRUE
        held == [p \in Peers |-> c]
        n == CHOOSE n \in Incarnations : TRUE
    IN  /\ cards = [p \in Peers |-> {c}]
        /\ desired = MaxReplicas
        /\ oldHash = {} /\ updating = FALSE
        /\ pods = [i \in Slots \X {n} |-> [phase |-> "ready", held |-> held]]
        /\ gates = [p \in Peers |-> [noGate EXCEPT !.accepted = c]]
        /\ byPod = [i \in Slots \X {n} |-> held]
        /\ hostToPod = [s \in Slots |-> <<s, n>>]
        /\ hosts = {} /\ toDelete = {}
        /\ changes = 0 /\ faults = 0

Daemon  == ScrapeTick \/ (\E h \in Slots : ScrapeIntrospect(h) \/ ScrapeFails(h))
Watcher == reconcileDrift \/ DeleteFails \/ (\E i \in Ids : DeleteStale(i))

\* Steps of the AgentDeploy's controller, and of the pods.
Controller ==
  PersistStatus \/ (\E s \in Slots : Refill(s)) \/ (\E i \in Ids : ControllerDeletes(i))
Kubelet == \E i \in Ids : BecomeReady(i) \/ Gone(i)

PeerSettlesSomehow(p) == \E c \in Cards : PeerSettles(p, c)

Next ==
  \/ \E p \in Peers, c \in Cards : PeerRollsOut(p, c) \/ PeerSettles(p, c)
  \/ \E n \in 1 .. MaxReplicas : Rescale(n)
  \/ StartRollout
  \/ Controller \/ Kubelet
  \/ Daemon \/ DaemonRestarts \/ Watcher
  \/ \E i \in Ids : ContainerRestarts(i)
  \/ \E i \in Ids, p \in Peers : Resolve(i, p)

Spec == Init /\ [][Next]_vars

\* Peers and rollouts settle, pods start and stop, the ticker of the daemon
\* and the task interval of the watcher run for ever.
Fairness ==
  /\ \A p \in Peers : WF_vars(PeerSettlesSomehow(p))
  /\ WF_vars(Controller) /\ WF_vars(Kubelet)
  /\ WF_vars(Daemon) /\ WF_vars(Watcher)

FairSpec == Spec /\ Fairness

-----------------------------------------------------------------------------
(* Properties *)

\* Some peer serves a card other than the one the pod holds.
Outdated(i) ==
  \E p \in Peers : pods[i].held[p] # None /\ cards[p] # {pods[i].held[p]}

\* The report cache holds exactly the pods last scraped behind the hosts it
\* knows, one each: it neither leaks the names of replaced pods nor loses
\* one it would still compare (set and prune of peerHashCache).
CacheMatchesHosts ==
  /\ DOMAIN byPod = Range(hostToPod)
  /\ \A g, h \in DOMAIN hostToPod : hostToPod[g] = hostToPod[h] => g = h

\* As long as no container restarts in place, a live pod is only ever judged
\* by a card it holds itself: no order of scrapes, replacements and lookups
\* charges a pod with the report of another that had its slot or its host
\* (cache.set by pod name in scrapeIntrospectOnce).
ReportsOwnCard ==
  faults = 0 =>
    \A i \in Live \cap DOMAIN byPod, p \in Peers :
      byPod[i][p] \in {None, pods[i].held[p]}

\* The two indexes of the daemon's cache agree, and what it reports for a pod
\* is what that pod said.
CacheSound == TypeOK /\ CacheMatchesHosts /\ ReportsOwnCard

\* What holds once peers, rollouts and scaling have settled: no pod keeps a card
\* its peer no longer serves, no report keeps condemning the pods that replace
\* the deleted ones, and, if pruned, the reports of pods that are gone have left
\* the cache (reconcileDrift, prune).
Settled(pruned) ==
  /\ \A i \in Live : ~Outdated(i)
  /\ toDelete = {}
  /\ pruned => DOMAIN byPod \subseteq DOMAIN pods
=============================================================================
