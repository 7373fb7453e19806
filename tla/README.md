# A TLA+ specification of kynomesh

kynomesh runs meshes of agents on Kubernetes. A user writes an **AgentSet**; a
controller turns it into one **AgentDeploy** per agent; a second controller
turns each AgentDeploy into pods, one per replica slot. In every pod a **broker**
sidecar proxies the agent's traffic, limits it and drains it at shutdown. One
**daemon** per AgentSet scrapes the brokers. From what the daemon reports, an
**autoscaler** patches the replica count and a **drift watcher** restarts pods
that hold an outdated description (AgentCard) of a peer. An **admission webhook**
checks AgentSets before they are stored.

This directory holds the specifications, the TLC configurations that check them
on small instances, and the proofs. `PROJECT.json` lists the runs with their
properties, the theorems, the hazards each property is aimed at, and the source
lines behind every definition.

Contents: [modules](#modules) · [runs](#what-the-runs-check) ·
[bounds](#bounds) · [fairness](#fairness) · [proofs](#what-is-proved) ·
[divergences](#where-code-and-documentation-part) ·
[not modelled](#not-modelled-and-why)

## Modules

One module per component. An action is one step of the code that others can come
between: a call to the API server, a lock, a channel, a message. What runs in
between without being observable is computed by operators. MC modules instantiate
the components for TLC; several components that share no state are put into one
MC module, in which a variable `part` (or `setting`, for two settings of one
component) says which of them a behaviour is about.

| module | code | state and actions |
|---|---|---|
| `ReplicaMath` | `agentdeploy/pods.go`, `scale.go`, `update_strategy.go` | operators: `DesiredReplicas`, `scaleBounds`, `ResolveMaxUnavailable`; an optional field is a value or `Nil` |
| `AgentDeploy` | `agentdeploy/pods.go`, `controller.go`, watches in `reconciler/cmd/start.go` | what the API server stores (`object`, `pods`), the informer caches (`objView`, `podView`) and the events on their way (`objStream`, `podStream`), the workqueue (`queued`), and the running pass (`pass`) |
| `AgentSet` | `agentset/controller.go`, `agentdeploys.go`, `daemon.go`, `entry_service.go` | children, Services and daemon Deployment with their cached copies, undelivered changes (`news`), the pass; what users and faults may do in a behaviour is its `setting` |
| `PodRender` | `agentdeploy/pod_spec.go`, `pod_template.go`, `container_template.go`, `agentset/agentdeploys.go`, `daemon.go` | operators: how agent, templates, operator defaults and controller values become a pod |
| `Wiring` | `validator/agentset.go`, `topology.go`, name helpers, `init_runtime.go` | operators: validation, topology, peer URLs, generated names |
| `ApiTypes`, `WireTables`, `WireFormat` | `generated.pb.go` | every API type as a table of fields; for each type what its `Marshal`, `Size` and `Unmarshal` do field by field; and the varint, map and skip code they share |
| `DeepCopy` | `zz_generated.deepcopy.go` | what each `DeepCopyInto` copies, and what it shares |
| `Autoscaler`, `Decision` | `scaling/autoscaler.go`, `decision/decision.go`, `sampling/collector.go` | sample, gates, decision, patch, with the reconciler and AgentSet controller that act on the same object; `Decide` as an operator |
| `Estimator` | `decision/estimator.go`, `history/sample.go` | operators: `Sanitize`, `EstimateKnee`, in exact rational arithmetic |
| `History`, `HistoryBuffer`, `Codec` | `history/store.go`, `registry.go`, `buffer.go`, `codec.go`, `sampling/sampler.go` | workers, and the flush of a leader that stops, on the store they find in the registry; the ConfigMap, and the cached copy of it they read; the ring of samples; the encoded blob |
| `DriftReload`, `StabilityGate` | `driftwatch/watcher.go`, `rater/peer_agentcard_poll.go`, `peer_card_drift.go`, `discovery/dns.go` | peers, pods, the daemon's caches and the watcher, one composed system |
| `Rater` | `rater/rater.go`, `helper.go`, `pod_samples.go`, `queue/overflow_queue.go` | counters of pods that restart, bounded buffers of scrapes, rates and averages over windows |
| `RateLimiter` | `ratelimit/semaphore.go`, `dns_count.go`, handlers in `metrics.go`, `proxy_grpc.go` | a fleet of brokers that scales, the semaphore of each, replica counts that lag |
| `StreamProxy` | `proxy_grpc.go` | one gRPC stream: the handler, two pumps, two one-place channels, the client and the agent |
| `SseCounter` | `sse.go` | a response that comes in arbitrary Writes, and the bytes carried over |
| `Termination` | `broker/cmd/drain.go`, `budgets.go`, `start.go` | the kubelet's clock, drain, SIGTERM, shutdown of both servers, requests in flight and on their way |
| `PeerHashesFile` | `introspection.go` | the file, the mtime cache, concurrent requests between their stat and their lock |
| `WorkSet` | `shared/workset` | tracked keys, current batch, workers |
| `ClientCache` | `driftwatch/watcher.go`, `sampling/sampler.go` | cached daemon clients, workers that use them, the reaper |
| `WebhookServer`, `CertAgreement` | `webhook/webhook.go` | replicas that race for one certificate Secret, register and serve; and what they promise each other |

How components are composed. `DriftReload` joins pods, daemon and watcher with the
AgentDeploy controller's effect on pods. `Autoscaler` joins sampler, autoscaler,
AgentDeploy controller and AgentSet controller around one object. `History` joins
sampler workers, tracker, garbage collector and leader change. `Autoscaler` takes
`Decision`, `DriftReload` takes `StabilityGate` and `AgentDeploy` takes
`ReplicaMath` as they are.

### Some correspondences worth knowing

**AgentDeploy.** `Start` is `Get` and `List` at the head of a pass.
`reconcilePods` classifies while it writes, but from that one `List`, so the plan
is fixed when the pass starts (`PlanOf`), and each API write is a step of its own
in the code's order: pods outside the window, duplicates, creates of empty slots,
then for each slot of the batch its old pods and its new one. `Persist` is the end
of a pass: second `List`, counters, phase, conditions and the merge patch.
`ServicesFail`, `PodsFail` and `StatusFails` are the three error returns. A pass
on caches that are behind is the disturbance `"stale"`; naming it lets a property
be stated with and without it.

**AgentSet.** A cached copy is some earlier state of the object, and takes the
current one whenever it syncs. A write on a stale copy of a child is a conflict
that ends the pass. `ListFails` ends it before anything is marked as failed; after
`APIError` the status says so.

**Autoscaler.** Several early returns of `scaleKey` on the AgentDeploy's health are
one flag, and the return for a disabled scale block is left out: such an object is
not tracked. The knee is a constant here; `Estimator` is about finding it. A worker
takes its decision (`scaleKey`) and patches it later (`applyReplicas`, or
`PatchFails`), so two workers can hold one on the same key. Counts are `int32`:
`int32` is the conversion, with `SignBit` for 2^31.

**History.** Each locked section of `Load`, `Record` and `Flush` is a step:
`Flush` reads the hash (`FlushHash`) and the records (`Snapshot`) one after the
other, and `Record` notes the hash (`RecordHash`) before it resets (`Reset`).
ConfigMaps are read from the manager's cache (`view`), which lags the API server
until `Sync`; an update of an old version conflicts, and the retry may read the same
old copy. `Stop` starts the flush of `flushAll` while workers are still at work:
`WorkSet.Start` does not wait for them. A record is its hash and its age; `Tick`
lets all of them grow older.

**Termination.** A request is on its way (`coming`) from when it is sent to an
endpoint that still names the pod until it arrives; `Refuses` is what becomes of one
that finds the listeners closed.

**DriftReload.** The AgentDeploy controller appears by its effect (delete, refill,
roll), which `AgentDeploy` models in full.

**StreamProxy.** The frames of a direction are counts, since both transports are
FIFO. The library's streams are external: what `RecvMsg` and `SendMsg` return is
taken from how `copyMessages` and the handler use it.

**PodRender.** A value says who set it, so that a property can ask who won.

**Wire format.** Integers are 32 bits wide (the code's varints are 64), and
an embedded message is its bytes: its own encoding is that of its own type. In a
cluster custom resources travel as JSON; the protobuf code is modelled as it is
generated.

## What the runs check

Twelve runs, ten that pass and two that end in a violation. Every property of a
passing run is broken by a mutant of the code, listed in `PROJECT.json`.

| run | property | what it says |
|---|---|---|
| `deploy` | `SlotExclusive` | with caches that are up to date when a pass begins, never two live pods in a slot, whatever fails, restarts or is edited |
| | `EventuallyConverged` | pods and status end up as the spec says; a rollback from a hash that never becomes Ready gets through the wait gate |
| `rollout` | `ServedOnStale` | on stale caches there may be a pod too many at rest, never a slot without a pod or a pod outside the window, as long as the pods of the desired hash can become Ready |
| | `BudgetInRollout` | k disturbances of a rollout take down at most k batches of `maxUnavailable` slots |
| | `DeleteThenCreate` | a slot is filled only after every pod of another hash the pass saw live there is no longer live |
| `agentset` | `QuietDone` | no lost wakeup: at rest children and Services are as the spec wants them |
| | `SetSettles` | children follow the spec through conflicts, errors, restarts and an invalid spec in between; a deleted Service comes back; the phase ends up saying how the children are |
| `broker` | `HeldAccounted`, `WithinCap` | every slot of the semaphore is released once while its limit moves; no broker is shut off, none passes the cap |
| | `FleetSoftCap` | when scaling ends, the slices cover the cap and the fleet is within one request per replica of it |
| | `EndsInTime`, `NoneRefused` | a pod whose budgets fit is not killed and requests are cut only when both budgets are spent; none that was sent while the endpoints still named the pod finds it closed |
| | `ReplyCurrent` | no request is answered with hashes older than the file was when it came in, and no burst of requests pins outdated ones |
| | `StreamFaithful`, `StreamReturns` | a gRPC client that stays is given the agent's header, every frame and the status, and the agent the client's frames, in whatever order the two ends finish; the handler gives its slot back once the client is done |
| | `EventsExact` | a response counts as many events as if it had come in one Write |
| `drift` | `CacheSound` | the daemon charges a pod with no report but its own; its two indexes agree |
| | `DriftSettles` | every pod comes to hold the current cards, the watcher then stops deleting, pods that are gone are forgotten |
| `autoscaler` | `PacedWhenFollowed` | until a decision misses a write or overlaps with another one or with an edit, a patch changes what runs by at most one step, after the cooldown |
| | `FleetSized` | under a load that stays, the fleet settles at the size the load asks for, whatever two workers, failing patches and edits did before |
| | `ReadsNewest` | a reader of the ring gets the newest samples within age and size, in order, across reloads |
| `history` | `OneSpecOnly` | samples are kept under the hash they were recorded under, in store, ConfigMap and cache, until a `Load`, `Record` or `Flush` cuts into another |
| | `NothingRelearned` | what is persisted is never replaced by less, but for what is too old, by a new leader or after a conflict |
| | `EventuallyPersisted` | the history of a spec that stays reaches the ConfigMap, and what overlapping calls have mixed up is gone in the end |
| `manager` | `OneOpenPerSet`, `ClientsSettle` | never two open daemon clients for an AgentSet; unused ones are closed, users of a client closed under them recover |
| | `KeysServed` | a tracked key is processed again and again, one that is out is let go of |
| | `WebhookTrusted`, `ImplementsAgreement` | the registered CA is in the end the one served with; the replicas implement `CertAgreement` |
| `signals` | `MetricsTruthful` | rates never count a request that was not served in the window, and all of them without restarts; averages lie between what was seen; totals are sums |
| | `DecisionSound` | `Decide` keeps within range, cooldown and step, and follows the load, for unset, inverted and extreme fields |
| | `LearnsSoundly` | exactly the fit samples are learned from, whichever of one instant the sort puts last, and the knee is usable and next to the true one |
| | `DecodesOwnOnly` | a history blob that is cut, runs on, or has another version or count is refused |
| | `AcceptsLastSteady` | the gate shows the card of the last steady window |
| `specs` | `WiringSound`, `ServicesDistinct` | in every admitted AgentSet all agents can be reached from the entry, chains end, peers resolve to Services that exist, the daemon derives the same wiring; names are distinct and fit |
| | `WindowInBounds` | replica windows and budgets are sane for every combination of unset, negative and inverted fields |
| | `WireRoundTrips` | every API type with any two fields set, or all, comes back from its encoding, extended by foreign fields too; a truncated one is refused; `Size` is exact |
| | `CopiesOwnMemory` | no path of fields leads from a deep copy into memory of the original |
| | `Rendered` | the controller's variables cannot be shadowed, the user's values win over templates, the grace period told to the broker is the pod's, and the daemon's Service and Deployment select its pods |
| `leak` | `OldPodsPruned` | **violated**: see below |
| `shed` | `ShedsByStep` | **violated**: see below |

`ImplementsAgreement` is a refinement: `WebhookServer` with `chosen` mapped to the
Secret and `holds` to the certificates of each replica past `configureCerts`
implements `CertAgreement`, in which a set of certificates is chosen once and a
replica takes up that set and no other, until it is lost.

Some properties leave out, in their own text, a case the code does not guarantee:
`OneSpecOnly` calls that overlapped on one store (in which case
`EventuallyPersisted` still holds), `NothingRelearned` a load that fails, passes
that overlap and a spec that is rolled back to, `EventuallyPersisted` an AgentDeploy
created again under its old name, `PacedWhenFollowed` decisions that missed a write
or overlapped (in which case `FleetSized` still holds), `EndsInTime` budgets that do
not fit or are spent twice, `NoneRefused` endpoints and requests slower than the
propagation wait and a scrape that fails, `ServicesDistinct` an agent named like
another one's headless Service. Most are in the table
[below](#where-code-and-documentation-part).

Deadlock is not checked where the system may stop: a settled deploy or AgentSet,
a fleet scaled to zero, a reviewed spec.

### Bounds

Every bound is a constant in the `.cfg` or a set in the MC module.

* `deploy`, `rollout`, `agentset`, `history`, `drift`: one or two disturbances of
  any kind. The cases they are there for take an edit and a failure, an edit and a
  stale pass, an eviction in a rollout. Two undelivered pod events let a pass see
  some of the previous pass's writes and not others. Of object events one is enough
  in `rollout`, and of pod events too where passes read caches that have caught up
  (`ShortLag`); evictions are tried only there. Three slots are the fewest in
  which one is refilled while another is replaced and a third is old.
* `broker`: two brokers under a cap of three (slices that do not divide it). Three
  brokers under a cap of two take too long together with the liveness
  property; `RateLimiterProofs` covers every fleet. Grace periods are one
  below the floors, the smallest that fits, the usual ones. Endpoints that forget
  within one second and requests one second on their way are still within the
  propagation wait, and later than the deletion. Two frames per
  direction let one be on its way while another is awaited. Seven bytes in Writes
  of up to three contain a four-byte delimiter cut at each place, next to a
  two-byte one.
* `drift`: one peer with two cards, two slots; a stability window of two. In the
  setting with failures there is one slot, whose pods are seen terminating.
* `autoscaler`: two workers, two ranges, one edit or failed patch. The loads size
  the fleet to the ends and the middle of the range.
* `history`: one rollout, one fault (a leader that stops or crashes, a load that
  fails), a window of two records, and two ages: young and too old. Two workers
  (`"race"`), growing old with changes of the leader (`"restart"`), and a lagging
  cache with an AgentDeploy created again (`"recreate"`) are parts of their own;
  all of them together are too many states.
* `manager`: two workers, two AgentSets with an AgentDeploy each; five
  connections are enough that a worker never lacks one
  (`ClientCacheAssumption`); two webhook replicas and two faults.
* `signals`, `specs`: the inputs contain for every field the values at which the
  code branches: unset, zero, negative, one below and above a limit, a length of
  two bytes.

### Fairness

Disturbances are never fair and there are finitely many.

* `deploy`, `agentset`: watches deliver, the single worker takes a queued key and
  finishes its pass, the kubelet brings up pods of a working image and removes
  terminating ones. client-go and the kubelet promise this much. A worker of
  `deploy` is only obliged to start on caches that have caught up.
* `broker`: handlers and the recount ticker run, lookups do not fail for ever, DNS
  catches up, a draining pod ends, requests are answered or given up. The
  goroutines of a stream run; an agent ends once its input has ended, as the
  servers that gRPC generates do.
* `drift`: the controller, the kubelet, the daemon's ticker and the watcher each
  go on, as groups: nothing is assumed of which of its steps a group takes. A peer
  in the middle of a rollout comes to serve one card.
* `autoscaler`: time passes, the controllers and the sampler run, pods come and go
  as ordered. Strong fairness of `scaleKey` by some worker: its gates open and close,
  the ticker comes round for ever.
* `history`: time passes, controller and watch go on, some worker does, and a leader
  that has stopped is followed by another. Strong fairness, again of some worker and
  not of each, of taking a sample, of a flush that is due, and of the reads and
  writes of the ConfigMap that succeed: the ticker repeats them for ever and the API
  server does not refuse them for ever.
* `manager`: workers, reaper and dispatcher go on. Strong fairness of `Get`: the
  round robin hands every key out, while workers are busy and free in turn.
  Webhook replicas start again and go on.

## What is proved

The theorems hold for every value of the constants. Assumptions on constants are
named `ASSUME`s in the component's module, evaluated by TLC in the runs, or stated
in the theorem.

* **`AgentDeployProofs`**, for every finite `Names`, every `Hashes`, `Specs` and
  fault set.
  * `TypeCorrect`: `TypeOK` is inductive; the work is in the lemmas that plan,
    status and merge patch are well typed.
  * `DeleteBeforeCreate`: `Spec => DeleteThenCreate`. The step alone does not give
    it: a pod the pass has deleted could be live again when the slot is created.
    `PassInv` adds that a pod in `pass.deleted` is not live on the server and that
    the plan is the one computed from `pass.seen`.
  * `OnePodPerSlot`: if `"stale"` is no fault kind then `Spec => []SlotExclusive`.
    `CacheInv` says that replaying a stream onto its cache gives the server's pods;
    `SlotInv` that every live pod on the server during a pass was seen live, or
    sits in a slot the pass has created. The hypothesis is needed: `leak`.
  * `RestIsServed` and `StaleIsServed` (`QuiescentServed`, and `ServedOnStale` of the
    run): at rest every slot of the window is served, on any caches and with any
    disturbances. No wakeup is lost, which takes `NoLostWakeup`: with no key in the
    queue the caches are what the running pass read, and either a pod event is still
    to come or the pass has written nothing; between passes, either such an event is to
    come or the caches leave nothing to do (`Calm`). A pass that deletes a pod already
    gone writes no event, but then the cache is behind and `CacheInv` has one under
    way. A hash whose pods never become Ready is excepted: it holds the wait gate shut.
  * `RolloutWithinBudget` (`BudgetInRollout`): k disturbances have at most
    k * `maxUnavailable` slots down at once, for any window, budget and number of
    disturbances of any kind but stale caches. Counting what is down is not inductive,
    since the next batch comes without a disturbance. `Paid` counts the running batch
    in; `PaidAhead` says that while some pod is still to be replaced, one more batch is
    paid for on top of the slots it does not wait for (`Charged`). When a batch begins
    the wait gate has seen every pod on the desired hash Ready, so that the slots
    that are down are just those (`GateOpen`). `RollAssumption`: the specs of the
    rollout share window and budget; without it a larger window is down for its size.
  * `WindowBounded` and `BudgetBounded`: the window and the budget, for all integers
    in the fields.
  * Assumed of the constants besides types: `Nil` is no pod and no pass.
* **`RateLimiterProofs`**, for every fleet and cap: `EverySlotReleasedOnce`
  (`HeldAccounted`) and `BrokerWithinCap` (`WithinCap`), from an inductive
  invariant and two lemmas about `sliceFor` (n slices cover the cap and exceed it
  by less than n; a slice is between one and the cap).
* **`AgentSetProofs`**, for every set of agents, sequence of specs, valid or not, and
  any number of faults: `AgentSetQuiet` (`QuietDone`), no wakeup is lost. The
  invariant `QuietInv` has three parts besides types: `Watched` (a cached copy that
  differs from the server has an undelivered change), `Resting` (without a pass and
  with nothing queued, the copies are as the spec of the cached generation wants) and
  `Working` (during a pass: what it has already handled is settled, or its key is
  queued again). Assumed of the constants: `None` is no pass and no child.
* **`BrokerProofs`**. The theorems about the parts (`Pod!`, `File!`, `Grpc!`) carry
  over to the composition of the run by `PartsImplemented`: every behaviour of it is
  a behaviour of each part.
  * `BrokerEndsInTime` and `BrokerNoneRefused` (`EndsInTime`, `NoneRefused`), for
    every grace period, load, number of faults, and time that endpoints and requests
    take. The properties themselves ask that the propagation wait is longer than those
    two (`WaitCovers`), which is what the wait is for. The
    invariant says for each phase where its budget ends relative to the deletion, and
    until when a request can be on its way; `BudgetsDerived` that from nine seconds on
    drain, shutdown and margin add up to the grace period.
  * `BrokerRepliesCurrent` (`ReplyCurrent`), for any number of handlers and writes.
    The invariant relates what a handler saw at its stat, what the cache carries and
    the times of all writes, which never decrease. `FileSetting`: `None` is no number
    and no file.
  * `BrokerStreamsFaithful` (`StreamFaithful`), for any number of frames. The
    invariant orders what client, pumps and agent have counted in each direction and
    says which error each pump holds; it speaks of the client's side only while the
    client is there.
* **`ManagerProofs`**, likewise through `PartsImplemented`.
  * `ManagerClients` (`OneOpenPerSet`). The open clients are the cached ones, one
    each; a counting lemma shows that there is always a connection nobody refers to.
  * `ManagerWebhook` (`ImplementsAgreement`), the refinement, failures and deleted
    Secrets included, for any number of replicas. The invariant says that a replica
    about to create the Secret has certificates; each action is an abstract step or a
    stutter.
  * `OneForAll`: while no API call fails and nobody deletes the Secret, every serving
    replica presents the registered certificates. The invariant `Settled` follows the
    certificates from the Secret through each step of each replica.
* **`HistoryProofs`**, for any number of workers, rollouts, faults and AgentDeploys, and
  every set of hashes, record cap and age horizon: `HistoryOneSpec` (`OneSpecOnly`).
  The invariant `Sound` holds until calls overlap. `Exclusive`: of each store at most
  one thread is between the locked sections of `Load`, `Record` or `Flush`. `Rested`:
  a store on which there is none has records of its own hash only. `Shape` says the
  same of what each thread carries, depending on where it is, and `Maps` of the
  ConfigMap and its cached copy. A thread that leaves the store alone (`QuietStep`),
  one that works on it (`ZoneStep`), a write (`WriteStep`) and the clock (`TickStep`)
  are the kinds of step.
* **`DriftProofs`**: `NoFalseReports` (`CacheSound`), for any number of peers,
  slots and pods. The two indexes of the cache agree only as an invariant of
  `set` and `prune` together (`SetKeeps`, `PruneKeeps`); that a pod is charged with
  its own report needs that a name is reused only when nothing remembers it.
* **`AutoscalerProofs`**, for every age, cap, step, cooldown, load and range.
  * `RingReadsNewest` (`ReadsNewest`). `RingInv` says that the ring, and the flushed
    copy, are each the end of the log of what was added, and that every sample missing
    in front is too old or above the cap; it survives a reload because time only makes
    samples older. `Evicts` is what `evictLocked` does to ordered timestamps.
  * `OperationsPaced` (`PacedWhenFollowed`), for any number of workers. `Followed`:
    until decisions overlap or miss a write, at most one worker has one in hand, its
    count is one step from what runs, and the last patch is at least as
    old as the operation the controller recorded.
  * `DecisionRendered`: the count `Decide` chooses is rendered unchanged by
    `DesiredReplicas`, so that autoscaler and controller do not pull against each
    other. Bounds and counts are any `int32`, steps any below 2^31. The schema of
    the CRD has no others (`format: int32`, `config/install.yaml:2107`); the code's
    conversion from `uint32` would make them negative.

Only model-checked: liveness (beyond this prover), `NothingRelearned`, and what
recursive or folded operators compute (event counts, wire format, estimator, wiring, rendering).
`DriftReload`'s `Controller` and `Kubelet`
only name groups of actions.

## Where code and documentation part

Two runs end in a violation of what a comment or document says.

* `leak`: `pods.go:93` says that duplicates in a slot are pruned unconditionally. A
  pod of the old hash that shares a slot with one on the desired hash is never
  deleted. It takes an edit after a pass has created a pod, and a next pass on a
  cache that does not show that pod yet.
* `shed`: the API reference (`APIs.md:3332`) limits how much one scale-down may shed. An edit of
  the AgentSet that leaves the range alone replaces the child's whole spec, replicas
  included, and sheds all that the autoscaler had added at once.

The following were found with the same modules by checking the stronger statement
in place of the property of the run; the properties above are what does hold.
Paths are shortened to what identifies the file below `src/pkg` or `src/docs`;
a line number without a file is in the file of the first column.

| where | the text says | the code |
|---|---|---|
| `agentdeploy/controller.go:194` | readyReplicas is the number of pods with a Ready condition (`agentdeploy_types.go:192`) | patches relative to a cached status; a field equal to the stale copy is not written until a later pass |
| `agentdeploy/pods.go:161` | at most `maxUnavailable` pods unavailable during the update (`update_strategy.go:62`) | the wait gate counts only pods on the desired hash: after a failed create the next batch is taken with the slot still empty |
| `agentdeploy/pods.go:114` | keep one, delete extras (line 113) | holds within a pass; two passes on stale caches may delete both |
| `agentdeploy/pods.go:187` | a percentage is rounded down (`update_strategy.go:64`) | rounded up: 25% of 5 is 2 |
| `driftwatch/watcher.go:278` | deletes exactly the pods that serve a stale card (line 19) | also a pod whose container re-resolved after the last scrape |
| `driftwatch/watcher.go:265` | `maxUnavailable` caps the pods deleted at once (`agentcard-drift-reload.md:151`) | per tick: the next tick does not wait for the pods of this one |
| `driftwatch/watcher.go:144` | closes clients no live AgentDeploy refers to (line 140) | lists before the lock; an AgentDeploy created in between loses its client, and dials again |
| `scaling/autoscaler.go:118` | watch sets in sync with live AgentDeploys (`tracker.go:26`) | a worker that found its object gone forgets it after it was created again and tracked |
| `history/registry.go:65` | a restart does not relearn (`autoscaling.md:78`) | a first load that fails is never repeated and the next flush overwrites |
| `history/store.go:104` | history of the old spec is dropped (line 98) | two workers on a key, or the flush at shutdown (`sampler.go:175`), persist old samples under the new hash, until those are evicted |
| `history/registry.go:66` | a restart does not relearn (`autoscaling.md:78`) | a second worker may record into the store before it is loaded, and flush what it has |
| `sampling/sampler.go:307` | a sample is tagged with the spec it was collected under (`autoscaling.md:83`) | with the hash the rollout leads to, while old pods still serve |
| `sampling/sampler.go:160` | a deleted object leaks no state (line 158) | a worker between `Get` and `StoreFor` registers the store again |
| `history/store.go:185` | a ConfigMap owned by the AgentDeploy (line 57) | after delete and create it keeps the owner that is gone |
| `decision/decision.go:99` | a cold start over-provisions (line 96) | not for an agent that sustains less than 12 in flight |
| `history/sample.go:72` | the last write of an instant wins (line 110) | the sort is not stable |
| `scaling/autoscaler.go:155` | a cooldown blocks all scaling (`autoscaling.md:214`); a count out of range is corrected at once (`decision.go:124`) | the time of the last operation is written later by the controller; the gate comes before the correction |
| `scaling/autoscaler.go:218` | never fights a spec update (`autoscaling.md:193`) | patches a decision taken before the rollout began |
| `agentset/controller.go:172` | persist writes status changes back (line 167) | a phase equal to the stale copy is left out and nothing requeues |
| `agentset/daemon.go:226` | the daemon exists with the expected spec (line 194) | compares on a cached copy, and Deployments are not watched: the AgentSet is edited twice; the second pass sees the Deployment of before the first, whose hash matches the second edit (a revert), and leaves the one of the first edit in place, for good |
| `agentset/daemon.go:233` | the old Pod is gone before the new one starts (line 229) | deletion is in the background; two daemon pods overlap |
| `agentset/controller.go:139` | only a failed child makes the AgentSet Failed (`agentdeploys.go:104`) | so does an update conflict, until the retry |
| `rater/helper.go:117` | Total is the sum across transports (`rater.go:304`); resets give the right answer in all cases (line 94) | not when one transport's reset hides in the sum, or a counter overtakes its old value between two scrapes |
| `rater/helper.go:199` | the average fleet-wide load over the window | a replaced pod and its successor count in full |
| `rater/rater.go:368` | empty maps mean too little data (line 329) | a window without data reads 0 |
| `broker/cmd/budgets.go:47` | maxima plus margin fit in the grace period (line 29) | not below nine seconds |
| `broker/cmd/start.go:407` | shutdown is bounded by the remaining budget (`graceful-termination.md:42`) | HTTP and gRPC take the whole budget one after the other |
| `broker/cmd/start.go:390` | once a listener fails everybody is shut down gracefully (line 384) | returns at once |
| `broker/cmd/drain.go:112` | waits for zero in flight | one failed scrape ends the drain |
| `broker/proxy_grpc.go:144` | the caller sees the status it would see without the broker (line 150) | an agent that ends first is only reported once the client half-closes, sends again or leaves: the handler waits for the client's pump |
| `broker/sse.go:111` | CRLF is normalised to LF before splitting (line 108) | it is not: a blank line of mixed endings is no delimiter |
| `apis/.../pod_template.go:23` | Metadata sets the labels and annotations of the pods | only of the daemon's; agent pods are rendered without it |
| `apis/.../container_template.go:63` | defaults apply only to a container without resources of its own | a container with claims only loses them |
| `validator/agentset.go:35` | one Service per name (`agent-discovery.md:35`) | agents `x` and `x-headless` are both admitted |
| `validator/agentset.go:80` | saturation in `[1, 100]` (`validating-webhook.md:61`) | 0 is admitted |
| `webhook/webhook.go:86` | a faulty spec is rejected (`validating-webhook.md:6`) | a replica that cannot read its certificate registers without a CA, and the API server admits what it cannot ask about |

## Not modelled, and why

Each entry of `components` in `PROJECT.json` gives its reason. In short:

* **Generated clients, informers, listers, OpenAPI, the daemon's protobuf stubs**:
  calls into libraries, and tables for them. Caches are modelled where the
  controllers read them.
* **Commands, flags, logging, metrics gauges, TLS files, environment lookups, the
  configuration file, the probe binary**: I/O or configuration without later state.
* **HTTP reverse proxy, agent card proxy**: the standard library's proxy, and one
  forwarded GET.
* **The adaptive lookback of the sampler** only chooses a query window.
* **Deletion of an AgentDeploy or AgentSet itself**: an early return; the garbage
  collector removes what they own. It is modelled where it matters, in `History`
  and `ClientCache`.
* **Services of an AgentDeploy**: the same delete-and-recreate as the Services
  in `AgentSet`; here they only make a pass fail.
* **Ports, probes, images and volumes of a pod**: constants, or copied.
* **Floating point**: the estimator and the rater compute in exact fractions here;
  rounding at the edge of a comparison is not modelled.
* **Nested decode errors of the wire format**: an embedded message is opaque bytes.
