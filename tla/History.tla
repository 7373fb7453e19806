------------------------------- MODULE History -------------------------------
(***************************************************************************)
(* The load history of one AgentDeploy: the Sampler's workers record into  *)
(* a ConfigMapStore found through the Registry, and the store is flushed   *)
(* to, and after a restart loaded from, a ConfigMap                        *)
(* (pkg/reconciler/agentdeploy/scaling: sampling, history).                *)
(*                                                                         *)
(* A record is the hash it was tagged with and its age, counted up to the  *)
(* bound at which it is too old.  Whether a flush is due is left open.     *)
(* ConfigMaps are read from the cache of the manager's client and written  *)
(* to the API server, which refuses an update of an old version.  Store    *)
(* objects are named by Stores; one that nobody refers to is reused.       *)
(***************************************************************************)
EXTENDS Integers, Sequences, FiniteSets, FiniteSetsExt

CONSTANTS
  Workers,
  Closer,       \* the flush when the leader stops
  Hashes,       \* pod spec hashes
  None,         \* no hash, no store, no ConfigMap
  MaxRecords,   \* record cap of a buffer
  MaxAge,       \* age horizon of a buffer
  MaxUid,       \* bound: AgentDeploys created under the name
  MaxRollouts,  \* bound
  MaxFaults     \* bound: leader changes, and failed reads of the ConfigMap in Load

ASSUME HistoryAssumption ==
  /\ IsFiniteSet(Workers) /\ Closer \notin Workers
  /\ Hashes # {} /\ None \notin Hashes \cup Nat /\ MaxRecords \in Nat

Threads == Workers \cup {Closer}
Stores == 1 .. Cardinality(Workers) + 1

VARIABLES
  ad,        \* the AgentDeploy: uid (0: there is none) and status.updateHash
  queued,    \* the controller has a change to reconcile
  tracked,   \* the key is in the Sampler's WorkSet
  registry,  \* the store registered for the key
  store,     \* the store objects
  cm,        \* the ConfigMap
  view,      \* the ConfigMap in the cache
  current,   \* which is the latest
  thread,
  stopping,  \* the leader is stopping in an orderly way
  rollouts, restarts, loadFails,
  raced,     \* Load, Record or Flush has overlapped with another of them on one store
  overlapped \* a pass over the key has begun before another one was over

vars == <<ad, queued, tracked, registry, store, cm, view, current, thread, stopping,
          rollouts, restarts, loadFails, raced, overlapped>>
maps == <<cm, view, current>>
bounds == <<rollouts, restarts, loadFails>>
ghosts == <<raced, overlapped>>
world == <<ad, queued, tracked, stopping, rollouts, restarts>>

Faults == restarts + loadFails

Record == [under : Hashes, age : 0 .. MaxAge + 1]
Blob == [spec : Hashes \cup {None},
         records : UNION {[1 .. n -> Record] : n \in 0 .. MaxRecords}]

\* Before its first flush or load a store has no hash and no records.
empty == [spec |-> None, records |-> <<>>]
idle == [pc |-> "idle", ad |-> [uid |-> 0, hash |-> None], store |-> None,
         blob |-> empty, seen |-> "none"]

TypeOK ==
  /\ ad \in [uid : 0 .. MaxUid, hash : Hashes]
  /\ queued \in BOOLEAN /\ tracked \in BOOLEAN
  /\ registry \in Stores \cup {None}
  /\ \A s \in Stores : store[s].owner \in 0 .. MaxUid /\ store[s].buf \in Blob
  /\ \A m \in {cm, view} : m = None \/ (m.owner \in 1 .. MaxUid /\ m.blob \in Blob)
  /\ current => view = cm
  /\ \A t \in Threads : thread[t].store \in Stores \cup {None} /\ thread[t].blob \in Blob

-----------------------------------------------------------------------------
(* The AgentDeploy and its controller *)

Delete ==
  /\ ad.uid # 0
  /\ ad' = [ad EXCEPT !.uid = 0] /\ queued' = TRUE
  /\ UNCHANGED <<tracked, registry, store, maps, thread, stopping, bounds, ghosts>>

\* uids are never reused; store and ConfigMap names are.
Create ==
  /\ ad.uid = 0
  /\ \E u \in 1 .. MaxUid :
       /\ \A s \in Stores : store[s].owner < u
       /\ \A m \in {cm, view} : m # None => m.owner < u
       /\ \A t \in Threads : thread[t].ad.uid < u
       /\ ad' = [ad EXCEPT !.uid = u]
  /\ queued' = TRUE
  /\ UNCHANGED <<tracked, registry, store, maps, thread, stopping, bounds, ghosts>>

\* The controller forgets a deleted AgentDeploy and tracks a live one.
Reconcile ==
  /\ queued /\ queued' = FALSE
  /\ tracked' = (ad.uid # 0)
  /\ registry' = IF ad.uid = 0 THEN None ELSE registry
  /\ UNCHANGED <<ad, store, maps, thread, stopping, bounds, ghosts>>

\* A rollout begins: the new hash is persisted before the first pod changes.
Rollout ==
  /\ ad.uid # 0 /\ rollouts < MaxRollouts /\ rollouts' = rollouts + 1
  /\ \E h \in Hashes \ {ad.hash} : ad' = [ad EXCEPT !.hash = h]
  /\ UNCHANGED <<queued, tracked, registry, store, maps, thread, stopping, restarts,
                 loadFails, ghosts>>

-----------------------------------------------------------------------------
(* The ConfigMap and its cache *)

\* The threads, once what they have read of the ConfigMap is old.
Outdated(threads) ==
  [t \in Threads |-> IF threads[t].seen = "current" THEN [threads[t] EXCEPT !.seen = "old"]
                     ELSE threads[t]]

\* The garbage collector: the owner of the ConfigMap is gone.
Collect ==
  /\ cm # None /\ cm.owner # ad.uid
  /\ cm' = None /\ current' = FALSE /\ thread' = Outdated(thread)
  /\ UNCHANGED <<world, registry, store, view, loadFails, ghosts>>

\* The watch brings the cache up to date.
Sync ==
  /\ ~current /\ current' = TRUE /\ view' = cm
  /\ UNCHANGED <<world, registry, store, cm, thread, loadFails, ghosts>>

-----------------------------------------------------------------------------
(* buffer *)

\* Where the loop over the records that are too old ends.
firstYoung(records) ==
  Min({i \in 1 .. Len(records) + 1 : i <= Len(records) => records[i].age <= MaxAge})

\* The records before the first young one go, then the oldest above the cap.
evictLocked(records) ==
  LET i == firstYoung(records)
      over == Len(records) - i + 1 - MaxRecords
  IN SubSeq(records, IF over > 0 THEN i + over ELSE i, Len(records))

add(records, r) == evictLocked(Append(records, r))

Older(records) ==
  [i \in DOMAIN records |->
     [records[i] EXCEPT !.age = IF @ <= MaxAge THEN @ + 1 ELSE @]]

\* A fraction of the horizon passes; no sample takes that long to be recorded.
Tick ==
  /\ \A t \in Threads : thread[t].pc \notin {"reset", "add"}
  /\ store' = [s \in Stores |-> [store[s] EXCEPT !.buf.records = Older(@)]]
  /\ cm' = IF cm = None THEN None ELSE [cm EXCEPT !.blob.records = Older(@)]
  /\ view' = IF view = None THEN None ELSE [view EXCEPT !.blob.records = Older(@)]
  /\ thread' = [t \in Threads |-> [thread[t] EXCEPT !.blob.records = Older(@)]]
  /\ UNCHANGED <<world, registry, current, loadFails, ghosts>>

-----------------------------------------------------------------------------
(* sampleKey *)

Goto(t, pc) == thread' = [thread EXCEPT ![t].pc = pc]
Done(t) == thread' = [thread EXCEPT ![t] = idle]

\* Between the locked sections of Load, Record and Flush.
Between == {"loadHash", "loadRecords", "reset", "add", "snapshot"}

\* Thread t begins such a sequence on its store.
Begins(t) ==
  raced' = (raced \/ \E u \in Threads \ {t} :
                       thread[u].store = thread[t].store /\ thread[u].pc \in Between)

Alone(t) == \A u \in Threads \ {t} : thread[u] = idle

\* A tracked key comes round.  Its object is read from the cache; a key
\* without one is forgotten on the spot.
Get(w) ==
  /\ tracked /\ ~stopping /\ thread[w] = idle
  /\ IF ad.uid = 0
     THEN tracked' = FALSE /\ registry' = None /\ UNCHANGED <<thread, overlapped>>
     ELSE /\ thread' = [thread EXCEPT ![w].pc = "store", ![w].ad = ad]
          /\ overlapped' = (overlapped \/ ~Alone(w))
          /\ UNCHANGED <<tracked, registry>>
  /\ UNCHANGED <<ad, queued, store, maps, stopping, bounds, raced>>

Unused(s) == s # registry /\ \A t \in Threads : thread[t].store # s

\* The store is published before it is loaded.
StoreFor(w) ==
  /\ thread[w].pc = "store"
  /\ IF registry # None
     THEN /\ thread' = [thread EXCEPT ![w].pc = "collect", ![w].store = registry]
          /\ UNCHANGED <<registry, store>>
     ELSE \E s \in Stores :
          /\ Unused(s) /\ \A r \in Stores : Unused(r) => s <= r
          /\ store' = [store EXCEPT ![s] = [owner |-> thread[w].ad.uid, buf |-> empty]]
          /\ registry' = s
          /\ thread' = [thread EXCEPT ![w].pc = "load", ![w].store = s]
  /\ UNCHANGED <<world, maps, loadFails, ghosts>>

\* Load reads the ConfigMap; a missing one leaves the buffer empty, and a
\* failure is logged and not tried again.
LoadGet(w) ==
  /\ thread[w].pc = "load"
  /\ \/ /\ view = None /\ Goto(w, "collect") /\ UNCHANGED <<loadFails, raced>>
     \/ /\ view # None /\ Begins(w)
        /\ thread' = [thread EXCEPT ![w].pc = "loadHash", ![w].blob = view.blob]
        /\ UNCHANGED loadFails
     \/ /\ Faults < MaxFaults /\ loadFails' = loadFails + 1
        /\ Goto(w, "collect") /\ UNCHANGED raced
  /\ UNCHANGED <<world, registry, store, maps, overlapped>>

LoadHash(w) ==
  /\ thread[w].pc = "loadHash"
  /\ store' = [store EXCEPT ![thread[w].store].buf.spec = thread[w].blob.spec]
  /\ Goto(w, "loadRecords")
  /\ UNCHANGED <<world, registry, maps, loadFails, ghosts>>

\* Mutant of LoadRecords: copied into a slice of length zero.
LoadRecordsNone(w) ==
  /\ thread[w].pc = "loadRecords"
  /\ thread' = [thread EXCEPT ![w].pc = "collect", ![w].blob = empty]
  /\ UNCHANGED <<world, registry, store, maps, loadFails, ghosts>>

LoadRecords(w) ==
  /\ thread[w].pc = "loadRecords"
  /\ store' = [store EXCEPT ![thread[w].store].buf.records = thread[w].blob.records]
  /\ thread' = [thread EXCEPT ![w].pc = "collect", ![w].blob = empty]
  /\ UNCHANGED <<world, registry, maps, loadFails, ghosts>>

Buf(t) == store[thread[t].store].buf

\* The scrape looks back over the samples in store s, which drops old ones.
samples(s) == [store EXCEPT ![s].buf.records = evictLocked(@)]

\* The daemon has no usable sample, or cannot be reached.
CollectNothing(w) ==
  /\ thread[w].pc = "collect" /\ Done(w)
  /\ store' = samples(thread[w].store)
  /\ UNCHANGED <<world, registry, maps, loadFails, ghosts>>

\* Mutant of Changed: a history of one record is not worth a reset.
ChangedIfAny(w) == Buf(w).spec \notin {None, thread[w].ad.hash} /\ Len(Buf(w).records) > 1

Changed(w) == Buf(w).spec \notin {None, thread[w].ad.hash}

\* A sample, and the hash as it was read before: Record begins.
RecordHash(w) ==
  /\ thread[w].pc = "collect"
  /\ Goto(w, IF Changed(w) THEN "reset" ELSE "add") /\ Begins(w)
  /\ store' = [samples(thread[w].store) EXCEPT ![thread[w].store].buf.spec = thread[w].ad.hash]
  /\ UNCHANGED <<world, registry, maps, loadFails, overlapped>>

Reset(w) ==
  /\ thread[w].pc = "reset" /\ Goto(w, "add")
  /\ store' = [store EXCEPT ![thread[w].store].buf.records = <<>>]
  /\ UNCHANGED <<world, registry, maps, loadFails, ghosts>>

\* The rest of the pass has no use for the object it read.
Add(w) ==
  /\ thread[w].pc = "add"
  /\ thread' = [thread EXCEPT ![w].pc = "flush", ![w].ad = idle.ad]
  /\ store' = [store EXCEPT ![thread[w].store].buf.records =
                 add(@, [under |-> thread[w].ad.hash, age |-> 0])]
  /\ UNCHANGED <<world, registry, maps, loadFails, ghosts>>

\* The Autoscaler reads the history, too.
History ==
  /\ registry # None /\ store' = samples(registry)
  /\ UNCHANGED <<world, registry, maps, thread, loadFails, ghosts>>

-----------------------------------------------------------------------------
(* Flush *)

NotDue(w) ==
  /\ thread[w].pc = "flush" /\ Done(w)
  /\ UNCHANGED <<world, registry, store, maps, loadFails, ghosts>>

\* The hash and the records are read one after the other.
FlushHash(t) ==
  /\ thread[t].pc = "flush" /\ Begins(t)
  /\ thread' = [thread EXCEPT ![t].pc = "snapshot", ![t].blob = [empty EXCEPT !.spec = Buf(t).spec]]
  /\ UNCHANGED <<world, registry, store, maps, loadFails, overlapped>>

Snapshot(t) ==
  /\ thread[t].pc = "snapshot"
  /\ thread' = [thread EXCEPT ![t].pc = "get",
                  ![t].blob = [thread[t].blob EXCEPT !.records = Buf(t).records]]
  /\ UNCHANGED <<world, registry, store, maps, loadFails, ghosts>>

\* upsert reads the ConfigMap from the cache; a failed read is logged.
UpsertGet(t) ==
  /\ thread[t].pc \in {"get", "getAgain"}
  /\ \/ thread' = [thread EXCEPT ![t].pc = IF thread[t].pc = "get" THEN "put" ELSE "putAgain",
                     ![t].seen = IF view = None THEN "none"
                                 ELSE IF current THEN "current" ELSE "old"]
     \/ Done(t)
  /\ UNCHANGED <<world, registry, store, maps, loadFails, ghosts>>

\* A write of thread t, which the cache does not show yet.
Write(t, new) ==
  /\ cm' = new /\ current' = FALSE /\ view' = view
  /\ thread' = Outdated([thread EXCEPT ![t] = idle])

\* It creates the ConfigMap, and takes one that exists already for success.
UpsertCreate(t) ==
  /\ thread[t].pc \in {"put", "putAgain"} /\ thread[t].seen = "none"
  /\ \/ Done(t) /\ UNCHANGED maps
     \/ /\ cm = None
        /\ Write(t, [owner |-> store[thread[t].store].owner, blob |-> thread[t].blob])
  /\ UNCHANGED <<world, registry, store, loadFails, ghosts>>

\* Mutant of UpsertUpdate: the blob is only set where there was none.
UpsertUpdateNew(t) ==
  /\ thread[t].pc \in {"put", "putAgain"} /\ thread[t].seen # "none"
  /\ Done(t)
  /\ UNCHANGED <<world, registry, store, maps, loadFails, ghosts>>

\* Or updates it; an old version conflicts, and is tried once more.
UpsertUpdate(t) ==
  /\ thread[t].pc \in {"put", "putAgain"} /\ thread[t].seen # "none"
  /\ \/ Done(t) /\ UNCHANGED maps
     \/ thread[t].seen = "current" /\ Write(t, [cm EXCEPT !.blob = thread[t].blob])
     \/ /\ thread[t].seen = "old" /\ cm # None /\ thread[t].pc = "put"
        /\ Goto(t, "getAgain") /\ UNCHANGED maps
  /\ UNCHANGED <<world, registry, store, loadFails, ghosts>>

Flush(t) ==
  FlushHash(t) \/ Snapshot(t) \/ UpsertGet(t) \/ UpsertCreate(t) \/ UpsertUpdate(t)

-----------------------------------------------------------------------------
(* The leader *)

\* It stops in an orderly way: what is registered is flushed, wherever the
\* workers are.
Stop ==
  /\ ~stopping /\ stopping' = TRUE
  /\ Faults < MaxFaults /\ restarts' = restarts + 1
  /\ IF registry = None THEN UNCHANGED <<thread, overlapped>>
     ELSE /\ thread' = [thread EXCEPT ![Closer].pc = "flush", ![Closer].store = registry]
          /\ overlapped' = (overlapped \/ ~Alone(Closer))
  /\ UNCHANGED <<ad, queued, tracked, registry, store, maps, rollouts, loadFails, raced>>

\* The next leader starts with an empty registry and a fresh cache, and
\* reconciles every AgentDeploy.  The last one has stopped, or crashed.
Restart ==
  /\ IF stopping THEN restarts' = restarts ELSE Faults < MaxFaults /\ restarts' = restarts + 1
  /\ stopping' = FALSE
  /\ registry' = None /\ tracked' = FALSE /\ queued' = TRUE
  /\ store' = [s \in Stores |-> [owner |-> 0, buf |-> empty]]
  /\ view' = cm /\ current' = TRUE
  /\ thread' = [t \in Threads |-> idle]
  /\ UNCHANGED <<ad, cm, rollouts, loadFails, ghosts>>

\* A leader starts, with or without the history that an earlier one has left.
Init ==
  /\ ad = [uid |-> 1, hash |-> CHOOSE h \in Hashes : TRUE]
  /\ queued = TRUE /\ tracked = FALSE /\ registry = None
  /\ LET sample == [under |-> ad.hash, age |-> 0]
         left == [owner |-> 1, blob |-> [spec |-> ad.hash, records |-> <<sample>>]]
     IN cm \in {None, left}
  /\ view = cm /\ current = TRUE
  /\ store = [s \in Stores |-> [owner |-> 0, buf |-> empty]]
  /\ thread = [t \in Threads |-> idle]
  /\ stopping = FALSE /\ rollouts = 0 /\ restarts = 0 /\ loadFails = 0
  /\ raced = FALSE /\ overlapped = FALSE

\* A pass goes on.
Proceed(w) ==
  \/ StoreFor(w) \/ LoadGet(w) \/ LoadHash(w) \/ LoadRecords(w)
  \/ CollectNothing(w) \/ RecordHash(w) \/ Reset(w) \/ Add(w) \/ NotDue(w)

Next ==
  \/ Delete \/ Create \/ Reconcile \/ Rollout \/ Collect \/ Sync \/ Tick \/ History
  \/ \E w \in Workers : Get(w) \/ Proceed(w)
  \/ \E t \in Threads : Flush(t)
  \/ Stop \/ Restart

Spec == Init /\ [][Next]_vars

Reads(t) == UpsertGet(t) /\ thread'[t].pc # "idle"
Writes(t) == (UpsertCreate(t) \/ UpsertUpdate(t)) /\ cm' # cm

\* Time passes; the controller, the watch and the workers go on, and another
\* leader takes over from one that stops.  Among the samples, flushes and API
\* calls some succeed again and again.
Fairness ==
  /\ SF_vars(Tick) /\ WF_vars(Reconcile) /\ WF_vars(Sync) /\ WF_vars(stopping /\ Restart)
  /\ WF_vars(\E w \in Workers : Get(w) \/ Proceed(w) \/ Flush(w))
  /\ SF_vars(\E w \in Workers : RecordHash(w)) /\ SF_vars(\E w \in Workers : FlushHash(w))
  /\ SF_vars(\E w \in Workers : Reads(w)) /\ SF_vars(\E w \in Workers : Writes(w))

FairSpec == Spec /\ Fairness

-----------------------------------------------------------------------------
(* Properties *)

Busy(s) == \E t \in Threads : thread[t].store = s /\ thread[t].pc \in {"loadRecords", "reset"}
Single(b) == \A i \in DOMAIN b.records : b.records[i].under = b.spec
Young(b) == {i \in DOMAIN b.records : b.records[i].age <= MaxAge}

\* A store's records were all recorded under the one hash the store carries,
\* and so were those of the ConfigMap, also in the cache: Record drops the
\* history of another spec, also one loaded after a restart.  Only a Load,
\* Record or Flush that another one of the same store cut into breaks this.
OneSpecOnly ==
  ~raced =>
    /\ registry # None /\ ~Busy(registry) => Single(store[registry].buf)
    /\ \A m \in {cm, view} : m # None => Single(m.blob)

\* What is persisted for a pod spec is never replaced by less of it, but for
\* what is too old: a restart does not make an agent relearn its capacity
\* (Load before Record, Flush).  Not if the load of it failed, not for a spec
\* that is rolled back to after two rollouts, and not if two passes overlapped,
\* of which the later may write down what it had read before.
NothingRelearned ==
  [][(/\ ad.uid = 1 /\ cm # None /\ cm' # None /\ cm.blob.spec = cm'.blob.spec
      /\ rollouts < 2 /\ loadFails = 0 /\ ~overlapped /\ ~Tick)
       => Cardinality(Young(cm'.blob)) >= Cardinality(Young(cm.blob))]_vars

\* The history of a pod spec that stays is persisted in the end, whatever
\* fails on the way, and nothing but it: what overlapping calls have mixed up
\* grows too old (FlushIfDue, upsert, evictLocked).  An AgentDeploy recreated
\* under the same name may go on with the store of its predecessor, whose
\* ConfigMap is collected again and again.
EventuallyPersisted ==
  \A h \in Hashes :
    <>[](ad.uid = 1 /\ ad.hash = h) => <>[](cm # None /\ cm.blob.spec = h /\ Single(cm.blob))
=============================================================================
