------------------------------- MODULE WorkSet -------------------------------
(***************************************************************************)
(* A WorkSet (pkg/shared/workset): the set of keys a background component  *)
(* looks after, an assigner that hands them round, and its workers.  The   *)
(* AgentDeploy controller tracks and forgets keys from its reconcile       *)
(* passes; a worker that finds its object deleted or switched off forgets  *)
(* the key itself (reconcileDrift, scaleKey, sampleKey).                   *)
(*                                                                         *)
(* An object is "live" when the component has to look after it; "idle"     *)
(* stands for deleted, being deleted, or switched off.  The order in which *)
(* a batch is handed out is that of a Go map, hence left open.  The pauses *)
(* of the assigner only pace it.  A controller pass reads and tracks in    *)
(* one step: a change in between queues the next pass.                     *)
(***************************************************************************)
EXTENDS Integers

CONSTANTS
  Keys, Workers,
  NoKey,       \* a worker that waits
  MaxChanges   \* bound: how often objects come and go

VARIABLES
  object,   \* what the informer cache holds for each key
  queued,   \* keys whose change the controller has yet to reconcile
  keys,     \* the tracked keys
  batch,    \* what is left of the assigner's snapshot
  worker,   \* the key each worker is busy with, and how far it is
  changes

vars == <<object, queued, keys, batch, worker, changes>>

idle == [key |-> NoKey, pc |-> "idle"]

TypeOK ==
  /\ object \in [Keys -> {"live", "idle"}]
  /\ queued \subseteq Keys /\ keys \subseteq Keys /\ batch \subseteq Keys
  /\ worker \in [Workers -> {idle} \cup [key : Keys, pc : {"read", "work", "forget"}]]
  /\ changes \in 0 .. MaxChanges

-----------------------------------------------------------------------------
(* Users and the controller *)

Switch(k) ==
  /\ changes < MaxChanges /\ changes' = changes + 1
  /\ object' = [object EXCEPT ![k] = IF @ = "live" THEN "idle" ELSE "live"]
  /\ queued' = queued \cup {k}
  /\ UNCHANGED <<keys, batch, worker>>

Track(k) == keys' = keys \cup {k}

Forget(k) == keys' = keys \ {k}

Reconcile(k) ==
  /\ k \in queued /\ queued' = queued \ {k}
  /\ IF object[k] = "live" THEN Track(k) ELSE Forget(k)
  /\ UNCHANGED <<object, batch, worker, changes>>

-----------------------------------------------------------------------------
(* The runner *)

Snapshot == keys

\* Mutant of Round: a batch is topped up with what is tracked meanwhile.
RoundTopped == batch \cup Snapshot

\* The rest of the batch, or a new one at the boundary of a cycle.
Round == IF batch = {} THEN Snapshot ELSE batch

\* The channel has no buffer: a key passes when a worker takes it.
Assign(w, k) ==
  /\ worker[w] = idle
  /\ k \in Round /\ batch' = Round \ {k}
  /\ worker' = [worker EXCEPT ![w] = [key |-> k, pc |-> "read"]]
  /\ UNCHANGED <<object, queued, keys, changes>>

\* The worker reads the object of its key.
Read(w) ==
  /\ worker[w].pc = "read"
  /\ worker' = [worker EXCEPT ![w].pc =
                  IF object[worker[w].key] = "live" THEN "work" ELSE "forget"]
  /\ UNCHANGED <<object, queued, keys, batch, changes>>

\* It acts on what it read, or fails, which is only logged.
Work(w) ==
  /\ worker[w].pc = "work"
  /\ worker' = [worker EXCEPT ![w] = idle]
  /\ UNCHANGED <<object, queued, keys, batch, changes>>

WorkerForgets(w) ==
  /\ worker[w].pc = "forget"
  /\ Forget(worker[w].key)
  /\ worker' = [worker EXCEPT ![w] = idle]
  /\ UNCHANGED <<object, queued, batch, changes>>

Init ==
  /\ object \in [Keys -> {"live", "idle"}]
  /\ queued = Keys
  /\ keys = {} /\ batch = {}
  /\ worker = [w \in Workers |-> idle]
  /\ changes = 0

Processes(w) == Read(w) \/ Work(w) \/ WorkerForgets(w)
AssignAny == \E w \in Workers, k \in Keys : Assign(w, k)

Next ==
  \/ \E k \in Keys : Switch(k) \/ Reconcile(k)
  \/ \E w \in Workers : Processes(w)
  \/ AssignAny

Spec == Init /\ [][Next]_vars

\* The controller's queue is worked off, the assigner goes on, and every
\* call a worker makes has a timeout.
Fairness ==
  /\ \A k \in Keys : WF_vars(Reconcile(k))
  /\ \A w \in Workers : WF_vars(Processes(w))
  /\ WF_vars(AssignAny)

FairSpec == Spec /\ Fairness

-----------------------------------------------------------------------------
(* Properties *)

InHand(k) == \E w \in Workers : worker[w].key = k

\* A key that stays tracked is processed again and again, whatever comes and
\* goes around it and however long others take (round robin of Start).
TrackedServed == \A k \in Keys : <>[](k \in keys) => []<>InHand(k)

\* An object that stays out is let go of in the end: the key leaves the set,
\* the batch and the workers, also when it is forgotten in mid-cycle.
IdleLeftAlone ==
  \A k \in Keys : <>[](object[k] = "idle") => <>[](k \notin keys /\ ~InHand(k))
=============================================================================
