----------------------------- MODULE ClientCache -----------------------------
(***************************************************************************)
(* The daemon clients that the drift watcher and the sampler keep, one per *)
(* AgentSet, shared by the workers: dialled when first needed, closed by a *)
(* reaper once no AgentDeploy names the AgentSet, and all closed when the  *)
(* component stops.  Watcher and Sampler have the same code for it.        *)
(*                                                                         *)
(* The mutex covers sourceFor and the eviction of reapSources, but not the *)
(* List before it nor the call a worker makes with the client it got.      *)
(***************************************************************************)
EXTENDS Integers, FiniteSets

CONSTANTS
  Deploys, Sets, SetOf,   \* AgentDeploys, AgentSets, and whose is whose
  Workers, Clients,
  None,
  MaxChanges              \* bound: how often AgentDeploys come and go, or a dial fails

ASSUME ClientCacheAssumption ==
  /\ SetOf \in [Deploys -> Sets] /\ MaxChanges \in Nat
  /\ None \notin Clients /\ None \notin Deploys
  /\ IsFiniteSet(Clients) /\ IsFiniteSet(Workers) /\ IsFiniteSet(Sets)
  /\ Cardinality(Clients) > Cardinality(Workers) + Cardinality(Sets)

VARIABLES
  live,       \* the AgentDeploys in the informer cache
  sources,    \* the cached client of each AgentSet
  open,       \* the clients that hold a connection
  worker,     \* the AgentDeploy a worker looks after, and its client
  listed,     \* the AgentSets the reaper found, or None between two rounds
  stopped,
  served,     \* the AgentDeploys whose last call succeeded
  changes

vars == <<live, sources, open, worker, listed, stopped, served, changes>>

idle == [deploy |-> None, client |-> None]
Named(deploys) == {SetOf[d] : d \in deploys}
Cached == {sources[s] : s \in Sets} \ {None}
\* A connection that nobody refers to any more may be reused as a new one.
Fresh == CHOOSE c \in Clients : c \notin open /\ \A w \in Workers : worker[w].client # c

Init ==
  /\ live \in SUBSET Deploys
  /\ sources = [s \in Sets |-> None] /\ open = {}
  /\ worker = [w \in Workers |-> idle] /\ listed = None
  /\ stopped = FALSE /\ served = {} /\ changes = 0

-----------------------------------------------------------------------------
(* Users *)

Appear(d) ==
  /\ changes < MaxChanges /\ changes' = changes + 1
  /\ d \notin live /\ live' = live \cup {d}
  /\ UNCHANGED <<sources, open, worker, listed, stopped, served>>

Vanish(d) ==
  /\ changes < MaxChanges /\ changes' = changes + 1
  /\ d \in live /\ live' = live \ {d} /\ served' = served \ {d}
  /\ UNCHANGED <<sources, open, worker, listed, stopped>>

-----------------------------------------------------------------------------
(* The workers *)

\* reconcileDrift and sampleKey read the AgentDeploy first.
Get(w, d) ==
  /\ ~stopped /\ worker[w] = idle /\ d \in live
  /\ worker' = [worker EXCEPT ![w].deploy = d]
  /\ UNCHANGED <<live, sources, open, listed, stopped, served, changes>>

\* Mutant: the cache is not looked at again under the lock.
sourceForAgain(w) ==
  /\ worker[w].deploy # None /\ worker[w].client = None
  /\ open' = open \cup {Fresh}
  /\ sources' = [sources EXCEPT ![SetOf[worker[w].deploy]] = Fresh]
  /\ worker' = [worker EXCEPT ![w].client = Fresh]
  /\ UNCHANGED <<live, listed, stopped, served, changes>>

sourceFor(w) ==
  LET s == SetOf[worker[w].deploy] IN
  /\ worker[w].deploy # None /\ worker[w].client = None
  /\ \/ /\ sources[s] # None
        /\ worker' = [worker EXCEPT ![w].client = sources[s]]
        /\ UNCHANGED <<sources, open>>
     \/ /\ sources[s] = None
        /\ open' = open \cup {Fresh} /\ sources' = [sources EXCEPT ![s] = Fresh]
        /\ worker' = [worker EXCEPT ![w].client = Fresh]
  /\ UNCHANGED <<live, listed, stopped, served, changes>>

DialFails(w) ==
  /\ worker[w].deploy # None /\ worker[w].client = None
  /\ sources[SetOf[worker[w].deploy]] = None
  /\ changes < MaxChanges /\ changes' = changes + 1
  /\ worker' = [worker EXCEPT ![w] = idle]
  /\ UNCHANGED <<live, sources, open, listed, stopped, served>>

\* The call to the daemon; on a closed connection it fails.
Call(w) ==
  /\ worker[w].client # None
  /\ served' = IF worker[w].client \in open /\ worker[w].deploy \in live
                 THEN served \cup {worker[w].deploy} ELSE served \ {worker[w].deploy}
  /\ worker' = [worker EXCEPT ![w] = idle]
  /\ UNCHANGED <<live, sources, open, listed, stopped, changes>>

-----------------------------------------------------------------------------
(* The reaper *)

List ==
  /\ ~stopped /\ listed = None /\ listed' = Named(live)
  /\ UNCHANGED <<live, sources, open, worker, stopped, served, changes>>

\* Mutant: clients are closed and stay in the cache.
CloseKept(sets) ==
  /\ UNCHANGED sources
  /\ open' = open \ {sources[s] : s \in sets}
closeSource(sets) ==
  /\ sources' = [s \in Sets |-> IF s \in sets THEN None ELSE sources[s]]
  /\ open' = open \ {sources[s] : s \in sets}

reapSources ==
  /\ listed # None /\ listed' = None
  /\ closeSource(Sets \ listed)
  /\ UNCHANGED <<live, worker, stopped, served, changes>>

\* Start returns without waiting for the workers, then closes everything.
closeAllSources ==
  /\ ~stopped /\ stopped' = TRUE
  /\ closeSource(Sets)
  /\ UNCHANGED <<live, worker, listed, served, changes>>

Next ==
  \/ \E d \in Deploys : Appear(d) \/ Vanish(d)
  \/ \E w \in Workers :
       \/ \E d \in Deploys : Get(w, d)
       \/ sourceFor(w) \/ DialFails(w) \/ Call(w)
  \/ List \/ reapSources \/ closeAllSources

Spec == Init /\ [][Next]_vars

\* The runner hands every tracked key round, a call ends by its timeout, and
\* the reaper ticks.
FairSpec ==
  /\ Spec
  /\ WF_vars(List) /\ WF_vars(reapSources)
  /\ \A w \in Workers : WF_vars(sourceFor(w)) /\ WF_vars(Call(w))
  /\ \A d \in Deploys : SF_vars(\E w \in Workers : Get(w, d))

-----------------------------------------------------------------------------
(* One client per AgentSet: the connections that are open are exactly the  *)
(* cached ones, whatever workers, reaper and shutdown do at the same time, *)
(* so none leaks and no worker is handed a closed one by the cache.        *)
OneOpenPerSet ==
  /\ open = Cached
  /\ \A s, t \in Sets : sources[s] # None /\ sources[s] = sources[t] => s = t

(* A daemon whose AgentSet has no AgentDeploy left is let go of.           *)
EventuallyReaped ==
  \A s \in Sets : (s \notin Named(live)) ~> (sources[s] = None \/ s \in Named(live) \/ stopped)

(* An AgentDeploy that stays is served in the end, even if the reaper      *)
(* closed the client under a worker that was using it.                     *)
EventuallyServed ==
  \A d \in Deploys : (d \in live) ~> (d \in served \/ d \notin live \/ stopped)
=============================================================================
