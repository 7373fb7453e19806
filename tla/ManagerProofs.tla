---------------------------- MODULE ManagerProofs ----------------------------
(***************************************************************************)
(* Proofs about what runs in the manager beside the reconcilers: no daemon *)
(* client leaks and none is cached twice, for any number of workers,       *)
(* AgentSets and AgentDeploys; the webhook's replicas implement            *)
(* CertAgreement, for any number of replicas and of faults.  Both hold of  *)
(* the composition that the model checker explores.                        *)
(***************************************************************************)
EXTENDS MCManager, Sequences, FiniteSetTheorems, TLAPS

(* The clients *)

ClientsTyped ==
  /\ sources \in [Sets -> Clients \cup {None}]
  /\ worker \in [Workers -> [deploy : Deploys \cup {None}, client : Clients \cup {None}]]

ClientsInv == ClientsTyped /\ OneOpenPerSet

\* What a function takes its arguments to has no more members than they have.
LEMMA ImageBound ==
  ASSUME NEW S, IsFiniteSet(S), NEW f, f = [x \in S |-> f[x]]
  PROVE  LET T == {f[x] : x \in S}
         IN  IsFiniteSet(T) /\ Cardinality(T) <= Cardinality(S)
<1> DEFINE T == {f[x] : x \in S}
<1>1. f \in Surjection(S, T)
  BY Zenon DEF Surjection
<1> QED
  BY <1>1, FS_Surjection, Zenon

\* There is always a connection to dial with: the cache and the workers refer to
\* fewer of them than there are.
LEMMA FreshUnused ==
  ASSUME ClientsInv
  PROVE  Fresh \in Clients /\ Fresh \notin open
<1> DEFINE Of   == [w \in Workers |-> worker[w].client]
           Kept == {sources[s] : s \in Sets}
           Busy == {Of[w] : w \in Workers}
<1>1. IsFiniteSet(Kept) /\ Cardinality(Kept) <= Cardinality(Sets)
  BY ImageBound, ClientCacheAssumption DEF ClientsInv, ClientsTyped
<1>2. IsFiniteSet(Busy) /\ Cardinality(Busy) <= Cardinality(Workers)
  <2>1. Of = [w \in Workers |-> Of[w]]
    BY Zenon
  <2> HIDE DEF Of
  <2> QED
    BY <2>1, ImageBound, ClientCacheAssumption, Zenon
<1>3. IsFiniteSet(Kept \cup Busy) /\ Cardinality(Kept \cup Busy) <= Cardinality(Kept) + Cardinality(Busy)
  <2>1. IsFiniteSet(Kept \cap Busy)
    BY <1>1, FS_Subset, Zenon
  <2> HIDE DEF Kept, Busy
  <2>2. /\ IsFiniteSet(Kept \cup Busy)
        /\ Cardinality(Kept \cup Busy)
             = Cardinality(Kept) + Cardinality(Busy) - Cardinality(Kept \cap Busy)
    BY <1>1, <1>2, FS_Union, Zenon
  <2>3. /\ Cardinality(Kept) \in Nat /\ Cardinality(Busy) \in Nat
        /\ Cardinality(Kept \cap Busy) \in Nat
    BY <1>1, <1>2, <2>1, FS_CardinalityType, Zenon
  <2> QED
    BY <2>2, <2>3
<1>4. ~(Clients \subseteq Kept \cup Busy)
  <2> SUFFICES ASSUME Clients \in SUBSET (Kept \cup Busy) PROVE FALSE
    BY Zenon
  <2>1. Cardinality(Clients) <= Cardinality(Kept \cup Busy)
    BY <1>3, FS_Subset, Zenon
  <2>2. /\ Cardinality(Kept) \in Nat /\ Cardinality(Busy) \in Nat
        /\ Cardinality(Kept \cup Busy) \in Nat /\ Cardinality(Clients) \in Nat
        /\ Cardinality(Workers) \in Nat /\ Cardinality(Sets) \in Nat
    BY <1>1, <1>2, <1>3, FS_CardinalityType, ClientCacheAssumption, Zenon
  <2> HIDE DEF Kept, Busy
  <2> QED
    BY <1>1, <1>2, <1>3, <2>1, <2>2, ClientCacheAssumption
<1>5. PICK c \in Clients : c \notin Kept \cup Busy
  BY <1>4, Zenon
<1>6. c \notin open /\ \A w \in Workers : worker[w].client # c
  BY <1>5, Zenon DEF ClientsInv, OneOpenPerSet, Cached
<1> QED
  BY <1>6, Zenon DEF Fresh

\* Closing the clients of some AgentSets leaves the others cached and open.
LEMMA CloseKeeps ==
  ASSUME ClientsInv, NEW sets \in SUBSET Sets, closeSource(sets)
  PROVE  sources' \in [Sets -> Clients \cup {None}] /\ OneOpenPerSet'
BY DEF ClientsInv, ClientsTyped, OneOpenPerSet, Cached, closeSource

\* The clients that are open are exactly the cached ones, one per AgentSet, for
\* every number of workers that dial, call and are reaped under (sourceFor,
\* reapSources, closeAllSources).
THEOREM NoClientLeaks == Spec => []OneOpenPerSet
<1>1. Init => ClientsInv
  BY DEF Init, ClientsInv, ClientsTyped, OneOpenPerSet, Cached, idle
<1>2. ClientsInv /\ [Next]_vars => ClientsInv'
  <2> SUFFICES ASSUME ClientsInv, [Next]_vars PROVE ClientsInv'
    BY Zenon
  <2>0. ASSUME UNCHANGED <<sources, open>>, ClientsTyped' PROVE ClientsInv'
    BY <2>0, Zenon DEF ClientsInv, OneOpenPerSet, Cached
  <2>1. ASSUME NEW d \in Deploys, Appear(d) \/ Vanish(d) PROVE ClientsInv'
    BY <2>0, <2>1, Zenon DEF ClientsInv, ClientsTyped, Appear, Vanish
  <2>2. ASSUME NEW w \in Workers, NEW d \in Deploys, Get(w, d) PROVE ClientsInv'
    BY <2>0, <2>2, Zenon DEF ClientsInv, ClientsTyped, Get
  <2>3. ASSUME NEW w \in Workers, sourceFor(w) PROVE ClientsInv'
    <3> DEFINE s == SetOf[worker[w].deploy]
    <3>1. s \in Sets
      BY <2>3, ClientCacheAssumption, Zenon DEF ClientsInv, ClientsTyped, sourceFor
    <3>2. CASE sources[s] # None
      BY <2>0, <2>3, <3>1, <3>2 DEF ClientsInv, ClientsTyped, sourceFor
    <3>3. CASE sources[s] = None
      <4>1. Fresh \in Clients /\ Fresh \notin Cached /\ Fresh # None
        BY FreshUnused, ClientCacheAssumption, Zenon DEF ClientsInv, OneOpenPerSet
      <4>2. open' = open \cup {Fresh} /\ sources' = [sources EXCEPT ![s] = Fresh]
        BY <2>3, <3>3, Zenon DEF sourceFor
      <4>3. ClientsTyped'
        BY <2>3, <3>1, <3>3, <4>1 DEF ClientsInv, ClientsTyped, sourceFor
      <4>4. Cached' = Cached \cup {Fresh}
        BY <3>1, <3>3, <4>1, <4>2 DEF Cached, ClientsInv, ClientsTyped
      <4>5. \A u, v \in Sets : sources'[u] # None /\ sources'[u] = sources'[v] => u = v
        BY <3>1, <4>1, <4>2 DEF ClientsInv, ClientsTyped, OneOpenPerSet, Cached
      <4> QED
        BY <4>2, <4>3, <4>4, <4>5, Zenon DEF ClientsInv, OneOpenPerSet
    <3> QED
      BY <3>2, <3>3, Zenon
  <2>4. ASSUME NEW w \in Workers, DialFails(w) \/ Call(w) PROVE ClientsInv'
    BY <2>0, <2>4 DEF ClientsInv, ClientsTyped, DialFails, Call, idle
  <2>5. CASE List
    BY <2>0, <2>5, Zenon DEF ClientsInv, ClientsTyped, List
  <2>6. CASE reapSources
    BY <2>6, CloseKeeps, Zenon DEF ClientsInv, ClientsTyped, reapSources
  <2>7. CASE closeAllSources
    BY <2>7, CloseKeeps, Zenon DEF ClientsInv, ClientsTyped, closeAllSources
  <2>8. CASE UNCHANGED vars
    BY <2>0, <2>8, Zenon DEF vars, ClientsInv, ClientsTyped
  <2> QED
    BY <2>1, <2>2, <2>3, <2>4, <2>5, <2>6, <2>7, <2>8, Zenon DEF Next
<1> QED
  BY <1>1, <1>2, PTL DEF Spec, ClientsInv

-----------------------------------------------------------------------------
(* The webhook *)

ReplicaSteps == {"get", "generate", "create", "reread", "register", "compare", "update",
          "listen", "serving", "exited"}
FaultKinds == {"crash", "api", "delete"}

CertSets == (Nat \ {0}) \cup {None}

WebhookTyped ==
  /\ secret \in CertSets
  /\ config \in [ca : CertSets, version : Nat]
  /\ pc \in [Replicas -> ReplicaSteps]
  /\ certs \in [Replicas -> CertSets]
  /\ seen \in [Replicas -> Nat]
  /\ generated \in Nat
  /\ leaked \in BOOLEAN
  /\ faults \in Seq(FaultKinds)

\* A replica about to create the Secret has something to put in it.
CertMade == \A r \in Replicas : pc[r] = "create" => certs[r] # None

WebhookInv == WebhookTyped /\ CertMade

\* The state that every action leaves well typed, and CertMade true (configureCerts).
LEMMA WebhookInvHolds ==
  ASSUME None \notin Nat
  PROVE  Webhook!Spec => []WebhookInv
<1>1. Webhook!Init => WebhookInv
  <2> SUFFICES ASSUME Webhook!Init PROVE WebhookInv
    BY Zenon
  <2> USE DEF Webhook!Init, Webhook!Absent
  <2>1. None \in CertSets
    BY Zenon DEF CertSets
  <2>2. faults \in Seq(FaultKinds)
    OBVIOUS
  <2>3. pc \in [Replicas -> ReplicaSteps]
    BY Zenon DEF ReplicaSteps
  <2>4. config \in [ca : CertSets, version : Nat]
    BY <2>1, Zenon
  <2> QED
    BY <2>1, <2>2, <2>3, <2>4, Zenon DEF WebhookInv, WebhookTyped, CertMade
<1>2. WebhookInv /\ [Webhook!Next]_webhookVars => WebhookInv'
  <2> SUFFICES ASSUME WebhookInv, [Webhook!Next]_webhookVars PROVE WebhookInv'
    BY Zenon
  <2> USE DEF WebhookInv, WebhookTyped, CertMade, ReplicaSteps
  <2>a. None \in CertSets /\ \A n \in Nat : n + 1 \in CertSets /\ n + 1 # None
    BY DEF CertSets
  <2>0. ASSUME NEW kind \in FaultKinds, Webhook!Fault(kind) PROVE faults' \in Seq(FaultKinds)
    BY <2>0 DEF Webhook!Fault, FaultKinds
  <2>1. ASSUME NEW r \in Replicas, Webhook!GetSecret(r) PROVE WebhookInv'
    BY <2>a, <2>1, Zenon DEF Webhook!GetSecret, Webhook!Load, Webhook!Goto
  <2>2. ASSUME NEW r \in Replicas, Webhook!generateSecret(r) PROVE WebhookInv'
    BY <2>a, <2>2 DEF Webhook!generateSecret, Webhook!Load, Webhook!Goto
  <2>3. ASSUME NEW r \in Replicas, Webhook!CreateSecret(r) PROVE WebhookInv'
    BY <2>a, <2>3, Zenon DEF Webhook!CreateSecret, Webhook!Goto
  <2>4. ASSUME NEW r \in Replicas, Webhook!Reread(r) PROVE WebhookInv'
    BY <2>a, <2>4, Zenon DEF Webhook!Reread, Webhook!Load, Webhook!Goto
  <2>5. ASSUME NEW r \in Replicas, Webhook!ConfigureFails(r) PROVE WebhookInv'
    BY <2>a, <2>0, <2>5, Zenon DEF FaultKinds, Webhook!ConfigureFails, Webhook!Load, Webhook!Goto
  <2>6. ASSUME NEW r \in Replicas, Webhook!CreateWebhook(r) PROVE WebhookInv'
    <3>1. config' \in [ca : CertSets, version : Nat]
      BY <2>6 DEF Webhook!CreateWebhook
    <3> QED
      BY <2>6, <3>1, Zenon DEF Webhook!CreateWebhook, Webhook!Goto
  <2>7. ASSUME NEW r \in Replicas, Webhook!CompareWebhook(r) PROVE WebhookInv'
    BY <2>a, <2>7, Zenon DEF Webhook!CompareWebhook, Webhook!Goto
  <2>8. ASSUME NEW r \in Replicas, Webhook!UpdateWebhook(r) PROVE WebhookInv'
    <3>1. config' \in [ca : CertSets, version : Nat]
      BY <2>8 DEF Webhook!UpdateWebhook
    <3> QED
      BY <2>8, <3>1, Zenon DEF Webhook!UpdateWebhook, Webhook!Goto
  <2>9. ASSUME NEW r \in Replicas, Webhook!RegisterFails(r) PROVE WebhookInv'
    BY <2>a, <2>0, <2>9, Zenon DEF FaultKinds, Webhook!RegisterFails, Webhook!Goto
  <2>10. ASSUME NEW r \in Replicas, Webhook!ListenAndServeTLS(r) PROVE WebhookInv'
    BY <2>a, <2>10, Zenon DEF Webhook!ListenAndServeTLS, Webhook!Goto
  <2>11. ASSUME NEW r \in Replicas, Webhook!Review(r) PROVE WebhookInv'
    BY <2>a, <2>11, Zenon DEF Webhook!Review
  <2>12. ASSUME NEW r \in Replicas, Webhook!Crash(r) PROVE WebhookInv'
    BY <2>a, <2>0, <2>12, Zenon DEF FaultKinds, Webhook!Crash, Webhook!Goto
  <2>13. ASSUME NEW r \in Replicas, Webhook!Restart(r) PROVE WebhookInv'
    BY <2>a, <2>13, Zenon DEF Webhook!Restart, Webhook!Goto, Webhook!Load
  <2>14. CASE Webhook!DeleteSecret
    BY <2>a, <2>0, <2>14, Zenon DEF FaultKinds, Webhook!DeleteSecret
  <2>15. CASE UNCHANGED webhookVars
    BY <2>15, Zenon DEF Webhook!vars, webhookVars
  <2> QED
    BY <2>1, <2>2, <2>3, <2>4, <2>5, <2>6, <2>7, <2>8, <2>9, <2>10, <2>11, <2>12, <2>13,
       <2>14, <2>15 DEF Webhook!Next, Webhook!Runs, Webhook!Starts, webhookVars
<1> QED
  BY <1>1, <1>2, PTL DEF Webhook!Spec, Webhook!vars, webhookVars

-----------------------------------------------------------------------------
(* Refinement *)

Holds == [r \in Replicas |-> IF Webhook!Configured(r) THEN certs[r] ELSE None]

\* Each replica that loads, creates or gives up certificates takes a step of
\* CertAgreement, and so does whoever deletes the Secret; every other step leaves
\* the choice and what replicas go by alone (configureCerts, register).
LEMMA StepsRefine ==
  ASSUME None \notin Nat, WebhookInv, [Webhook!Next]_webhookVars
  PROVE  [Webhook!Agreement!Next]_<<secret, Holds>>
<1> USE DEF WebhookInv, WebhookTyped, CertMade, Holds, Webhook!Configured
<1>a. \A c \in CertSets : c # None => c \in Nat \ {0}
  BY Zenon DEF CertSets
<1>1. ASSUME NEW r \in Replicas, Webhook!GetSecret(r) PROVE [Webhook!Agreement!Next]_<<secret, Holds>>
  <2>1. CASE secret = None
    BY <1>1, <2>1, Zenon DEF Webhook!GetSecret, Webhook!Load, Webhook!Goto, Webhook!Agreement!Next
  <2>2. CASE secret # None
    <3>1. Webhook!Agreement!Adopt(r)
      BY <1>1, <2>2, Zenon DEF Webhook!GetSecret, Webhook!Load, Webhook!Goto, Webhook!Agreement!Adopt
    <3> QED
      BY <3>1, Zenon DEF Webhook!Agreement!Next
  <2> QED
    BY <2>1, <2>2, Zenon
<1>2. ASSUME NEW r \in Replicas, Webhook!generateSecret(r) PROVE [Webhook!Agreement!Next]_<<secret, Holds>>
  BY <1>2, Zenon DEF Webhook!generateSecret, Webhook!Load, Webhook!Goto
<1>3. ASSUME NEW r \in Replicas, Webhook!CreateSecret(r) PROVE [Webhook!Agreement!Next]_<<secret, Holds>>
  <2>1. CASE secret = None
    <3>1. Webhook!Agreement!Choose
      BY <1>a, <1>3, <2>1, Zenon DEF Webhook!CreateSecret, Webhook!Goto, Webhook!Agreement!Choose
    <3> QED
      BY <3>1, Zenon DEF Webhook!Agreement!Next
  <2>2. CASE secret # None
    BY <1>3, <2>2, Zenon DEF Webhook!CreateSecret, Webhook!Goto
  <2> QED
    BY <2>1, <2>2
<1>4. ASSUME NEW r \in Replicas, Webhook!Reread(r) PROVE [Webhook!Agreement!Next]_<<secret, Holds>>
  <2>1. Webhook!Agreement!Adopt(r)
    BY <1>4, Zenon DEF Webhook!Reread, Webhook!Load, Webhook!Goto, Webhook!Agreement!Adopt
  <2> QED
    BY <2>1 DEF Webhook!Agreement!Next
<1>5. ASSUME NEW r \in Replicas, Webhook!ConfigureFails(r) PROVE [Webhook!Agreement!Next]_<<secret, Holds>>
  BY <1>5, Zenon DEF Webhook!ConfigureFails, Webhook!Load, Webhook!Goto
<1>6. ASSUME NEW r \in Replicas, Webhook!CreateWebhook(r) PROVE [Webhook!Agreement!Next]_<<secret, Holds>>
  BY <1>6, Zenon DEF Webhook!CreateWebhook, Webhook!Goto
<1>7. ASSUME NEW r \in Replicas, Webhook!CompareWebhook(r) PROVE [Webhook!Agreement!Next]_<<secret, Holds>>
  BY <1>7, Zenon DEF Webhook!CompareWebhook, Webhook!Goto
<1>8. ASSUME NEW r \in Replicas, pc[r] \in ReplicaSteps, Webhook!Goto(r, "exited"), UNCHANGED <<secret, certs>>
      PROVE  [Webhook!Agreement!Next]_<<secret, Holds>>
  <2>1. Webhook!Agreement!Drop(r)
    BY <1>8, Zenon DEF Webhook!Goto, Webhook!Agreement!Drop
  <2> QED
    BY <2>1, Zenon DEF Webhook!Agreement!Next
<1>9. ASSUME NEW r \in Replicas, Webhook!UpdateWebhook(r) PROVE [Webhook!Agreement!Next]_<<secret, Holds>>
  <2>1. CASE pc'[r] = "exited"
    BY <1>8, <1>9, <2>1, Zenon DEF Webhook!UpdateWebhook, Webhook!Goto
  <2>2. CASE pc'[r] # "exited"
    BY <1>9, <2>2, Zenon DEF Webhook!UpdateWebhook, Webhook!Goto
  <2> QED
    BY <2>1, <2>2, Zenon
<1>10. ASSUME NEW r \in Replicas, Webhook!RegisterFails(r) PROVE [Webhook!Agreement!Next]_<<secret, Holds>>
  BY <1>8, <1>10, Zenon DEF Webhook!RegisterFails, ReplicaSteps
<1>11. ASSUME NEW r \in Replicas, Webhook!ListenAndServeTLS(r) PROVE [Webhook!Agreement!Next]_<<secret, Holds>>
  BY <1>11, Zenon DEF Webhook!ListenAndServeTLS, Webhook!Goto
<1>12. ASSUME NEW r \in Replicas, Webhook!Review(r) PROVE [Webhook!Agreement!Next]_<<secret, Holds>>
  BY <1>12, Zenon DEF Webhook!Review
<1>13. ASSUME NEW r \in Replicas, Webhook!Crash(r) PROVE [Webhook!Agreement!Next]_<<secret, Holds>>
  BY <1>8, <1>13, Zenon DEF Webhook!Crash, ReplicaSteps
<1>14. ASSUME NEW r \in Replicas, Webhook!Restart(r) PROVE [Webhook!Agreement!Next]_<<secret, Holds>>
  BY <1>14, Zenon DEF Webhook!Restart, Webhook!Goto, Webhook!Load
<1>15. CASE Webhook!DeleteSecret
  <2>1. Webhook!Agreement!Lose
    BY <1>15, Zenon DEF Webhook!DeleteSecret, Webhook!Agreement!Lose
  <2> QED
    BY <2>1, Zenon DEF Webhook!Agreement!Next
<1>16. CASE UNCHANGED webhookVars
  BY <1>16, Zenon DEF Webhook!vars, webhookVars
<1> QED
  BY <1>1, <1>2, <1>3, <1>4, <1>5, <1>6, <1>7, <1>9, <1>10, <1>11, <1>12, <1>13, <1>14,
     <1>15, <1>16 DEF Webhook!Next, Webhook!Runs, Webhook!Starts, webhookVars

\* However many replicas there are, and whatever fails, they implement
\* CertAgreement: none ever takes up certificates other than those of the Secret.
THEOREM Agree ==
  ASSUME None \notin Nat
  PROVE  Webhook!Spec => Webhook!ImplementsAgreement
<1>1. Webhook!Init => Webhook!Agreement!Init
  BY Zenon DEF Webhook!Init, Webhook!Agreement!Init, Webhook!Configured
<1>2. WebhookInv /\ [Webhook!Next]_webhookVars => [Webhook!Agreement!Next]_<<secret, Holds>>
  BY StepsRefine, Zenon
<1> QED
  BY <1>1, <1>2, WebhookInvHolds, PTL DEF Webhook!Spec, Webhook!vars, webhookVars, Webhook!ImplementsAgreement, Webhook!Agreement!Spec, Holds

-----------------------------------------------------------------------------
(* One certificate *)

Undisturbed == ~Webhook!Happened("api") /\ ~Webhook!Happened("delete")

\* What makes OneCertificate inductive: the Secret is there from the first Create
\* on, everyone past configureCerts goes by it, and nothing else is registered.
Settled ==
  Undisturbed =>
    /\ \A r \in Replicas : pc[r] = "reread" => secret # None
    /\ \A r \in Replicas : Webhook!Configured(r) => certs[r] = secret /\ secret # None
    /\ config.version # 0 => config.ca = secret /\ secret # None
    /\ \A r \in Replicas :
         pc[r] \in {"compare", "update", "listen", "serving"} => config.version # 0
    /\ ~leaked

\* The faults that have happened stay so (Append to the history of faults).
LEMMA FaultsStay ==
  ASSUME faults \in Seq(FaultKinds), NEW kind \in FaultKinds, Webhook!Fault(kind), NEW k \in FaultKinds
  PROVE  Webhook!Happened(k)' <=> Webhook!Happened(k) \/ k = kind
<1>1. /\ Len(faults') = Len(faults) + 1
      /\ \A i \in 1 .. Len(faults) : faults'[i] = faults[i]
      /\ faults'[Len(faults) + 1] = kind
      /\ DOMAIN faults = 1 .. Len(faults) /\ DOMAIN faults' = 1 .. Len(faults')
      /\ Len(faults) \in Nat
  BY DEF Webhook!Fault
<1> QED
  BY <1>1 DEF Webhook!Happened

\* Every step keeps Settled: the starts of replicas, in any interleaving, meet in
\* the one Create that succeeds (configureCerts).
LEMMA SettledStep ==
  ASSUME None \notin Nat, WebhookInv, Settled, [Webhook!Next]_webhookVars
  PROVE  Settled'
<1> USE DEF WebhookInv, WebhookTyped, CertMade, Webhook!Configured
<1>a. ASSUME NEW kind \in FaultKinds, Webhook!Fault(kind), Undisturbed'
      PROVE  Undisturbed /\ kind = "crash"
  BY <1>a, FaultsStay DEF Undisturbed, FaultKinds
<1>b. ASSUME UNCHANGED faults PROVE Undisturbed' <=> Undisturbed
  BY <1>b, Zenon DEF Undisturbed, Webhook!Happened
<1> SUFFICES ASSUME Undisturbed' PROVE Settled'
  BY Zenon DEF Settled
<1>1. ASSUME NEW r \in Replicas, Webhook!GetSecret(r) PROVE Settled'
  BY <1>b, <1>1, Zenon DEF Settled, Webhook!GetSecret, Webhook!Load, Webhook!Goto
<1>2. ASSUME NEW r \in Replicas, Webhook!generateSecret(r) PROVE Settled'
  BY <1>b, <1>2, Zenon DEF Settled, Webhook!generateSecret, Webhook!Load, Webhook!Goto
<1>3. ASSUME NEW r \in Replicas, Webhook!CreateSecret(r) PROVE Settled'
  BY <1>b, <1>3, Zenon DEF Settled, Webhook!CreateSecret, Webhook!Goto
<1>4. ASSUME NEW r \in Replicas, Webhook!Reread(r) PROVE Settled'
  BY <1>b, <1>4, Zenon DEF Settled, Webhook!Reread, Webhook!Load, Webhook!Goto
<1>5. ASSUME NEW r \in Replicas, Webhook!ConfigureFails(r) PROVE Settled'
  BY <1>a, <1>b, <1>5, Zenon DEF Settled, Webhook!ConfigureFails, Webhook!Load, Webhook!Goto, FaultKinds
<1>6. ASSUME NEW r \in Replicas, Webhook!CreateWebhook(r) PROVE Settled'
  BY <1>b, <1>6 DEF Settled, Webhook!CreateWebhook, Webhook!Goto
<1>7. ASSUME NEW r \in Replicas, Webhook!CompareWebhook(r) PROVE Settled'
  BY <1>b, <1>7, Zenon DEF Settled, Webhook!CompareWebhook, Webhook!Goto
<1>8. ASSUME NEW r \in Replicas, Webhook!UpdateWebhook(r) PROVE Settled'
  BY <1>b, <1>8, Zenon DEF Settled, Webhook!UpdateWebhook, Webhook!Goto
<1>9. ASSUME NEW r \in Replicas, Webhook!RegisterFails(r) PROVE Settled'
  BY <1>a, <1>9, Zenon DEF Webhook!RegisterFails, FaultKinds
<1>10. ASSUME NEW r \in Replicas, Webhook!ListenAndServeTLS(r) PROVE Settled'
  BY <1>b, <1>10, Zenon DEF Settled, Webhook!ListenAndServeTLS, Webhook!Goto
<1>11. ASSUME NEW r \in Replicas, Webhook!Review(r) PROVE Settled'
  BY <1>b, <1>11, Zenon DEF Settled, Webhook!Review
<1>12. ASSUME NEW r \in Replicas, Webhook!Crash(r) PROVE Settled'
  BY <1>a, <1>12, Zenon DEF Settled, Webhook!Crash, Webhook!Goto, FaultKinds
<1>13. ASSUME NEW r \in Replicas, Webhook!Restart(r) PROVE Settled'
  BY <1>b, <1>13, Zenon DEF Settled, Webhook!Restart, Webhook!Goto, Webhook!Load
<1>14. CASE Webhook!DeleteSecret
  BY <1>a, <1>14, Zenon DEF Webhook!DeleteSecret, FaultKinds
<1>15. CASE UNCHANGED webhookVars
  BY <1>b, <1>15, Zenon DEF Settled, Webhook!vars, webhookVars
<1> QED
  BY <1>1, <1>2, <1>3, <1>4, <1>5, <1>6, <1>7, <1>8, <1>9, <1>10, <1>11, <1>12, <1>13,
     <1>14, <1>15 DEF Webhook!Next, Webhook!Runs, Webhook!Starts, webhookVars

\* As long as no API call fails and nobody deletes the Secret, every serving
\* replica presents the registered certificates and no faulty AgentSet slips by,
\* for any number of replicas and crashes.
THEOREM OneForAll ==
  ASSUME None \notin Nat
  PROVE  Webhook!Spec => []Webhook!OneCertificate
<1>1. Webhook!Init => Settled
  BY DEF Webhook!Init, Settled, Webhook!Configured, Webhook!Absent
<1>2. WebhookInv /\ Settled /\ [Webhook!Next]_webhookVars => Settled'
  BY SettledStep, Zenon
<1>3. Settled => Webhook!OneCertificate
  BY Zenon DEF Settled, Webhook!OneCertificate, Undisturbed, Webhook!Configured
<1> QED
  BY <1>1, <1>2, <1>3, WebhookInvHolds, PTL DEF Webhook!Spec, Webhook!vars, webhookVars

-----------------------------------------------------------------------------
(* The parts together *)

\* Every behaviour of the composition is one of each part: a step of one part leaves
\* the variables of the others alone.
LEMMA PartsImplemented == MCSpec => Spec /\ Webhook!Spec
<1>1. MCInit => Init /\ Webhook!Init
  BY Zenon DEF MCInit
<1>2. [MCNext]_mcVars => [Next]_vars
  BY Zenon DEF MCNext, mcVars, ClientsStep, RunnerStep, WebhookStep, vars
<1>3. [MCNext]_mcVars => [Webhook!Next]_webhookVars
  BY Zenon DEF MCNext, mcVars, ClientsStep, RunnerStep, WebhookStep, webhookVars
<1> QED
  BY <1>1, <1>2, <1>3, PTL DEF MCSpec, Spec, Webhook!Spec, webhookVars, Webhook!vars

\* The clients that are open are exactly the cached ones, one per AgentSet, in the
\* manager as a whole (sourceFor, reapSources, closeAllSources).
THEOREM ManagerClients == MCSpec => []OneOpenPerSet
BY PartsImplemented, NoClientLeaks, PTL

\* However many replicas there are, and whatever fails, the webhook of the manager
\* implements CertAgreement (configureCerts, register).
THEOREM ManagerWebhook ==
  ASSUME None \notin Nat
  PROVE  MCSpec => ImplementsAgreement
BY PartsImplemented, Agree, PTL DEF ImplementsAgreement
==============================================================================
