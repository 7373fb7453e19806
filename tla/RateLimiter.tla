----------------------------- MODULE RateLimiter -----------------------------
(***************************************************************************)
(* The brokers of one AgentDeploy sharing a cap on requests in flight.     *)
(*                                                                         *)
(* Every broker has a semaphore (pkg/broker/ratelimit) that the HTTP and   *)
(* gRPC handlers acquire around each request, and a loop that counts the   *)
(* replicas in DNS and sets the semaphore's limit to this broker's slice   *)
(* of the cap.  The replica count DNS answers with trails the fleet, and   *)
(* the loop sets the limit from an answer that may have aged.              *)
(*                                                                         *)
(* Abstractions.  Requests are counted, not named: entering (a slot taken, *)
(* the in-flight gauge not yet raised), serving (the gauge), leaving (the  *)
(* gauge lowered, the slot not yet released).  A rejected request leaves   *)
(* no trace but a counter.  A lookup that fails changes nothing.           *)
(***************************************************************************)
EXTENDS Integers, FiniteSets

CONSTANTS
  Brokers,      \* the pods that may exist
  MaxInFlight,  \* spec.rateLimit.maxInFlight, when it is set
  MaxScalings,  \* bound: how many pods are started or drained
  NoAnswer      \* no lookup under way

ASSUME LimiterAssumption ==
  /\ IsFiniteSet(Brokers)
  /\ MaxInFlight \in Nat \ {0}
  /\ MaxScalings \in Nat
  /\ NoAnswer \notin Nat

VARIABLES
  status,     \* whether a pod is down, up or draining
  published,  \* the number of replicas in DNS
  answer,     \* the answer a recount is about to use
  held,       \* semaphore: slots taken
  limit,      \* semaphore: slots there are
  entering, serving, leaving,
  scalings    \* pods started or drained so far

semaphore == <<held, limit>>
requests  == <<entering, serving, leaving>>
vars == <<status, published, answer, semaphore, requests, scalings>>

TypeOK ==
  /\ status \in [Brokers -> {"down", "up", "draining"}]
  /\ published \in Nat
  /\ answer \in [Brokers -> Nat \cup {NoAnswer}]
  /\ held \in [Brokers -> Nat] /\ limit \in [Brokers -> Nat]
  /\ entering \in [Brokers -> Nat]
  /\ serving \in [Brokers -> Nat]
  /\ leaving \in [Brokers -> Nat]
  /\ scalings \in Nat

Up      == {b \in Brokers : status[b] = "up"}
Running == {b \in Brokers : status[b] # "down"}

-----------------------------------------------------------------------------
(* The limiter *)

\* Mutant of sliceFor: one more than the quotient, as if it always left a rest.
sliceForNext(max, replicas) == IF replicas = 0 THEN max ELSE max \div replicas + 1

sliceFor(max, replicas) ==
  IF replicas <= 1 THEN max ELSE (max + replicas - 1) \div replicas

\* A request is admitted.
Acquire(b) ==
  /\ b \in Running
  /\ held[b] < limit[b]
  /\ held' = [held EXCEPT ![b] = @ + 1]
  /\ entering' = [entering EXCEPT ![b] = @ + 1]
  /\ UNCHANGED <<status, published, answer, limit, serving, leaving, scalings>>

\* The handler raises the gauge and forwards the request.
Enter(b) ==
  /\ entering[b] > 0
  /\ entering' = [entering EXCEPT ![b] = @ - 1]
  /\ serving' = [serving EXCEPT ![b] = @ + 1]
  /\ UNCHANGED <<status, published, answer, semaphore, leaving, scalings>>

\* The agent has answered, or the caller is gone: deferred calls run, the
\* gauge first.
Exit(b) ==
  /\ serving[b] > 0
  /\ serving' = [serving EXCEPT ![b] = @ - 1]
  /\ leaving' = [leaving EXCEPT ![b] = @ + 1]
  /\ UNCHANGED <<status, published, answer, semaphore, entering, scalings>>

\* Mutant of release: a slot above a lowered limit is not given back.
releaseWithinLimit(b) ==
  /\ leaving[b] > 0
  /\ leaving' = [leaving EXCEPT ![b] = @ - 1]
  /\ held' = [held EXCEPT ![b] = IF @ <= limit[b] THEN @ - 1 ELSE @]
  /\ UNCHANGED <<status, published, answer, limit, entering, serving, scalings>>

release(b) ==
  /\ leaving[b] > 0
  /\ leaving' = [leaving EXCEPT ![b] = @ - 1]
  /\ held' = [held EXCEPT ![b] = IF @ > 0 THEN @ - 1 ELSE @]
  /\ UNCHANGED <<status, published, answer, limit, entering, serving, scalings>>

-----------------------------------------------------------------------------
(* The recount loop; no replica in DNS (NXDOMAIN) is an answer of zero *)

Discover(b) ==
  /\ b \in Running /\ answer[b] = NoAnswer
  /\ answer' = [answer EXCEPT ![b] = published]
  /\ UNCHANGED <<status, published, semaphore, requests, scalings>>

\* Mutant of SetLimit: a recount may only narrow the slice.
SetLimitNarrows(b) ==
  /\ answer[b] # NoAnswer
  /\ limit' = [limit EXCEPT ![b] =
                 LET new == sliceFor(MaxInFlight, answer[b])
                 IN  IF new < @ THEN new ELSE @]
  /\ answer' = [answer EXCEPT ![b] = NoAnswer]
  /\ UNCHANGED <<status, published, held, requests, scalings>>

\* Held slots are untouched, also when there are now more of them than limit.
SetLimit(b) ==
  /\ answer[b] # NoAnswer
  /\ limit' = [limit EXCEPT ![b] = sliceFor(MaxInFlight, answer[b])]
  /\ answer' = [answer EXCEPT ![b] = NoAnswer]
  /\ UNCHANGED <<status, published, held, requests, scalings>>

-----------------------------------------------------------------------------
(* The fleet *)

Scaling == scalings < MaxScalings /\ scalings' = scalings + 1

\* A broker starts with the whole cap and no request.
StartBroker(b) ==
  /\ Scaling
  /\ status[b] = "down"
  /\ status' = [status EXCEPT ![b] = "up"]
  /\ limit' = [limit EXCEPT ![b] = MaxInFlight]
  /\ UNCHANGED <<published, answer, held, requests>>

\* The pod is deleted: it leaves the Service and goes on serving.
Drain(b) ==
  /\ Scaling
  /\ status[b] = "up"
  /\ status' = [status EXCEPT ![b] = "draining"]
  /\ UNCHANGED <<published, answer, semaphore, requests>>

\* The process ends, and with it whatever it still held.
Stop(b) ==
  /\ status[b] = "draining"
  /\ status' = [status EXCEPT ![b] = "down"]
  /\ answer' = [answer EXCEPT ![b] = NoAnswer]
  /\ held' = [held EXCEPT ![b] = 0]
  /\ entering' = [entering EXCEPT ![b] = 0]
  /\ serving' = [serving EXCEPT ![b] = 0]
  /\ leaving' = [leaving EXCEPT ![b] = 0]
  /\ UNCHANGED <<published, limit, scalings>>

\* DNS catches up with the Service.
Publish ==
  /\ published # Cardinality(Up)
  /\ published' = Cardinality(Up)
  /\ UNCHANGED <<status, answer, semaphore, requests, scalings>>

-----------------------------------------------------------------------------

Init ==
  /\ status = [b \in Brokers |-> "down"]
  /\ published = 0
  /\ answer = [b \in Brokers |-> NoAnswer]
  /\ held = [b \in Brokers |-> 0]
  /\ limit = [b \in Brokers |-> MaxInFlight]
  /\ entering = [b \in Brokers |-> 0]
  /\ serving = entering /\ leaving = entering
  /\ scalings = 0

Next ==
  \/ \E b \in Brokers :
       \/ Acquire(b) \/ Enter(b) \/ Exit(b) \/ release(b)
       \/ Discover(b) \/ SetLimit(b)
       \/ StartBroker(b) \/ Drain(b) \/ Stop(b)
  \/ Publish

Spec == Init /\ [][Next]_vars

(***************************************************************************)
(* Fairness.  The handlers and the recount ticker run, lookups do not fail *)
(* for ever, DNS catches up, the kubelet ends a draining pod, and requests *)
(* are answered or given up.  Nobody has to send requests or to scale.     *)
(***************************************************************************)
FairSpec ==
  /\ Spec
  /\ WF_vars(Publish)
  /\ \A b \in Brokers :
       /\ WF_vars(Enter(b)) /\ WF_vars(Exit(b)) /\ WF_vars(release(b))
       /\ WF_vars(Discover(b)) /\ WF_vars(SetLimit(b)) /\ WF_vars(Stop(b))

-----------------------------------------------------------------------------
(* Properties *)

(***************************************************************************)
(* Every slot is given back once: the semaphore counts exactly the         *)
(* requests between Acquire and release, through limits that are lowered   *)
(* and raised meanwhile.  The guard in release that keeps held from        *)
(* falling below zero is therefore never needed.                           *)
(***************************************************************************)
HeldAccounted == \A b \in Brokers : held[b] = entering[b] + serving[b] + leaving[b]

(***************************************************************************)
(* Whatever DNS answers, a broker is neither shut off nor lets in more     *)
(* than the whole cap.                                                     *)
(***************************************************************************)
WithinCap ==
  \A b \in Brokers : limit[b] \in 1 .. MaxInFlight /\ held[b] <= MaxInFlight

(***************************************************************************)
(* The soft bound: once the fleet stops changing its slices add up to the  *)
(* cap at least, and all its brokers together hold less than one request   *)
(* per replica beyond it.                                                  *)
(***************************************************************************)
SoftCap ==
  LET n == Cardinality(Up)
  IN  /\ Running = Up
      /\ \A b \in Up : /\ limit[b] * n \in MaxInFlight .. MaxInFlight + n - 1
                       /\ held[b] <= limit[b]

SoftCapRestored == <>[]SoftCap

=============================================================================
