---------------------------- MODULE Termination ----------------------------
(***************************************************************************)
(* How one agent pod stops: the kubelet runs the broker's preStop drain,   *)
(* sends SIGTERM when it returns, and SIGKILL when the grace period is     *)
(* over; the broker drains, shuts its servers down, and exits.             *)
(*                                                                         *)
(* The clock counts seconds since the pod was deleted.  Requests are       *)
(* counted per transport; a gRPC stream is carried by the same HTTP server *)
(* and counts for its lifetime.  The agent is a native sidecar and         *)
(* outlives the broker, so it is not modelled.                             *)
(***************************************************************************)
EXTENDS Integers

CONSTANTS
  Graces,           \* terminationGracePeriodSeconds to try
  Lag,              \* the longest time the endpoints take to forget the pod
  Travel,           \* and a request takes from where it was routed to the pod
  MaxRequests, MaxFaults      \* bounds

VARIABLES
  grace,
  grpc,             \* the broker serves gRPC beside HTTP
  clock,
  phase,            \* of the broker container
  inflight,         \* broker_inflight_requests
  routed,           \* the endpoints still name the pod
  coming,           \* requests sent to the pod that have not reached it
  refused,          \* one came to a broker that takes no more
  wake,             \* when the drain looks again
  until,            \* when the running budget elapses
  termAt,           \* when SIGTERM was sent
  cut,              \* requests that died with the process
  faults

vars ==
  <<grace, grpc, clock, phase, inflight, routed, coming, refused, wake, until, termAt, cut, faults>>

margin == 2
drainPollInterval == 2
minimumGrace == 2   \* what the kubelet leaves a container after its preStop hook

clampDuration(v, lo, hi) == IF v < lo THEN lo ELSE IF v > hi THEN hi ELSE v

\* Mutant: the shutdown is not given its margin.
deriveBudgetsTight(g) ==
  LET propagation == clampDuration(g \div 20, 2, 10)
      shutdown == clampDuration(g \div 10, 5, 15)
      drain == g - shutdown
  IN [propagation |-> propagation, shutdown |-> shutdown,
      drain |-> IF drain < propagation THEN propagation ELSE drain]

deriveBudgets(g) ==
  LET propagation == clampDuration(g \div 20, 2, 10)
      shutdown == clampDuration(g \div 10, 5, 15)
      drain == g - shutdown - margin
  IN [propagation |-> propagation, shutdown |-> shutdown,
      drain |-> IF drain < propagation THEN propagation ELSE drain]

budgets == deriveBudgets(grace)

Transports == IF grpc THEN {"http", "grpc"} ELSE {"http"}

sumInflight(load) == load["http"] + (IF grpc THEN load["grpc"] ELSE 0)

Total == inflight["http"] + (IF grpc THEN inflight["grpc"] ELSE 0)
Serving == phase \in {"up", "propagation", "polling", "returned"}
Alive == phase \notin {"exited", "crashed", "killed"}
KillAt == IF grace > termAt + minimumGrace THEN grace ELSE termAt + minimumGrace
Deleted == phase # "up"

Init ==
  /\ grace \in Graces /\ grpc \in BOOLEAN
  /\ clock = 0 /\ phase = "up" /\ routed = TRUE
  /\ inflight = [t \in Transports |-> 0]
  /\ coming = 0 /\ refused = FALSE
  /\ wake = 0 /\ until = 0 /\ termAt = 0 /\ cut = 0 /\ faults = 0

-----------------------------------------------------------------------------
(* Clients, endpoints and the kubelet *)

Sent ==
  /\ routed /\ Total + coming < MaxRequests
  /\ coming' = coming + 1
  /\ UNCHANGED <<grace, grpc, clock, phase, inflight, routed, refused, wake, until, termAt, cut, faults>>

Arrives(t) ==
  /\ Serving /\ coming > 0 /\ coming' = coming - 1
  /\ inflight' = [inflight EXCEPT ![t] = @ + 1]
  /\ UNCHANGED <<grace, grpc, clock, phase, routed, refused, wake, until, termAt, cut, faults>>

\* Shutdown closes the listeners, and the connections that are idle, first.
Refuses ==
  /\ ~Serving /\ coming > 0 /\ coming' = coming - 1
  /\ refused' = TRUE
  /\ UNCHANGED <<grace, grpc, clock, phase, inflight, routed, wake, until, termAt, cut, faults>>

Completes(t) ==
  /\ Alive /\ inflight[t] > 0
  /\ inflight' = [inflight EXCEPT ![t] = @ - 1]
  /\ UNCHANGED <<grace, grpc, clock, phase, routed, coming, refused, wake, until, termAt, cut, faults>>

EndpointsForget ==
  /\ Deleted /\ routed /\ routed' = FALSE
  /\ UNCHANGED <<grace, grpc, clock, phase, inflight, coming, refused, wake, until, termAt, cut, faults>>

\* Mutant of RunDrain: it polls at once.
RunDrainEager ==
  /\ phase = "up" /\ phase' = "propagation"
  /\ wake' = clock /\ until' = budgets.drain
  /\ UNCHANGED <<grace, grpc, clock, inflight, routed, coming, refused, termAt, cut, faults>>

\* The pod is deleted and its preStop hook starts.
RunDrain ==
  /\ phase = "up" /\ phase' = "propagation"
  /\ wake' = budgets.propagation /\ until' = budgets.drain
  /\ UNCHANGED <<grace, grpc, clock, inflight, routed, coming, refused, termAt, cut, faults>>

Sigterm ==
  /\ phase = "returned" /\ phase' = "shutdown"
  /\ termAt' = clock /\ until' = clock + budgets.shutdown
  /\ UNCHANGED <<grace, grpc, clock, inflight, routed, coming, refused, wake, cut, faults>>

Sigkill ==
  /\ Deleted /\ Alive
  /\ phase \in {"shutdown", "grpc"} /\ clock >= KillAt
  /\ phase' = "killed" /\ cut' = Total
  /\ UNCHANGED <<grace, grpc, clock, inflight, routed, coming, refused, wake, until, termAt, faults>>

\* No step of the pod waits once it can be taken.
Tick ==
  /\ Deleted /\ Alive
  /\ phase # "returned"
  /\ phase \in {"propagation", "polling"} => clock < wake /\ clock < until
  /\ phase \in {"shutdown", "grpc"} => clock < until /\ clock < KillAt
  /\ phase = "shutdown" => Total > 0
  /\ phase = "grpc" => inflight["grpc"] > 0
  /\ routed => clock < Lag
  /\ coming > 0 => clock < Lag + Travel
  /\ clock' = clock + 1
  /\ UNCHANGED <<grace, grpc, phase, inflight, routed, coming, refused, wake, until, termAt, cut, faults>>

-----------------------------------------------------------------------------
(* The drain *)

\* The propagation wait is over; when the budget ends with it, either timer
\* may be seen first.
sleepCtx ==
  /\ phase = "propagation"
  /\ \/ clock >= wake /\ phase' = "polling"
     \/ clock >= until /\ phase' = "returned"
  /\ UNCHANGED <<grace, grpc, clock, inflight, routed, coming, refused, wake, until, termAt, cut, faults>>

scrapeInflight ==
  /\ phase = "polling" /\ clock >= wake
  /\ IF sumInflight(inflight) <= 0
       THEN phase' = "returned" /\ UNCHANGED wake
       ELSE wake' = clock + drainPollInterval /\ UNCHANGED phase
  /\ UNCHANGED <<grace, grpc, clock, inflight, routed, coming, refused, until, termAt, cut, faults>>

\* A scrape that fails before the budget elapses counts as drained.
ScrapeFails ==
  /\ phase = "polling" /\ clock >= wake
  /\ faults < MaxFaults /\ faults' = faults + 1
  /\ phase' = "returned"
  /\ UNCHANGED <<grace, grpc, clock, inflight, routed, coming, refused, wake, until, termAt, cut>>

BudgetElapses ==
  /\ phase = "polling" /\ clock >= until
  /\ phase' = "returned"
  /\ UNCHANGED <<grace, grpc, clock, inflight, routed, coming, refused, wake, until, termAt, cut, faults>>

-----------------------------------------------------------------------------
(* The serve loop *)

\* proxySrv.Shutdown, then introspectionSrv.Shutdown under the same context.
Shutdown ==
  /\ phase = "shutdown"
  /\ Total = 0 \/ clock >= until
  /\ IF grpc
       THEN phase' = "grpc" /\ until' = clock + budgets.shutdown /\ UNCHANGED cut
       ELSE phase' = "exited" /\ cut' = Total /\ UNCHANGED until
  /\ UNCHANGED <<grace, grpc, clock, inflight, routed, coming, refused, wake, termAt, faults>>

stopGRPCWithin ==
  /\ phase = "grpc"
  /\ inflight["grpc"] = 0 \/ clock >= until
  /\ phase' = "exited" /\ cut' = Total
  /\ UNCHANGED <<grace, grpc, clock, inflight, routed, coming, refused, wake, until, termAt, faults>>

\* A listener that stops by itself: runServeLoop returns its error at once.
ListenerFails ==
  /\ Serving
  /\ faults < MaxFaults /\ faults' = faults + 1
  /\ phase' = "crashed" /\ cut' = Total
  /\ UNCHANGED <<grace, grpc, clock, inflight, routed, coming, refused, wake, until, termAt>>

Done == ~Alive /\ UNCHANGED vars

Next ==
  \/ Sent \/ Refuses
  \/ \E t \in Transports : Arrives(t)
  \/ \E t \in Transports : Completes(t)
  \/ EndpointsForget \/ RunDrain \/ Sigterm \/ Sigkill \/ Tick
  \/ sleepCtx \/ scrapeInflight \/ ScrapeFails \/ BudgetElapses
  \/ Shutdown \/ stopGRPCWithin \/ ListenerFails \/ Done

Spec == Init /\ [][Next]_vars

-----------------------------------------------------------------------------
(* Budgets run inside the grace period: no timer of the drain is set past  *)
(* the drain's share, and the drain has returned before the grace period   *)
(* leaves less than the shutdown's share.                                  *)
TypeOK ==
  /\ grace \in Graces /\ cut \in 0 .. MaxRequests /\ faults \in 0 .. MaxFaults
  /\ inflight \in [Transports -> 0 .. MaxRequests]
  /\ phase \in {"propagation", "polling"} => until = budgets.drain /\ clock <= until
  /\ phase \in {"shutdown", "grpc"} => termAt <= budgets.drain

\* The floors of propagation and shutdown leave room in the grace period.
BudgetsFit == grace >= 9

(* Where the floors leave room, drain, shutdown and margin fit in the      *)
(* grace period, so the kubelet never has to kill an HTTP broker that is   *)
(* still shutting down (deriveBudgets).  With gRPC the shutdown budget is  *)
(* spent twice and this fails.                                             *)
NeverKilled == BudgetsFit /\ ~grpc => phase # "killed"

\* The propagation wait is longer than any request to the pod may take.
WaitCovers == Lag + Travel < budgets.propagation

(* A request is cut off only when both budgets are spent: unless a scrape  *)
(* or a listener fails, one that would finish within them is never lost to *)
(* a broker that believed itself drained (sumInflight, runServeLoop).      *)
CutOnlyLate ==
  BudgetsFit /\ WaitCovers /\ faults = 0 /\ cut > 0 => clock >= budgets.drain + budgets.shutdown

(* The end of a pod keeps to its budgets.                                  *)
EndsInTime == TypeOK /\ NeverKilled /\ CutOnlyLate

(* No request is refused that an endpoint not yet removed sent to the pod: *)
(* the drain that finds nothing in flight, the first time it looks or      *)
(* after its whole budget, has outwaited those still on their way, unless  *)
(* a listener fails (RunDrain, pollUntilDrained, runServeLoop).            *)
NoneRefused == WaitCovers /\ faults = 0 => ~refused
=============================================================================
