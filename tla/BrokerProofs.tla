---------------------------- MODULE BrokerProofs ----------------------------
(***************************************************************************)
(* Proofs about the parts of the broker: the end of its pod, for every     *)
(* grace period, load and number of faults; the cache of the peer-hashes   *)
(* file and a gRPC stream, for any number of requests and frames.  Last,   *)
(* what the parts keep is kept by the composition that the model checker   *)
(* explores.  RateLimiterProofs is about the limiter.                      *)
(***************************************************************************)
EXTENDS MCBroker, Sequences, TLAPS

(* The end of a pod *)

PodSetting ==
  /\ Graces \subseteq Nat /\ Lag \in Nat /\ Travel \in Nat
  /\ MaxRequests \in Nat /\ MaxFaults \in Nat

\* What the floors make of a grace period; above 9 seconds they fit (deriveBudgets).
LEMMA BudgetsDerived ==
  ASSUME NEW g \in Nat
  PROVE  LET b == Pod!deriveBudgets(g) IN
         /\ b.propagation \in Nat /\ b.shutdown \in Nat /\ b.drain \in Nat
         /\ b.propagation <= b.drain
         /\ g >= 9 => b.drain + b.shutdown + 2 = g
<1>1. /\ Pod!clampDuration(g \div 20, 2, 10) \in Nat /\ Pod!clampDuration(g \div 10, 5, 15) \in Nat
      /\ Pod!clampDuration(g \div 20, 2, 10) <= 10
      /\ g >= 9 => g - Pod!clampDuration(g \div 10, 5, 15) - 2 >= Pod!clampDuration(g \div 20, 2, 10)
  BY DEF Pod!clampDuration
<1> QED
  BY <1>1 DEF Pod!deriveBudgets, Pod!margin

PodDraining == phase \in {"propagation", "polling"}
PodStopping == phase \in {"shutdown", "grpc"}
Quiet == faults = 0 /\ Pod!WaitCovers
PodSpent == clock >= Pod!budgets.drain + Pod!budgets.shutdown

PodTyped ==
  /\ grace \in Graces /\ grpc \in BOOLEAN
  /\ clock \in Nat /\ wake \in Nat /\ until \in Nat /\ termAt \in Nat
  /\ cut \in 0 .. MaxRequests /\ faults \in 0 .. MaxFaults
  /\ inflight \in [Pod!Transports -> Nat] /\ Pod!Total + coming <= MaxRequests
  /\ coming \in Nat /\ refused \in BOOLEAN
  /\ phase \in {"up", "propagation", "polling", "returned", "shutdown", "grpc",
                "exited", "crashed", "killed"}

\* What each phase knows of the clock, the budgets and the load.
PodTimed ==
  /\ routed => clock <= Lag
  /\ coming > 0 => clock <= Lag + Travel
  /\ phase = "up" => clock = 0
  /\ faults = 0 /\ phase \notin {"up", "propagation"} => clock >= Pod!budgets.propagation
  /\ phase = "crashed" => faults > 0
  /\ PodDraining => until = Pod!budgets.drain /\ clock <= until
  /\ phase = "propagation" => wake = Pod!budgets.propagation
  /\ phase = "returned" =>
       /\ clock <= Pod!budgets.drain
       /\ Quiet /\ clock < Pod!budgets.drain => Pod!Total = 0
  /\ PodStopping => termAt <= Pod!budgets.drain
  /\ phase = "shutdown" =>
       /\ until = termAt + Pod!budgets.shutdown /\ clock <= until
       /\ Quiet => Pod!Total = 0 \/ termAt = Pod!budgets.drain
  /\ phase = "grpc" => grpc /\ (Quiet => Pod!Total = 0 \/ PodSpent)
  /\ phase \notin {"exited", "crashed", "killed"} => cut = 0
  /\ Pod!NeverKilled /\ Pod!CutOnlyLate /\ Pod!NoneRefused

PodInv == PodTyped /\ PodTimed

\* The number in flight, and what one request more or less makes of it (sumInflight).
LEMMA PodCounted ==
  ASSUME PodTyped
  PROVE  /\ Pod!Total \in Nat
         /\ \A t \in Pod!Transports : inflight[t] \in Nat /\ inflight[t] <= Pod!Total
         /\ \A t \in Pod!Transports, n \in Int : inflight[t] + n >= 0 =>
              /\ Pod!sumInflight([inflight EXCEPT ![t] = @ + n]) = Pod!Total + n
              /\ [inflight EXCEPT ![t] = @ + n] \in [Pod!Transports -> Nat]
<1>1. grpc \in BOOLEAN /\ inflight \in [Pod!Transports -> Nat]
  BY Zenon DEF PodTyped
<1>2. CASE grpc
  BY <1>1, <1>2 DEF Pod!Transports, Pod!Total, Pod!sumInflight
<1>3. CASE ~grpc
  BY <1>1, <1>3 DEF Pod!Transports, Pod!Total, Pod!sumInflight
<1> QED
  BY <1>1, <1>2, <1>3, Zenon

\* Every step of the pod, its clients and the kubelet keeps to it (RunDrain,
\* pollUntilDrained, runServeLoop, stopGRPCWithin).
LEMMA PodStep ==
  ASSUME PodSetting, PodInv, [Pod!Next]_podVars
  PROVE  PodInv'
<1> DEFINE p == Pod!budgets.propagation
           d == Pod!budgets.drain
           s == Pod!budgets.shutdown
<1>1. /\ p \in Nat /\ d \in Nat /\ s \in Nat /\ p <= d /\ Lag \in Nat /\ Travel \in Nat
      /\ grace \in Nat /\ MaxRequests \in Nat /\ MaxFaults \in Nat
      /\ Pod!BudgetsFit => d + s + 2 = grace
  <2>1. grace \in Nat /\ grace \in Graces
    BY Zenon DEF PodInv, PodTyped, PodSetting
  <2> QED
    BY <2>1, BudgetsDerived, Zenon DEF PodSetting, Pod!budgets, Pod!BudgetsFit
<1>2. ASSUME UNCHANGED <<grace, grpc>>
      PROVE  /\ p' = p /\ d' = d /\ s' = s /\ Pod!Transports' = Pod!Transports
             /\ Pod!BudgetsFit' = Pod!BudgetsFit /\ Pod!WaitCovers' = Pod!WaitCovers
  BY <1>2, Zenon DEF Pod!budgets, Pod!Transports, Pod!BudgetsFit, Pod!WaitCovers
<1>3. ASSUME UNCHANGED <<grpc, inflight>>
      PROVE  Pod!Total' = Pod!Total
  BY <1>3, Zenon DEF Pod!Total, Pod!sumInflight
<1>4. PodTyped /\ PodTimed
  BY Zenon DEF PodInv
<1>5. /\ Pod!Total \in Nat
      /\ \A t \in Pod!Transports : inflight[t] \in Nat /\ inflight[t] <= Pod!Total
  BY <1>4, PodCounted, Zenon
<1> HIDE DEF p, d, s
<1>6. ASSUME NEW t \in Pod!Transports, Pod!Arrives(t)
      PROVE  PodInv'
  <2>1. /\ UNCHANGED <<grace, grpc, clock, phase, routed, refused, wake, until, termAt, cut, faults>>
        /\ Pod!Serving /\ coming > 0 /\ coming' = coming - 1
        /\ inflight' = [inflight EXCEPT ![t] = @ + 1]
    BY <1>6, Zenon DEF Pod!Arrives
  <2>2. inflight' \in [Pod!Transports -> Nat] /\ Pod!sumInflight(inflight') = Pod!Total + 1
    <3>1. inflight[t] + 1 >= 0 /\ 1 \in Int
      BY <1>5, <2>1
    <3>2. /\ Pod!sumInflight([inflight EXCEPT ![t] = @ + 1]) = Pod!Total + 1
          /\ [inflight EXCEPT ![t] = @ + 1] \in [Pod!Transports -> Nat]
      BY ONLY <1>4, <3>1, PodCounted, t \in Pod!Transports, Zenon
    <3> QED
      BY <1>5, <2>1, <3>2, Zenon
  <2>3. Pod!Total' = Pod!Total + 1
    BY <2>1, <2>2 DEF Pod!Total, Pod!sumInflight
  <2>4. PodTyped'
    BY <1>2, <1>4, <1>5, <2>1, <2>2, <2>3, <1>1 DEF PodTyped
  <2>5. /\ Pod!WaitCovers => clock < p /\ clock < d
        /\ phase \in {"up", "propagation", "polling", "returned"}
    BY <1>1, <1>4, <2>1 DEF PodTimed, PodTyped, Pod!Serving, Pod!WaitCovers, p
  <2>6. PodTimed'
    BY <1>1, <1>2, <1>4, <1>5, <2>1, <2>3, <2>5
       DEF PodTimed, PodTyped, PodDraining, PodStopping, PodSpent, Quiet, Pod!NeverKilled,
           Pod!CutOnlyLate, Pod!NoneRefused, Pod!WaitCovers, p, d, s
  <2> QED
    BY <2>4, <2>6, Zenon DEF PodInv
<1>7. ASSUME NEW t \in Pod!Transports, Pod!Completes(t)
      PROVE  PodInv'
  <2>1. /\ UNCHANGED <<grace, grpc, clock, phase, routed, coming, refused, wake, until, termAt, cut, faults>>
        /\ inflight[t] > 0 /\ inflight' = [inflight EXCEPT ![t] = @ + (-1)]
    BY <1>5, <1>7, Zenon DEF Pod!Completes
  <2>2. inflight' \in [Pod!Transports -> Nat] /\ Pod!sumInflight(inflight') = Pod!Total - 1
    <3>1. inflight[t] + (-1) >= 0 /\ (-1) \in Int
      BY <1>5, <2>1
    <3>2. /\ Pod!sumInflight([inflight EXCEPT ![t] = @ + (-1)]) = Pod!Total + (-1)
          /\ [inflight EXCEPT ![t] = @ + (-1)] \in [Pod!Transports -> Nat]
      BY ONLY <1>4, <3>1, PodCounted, t \in Pod!Transports, Zenon
    <3> QED
      BY <1>5, <2>1, <3>2, Zenon
  <2>3. Pod!Total' = Pod!Total - 1 /\ Pod!Total # 0
    BY <1>5, <2>1, <2>2 DEF Pod!Total, Pod!sumInflight
  <2>4. PodTyped'
    BY <1>2, <1>4, <1>5, <2>1, <2>2, <2>3, <1>1 DEF PodTyped
  <2>6. PodTimed'
    BY <1>1, <1>2, <1>4, <1>5, <2>1, <2>3
       DEF PodTimed, PodTyped, PodDraining, PodStopping, PodSpent, Quiet, Pod!NeverKilled,
           Pod!CutOnlyLate, Pod!NoneRefused, Pod!WaitCovers, p, d, s
  <2> QED
    BY <2>4, <2>6 DEF PodInv
<1>8. ASSUME Pod!EndpointsForget
      PROVE  PodInv'
  <2>1. PodTyped'
    BY <1>1, <1>2, <1>3, <1>4, <1>5, <1>8, Zenon DEF PodTyped, Pod!EndpointsForget
  <2>2. PodTimed'
    BY <1>1, <1>2, <1>3, <1>4, <1>5, <1>8
       DEF Pod!EndpointsForget, PodTimed, PodTyped, PodDraining, PodStopping, PodSpent, Quiet, Pod!NeverKilled,
           Pod!CutOnlyLate, Pod!NoneRefused, Pod!WaitCovers, p, d, s
  <2> QED
    BY <2>1, <2>2, Zenon DEF PodInv
<1>9. ASSUME Pod!RunDrain
      PROVE  PodInv'
  <2>1. PodTyped'
    BY <1>1, <1>2, <1>3, <1>4, <1>5, <1>9, Zenon DEF PodTyped, Pod!RunDrain, p, d, s
  <2>2. PodTimed'
    BY <1>1, <1>2, <1>3, <1>4, <1>5, <1>9
       DEF Pod!RunDrain, PodTimed, PodTyped, PodDraining, PodStopping, PodSpent, Quiet, Pod!NeverKilled,
           Pod!CutOnlyLate, Pod!NoneRefused, Pod!WaitCovers, p, d, s
  <2> QED
    BY <2>1, <2>2 DEF PodInv
<1>10. ASSUME Pod!Sigterm
      PROVE  PodInv'
  <2>1. PodTyped'
    BY <1>1, <1>2, <1>3, <1>4, <1>5, <1>10 DEF PodTyped, Pod!Sigterm, p, d, s
  <2>2. PodTimed'
    BY <1>1, <1>2, <1>3, <1>4, <1>5, <1>10
       DEF Pod!Sigterm, PodTimed, PodTyped, PodDraining, PodStopping, PodSpent, Quiet, Pod!NeverKilled,
           Pod!CutOnlyLate, Pod!NoneRefused, Pod!WaitCovers, p, d, s
  <2> QED
    BY <2>1, <2>2 DEF PodInv
<1>11. ASSUME Pod!Sigkill
      PROVE  PodInv'
  <2>1. PodTyped'
    BY <1>1, <1>2, <1>3, <1>4, <1>5, <1>11 DEF PodTyped, Pod!Sigkill, Pod!KillAt, Pod!minimumGrace, Pod!Alive, Pod!Deleted
  <2>2. PodTimed'
    BY <1>1, <1>2, <1>3, <1>4, <1>5, <1>11
       DEF Pod!Sigkill, Pod!KillAt, Pod!minimumGrace, Pod!Alive, Pod!Deleted, PodTimed, PodTyped, PodDraining, PodStopping, PodSpent, Quiet, Pod!NeverKilled,
           Pod!CutOnlyLate, Pod!NoneRefused, Pod!WaitCovers, p, d, s
  <2> QED
    BY <2>1, <2>2 DEF PodInv
<1>12. ASSUME Pod!Tick
      PROVE  PodInv'
  <2>1. PodTyped'
    BY <1>1, <1>2, <1>3, <1>4, <1>5, <1>12 DEF PodTyped, Pod!Tick, Pod!Alive, Pod!Deleted, Pod!KillAt, Pod!minimumGrace
  <2>2. PodTimed'
    BY <1>1, <1>2, <1>3, <1>4, <1>5, <1>12
       DEF Pod!Tick, Pod!Alive, Pod!Deleted, Pod!KillAt, Pod!minimumGrace, PodTimed, PodTyped, PodDraining, PodStopping, PodSpent, Quiet, Pod!NeverKilled,
           Pod!CutOnlyLate, Pod!NoneRefused, Pod!WaitCovers, p, d, s
  <2> QED
    BY <2>1, <2>2 DEF PodInv
<1>13. ASSUME Pod!sleepCtx
      PROVE  PodInv'
  <2>1. PodTyped'
    BY <1>1, <1>2, <1>3, <1>4, <1>5, <1>13, Zenon DEF PodTyped, Pod!sleepCtx
  <2>2. PodTimed'
    BY <1>1, <1>2, <1>3, <1>4, <1>5, <1>13
       DEF Pod!sleepCtx, PodTimed, PodTyped, PodDraining, PodStopping, PodSpent, Quiet, Pod!NeverKilled,
           Pod!CutOnlyLate, Pod!NoneRefused, Pod!WaitCovers, p, d, s
  <2> QED
    BY <2>1, <2>2 DEF PodInv
<1>14. ASSUME Pod!scrapeInflight
      PROVE  PodInv'
  <2>1. PodTyped'
    BY <1>1, <1>2, <1>3, <1>4, <1>5, <1>14 DEF PodTyped, Pod!scrapeInflight, Pod!Total, Pod!sumInflight, Pod!drainPollInterval
  <2>2. PodTimed'
    BY <1>1, <1>2, <1>3, <1>4, <1>5, <1>14
       DEF Pod!scrapeInflight, Pod!Total, Pod!sumInflight, Pod!drainPollInterval, PodTimed, PodTyped, PodDraining, PodStopping, PodSpent, Quiet, Pod!NeverKilled,
           Pod!CutOnlyLate, Pod!NoneRefused, Pod!WaitCovers, p, d, s
  <2> QED
    BY <2>1, <2>2 DEF PodInv
<1>15. ASSUME Pod!ScrapeFails
      PROVE  PodInv'
  <2>1. PodTyped'
    BY <1>1, <1>2, <1>3, <1>4, <1>5, <1>15 DEF PodTyped, Pod!ScrapeFails
  <2>2. PodTimed'
    BY <1>1, <1>2, <1>3, <1>4, <1>5, <1>15
       DEF Pod!ScrapeFails, PodTimed, PodTyped, PodDraining, PodStopping, PodSpent, Quiet, Pod!NeverKilled,
           Pod!CutOnlyLate, Pod!NoneRefused, Pod!WaitCovers, p, d, s
  <2> QED
    BY <2>1, <2>2 DEF PodInv
<1>16. ASSUME Pod!BudgetElapses
      PROVE  PodInv'
  <2>1. PodTyped'
    BY <1>1, <1>2, <1>3, <1>4, <1>5, <1>16, Zenon DEF PodTyped, Pod!BudgetElapses
  <2>2. PodTimed'
    BY <1>1, <1>2, <1>3, <1>4, <1>5, <1>16
       DEF Pod!BudgetElapses, PodTimed, PodTyped, PodDraining, PodStopping, PodSpent, Quiet, Pod!NeverKilled,
           Pod!CutOnlyLate, Pod!NoneRefused, Pod!WaitCovers, p, d, s
  <2> QED
    BY <2>1, <2>2 DEF PodInv
<1>17. ASSUME Pod!Shutdown
      PROVE  PodInv'
  <2>1. PodTyped'
    BY <1>1, <1>2, <1>3, <1>4, <1>5, <1>17 DEF PodTyped, Pod!Shutdown, p, d, s
  <2>2. PodTimed'
    BY <1>1, <1>2, <1>3, <1>4, <1>5, <1>17
       DEF Pod!Shutdown, PodTimed, PodTyped, PodDraining, PodStopping, PodSpent, Quiet, Pod!NeverKilled,
           Pod!CutOnlyLate, Pod!NoneRefused, Pod!WaitCovers, p, d, s
  <2> QED
    BY <2>1, <2>2 DEF PodInv
<1>18. ASSUME Pod!stopGRPCWithin
      PROVE  PodInv'
  <2>1. PodTyped'
    BY <1>1, <1>2, <1>3, <1>4, <1>5, <1>18 DEF PodTyped, Pod!stopGRPCWithin
  <2>2. PodTimed'
    BY <1>1, <1>2, <1>3, <1>4, <1>5, <1>18
       DEF Pod!stopGRPCWithin, PodTimed, PodTyped, PodDraining, PodStopping, PodSpent, Quiet, Pod!NeverKilled,
           Pod!CutOnlyLate, Pod!NoneRefused, Pod!WaitCovers, p, d, s
  <2> QED
    BY <2>1, <2>2 DEF PodInv
<1>19. ASSUME Pod!ListenerFails
      PROVE  PodInv'
  <2>1. PodTyped'
    BY <1>1, <1>2, <1>3, <1>4, <1>5, <1>19 DEF PodTyped, Pod!ListenerFails, Pod!Serving
  <2>2. PodTimed'
    BY <1>1, <1>2, <1>3, <1>4, <1>5, <1>19
       DEF Pod!ListenerFails, Pod!Serving, PodTimed, PodTyped, PodDraining, PodStopping, PodSpent, Quiet, Pod!NeverKilled,
           Pod!CutOnlyLate, Pod!NoneRefused, Pod!WaitCovers, p, d, s
  <2> QED
    BY <2>1, <2>2 DEF PodInv
<1>20. ASSUME UNCHANGED podVars
      PROVE  PodInv'
  <2>1. PodTyped'
    BY <1>1, <1>2, <1>3, <1>4, <1>5, <1>20, Zenon DEF PodTyped, podVars
  <2>2. UNCHANGED <<grace, grpc, clock, phase, inflight, routed, coming, refused, wake, until, termAt, cut, faults>>
    BY <1>20, Zenon DEF podVars
  <2>3. Pod!Total' = Pod!Total /\ UNCHANGED Pod!budgets /\ Pod!BudgetsFit' = Pod!BudgetsFit
    BY <1>2, <1>3, <2>2, Zenon DEF Pod!budgets
  <2>4. PodTimed'
    BY <1>2, <1>4, <2>2, <2>3
       DEF PodTimed, PodDraining, PodStopping, PodSpent, Quiet, Pod!NeverKilled, Pod!CutOnlyLate, Pod!NoneRefused
  <2> QED
    BY <2>1, <2>4 DEF PodInv
<1>21. ASSUME Pod!Sent
      PROVE  PodInv'
  <2>1. PodTyped'
    BY <1>1, <1>2, <1>3, <1>4, <1>5, <1>21 DEF PodTyped, Pod!Sent
  <2>2. PodTimed'
    BY <1>1, <1>2, <1>3, <1>4, <1>5, <1>21
       DEF Pod!Sent, Pod!Serving, PodTimed, PodTyped, PodDraining, PodStopping, PodSpent, Quiet, Pod!NeverKilled,
           Pod!CutOnlyLate, Pod!NoneRefused, Pod!WaitCovers, p, d, s
  <2> QED
    BY <2>1, <2>2 DEF PodInv
<1>22. ASSUME Pod!Refuses
      PROVE  PodInv'
  <2>1. PodTyped'
    BY <1>1, <1>2, <1>3, <1>4, <1>5, <1>22 DEF PodTyped, Pod!Refuses
  <2>2. PodTimed'
    BY <1>1, <1>2, <1>3, <1>4, <1>5, <1>22
       DEF Pod!Refuses, Pod!Serving, PodTimed, PodTyped, PodDraining, PodStopping, PodSpent, Quiet, Pod!NeverKilled,
           Pod!CutOnlyLate, Pod!NoneRefused, Pod!WaitCovers, p, d, s
  <2> QED
    BY <2>1, <2>2 DEF PodInv
<1> QED
  BY <1>6, <1>7, <1>8, <1>9, <1>10, <1>11, <1>12, <1>13, <1>14, <1>15, <1>16, <1>17, <1>18, <1>19, <1>20, <1>21, <1>22 DEF Pod!Next, Pod!Done, Pod!vars, podVars

\* A running pod that is not being deleted (Init).
LEMMA PodInit ==
  ASSUME PodSetting, Pod!Init
  PROVE  PodInv
<1>1. grace \in Nat /\ grpc \in BOOLEAN /\ MaxRequests \in Nat /\ MaxFaults \in Nat /\ Lag \in Nat
  BY Zenon DEF PodSetting, Pod!Init
<1>2. Pod!Total = 0
  BY <1>1 DEF Pod!Init, Pod!Total, Pod!sumInflight, Pod!Transports
<1>3. PodTyped
  <2>1. refused \in BOOLEAN
    BY Zenon DEF Pod!Init
  <2>2. Pod!Total + coming <= MaxRequests /\ coming \in Nat
    BY <1>1, <1>2 DEF Pod!Init
  <2>3. inflight \in [Pod!Transports -> Nat]
    BY DEF Pod!Init
  <2>4. cut \in 0 .. MaxRequests /\ faults \in 0 .. MaxFaults
    BY <1>1 DEF Pod!Init
  <2>5. grace \in Graces /\ clock \in Nat /\ wake \in Nat /\ until \in Nat /\ termAt \in Nat /\ phase = "up"
    BY DEF Pod!Init
  <2> QED
    BY <1>1, <2>1, <2>2, <2>3, <2>4, <2>5, Zenon DEF PodTyped
<1>4. PodTimed
  BY <1>1, <1>2 DEF Pod!Init, PodTimed, PodDraining, PodStopping, Quiet, Pod!NeverKilled, Pod!CutOnlyLate, Pod!NoneRefused
<1> QED
  BY <1>3, <1>4, Zenon DEF PodInv

\* The budgets and counters stay in their ranges (TypeOK).
LEMMA PodTypeOK ==
  ASSUME PodSetting, PodInv
  PROVE  Pod!TypeOK
<1>1. \A t \in Pod!Transports : inflight[t] \in Nat /\ inflight[t] <= Pod!Total
  BY PodCounted, Zenon DEF PodInv
<1>2. inflight \in [Pod!Transports -> 0 .. MaxRequests]
  BY <1>1, PodCounted DEF PodInv, PodTyped, PodSetting
<1> QED
  BY <1>2, Zenon DEF PodInv, PodTyped, PodTimed, PodDraining, PodStopping, Pod!TypeOK

\* For every grace period, load and number of faults, an HTTP broker whose budgets
\* fit is never killed while it shuts down, and a request is cut off only when both
\* budgets are spent (deriveBudgets, RunDrain, runServeLoop).
THEOREM EndsWithinBudgets ==
  ASSUME PodSetting
  PROVE  Pod!Spec => []Pod!EndsInTime
<1>1. Pod!Init => PodInv
  BY PodInit, Zenon
<1>2. PodInv /\ [Pod!Next]_podVars => PodInv'
  BY PodStep, Zenon
<1>3. PodInv => Pod!EndsInTime
  BY PodTypeOK, Zenon DEF PodInv, PodTimed, Pod!EndsInTime
<1> QED
  BY <1>1, <1>2, <1>3, PTL DEF Pod!Spec, Pod!vars, podVars

\* However long the endpoints take to forget the pod and a request takes to reach
\* it, if the propagation wait is longer the broker still takes every request that
\* was sent to it (RunDrain, pollUntilDrained, runServeLoop).
THEOREM LateOnesTaken ==
  ASSUME PodSetting
  PROVE  Pod!Spec => []Pod!NoneRefused
<1>1. Pod!Init => PodInv
  BY PodInit, Zenon
<1>2. PodInv /\ [Pod!Next]_podVars => PodInv'
  BY PodStep, Zenon
<1>3. PodInv => Pod!NoneRefused
  BY Zenon DEF PodInv, PodTimed
<1> QED
  BY <1>1, <1>2, <1>3, PTL DEF Pod!Spec, Pod!vars, podVars

-----------------------------------------------------------------------------
(* The peer-hashes file *)

FileInfo == [number : Nat, modTime : Nat, valid : BOOLEAN]
RequestType == [pc : {"idle", "stat"}, info : FileInfo \cup {None}, reply : Nat \cup {None}]

FileSetting == None \notin Nat /\ None \notin FileInfo /\ MaxWrites \in Nat

FileTyped ==
  /\ fileClock \in 0 .. MaxWrites /\ served \in Nat
  /\ file \in FileInfo \cup {None}
  /\ cache \in [modTime : Nat, hashes : Nat \cup {None}]
  /\ request \in [Handlers -> RequestType]

\* The writes are in the order of the clock.
TimesOrdered ==
  /\ times \in Seq(Nat) /\ Len(times) <= MaxWrites
  /\ \A i \in DOMAIN times : times[i] <= fileClock
  /\ \A i, j \in DOMAIN times : i <= j => times[i] <= times[j]

\* Contents that were written at the time they carry.
Written(f) == f.number \in DOMAIN times /\ times[f.number] = f.modTime

LastWritten == file # None => Written(file) /\ file.number = Len(times)

CacheCurrent ==
  /\ cache.modTime <= fileClock
  /\ cache.hashes # None => cache.hashes \in DOMAIN times /\ times[cache.hashes] >= cache.modTime

\* A handler saw one of the writes, and its reply is one that is not older.
RequestCurrent(q) ==
  /\ q.info # None => Written(q.info)
  /\ q.pc = "stat" => q.info # None
  /\ q.reply \in Nat \ {0} => q.reply \in DOMAIN times
  /\ q.reply \in Nat \ {0} /\ q.info # None => times[q.reply] >= q.info.modTime

\* What makes ReplyCurrent inductive.
FileInv ==
  /\ FileTyped /\ TimesOrdered /\ LastWritten /\ CacheCurrent
  /\ \A r \in Handlers : RequestCurrent(request[r])

\* A write is appended: the times of earlier ones stay (os.WriteFile by the SDK).
LEMMA TimesGrow ==
  ASSUME FileSetting, FileTyped, TimesOrdered, NEW valid \in BOOLEAN, File!Write(valid)
  PROVE  /\ times' \in Seq(Nat) /\ Len(times') \in 1 .. MaxWrites
         /\ DOMAIN times' = DOMAIN times \cup {Len(times')}
         /\ \A i \in DOMAIN times : /\ i \in Nat /\ i < Len(times')
                                    /\ times'[i] = times[i] /\ times[i] \in Nat
         /\ times'[Len(times')] = fileClock
<1>1. times \in Seq(Nat) /\ fileClock \in Nat /\ Len(times) < MaxWrites /\ MaxWrites \in Nat
  BY DEF FileSetting, FileTyped, TimesOrdered, File!Write
<1>2. times' = Append(times, fileClock)
  BY Zenon DEF File!Write
<1>3. /\ times' \in Seq(Nat) /\ Len(times') = Len(times) + 1 /\ Len(times) \in Nat
      /\ DOMAIN times = 1 .. Len(times) /\ DOMAIN times' = 1 .. Len(times')
      /\ \A i \in DOMAIN times : times'[i] = times[i] /\ times[i] \in Nat
      /\ times'[Len(times')] = fileClock
  BY <1>1, <1>2
<1> QED
  BY <1>1, <1>3

\* A write by the SDK keeps what the cache and the handlers know.
LEMMA WriteKeeps ==
  ASSUME FileSetting, FileInv, NEW valid \in BOOLEAN, File!Write(valid)
  PROVE  FileInv'
<1> DEFINE n == Len(times')
<1>1. FileTyped /\ TimesOrdered /\ LastWritten /\ CacheCurrent
  BY Zenon DEF FileInv
<1>2. /\ times' \in Seq(Nat) /\ n \in 1 .. MaxWrites
      /\ DOMAIN times' = DOMAIN times \cup {n}
      /\ \A i \in DOMAIN times : i \in Nat /\ i < n /\ times'[i] = times[i] /\ times[i] \in Nat
      /\ times'[n] = fileClock
  BY <1>1, TimesGrow, Zenon
<1>3. /\ file' = [number |-> n, modTime |-> fileClock, valid |-> valid]
      /\ UNCHANGED <<fileClock, cache, request, served>>
  BY Zenon DEF File!Write
<1>4. fileClock \in Nat /\ MaxWrites \in Nat /\ n \in Nat /\ n <= MaxWrites
  BY <1>1, <1>2 DEF FileTyped, FileSetting
<1>5. \A i, j \in DOMAIN times : times[i] <= fileClock /\ (i <= j => times[i] <= times[j])
  BY <1>1, Zenon DEF TimesOrdered
<1> HIDE DEF n
<1>6. FileTyped'
  <2>1. file' \in FileInfo
    BY <1>3, <1>4, Zenon DEF FileInfo
  <2> QED
    BY <1>1, <1>3, <2>1, Zenon DEF FileTyped
<1>7. TimesOrdered'
  <2>1. ASSUME NEW i \in DOMAIN times' PROVE times'[i] <= fileClock
    BY <1>2, <1>4, <1>5
  <2>2. ASSUME NEW i \in DOMAIN times', NEW j \in DOMAIN times', i <= j
        PROVE  times'[i] <= times'[j]
    <3>1. CASE j = n
      BY <1>2, <2>1, <3>1, Zenon
    <3>2. CASE j \in DOMAIN times
      <4>1. i \in DOMAIN times
        BY <1>2, <1>4, <2>2, <3>2
      <4> QED
        BY <1>2, <1>5, <2>2, <3>2, <4>1, Zenon
    <3> QED
      BY <1>2, <3>1, <3>2, Zenon
  <2> QED
    BY <1>2, <1>3, <1>4, <2>1, <2>2, Zenon DEF TimesOrdered, n
<1>8. LastWritten'
  BY <1>2, <1>3, Zenon DEF LastWritten, Written, n
<1>9. CacheCurrent'
  BY <1>1, <1>2, <1>3, Zenon DEF CacheCurrent
<1>10. ASSUME NEW r \in Handlers PROVE RequestCurrent(request[r])'
  <2>1. RequestCurrent(request[r])
    BY Zenon DEF FileInv
  <2> QED
    BY <1>2, <1>3, <2>1, Zenon DEF RequestCurrent, Written
<1> QED
  BY <1>6, <1>7, <1>8, <1>9, <1>10, Zenon DEF FileInv

\* A handler that changes its request and perhaps the cache: what it has to establish.
LEMMA HandlerKeeps ==
  ASSUME FileInv, NEW r \in Handlers, NEW q \in RequestType,
         request' = [request EXCEPT ![r] = q], RequestCurrent(q), served' \in Nat,
         cache' \in [modTime : Nat, hashes : Nat \cup {None}], CacheCurrent',
         UNCHANGED <<file, times, fileClock>>
  PROVE  FileInv'
<1>1. FileTyped /\ TimesOrdered /\ LastWritten
  BY Zenon DEF FileInv
<1>2. FileTyped'
  BY <1>1, Zenon DEF FileTyped
<1>3. TimesOrdered' /\ LastWritten'
  BY <1>1, Zenon DEF TimesOrdered, LastWritten, Written
<1>4. ASSUME NEW s \in Handlers PROVE RequestCurrent(request[s])'
  <2>1. request'[s] = (IF s = r THEN q ELSE request[s])
    BY <1>1, Zenon DEF FileTyped
  <2>2. RequestCurrent(request'[s])
    BY <2>1, Zenon DEF FileInv
  <2> QED
    BY <2>2, Zenon DEF RequestCurrent, Written
<1> QED
  BY <1>2, <1>3, <1>4, Zenon DEF FileInv

\* os.Stat keeps the invariant: a missing file is answered with no hashes.
LEMMA StatKeeps ==
  ASSUME FileSetting, FileInv, NEW r \in Handlers, File!Stat(r)
  PROVE  FileInv'
<1>1. /\ FileTyped /\ LastWritten /\ CacheCurrent /\ request[r] \in RequestType
      /\ RequestCurrent(request[r])
  BY Zenon DEF FileInv, FileTyped
<1>2. UNCHANGED <<file, times, fileClock, cache>> /\ request[r].pc = "idle"
  BY Zenon DEF File!Stat
<1>3. CacheCurrent' /\ cache' \in [modTime : Nat, hashes : Nat \cup {None}]
  BY <1>1, <1>2, Zenon DEF CacheCurrent, FileTyped
<1>4. CASE file = None
  <2> DEFINE q == [request[r] EXCEPT !.info = None, !.reply = 0]
  <2>1. request' = [request EXCEPT ![r].info = None, ![r].reply = 0] /\ served' = served + 1
    BY <1>4, Zenon DEF File!Stat
  <2>2. q \in RequestType /\ q.pc = "idle" /\ q.info = None /\ q.reply = 0
    BY <1>1, <1>2, Zenon DEF RequestType
  <2>3. request' = [request EXCEPT ![r] = q]
    BY <2>1, Zenon
  <2>4. RequestCurrent(q)
    BY <2>2, Zenon DEF RequestCurrent
  <2>5. served' \in Nat
    BY <1>1, <2>1 DEF FileTyped
  <2> HIDE DEF q
  <2> QED
    BY <1>2, <1>3, <2>2, <2>3, <2>4, <2>5, HandlerKeeps, Zenon
<1>5. CASE file # None
  <2> DEFINE q == [pc |-> "stat", info |-> file, reply |-> None]
  <2>1. request' = [request EXCEPT ![r] = q] /\ served' = served
    BY <1>5, Zenon DEF File!Stat
  <2>2. q \in RequestType /\ RequestCurrent(q)
    BY <1>1, <1>5, Zenon DEF RequestType, RequestCurrent, FileTyped, LastWritten, FileSetting
  <2>3. served' \in Nat
    BY <1>1, <2>1, Zenon DEF FileTyped
  <2> HIDE DEF q
  <2> QED
    BY <1>2, <1>3, <2>1, <2>2, <2>3, HandlerKeeps, Zenon
<1> QED
  BY <1>4, <1>5, Zenon

\* readPeerHashes from the lock on: the time of the stat with contents at least as new.
LEMMA ServeKeeps ==
  ASSUME FileSetting, FileInv, NEW r \in Handlers, File!Serve(r)
  PROVE  FileInv'
<1> DEFINE info == request[r].info
<1>1. FileTyped /\ TimesOrdered /\ LastWritten /\ CacheCurrent /\ RequestCurrent(request[r])
  BY Zenon DEF FileInv
<1>2. request[r] \in RequestType /\ info \in FileInfo /\ Written(info)
  BY <1>1, Zenon DEF FileTyped, RequestType, RequestCurrent, File!Serve
<1>3. UNCHANGED <<file, times, fileClock>>
  BY Zenon DEF File!Serve
<1> HIDE DEF info
<1>4. ASSUME NEW reply \in Nat \cup {None}, File!Replies(r, reply),
             reply \in Nat \ {0} => reply \in DOMAIN times /\ times[reply] >= info.modTime,
             cache' \in [modTime : Nat, hashes : Nat \cup {None}], CacheCurrent'
      PROVE  FileInv'
  <2> DEFINE q == [request[r] EXCEPT !.pc = "idle", !.reply = reply]
  <2>1. request' = [request EXCEPT ![r].pc = "idle", ![r].reply = reply] /\ served' = served + 1
    BY <1>4, Zenon DEF File!Replies
  <2>2. q \in RequestType /\ q.pc = "idle" /\ q.info = info /\ q.reply = reply
    BY <1>2, <1>4, Zenon DEF RequestType, info
  <2>3. request' = [request EXCEPT ![r] = q]
    BY <2>1, Zenon
  <2>5. RequestCurrent(q)
    BY <1>2, <1>4, <2>2, Zenon DEF RequestCurrent
  <2>6. served' \in Nat
    BY <1>1, <2>1 DEF FileTyped
  <2> HIDE DEF q
  <2> QED
    BY <1>3, <1>4, <2>2, <2>3, <2>5, <2>6, HandlerKeeps, Zenon
<1>5. ASSUME UNCHANGED cache
      PROVE  cache' \in [modTime : Nat, hashes : Nat \cup {None}] /\ CacheCurrent'
  BY <1>1, <1>3, <1>5, Zenon DEF CacheCurrent, FileTyped
<1>6. CASE File!Cached(r)
  <2>1. /\ File!Replies(r, cache.hashes) /\ UNCHANGED cache
        /\ cache.hashes # None /\ cache.modTime = info.modTime
    BY <1>6, Zenon DEF File!Serve, File!Cached, info
  <2>2. /\ cache.hashes \in Nat \cup {None} /\ cache.hashes \in DOMAIN times
        /\ times[cache.hashes] >= info.modTime
    BY <1>1, <2>1, Zenon DEF FileTyped, CacheCurrent
  <2> QED
    BY <1>4, <1>5, <2>1, <2>2, Zenon
<1>7. CASE ~File!Cached(r) /\ (file = None \/ ~file.valid)
  <2>1. UNCHANGED cache /\ (File!Replies(r, 0) \/ File!Replies(r, None))
    BY <1>7, Zenon DEF File!Serve
  <2> QED
    BY <1>4, <1>5, <2>1, Zenon DEF FileSetting
<1>8. CASE ~File!Cached(r) /\ file # None /\ file.valid
  <2>1. /\ cache' = [modTime |-> info.modTime, hashes |-> file.number]
        /\ File!Replies(r, file.number)
    BY <1>8 DEF File!Serve, File!Filled, info
  <2>2. /\ file \in FileInfo /\ file.number \in DOMAIN times /\ file.number = Len(times)
        /\ info.number \in DOMAIN times /\ times[info.number] = info.modTime
    BY <1>1, <1>2, <1>8, Zenon DEF FileTyped, LastWritten, Written
  <2>3. info.number <= file.number /\ info.modTime \in Nat /\ file.number \in Nat
    BY <1>1, <1>2, <2>2 DEF TimesOrdered, FileInfo
  <2>4. times[file.number] >= info.modTime /\ info.modTime <= fileClock
    BY <1>1, <2>2, <2>3, Zenon DEF TimesOrdered
  <2>5. CacheCurrent' /\ cache' \in [modTime : Nat, hashes : Nat \cup {None}]
    BY <1>3, <2>1, <2>2, <2>3, <2>4, Zenon DEF CacheCurrent
  <2> QED
    BY <1>4, <2>1, <2>2, <2>3, <2>4, <2>5, Zenon
<1> QED
  BY <1>6, <1>7, <1>8, Zenon

\* Whatever the number of handlers, and however their stats, locks and reads fall
\* among the writes of the SDK, replies and cache are current (readPeerHashes).
THEOREM RepliesCurrent ==
  ASSUME FileSetting
  PROVE  File!Spec => [](File!TypeOK /\ File!ReplyCurrent)
<1>1. ASSUME File!Init PROVE FileInv
  <2>1. FileTyped
    BY <1>1 DEF File!Init, FileSetting, FileTyped, RequestType
  <2>2. TimesOrdered /\ LastWritten /\ CacheCurrent
    BY <1>1 DEF File!Init, FileSetting, TimesOrdered, LastWritten, CacheCurrent
  <2>3. \A r \in Handlers : RequestCurrent(request[r])
    BY <1>1, Zenon DEF File!Init, FileSetting, RequestCurrent
  <2> QED
    BY <2>1, <2>2, <2>3, Zenon DEF FileInv
<1>2. ASSUME FileInv, [File!Next \/ File!Done]_fileVars PROVE FileInv'
  <2>1. CASE File!Tick
    <3>1. /\ fileClock \in Nat /\ fileClock' = fileClock + 1 /\ fileClock' \in 0 .. MaxWrites
          /\ UNCHANGED <<file, times, cache, request, served>>
      BY <1>2, <2>1 DEF File!Tick, FileInv, FileTyped, FileSetting
    <3>2. FileTyped' /\ LastWritten'
      BY <1>2, <3>1, Zenon DEF FileInv, FileTyped, LastWritten, Written
    <3>3. TimesOrdered'
      BY <1>2, <3>1 DEF FileInv, TimesOrdered
    <3>4. CacheCurrent'
      BY <1>2, <3>1 DEF FileInv, FileTyped, CacheCurrent
    <3>5. \A r \in Handlers : RequestCurrent(request[r])'
      BY <1>2, <3>1, Zenon DEF FileInv, RequestCurrent, Written
    <3> QED
      BY <3>2, <3>3, <3>4, <3>5, Zenon DEF FileInv
  <2>2. CASE File!Remove
    BY <1>2, <2>2, Zenon DEF File!Remove, FileInv, FileTyped, TimesOrdered, LastWritten, Written,
       CacheCurrent, RequestCurrent
  <2>3. CASE File!Done \/ UNCHANGED fileVars
    BY <1>2, <2>3 DEF File!Done, File!vars, fileVars, FileInv, FileTyped, TimesOrdered, LastWritten,
       Written, CacheCurrent, RequestCurrent
  <2> QED
    BY <1>2, <2>1, <2>2, <2>3, WriteKeeps, StatKeeps, ServeKeeps, Zenon DEF File!Next, fileVars
<1>3. ASSUME FileInv PROVE File!TypeOK
  <2>1. FileTyped /\ TimesOrdered /\ LastWritten /\ CacheCurrent /\ MaxWrites \in Nat
    BY <1>3, Zenon DEF FileInv, FileSetting
  <2>2. /\ DOMAIN times = 1 .. Len(times) /\ Len(times) \in Nat /\ Len(times) <= MaxWrites
        /\ fileClock \in Nat /\ fileClock <= MaxWrites
        /\ \A i \in DOMAIN times : i \in File!Writes /\ times[i] \in 0 .. fileClock
    BY <2>1 DEF FileTyped, TimesOrdered, File!Writes
  <2>3. ASSUME NEW f \in FileInfo, Written(f) PROVE f \in File!File
    <3>1. times[f.number] \in 0 .. fileClock /\ f.number \in File!Writes /\ times[f.number] = f.modTime
      BY <2>2, <2>3, Zenon DEF Written
    <3>2. f.modTime \in 0 .. MaxWrites
      BY <2>1, <2>2, <3>1
    <3> QED
      BY <3>1, <3>2, Zenon DEF FileInfo, File!File
  <2>4. times \in Seq(0 .. fileClock)
    BY <2>1, <2>2 DEF TimesOrdered
  <2>5. cache \in [modTime : 0 .. fileClock, hashes : File!Writes \cup {None}]
    BY <2>1, <2>2 DEF FileTyped, CacheCurrent
  <2>6. file \in File!File \cup {None}
    BY <2>1, <2>3, Zenon DEF FileTyped, LastWritten
  <2>7. ASSUME NEW r \in Handlers
        PROVE  /\ request[r].pc \in {"idle", "stat"}
               /\ request[r].info \in File!File \cup {None}
               /\ request[r].reply \in File!Writes \cup {0, None}
    <3>1. request[r] \in RequestType /\ RequestCurrent(request[r])
      BY <1>3, Zenon DEF FileInv, FileTyped
    <3> QED
      BY <2>2, <2>3, <3>1, Zenon DEF RequestType, RequestCurrent
  <2> QED
    BY <2>1, <2>2, <2>4, <2>5, <2>6, <2>7, Zenon DEF FileTyped, File!TypeOK
<1>4. ASSUME FileInv PROVE File!ReplyCurrent
  <2>1. cache.hashes # None => times[cache.hashes] >= cache.modTime
    BY <1>4, Zenon DEF FileInv, CacheCurrent
  <2>2. ASSUME NEW r \in Handlers, request[r].reply \in File!Writes, request[r].info # None
        PROVE  times[request[r].reply] >= request[r].info.modTime
    <3>1. RequestCurrent(request[r]) /\ request[r].reply \in Nat \ {0}
      BY <1>4, <2>2 DEF FileInv, File!Writes, FileSetting
    <3> QED
      BY <2>2, <3>1, Zenon DEF RequestCurrent
  <2> QED
    BY <2>1, <2>2, Zenon DEF File!ReplyCurrent
<1> QED
  BY <1>1, <1>2, <1>3, <1>4, PTL DEF File!Spec, File!vars, fileVars

-----------------------------------------------------------------------------
(* A gRPC stream *)

Errs == {"none", "EOF", "Failed", "Canceled", "Unavailable"}
ClientType == [at : {"open", "closed", "gone"}, sent : Nat]
AgentType == [at : {"running", "OK", "Failed"}, sent : Nat, eof : BOOLEAN]
UpType == [at : {"idle", "recv", "send", "report", "close", "done"}, frames : Nat, err : Errs]
DownType ==
  [at : {"idle", "header", "recv", "send", "count", "report", "done"}, frames : Nat, err : Errs]
ResultsType == [up : Errs, down : Errs]
HandlerType ==
  [at : {"begin", "backend", "client", "ended"}, backendErr : Errs, status : Errs \cup {"OK"}]

StreamTyped ==
  /\ client \in ClientType /\ agent \in AgentType
  /\ up \in UpType /\ down \in DownType
  /\ results \in ResultsType /\ handler \in HandlerType
  /\ header \in BOOLEAN /\ counted \in Nat

\* What the pump of the agent's side reports of an agent that has ended.
ErrOf(code) == IF code = "OK" THEN "EOF" ELSE code

\* The agent is over, all its frames were forwarded and counted, and err says how.
Reported(err) ==
  /\ agent.at # "running" /\ err = ErrOf(agent.at)
  /\ down.frames = agent.sent /\ counted = down.frames

\* Where the two pumps and the handler stand with respect to each other.
StreamOrdered ==
  /\ up.at = "idle" <=> down.at = "idle"
  /\ up.at = "idle" => handler.at \in {"begin", "ended"}
  /\ handler.at = "begin" => up.at = "idle"
  /\ down.at \in {"idle", "header"} => down.frames = 0
  /\ down.frames = counted + (IF down.at = "count" THEN 1 ELSE 0)
  /\ results.down # "none" => down.at = "done"
  /\ handler.at \in {"client", "ended"} /\ up.at # "idle" => down.at = "done"

\* What holds as long as the client has not gone away: a report is put down only
\* when the agent is over and drained, and the client's side ends with io.EOF.
StreamKept ==
  /\ down.at \notin {"idle", "header"} => header
  /\ down.at = "report" => Reported(down.err)
  /\ results.down # "none" => Reported(results.down)
  /\ handler.at \in {"client", "ended"} /\ up.at # "idle" => Reported(handler.backendErr)
  /\ up.at = "report" => up.err = "EOF"
  /\ results.up # "none" => results.up = "EOF"
  /\ handler.at = "ended" /\ up.at # "idle" => handler.status = agent.at

\* What makes StreamFaithful inductive.
StreamInv == StreamTyped /\ StreamOrdered /\ (client.at # "gone" => StreamKept)

\* Every step of the client, the agent, the handler and the two pumps keeps it.  The
\* first fact of a case is what the step reads and writes, field by field.
LEMMA StreamStep ==
  ASSUME StreamInv, [Grpc!Next]_grpcVars
  PROVE  StreamInv'
<1>0. StreamTyped /\ StreamOrdered /\ (client.at # "gone" => StreamKept)
  BY DEF StreamInv
<1>a. down.frames \in Nat /\ counted \in Nat
  BY <1>0, Zenon DEF StreamTyped, DownType
<1>1. CASE Grpc!ClientSends
  <2>0. /\ client.at = "open"
        /\ client'.at = client.at
        /\ UNCHANGED <<agent, up, down, results, handler, header, counted>>
    BY <1>0, <1>1, Zenon DEF Grpc!ClientSends, Grpc!Ended, StreamTyped, ClientType
  <2>1. StreamTyped'
    <3>1. client' \in ClientType
      BY <1>0, <1>1 DEF Grpc!ClientSends, Grpc!Ended, StreamTyped, ClientType
    <3> QED
      BY <1>0, <2>0, <3>1, Zenon DEF StreamTyped
  <2>2. StreamOrdered'
    BY <1>0, <1>a, <2>0, Zenon DEF StreamOrdered
  <2>3. client'.at # "gone" => StreamKept'
    BY <1>0, <1>a, <2>0, Zenon DEF StreamOrdered, StreamKept, Reported
  <2> QED
    BY <2>1, <2>2, <2>3, Zenon DEF StreamInv
<1>2. CASE \E how \in {"closed", "gone"} : Grpc!ClientLeaves(how)
  <2>0. /\ handler.at # "ended"
        /\ client.at = "gone" => client'.at = "gone"
        /\ UNCHANGED <<agent, up, down, results, handler, header, counted>>
    BY <1>0, <1>2, Zenon DEF Grpc!ClientLeaves, Grpc!Ended, StreamTyped, ClientType
  <2>1. StreamTyped'
    <3>1. client' \in ClientType
      BY <1>0, <1>2, Zenon DEF Grpc!ClientLeaves, Grpc!Ended, StreamTyped, ClientType
    <3> QED
      BY <1>0, <2>0, <3>1, Zenon DEF StreamTyped
  <2>2. StreamOrdered'
    BY <1>0, <1>a, <2>0, Zenon DEF StreamOrdered
  <2>3. client'.at # "gone" => StreamKept'
    BY <1>0, <1>a, <2>0, Zenon DEF StreamOrdered, StreamKept, Reported
  <2> QED
    BY <2>1, <2>2, <2>3 DEF StreamInv
<1>3. CASE Grpc!AgentSends
  <2>0. /\ agent.at = "running"
        /\ agent'.at = agent.at
        /\ UNCHANGED <<client, up, down, results, handler, header, counted>>
    BY <1>0, <1>3, Zenon DEF Grpc!AgentSends, Grpc!Opened, StreamTyped, AgentType
  <2>1. StreamTyped'
    <3>1. agent' \in AgentType
      BY <1>0, <1>3 DEF Grpc!AgentSends, Grpc!Opened, StreamTyped, AgentType
    <3> QED
      BY <1>0, <2>0, <3>1, Zenon DEF StreamTyped
  <2>2. StreamOrdered'
    BY <1>0, <1>a, <2>0, Zenon DEF StreamOrdered
  <2>3. client'.at # "gone" => StreamKept'
    BY <1>0, <1>a, <2>0, Zenon DEF StreamOrdered, StreamKept, Reported
  <2> QED
    BY <2>1, <2>2, <2>3 DEF StreamInv
<1>4. CASE Grpc!AgentEnds
  <2>0. /\ agent.at = "running"
        /\ agent'.at # "running"
        /\ agent'.sent = agent.sent
        /\ UNCHANGED <<client, up, down, results, handler, header, counted>>
    BY <1>0, <1>4, Zenon DEF Grpc!AgentEnds, Grpc!Opened, StreamTyped, AgentType
  <2>1. StreamTyped'
    <3>1. agent' \in AgentType
      BY <1>0, <1>4, Zenon DEF Grpc!AgentEnds, Grpc!Opened, StreamTyped, AgentType
    <3> QED
      BY <1>0, <2>0, <3>1, Zenon DEF StreamTyped
  <2>2. StreamOrdered'
    BY <1>0, <1>a, <2>0, Zenon DEF StreamOrdered
  <2>3. client'.at # "gone" => StreamKept'
    BY <1>0, <1>a, <2>0, Zenon DEF StreamOrdered, StreamKept, Reported
  <2> QED
    BY <2>1, <2>2, <2>3 DEF StreamInv
<1>5. CASE Grpc!Open
  <2>0. /\ handler.at = "begin"
        /\ \/ /\ up'.at = "recv" /\ down'.at = "header" /\ handler'.at = "backend"
              /\ up'.err = up.err /\ down'.frames = down.frames
           \/ up' = up /\ down' = down /\ handler'.at = "ended"
        /\ UNCHANGED <<client, agent, results, header, counted>>
    BY <1>0, <1>5, Zenon DEF Grpc!Open, StreamTyped, UpType, DownType, HandlerType
  <2>1. StreamTyped'
    <3>1. up' \in UpType
      BY <1>0, <1>5, Zenon DEF Grpc!Open, StreamTyped, UpType, Errs
    <3>2. down' \in DownType
      BY <1>0, <1>5, Zenon DEF Grpc!Open, StreamTyped, DownType, Errs
    <3>3. handler' \in HandlerType
      BY <1>0, <1>5, Zenon DEF Grpc!Open, StreamTyped, HandlerType, Errs
    <3> QED
      BY <1>0, <2>0, <3>1, <3>2, <3>3, Zenon DEF StreamTyped
  <2>2. StreamOrdered'
    BY <1>0, <1>a, <2>0, Zenon DEF StreamOrdered
  <2>3. client'.at # "gone" => StreamKept'
    BY <1>0, <1>a, <2>0, Zenon DEF StreamOrdered, StreamKept, Reported
  <2> QED
    BY <2>1, <2>2, <2>3 DEF StreamInv
<1>6. CASE Grpc!AwaitBackend
  <2>0. /\ handler.at = "backend" /\ results.down # "none"
        /\ handler'.at = "client" /\ handler'.backendErr = results.down /\ handler'.status = handler.status
        /\ results'.up = results.up /\ results'.down = "none"
        /\ UNCHANGED <<client, agent, up, down, header, counted>>
    BY <1>0, <1>6, Zenon DEF Grpc!AwaitBackend, StreamTyped, HandlerType, ResultsType
  <2>1. StreamTyped'
    <3>1. handler' \in HandlerType
      BY <1>0, <1>6, Zenon DEF Grpc!AwaitBackend, StreamTyped, HandlerType, Errs, ResultsType
    <3>2. results' \in ResultsType
      BY <1>0, <1>6, Zenon DEF Grpc!AwaitBackend, StreamTyped, ResultsType, Errs
    <3> QED
      BY <1>0, <2>0, <3>1, <3>2, Zenon DEF StreamTyped
  <2>2. StreamOrdered'
    BY <1>0, <1>a, <2>0, Zenon DEF StreamOrdered
  <2>3. client'.at # "gone" => StreamKept'
    BY <1>0, <1>a, <2>0, Zenon DEF StreamOrdered, StreamKept, Reported
  <2> QED
    BY <2>1, <2>2, <2>3 DEF StreamInv
<1>7. CASE Grpc!AwaitClient
  <2>0. /\ handler.at = "client" /\ results.up # "none"
        /\ handler'.at = "ended" /\ handler'.backendErr = handler.backendErr
        /\ handler'.status = Grpc!StatusOf(handler.backendErr, results.up)
        /\ results'.up = "none" /\ results'.down = results.down
        /\ UNCHANGED <<client, agent, up, down, header, counted>>
    BY <1>0, <1>7, Zenon DEF Grpc!AwaitClient, StreamTyped, HandlerType, ResultsType
  <2>1. StreamTyped'
    <3>1. handler' \in HandlerType
      BY <1>0, <1>7, Zenon DEF Grpc!AwaitClient, Grpc!StatusOf, StreamTyped, HandlerType, Errs, ResultsType
    <3>2. results' \in ResultsType
      BY <1>0, <1>7, Zenon DEF Grpc!AwaitClient, Grpc!StatusOf, StreamTyped, ResultsType, Errs
    <3> QED
      BY <1>0, <2>0, <3>1, <3>2, Zenon DEF StreamTyped
  <2>2. StreamOrdered'
    BY <1>0, <1>a, <2>0, Zenon DEF StreamOrdered
  <2>3. client'.at # "gone" => StreamKept'
    BY <1>0, <1>a, <2>0 DEF StreamOrdered, StreamKept, Reported, ErrOf, Grpc!StatusOf, StreamTyped, AgentType
  <2> QED
    BY <2>1, <2>2, <2>3 DEF StreamInv
<1>8. CASE Grpc!UpRecv
  <2>0. /\ up.at = "recv"
        /\ up'.at = "send" \/ (up'.at = "report" /\ (up'.err = "EOF" \/ client.at = "gone"))
        /\ UNCHANGED <<client, agent, down, results, handler, header, counted>>
    BY <1>0, <1>8, Zenon DEF Grpc!UpRecv, StreamTyped, UpType
  <2>1. StreamTyped'
    <3>1. up' \in UpType
      BY <1>0, <1>8, Zenon DEF Grpc!UpRecv, StreamTyped, UpType, Errs
    <3> QED
      BY <1>0, <2>0, <3>1, Zenon DEF StreamTyped
  <2>2. StreamOrdered'
    BY <1>0, <1>a, <2>0, Zenon DEF StreamOrdered
  <2>3. client'.at # "gone" => StreamKept'
    BY <1>0, <1>a, <2>0, Zenon DEF StreamOrdered, StreamKept, Reported
  <2> QED
    BY <2>1, <2>2, <2>3 DEF StreamInv
<1>9. CASE Grpc!UpSend
  <2>0. /\ up.at = "send"
        /\ up'.at = "recv" \/ (up'.at = "report" /\ up'.err = "EOF")
        /\ UNCHANGED <<client, agent, down, results, handler, header, counted>>
    BY <1>0, <1>9, Zenon DEF Grpc!UpSend, StreamTyped, UpType
  <2>1. StreamTyped'
    <3>0. \/ up' = [at |-> "recv", frames |-> up.frames + 1, err |-> up.err]
          \/ up' = [at |-> "report", frames |-> up.frames, err |-> "EOF"]
      BY <1>0, <1>9, Zenon DEF Grpc!UpSend, StreamTyped, UpType
    <3>1. up' \in UpType
      BY <1>0, <3>0 DEF StreamTyped, UpType, Errs
    <3> QED
      BY <1>0, <2>0, <3>1, Zenon DEF StreamTyped
  <2>2. StreamOrdered'
    BY <1>0, <1>a, <2>0, Zenon DEF StreamOrdered
  <2>3. client'.at # "gone" => StreamKept'
    BY <1>0, <1>a, <2>0, Zenon DEF StreamOrdered, StreamKept, Reported
  <2> QED
    BY <2>1, <2>2, <2>3 DEF StreamInv
<1>10. CASE Grpc!UpReport
  <2>0. /\ up.at = "report"
        /\ up'.at = "close" /\ up'.err = up.err
        /\ results'.up = up.err /\ results'.down = results.down
        /\ UNCHANGED <<client, agent, down, handler, header, counted>>
    BY <1>0, <1>10, Zenon DEF Grpc!UpReport, StreamTyped, ResultsType, UpType
  <2>1. StreamTyped'
    <3>1. results' \in ResultsType
      BY <1>0, <1>10, Zenon DEF Grpc!UpReport, StreamTyped, ResultsType, Errs, UpType
    <3>2. up' \in UpType
      BY <1>0, <1>10, Zenon DEF Grpc!UpReport, StreamTyped, UpType, Errs
    <3> QED
      BY <1>0, <2>0, <3>1, <3>2, Zenon DEF StreamTyped
  <2>2. StreamOrdered'
    BY <1>0, <1>a, <2>0, Zenon DEF StreamOrdered
  <2>3. client'.at # "gone" => StreamKept'
    BY <1>0, <1>a, <2>0, Zenon DEF StreamOrdered, StreamKept, Reported
  <2> QED
    BY <2>1, <2>2, <2>3 DEF StreamInv
<1>11. CASE Grpc!CloseSend
  <2>0. /\ up.at = "close"
        /\ up'.at = "done"
        /\ agent'.at = agent.at /\ agent'.sent = agent.sent
        /\ UNCHANGED <<client, down, results, handler, header, counted>>
    BY <1>0, <1>11, Zenon DEF Grpc!CloseSend, StreamTyped, UpType, AgentType
  <2>1. StreamTyped'
    <3>1. up' \in UpType
      BY <1>0, <1>11, Zenon DEF Grpc!CloseSend, StreamTyped, UpType, Errs
    <3>2. agent' \in AgentType
      BY <1>0, <1>11, Zenon DEF Grpc!CloseSend, StreamTyped, AgentType
    <3> QED
      BY <1>0, <2>0, <3>1, <3>2, Zenon DEF StreamTyped
  <2>2. StreamOrdered'
    BY <1>0, <1>a, <2>0, Zenon DEF StreamOrdered
  <2>3. client'.at # "gone" => StreamKept'
    BY <1>0, <1>a, <2>0, Zenon DEF StreamOrdered, StreamKept, Reported
  <2> QED
    BY <2>1, <2>2, <2>3 DEF StreamInv
<1>12. CASE Grpc!Header
  <2>0. /\ down.at = "header"
        /\ down'.at = "recv" /\ down'.frames = down.frames
        /\ header' \/ client.at = "gone"
        /\ UNCHANGED <<client, agent, up, results, handler, counted>>
    BY <1>0, <1>12, Zenon DEF Grpc!Header, StreamTyped, DownType
  <2>1. StreamTyped'
    <3>1. header' \in BOOLEAN
      BY <1>0, <1>12, Zenon DEF Grpc!Header, StreamTyped
    <3>2. down' \in DownType
      BY <1>0, <1>12, Zenon DEF Grpc!Header, StreamTyped, DownType, Errs
    <3> QED
      BY <1>0, <2>0, <3>1, <3>2, Zenon DEF StreamTyped
  <2>2. StreamOrdered'
    BY <1>0, <1>a, <2>0, Zenon DEF StreamOrdered
  <2>3. client'.at # "gone" => StreamKept'
    BY <1>0, <1>a, <2>0, Zenon DEF StreamOrdered, StreamKept, Reported
  <2> QED
    BY <2>1, <2>2, <2>3 DEF StreamInv
<1>13. CASE Grpc!DownRecv
  <2>0. /\ down.at = "recv"
        /\ down'.frames = down.frames
        /\ \/ down'.at = "send"
           \/ /\ agent.at # "running" /\ down.frames = agent.sent
              /\ down'.at = "report" /\ down'.err = ErrOf(agent.at)
           \/ client.at = "gone" /\ down'.at = "report"
        /\ UNCHANGED <<client, agent, up, results, handler, header, counted>>
    BY <1>0, <1>13, Zenon DEF Grpc!DownRecv, ErrOf, StreamTyped, DownType
  <2>1. StreamTyped'
    <3>1. down' \in DownType
      BY <1>0, <1>13, Zenon DEF Grpc!DownRecv, StreamTyped, DownType, Errs, AgentType
    <3> QED
      BY <1>0, <2>0, <3>1, Zenon DEF StreamTyped
  <2>2. StreamOrdered'
    BY <1>0, <1>a, <2>0, Zenon DEF StreamOrdered
  <2>3. client'.at # "gone" => StreamKept'
    <3> SUFFICES ASSUME client.at # "gone" PROVE StreamKept'
      BY <2>0, Zenon
    <3>1. StreamKept /\ counted = down.frames /\ results.down = "none"
          /\ (handler.at \in {"client", "ended"} => up.at = "idle")
      BY <1>0, <1>a, <2>0 DEF StreamOrdered
    <3>2. down'.at = "report" => Reported(down.err)'
      BY <2>0, <3>1, Zenon DEF Reported
    <3> QED
      BY <2>0, <3>1, <3>2, Zenon DEF StreamKept
  <2> QED
    BY <2>1, <2>2, <2>3 DEF StreamInv
<1>14. CASE Grpc!DownSend
  <2>0. /\ down.at = "send"
        /\ \/ down'.at = "count" /\ down'.frames = down.frames + 1
           \/ client.at = "gone" /\ down'.at = "report" /\ down'.frames = down.frames
        /\ UNCHANGED <<client, agent, up, results, handler, header, counted>>
    BY <1>0, <1>14, Zenon DEF Grpc!DownSend, StreamTyped, DownType
  <2>1. StreamTyped'
    <3>0. \/ down' = [at |-> "count", frames |-> down.frames + 1, err |-> down.err]
          \/ down' = [at |-> "report", frames |-> down.frames, err |-> "Unavailable"]
      BY <1>0, <1>14, Zenon DEF Grpc!DownSend, StreamTyped, DownType
    <3>1. down' \in DownType
      BY <1>0, <3>0 DEF StreamTyped, DownType, Errs
    <3> QED
      BY <1>0, <2>0, <3>1, Zenon DEF StreamTyped
  <2>2. StreamOrdered'
    BY <1>0, <1>a, <2>0 DEF StreamOrdered
  <2>3. client'.at # "gone" => StreamKept'
    BY <1>0, <1>a, <2>0, Zenon DEF StreamOrdered, StreamKept, Reported
  <2> QED
    BY <2>1, <2>2, <2>3 DEF StreamInv
<1>15. CASE Grpc!Count
  <2>0. /\ down.at = "count"
        /\ counted' = counted + 1 /\ down'.at = "recv" /\ down'.frames = down.frames
        /\ UNCHANGED <<client, agent, up, results, handler, header>>
    BY <1>0, <1>15, Zenon DEF Grpc!Count, StreamTyped, DownType
  <2>1. StreamTyped'
    <3>1. counted' \in Nat
      BY <1>0, <1>15 DEF Grpc!Count, StreamTyped
    <3>2. down' \in DownType
      BY <1>0, <1>15, Zenon DEF Grpc!Count, StreamTyped, DownType, Errs
    <3> QED
      BY <1>0, <2>0, <3>1, <3>2, Zenon DEF StreamTyped
  <2>2. StreamOrdered'
    BY <1>0, <1>a, <2>0 DEF StreamOrdered
  <2>3. client'.at # "gone" => StreamKept'
    BY <1>0, <1>a, <2>0, Zenon DEF StreamOrdered, StreamKept, Reported
  <2> QED
    BY <2>1, <2>2, <2>3 DEF StreamInv
<1>16. CASE Grpc!DownReport
  <2>0. /\ down.at = "report"
        /\ down'.at = "done" /\ down'.frames = down.frames
        /\ results'.up = results.up /\ results'.down = down.err
        /\ UNCHANGED <<client, agent, up, handler, header, counted>>
    BY <1>0, <1>16, Zenon DEF Grpc!DownReport, StreamTyped, ResultsType, DownType
  <2>1. StreamTyped'
    <3>1. results' \in ResultsType
      BY <1>0, <1>16, Zenon DEF Grpc!DownReport, StreamTyped, ResultsType, Errs, DownType
    <3>2. down' \in DownType
      BY <1>0, <1>16, Zenon DEF Grpc!DownReport, StreamTyped, DownType, Errs
    <3> QED
      BY <1>0, <2>0, <3>1, <3>2, Zenon DEF StreamTyped
  <2>2. StreamOrdered'
    BY <1>0, <1>a, <2>0, Zenon DEF StreamOrdered
  <2>3. client'.at # "gone" => StreamKept'
    BY <1>0, <1>a, <2>0, Zenon DEF StreamOrdered, StreamKept, Reported
  <2> QED
    BY <2>1, <2>2, <2>3 DEF StreamInv
<1>17. CASE Grpc!Over \/ UNCHANGED grpcVars
  <2>1. UNCHANGED <<client, agent, up, down, results, handler, header, counted>>
    BY <1>17, Zenon DEF Grpc!Over, Grpc!streamVars, grpcVars
  <2> QED
    BY <1>0, <2>1, Zenon DEF StreamInv, StreamTyped, StreamOrdered, StreamKept, Reported
<1> QED
  BY <1>1, <1>2, <1>3, <1>4, <1>5, <1>6, <1>7, <1>8, <1>9, <1>10, <1>11,
     <1>12, <1>13, <1>14, <1>15, <1>16, <1>17
     DEF Grpc!Next, Grpc!Handler, Grpc!UpPump, Grpc!DownPump, grpcVars

\* What the agent's input keeps to: nothing but the client's frames, in full when it
\* ends under an agent at work.
StreamUpward ==
  /\ up.frames <= client.sent
  /\ up.at = "send" => up.frames < client.sent
  /\ agent.eof => up.at = "done"
  /\ up.at \in {"report", "close", "done"} /\ agent.at = "running" /\ client.at # "gone" =>
       client.at = "closed" /\ up.frames = client.sent

\* The pump of the client's side, the client and the agent keep to it; the others
\* touch nothing of it (copyMessages, CloseSend).
LEMMA UpwardStep ==
  ASSUME StreamTyped, StreamOrdered, StreamUpward, [Grpc!Next]_grpcVars
  PROVE  StreamUpward'
<1>1. CASE Grpc!ClientSends
  <2>1. /\ client.at = "open" /\ client' = [at |-> client.at, sent |-> client.sent + 1]
        /\ agent' = agent /\ up' = up
    BY <1>1, Zenon DEF Grpc!ClientSends, StreamTyped, ClientType
  <2> QED
    BY <2>1 DEF StreamUpward, StreamTyped, ClientType, UpType
<1>2. CASE \E how \in {"closed", "gone"} : Grpc!ClientLeaves(how)
  <2>1. PICK how \in {"closed", "gone"} :
          /\ client.at = "open" \/ (client.at = "closed" /\ how = "gone")
          /\ client' = [at |-> how, sent |-> client.sent] /\ agent' = agent /\ up' = up
    BY <1>2, Zenon DEF Grpc!ClientLeaves, StreamTyped, ClientType
  <2> QED
    BY <2>1 DEF StreamUpward, StreamTyped, ClientType, UpType
<1>3. CASE Grpc!AgentSends \/ Grpc!AgentEnds
  <2>1. /\ agent.at = "running" /\ agent'.eof = agent.eof
        /\ client' = client /\ up' = up
    BY <1>3, Zenon DEF Grpc!AgentSends, Grpc!AgentEnds, StreamTyped, AgentType
  <2> QED
    BY <2>1, Zenon DEF StreamUpward
<1>4. CASE Grpc!Open
  <2>1. agent' = agent /\ client' = client
        /\ (up' = up \/ (up'.at = "recv" /\ up'.frames = up.frames))
    BY <1>4, Zenon DEF Grpc!Open, StreamTyped, UpType
  <2>2. ~agent.eof \/ up' = up
    BY <1>4, Zenon DEF Grpc!Open, StreamOrdered, StreamUpward
  <2> QED
    BY <2>1, <2>2, Zenon DEF StreamUpward
<1>5. CASE Grpc!UpRecv
  <2>1. /\ up.at = "recv" /\ agent' = agent /\ client' = client /\ up'.frames = up.frames
        /\ \/ up.frames < client.sent /\ up'.at = "send"
           \/ client.at = "closed" /\ up.frames = client.sent /\ up'.at = "report"
           \/ client.at = "gone" /\ up'.at = "report"
    BY <1>5, Zenon DEF Grpc!UpRecv, StreamTyped, UpType
  <2> QED
    BY <2>1, Zenon DEF StreamUpward
<1>6. CASE Grpc!UpSend
  <2>1. /\ up.at = "send" /\ agent' = agent /\ client' = client
        /\ \/ up'.at = "recv" /\ up'.frames = up.frames + 1
           \/ /\ agent.at # "running" \/ client.at = "gone"
              /\ up'.at = "report" /\ up'.frames = up.frames
    BY <1>6, Zenon DEF Grpc!UpSend, StreamTyped, UpType
  <2> QED
    BY <2>1 DEF StreamUpward, StreamTyped, ClientType, UpType
<1>7. CASE Grpc!UpReport
  <2>1. /\ up.at = "report" /\ up'.at = "close" /\ up'.frames = up.frames
        /\ agent' = agent /\ client' = client
    BY <1>7, Zenon DEF Grpc!UpReport, StreamTyped, UpType
  <2> QED
    BY <2>1, Zenon DEF StreamUpward
<1>8. CASE Grpc!CloseSend
  <2>1. /\ up.at = "close" /\ up'.at = "done" /\ up'.frames = up.frames
        /\ agent'.at = agent.at /\ client' = client
    BY <1>8, Zenon DEF Grpc!CloseSend, StreamTyped, UpType, AgentType
  <2> QED
    BY <2>1, Zenon DEF StreamUpward
<1>9. CASE Grpc!AwaitBackend \/ Grpc!AwaitClient \/ Grpc!DownPump \/ Grpc!Over \/ UNCHANGED grpcVars
  <2>1. UNCHANGED <<client, agent, up>>
    BY <1>9, Zenon DEF Grpc!AwaitBackend, Grpc!AwaitClient, Grpc!DownPump, Grpc!Header, Grpc!DownRecv,
       Grpc!DownSend, Grpc!Count, Grpc!DownReport, Grpc!Over, Grpc!streamVars, grpcVars
  <2> QED
    BY <2>1, Zenon DEF StreamUpward
<1> QED
  BY <1>1, <1>2, <1>3, <1>4, <1>5, <1>6, <1>7, <1>8, <1>9, Zenon
     DEF Grpc!Next, Grpc!Handler, Grpc!UpPump, grpcVars

\* Each end is given the frames of the other, and the client the agent's status,
\* as they would be without the broker,
\* in whatever order the two ends finish (the stream handler, copyMessages).
THEOREM StreamsFaithful == Grpc!Spec => []Grpc!Faithful
<1>1. ASSUME Grpc!Init PROVE StreamInv /\ StreamUpward
  <2>1. StreamTyped
    BY <1>1, Zenon DEF Grpc!Init, Grpc!Idle, StreamTyped, ClientType, AgentType, UpType, DownType,
       ResultsType, HandlerType, Errs
  <2>2. /\ up.at = "idle" /\ down.at = "idle" /\ down.frames = 0 /\ counted = 0
        /\ handler.at = "begin" /\ results.up = "none" /\ results.down = "none"
    BY <1>1, Zenon DEF Grpc!Init, Grpc!Idle
  <2>3. StreamOrdered
    BY <2>2 DEF StreamOrdered
  <2>4. StreamKept
    BY <2>2, Zenon DEF StreamKept
  <2>5. StreamUpward
    BY <1>1 DEF Grpc!Init, Grpc!Idle, StreamUpward
  <2> QED
    BY <2>1, <2>3, <2>4, <2>5, Zenon DEF StreamInv
<1>2. StreamInv /\ StreamUpward /\ [Grpc!Next]_grpcVars => StreamInv' /\ StreamUpward'
  BY StreamStep, UpwardStep, Zenon DEF StreamInv
<1>3. ASSUME StreamInv, StreamUpward PROVE Grpc!Faithful
  <2>1. StreamOrdered /\ (client.at # "gone" => StreamKept) /\ counted \in Nat /\ down.frames \in Nat
    BY <1>3, Zenon DEF StreamInv, StreamTyped, DownType
  <2>2. counted <= down.frames /\ down.frames <= counted + 1
    BY <2>1 DEF StreamOrdered
  <2>3. ASSUME client.at # "gone", down.frames > 0 PROVE header
    <3>1. down.frames # 0
      BY <2>1, <2>3
    <3>2. down.at \notin {"idle", "header"}
      BY <2>1, <3>1, Zenon DEF StreamOrdered
    <3> QED
      BY <2>1, <2>3, <3>2, Zenon DEF StreamKept
  <2>4. ASSUME handler.at = "ended", up.at # "idle", client.at # "gone"
        PROVE  handler.status = agent.at /\ header /\ down.frames = agent.sent /\ counted = agent.sent
    BY <2>1, <2>4, Zenon DEF StreamOrdered, StreamKept, Reported
  <2>5. /\ up.frames <= client.sent
        /\ agent.eof /\ agent.at = "running" /\ client.at # "gone" =>
             client.at = "closed" /\ up.frames = client.sent
    BY <1>3, Zenon DEF StreamUpward
  <2> QED
    BY <2>2, <2>3, <2>4, <2>5, Zenon DEF Grpc!Faithful, Grpc!Ended, Grpc!Opened
<1> QED
  BY <1>1, <1>2, <1>3, PTL DEF Grpc!Spec, Grpc!streamVars, grpcVars

-----------------------------------------------------------------------------
(* The parts together *)

\* Every behaviour of the composition is one of each part: a step of one part leaves
\* the variables of the others alone.
LEMMA PartsImplemented == MCSpec => Spec /\ Pod!Spec /\ File!Spec /\ Grpc!Spec
<1>1. MCInit => Init /\ Pod!Init /\ File!Init /\ Grpc!Init
  BY Zenon DEF MCInit
<1>2. [MCNext]_mcVars => [Next]_vars
  BY Zenon DEF MCNext, mcVars, Limiter, Stream, vars
<1>3. [MCNext]_mcVars => [Pod!Next]_podVars
  BY Zenon DEF MCNext, mcVars, Limiter, Stream, podVars
<1>4. [MCNext]_mcVars => [File!Next \/ File!Done]_fileVars
  BY Zenon DEF MCNext, mcVars, Limiter, Stream, fileVars
<1>5. [MCNext]_mcVars => [Grpc!Next]_grpcVars
  BY Zenon DEF MCNext, mcVars, Limiter, Stream, grpcVars
<1> QED
  BY <1>1, <1>2, <1>3, <1>4, <1>5, PTL
     DEF MCSpec, Spec, Pod!Spec, File!Spec, Grpc!Spec, podVars, Pod!vars, fileVars, File!vars,
         grpcVars, Grpc!streamVars

\* For every grace period, load and number of faults, an HTTP broker whose budgets
\* fit is never killed while it shuts down, and a request is cut off only when both
\* budgets are spent (deriveBudgets, RunDrain, runServeLoop).
THEOREM BrokerEndsInTime ==
  ASSUME PodSetting
  PROVE  MCSpec => []EndsInTime
BY PartsImplemented, EndsWithinBudgets, PTL DEF EndsInTime

\* However long the endpoints take to forget the pod and a request takes to reach
\* it, if the propagation wait is longer the broker still takes every request that
\* was sent to it (RunDrain, pollUntilDrained, runServeLoop).
THEOREM BrokerNoneRefused ==
  ASSUME PodSetting
  PROVE  MCSpec => []NoneRefused
BY PartsImplemented, LateOnesTaken, PTL DEF NoneRefused

\* No number of handlers and no interleaving with the SDK's writes makes a reply
\* older than the file was when its request came in (readPeerHashes).
THEOREM BrokerRepliesCurrent ==
  ASSUME FileSetting
  PROVE  MCSpec => []ReplyCurrent
BY PartsImplemented, RepliesCurrent, PTL DEF ReplyCurrent

\* A client that stays is given the agent's header, frames and status, and an agent
\* at work all that the client sent, whatever their number and whichever end finishes
\* first (the stream handler, copyMessages).
THEOREM BrokerStreamsFaithful == MCSpec => []StreamFaithful
BY PartsImplemented, StreamsFaithful, PTL DEF StreamFaithful
=============================================================================
