-------------------------------- MODULE Rater --------------------------------
(***************************************************************************)
(* The daemon's rater for one AgentDeploy: scraped samples per pod, and    *)
(* the rates and averages GetMetrics computes from them.                   *)
(*                                                                         *)
(* Time is in ticks; every quotient is taken in parts of Unit, a multiple  *)
(* of all time differences, and so is exact.  Request and stream-message   *)
(* counters are treated alike by the code and are one counter here.  Ages, *)
(* the retention and the windows are scaled down together.  The field      *)
(* served of a sample records what really happened and is read by          *)
(* properties only.                                                        *)
(***************************************************************************)
EXTENDS Integers, SequencesExt

CONSTANTS
  Pods, Transports,
  Windows,               \* window key -> lookback
  Retention, MaxSamplesPerPod,
  Unit,
  Loads,                 \* in-flight requests a pod may have, per transport
  MaxTime, MaxRequests, MaxRestarts,   \* bounds
  TransportTotal, ErrNoData

VARIABLES
  now,
  live,                  \* the pods that run
  counter, inflight,     \* what each broker exposes, per transport
  served,                \* requests each pod ever completed
  byPod,                 \* AgentDeployBuffers
  restarts

vars == <<now, live, counter, inflight, served, byPod, restarts>>

None0 == [t \in Transports |-> 0]
Total(f) == FoldFunction(LAMBDA a, b : a + b, 0, f)

TypeOK ==
  /\ now \in 0 .. MaxTime /\ live \subseteq Pods
  /\ \A p \in DOMAIN byPod :
       /\ p \in Pods /\ Len(byPod[p]) \in 1 .. MaxSamplesPerPod
       /\ \A i \in 2 .. Len(byPod[p]) : byPod[p][i - 1].timestamp <= byPod[p][i].timestamp

-----------------------------------------------------------------------------
(* The windows' arithmetic *)

\* The samples from the first one that is young enough.
samplesInWindow(samples, lookback) ==
  LET young == {i \in DOMAIN samples : samples[i].timestamp >= now - lookback} IN
  IF young = {} THEN <<>> ELSE SubSeq(samples, Min(young), Len(samples))

\* counterValue and inflightValue: one transport, or the sum.
Value(f, transport) == IF transport = TransportTotal THEN Total(f) ELSE f[transport]

Span(w) == w[Len(w)].timestamp - w[1].timestamp

\* Mutant of delta: what a run reached before a reset counts from zero.
deltaPeaks(w, transport) ==
  LET v(i) == Value(w[i].requests, transport)
      Resets == {i \in 2 .. Len(w) : v(i) < v(i - 1)}
  IN MapThenSumSet(LAMBDA i : v(i - 1), Resets) + v(Len(w))

\* What the runs between resets add up to: the first from where the window
\* found it, the others from zero.
delta(w, transport) ==
  LET v(i) == Value(w[i].requests, transport)
      Resets == {i \in 2 .. Len(w) : v(i) < v(i - 1)}
  IN MapThenSumSet(LAMBDA i : v(i - 1), Resets) + v(Len(w)) - v(1)

podRate(samples, lookback, transport) ==
  LET w == samplesInWindow(samples, lookback) IN
  IF Len(w) < 2 \/ Span(w) <= 0 THEN [ok |-> FALSE, rate |-> 0]
  ELSE [ok |-> TRUE, rate |-> delta(w, transport) * (Unit \div Span(w))]

podInflightAvg(samples, lookback, transport) ==
  LET w == samplesInWindow(samples, lookback)
      v(i) == Value(w[i].inflight, transport)
      weighted == MapThenSumSet(LAMBDA i : v(i) * (w[i + 1].timestamp - w[i].timestamp),
                                1 .. Len(w) - 1)
  IN IF w = <<>> THEN [ok |-> FALSE, avg |-> 0]
     ELSE IF Span(w) = 0 THEN [ok |-> TRUE, avg |-> v(Len(w)) * Unit]
     ELSE [ok |-> TRUE, avg |-> weighted * (Unit \div Span(w))]

CalculateRequestRate(lookback, transport) ==
  MapThenSumSet(LAMBDA p : podRate(byPod[p], lookback, transport).rate, DOMAIN byPod)

CalculateInflightAvg(lookback, transport) ==
  MapThenSumSet(LAMBDA p : podInflightAvg(byPod[p], lookback, transport).avg, DOMAIN byPod)

HasUsableHistory == \E p \in DOMAIN byPod : Len(byPod[p]) >= 2

\* The keys of every sample: a transport is exposed once it has been used.
ObservedTransports ==
  {t \in Transports : \E p \in DOMAIN byPod : \E i \in DOMAIN byPod[p] :
     byPod[p][i].requests[t] > 0 \/ byPod[p][i].inflight[t] > 0}

\* The fixed windows, and one of the caller's own length up to the retention.
Lookbacks(custom) ==
  IF custom > 0 THEN Windows @@ ("custom" :> Min({custom, Retention})) ELSE Windows

PerWindowValues(lookbacks, transport) ==
  [k \in DOMAIN lookbacks |->
     [rate |-> CalculateRequestRate(lookbacks[k], transport),
      inflight |-> CalculateInflightAvg(lookbacks[k], transport)]]

GetMetrics(custom) ==
  IF ~HasUsableHistory THEN ErrNoData
  ELSE LET lookbacks == Lookbacks(custom) IN
       [total |-> PerWindowValues(lookbacks, TransportTotal),
        perTransport |-> [t \in ObservedTransports |-> PerWindowValues(lookbacks, t)]]

-----------------------------------------------------------------------------
(* Pods and their brokers *)

Tick ==
  /\ now < MaxTime /\ now' = now + 1
  /\ UNCHANGED <<live, counter, inflight, served, byPod, restarts>>

Completes(p, t) ==
  /\ p \in live /\ Total(served) < MaxRequests
  /\ counter' = [counter EXCEPT ![p][t] = @ + 1]
  /\ served' = [served EXCEPT ![p] = @ + 1]
  /\ UNCHANGED <<now, live, inflight, byPod, restarts>>

LoadChanges(p, t) ==
  /\ p \in live
  /\ \E n \in Loads \ {inflight[p][t]} : inflight' = [inflight EXCEPT ![p][t] = n]
  /\ UNCHANGED <<now, live, counter, served, byPod, restarts>>

\* The broker of a pod restarts, its counters start again.
BrokerRestarts(p) ==
  /\ p \in live /\ restarts < MaxRestarts /\ restarts' = restarts + 1
  /\ counter' = [counter EXCEPT ![p] = None0] /\ inflight' = [inflight EXCEPT ![p] = None0]
  /\ UNCHANGED <<now, live, served, byPod>>

\* A pod goes and another takes over what it was doing.
Replaced(p, q) ==
  /\ p \in live /\ q \notin live /\ counter[q] = None0
  /\ restarts < MaxRestarts /\ restarts' = restarts + 1
  /\ live' = (live \ {p}) \cup {q}
  /\ inflight' = [inflight EXCEPT ![p] = None0, ![q] = inflight[p]]
  /\ UNCHANGED <<now, counter, served, byPod>>

-----------------------------------------------------------------------------
(* Scraping *)

\* Append of an OverflowQueue: the oldest element makes room.
Overflow(q, s) ==
  IF Len(q) >= MaxSamplesPerPod THEN Append(Tail(q), s) ELSE Append(q, s)

\* What a broker's metrics page says, stamped when the scrape completes.
ScrapeMetrics(p) ==
  [timestamp |-> now, requests |-> counter[p], inflight |-> inflight[p], served |-> served[p]]

\* The buffers after a sample of pod p; those of other pods stay, for good.
Recorded(p, s) ==
  (p :> IF p \in DOMAIN byPod THEN Overflow(byPod[p], s) ELSE <<s>>) @@ byPod

\* A scrape that succeeds.  One that fails leaves everything as it was.
scrapeOneAgentDeploy(p) ==
  /\ p \in live
  /\ byPod' = Recorded(p, ScrapeMetrics(p))
  /\ UNCHANGED <<now, live, counter, inflight, served, restarts>>

Init ==
  /\ now = 0
  /\ \E p \in Pods : live = {p}
  /\ counter = [p \in Pods |-> None0] /\ inflight = counter
  /\ served = [p \in Pods |-> 0]
  /\ byPod = <<>> /\ restarts = 0

Next ==
  \/ Tick
  \/ \E p \in Pods : BrokerRestarts(p) \/ scrapeOneAgentDeploy(p) \/ \E q \in Pods : Replaced(p, q)
  \/ \E p \in Pods, t \in Transports : Completes(p, t) \/ LoadChanges(p, t)

Spec == Init /\ [][Next]_vars

-----------------------------------------------------------------------------
(* Properties *)

InWindow(p, k) == samplesInWindow(byPod[p], Windows[k])

\* The rate of a pod never counts a request it did not serve between the
\* window's first and last sample, whatever restarts there were, and counts
\* every one of them when there was none.
RateBounded ==
  \A p \in DOMAIN byPod, k \in DOMAIN Windows :
    LET w == InWindow(p, k)
        r == podRate(byPod[p], Windows[k], TransportTotal)
        truth == (w[Len(w)].served - w[1].served) * (Unit \div Span(w))
    IN r.ok => r.rate >= 0 /\ r.rate <= truth /\ (restarts = 0 => r.rate = truth)

\* The average load of a pod lies between the least and the greatest load its
\* samples in the window show: gaps before the first sample, after the last one
\* and between scrapes do not dilute it.
AvgWithinObserved ==
  \A p \in DOMAIN byPod, k \in DOMAIN Windows :
    LET w == InWindow(p, k)
        seen == {Total(w[i].inflight) : i \in DOMAIN w}
        r == podInflightAvg(byPod[p], Windows[k], TransportTotal)
    IN w # <<>> => r.ok /\ r.avg >= Unit * Min(seen) /\ r.avg <= Unit * Max(seen)

\* The totals of GetMetrics are the sums of what it reports per transport, as
\* the comment of AgentDeployMetrics says, as long as no broker restarts: a
\* reset of one transport's counter may be hidden in the total of them all.
TotalIsSum ==
  LET m == GetMetrics(0) IN
  (restarts = 0 /\ m # ErrNoData) => \A k \in DOMAIN Windows :
    m.total[k].rate = MapThenSumSet(LAMBDA t : m.perTransport[t][k].rate, DOMAIN m.perTransport)
=============================================================================
