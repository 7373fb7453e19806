------------------------------ MODULE MCSignals ------------------------------
(***************************************************************************)
(* The arithmetic between what is measured and what is decided, for TLC:   *)
(* rates and averages of the daemon, the gate in front of a peer's card,   *)
(* the samples to learn from, the knee, the decision, and the encoded      *)
(* history.  They share no state, so each behaviour exercises one part,    *)
(* while the others stay as they begin; x is the state of a part that has  *)
(* no variables of its own.                                                *)
(***************************************************************************)
EXTENDS Estimator, Codec, TLC

CONSTANTS Cards, None, MaxPolls, p1, p2, t1, t2, ErrNoData

VARIABLES part, x, now, live, counter, inflight, served, byPod, restarts

Dec   == INSTANCE Decision WITH defaultKneePerReplica <- 4, DefaultMinReplicas <- 1, SignBit <- 64
Gate  == INSTANCE StabilityGate WITH StabilityWindow <- 3
Curve == INSTANCE Estimator WITH warmupAfterScale <- 1, numBuckets <- 8
MCWindows == ("short" :> 1) @@ ("long" :> 3)
\* Two pods with one transport, and one pod with two.
Fleet == INSTANCE Rater
  WITH Pods <- {p1, p2}, Transports <- {t1}, Windows <- MCWindows, Retention <- 4,
       MaxSamplesPerPod <- 3, Unit <- 12, Loads <- {0}, MaxTime <- 3, MaxRequests <- 2,
       MaxRestarts <- 2, TransportTotal <- None
Loaded == INSTANCE Rater
  WITH Pods <- {p1, p2}, Transports <- {t1}, Windows <- MCWindows, Retention <- 4,
       MaxSamplesPerPod <- 3, Unit <- 12, Loads <- {0, 1}, MaxTime <- 3, MaxRequests <- 0,
       MaxRestarts <- 1, TransportTotal <- None
Mixed == INSTANCE Rater
  WITH Pods <- {p1}, Transports <- {t1, t2}, Windows <- MCWindows, Retention <- 4,
       MaxSamplesPerPod <- 3, Unit <- 12, Loads <- {0}, MaxTime <- 3, MaxRequests <- 2,
       MaxRestarts <- 1, TransportTotal <- None

MCWeight == <<4, 2, 1>>
raterVars == <<now, live, counter, inflight, served, byPod, restarts>>
vars == <<part, x, raterVars>>

-----------------------------------------------------------------------------
(* Inputs *)

Inputs ==
  [current : {0, 1, 3, 5}, ready : {0, 2},
   sample : [replicas : {0, 2}, inflight : {0, 1, 6, 12}],
   est : [knee : {2, 6}, confidence : {0, 5, 10}],
   maxInFlight : {0, 6}, sinceLast : {0, 2},
   spec : [min : {0, 2}, max : {1, 4}, saturation : {0, 50}, stepUp : {0, 2, 63},
           stepDown : {1, 63}, upCooldown : {0, 1}, downCooldown : {1, 3}]]

Signed == {-1, 0, 1}
Histories ==
  [specHash : BoundedSeq({1, 2}, 2),
   records : BoundedSeq([timestamp : Signed, replicas : Signed, inflight : {0, 2},
                         rate : {1}, count : {1}], 2)]

MCInit ==
  \/ /\ part \in {"fleet", "loaded"} /\ x = None /\ Fleet!Init
  \/ /\ part = "mixed" /\ x = None /\ Mixed!Init
  \/ /\ Fleet!Init /\ live = {p1}
     /\ \/ part = "decision" /\ x \in Inputs
        \/ part = "sanitize" /\ x = [hist |-> <<>>, K |-> 1]
        \/ part = "curve" /\ x \in [hist : {<<>>}, K : 1 .. 4]
        \/ part = "gate" /\ x = [gate |-> Gate!noGate, shown |-> <<>>]
        \/ /\ part = "blob"
           /\ \E h \in Histories : x = [hist |-> h, blob |-> encodeHistory(h.specHash, h.records)]

-----------------------------------------------------------------------------
(* Steps of the parts without variables of their own *)

\* An ideal agent: throughput follows concurrency up to K and stays there.
Ideal(n) == Min({n, x.K})

\* A sample enters a history: in any order, for a history reloaded after a
\* failover is recorded into again, or one per tick.
Measured(t, n, load) ==
  x' = [x EXCEPT !.hist = Append(@, [t |-> t, replicas |-> n, inflight |-> load,
                                     rate |-> Ideal(load)])]
Observe ==
  \/ /\ part = "sanitize" /\ Len(x.hist) < 4
     /\ \E t \in 0 .. 4, n \in {1, 2}, load \in {0, 1} : Measured(t, n, load)
  \/ /\ part = "curve" /\ Len(x.hist) < 5
     /\ \E load \in {1, 2, 3, 5, 7} : Measured(Len(x.hist), 1, load)

\* The peer shows a card.
Poll ==
  /\ part = "gate" /\ Len(x.shown) < MaxPolls
  /\ \E hash \in Cards : x' = [gate |-> Gate!observe(x.gate, hash), shown |-> Append(x.shown, hash)]

Own == encodeHistory(x.hist.specHash, x.hist.records)

\* A blob is cut short, runs on into what follows it, or has another version
\* or another count.
Garble ==
  /\ part = "blob"
  /\ \/ Len(x.blob) > 1 /\ IsPrefix(x.blob, Own) /\ x' = [x EXCEPT !.blob = Front(@)]
     \/ x.blob = Own /\ \E d \in 0 .. Byte - 1 : x' = [x EXCEPT !.blob = Append(@, d)]
     \/ /\ x.blob = Own
        /\ \E at \in {1, Header(Own).body}, d \in 0 .. Byte - 1 : x' = [x EXCEPT !.blob[at] = d]

MCNext ==
  /\ part' = part
  /\ \/ (Observe \/ Poll \/ Garble) /\ UNCHANGED raterVars
     \/ part = "fleet" /\ Fleet!Next /\ x' = x
     \/ part = "loaded" /\ Loaded!Next /\ x' = x
     \/ part = "mixed" /\ Mixed!Next /\ x' = x

MCSpec == MCInit /\ [][MCNext]_vars

-----------------------------------------------------------------------------
(* Properties *)

\* What the daemon measures is true to what happened: buffers hold no more
\* samples than they may, in the order of their scrapes; the rate of a pod never
\* counts a request it did not serve between the window's first and last sample,
\* whatever restarts there were, and counts every one of them when there was
\* none (podRate); the average load of a pod lies between the least and the
\* greatest load its samples in the window show (podInflightAvg); and without
\* restarts the totals of GetMetrics are the sums of what it reports per
\* transport (comment of AgentDeployMetrics).
MetricsTruthful ==
  CASE part = "fleet"  -> Fleet!TypeOK /\ Fleet!RateBounded
    [] part = "loaded" -> Loaded!TypeOK /\ Loaded!AvgWithinObserved
    [] part = "mixed"  -> Mixed!TypeOK /\ Mixed!TotalIsSum
    [] OTHER           -> TRUE

Verdict == Dec!Decide(x)
Bounds == Dec!minMax(x.spec)

\* What is decided lies in [min, max], whatever the spec says.
StaysInRange == ~Verdict.skip => Verdict.replicas \in Bounds.min .. Bounds.max

\* A fleet inside its range is only changed after the cooldown of the
\* direction, by no more than its step, and not against the load.
PacedWithinRange ==
  (x.current \in Bounds.min .. Bounds.max /\ Bounds.min # Bounds.max /\ ~Verdict.skip) =>
    /\ Verdict.replicas > x.current =>
         /\ x.sinceLast >= x.spec.upCooldown
         /\ Verdict.replicas - x.current <= x.spec.stepUp
         /\ Dec!Total(x) > 0 /\ Verdict.replicas <= Dec!Sized(x)
    /\ Verdict.replicas < x.current =>
         /\ x.sinceLast >= x.spec.downCooldown
         /\ x.current - Verdict.replicas <= x.spec.stepDown
         /\ Dec!Total(x) > 0 => Verdict.replicas >= Dec!Sized(x)

\* More load never leads to fewer replicas, unless the rate limit cuts in.
MonotoneInLoad ==
  x.maxInFlight = 0 =>
    \A l \in {1, 6, 12} :
      l >= x.sample.inflight =>
        Dec!Decide([x EXCEPT !.sample.inflight = l]).replicas >= Verdict.replicas

\* Decide keeps within the range, the cooldowns and the steps of the spec, and
\* follows the load, for unset, inverted and extreme fields alike.
DecisionSound == part = "decision" => StaysInRange /\ PacedWithinRange /\ MonotoneInLoad

Seen == {x.hist[i].t : i \in DOMAIN x.hist}
Before(t) == {u \in Seen : u < t}

\* The sample of an instant that stays when the samples are sorted into p.
Winner(p, t) == p[Max({i \in DOMAIN p : p[i].t = t})]
FleetChangedAt(p, t) ==
  Before(t) # {} /\ Winner(p, t).replicas # Winner(p, Max(Before(t))).replicas

\* Whichever samples of one instant the sort puts last, Sanitize keeps exactly
\* those of them, in order, that are valid and that no change of the fleet
\* precedes by less than the warmup.
SanitizeExact ==
  part = "sanitize" =>
    \A p \in Sortings(x.hist) : \E clean \in {Sanitize(p)} :
      /\ \A i \in 1 .. Len(clean) - 1 : clean[i].t < clean[i + 1].t
      /\ {clean[i] : i \in DOMAIN clean} =
          {Winner(p, t) : t \in {u \in Seen : valid(Winner(p, u)) /\ \A c \in Seen :
             (c <= u /\ FleetChangedAt(p, c)) => u - c >= warmupAfterScale}}

\* Samples taken tick by tick are sorted as they are.
Clean == Curve!Sanitize(x.hist)
Est == Curve!EstimateKnee(Clean, Len(x.hist))
Learns == part = "curve" /\ x.hist # <<>> /\ Len(Clean) >= minSamplesToLearn

\* The knee lies among the loads that were observed, so that the target
\* derived from it is positive, and a lower bound never earns more than two
\* fifths of the confidence.
Usable(est) ==
  /\ \E i \in DOMAIN Clean : Clean[i].inflight * est.knee[2] <= est.knee[1]
  /\ \E i \in DOMAIN Clean : Clean[i].inflight * est.knee[2] >= est.knee[1]
  /\ est.confidence[1] <= est.confidence[2]
  /\ est.lowerBound => 5 * est.confidence[1] <= 2 * est.confidence[2]

\* The knee that is found is usable, and for an ideal agent and one load per
\* band no observed load lies between it and the true one, while a lower bound
\* means that at most one load beyond the true knee was seen (EstimateKnee).
KneeFound ==
  Learns => \E est \in {Est}, loads \in {{Clean[i].inflight : i \in DOMAIN Clean}} :
    /\ Usable(est)
    /\ (Cardinality(loads) > 1 /\ Min(loads) <= x.K) =>
         LET knee == est.knee[1] \div est.knee[2] IN
         /\ knee \in loads
         /\ ~est.lowerBound => \A l \in loads : ~(knee < l /\ l < x.K) /\ ~(x.K < l /\ l < knee)
         /\ est.lowerBound => Cardinality({l \in loads : l > x.K}) <= 1

\* What the capacity is learned from, and what is learned: exactly the samples
\* that are fit for it, and a knee that is usable and true to them.
LearnsSoundly == SanitizeExact /\ KneeFound

\* A blob decodes to the history it was made from, and a blob that was cut
\* short, runs on, or says another version or count is refused rather than
\* misread (the checks of decodeHistory).
DecodesOwnOnly ==
  part = "blob" => decodeHistory(x.blob) = IF x.blob = Own THEN x.hist ELSE Error

\* The ends of the runs of three equal answers.
Steady == {k \in 3 .. Len(x.shown) : \A j \in k - 2 .. k : x.shown[j] = x.shown[k]}

\* The accepted hash is that of the last StabilityWindow equal answers in a
\* row, and none before there were any: a peer in the middle of a rollout
\* that alternates between two cards never moves it, and a card that stays
\* is never held off by what was pending before (gatedHash.observe).
AcceptsLastSteady ==
  part = "gate" =>
    x.gate \in Gate!gatedHash /\ x.gate.accepted = IF Steady = {} THEN None ELSE x.shown[Max(Steady)]
=============================================================================
