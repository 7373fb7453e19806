------------------------------ MODULE Estimator ------------------------------
(***************************************************************************)
(* How the autoscaler learns a replica's capacity from its history         *)
(* (scaling/history/sample.go, scaling/decision/estimator.go): Sanitize    *)
(* picks the samples to learn from, bucketize draws the curve of           *)
(* throughput over concurrency, findKnee finds where it flattens.          *)
(*                                                                         *)
(* Numbers are exact: a weighted mean is kept as its two sums, a fraction  *)
(* as a pair.  The recency weight exp(-age/tau) is any table of positive,  *)
(* not increasing weights.                                                 *)
(***************************************************************************)
EXTENDS Integers, Sequences, SequencesExt, FiniteSetsExt

CONSTANTS
  warmupAfterScale, minSamplesToLearn, fullConfidenceWindow, numBuckets,
  Weight     \* recencyWeight by age; the oldest age is the last entry

ASSUME EstimatorAssumption ==
  /\ warmupAfterScale \in Nat /\ minSamplesToLearn \in Nat \ {0}
  /\ fullConfidenceWindow \in Nat \ {0} /\ numBuckets \in Nat \ {0}
  /\ \A i \in DOMAIN Weight : Weight[i] \in Nat \ {0}
  /\ \A i \in DOMAIN Weight : i > 1 => Weight[i] <= Weight[i - 1]

valid(s) == s.replicas > 0 /\ s.inflight > 0 /\ s.rate > 0

-----------------------------------------------------------------------------
(* Sanitize *)

\* sort.Slice is not stable: samples of one instant may end up in any order.
Sortings(hist) ==
  {p \in {[i \in DOMAIN hist |-> hist[f[i]]] :
            f \in {g \in [DOMAIN hist -> DOMAIN hist] : \A i, j \in DOMAIN hist :
                     i # j => g[i] # g[j]}} :
     \A i \in 1 .. Len(p) - 1 : p[i].t <= p[i + 1].t}

\* Of the samples of one instant the last one stays.
dedupByTimestamp(sorted) ==
  FoldLeft(LAMBDA out, s : IF out # <<>> /\ Last(out).t = s.t
                           THEN [out EXCEPT ![Len(out)] = s] ELSE Append(out, s),
           <<>>, sorted)

\* Valid samples, and none within the warmup after the fleet changed size.
cleanSamples(all) ==
  LET Step(acc, s) ==
        LET changed == acc.prev # <<>> /\ s.replicas # acc.prev[1]
            last    == IF changed THEN <<s.t>> ELSE acc.lastChange
        IN [prev |-> <<s.replicas>>, lastChange |-> last,
            clean |-> IF ~valid(s) \/ (last # <<>> /\ s.t - last[1] < warmupAfterScale)
                      THEN acc.clean ELSE Append(acc.clean, s)]
  IN FoldLeft(Step, [prev |-> <<>>, lastChange |-> <<>>, clean |-> <<>>], all).clean

\* What Sanitize returns of a history, given the order the sort leaves it in.
Sanitize(sorted) == cleanSamples(dedupByTimestamp(sorted))

-----------------------------------------------------------------------------
(* EstimateKnee *)

recencyWeight(age) ==
  IF age < 0 THEN Weight[1] ELSE Weight[Min({age + 1, Len(Weight)})]

bandOf(s, lo, hi) ==
  Min({((s.inflight - lo) * numBuckets) \div (hi - lo), numBuckets - 1})

\* The non-empty bands in ascending order, each by its sums.
bucketize(clean, now) ==
  LET loads == {clean[i].inflight : i \in DOMAIN clean}
      lo == Min(loads)
      hi == Max(loads)
      Of(b) == {i \in DOMAIN clean : bandOf(clean[i], lo, hi) = b}
      W(i) == recencyWeight(now - clean[i].t)
      Bucket(b) == [inflight |-> MapThenSumSet(LAMBDA i : clean[i].inflight * W(i), Of(b)),
                    rate |-> MapThenSumSet(LAMBDA i : clean[i].rate * W(i), Of(b)),
                    weight |-> MapThenSumSet(W, Of(b))]
  IN IF hi <= lo THEN <<[inflight |-> hi, rate |-> 0, weight |-> 1]>>
     ELSE [b \in 1 .. numBuckets |-> Bucket(b - 1)]

NonEmpty(buckets) == SelectSeq(buckets, LAMBDA b : b.weight > 0)

\* Differences of means, over the product of the two weights.
dInflight(b, a) == b.inflight * a.weight - a.inflight * b.weight
dRate(b, a) == b.rate * a.weight - a.rate * b.weight

\* The marginal rate drops below a fifth (plateauFraction) of the slope at
\* the lowest load.
flattens(buckets, i) ==
  LET a == buckets[i - 1]
      b == buckets[i]
  IN dInflight(b, a) > 0 /\ 5 * dRate(b, a) * buckets[1].inflight
                              < dInflight(b, a) * buckets[1].rate

\* Mutant of findKnee: the slope is taken for flat one band too late.
findKneeLate(buckets) ==
  LET flat == {i \in 2 .. Len(buckets) : flattens(buckets, i)} IN
  IF buckets[1].rate <= 0 \/ flat = {} THEN [bucket |-> Last(buckets), lowerBound |-> TRUE]
  ELSE [bucket |-> buckets[Max(flat)], lowerBound |-> FALSE]

\* The last band still rising; if none flattens, the highest one seen.
findKnee(buckets) ==
  LET flat == {i \in 2 .. Len(buckets) : flattens(buckets, i)} IN
  IF buckets[1].rate <= 0 \/ flat = {} THEN [bucket |-> Last(buckets), lowerBound |-> TRUE]
  ELSE [bucket |-> buckets[Min(flat) - 1], lowerBound |-> FALSE]

\* Fractions <<n, d>>, clamped to at most one.
Frac(n, d) == IF n >= d THEN <<1, 1>> ELSE <<n, d>>

timeSpanFactor(clean) ==
  IF Len(clean) < 2 THEN <<0, 1>> ELSE Frac(Last(clean).t - clean[1].t, fullConfidenceWindow)

\* (hi - lo) / hi of the outermost bands.
coverageFactor(buckets) ==
  LET lo == buckets[1]
      hi == Last(buckets)
  IN Frac(dInflight(hi, lo), hi.inflight * lo.weight)

\* Two fifths (lowerBoundPenalty) when saturation was never seen.
confidence(clean, buckets, lowerBound) ==
  LET t == timeSpanFactor(clean)
      c == coverageFactor(buckets)
  IN <<(IF lowerBound THEN 2 ELSE 5) * t[1] * c[1], 5 * t[2] * c[2]>>

EstimateKnee(clean, now) ==
  LET buckets == NonEmpty(bucketize(clean, now))
      found   == findKnee(buckets)
  IN IF Len(clean) < minSamplesToLearn
     THEN [knee |-> <<0, 1>>, lowerBound |-> FALSE, confidence |-> <<0, 1>>]
     ELSE IF Len(buckets) < 2
     THEN [knee |-> <<Last(buckets).inflight, 1>>, lowerBound |-> TRUE,
           confidence |-> <<2 * timeSpanFactor(clean)[1], 5 * timeSpanFactor(clean)[2]>>]
     ELSE [knee |-> <<found.bucket.inflight, found.bucket.weight>>,
           lowerBound |-> found.lowerBound,
           confidence |-> confidence(clean, buckets, found.lowerBound)]
=============================================================================
