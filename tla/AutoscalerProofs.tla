-------------------------- MODULE AutoscalerProofs ---------------------------
(***************************************************************************)
(* Proofs about autoscaling: the ring of samples, the decision and the     *)
(* pacing of what it leads to, for every age, count, step, cooldown, load  *)
(* and range.                                                              *)
(***************************************************************************)
EXTENDS MCAutoscaler, Sequences, WellFoundedInduction, TLAPS

-----------------------------------------------------------------------------
(* The ring *)

\* Timestamps in order.
Ordered(lg) == \A i, j \in DOMAIN lg : i <= j => lg[i] <= lg[j]

\* A set of positions has a first one.
LEMMA FirstOf ==
  ASSUME NEW I, I \subseteq Nat, I # {}
  PROVE  Ring!Min(I) \in I /\ \A i \in I : Ring!Min(I) <= i
<1>1. PICK x \in I : \A y \in I : ~(<<y, x>> \in OpToRel(<, Nat))
  BY NatLessThanWellFounded, WFMin, Zenon
<1>2. \A y \in I : x <= y
  <2> SUFFICES ASSUME NEW y \in I PROVE x <= y
    BY Zenon
  <2>1. x \in Nat /\ y \in Nat
    BY Zenon
  <2>2. ~(y < x)
    BY <1>1, <2>1, Zenon DEF OpToRel
  <2> QED
    BY <2>1, <2>2
<1> QED
  BY <1>2, Zenon DEF Ring!Min

\* What evictLocked drops, d samples at the front: each is too old or above the
\* cap, and the ones it keeps are neither.
LEMMA Evicts ==
  ASSUME NEW rs \in Seq(Int), NEW t \in Int, Ordered(rs)
  PROVE  LET e == Ring!evictLocked(rs, t)
         IN  /\ e \in Seq(Int) /\ Len(e) <= maxRecords
             /\ \E d \in 0 .. Len(rs) :
                  /\ Len(e) = Len(rs) - d
                  /\ \A j \in 1 .. Len(e) : e[j] = rs[d + j] /\ rs[d + j] >= t - maxAge
                  /\ \A i \in 1 .. d : rs[i] < t - maxAge \/ i <= Len(rs) - maxRecords
<1> DEFINE I == {i \in 1 .. Len(rs) + 1 : i <= Len(rs) => rs[i] >= t - maxAge}
           n == Len(rs)
           y == Ring!firstYoung(rs, t)
           b == IF n - y + 1 - maxRecords > 0 THEN n - maxRecords + 1 ELSE y
           e == Ring!evictLocked(rs, t)
<1>1. n \in Nat /\ DOMAIN rs = 1 .. n /\ \A i \in 1 .. n : rs[i] \in Int
  OBVIOUS
<1>2. maxAge \in Nat /\ maxRecords \in Nat
  BY RingAssumption, Zenon
<1>3. y \in I /\ \A i \in I : y <= i
  <2>1. y = Ring!Min(I)
    BY Zenon DEF Ring!firstYoung
  <2>2. I \subseteq Nat /\ n + 1 \in I
    BY <1>1
  <2> HIDE DEF I, y
  <2> QED
    BY <2>1, <2>2, FirstOf, Zenon
<1> HIDE DEF n
<1>4. /\ y \in 1 .. n + 1 /\ (y <= n => rs[y] >= t - maxAge)
      /\ \A i \in 1 .. y - 1 : i \in 1 .. n /\ rs[i] < t - maxAge
  <2> HIDE DEF y
  <2>1. y \in 1 .. n + 1 /\ (y <= n => rs[y] >= t - maxAge)
    BY <1>3, Zenon DEF n
  <2>2. ASSUME NEW i \in 1 .. y - 1 PROVE i \in 1 .. n /\ rs[i] < t - maxAge
    <3>1. i \in 1 .. n /\ ~(y <= i)
      BY <1>1, <2>1
    <3>2. i \notin I
      BY <1>3, <3>1, Zenon
    <3>3. ~(rs[i] >= t - maxAge)
      BY <1>1, <3>1, <3>2 DEF n
    <3> QED
      BY <1>1, <1>2, <3>1, <3>3
  <2> QED
    BY <2>1, <2>2, Zenon
<1>5. e = SubSeq(rs, b, n)
  <2>1. y + (n - y + 1 - maxRecords) = n - maxRecords + 1
    BY <1>1, <1>2, <1>4
  <2> QED
    BY <2>1, Zenon DEF Ring!evictLocked, n
<1> HIDE DEF y, e, I
<1>6. /\ b \in 1 .. n + 1 /\ b >= y /\ n - b + 1 <= maxRecords
      /\ \A i \in 1 .. b - 1 : i \in 1 .. y - 1 \/ i <= n - maxRecords
  BY <1>1, <1>2, <1>4
<1> HIDE DEF b
<1>7. e \in Seq(Int) /\ Len(e) = n - b + 1 /\ \A j \in 1 .. n - b + 1 : e[j] = rs[b + j - 1]
  BY <1>1, <1>5, <1>6
<1>8. ASSUME NEW j \in 1 .. n - b + 1 PROVE rs[b + j - 1] >= t - maxAge
  <2>1. y \in 1 .. n /\ b + j - 1 \in 1 .. n /\ y <= b + j - 1
    BY <1>1, <1>4, <1>6
  <2>2. rs[y] <= rs[b + j - 1]
    BY <1>1, <2>1, Zenon DEF Ordered
  <2>3. rs[y] >= t - maxAge /\ rs[y] \in Int /\ rs[b + j - 1] \in Int
    BY <1>1, <1>4, <2>1
  <2> QED
    BY <1>2, <2>2, <2>3
<1> DEFINE d == b - 1
<1>9. d \in 0 .. n /\ n - b + 1 = n - d /\ \A j \in 1 .. n - b + 1 : b + j - 1 = d + j
  BY <1>1, <1>6
<1>10. Len(e) = n - d /\ Len(e) <= maxRecords
  BY <1>6, <1>7, <1>9, Zenon
<1>11. \A j \in 1 .. Len(e) : e[j] = rs[d + j] /\ rs[d + j] >= t - maxAge
  BY <1>7, <1>8, <1>9, Zenon
<1>12. \A i \in 1 .. d : rs[i] < t - maxAge \/ i <= n - maxRecords
  BY <1>4, <1>6, Zenon
<1> HIDE DEF d
<1> QED
  BY <1>7, <1>9, <1>10, <1>11, <1>12, Zenon DEF e, n

\* Samples in the log have been added by now, in order.
Logged(lg) ==
  /\ lg \in Seq(Int) /\ Ordered(lg)
  /\ \A i \in DOMAIN lg : 0 <= lg[i] /\ lg[i] <= now

(***************************************************************************)
(* The records are the log from k on, and what is missing is too old or    *)
(* above the cap.                                                          *)
(***************************************************************************)
Suffix(rs, lg, k) ==
  /\ k \in 1 .. Len(lg) + 1 /\ Len(rs) = Len(lg) - k + 1
  /\ \A j \in 1 .. Len(rs) : rs[j] = lg[k + j - 1]
  /\ \A i \in 1 .. k - 1 : lg[i] < now - maxAge \/ i <= Len(lg) - maxRecords

Backed(rs, lg) ==
  /\ Logged(lg) /\ rs \in Seq(Int) /\ Len(rs) <= maxRecords
  /\ \E k \in 1 .. Len(lg) + 1 : Suffix(rs, lg, k)

\* The inductive invariant of the ring.
RingInv == now \in 0 .. MaxTime /\ Backed(records, log) /\ Backed(saved, savedLog)

\* The positions of a suffix in the whole.
LEMMA Shifted ==
  ASSUME NEW n \in Nat, NEW k \in 1 .. n + 1
  PROVE  \A j \in 1 .. n - k + 1 : k + j - 1 \in 1 .. n
OBVIOUS

\* A part of an ordered log is ordered.
LEMMA SuffixOrdered ==
  ASSUME NEW rs \in Seq(Int), NEW lg \in Seq(Int), Ordered(lg), NEW k, Suffix(rs, lg, k)
  PROVE  Ordered(rs) /\ \A j \in DOMAIN rs : k + j - 1 \in DOMAIN lg /\ rs[j] = lg[k + j - 1]
<1>0. Len(rs) \in Nat /\ Len(lg) \in Nat /\ DOMAIN rs = 1 .. Len(rs) /\ DOMAIN lg = 1 .. Len(lg)
  OBVIOUS
<1>1. k \in 1 .. Len(lg) + 1 /\ Len(rs) = Len(lg) - k + 1
  BY Zenon DEF Suffix
<1>2. \A j \in DOMAIN rs : k + j - 1 \in DOMAIN lg
  BY <1>0, <1>1, Shifted, Zenon
<1>3. \A j \in DOMAIN rs : rs[j] = lg[k + j - 1]
  BY <1>0, Zenon DEF Suffix
<1>4. \A i, j \in DOMAIN rs : i <= j => k + i - 1 <= k + j - 1
  BY <1>0, <1>1
<1> QED
  BY <1>2, <1>3, <1>4, Zenon DEF Ordered

\* Evicting leaves the samples of the log that are young and within the cap.
LEMMA EvictsSuffix ==
  ASSUME NEW rs \in Seq(Int), NEW lg, Logged(lg), now \in Int, NEW k, Suffix(rs, lg, k)
  PROVE  LET e == Ring!evictLocked(rs, now)
         IN  /\ e \in Seq(Int) /\ Len(e) <= maxRecords
             /\ \E m \in 1 .. Len(lg) + 1 :
                  /\ Suffix(e, lg, m)
                  /\ \A i \in DOMAIN lg : i >= m => lg[i] >= now - maxAge
<1> DEFINE e == Ring!evictLocked(rs, now)
<1>1. lg \in Seq(Int) /\ Ordered(lg)
  BY Zenon DEF Logged
<1>2. Ordered(rs) /\ \A j \in DOMAIN rs : k + j - 1 \in DOMAIN lg /\ rs[j] = lg[k + j - 1]
  BY <1>1, SuffixOrdered, Zenon
<1>3. e \in Seq(Int) /\ Len(e) <= maxRecords
  BY <1>2, Evicts, Zenon
<1>4. PICK d \in 0 .. Len(rs) :
        /\ Len(e) = Len(rs) - d
        /\ \A j \in 1 .. Len(e) : e[j] = rs[d + j] /\ rs[d + j] >= now - maxAge
        /\ \A i \in 1 .. d : rs[i] < now - maxAge \/ i <= Len(rs) - maxRecords
  BY <1>2, Evicts, Zenon
<1> HIDE DEF e
<1> DEFINE m == k + d
<1>5. /\ Len(rs) \in Nat /\ Len(lg) \in Nat /\ DOMAIN rs = 1 .. Len(rs) /\ DOMAIN lg = 1 .. Len(lg)
      /\ k \in 1 .. Len(lg) + 1 /\ Len(rs) = Len(lg) - k + 1 /\ maxRecords \in Nat
  <2>1. k \in 1 .. Len(lg) + 1 /\ Len(rs) = Len(lg) - k + 1 /\ maxRecords \in Nat
    BY RingAssumption, Zenon DEF Suffix
  <2> QED
    BY <1>1, <2>1
<1>6. m \in 1 .. Len(lg) + 1 /\ Len(e) = Len(lg) - m + 1
  BY <1>4, <1>5
<1>7. ASSUME NEW j \in 1 .. Len(e)
      PROVE  e[j] = lg[m + j - 1] /\ lg[m + j - 1] >= now - maxAge
  <2>1. d + j \in DOMAIN rs /\ k + (d + j) - 1 = m + j - 1
    BY <1>4, <1>5
  <2>2. e[j] = rs[d + j] /\ rs[d + j] >= now - maxAge
    BY <1>4, Zenon
  <2>3. rs[d + j] = lg[k + (d + j) - 1]
    BY <1>2, <2>1, Zenon
  <2> QED
    BY <2>1, <2>2, <2>3, Zenon
<1>8. ASSUME NEW i \in 1 .. m - 1 PROVE lg[i] < now - maxAge \/ i <= Len(lg) - maxRecords
  <2>1. CASE i \in 1 .. k - 1
    BY <2>1, Zenon DEF Suffix
  <2>2. CASE i \notin 1 .. k - 1
    <3> DEFINE j == i - k + 1
    <3>1. j \in 1 .. d /\ j \in DOMAIN rs /\ k + j - 1 = i
      BY <1>4, <1>5, <2>2
    <3>2. j <= Len(rs) - maxRecords => i <= Len(lg) - maxRecords
      BY <1>4, <1>5
    <3> HIDE DEF j
    <3>3. rs[j] = lg[i]
      BY <1>2, <3>1, Zenon
    <3> QED
      BY <1>4, <3>1, <3>2, <3>3, Zenon
  <2> QED
    BY <2>1, <2>2, Zenon
<1>9. ASSUME NEW i \in DOMAIN lg, i >= m PROVE lg[i] >= now - maxAge
  <2> DEFINE j == i - m + 1
  <2>1. j \in 1 .. Len(e) /\ m + j - 1 = i
    BY <1>4, <1>5, <1>6, <1>9
  <2> HIDE DEF j
  <2> QED
    BY <1>7, <2>1, Zenon
<1> HIDE DEF m
<1>10. Suffix(e, lg, m)
  BY <1>6, <1>7, <1>8, Zenon DEF Suffix
<1> QED
  BY <1>3, <1>6, <1>9, <1>10, Zenon DEF e

\* Time passes.
LEMMA BackedLater ==
  ASSUME NEW rs, NEW lg, Backed(rs, lg), now \in Int, now' \in Int, now <= now'
  PROVE  Backed(rs, lg)'
<1>1. Logged(lg) /\ rs \in Seq(Int) /\ Len(rs) <= maxRecords
  BY Zenon DEF Backed
<1>2. PICK k \in 1 .. Len(lg) + 1 : Suffix(rs, lg, k)
  BY Zenon DEF Backed
<1>3. lg \in Seq(Int) /\ Ordered(lg) /\ \A i \in DOMAIN lg : 0 <= lg[i] /\ lg[i] <= now
  BY <1>1, Zenon DEF Logged
<1>4. DOMAIN lg = 1 .. Len(lg) /\ Len(lg) \in Nat /\ \A i \in DOMAIN lg : lg[i] \in Int
  BY <1>3
<1>5. Logged(lg)'
  BY <1>3, <1>4 DEF Logged
<1>6. ASSUME NEW i \in 1 .. k - 1, lg[i] < now - maxAge PROVE lg[i] < now' - maxAge
  <2>1. i \in DOMAIN lg
    BY <1>4
  <2>2. lg[i] \in Int /\ maxAge \in Nat
    BY <1>4, <2>1, RingAssumption, Zenon
  <2> QED
    BY <1>6, <2>2
<1>7. Suffix(rs, lg, k)'
  BY <1>2, <1>6, Zenon DEF Suffix
<1> QED
  BY <1>1, <1>5, <1>7, Zenon DEF Backed

\* A sample is added.
LEMMA BackedAdd ==
  ASSUME NEW rs, NEW lg, Backed(rs, lg), now \in Nat
  PROVE  LET l == Append(lg, now)
         IN  Logged(l) /\ Append(rs, now) \in Seq(Int) /\ \E k \in 1 .. Len(l) + 1 : Suffix(Append(rs, now), l, k)
<1> DEFINE l == Append(lg, now)
           r == Append(rs, now)
<1>1. Logged(lg) /\ rs \in Seq(Int) /\ Len(rs) <= maxRecords
  BY Zenon DEF Backed
<1>2. PICK k \in 1 .. Len(lg) + 1 : Suffix(rs, lg, k)
  BY Zenon DEF Backed
<1>3. lg \in Seq(Int) /\ Ordered(lg) /\ \A i \in DOMAIN lg : 0 <= lg[i] /\ lg[i] <= now
  BY <1>1, Zenon DEF Logged
<1>4. /\ l \in Seq(Int) /\ Len(l) = Len(lg) + 1 /\ DOMAIN l = 1 .. Len(lg) + 1 /\ Len(lg) \in Nat
      /\ l[Len(lg) + 1] = now /\ DOMAIN lg = 1 .. Len(lg) /\ \A i \in 1 .. Len(lg) : l[i] = lg[i]
  BY <1>3
<1>5. /\ r \in Seq(Int) /\ Len(r) = Len(rs) + 1 /\ Len(rs) \in Nat
      /\ r[Len(rs) + 1] = now /\ \A i \in 1 .. Len(rs) : r[i] = rs[i]
  BY <1>1
<1> HIDE DEF l, r
<1>6. Logged(l)
  <2>1. \A i \in DOMAIN l : 0 <= l[i] /\ l[i] <= now
    BY <1>3, <1>4
  <2>2. ASSUME NEW i \in DOMAIN l, NEW j \in DOMAIN l, i <= j PROVE l[i] <= l[j]
    <3>1. CASE j = Len(lg) + 1
      BY <1>4, <2>1, <3>1, Zenon
    <3>2. CASE j # Len(lg) + 1
      <4>1. i \in 1 .. Len(lg) /\ j \in 1 .. Len(lg)
        BY <1>4, <2>2, <3>2
      <4> QED
        BY <1>3, <1>4, <2>2, <4>1, Zenon DEF Ordered
    <3> QED
      BY <3>1, <3>2, Zenon
  <2> QED
    BY <1>4, <2>1, <2>2, Zenon DEF Logged, Ordered
<1>7. Len(rs) = Len(lg) - k + 1 /\ maxRecords \in Nat
  BY <1>2, RingAssumption, Zenon DEF Suffix
<1>8. k \in 1 .. Len(l) + 1 /\ Len(r) = Len(l) - k + 1
  BY <1>4, <1>5, <1>7
<1>9. ASSUME NEW j \in 1 .. Len(r) PROVE r[j] = l[k + j - 1]
  <2>1. CASE j = Len(rs) + 1
    <3>1. k + j - 1 = Len(lg) + 1
      BY <1>4, <1>5, <1>7, <2>1
    <3> QED
      BY <1>4, <1>5, <2>1, <3>1, Zenon
  <2>2. CASE j # Len(rs) + 1
    <3>1. j \in 1 .. Len(rs)
      BY <1>5, <2>2
    <3>2. k + j - 1 \in 1 .. Len(lg)
      BY <1>4, <1>7, <3>1, Shifted, Zenon
    <3> QED
      BY <1>2, <1>4, <1>5, <3>1, <3>2, Zenon DEF Suffix
  <2> QED
    BY <2>1, <2>2, Zenon
<1>10. ASSUME NEW i \in 1 .. k - 1 PROVE l[i] < now - maxAge \/ i <= Len(l) - maxRecords
  <2>1. i \in 1 .. Len(lg) /\ (i <= Len(lg) - maxRecords => i <= Len(l) - maxRecords)
    BY <1>4, <1>7
  <2> QED
    BY <1>2, <1>4, <2>1, Zenon DEF Suffix
<1>11. Suffix(r, l, k)
  BY <1>8, <1>9, <1>10, Zenon DEF Suffix
<1> QED
  BY <1>5, <1>6, <1>8, <1>11, Zenon DEF l, r

\* What is evicted from the ring keeps it backed by the log.
LEMMA BackedEvicted ==
  ASSUME NEW rs \in Seq(Int), NEW lg, Logged(lg), now \in Int,
         \E k \in 1 .. Len(lg) + 1 : Suffix(rs, lg, k)
  PROVE  Backed(Ring!evictLocked(rs, now), lg)
BY EvictsSuffix, Zenon DEF Backed

\* An empty ring and an empty log.
LEMMA EmptyBacked == Backed(<<>>, <<>>)
<1>1. <<>> \in Seq(Int) /\ Len(<<>>) = 0 /\ DOMAIN <<>> = {} /\ 0 <= maxRecords
  BY RingAssumption
<1>2. 1 \in 1 .. 0 + 1 /\ 0 = 0 - 1 + 1 /\ (\A j : j \notin 1 .. 0) /\ (\A j : j \notin 1 .. 1 - 1)
  OBVIOUS
<1> QED
  BY <1>1, <1>2, Zenon DEF Backed, Logged, Ordered, Suffix

\* Every step of the ring keeps the invariant.
LEMMA RingStep ==
  ASSUME RingInv, Ring!Next \/ UNCHANGED ringVars
  PROVE  RingInv'
<1>1. now \in 0 .. MaxTime /\ Backed(records, log) /\ Backed(saved, savedLog)
  BY Zenon DEF RingInv
<1>2. now \in Nat /\ now \in Int
  BY <1>1, RingAssumption
<1>3. records \in Seq(Int) /\ Logged(log) /\ \E k \in 1 .. Len(log) + 1 : Suffix(records, log, k)
  BY <1>1, Zenon DEF Backed
<1>4. ASSUME now' = now PROVE \A rs, lg : Backed(rs, lg) => Backed(rs, lg)'
  BY <1>4, Zenon DEF Backed, Logged, Suffix
<1>5. CASE Ring!add
  <2>1. /\ log' = Append(log, now) /\ records' = Ring!evictLocked(Append(records, now), now)
        /\ now' = now /\ saved' = saved /\ savedLog' = savedLog
    BY <1>5, Zenon DEF Ring!add
  <2>2. Backed(Ring!evictLocked(Append(records, now), now), Append(log, now))
    BY <1>1, <1>2, BackedAdd, BackedEvicted, Zenon
  <2> QED
    BY <1>1, <1>4, <2>1, <2>2, Zenon DEF RingInv
<1>6. CASE Ring!samples
  <2>1. /\ records' = Ring!evictLocked(records, now)
        /\ now' = now /\ saved' = saved /\ savedLog' = savedLog /\ log' = log
    BY <1>6, Zenon DEF Ring!samples
  <2>2. Backed(Ring!evictLocked(records, now), log)
    BY <1>2, <1>3, BackedEvicted, Zenon
  <2> QED
    BY <1>1, <1>4, <2>1, <2>2, Zenon DEF RingInv
<1>7. CASE Ring!reset
  <2>1. records' = <<>> /\ log' = <<>> /\ now' = now /\ saved' = saved /\ savedLog' = savedLog
    BY <1>7, Zenon DEF Ring!reset
  <2>2. Backed(<<>>, <<>>)
    BY EmptyBacked, Zenon
  <2> QED
    BY <1>1, <1>4, <2>1, <2>2, Zenon DEF RingInv
<1>8. CASE Ring!snapshot
  <2>1. saved' = records /\ savedLog' = log /\ now' = now /\ records' = records /\ log' = log
    BY <1>8, Zenon DEF Ring!snapshot
  <2> QED
    BY <1>1, <1>4, <2>1, Zenon DEF RingInv
<1>9. CASE Ring!load
  <2>1. records' = saved /\ log' = savedLog /\ now' = now /\ saved' = saved /\ savedLog' = savedLog
    BY <1>9 DEF Ring!load
  <2> QED
    BY <1>1, <1>4, <2>1, Zenon DEF RingInv
<1>10. CASE Ring!Tick
  <2>1. /\ now' = now + 1 /\ now < MaxTime
        /\ records' = records /\ log' = log /\ saved' = saved /\ savedLog' = savedLog
    BY <1>10, Zenon DEF Ring!Tick
  <2>2. now' \in 0 .. MaxTime /\ now' \in Int /\ now <= now'
    BY <1>1, <1>2, <2>1, RingAssumption
  <2> QED
    BY <1>1, <1>2, <2>1, <2>2, BackedLater, Zenon DEF RingInv
<1>11. CASE UNCHANGED ringVars
  <2>1. now' = now /\ records' = records /\ log' = log /\ saved' = saved /\ savedLog' = savedLog
    BY <1>11, Zenon DEF ringVars
  <2> QED
    BY <1>1, <1>4, <2>1, Zenon DEF RingInv
<1> QED
  BY <1>5, <1>6, <1>7, <1>8, <1>9, <1>10, <1>11, Zenon DEF Ring!Next

\* What the invariant says of a reader.
LEMMA RingMeans ==
  ASSUME RingInv
  PROVE  Ring!TypeOK /\ Ring!ReadsNewest
<1>1. now \in 0 .. MaxTime /\ Backed(records, log) /\ Backed(saved, savedLog)
  BY Zenon DEF RingInv
<1>2. now \in Nat /\ now \in Int /\ maxRecords \in Nat /\ maxAge \in Nat
  BY <1>1, RingAssumption
<1>3. /\ Logged(log) /\ records \in Seq(Int) /\ Len(records) <= maxRecords /\ Len(saved) <= maxRecords
      /\ log \in Seq(Int) /\ \A i \in DOMAIN log : 0 <= log[i] /\ log[i] <= now
  BY <1>1, Zenon DEF Backed, Logged
<1>4. PICK k \in 1 .. Len(log) + 1 : Suffix(records, log, k)
  BY <1>1, Zenon DEF Backed
<1>5. Len(log) \in Nat /\ DOMAIN log = 1 .. Len(log) /\ \A i \in DOMAIN log : log[i] \in Int
  BY <1>3
<1>6. Ring!TypeOK
  <2>1. \A j \in DOMAIN records : k + j - 1 \in DOMAIN log /\ records[j] = log[k + j - 1]
    BY <1>3, <1>4, SuffixOrdered, Zenon DEF Logged
  <2>2. \A i \in DOMAIN log : log[i] \in 0 .. MaxTime
    BY <1>1, <1>2, <1>3, <1>5, RingAssumption
  <2>3. Ring!Range(records) \subseteq 0 .. MaxTime
    BY <2>1, <2>2, Zenon DEF Ring!Range
  <2> QED
    BY <1>1, <1>3, <2>3, Zenon DEF Ring!TypeOK, Ring!Times
<1>7. Ring!ReadsNewest
  <2> DEFINE e == Ring!evictLocked(records, now)
  <2>1. e \in Seq(Int) /\ Len(e) <= maxRecords
    BY <1>2, <1>3, <1>4, EvictsSuffix, Zenon
  <2>2. PICK m \in 1 .. Len(log) + 1 :
          Suffix(e, log, m) /\ \A i \in DOMAIN log : i >= m => log[i] >= now - maxAge
    BY <1>2, <1>3, <1>4, EvictsSuffix, Zenon
  <2> HIDE DEF e
  <2>3. Len(e) = Len(log) - m + 1 /\ \A j \in 1 .. Len(e) : e[j] = log[m + j - 1]
    BY <2>2, Zenon DEF Suffix
  <2>4. e = SubSeq(log, m, Len(log))
    <3> DEFINE f == SubSeq(log, m, Len(log))
    <3>1. /\ f \in Seq(Int) /\ Len(f) = Len(log) - m + 1
          /\ \A j \in 1 .. Len(log) - m + 1 : f[j] = log[m + j - 1]
      BY <1>3, <1>5
    <3> HIDE DEF f
    <3>2. Len(f) = Len(e) /\ \A j \in 1 .. Len(e) : f[j] = e[j]
      BY <2>3, <3>1, Zenon
    <3>3. e = [j \in 1 .. Len(e) |-> e[j]] /\ f = [j \in 1 .. Len(f) |-> f[j]]
      BY <2>1, <3>1
    <3>4. e = f
      BY <3>2, <3>3, Zenon
    <3> QED
      BY <3>4, Zenon DEF f
  <2>5. ASSUME NEW i \in DOMAIN log
        PROVE  i >= m <=> log[i] >= now - maxAge /\ i > Len(log) - maxRecords
    <3>1. i >= m => i > Len(log) - maxRecords
      BY <1>2, <1>5, <2>1, <2>3
    <3>2. ASSUME ~(i >= m) PROVE log[i] < now - maxAge \/ i <= Len(log) - maxRecords
      <4>1. i \in 1 .. m - 1
        BY <1>5, <3>2
      <4> QED
        BY <2>2, <4>1, Zenon DEF Suffix
    <3>3. log[i] \in Int /\ i \in Int
      BY <1>5
    <3> QED
      BY <1>2, <1>5, <2>2, <3>1, <3>2, <3>3
  <2> QED
    BY <2>4, <2>5, Zenon DEF Ring!ReadsNewest, e
<1> QED
  BY <1>6, <1>7, Zenon

-----------------------------------------------------------------------------
(* The decision *)

DecisionInputs ==
  [spec : [min : Int32, max : Int32, saturation : Nat, stepUp : 0 .. SignBit - 1,
           stepDown : 0 .. SignBit - 1, upCooldown : Nat, downCooldown : Nat],
   sample : [replicas : Int, inflight : Nat], est : [knee : Nat \ {0}, confidence : 0 .. 10],
   ready : Int, current : Int32, maxInFlight : Int, sinceLast : Int]

\* What fits in an int32 is not changed by the conversion.
LEMMA Fits ==
  /\ \A n \in Int32 : int32(n) = n /\ n \in Int
  /\ SignBit \in Nat /\ 1 < SignBit
BY DecisionAssumption DEF Int32, int32

\* A positive target is what Decide divides the load by (scalingTarget).
LEMMA TargetPositive ==
  ASSUME NEW in \in DecisionInputs
  PROVE  scalingTarget(in.spec, in.est) \in Nat \ {0}
<1> DEFINE d == defaultKneePerReplica
           k == in.est.knee
           c == in.est.confidence
           knee == 10 * d + (k - d) * c
           sat == targetSaturation(in.spec)
           conf == 10 * 6 + (10 - 6) * c
<1>1. k \in Nat \ {0} /\ c \in 0 .. 10 /\ in.spec.saturation \in Nat /\ d \in Nat \ {0}
  BY DecisionAssumption, Zenon DEF DecisionInputs
<1>2. knee \in Nat \ {0}
  <2> HIDE DEF k, c, d
  <2>1. c \in {0, 1, 2, 3, 4, 5, 6, 7, 8, 9, 10}
    BY <1>1
  <2> QED
    BY <1>1, <2>1
<1>3. sat \in Nat \ {0}
  BY <1>1 DEF targetSaturation, Lower
<1>4. conf \in Nat \ {0}
  BY <1>1
<1>5. ASSUME NEW a \in Nat \ {0}, NEW b \in Nat \ {0} PROVE a * b \in Nat \ {0}
  OBVIOUS
<1>6. scalingTarget(in.spec, in.est) = knee * sat * conf
  BY Zenon DEF scalingTarget, confFloor
<1> HIDE DEF knee, sat, conf
<1> QED
  BY <1>2, <1>3, <1>4, <1>5, <1>6, Zenon

\* The bounds of a scale block are in order and at least one (minMax).
LEMMA BoundsInOrder ==
  ASSUME NEW s, s.min \in Int32, s.max \in Int32
  PROVE  /\ minMax(s).min \in Int /\ minMax(s).max \in Int
         /\ 1 <= minMax(s).min /\ minMax(s).min <= minMax(s).max /\ minMax(s).max < SignBit
<1>1. SignBit \in Nat /\ DefaultMinReplicas \in Int /\ 1 <= DefaultMinReplicas /\ DefaultMinReplicas < SignBit
  BY DecisionAssumption
<1>2. s.min \in Int /\ s.max \in Int /\ s.min < SignBit /\ s.max < SignBit
  BY <1>1 DEF Int32
<1>3. \A a, b \in Int : Higher(a, b) \in {a, b} /\ Higher(a, b) >= a /\ Higher(a, b) >= b
  BY DEF Higher
<1> DEFINE min == Higher(s.min, DefaultMinReplicas)
           max == Higher(s.max, min)
<1>4. minMax(s).min = min /\ minMax(s).max = max
  BY Zenon DEF minMax
<1>5. min \in {s.min, DefaultMinReplicas} /\ min >= DefaultMinReplicas
  BY <1>1, <1>2, <1>3
<1>6. min \in Int /\ 1 <= min /\ min < SignBit
  <2> HIDE DEF min
  <2> QED
    BY <1>1, <1>2, <1>5
<1>7. max \in {s.max, min} /\ max >= min
  BY <1>2, <1>3, <1>6, Zenon
<1> HIDE DEF min, max
<1> QED
  BY <1>1, <1>2, <1>4, <1>6, <1>7

\* Where a count is held.
LEMMA Clamped ==
  ASSUME NEW v \in Int, NEW lo \in Int, NEW hi \in Int, lo <= hi
  PROVE  clamp(v, lo, hi) \in lo .. hi /\ (v \in lo .. hi => clamp(v, lo, hi) = v)
BY DEF clamp, Higher, Lower

\* The load that a decision is about.
LEMMA TotalTyped ==
  ASSUME NEW in \in DecisionInputs
  PROVE  Total(in) \in Int
<1>1. /\ in.sample.replicas \in Int /\ in.sample.inflight \in Int
      /\ in.ready \in Int /\ in.current \in Int32
  BY DEF DecisionInputs
<1>2. in.current \in Int
  BY <1>1, Fits, Zenon
<1>3. inflightBasis(in) \in {in.sample.replicas, in.ready, in.current}
  BY <1>1, <1>2 DEF inflightBasis
<1> QED
  BY <1>1, <1>2, <1>3 DEF Total

\* Where the load wants the fleet lies within the bounds (Decide).
LEMMA SizedInRange ==
  ASSUME NEW in \in DecisionInputs
  PROVE  Sized(in) \in minMax(in.spec).min .. minMax(in.spec).max
<1> DEFINE lo == minMax(in.spec).min
           hi == minMax(in.spec).max
           target == scalingTarget(in.spec, in.est)
           work == Total(in) * TargetUnit
<1>1. lo \in Int /\ hi \in Int /\ 1 <= lo /\ lo <= hi /\ hi < SignBit
  <2>1. in.spec.min \in Int32 /\ in.spec.max \in Int32
    BY Zenon DEF DecisionInputs
  <2> QED
    BY <2>1, BoundsInOrder, Zenon
<1>2. target \in Nat \ {0}
  BY TargetPositive, Zenon
<1>3. work \in Int
  BY TotalTyped DEF TargetUnit
<1>4. CeilDiv(work, target) \in Int
  <2> HIDE DEF work, target
  <2> QED
    BY <1>2, <1>3 DEF CeilDiv
<1>5. Sized(in) = clamp(CeilDiv(work, target), lo, hi)
  BY Zenon DEF Sized
<1> HIDE DEF lo, hi, work, target
<1>6. Sized(in) \in lo .. hi
  BY <1>1, <1>4, <1>5, Clamped
<1> QED
  BY <1>6, Zenon DEF lo, hi

\* What is decided from in: a count within the bounds, and from a count within
\* the bounds a step up or down after the cooldown of its direction.
PacedMove(in) ==
  LET n == Decide(in).replicas
  IN  /\ n \in minMax(in.spec).min .. minMax(in.spec).max
      /\ in.current \in minMax(in.spec).min .. minMax(in.spec).max =>
           \/ /\ n \in in.current .. in.current + in.spec.stepUp
              /\ in.sinceLast >= in.spec.upCooldown
           \/ /\ n \in in.current - in.spec.stepDown .. in.current
              /\ in.sinceLast >= in.spec.downCooldown

\* Every decision is paced, whatever the load, the estimate and the steps
\* (Decide, scaleUp, scaleDown).
LEMMA DecisionPaced ==
  ASSUME NEW in \in DecisionInputs, ~Decide(in).skip
  PROVE  PacedMove(in)
<1> DEFINE lo == minMax(in.spec).min
           hi == minMax(in.spec).max
           cur == in.current
           size == Sized(in)
           up == in.spec.stepUp
           down == in.spec.stepDown
           since == in.sinceLast
           upCool == in.spec.upCooldown
           downCool == in.spec.downCooldown
           n == Decide(in).replicas
           Paced(v) == /\ v \in lo .. hi
                       /\ cur \in lo .. hi => \/ v \in cur .. cur + up /\ since >= upCool
                                              \/ v \in cur - down .. cur /\ since >= downCool
<1>1. lo \in Int /\ hi \in Int /\ 1 <= lo /\ lo <= hi /\ hi < SignBit
  <2>1. in.spec.min \in Int32 /\ in.spec.max \in Int32
    BY Zenon DEF DecisionInputs
  <2> QED
    BY <2>1, BoundsInOrder, Zenon
<1>2. size \in lo .. hi /\ Total(in) \in Int
  BY SizedInRange, TotalTyped, Zenon
<1>3. /\ cur \in Int /\ up \in 0 .. SignBit - 1 /\ down \in 0 .. SignBit - 1
      /\ since \in Int /\ upCool \in Nat /\ downCool \in Nat
  BY Fits, Zenon DEF DecisionInputs
<1>9. SignBit \in Nat /\ int32(up) = up /\ int32(down) = down
  <2> HIDE DEF up, down
  <2>1. up \in Int32 /\ down \in Int32 /\ SignBit \in Nat
    BY <1>3, Fits DEF Int32
  <2> QED
    BY <2>1, Fits, Zenon
<1>4. \A v : Keep(in).skip /\ ~Move(v).skip /\ Move(v).replicas = v
  BY Zenon DEF Keep, Move
<1>5. CASE lo = hi
  <2>1. Decide(in) = [replicas |-> lo, skip |-> cur = lo]
    BY <1>5, Zenon DEF Decide
  <2>2. n = lo /\ cur # lo
    <3> HIDE DEF lo, cur
    <3>1. \A a, b : [replicas |-> a, skip |-> b].replicas = a /\ [replicas |-> a, skip |-> TRUE].skip
      BY Zenon
    <3>2. ASSUME cur = lo PROVE FALSE
      <4>1. Decide(in) = [replicas |-> lo, skip |-> TRUE]
        BY <2>1, <3>2, Zenon
      <4> QED
        BY <3>1, <4>1, Zenon
    <3>3. n = lo
      BY <2>1, <3>1, Zenon
    <3> QED
      BY <3>2, <3>3, Zenon
  <2> HIDE DEF lo, hi, cur, n, up, down, since, upCool, downCool
  <2>3. Paced(n)
    BY <1>1, <1>3, <1>5, <2>2
  <2> QED
    BY <2>3, Zenon DEF PacedMove, lo, hi, cur, n, up, down, since, upCool, downCool
<1>6. CASE lo # hi /\ cur \notin lo .. hi
  <2>1. Decide(in) = Move(clamp(cur, lo, hi))
    BY <1>6, Zenon DEF Decide
  <2>2. n = clamp(cur, lo, hi)
    BY <1>4, <2>1, Zenon
  <2> HIDE DEF lo, hi, cur, n
  <2>3. n \in lo .. hi
    BY <1>1, <1>3, <2>2, Clamped, Zenon
  <2>4. Paced(n)
    BY <1>6, <2>3, Zenon
  <2> QED
    BY <2>4 DEF PacedMove, lo, hi, cur, n
<1>7. CASE lo # hi /\ cur \in lo .. hi /\ Total(in) <= 0
  <2>1. Decide(in) = IF cur <= lo \/ since < downCool THEN Keep(in) ELSE Move(Higher(int32(cur - down), lo))
    BY <1>7, <1>9, Zenon DEF Decide
  <2>2. ~(cur <= lo) /\ ~(since < downCool) /\ n = Higher(int32(cur - down), lo)
    BY <1>4, <2>1, Zenon
  <2> HIDE DEF lo, hi, cur, n, up, down, since, upCool, downCool
  <2>3. int32(cur - down) = cur - down
    BY <1>1, <1>3, <1>7, <1>9, Fits DEF Int32
  <2>4. Paced(n)
    BY <1>1, <1>3, <1>7, <2>2, <2>3 DEF Higher
  <2> QED
    BY <2>4 DEF PacedMove, lo, hi, cur, n, up, down, since, upCool, downCool
<1>8. CASE lo # hi /\ cur \in lo .. hi /\ ~(Total(in) <= 0)
  <2>1. Decide(in) = CASE size = cur -> Keep(in)
                       [] size > cur -> scaleUp(in, size)
                       [] OTHER -> scaleDown(in, size)
    BY <1>8, Zenon DEF Decide
  <2>2. CASE size = cur
    <3> HIDE DEF cur, size
    <3>1. Decide(in) = Keep(in)
      BY <1>2, <1>3, <2>1, <2>2
    <3> QED
      BY <1>4, <3>1, Zenon
  <2>3. CASE size > cur
    <3>1. Decide(in) = scaleUp(in, size)
      <4> HIDE DEF cur, size
      <4> QED
        BY <1>1, <1>2, <1>3, <2>1, <2>3
    <3>2. Decide(in) = Move(int32(cur + Lower(size - cur, up))) /\ ~(since < upCool)
      BY <1>4, <1>9, <3>1, Zenon DEF scaleUp
    <3>3. n = int32(cur + Lower(size - cur, up))
      BY <1>4, <3>2, Zenon
    <3> HIDE DEF lo, hi, cur, n, up, down, since, upCool, downCool, size
    <3>4. cur + Lower(size - cur, up) \in Int32
      BY <1>1, <1>2, <1>3, <1>8, <1>9, <2>3 DEF Lower, Int32
    <3>5. n = cur + Lower(size - cur, up)
      BY <3>3, <3>4, Fits, Zenon
    <3>6. Paced(n)
      BY <1>1, <1>2, <1>3, <1>8, <2>3, <3>2, <3>5 DEF Lower
    <3> QED
      BY <3>6 DEF PacedMove, lo, hi, cur, n, up, down, since, upCool, downCool
  <2>4. CASE size < cur
    <3>1. Decide(in) = scaleDown(in, size)
      <4> HIDE DEF cur, size
      <4> QED
        BY <1>1, <1>2, <1>3, <2>1, <2>4
    <3>2. Decide(in) = Move(int32(cur - Lower(cur - size, down))) /\ ~(since < downCool)
      BY <1>4, <1>9, <3>1, Zenon DEF scaleDown
    <3>3. n = int32(cur - Lower(cur - size, down))
      BY <1>4, <3>2, Zenon
    <3> HIDE DEF lo, hi, cur, n, up, down, since, upCool, downCool, size
    <3>4. cur - Lower(cur - size, down) \in Int32
      BY <1>1, <1>2, <1>3, <1>8, <1>9, <2>4 DEF Lower, Int32
    <3>5. n = cur - Lower(cur - size, down)
      BY <3>3, <3>4, Fits, Zenon
    <3>6. Paced(n)
      BY <1>1, <1>2, <1>3, <1>8, <2>4, <3>2, <3>5 DEF Lower
    <3> QED
      BY <3>6 DEF PacedMove, lo, hi, cur, n, up, down, since, upCool, downCool
  <2>5. size = cur \/ size > cur \/ size < cur
    <3> HIDE DEF cur, size
    <3> QED
      BY <1>1, <1>2, <1>3
  <2> QED
    BY <2>2, <2>3, <2>4, <2>5, Zenon
<1> QED
  BY <1>5, <1>6, <1>7, <1>8, Zenon

-----------------------------------------------------------------------------
(* The controller renders what the autoscaler decides *)

CONSTANT Nil

Render == INSTANCE ReplicaMath

DeploySpec == [replicas : Render!Optional(Int), scale : Render!Scale,
               maxUnavailable : Render!Optional(Render!MaxUnavailable)]

\* The bounds the autoscaler reads from a scale block.
Resolved(s) ==
  [min |-> IF s.min = Nil THEN Render!DefaultMinReplicas ELSE s.min,
   max |-> IF s.max = Nil THEN Render!DefaultMaxReplicas ELSE s.max]

\* The autoscaler and the controller agree on the bounds of every scale block, so a
\* count the autoscaler patches into an AgentDeploy is the count the controller
\* renders: it is never clamped to another one, which would make the two pull
\* against each other for ever (Decide, minMax; DesiredReplicas, scaleBounds).
THEOREM DecisionRendered ==
  ASSUME Nil \notin Int, DefaultMinReplicas = Render!DefaultMinReplicas,
         NEW s \in DeploySpec, NEW in \in DecisionInputs,
         ~s.scale.disabled, ~Decide(in).skip,
         in.spec.min = Resolved(s.scale).min, in.spec.max = Resolved(s.scale).max
  PROVE  Render!DesiredReplicas([s EXCEPT !.replicas = Decide(in).replicas]) = Decide(in).replicas
<1> DEFINE n == Decide(in).replicas
           lo == Render!LowBound(s.scale)
           hi == Render!HighBound(s.scale)
<1>1. s.scale \in Render!Scale
  BY Zenon DEF DeploySpec
<1>2. minMax(in.spec).min = lo /\ minMax(in.spec).max = hi
  BY <1>1 DEF minMax, Higher, Resolved, Render!LowBound, Render!HighBound, Render!Scale,
     Render!Optional, Render!DefaultMinReplicas, Render!DefaultMaxReplicas
<1>3. n \in lo .. hi
  BY <1>2, DecisionPaced, Zenon DEF PacedMove
<1>4. lo \in Int /\ hi \in Int
  BY <1>1 DEF Render!Scale, Render!LowBound, Render!HighBound, Render!Optional,
     Render!DefaultMinReplicas, Render!DefaultMaxReplicas
<1>5. [s EXCEPT !.replicas = n].replicas = n /\ [s EXCEPT !.replicas = n].scale = s.scale
  BY Zenon DEF DeploySpec
<1> HIDE DEF n, lo, hi
<1>6. n # Nil
  BY <1>3, <1>4
<1>7. Render!clampInt(n, lo, hi) = n
  BY <1>3, <1>4 DEF Render!clampInt
<1> QED
  BY <1>5, <1>6, <1>7, Zenon DEF Render!DesiredReplicas, n, lo, hi

-----------------------------------------------------------------------------
(* The loop *)

Lo == minMax(scale).min
Hi == minMax(scale).max

Counts == 1 .. SignBit - 1

LoopTyped ==
  /\ range \in Ranges /\ replicas \in Counts
  /\ status \in [replicas : Counts, desired : Counts, updating : BOOLEAN]
  /\ sinceScaled \in 0 .. Cap /\ sincePatch \in 0 .. Cap
  /\ edited \in BOOLEAN /\ lagged \in BOOLEAN
  /\ load \in Nat /\ sample \in Nat \cup {None}
  /\ worker \in [Workers -> Counts \cup {None}]

\* n is a step from the count that runs, after the cooldown of its direction.
InStep(n) ==
  \/ n \in status.replicas .. status.replicas + StepUp /\ sinceScaled >= UpCooldown
  \/ n \in status.replicas - StepDown .. status.replicas /\ sinceScaled >= DownCooldown

\* A count in hand that was decided on a fleet that still is as it was.
Current(n) ==
  /\ status.replicas = status.desired /\ DesiredReplicas = status.desired
  /\ n \in Lo .. Hi /\ n # status.replicas /\ InStep(n)

(***************************************************************************)
(* While no decision missed or overlapped another write of the replicas: a *)
(* count that the controller has taken over is no younger than the patch   *)
(* it came from, and there is one count in hand at most, which is current. *)
(***************************************************************************)
Followed ==
  ~lagged =>
    /\ DesiredReplicas = status.desired => sincePatch >= sinceScaled
    /\ \A v, w \in Workers : worker[v] # None /\ worker[w] # None => v = w
    /\ \A w \in Workers : worker[w] # None => Current(worker[w])

\* What the range and the count say.
LEMMA LoopFacts ==
  ASSUME LoopTyped
  PROVE  /\ Lo \in Int /\ Hi \in Int /\ 1 <= Lo /\ Lo <= Hi
         /\ DesiredReplicas \in Lo .. Hi /\ DesiredReplicas \in Counts /\ Cap \in Nat
         /\ \A n \in Lo .. Hi : clamp(n, Lo, Hi) = n /\ n \in Counts
         /\ SignBit \in Nat /\ 1 \in Counts
<1>1. scale.min = range.min /\ scale.max = range.max /\ range.min \in Int32 /\ range.max \in Int32
  BY AutoscalerAssumption, Zenon DEF LoopTyped, scale
<1>2. Lo \in Int /\ Hi \in Int /\ 1 <= Lo /\ Lo <= Hi /\ Hi < SignBit
  BY <1>1, BoundsInOrder, Zenon DEF Lo, Hi
<1>3. replicas \in Int /\ SignBit \in Nat /\ 1 \in Counts
  BY Fits DEF LoopTyped, Counts
<1>4. DesiredReplicas \in Lo .. Hi
  BY <1>2, <1>3, Clamped, Zenon DEF DesiredReplicas, Lo, Hi
<1>5. DesiredReplicas \in Counts /\ \A n \in Lo .. Hi : n \in Int /\ n \in Counts
  BY <1>2, <1>3, <1>4 DEF Counts
<1>6. \A n \in Lo .. Hi : clamp(n, Lo, Hi) = n
  BY <1>2, <1>5, Clamped, Zenon
<1>7. Cap \in Nat
  BY AutoscalerAssumption, Zenon DEF Cap
<1> QED
  BY <1>2, <1>3, <1>4, <1>5, <1>6, <1>7, Zenon

\* The decision scaleKey takes is one Decide allows.
LEMMA OutcomePaced ==
  ASSUME LoopTyped, Outcome # None
  PROVE  /\ Outcome \in Lo .. Hi /\ Outcome # status.replicas
         /\ status.replicas = status.desired
         /\ status.replicas \in Lo .. Hi => InStep(Outcome)
<1> DEFINE in == Inputs
           n == Decide(in).replicas
<1>1. ~Gated /\ ~Decide(in).skip /\ Outcome = n /\ n # status.replicas
  BY Zenon DEF Outcome
<1>2. sample # None /\ status.replicas = status.desired
  BY <1>1, Zenon DEF Gated
<1>3. /\ range.min \in Int32 /\ range.max \in Int32
      /\ StepUp \in 1 .. SignBit - 1 /\ StepDown \in 1 .. SignBit - 1
      /\ UpCooldown \in Nat /\ DownCooldown \in Nat /\ Knee \in Nat \ {0}
  BY AutoscalerAssumption, Zenon DEF LoopTyped
<1>4. sample \in Nat /\ status.replicas \in Counts /\ sinceScaled \in 0 .. Cap
  BY <1>2, Zenon DEF LoopTyped
<1>5. /\ 100 \in Nat /\ 1 \in Int /\ 0 \in Int /\ 10 \in 0 .. 10 /\ status.replicas \in Int
      /\ status.replicas \in Int32 /\ sinceScaled \in Int
      /\ StepUp \in 0 .. SignBit - 1 /\ StepDown \in 0 .. SignBit - 1
  BY <1>3, <1>4, LoopFacts DEF Counts, Int32
<1>6. scale \in [min : Int32, max : Int32, saturation : Nat, stepUp : 0 .. SignBit - 1,
                 stepDown : 0 .. SignBit - 1, upCooldown : Nat, downCooldown : Nat]
  BY <1>3, <1>5, Zenon DEF scale
<1>7. in \in DecisionInputs
  BY <1>3, <1>4, <1>5, <1>6, Zenon DEF DecisionInputs, Inputs
<1>8. PacedMove(in)
  BY <1>1, <1>7, DecisionPaced, Zenon
<1>9. /\ in.current = status.replicas /\ in.spec = scale /\ in.sinceLast = sinceScaled
      /\ scale.stepUp = StepUp /\ scale.stepDown = StepDown
      /\ scale.upCooldown = UpCooldown /\ scale.downCooldown = DownCooldown
  BY Zenon DEF Inputs, scale
<1> HIDE DEF in, n
<1> QED
  BY <1>1, <1>2, <1>8, <1>9, Zenon DEF PacedMove, n, Lo, Hi, InStep

\* Time passes: no age overtakes another.
LEMMA OlderKeepsOrder ==
  ASSUME NEW c \in Nat, NEW a \in 0 .. c, NEW b \in 0 .. c
  PROVE  /\ Older(a, c) \in 0 .. c /\ Older(a, c) >= a
         /\ b >= a => Older(b, c) >= Older(a, c)
BY DEF Older

\* What only reads the fleet, or changes nothing, keeps what is followed.
LEMMA FollowedOn ==
  ASSUME Followed, lagged' = lagged, worker' = worker, status' = status,
         Lo' = Lo, Hi' = Hi, DesiredReplicas' = DesiredReplicas,
         sincePatch >= sinceScaled => sincePatch' >= sinceScaled', \A n : InStep(n) => InStep(n)'
  PROVE  Followed'
BY Zenon DEF Followed, Current

\* Steps of the world.
LEMMA LoopWorldStep ==
  ASSUME LoopTyped, Followed,
         LoadChanges \/ HealthChanges \/ EditAgentSet \/ Tick \/ collectSample \/ UNCHANGED vars
  PROVE  LoopTyped' /\ Followed'
<1>1. CASE LoadChanges \/ HealthChanges \/ collectSample \/ UNCHANGED vars
  <2>1. /\ range' = range /\ replicas' = replicas /\ status' = status /\ sinceScaled' = sinceScaled
        /\ sincePatch' = sincePatch /\ edited' = edited /\ lagged' = lagged
        /\ worker' = worker /\ load' \in Loads \cup {load} /\ sample' \in {sample, load}
    BY <1>1, Zenon DEF LoadChanges, HealthChanges, collectSample, vars
  <2>2. load' \in Nat /\ sample' \in Nat \cup {None}
    BY <2>1, AutoscalerAssumption, Zenon DEF LoopTyped
  <2>3. Lo' = Lo /\ Hi' = Hi /\ DesiredReplicas' = DesiredReplicas
    BY <2>1, Zenon DEF Lo, Hi, DesiredReplicas, scale
  <2>4. LoopTyped'
    BY <2>1, <2>2, Zenon DEF LoopTyped
  <2>5. \A n : InStep(n) => InStep(n)'
    BY <2>1, Zenon DEF InStep
  <2>6. Followed'
    BY <2>1, <2>3, <2>5, FollowedOn, Zenon
  <2> QED
    BY <2>4, <2>6, Zenon
<1>2. CASE EditAgentSet
  <2>1. /\ range' \in Ranges /\ replicas' = 1 /\ status' = status
        /\ sinceScaled' = sinceScaled /\ sincePatch' = sincePatch /\ edited' \in {edited, TRUE}
        /\ lagged' = (lagged \/ Outstanding \/ InHand # {})
        /\ worker' = worker /\ load' = load /\ sample' = sample
    BY <1>2, Zenon DEF EditAgentSet
  <2>2. lagged' \in BOOLEAN
    BY <2>1, Zenon
  <2>3. LoopTyped'
    BY <2>1, <2>2, LoopFacts, Zenon DEF LoopTyped
  <2>4. ASSUME ~lagged'
        PROVE  ~lagged /\ DesiredReplicas = status.desired /\ \A w \in Workers : worker[w] = None
    BY <2>1, <2>4, Zenon DEF Outstanding, InHand
  <2>5. Followed'
    BY <2>1, <2>4, Zenon DEF Followed
  <2> QED
    BY <2>3, <2>5, Zenon
<1>3. CASE Tick
  <2>1. /\ range' = range /\ replicas' = replicas /\ status' = status
        /\ sinceScaled' = Older(sinceScaled, Cap) /\ sincePatch' = Older(sincePatch, Cap)
        /\ edited' = edited /\ lagged' = lagged
        /\ worker' = worker /\ load' = load /\ sample' = sample
    BY <1>3, Zenon DEF Tick
  <2>2. Lo' = Lo /\ Hi' = Hi /\ DesiredReplicas' = DesiredReplicas
    BY <2>1, Zenon DEF Lo, Hi, DesiredReplicas, scale
  <2>3. /\ sinceScaled' \in 0 .. Cap /\ sincePatch' \in 0 .. Cap /\ sinceScaled' >= sinceScaled
        /\ sincePatch >= sinceScaled => sincePatch' >= sinceScaled'
    BY <2>1, LoopFacts, OlderKeepsOrder, Zenon DEF LoopTyped
  <2>4. LoopTyped'
    BY <2>1, <2>3, Zenon DEF LoopTyped
  <2>5. \A n : InStep(n) => InStep(n)'
    <3>1. /\ sinceScaled \in Int /\ sinceScaled' \in Int /\ UpCooldown \in Int /\ DownCooldown \in Int
      BY <2>3, LoopFacts, AutoscalerAssumption DEF LoopTyped
    <3>2. /\ sinceScaled >= UpCooldown => sinceScaled' >= UpCooldown
          /\ sinceScaled >= DownCooldown => sinceScaled' >= DownCooldown
      BY <2>3, <3>1
    <3> QED
      BY <2>1, <3>2, Zenon DEF InStep
  <2>6. Followed'
    BY <2>1, <2>2, <2>3, <2>5, FollowedOn, Zenon
  <2> QED
    BY <2>4, <2>6, Zenon
<1> QED
  BY <1>1, <1>2, <1>3, Zenon

\* Steps of the AgentDeploy controller.
LEMMA LoopControllerStep ==
  ASSUME LoopTyped, Followed, Reconcile \/ PodChanges \/ RolloutEnds
  PROVE  LoopTyped' /\ Followed'
<1>1. /\ range' = range /\ replicas' = replicas /\ sincePatch' = sincePatch /\ lagged' = lagged
      /\ worker' = worker /\ load' = load /\ sample' = sample
  BY Zenon DEF Reconcile, PodChanges, RolloutEnds
<1>2. Lo' = Lo /\ Hi' = Hi /\ DesiredReplicas' = DesiredReplicas
  BY <1>1, Zenon DEF Lo, Hi, DesiredReplicas, scale
<1>3. /\ status \in [replicas : Counts, desired : Counts, updating : BOOLEAN]
      /\ status.replicas \in Counts /\ status.desired \in Counts /\ edited \in BOOLEAN
      /\ sinceScaled \in 0 .. Cap /\ sincePatch \in 0 .. Cap
  BY Zenon DEF LoopTyped
<1>4. Cap \in Nat /\ DesiredReplicas \in Counts /\ 0 \in 0 .. Cap /\ SignBit \in Nat
  BY LoopFacts
<1>5. CASE Reconcile
  <2>1. /\ sinceScaled' = IF DesiredReplicas # status.desired THEN 0 ELSE sinceScaled
        /\ status' = [status EXCEPT !.desired = DesiredReplicas, !.updating = @ \/ edited]
        /\ edited' = FALSE
    BY <1>5, Zenon DEF Reconcile, Outstanding
  <2>2. LoopTyped'
    BY <1>1, <1>2, <1>3, <1>4, <2>1, Zenon DEF LoopTyped
  <2>3. CASE DesiredReplicas = status.desired
    <3>1. sinceScaled' = sinceScaled /\ status'.desired = status.desired /\ status'.replicas = status.replicas
      BY <1>3, <2>1, <2>3, Zenon
    <3> QED
      BY <1>1, <1>2, <2>2, <3>1, Zenon DEF Followed, Current, InStep
  <2>4. CASE DesiredReplicas # status.desired
    <3>1. sincePatch' >= sinceScaled'
      BY <1>1, <1>3, <1>4, <2>1, <2>4
    <3>2. ~lagged => \A w \in Workers : worker[w] = None
      BY <2>4, Zenon DEF Followed, Current
    <3> QED
      BY <1>1, <2>2, <3>1, <3>2, Zenon DEF Followed
  <2> QED
    BY <2>3, <2>4, Zenon
<1>6. CASE PodChanges
  <2>1. /\ status.replicas # status.desired /\ edited' = edited /\ sinceScaled' = sinceScaled
        /\ status' = [status EXCEPT !.replicas = IF @ < status.desired THEN @ + 1 ELSE @ - 1]
    BY <1>6, Zenon DEF PodChanges
  <2>2. (IF status.replicas < status.desired THEN status.replicas + 1 ELSE status.replicas - 1) \in Counts
    BY <1>3, <1>4, <2>1 DEF Counts
  <2>3. status' \in [replicas : Counts, desired : Counts, updating : BOOLEAN]
        /\ status'.desired = status.desired
    BY <1>3, <2>1, <2>2, Zenon
  <2>4. LoopTyped'
    BY <1>1, <1>2, <1>3, <2>1, <2>3, Zenon DEF LoopTyped
  <2>5. ~lagged => \A w \in Workers : worker[w] = None
    BY <2>1, Zenon DEF Followed, Current
  <2>6. Followed'
    BY <1>1, <1>2, <2>1, <2>3, <2>5, Zenon DEF Followed
  <2> QED
    BY <2>4, <2>6, Zenon
<1>7. CASE RolloutEnds
  <2>1. /\ edited' = edited /\ sinceScaled' = sinceScaled /\ status' = [status EXCEPT !.updating = FALSE]
    BY <1>7, Zenon DEF RolloutEnds
  <2>2. /\ status' \in [replicas : Counts, desired : Counts, updating : BOOLEAN]
        /\ status'.desired = status.desired /\ status'.replicas = status.replicas
    BY <1>3, <2>1, Zenon
  <2>3. LoopTyped'
    BY <1>1, <1>2, <1>3, <2>1, <2>2, Zenon DEF LoopTyped
  <2>4. Followed'
    BY <1>1, <1>2, <2>1, <2>2, Zenon DEF Followed, Current, InStep
  <2> QED
    BY <2>3, <2>4, Zenon
<1> QED
  BY <1>5, <1>6, <1>7, Zenon

\* A worker decides: on a fleet that is followed, and nobody else has a count in hand.
LEMMA ScaleKeyStep ==
  ASSUME LoopTyped, Followed, NEW x \in Workers, scaleKey(x)
  PROVE  LoopTyped' /\ Followed'
<1>1. /\ range' = range /\ replicas' = replicas /\ status' = status /\ sinceScaled' = sinceScaled
      /\ sincePatch' = sincePatch /\ edited' = edited /\ load' = load /\ sample' = sample
      /\ lagged' = (lagged \/ Outstanding \/ InHand # {})
      /\ Outcome # None /\ worker' = [worker EXCEPT ![x] = Outcome]
  BY Zenon DEF scaleKey
<1>2. Lo' = Lo /\ Hi' = Hi /\ DesiredReplicas' = DesiredReplicas
  BY <1>1, Zenon DEF Lo, Hi, DesiredReplicas, scale
<1>3. /\ Outcome \in Lo .. Hi /\ Outcome # status.replicas
      /\ status.replicas = status.desired
      /\ status.replicas \in Lo .. Hi => InStep(Outcome)
  BY <1>1, OutcomePaced, Zenon
<1>4. Outcome \in Counts /\ DesiredReplicas \in Lo .. Hi /\ lagged' \in BOOLEAN
  BY <1>1, <1>3, LoopFacts, Zenon
<1>5. worker \in [Workers -> Counts \cup {None}]
  BY Zenon DEF LoopTyped
<1>6. /\ worker' \in [Workers -> Counts \cup {None}] /\ worker'[x] = Outcome
      /\ \A w \in Workers : w = x \/ worker'[w] = worker[w]
  BY <1>1, <1>4, <1>5, Zenon
<1>7. LoopTyped'
  BY <1>1, <1>4, <1>6, Zenon DEF LoopTyped
<1>8. \A n : InStep(n)' <=> InStep(n)
  BY <1>1, Zenon DEF InStep
<1>9. ASSUME ~lagged'
      PROVE  ~lagged /\ DesiredReplicas = status.desired /\ \A w \in Workers : worker[w] = None
  BY <1>1, <1>9, Zenon DEF Outstanding, InHand
<1>10. ASSUME ~lagged', NEW n, n = Outcome PROVE Current(n)'
  BY <1>1, <1>2, <1>3, <1>4, <1>8, <1>9, <1>10, Zenon DEF Current
<1>11. Followed'
  BY <1>1, <1>2, <1>6, <1>9, <1>10, Zenon DEF Followed
<1> QED
  BY <1>7, <1>11, Zenon

\* A worker patches.
LEMMA ApplyReplicasStep ==
  ASSUME LoopTyped, Followed, NEW x \in Workers, applyReplicas(x)
  PROVE  LoopTyped' /\ Followed'
<1>1. /\ range' = range /\ status' = status /\ sinceScaled' = sinceScaled /\ edited' = edited
      /\ load' = load /\ sample' = sample /\ lagged' = lagged
      /\ worker[x] # None /\ replicas' = worker[x]
      /\ sincePatch' = IF replicas' = replicas THEN sincePatch ELSE 0
      /\ worker' = [worker EXCEPT ![x] = None]
  BY Zenon DEF applyReplicas
<1>2. Lo' = Lo /\ Hi' = Hi /\ DesiredReplicas' = clamp(replicas', Lo, Hi)
  BY <1>1, Zenon DEF Lo, Hi, DesiredReplicas, scale
<1>3. worker \in [Workers -> Counts \cup {None}]
  BY Zenon DEF LoopTyped
<1>4. /\ worker' \in [Workers -> Counts \cup {None}] /\ worker'[x] = None
      /\ \A w \in Workers : w = x \/ worker'[w] = worker[w]
  BY <1>1, <1>3, Zenon
<1>5. replicas' \in Counts /\ sincePatch' \in 0 .. Cap
  <2>1. 0 \in 0 .. Cap
    BY LoopFacts
  <2> QED
    BY <1>1, <1>3, <2>1, Zenon DEF LoopTyped
<1>6. LoopTyped'
  BY <1>1, <1>4, <1>5, Zenon DEF LoopTyped
<1>7. ASSUME ~lagged
      PROVE  DesiredReplicas' # status.desired /\ \A w \in Workers : worker'[w] = None
  <2>1. Current(worker[x]) /\ \A w \in Workers : worker[w] # None => w = x
    BY <1>1, <1>7, Zenon DEF Followed
  <2>2. DesiredReplicas' = worker[x]
    BY <1>1, <1>2, <2>1, LoopFacts, Zenon DEF Current
  <2> QED
    BY <1>4, <2>1, <2>2, Zenon DEF Current
<1>8. Followed'
  BY <1>1, <1>7, Zenon DEF Followed
<1> QED
  BY <1>6, <1>8, Zenon

\* A patch that fails leaves the worker empty-handed.
LEMMA PatchFailsStep ==
  ASSUME LoopTyped, Followed, NEW x \in Workers, PatchFails(x)
  PROVE  LoopTyped' /\ Followed'
<1>1. /\ range' = range /\ replicas' = replicas /\ status' = status /\ sinceScaled' = sinceScaled
      /\ sincePatch' = sincePatch /\ edited' = edited /\ load' = load /\ sample' = sample
      /\ lagged' = lagged /\ worker' = [worker EXCEPT ![x] = None]
  BY Zenon DEF PatchFails
<1>2. Lo' = Lo /\ Hi' = Hi /\ DesiredReplicas' = DesiredReplicas
  BY <1>1, Zenon DEF Lo, Hi, DesiredReplicas, scale
<1>3. worker \in [Workers -> Counts \cup {None}]
  BY Zenon DEF LoopTyped
<1>4. /\ worker' \in [Workers -> Counts \cup {None}]
      /\ \A w \in Workers : worker'[w] # None => worker'[w] = worker[w]
  BY <1>1, <1>3, Zenon
<1>5. LoopTyped'
  BY <1>1, <1>4, Zenon DEF LoopTyped
<1>6. \A n : Current(n) => Current(n)'
  BY <1>1, <1>2, Zenon DEF Current, InStep
<1>7. Followed'
  BY <1>1, <1>2, <1>4, <1>6, Zenon DEF Followed
<1> QED
  BY <1>5, <1>7, Zenon

\* The loop begins at rest.
LEMMA LoopStart ==
  ASSUME Init
  PROVE  LoopTyped /\ Followed
<1>1. /\ range \in Ranges /\ replicas = 1 /\ sinceScaled = Cap /\ sincePatch = Cap
      /\ status = [replicas |-> DesiredReplicas, desired |-> DesiredReplicas, updating |-> FALSE]
      /\ edited = FALSE /\ lagged = FALSE /\ load \in Loads /\ sample = None
      /\ worker = [w \in Workers |-> None]
  BY Zenon DEF Init
<1>2. scale.min = range.min /\ scale.max = range.max /\ range.min \in Int32 /\ range.max \in Int32
  BY <1>1, AutoscalerAssumption, Zenon DEF scale
<1>3. Lo \in Int /\ Hi \in Int /\ 1 <= Lo /\ Lo <= Hi /\ Hi < SignBit
  BY <1>2, BoundsInOrder, Zenon DEF Lo, Hi
<1>4. DesiredReplicas \in Lo .. Hi
  <2>1. 1 \in Int
    OBVIOUS
  <2> QED
    BY <1>1, <1>3, <2>1, Clamped, Zenon DEF DesiredReplicas, Lo, Hi
<1>5. DesiredReplicas \in Counts /\ 1 \in Counts
  BY <1>3, <1>4, Fits DEF Counts
<1>6. Cap \in 0 .. Cap /\ Cap >= Cap
  <2>1. Cap \in Nat
    BY AutoscalerAssumption DEF Cap
  <2> QED
    BY <2>1
<1>7. LoopTyped
  BY <1>1, <1>5, <1>6, AutoscalerAssumption, Zenon DEF LoopTyped
<1>8. Followed
  BY <1>1, <1>6, Zenon DEF Followed
<1> QED
  BY <1>7, <1>8, Zenon

\* Every step of the loop keeps its types and what is followed.
LEMMA LoopStep ==
  ASSUME LoopTyped, Followed, Next \/ UNCHANGED vars
  PROVE  LoopTyped' /\ Followed'
<1>1. CASE \/ LoadChanges \/ HealthChanges \/ EditAgentSet \/ Tick \/ collectSample
           \/ UNCHANGED vars
  BY <1>1, LoopWorldStep, Zenon
<1>2. CASE Reconcile \/ PodChanges \/ RolloutEnds
  BY <1>2, LoopControllerStep, Zenon
<1>3. ASSUME NEW x \in Workers, scaleKey(x)
      PROVE  LoopTyped' /\ Followed'
  BY <1>3, ScaleKeyStep, Zenon
<1>4. ASSUME NEW x \in Workers, applyReplicas(x)
      PROVE  LoopTyped' /\ Followed'
  BY <1>4, ApplyReplicasStep, Zenon
<1>5. ASSUME NEW x \in Workers, PatchFails(x)
      PROVE  LoopTyped' /\ Followed'
  BY <1>5, PatchFailsStep, Zenon
<1> QED
  BY <1>1, <1>2, <1>3, <1>4, <1>5, Zenon DEF Next

-----------------------------------------------------------------------------
(* The parts together *)

\* A step is one of the loop or one of the ring, and leaves the other alone.
LEMMA PartSteps ==
  ASSUME [MCNext]_mcVars
  PROVE  (Next \/ UNCHANGED vars) /\ (Ring!Next \/ UNCHANGED ringVars)
BY Zenon DEF MCNext, Loop, mcVars

\* Both parts begin in their invariants.
LEMMA PartsStart ==
  ASSUME MCInit
  PROVE  LoopTyped /\ RingInv /\ Followed
<1>1. Init /\ Ring!Init
  BY Zenon DEF MCInit
<1>2. now = 0 /\ records = <<>> /\ saved = <<>> /\ log = <<>> /\ savedLog = <<>>
  BY <1>1, Zenon DEF Ring!Init
<1>3. 0 \in 0 .. MaxTime
  BY RingAssumption
<1>4. RingInv
  BY <1>2, <1>3, EmptyBacked, Zenon DEF RingInv
<1> QED
  BY <1>1, <1>4, LoopStart, Zenon

\* However samples are added, read, flushed and reloaded, a reader of the ring gets
\* exactly the newest maxRecords of those younger than maxAge, the ring keeps its size,
\* and no count leaves its range (evictLocked, add, samples, load; Decide).
THEOREM RingReadsNewest == MCSpec => []ReadsNewest
<1>1. MCInit => LoopTyped /\ Followed /\ RingInv
  BY PartsStart, Zenon
<1>2. LoopTyped /\ Followed /\ RingInv /\ [MCNext]_mcVars => LoopTyped' /\ Followed' /\ RingInv'
  BY PartSteps, LoopStep, RingStep, Zenon
<1>3. LoopTyped /\ Followed => TypeOK
  <2>1. \A n \in Counts : n \in Nat \ {0}
    BY Fits DEF Counts
  <2> QED
    BY <2>1, Zenon DEF LoopTyped, Followed, Current, TypeOK, Lo, Hi
<1>4. LoopTyped /\ Followed /\ RingInv => ReadsNewest
  BY <1>3, RingMeans, Zenon DEF ReadsNewest
<1> QED
  BY <1>1, <1>2, <1>4, PTL DEF MCSpec

\* Whatever the number of workers that may take the same key, and however late each
\* patch lands: until a decision misses a write that is not carried out yet, or is in
\* hand while another is taken or the AgentSet is edited, no operation changes what runs
\* by more than its step or before its cooldown is over (scaleKey, applyReplicas; Decide).
THEOREM OperationsPaced == MCSpec => PacedWhenFollowed
<1>1. MCInit => LoopTyped /\ Followed
  BY PartsStart, Zenon
<1>2. LoopTyped /\ Followed /\ [MCNext]_mcVars => LoopTyped' /\ Followed'
  BY PartSteps, LoopStep, Zenon
<1> DEFINE Paced ==
      ~lagged => \A w \in Workers : applyReplicas(w) =>
         \/ /\ replicas' \in status.replicas .. status.replicas + StepUp
            /\ sincePatch >= UpCooldown
         \/ /\ replicas' \in status.replicas - StepDown .. status.replicas
            /\ sincePatch >= DownCooldown
<1>3. LoopTyped /\ Followed => [Paced]_vars
  <2> SUFFICES ASSUME LoopTyped, Followed, ~lagged, NEW w \in Workers, applyReplicas(w)
               PROVE  \/ /\ replicas' \in status.replicas .. status.replicas + StepUp
                         /\ sincePatch >= UpCooldown
                      \/ /\ replicas' \in status.replicas - StepDown .. status.replicas
                         /\ sincePatch >= DownCooldown
    BY Zenon
  <2>1. worker[w] # None /\ replicas' = worker[w]
    BY Zenon DEF applyReplicas
  <2>2. InStep(replicas') /\ sincePatch >= sinceScaled
    BY <2>1, Zenon DEF Followed, Current
  <2>3. /\ sinceScaled \in Int /\ sincePatch \in Int /\ UpCooldown \in Int /\ DownCooldown \in Int
    BY LoopFacts, AutoscalerAssumption DEF LoopTyped
  <2>4. /\ sinceScaled >= UpCooldown => sincePatch >= UpCooldown
        /\ sinceScaled >= DownCooldown => sincePatch >= DownCooldown
    BY <2>2, <2>3
  <2> QED
    BY <2>2, <2>4, Zenon DEF InStep
<1> QED
  BY <1>1, <1>2, <1>3, PTL DEF MCSpec, PacedWhenFollowed
==============================================================================
