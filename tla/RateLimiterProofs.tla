-------------------------- MODULE RateLimiterProofs --------------------------
(***************************************************************************)
(* Proofs about RateLimiter, for every fleet and every cap.                *)
(***************************************************************************)
EXTENDS RateLimiter, TLAPS, FiniteSetTheorems

(***************************************************************************)
(* The slice of a fleet of n brokers: rounded up, n slices cover the cap   *)
(* and exceed it by less than one per broker (sliceFor).                   *)
(***************************************************************************)
LEMMA SliceCovers ==
  ASSUME NEW max \in Nat \ {0}, NEW n \in Nat, n >= 1
  PROVE  /\ sliceFor(max, n) \in Nat
         /\ sliceFor(max, n) * n >= max
         /\ sliceFor(max, n) * n <= max + n - 1
<1>1. CASE n = 1
  BY <1>1 DEF sliceFor
<1>2. CASE n > 1
  <2> DEFINE x == max + n - 1
             q == x \div n
             m == x % n
  <2>1. q \in Int /\ m \in 0 .. n - 1 /\ x = n * q + m
    BY <1>2
  <2> HIDE DEF q, m
  <2>2. n * q >= max /\ n * q <= max + n - 1
    BY <2>1
  <2>3. q >= 0
    <3> SUFFICES ASSUME q <= -1 PROVE FALSE
      BY <2>1
    <3>1. n * q <= n * (-1)
      BY <2>1
    <3> QED
      BY <3>1, <2>1, <2>2
  <2>4. sliceFor(max, n) = q
    BY <1>2 DEF sliceFor, q
  <2> QED
    BY <2>1, <2>2, <2>3, <2>4
<1> QED
  BY <1>1, <1>2

(***************************************************************************)
(* A slice is never empty and never more than the cap, whatever number of  *)
(* replicas DNS reports.                                                   *)
(***************************************************************************)
LEMMA SliceInCap ==
  ASSUME NEW max \in Nat \ {0}, NEW n \in Nat
  PROVE  sliceFor(max, n) \in 1 .. max
<1>1. CASE n <= 1
  BY <1>1 DEF sliceFor
<1>2. CASE n > 1
  <2> DEFINE q == sliceFor(max, n)
  <2>1. q \in Nat /\ q * n >= max /\ q * n <= max + n - 1
    BY <1>2, SliceCovers
  <2> HIDE DEF q
  <2>2. q # 0
    BY <2>1
  <2>3. q <= max
    <3> SUFFICES ASSUME q >= max + 1 PROVE FALSE
      BY <2>1
    <3>1. q * n >= (max + 1) * n
      BY <2>1
    <3>2. (max + 1) * n = max * n + n
      OBVIOUS
    <3>3. max * n >= max
      BY <1>2
    <3> QED
      BY <2>1, <3>1, <3>2, <3>3
  <2> QED
    BY <2>1, <2>2, <2>3 DEF q
<1> QED
  BY <1>1, <1>2

-----------------------------------------------------------------------------

\* The inductive invariant: each broker is well typed, its semaphore counts
\* its requests, and its limit is a slice.  That held stays within the cap
\* follows from both: it grows only below a limit that is within the cap.
LimiterInv == TypeOK /\ HeldAccounted /\ WithinCap

\* Initially no slot is held and every limit is the cap.
LEMMA LimiterInit == Init => LimiterInv
<1> SUFFICES ASSUME Init PROVE LimiterInv
  BY Zenon
<1> USE LimiterAssumption DEF Init
<1>1. TypeOK
  BY Zenon DEF TypeOK
<1>2. HeldAccounted
  BY DEF HeldAccounted
<1>3. WithinCap
  BY DEF WithinCap
<1> QED
  BY <1>1, <1>2, <1>3, Zenon DEF LimiterInv

\* Every step of a broker, of DNS or of the fleet keeps the invariant.
LEMMA LimiterNext == LimiterInv /\ [Next]_vars => LimiterInv'
<1> SUFFICES ASSUME LimiterInv, [Next]_vars PROVE LimiterInv'
  BY Zenon
<1> USE LimiterAssumption DEF LimiterInv
<1>1. ASSUME NEW b \in Brokers, Acquire(b) PROVE LimiterInv'
  <2>1. TypeOK'
    BY <1>1 DEF Acquire, TypeOK
  <2>2. HeldAccounted'
    BY <1>1 DEF Acquire, TypeOK, HeldAccounted
  <2>3. WithinCap'
    BY <1>1 DEF Acquire, TypeOK, WithinCap
  <2> QED
    BY <2>1, <2>2, <2>3, Zenon
<1>2. ASSUME NEW b \in Brokers, Enter(b) \/ Exit(b) PROVE LimiterInv'
  <2>1. TypeOK'
    BY <1>2 DEF Enter, Exit, TypeOK, semaphore
  <2>2. HeldAccounted'
    BY <1>2 DEF Enter, Exit, TypeOK, HeldAccounted, semaphore
  <2>3. WithinCap'
    BY <1>2, Zenon DEF Enter, Exit, WithinCap, semaphore
  <2> QED
    BY <2>1, <2>2, <2>3
<1>3. ASSUME NEW b \in Brokers, release(b) PROVE LimiterInv'
  <2>1. TypeOK'
    BY <1>3 DEF release, TypeOK
  <2>2. HeldAccounted'
    BY <1>3 DEF release, TypeOK, HeldAccounted
  <2>3. WithinCap'
    BY <1>3 DEF release, TypeOK, WithinCap
  <2> QED
    BY <2>1, <2>2, <2>3
<1>4. ASSUME NEW b \in Brokers, Discover(b) PROVE LimiterInv'
  <2>1. TypeOK'
    BY <1>4, Zenon DEF Discover, TypeOK, semaphore, requests
  <2>2. HeldAccounted' /\ WithinCap'
    BY <1>4, Zenon DEF Discover, HeldAccounted, WithinCap, semaphore, requests
  <2> QED
    BY <2>1, <2>2, Zenon
<1>5. ASSUME NEW b \in Brokers, SetLimit(b) PROVE LimiterInv'
  <2>1. sliceFor(MaxInFlight, answer[b]) \in 1 .. MaxInFlight
    BY <1>5, SliceInCap, Zenon DEF SetLimit, TypeOK
  <2>2. TypeOK'
    BY <1>5, <2>1 DEF SetLimit, TypeOK, requests
  <2>3. HeldAccounted'
    BY <1>5, Zenon DEF SetLimit, HeldAccounted, requests
  <2>4. WithinCap'
    BY <1>5, <2>1, Zenon DEF SetLimit, TypeOK, WithinCap
  <2> QED
    BY <2>2, <2>3, <2>4
<1>6. ASSUME NEW b \in Brokers, StartBroker(b) \/ Drain(b) PROVE LimiterInv'
  <2>1. TypeOK'
    BY <1>6 DEF StartBroker, Drain, Scaling, TypeOK, semaphore, requests
  <2>2. HeldAccounted'
    BY <1>6, Zenon DEF StartBroker, Drain, HeldAccounted, semaphore, requests
  <2>3. WithinCap'
    BY <1>6 DEF StartBroker, Drain, TypeOK, WithinCap, semaphore
  <2> QED
    BY <2>1, <2>2, <2>3
<1>7. ASSUME NEW b \in Brokers, Stop(b) PROVE LimiterInv'
  <2>1. TypeOK'
    BY <1>7, Zenon DEF Stop, TypeOK
  <2>2. HeldAccounted'
    BY <1>7 DEF Stop, TypeOK, HeldAccounted
  <2>3. WithinCap'
    BY <1>7 DEF Stop, TypeOK, WithinCap
  <2> QED
    BY <2>1, <2>2, <2>3
<1>8. CASE Publish
  <2>1. Cardinality(Up) \in Nat
    BY FS_Subset, FS_CardinalityType, Zenon DEF Up
  <2>2. TypeOK'
    BY <1>8, <2>1, Zenon DEF Publish, TypeOK, semaphore, requests
  <2>3. HeldAccounted' /\ WithinCap'
    BY <1>8, Zenon DEF Publish, HeldAccounted, WithinCap, semaphore, requests
  <2> QED
    BY <2>2, <2>3, Zenon
<1>9. CASE UNCHANGED vars
  BY <1>9, Zenon DEF vars, TypeOK, HeldAccounted, WithinCap, semaphore, requests
<1> QED
  BY <1>1, <1>2, <1>3, <1>4, <1>5, <1>6, <1>7, <1>8, <1>9, Zenon DEF Next

(***************************************************************************)
(* The semaphore counts exactly the requests between Acquire and release,  *)
(* and is well typed.                                                      *)
(***************************************************************************)
THEOREM EverySlotReleasedOnce == Spec => [](TypeOK /\ HeldAccounted)
<1>1. LimiterInv => TypeOK /\ HeldAccounted
  BY Zenon DEF LimiterInv
<1> QED
  BY LimiterInit, LimiterNext, <1>1, PTL DEF Spec

(***************************************************************************)
(* No broker is ever shut off or lets in more than the whole cap, however  *)
(* old or wrong the replica count it last read.                            *)
(***************************************************************************)
THEOREM BrokerWithinCap == Spec => []WithinCap
<1>1. LimiterInv => WithinCap
  BY Zenon DEF LimiterInv
<1> QED
  BY LimiterInit, LimiterNext, <1>1, PTL DEF Spec
=============================================================================
