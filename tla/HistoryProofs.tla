---------------------------- MODULE HistoryProofs ----------------------------
(***************************************************************************)
(* Proofs about History, for every set of workers and of pod spec hashes,  *)
(* every record cap and age horizon, and any number of rollouts, faults    *)
(* and AgentDeploys.                                                       *)
(***************************************************************************)
EXTENDS History, FiniteSetTheorems, WellFoundedInduction, TLAPS

(* Types *)

Rec == [under : Hashes, age : Int]
Buffer == [spec : Hashes \cup {None}, records : Seq(Rec)]
StoreType == [owner : Int, buf : Buffer]
MapType == [owner : Int, blob : Buffer]

Pcs == {"idle", "store", "load", "loadHash", "loadRecords", "collect", "reset", "add",
        "flush", "snapshot", "get", "getAgain", "put", "putAgain"}

\* Where a thread holds a copy to be written, and where it holds nothing.
Writing == {"get", "getAgain", "put", "putAgain"}
Free == {"idle", "store", "load", "collect", "flush"}

ThreadType == [pc : Pcs, ad : [uid : Int, hash : Hashes \cup {None}],
               store : Stores \cup {None}, blob : Buffer, seen : {"none", "current", "old"}]

\* A thread has a store when it works on one, and a hash until it has recorded.
Placed(x) ==
  /\ x.pc \notin {"idle", "store"} => x.store \in Stores
  /\ x.pc \notin {"idle", "flush", "snapshot"} \cup Writing => x.ad.hash \in Hashes

Typed ==
  /\ ad \in [uid : Int, hash : Hashes]
  /\ registry \in Stores \cup {None}
  /\ store \in [Stores -> StoreType]
  /\ cm = None \/ cm \in MapType
  /\ view = None \/ view \in MapType
  /\ current => view = cm
  /\ thread \in [Threads -> ThreadType]
  /\ \A t \in Threads : Placed(thread[t]) /\ (thread[t].seen = "current" => cm \in MapType)
  /\ thread[Closer].pc \in {"idle", "flush", "snapshot"} \cup Writing

-----------------------------------------------------------------------------
(* Records of one pod spec *)

All(records, h) == \A i \in DOMAIN records : records[i].under = h

\* Buffer c has the hash of b, and no records of specs that b has none of.
Thin(b, c) == c.spec = b.spec /\ \A h : All(b.records, h) => All(c.records, h)

\* A set of positions has a first one.
LEMMA FirstOf ==
  ASSUME NEW I, I \subseteq Nat, I # {}
  PROVE  Min(I) \in I
<1>1. PICK x \in I : \A y \in I : ~(<<y, x>> \in OpToRel(<, Nat))
  BY NatLessThanWellFounded, WFMin, Zenon
<1>2. ASSUME NEW y \in I PROVE x <= y
  <2>1. x \in Nat /\ y \in Nat
    BY Zenon
  <2>2. ~(y < x)
    BY <1>1, <2>1, Zenon DEF OpToRel
  <2> QED
    BY <2>1, <2>2
<1> QED
  BY <1>2, Zenon DEF Min

\* What is evicted is a part at the front.
LEMMA EvictThins ==
  ASSUME NEW rs \in Seq(Rec)
  PROVE  evictLocked(rs) \in Seq(Rec) /\ \A h : All(rs, h) => All(evictLocked(rs), h)
<1> DEFINE n == Len(rs)
           I == {i \in 1 .. n + 1 : i <= n => rs[i].age <= MaxAge}
           y == firstYoung(rs)
           b == IF n - y + 1 - MaxRecords > 0 THEN y + (n - y + 1 - MaxRecords) ELSE y
           e == evictLocked(rs)
<1>1. n \in Nat /\ DOMAIN rs = 1 .. n /\ MaxRecords \in Nat
  BY HistoryAssumption
<1>2. y \in 1 .. n + 1
  <2>1. y = Min(I) /\ \A i \in I : i \in 1 .. n + 1
    BY Zenon DEF firstYoung
  <2>2. I \subseteq Nat /\ n + 1 \in I
    BY <1>1
  <2> HIDE DEF I, y, n
  <2>3. Min(I) \in I
    BY <2>2, FirstOf, Zenon
  <2> QED
    BY <2>1, <2>3, Zenon
<1>3. e = SubSeq(rs, b, n)
  BY Zenon DEF evictLocked
<1> HIDE DEF y, e, n
<1>4. b \in 1 .. n + 1
  BY <1>1, <1>2
<1> HIDE DEF b
<1>5. /\ e \in Seq(Rec) /\ DOMAIN e = 1 .. n - b + 1
      /\ \A j \in 1 .. n - b + 1 : e[j] = rs[b + j - 1] /\ b + j - 1 \in 1 .. n
  BY <1>1, <1>3, <1>4 DEF n
<1>6. \A h : All(rs, h) => All(e, h)
  BY <1>1, <1>5, Zenon DEF All
<1> QED
  BY <1>5, <1>6, Zenon DEF e

\* A record is added to those of its spec.
LEMMA AddKeeps ==
  ASSUME NEW rs \in Seq(Rec), NEW r \in Rec
  PROVE  add(rs, r) \in Seq(Rec) /\ (All(rs, r.under) => All(add(rs, r), r.under))
<1>1. Append(rs, r) \in Seq(Rec) /\ DOMAIN Append(rs, r) = 1 .. Len(rs) + 1
      /\ Append(rs, r)[Len(rs) + 1] = r /\ Len(rs) \in Nat
      /\ \A i \in 1 .. Len(rs) : Append(rs, r)[i] = rs[i] /\ i \in DOMAIN rs
  OBVIOUS
<1>2. \A i \in 1 .. Len(rs) + 1 : i \in 1 .. Len(rs) \/ i = Len(rs) + 1
  BY <1>1
<1>3. All(rs, r.under) => All(Append(rs, r), r.under)
  BY <1>1, <1>2, Zenon DEF All
<1> QED
  BY <1>1, <1>3, EvictThins, Zenon DEF add

\* Records grow older.
LEMMA OlderThins ==
  ASSUME NEW rs \in Seq(Rec)
  PROVE  Older(rs) \in Seq(Rec) /\ \A h : All(rs, h) => All(Older(rs), h)
<1> DEFINE o(r) == [r EXCEPT !.age = IF @ <= MaxAge THEN @ + 1 ELSE @]
<1>1. ASSUME NEW r \in Rec PROVE o(r) \in Rec /\ o(r).under = r.under
  <2>1. r.age \in Int /\ r.under \in Hashes
    BY Zenon DEF Rec
  <2>2. (IF r.age <= MaxAge THEN r.age + 1 ELSE r.age) \in Int
    BY <2>1
  <2> QED
    BY <2>1, <2>2, Zenon DEF Rec
<1>2. Len(rs) \in Nat /\ DOMAIN rs = 1 .. Len(rs) /\ \A i \in DOMAIN rs : rs[i] \in Rec
  OBVIOUS
<1>3. Older(rs) = [i \in 1 .. Len(rs) |-> o(rs[i])]
  BY <1>2, Zenon DEF Older
<1> HIDE DEF o
<1>4. Older(rs) \in Seq(Rec) /\ DOMAIN Older(rs) = 1 .. Len(rs)
  BY <1>1, <1>2, <1>3
<1>5. \A i \in 1 .. Len(rs) : Older(rs)[i].under = rs[i].under
  BY <1>1, <1>2, <1>3, Zenon
<1> QED
  BY <1>2, <1>4, <1>5, Zenon DEF All

\* No hash, no records; and what is single is of one spec.
LEMMA SingleIs ==
  ASSUME NEW b \in Buffer
  PROVE  /\ Single(b) <=> All(b.records, b.spec)
         /\ Single(b) /\ b.spec = None => \A h : All(b.records, h)
         /\ \A c : Single(b) /\ Thin(b, c) => Single(c)
<1>1. b.records \in Seq(Rec) /\ \A i \in DOMAIN b.records : b.records[i] \in Rec
  <2>1. b.records \in Seq(Rec)
    BY Zenon DEF Buffer
  <2> QED
    BY <2>1
<1>2. \A i \in DOMAIN b.records : b.records[i].under # None
  BY <1>1, HistoryAssumption, Zenon DEF Rec
<1> QED
  BY <1>2, Zenon DEF Single, All, Thin

-----------------------------------------------------------------------------
(* The invariant *)

Zone(t) == thread[t].pc \in Between

\* What a thread in the middle of a Load, a Record or a Flush can count on.
Shape(t) ==
  LET x == thread[t]
      b == store[x.store].buf
  IN  /\ x.pc \in {"loadHash", "loadRecords"} \cup Writing => Single(x.blob)
      /\ x.pc \in {"loadHash", "add", "snapshot"} => Single(b)
      /\ x.pc \in {"loadRecords", "snapshot"} => b.spec = x.blob.spec
      /\ x.pc \in {"reset", "add"} => b.spec = x.ad.hash

Maps(m) == m # None => Single(m.blob)

(***************************************************************************)
(* Until a race: one thread at most is between the sections of a Load, a   *)
(* Record or a Flush on a store and finds it as it should be; and a store  *)
(* on which no thread is, has records of one spec only.                    *)
(***************************************************************************)
Exclusive == \A t, u \in Threads : Zone(t) /\ Zone(u) /\ thread[t].store = thread[u].store => t = u
Rested == \A s \in Stores : (\A t \in Threads : ~(Zone(t) /\ thread[t].store = s)) => Single(store[s].buf)

Sound == ~raced => Exclusive /\ Rested /\ (\A t \in Threads : Shape(t)) /\ Maps(cm) /\ Maps(view)

\* Nobody works on the contents of a store: threads stay where they are, go on with
\* a copy, or let go of a store that is in order.
Keeps(t) ==
  /\ thread'[t].pc = thread[t].pc \/ (thread'[t].pc \in Writing /\ thread[t].pc \in Writing)
  /\ thread'[t].ad = thread[t].ad /\ thread'[t].store = thread[t].store
  /\ Thin(thread[t].blob, thread'[t].blob)
Frees(t) == thread'[t].pc \in Free /\ thread[t].pc \notin {"loadRecords", "reset"}

\* Such steps, which may make buffers thinner, keep everything.
LEMMA QuietStep ==
  ASSUME Typed, Sound, raced' = raced,
         \A t \in Threads : Keeps(t) \/ Frees(t),
         \A s \in Stores : Thin(store[s].buf, store'[s].buf),
         ~raced => Maps(cm)' /\ Maps(view)'
  PROVE  Sound'
<1> SUFFICES ASSUME ~raced PROVE Exclusive' /\ Rested' /\ \A t \in Threads : Shape(t)'
  BY Zenon DEF Sound
<1>1. Exclusive /\ Rested /\ \A t \in Threads : Shape(t)
  BY Zenon DEF Sound
<1>2. \A t \in Threads : thread[t] \in ThreadType /\ thread[t].blob \in Buffer /\ Placed(thread[t])
  BY Zenon DEF Typed, ThreadType
<1>3. \A s \in Stores : store[s].buf \in Buffer
  BY Zenon DEF Typed, StoreType
<1>4. ASSUME NEW t \in Threads, Zone(t)'
      PROVE  Zone(t) /\ Keeps(t) /\ thread'[t].pc = thread[t].pc /\ thread[t].store \in Stores
  <2>1. Keeps(t)
    BY <1>4, Zenon DEF Zone, Between, Frees, Free
  <2>2. thread'[t].pc = thread[t].pc
    BY <1>4, <2>1, Zenon DEF Zone, Between, Keeps, Writing
  <2> QED
    BY <1>2, <1>4, <2>1, <2>2, Zenon DEF Zone, Between, Placed
<1>5. Exclusive'
  BY <1>1, <1>4, Zenon DEF Exclusive, Keeps
<1>6. ASSUME NEW s \in Stores, \A t \in Threads : ~(Zone(t) /\ thread[t].store = s)'
      PROVE  Single(store'[s].buf)
  <2>1. Single(store[s].buf)
    <3>1. CASE \A t \in Threads : ~(Zone(t) /\ thread[t].store = s)
      BY <1>1, <3>1, Zenon DEF Rested
    <3>2. ASSUME NEW t \in Threads, Zone(t), thread[t].store = s PROVE Single(store[s].buf)
      <4>1. Frees(t)
        BY <1>6, <3>2, Zenon DEF Keeps, Zone, Between, Writing
      <4>2. thread[t].pc \in {"loadHash", "add", "snapshot"}
        BY <3>2, <4>1, Zenon DEF Frees, Zone, Between
      <4> QED
        BY <1>1, <3>2, <4>2, Zenon DEF Shape
    <3> QED
      BY <3>1, <3>2, Zenon
  <2> QED
    BY <1>3, <2>1, SingleIs, Zenon
<1>7. ASSUME NEW t \in Threads PROVE Shape(t)'
  <2>1. CASE thread'[t].pc \in Free
    BY <2>1, Zenon DEF Shape, Free, Writing
  <2>2. CASE thread'[t].pc \notin Free
    <3>1. Keeps(t) /\ Shape(t)
      BY <1>1, <2>2, Zenon DEF Frees
    <3>2. thread'[t].pc \in {"loadHash", "loadRecords"} \cup Writing => Single(thread'[t].blob)
      BY <1>2, <3>1, SingleIs, Zenon DEF Shape, Keeps
    <3>3. CASE Zone(t)'
      <4>1. /\ thread[t].store \in Stores /\ thread'[t].pc = thread[t].pc
            /\ thread'[t].store = thread[t].store /\ thread'[t].ad = thread[t].ad
            /\ thread'[t].blob.spec = thread[t].blob.spec
        BY <1>4, <3>3, Zenon DEF Keeps, Thin
      <4>2. /\ store'[thread[t].store].buf.spec = store[thread[t].store].buf.spec
            /\ Single(store[thread[t].store].buf) => Single(store'[thread[t].store].buf)
        BY <1>3, <4>1, SingleIs, Zenon DEF Thin
      <4> QED
        BY <3>1, <3>2, <4>1, <4>2, Zenon DEF Shape
    <3>4. CASE ~Zone(t)'
      BY <3>2, <3>4, Zenon DEF Shape, Zone, Between
    <3> QED
      BY <3>3, <3>4, Zenon
  <2> QED
    BY <2>1, <2>2, Zenon
<1> QED
  BY <1>5, <1>6, <1>7, Zenon DEF Rested

\* A thread works on the contents of its store s, and no other one is on it.
LEMMA ZoneStep ==
  ASSUME Typed, Sound, raced => raced', NEW t \in Threads, NEW s \in Stores,
         \A u \in Threads \ {t} : thread'[u] = thread[u],
         \A r \in Stores \ {s} : store'[r] = store[r],
         thread'[t].store = s, Zone(t) => thread[t].store = s,
         cm' = cm, view' = view,
         ASSUME ~raced', ~raced
         PROVE  /\ \A u \in Threads \ {t} : ~(Zone(u) /\ thread[u].store = s)
                /\ Shape(t)'
                /\ ~Zone(t)' => Single(store'[s].buf)
  PROVE  Sound'
<1> SUFFICES ASSUME ~raced' PROVE Exclusive' /\ Rested' /\ (\A u \in Threads : Shape(u)') /\ Maps(cm)' /\ Maps(view)'
  BY Zenon DEF Sound
<1>1. Exclusive /\ Rested /\ (\A u \in Threads : Shape(u)) /\ Maps(cm) /\ Maps(view) /\ ~raced
  BY Zenon DEF Sound
<1>2. /\ \A u \in Threads \ {t} : ~(Zone(u) /\ thread[u].store = s)
      /\ Shape(t)' /\ (~Zone(t)' => Single(store'[s].buf))
  BY <1>1, Zenon
<1>3. \A u \in Threads \ {t} : (Zone(u)' <=> Zone(u)) /\ thread'[u].store = thread[u].store
  BY Zenon DEF Zone
<1>4. Exclusive'
  BY <1>1, <1>2, <1>3, Zenon DEF Exclusive
<1>5. ASSUME NEW r \in Stores, \A u \in Threads : ~(Zone(u) /\ thread[u].store = r)'
      PROVE  Single(store'[r].buf)
  <2>1. CASE r = s
    BY <1>2, <1>5, <2>1, Zenon
  <2>2. CASE r # s
    <3>1. \A u \in Threads : ~(Zone(u) /\ thread[u].store = r)
      BY <1>3, <1>5, <2>2, Zenon
    <3> QED
      BY <1>1, <2>2, <3>1, Zenon DEF Rested
  <2> QED
    BY <2>1, <2>2, Zenon
<1>6. ASSUME NEW u \in Threads \ {t} PROVE Shape(u)'
  <2>1. Shape(u) /\ thread'[u] = thread[u]
    BY <1>1, Zenon
  <2>2. CASE Zone(u)
    <3>1. thread[u].store \in Stores \ {s}
      <4>1. Placed(thread[u])
        BY Zenon DEF Typed
      <4> QED
        BY <1>2, <2>2, <4>1, Zenon DEF Placed, Zone, Between
    <3> QED
      BY <2>1, <3>1, Zenon DEF Shape
  <2>3. CASE ~Zone(u)
    BY <2>1, <2>3, Zenon DEF Shape, Zone, Between
  <2> QED
    BY <2>2, <2>3, Zenon
<1>7. Maps(cm)' /\ Maps(view)'
  BY <1>1, Zenon DEF Maps
<1> QED
  BY <1>2, <1>4, <1>5, <1>6, <1>7, Zenon DEF Rested

-----------------------------------------------------------------------------
(* One thread moves, one store is filled *)

SeenAd == [uid : Int, hash : Hashes \cup {None}]
SeenMap == {"none", "current", "old"}

\* The threads after a step in which t becomes as told.
After(t, p, a, s, b, n) ==
  /\ thread' \in [Threads -> ThreadType]
  /\ \A u \in Threads \ {t} : thread'[u] = thread[u]
  /\ thread'[t].pc = p /\ thread'[t].ad = a /\ thread'[t].store = s /\ thread'[t].blob = b
  /\ thread'[t].seen = n

\* Stores g are stores f, but for s, which is filled with b.
Filled(f, g, s, b) ==
  /\ g \in [Stores -> StoreType]
  /\ g[s].buf = b /\ \A r \in Stores \ {s} : g[r] = f[r]

\* Stores are numbers, and None is none of them.
LEMMA NoStore == None \notin Stores /\ Closer \in Threads /\ Workers \subseteq Threads
<1>1. Cardinality(Workers) \in Nat
  BY HistoryAssumption, FS_CardinalityType
<1>2. None \notin Nat
  BY HistoryAssumption
<1>3. Stores \subseteq Nat
  BY <1>1 DEF Stores
<1> QED
  BY <1>2, <1>3, Zenon DEF Threads

\* A thread becomes the record it is assigned.
LEMMA Becomes ==
  ASSUME Typed, NEW t \in Threads, NEW x \in ThreadType, thread' = [thread EXCEPT ![t] = x]
  PROVE  After(t, x.pc, x.ad, x.store, x.blob, x.seen)
<1>1. /\ thread' \in [Threads -> ThreadType] /\ thread'[t] = x
      /\ \A u \in Threads \ {t} : thread'[u] = thread[u]
  BY Zenon DEF Typed
<1> QED
  BY <1>1, Zenon DEF After

\* An idle thread has its type.
LEMMA IdleIs ==
  /\ idle \in ThreadType /\ idle.pc = "idle" /\ idle.ad = [uid |-> 0, hash |-> None]
  /\ idle.ad \in SeenAd /\ idle.store = None /\ idle.blob = empty /\ idle.seen = "none"
  /\ empty \in Buffer /\ empty.spec = None /\ empty.records = <<>>
  /\ Single(empty) /\ \A h : All(empty.records, h)
<1>1. empty \in Buffer /\ empty.spec = None /\ empty.records = <<>> /\ DOMAIN empty.records = {}
  BY DEF empty, Buffer
<1>2. [uid |-> 0, hash |-> None] \in SeenAd
  BY DEF SeenAd
<1>3. idle \in ThreadType /\ idle.pc = "idle" /\ idle.ad = [uid |-> 0, hash |-> None]
      /\ idle.store = None /\ idle.blob = empty /\ idle.seen = "none"
  BY <1>1, <1>2, Zenon DEF idle, ThreadType, Pcs, SeenAd
<1> QED
  BY <1>1, <1>2, <1>3, Zenon DEF Single, All

\* A thread is done.
LEMMA IsIdle ==
  ASSUME Typed, NEW t \in Threads, Done(t)
  PROVE  After(t, "idle", [uid |-> 0, hash |-> None], None, empty, "none")
<1>1. After(t, idle.pc, idle.ad, idle.store, idle.blob, idle.seen)
  BY IdleIs, Becomes, Zenon DEF Done
<1> QED
  BY <1>1, IdleIs, Zenon

\* A thread goes on, with another object, store, copy or version.
LEMMA GoesTo ==
  ASSUME Typed, NEW t \in Threads, NEW p \in Pcs, NEW a \in SeenAd, NEW s \in Stores \cup {None},
         NEW b \in Buffer, NEW n \in SeenMap,
         \/ Goto(t, p) /\ a = thread[t].ad /\ s = thread[t].store /\ b = thread[t].blob /\ n = thread[t].seen
         \/ /\ thread' = [thread EXCEPT ![t].pc = p, ![t].ad = a]
            /\ s = thread[t].store /\ b = thread[t].blob /\ n = thread[t].seen
         \/ /\ thread' = [thread EXCEPT ![t].pc = p, ![t].store = s]
            /\ a = thread[t].ad /\ b = thread[t].blob /\ n = thread[t].seen
         \/ /\ thread' = [thread EXCEPT ![t].pc = p, ![t].blob = b]
            /\ a = thread[t].ad /\ s = thread[t].store /\ n = thread[t].seen
         \/ /\ thread' = [thread EXCEPT ![t].pc = p, ![t].seen = n]
            /\ a = thread[t].ad /\ s = thread[t].store /\ b = thread[t].blob
  PROVE  After(t, p, a, s, b, n)
<1>1. thread[t] \in ThreadType
  BY Zenon DEF Typed
<1>2. CASE Goto(t, p) /\ a = thread[t].ad /\ s = thread[t].store /\ b = thread[t].blob /\ n = thread[t].seen
  <2> DEFINE r == [thread[t] EXCEPT !.pc = p]
  <2>1. r \in ThreadType /\ r.pc = p /\ r.ad = a /\ r.store = s /\ r.blob = b /\ r.seen = n
    BY <1>1, <1>2, Zenon DEF ThreadType
  <2>2. thread' = [thread EXCEPT ![t] = r]
    BY <1>2, Zenon DEF Goto
  <2> HIDE DEF r
  <2> QED
    BY <2>1, <2>2, Becomes, Zenon
<1>3. CASE /\ thread' = [thread EXCEPT ![t].pc = p, ![t].ad = a]
           /\ s = thread[t].store /\ b = thread[t].blob /\ n = thread[t].seen
  <2> DEFINE r == [thread[t] EXCEPT !.pc = p, !.ad = a]
  <2>1. r \in ThreadType /\ r.pc = p /\ r.ad = a /\ r.store = s /\ r.blob = b /\ r.seen = n
    BY <1>1, <1>3, Zenon DEF ThreadType, SeenAd, SeenMap
  <2>2. thread' = [thread EXCEPT ![t] = r]
    BY <1>1, <1>3, Zenon DEF Typed, ThreadType
  <2> HIDE DEF r
  <2> QED
    BY <2>1, <2>2, Becomes, Zenon
<1>4. CASE /\ thread' = [thread EXCEPT ![t].pc = p, ![t].store = s]
           /\ a = thread[t].ad /\ b = thread[t].blob /\ n = thread[t].seen
  <2> DEFINE r == [thread[t] EXCEPT !.pc = p, !.store = s]
  <2>1. r \in ThreadType /\ r.pc = p /\ r.ad = a /\ r.store = s /\ r.blob = b /\ r.seen = n
    BY <1>1, <1>4, Zenon DEF ThreadType, SeenAd, SeenMap
  <2>2. thread' = [thread EXCEPT ![t] = r]
    BY <1>1, <1>4, Zenon DEF Typed, ThreadType
  <2> HIDE DEF r
  <2> QED
    BY <2>1, <2>2, Becomes, Zenon
<1>5. CASE /\ thread' = [thread EXCEPT ![t].pc = p, ![t].blob = b]
           /\ a = thread[t].ad /\ s = thread[t].store /\ n = thread[t].seen
  <2> DEFINE r == [thread[t] EXCEPT !.pc = p, !.blob = b]
  <2>1. r \in ThreadType /\ r.pc = p /\ r.ad = a /\ r.store = s /\ r.blob = b /\ r.seen = n
    BY <1>1, <1>5, Zenon DEF ThreadType, SeenAd, SeenMap
  <2>2. thread' = [thread EXCEPT ![t] = r]
    BY <1>1, <1>5, Zenon DEF Typed, ThreadType
  <2> HIDE DEF r
  <2> QED
    BY <2>1, <2>2, Becomes, Zenon
<1>6. CASE /\ thread' = [thread EXCEPT ![t].pc = p, ![t].seen = n]
           /\ a = thread[t].ad /\ s = thread[t].store /\ b = thread[t].blob
  <2> DEFINE r == [thread[t] EXCEPT !.pc = p, !.seen = n]
  <2>1. r \in ThreadType /\ r.pc = p /\ r.ad = a /\ r.store = s /\ r.blob = b /\ r.seen = n
    BY <1>1, <1>6, Zenon DEF ThreadType, SeenAd, SeenMap
  <2>2. thread' = [thread EXCEPT ![t] = r]
    BY <1>1, <1>6, Zenon DEF Typed, ThreadType
  <2> HIDE DEF r
  <2> QED
    BY <2>1, <2>2, Becomes, Zenon
<1> QED
  BY <1>2, <1>3, <1>4, <1>5, <1>6, Zenon

\* A buffer is replaced, or a part of it.
LEMMA Refilled ==
  ASSUME NEW f \in [Stores -> StoreType], NEW g, NEW s \in Stores, NEW b \in Buffer,
         \/ g = [f EXCEPT ![s].buf.spec = b.spec] /\ b.records = f[s].buf.records
         \/ g = [f EXCEPT ![s].buf.records = b.records] /\ b.spec = f[s].buf.spec
         \/ \E o \in Int : g = [f EXCEPT ![s] = [owner |-> o, buf |-> b]]
  PROVE  Filled(f, g, s, b)
<1>1. f[s] \in StoreType /\ f[s].buf \in Buffer
  BY Zenon DEF StoreType
<1>2. b = [spec |-> b.spec, records |-> b.records]
  BY Zenon DEF Buffer
<1>3. [f[s].buf EXCEPT !.spec = b.spec] = [spec |-> b.spec, records |-> f[s].buf.records]
  BY <1>1 DEF Buffer
<1>4. [f[s].buf EXCEPT !.records = b.records] = [spec |-> f[s].buf.spec, records |-> b.records]
  BY <1>1 DEF Buffer
<1>5. ASSUME NEW y \in StoreType, y.buf = b, g = [f EXCEPT ![s] = y] PROVE Filled(f, g, s, b)
  BY <1>5, Zenon DEF Filled
<1> DEFINE x == [f[s] EXCEPT !.buf = b]
<1>6. x \in StoreType /\ x.buf = b
  BY <1>1, Zenon DEF StoreType
<1>7. CASE g = [f EXCEPT ![s].buf.spec = b.spec] /\ b.records = f[s].buf.records
  <2>1. [f[s].buf EXCEPT !.spec = b.spec] = b
    BY <1>2, <1>3, <1>7, Zenon
  <2>2. g = [f EXCEPT ![s] = [f[s] EXCEPT !.buf = [f[s].buf EXCEPT !.spec = b.spec]]]
    BY <1>1, <1>7, Zenon
  <2> QED
    BY <1>5, <1>6, <2>1, <2>2, Zenon
<1>8. CASE g = [f EXCEPT ![s].buf.records = b.records] /\ b.spec = f[s].buf.spec
  <2>1. [f[s].buf EXCEPT !.records = b.records] = b
    BY <1>2, <1>4, <1>8, Zenon
  <2>2. g = [f EXCEPT ![s] = [f[s] EXCEPT !.buf = [f[s].buf EXCEPT !.records = b.records]]]
    BY <1>1, <1>8, Zenon
  <2> QED
    BY <1>5, <1>6, <2>1, <2>2, Zenon
<1>9. ASSUME NEW o \in Int, g = [f EXCEPT ![s] = [owner |-> o, buf |-> b]] PROVE Filled(f, g, s, b)
  <2>1. [owner |-> o, buf |-> b] \in StoreType /\ [owner |-> o, buf |-> b].buf = b
    BY Zenon DEF StoreType
  <2> QED
    BY <1>5, <1>9, <2>1, Zenon
<1> QED
  BY <1>7, <1>8, <1>9, Zenon

\* The buffer of a store after a look at its samples.
Looked(b) == [spec |-> b.spec, records |-> evictLocked(b.records)]

\* It is thinner, and the rest is as it was.
LEMMA LookThins ==
  ASSUME Typed, NEW s \in Stores
  PROVE  /\ store[s].buf \in Buffer /\ Looked(store[s].buf) \in Buffer
         /\ Thin(store[s].buf, Looked(store[s].buf))
         /\ Filled(store, samples(s), s, Looked(store[s].buf))
<1>1. store \in [Stores -> StoreType] /\ store[s].buf \in Buffer
  BY Zenon DEF Typed, StoreType
<1>2. store[s].buf.records \in Seq(Rec) /\ store[s].buf.spec \in Hashes \cup {None}
  BY <1>1, Zenon DEF Buffer
<1>3. Looked(store[s].buf) \in Buffer /\ Thin(store[s].buf, Looked(store[s].buf))
  BY <1>2, EvictThins, Zenon DEF Looked, Buffer, Thin
<1>4. /\ Looked(store[s].buf).spec = store[s].buf.spec
      /\ Looked(store[s].buf).records = evictLocked(store[s].buf.records)
  BY Zenon DEF Looked
<1>5. samples(s) = [store EXCEPT ![s].buf.records = Looked(store[s].buf).records]
  BY <1>4, Zenon DEF samples
<1> QED
  BY <1>1, <1>3, <1>4, <1>5, Refilled, Zenon

\* A thread that moves and the stores it leaves keep their types.
LEMMA TypedAfter ==
  ASSUME Typed, NEW t \in Threads, NEW p, NEW a, NEW s, NEW b, NEW n, After(t, p, a, s, b, n),
         p \notin {"idle", "store"} => s \in Stores,
         p \notin {"idle", "flush", "snapshot"} \cup Writing => a.hash \in Hashes,
         n = "current" => cm \in MapType,
         t = Closer => p \in {"idle", "flush", "snapshot"} \cup Writing,
         store' \in [Stores -> StoreType], registry' \in Stores \cup {None},
         ad' = ad, cm' = cm, view' = view, current' = current
  PROVE  Typed'
<1>1. /\ thread' \in [Threads -> ThreadType] /\ \A u \in Threads \ {t} : thread'[u] = thread[u]
      /\ thread'[t].pc = p /\ thread'[t].ad = a /\ thread'[t].store = s /\ thread'[t].seen = n
  BY Zenon DEF After
<1>2. Placed(thread'[t])
  BY <1>1, Zenon DEF Placed
<1>3. \A u \in Threads : Placed(thread'[u]) /\ (thread'[u].seen = "current" => cm' \in MapType)
  BY <1>1, <1>2, Zenon DEF Typed
<1>4. thread'[Closer].pc \in {"idle", "flush", "snapshot"} \cup Writing
  BY <1>1, NoStore, Zenon DEF Typed
<1> QED
  BY <1>1, <1>3, <1>4, Zenon DEF Typed

\* A thread that moves, and the stores, seen from what is quiet.
LEMMA QuietAfter ==
  ASSUME Typed, Sound, raced' = raced, NEW t \in Threads, NEW p, NEW a, NEW s, NEW b, NEW n,
         After(t, p, a, s, b, n),
         \/ p \in Free /\ thread[t].pc \notin {"loadRecords", "reset"}
         \/ p \in Writing /\ thread[t].pc \in Writing /\ a = thread[t].ad /\ s = thread[t].store
            /\ b = thread[t].blob,
         \A r \in Stores : Thin(store[r].buf, store'[r].buf), cm' = cm, view' = view
  PROVE  Sound'
<1>1. \A x : Thin(x, x)
  BY Zenon DEF Thin
<1>2. \A u \in Threads \ {t} : Keeps(u)
  BY <1>1, Zenon DEF After, Keeps
<1>3. Keeps(t) \/ Frees(t)
  BY <1>1, Zenon DEF After, Keeps, Frees
<1>4. ~raced => Maps(cm)' /\ Maps(view)'
  BY Zenon DEF Sound, Maps
<1> QED
  BY <1>2, <1>3, <1>4, QuietStep, Zenon

-----------------------------------------------------------------------------
(* The steps of a pass *)

\* Nothing is thinner than itself, or as thin.
LEMMA ThinSame == \A x : Thin(x, x)
BY Zenon DEF Thin

\* What the invariant says of one thread.
LEMMA OfThread ==
  ASSUME Typed, NEW t \in Threads
  PROVE  /\ thread[t] \in ThreadType /\ thread[t].pc \in Pcs /\ thread[t].ad \in SeenAd
         /\ thread[t].store \in Stores \cup {None} /\ thread[t].blob \in Buffer
         /\ thread[t].seen \in SeenMap
         /\ thread[t].seen = "current" => cm \in MapType
         /\ thread[t].pc \notin {"idle", "store"} => thread[t].store \in Stores
         /\ thread[t].pc \notin {"idle", "flush", "snapshot"} \cup Writing => thread[t].ad.hash \in Hashes
         /\ thread[t].pc \in {"store", "load", "loadHash", "loadRecords", "collect", "reset", "add"}
              => t # Closer
<1>1. thread[t] \in ThreadType /\ Placed(thread[t]) /\ (thread[t].seen = "current" => cm \in MapType)
  BY Zenon DEF Typed
<1>2. thread[Closer].pc \in {"idle", "flush", "snapshot"} \cup Writing
  BY Zenon DEF Typed
<1>3. thread[t].pc \in {"store", "load", "loadHash", "loadRecords", "collect", "reset", "add"} => t # Closer
  BY <1>2, Zenon DEF Writing
<1> QED
  BY <1>1, <1>3, Zenon DEF ThreadType, SeenAd, SeenMap, Placed

\* A thread is done, and leaves the buffers no less than thinner.
LEMMA DoneStep ==
  ASSUME Typed, Sound, NEW t \in Threads, Done(t), thread[t].pc \notin {"loadRecords", "reset"},
         store' \in [Stores -> StoreType], \A r \in Stores : Thin(store[r].buf, store'[r].buf),
         registry' = registry, ad' = ad, cm' = cm, view' = view, current' = current, raced' = raced
  PROVE  Typed' /\ Sound'
<1>1. After(t, "idle", [uid |-> 0, hash |-> None], None, empty, "none")
  BY IsIdle, Zenon
<1>2. "idle" \in Free /\ "none" # "current" /\ registry \in Stores \cup {None}
  BY Zenon DEF Free, Typed
<1> QED
  BY <1>1, <1>2, TypedAfter, QuietAfter, Zenon

\* The key is taken.
LEMMA GetStep ==
  ASSUME Typed, Sound, NEW w \in Workers, Get(w)
  PROVE  Typed' /\ Sound'
<1>1. /\ thread[w] = idle /\ ad' = ad /\ store' = store /\ cm' = cm /\ view' = view
      /\ current' = current /\ raced' = raced /\ w \in Threads
  BY NoStore, Zenon DEF Get, maps
<1>2. CASE ad.uid = 0
  <2>1. thread' = thread /\ registry' = None
    BY <1>2, Zenon DEF Get
  <2>2. Typed'
    BY <1>1, <2>1, Zenon DEF Typed
  <2>3. Sound'
    BY <1>1, <2>1, Zenon DEF Sound, Exclusive, Rested, Zone, Shape, Maps
  <2> QED
    BY <2>2, <2>3, Zenon
<1>3. CASE ad.uid # 0
  <2>1. thread' = [thread EXCEPT ![w].pc = "store", ![w].ad = ad] /\ registry' = registry
    BY <1>3, Zenon DEF Get
  <2>2. ad \in SeenAd /\ ad.hash \in Hashes /\ "store" \in Pcs
    BY Zenon DEF Typed, SeenAd, Pcs
  <2>3. After(w, "store", ad, thread[w].store, thread[w].blob, thread[w].seen)
    BY <1>1, <2>1, <2>2, OfThread, GoesTo, Zenon
  <2>4. "store" \in Free /\ thread[w].pc = "idle" /\ thread[w].seen = "none" /\ w # Closer
    BY <1>1, IdleIs, HistoryAssumption, Zenon DEF Free
  <2>5. store' \in [Stores -> StoreType] /\ registry' \in Stores \cup {None}
    BY <1>1, <2>1, Zenon DEF Typed
  <2>6. Typed'
    BY <1>1, <2>2, <2>3, <2>4, <2>5, TypedAfter, Zenon
  <2>7. Sound'
    BY <1>1, <2>3, <2>4, ThinSame, QuietAfter, Zenon
  <2> QED
    BY <2>6, <2>7, Zenon
<1> QED
  BY <1>2, <1>3, Zenon

\* The store is found, or a new one is published.
LEMMA StoreForStep ==
  ASSUME Typed, Sound, NEW w \in Workers, StoreFor(w)
  PROVE  Typed' /\ Sound'
<1>1. /\ thread[w].pc = "store" /\ ad' = ad /\ cm' = cm /\ view' = view
      /\ current' = current /\ raced' = raced /\ w \in Threads /\ w # Closer
  BY NoStore, HistoryAssumption, Zenon DEF StoreFor, maps, world, ghosts
<1>2. thread[w].ad.hash \in Hashes
  BY <1>1, OfThread, Zenon DEF Writing
<1>3. CASE registry # None
  <2>1. thread' = [thread EXCEPT ![w].pc = "collect", ![w].store = registry] /\ registry' = registry /\ store' = store
    BY <1>3, Zenon DEF StoreFor
  <2>2. registry \in Stores /\ "collect" \in Pcs /\ "collect" \in Free
    BY <1>3, Zenon DEF Typed, Pcs, Free
  <2>3. After(w, "collect", thread[w].ad, registry, thread[w].blob, thread[w].seen)
    BY <1>1, <2>1, <2>2, OfThread, GoesTo, Zenon
  <2>4. store' \in [Stores -> StoreType] /\ registry' \in Stores \cup {None}
    BY <2>1, Zenon DEF Typed
  <2>5. Typed'
    BY <1>1, <1>2, <2>2, <2>3, <2>4, OfThread, TypedAfter, Zenon
  <2>6. Sound'
    BY <1>1, <2>1, <2>2, <2>3, ThinSame, QuietAfter, Zenon
  <2> QED
    BY <2>5, <2>6, Zenon
<1>4. CASE registry = None
  <2>1. PICK s \in Stores :
          /\ Unused(s) /\ registry' = s
          /\ store' = [store EXCEPT ![s] = [owner |-> thread[w].ad.uid, buf |-> empty]]
          /\ thread' = [thread EXCEPT ![w].pc = "load", ![w].store = s]
    BY <1>4, Zenon DEF StoreFor
  <2>2. "load" \in Pcs /\ thread[w].ad.uid \in Int /\ empty \in Buffer
    BY <1>1, OfThread, IdleIs, Zenon DEF Pcs, SeenAd
  <2>3. After(w, "load", thread[w].ad, s, thread[w].blob, thread[w].seen)
    BY <1>1, <2>1, <2>2, OfThread, GoesTo, Zenon
  <2>4. Filled(store, store', s, empty)
    BY <2>1, <2>2, Refilled, Zenon DEF Typed
  <2>5. Typed'
    BY <1>1, <1>2, <2>1, <2>3, <2>4, OfThread, TypedAfter, Zenon DEF Filled
  <2>6. Sound'
    <3>1. /\ \A u \in Threads \ {w} : thread'[u] = thread[u] /\ thread[u].store # s
          /\ thread'[w].pc = "load" /\ thread'[w].store = s
          /\ \A r \in Stores \ {s} : store'[r] = store[r]
          /\ store'[s].buf = empty
      BY <2>1, <2>3, <2>4, Zenon DEF After, Filled, Unused
    <3>2. ~Zone(w) /\ Shape(w)' /\ Single(store'[s].buf)
      BY <1>1, <3>1, IdleIs, Zenon DEF Zone, Between, Shape, Writing
    <3> QED
      BY <1>1, <3>1, <3>2, ZoneStep, Zenon
  <2> QED
    BY <2>5, <2>6, Zenon
<1> QED
  BY <1>3, <1>4, Zenon

\* A thread begins, goes on with or ends a sequence on its store, which it finds
\* in order unless it is in the middle already.
LEMMA OnStore ==
  ASSUME Typed, Sound, NEW t \in Threads, NEW s \in Stores, s = thread[t].store,
         NEW p, NEW a, NEW b, NEW n, NEW c,
         After(t, p, a, s, b, n), Filled(store, store', s, c), cm' = cm, view' = view,
         (raced' = raced /\ Zone(t)) \/ (Begins(t) /\ ~Zone(t)),
         ASSUME ~raced, Shape(t), Zone(t) \/ Single(store[s].buf), Maps(view)
         PROVE  /\ p \in {"loadHash", "loadRecords"} \cup Writing => Single(b)
                /\ p \in {"loadHash", "add", "snapshot"} => Single(c)
                /\ p \in {"loadRecords", "snapshot"} => c.spec = b.spec
                /\ p \in {"reset", "add"} => c.spec = a.hash
                /\ p \notin Between => Single(c)
  PROVE  Sound'
<1>1. /\ \A u \in Threads \ {t} : thread'[u] = thread[u]
      /\ thread'[t].pc = p /\ thread'[t].ad = a /\ thread'[t].store = s /\ thread'[t].blob = b
      /\ store'[s].buf = c /\ \A r \in Stores \ {s} : store'[r] = store[r]
  BY Zenon DEF After, Filled
<1>2. raced => raced'
  BY Zenon DEF Begins
<1>3. ASSUME ~raced', ~raced
      PROVE  /\ \A u \in Threads \ {t} : ~(Zone(u) /\ thread[u].store = s)
             /\ Shape(t)' /\ (~Zone(t)' => Single(store'[s].buf))
  <2>1. Exclusive /\ Rested /\ Shape(t) /\ Maps(view)
    BY <1>3, Zenon DEF Sound
  <2>2. \A u \in Threads \ {t} : ~(Zone(u) /\ thread[u].store = s)
    BY <1>3, <2>1, Zenon DEF Exclusive, Begins, Zone
  <2>3. Zone(t) \/ Single(store[s].buf)
    BY <2>1, <2>2, Zenon DEF Rested
  <2>4. /\ p \in {"loadHash", "loadRecords"} \cup Writing => Single(b)
        /\ p \in {"loadHash", "add", "snapshot"} => Single(c)
        /\ p \in {"loadRecords", "snapshot"} => c.spec = b.spec
        /\ p \in {"reset", "add"} => c.spec = a.hash
        /\ p \notin Between => Single(c)
    BY <1>3, <2>1, <2>3, Zenon
  <2>5. Shape(t)'
    BY <1>1, <2>4, Zenon DEF Shape
  <2> QED
    BY <1>1, <2>2, <2>4, <2>5, Zenon DEF Zone
<1> QED
  BY <1>1, <1>2, <1>3, ZoneStep, Zenon

\* A store that is left alone.
LEMMA LeftAlone ==
  ASSUME Typed, NEW s \in Stores, store' = store
  PROVE  Filled(store, store', s, store[s].buf)
BY Zenon DEF Typed, Filled

\* Load reads the ConfigMap, or cannot.
LEMMA LoadGetStep ==
  ASSUME Typed, Sound, NEW w \in Workers, LoadGet(w)
  PROVE  Typed' /\ Sound'
<1>1. /\ thread[w].pc = "load" /\ ad' = ad /\ cm' = cm /\ view' = view /\ store' = store
      /\ current' = current /\ registry' = registry /\ w \in Threads /\ w # Closer
  BY NoStore, HistoryAssumption, Zenon DEF LoadGet, maps, world
<1>2. thread[w].ad.hash \in Hashes /\ thread[w].store \in Stores
  BY <1>1, OfThread, Zenon DEF Writing
<1>3. store' \in [Stores -> StoreType] /\ registry' \in Stores \cup {None}
  BY <1>1, Zenon DEF Typed
<1>4. CASE Goto(w, "collect") /\ raced' = raced
  <2>1. After(w, "collect", thread[w].ad, thread[w].store, thread[w].blob, thread[w].seen)
        /\ "collect" \in Free
    <3>1. "collect" \in Pcs /\ "collect" \in Free
      BY Zenon DEF Pcs, Free
    <3> QED
      BY <1>1, <1>4, <3>1, OfThread, GoesTo, Zenon
  <2>2. Typed'
    BY <1>1, <1>2, <1>3, <2>1, OfThread, TypedAfter, Zenon
  <2>3. Sound'
    BY <1>1, <1>4, <2>1, ThinSame, QuietAfter, Zenon
  <2> QED
    BY <2>2, <2>3, Zenon
<1>5. CASE view # None /\ Begins(w) /\ thread' = [thread EXCEPT ![w].pc = "loadHash", ![w].blob = view.blob]
  <2>1. view.blob \in Buffer /\ "loadHash" \in Pcs
    BY <1>5, Zenon DEF Typed, MapType, Pcs
  <2>2. After(w, "loadHash", thread[w].ad, thread[w].store, view.blob, thread[w].seen)
    BY <1>1, <1>5, <2>1, OfThread, GoesTo, Zenon
  <2>3. Typed'
    BY <1>1, <1>2, <1>3, <2>2, OfThread, TypedAfter, Zenon
  <2>4. ~Zone(w)
    BY <1>1, Zenon DEF Zone, Between
  <2>5. ASSUME Zone(w) \/ Single(store[thread[w].store].buf), Maps(view)
        PROVE  Single(view.blob) /\ Single(store[thread[w].store].buf)
    BY <1>5, <2>4, <2>5, Zenon DEF Maps
  <2>6. "loadHash" \in Between /\ "loadHash" \notin {"loadRecords", "snapshot"} /\ "loadHash" \notin {"reset", "add"}
    BY Zenon DEF Between
  <2>7. Sound'
    BY <1>1, <1>2, <1>5, <2>2, <2>4, <2>5, <2>6, LeftAlone, OnStore, Zenon
  <2> QED
    BY <2>3, <2>7, Zenon
<1> QED
  BY <1>4, <1>5, Zenon DEF LoadGet

\* Load fills in the hash.
LEMMA LoadHashStep ==
  ASSUME Typed, Sound, NEW w \in Workers, LoadHash(w)
  PROVE  Typed' /\ Sound'
<1>1. /\ thread[w].pc = "loadHash" /\ ad' = ad /\ cm' = cm /\ view' = view /\ raced' = raced
      /\ current' = current /\ registry' = registry /\ w \in Threads /\ w # Closer
      /\ Goto(w, "loadRecords")
  BY NoStore, HistoryAssumption, Zenon DEF LoadHash, maps, world, ghosts
<1> DEFINE s == thread[w].store
           c == [spec |-> thread[w].blob.spec, records |-> store[s].buf.records]
<1>2. thread[w].ad.hash \in Hashes /\ s \in Stores /\ thread[w].blob \in Buffer
  BY <1>1, OfThread, Zenon DEF Writing
<1>3. store \in [Stores -> StoreType] /\ store[s].buf \in Buffer /\ registry \in Stores \cup {None}
  BY <1>2, Zenon DEF Typed, StoreType
<1>4. c \in Buffer /\ c.spec = thread[w].blob.spec /\ c.records = store[s].buf.records
  BY <1>2, <1>3, Zenon DEF Buffer
<1>5. store' = [store EXCEPT ![s].buf.spec = c.spec]
  BY <1>4, Zenon DEF LoadHash
<1> HIDE DEF c
<1>6. Filled(store, store', s, c)
  BY <1>2, <1>3, <1>4, <1>5, Refilled, Zenon
<1>7. After(w, "loadRecords", thread[w].ad, s, thread[w].blob, thread[w].seen)
  <2>1. "loadRecords" \in Pcs
    BY Zenon DEF Pcs
  <2> QED
    BY <1>1, <2>1, OfThread, GoesTo, Zenon
<1>8. Typed'
  BY <1>1, <1>2, <1>3, <1>6, <1>7, OfThread, TypedAfter, Zenon DEF Filled
<1>9. Zone(w) /\ "loadRecords" \in Between /\ "loadRecords" \notin {"loadHash", "add", "snapshot"}
      /\ "loadRecords" \notin {"reset", "add"} /\ (Shape(w) => Single(thread[w].blob))
  BY <1>1, Zenon DEF Zone, Between, Shape
<1>10. Sound'
  BY <1>1, <1>2, <1>4, <1>6, <1>7, <1>9, OnStore, Zenon
<1> QED
  BY <1>8, <1>10, Zenon

\* Load fills in the records.
LEMMA LoadRecordsStep ==
  ASSUME Typed, Sound, NEW w \in Workers, LoadRecords(w)
  PROVE  Typed' /\ Sound'
<1>1. /\ thread[w].pc = "loadRecords" /\ ad' = ad /\ cm' = cm /\ view' = view /\ raced' = raced
      /\ current' = current /\ registry' = registry /\ w \in Threads /\ w # Closer
      /\ thread' = [thread EXCEPT ![w].pc = "collect", ![w].blob = empty]
  BY NoStore, HistoryAssumption, Zenon DEF LoadRecords, maps, world, ghosts
<1> DEFINE s == thread[w].store
           c == [spec |-> store[s].buf.spec, records |-> thread[w].blob.records]
<1>2. thread[w].ad.hash \in Hashes /\ s \in Stores /\ thread[w].blob \in Buffer
  BY <1>1, OfThread, Zenon DEF Writing
<1>3. store \in [Stores -> StoreType] /\ store[s].buf \in Buffer /\ registry \in Stores \cup {None}
  BY <1>2, Zenon DEF Typed, StoreType
<1>4. c \in Buffer /\ c.spec = store[s].buf.spec /\ c.records = thread[w].blob.records
  BY <1>2, <1>3, Zenon DEF Buffer
<1>5. store' = [store EXCEPT ![s].buf.records = c.records]
  BY <1>4, Zenon DEF LoadRecords
<1> HIDE DEF c
<1>6. Filled(store, store', s, c)
  BY <1>2, <1>3, <1>4, <1>5, Refilled, Zenon
<1>7. After(w, "collect", thread[w].ad, s, empty, thread[w].seen)
  <2>1. "collect" \in Pcs
    BY Zenon DEF Pcs
  <2> QED
    BY <1>1, <2>1, OfThread, IdleIs, GoesTo, Zenon
<1>8. Typed'
  BY <1>1, <1>2, <1>3, <1>6, <1>7, OfThread, TypedAfter, Zenon DEF Filled
<1>9. /\ Zone(w)
      /\ "collect" \notin {"loadHash", "loadRecords"} \cup Writing
      /\ "collect" \notin {"loadHash", "add", "snapshot"} /\ "collect" \notin {"loadRecords", "snapshot"}
      /\ "collect" \notin {"reset", "add"}
  BY <1>1, Zenon DEF Zone, Between, Writing
<1>10. Shape(w) => Single(c)
  BY <1>1, <1>4, Zenon DEF Shape, Single
<1>11. Sound'
  BY <1>1, <1>2, <1>6, <1>7, <1>9, <1>10, OnStore, Zenon
<1> QED
  BY <1>8, <1>11, Zenon

\* A pass without a sample.
LEMMA CollectNothingStep ==
  ASSUME Typed, Sound, NEW w \in Workers, CollectNothing(w)
  PROVE  Typed' /\ Sound'
<1>1. /\ thread[w].pc = "collect" /\ ad' = ad /\ cm' = cm /\ view' = view /\ raced' = raced
      /\ current' = current /\ registry' = registry /\ w \in Threads /\ Done(w)
      /\ store' = samples(thread[w].store)
  BY NoStore, Zenon DEF CollectNothing, maps, world, ghosts
<1>2. thread[w].store \in Stores
  BY <1>1, OfThread, Zenon
<1>3. store' \in [Stores -> StoreType] /\ \A r \in Stores : Thin(store[r].buf, store'[r].buf)
  BY <1>1, <1>2, LookThins, ThinSame, Zenon DEF Filled
<1> QED
  BY <1>1, <1>3, DoneStep, Zenon

\* The scrape looks at the samples, and Record notes the hash.
LEMMA RecordHashStep ==
  ASSUME Typed, Sound, NEW w \in Workers, RecordHash(w)
  PROVE  Typed' /\ Sound'
<1> DEFINE s == thread[w].store
           h == thread[w].ad.hash
           p == IF Changed(w) THEN "reset" ELSE "add"
           c == [spec |-> h, records |-> evictLocked(store[s].buf.records)]
<1>1. /\ thread[w].pc = "collect" /\ ad' = ad /\ cm' = cm /\ view' = view /\ Begins(w)
      /\ current' = current /\ registry' = registry /\ w \in Threads /\ w # Closer
      /\ Goto(w, p) /\ store' = [samples(s) EXCEPT ![s].buf.spec = h]
  BY NoStore, HistoryAssumption, Zenon DEF RecordHash, maps, world
<1>2. h \in Hashes /\ s \in Stores
  BY <1>1, OfThread, Zenon DEF Writing
<1>3. /\ store \in [Stores -> StoreType] /\ registry \in Stores \cup {None}
      /\ store[s].buf \in Buffer /\ Thin(store[s].buf, Looked(store[s].buf))
      /\ Filled(store, samples(s), s, Looked(store[s].buf))
  BY <1>2, LookThins, Zenon DEF Typed
<1>4. /\ Looked(store[s].buf) \in Buffer
      /\ Looked(store[s].buf).records = evictLocked(store[s].buf.records)
  BY <1>2, LookThins, Zenon DEF Looked
<1>5. c \in Buffer /\ c.spec = h /\ c.records = evictLocked(store[s].buf.records)
  BY <1>2, <1>4, Zenon DEF Buffer
<1>6. Changed(w) <=> store[s].buf.spec \notin {None, h}
  BY Zenon DEF Changed, Buf
<1> HIDE DEF c
<1>7. Filled(store, store', s, c)
  <2>1. samples(s) \in [Stores -> StoreType] /\ samples(s)[s].buf.records = c.records
        /\ \A r \in Stores \ {s} : samples(s)[r] = store[r]
    BY <1>3, <1>4, <1>5, Zenon DEF Filled
  <2>2. Filled(samples(s), store', s, c)
    BY <1>1, <1>2, <1>5, <2>1, Refilled, Zenon
  <2> QED
    BY <2>1, <2>2, Zenon DEF Filled
<1>8. After(w, p, thread[w].ad, s, thread[w].blob, thread[w].seen)
  <2>1. p \in Pcs
    BY Zenon DEF Pcs
  <2> QED
    BY <1>1, <2>1, OfThread, GoesTo, Zenon
<1>9. Typed'
  BY <1>1, <1>2, <1>3, <1>7, <1>8, OfThread, TypedAfter, Zenon DEF Filled
<1>10. /\ ~Zone(w) /\ p \in {"reset", "add"} /\ p \in Between
       /\ p \notin {"loadHash", "loadRecords"} \cup Writing /\ p \notin {"loadRecords", "snapshot"}
       /\ p \in {"loadHash", "add", "snapshot"} => ~Changed(w)
  BY <1>1, Zenon DEF Zone, Between, Writing
<1>11. ASSUME Single(store[s].buf), ~Changed(w) PROVE Single(c)
  <2>1. All(store[s].buf.records, h)
    BY <1>3, <1>6, <1>11, SingleIs, Zenon
  <2>2. All(c.records, c.spec)
    BY <1>3, <1>4, <1>5, <2>1, Zenon DEF Thin
  <2> QED
    BY <1>5, <2>2, SingleIs, Zenon
<1>12. Sound'
  BY <1>1, <1>2, <1>5, <1>7, <1>8, <1>10, <1>11, OnStore, Zenon
<1> QED
  BY <1>9, <1>12, Zenon

\* Record drops the records of another spec.
LEMMA ResetStep ==
  ASSUME Typed, Sound, NEW w \in Workers, Reset(w)
  PROVE  Typed' /\ Sound'
<1>1. /\ thread[w].pc = "reset" /\ ad' = ad /\ cm' = cm /\ view' = view /\ raced' = raced
      /\ current' = current /\ registry' = registry /\ w \in Threads /\ w # Closer
      /\ Goto(w, "add")
  BY NoStore, HistoryAssumption, Zenon DEF Reset, maps, world, ghosts
<1> DEFINE s == thread[w].store
           c == [spec |-> store[s].buf.spec, records |-> empty.records]
<1>2. thread[w].ad.hash \in Hashes /\ s \in Stores
  BY <1>1, OfThread, Zenon DEF Writing
<1>3. store \in [Stores -> StoreType] /\ store[s].buf \in Buffer /\ registry \in Stores \cup {None}
  BY <1>2, Zenon DEF Typed, StoreType
<1>4. c \in Buffer /\ c.spec = store[s].buf.spec /\ c.records = empty.records /\ empty.records = <<>>
  BY <1>3, IdleIs, Zenon DEF Buffer
<1>5. store' = [store EXCEPT ![s].buf.records = c.records]
  BY <1>4, Zenon DEF Reset
<1> HIDE DEF c
<1>6. Filled(store, store', s, c) /\ Single(c)
  BY <1>2, <1>3, <1>4, <1>5, IdleIs, SingleIs, Refilled, Zenon
<1>7. After(w, "add", thread[w].ad, s, thread[w].blob, thread[w].seen)
  <2>1. "add" \in Pcs
    BY Zenon DEF Pcs
  <2> QED
    BY <1>1, <2>1, OfThread, GoesTo, Zenon
<1>8. Typed'
  BY <1>1, <1>2, <1>3, <1>6, <1>7, OfThread, TypedAfter, Zenon DEF Filled
<1>9. /\ Zone(w) /\ "add" \in Between /\ "add" \notin {"loadHash", "loadRecords"} \cup Writing
      /\ "add" \notin {"loadRecords", "snapshot"} /\ (Shape(w) => c.spec = thread[w].ad.hash)
  BY <1>1, <1>4, Zenon DEF Zone, Between, Writing, Shape
<1>10. Sound'
  BY <1>1, <1>2, <1>6, <1>7, <1>9, OnStore, Zenon
<1> QED
  BY <1>8, <1>10, Zenon

\* Record adds the sample.
LEMMA AddStep ==
  ASSUME Typed, Sound, NEW w \in Workers, Add(w)
  PROVE  Typed' /\ Sound'
<1>1. /\ thread[w].pc = "add" /\ ad' = ad /\ cm' = cm /\ view' = view /\ raced' = raced
      /\ current' = current /\ registry' = registry /\ w \in Threads /\ w # Closer
      /\ thread' = [thread EXCEPT ![w].pc = "flush", ![w].ad = idle.ad]
  BY NoStore, HistoryAssumption, Zenon DEF Add, maps, world, ghosts
<1> DEFINE s == thread[w].store
           r == [under |-> thread[w].ad.hash, age |-> 0]
           c == [spec |-> store[s].buf.spec, records |-> add(store[s].buf.records, r)]
<1>2. thread[w].ad.hash \in Hashes /\ s \in Stores
  BY <1>1, OfThread, Zenon DEF Writing
<1>3. store \in [Stores -> StoreType] /\ store[s].buf \in Buffer /\ registry \in Stores \cup {None}
  BY <1>2, Zenon DEF Typed, StoreType
<1>4. r \in Rec /\ r.under = thread[w].ad.hash /\ store[s].buf.records \in Seq(Rec)
  <2>1. 0 \in Int
    OBVIOUS
  <2> QED
    BY <1>2, <1>3, <2>1, Zenon DEF Rec, Buffer
<1>5. store' = [store EXCEPT ![s].buf.records = add(store[s].buf.records, r)]
  BY <1>2, <1>3, Zenon DEF Add
<1> HIDE DEF r
<1>6. /\ add(store[s].buf.records, r) \in Seq(Rec)
      /\ All(store[s].buf.records, r.under) => All(add(store[s].buf.records, r), r.under)
  BY <1>4, AddKeeps, Zenon
<1>7. c \in Buffer /\ c.spec = store[s].buf.spec /\ c.records = add(store[s].buf.records, r)
  BY <1>3, <1>6, Zenon DEF Buffer
<1> HIDE DEF c
<1>8. Filled(store, store', s, c)
  BY <1>2, <1>3, <1>5, <1>7, Refilled, Zenon
<1>9. After(w, "flush", idle.ad, s, thread[w].blob, thread[w].seen)
  <2>1. "flush" \in Pcs
    BY Zenon DEF Pcs
  <2> QED
    BY <1>1, <2>1, OfThread, IdleIs, GoesTo, Zenon
<1>10. Typed'
  BY <1>1, <1>2, <1>3, <1>8, <1>9, OfThread, TypedAfter, Zenon DEF Filled
<1>11. /\ Zone(w) /\ "flush" \notin {"loadHash", "loadRecords"} \cup Writing
       /\ "flush" \notin {"loadHash", "add", "snapshot"} /\ "flush" \notin {"loadRecords", "snapshot"}
       /\ "flush" \notin {"reset", "add"}
       /\ Shape(w) => Single(store[s].buf) /\ store[s].buf.spec = thread[w].ad.hash
  BY <1>1, Zenon DEF Zone, Between, Writing, Shape
<1>12. Shape(w) => Single(c)
  BY <1>3, <1>4, <1>6, <1>7, <1>11, SingleIs, Zenon
<1>13. Sound'
  BY <1>1, <1>2, <1>8, <1>9, <1>11, <1>12, OnStore, Zenon
<1> QED
  BY <1>10, <1>13, Zenon

\* Flush reads the hash.
LEMMA FlushHashStep ==
  ASSUME Typed, Sound, NEW t \in Threads, FlushHash(t)
  PROVE  Typed' /\ Sound'
<1> DEFINE s == thread[t].store
           b == [empty EXCEPT !.spec = store[s].buf.spec]
<1>1. /\ thread[t].pc = "flush" /\ ad' = ad /\ cm' = cm /\ view' = view /\ store' = store
      /\ current' = current /\ registry' = registry /\ Begins(t)
      /\ thread' = [thread EXCEPT ![t].pc = "snapshot", ![t].blob = b]
  BY Zenon DEF FlushHash, maps, world, Buf
<1>2. s \in Stores
  BY <1>1, OfThread, Zenon
<1>3. store \in [Stores -> StoreType] /\ store[s].buf \in Buffer /\ registry \in Stores \cup {None}
  BY <1>2, Zenon DEF Typed, StoreType
<1>4. b \in Buffer /\ b.spec = store[s].buf.spec
  BY <1>3, IdleIs, Zenon DEF Buffer
<1> HIDE DEF b
<1>5. After(t, "snapshot", thread[t].ad, s, b, thread[t].seen)
  <2>1. "snapshot" \in Pcs
    BY Zenon DEF Pcs
  <2> QED
    BY <1>1, <1>4, <2>1, OfThread, GoesTo, Zenon
<1>6. Typed'
  BY <1>1, <1>2, <1>3, <1>5, OfThread, TypedAfter, Zenon
<1>7. /\ ~Zone(t) /\ "snapshot" \in Between /\ "snapshot" \notin {"loadHash", "loadRecords"} \cup Writing
      /\ "snapshot" \notin {"reset", "add"}
  BY <1>1, Zenon DEF Zone, Between, Writing
<1>8. Sound'
  BY <1>1, <1>2, <1>4, <1>5, <1>7, LeftAlone, OnStore, Zenon
<1> QED
  BY <1>6, <1>8, Zenon

\* Flush reads the records.
LEMMA SnapshotStep ==
  ASSUME Typed, Sound, NEW t \in Threads, Snapshot(t)
  PROVE  Typed' /\ Sound'
<1> DEFINE s == thread[t].store
           b == [thread[t].blob EXCEPT !.records = store[s].buf.records]
<1>1. /\ thread[t].pc = "snapshot" /\ ad' = ad /\ cm' = cm /\ view' = view /\ store' = store
      /\ current' = current /\ registry' = registry /\ raced' = raced
      /\ thread' = [thread EXCEPT ![t].pc = "get", ![t].blob = b]
  BY Zenon DEF Snapshot, maps, world, ghosts, Buf
<1>2. s \in Stores /\ thread[t].blob \in Buffer
  BY <1>1, OfThread, Zenon
<1>3. store \in [Stores -> StoreType] /\ store[s].buf \in Buffer /\ registry \in Stores \cup {None}
  BY <1>2, Zenon DEF Typed, StoreType
<1>4. b \in Buffer /\ b.spec = thread[t].blob.spec /\ b.records = store[s].buf.records
  BY <1>2, <1>3, Zenon DEF Buffer
<1> HIDE DEF b
<1>5. After(t, "get", thread[t].ad, s, b, thread[t].seen)
  <2>1. "get" \in Pcs
    BY Zenon DEF Pcs
  <2> QED
    BY <1>1, <1>4, <2>1, OfThread, GoesTo, Zenon
<1>6. Typed'
  BY <1>1, <1>2, <1>3, <1>5, OfThread, TypedAfter, Zenon DEF Writing
<1>7. /\ Zone(t) /\ "get" \notin {"loadHash", "add", "snapshot"}
      /\ "get" \notin {"loadRecords", "snapshot"} /\ "get" \notin {"reset", "add"}
      /\ Shape(t) => Single(store[s].buf) /\ store[s].buf.spec = thread[t].blob.spec
  BY <1>1, Zenon DEF Zone, Between, Shape
<1>8. Shape(t) => Single(b)
  BY <1>4, <1>7, Zenon DEF Single
<1>9. Sound'
  BY <1>1, <1>2, <1>3, <1>5, <1>7, <1>8, LeftAlone, OnStore, Zenon
<1> QED
  BY <1>6, <1>9, Zenon

\* The ConfigMap is read for an update, or cannot be.
LEMMA UpsertGetStep ==
  ASSUME Typed, Sound, NEW t \in Threads, UpsertGet(t)
  PROVE  Typed' /\ Sound'
<1> DEFINE p == IF thread[t].pc = "get" THEN "put" ELSE "putAgain"
           n == IF view = None THEN "none" ELSE IF current THEN "current" ELSE "old"
<1>1. /\ thread[t].pc \in {"get", "getAgain"} /\ ad' = ad /\ cm' = cm /\ view' = view /\ store' = store
      /\ current' = current /\ registry' = registry /\ raced' = raced
      /\ Done(t) \/ thread' = [thread EXCEPT ![t].pc = p, ![t].seen = n]
  BY Zenon DEF UpsertGet, maps, world, ghosts
<1>2. store' \in [Stores -> StoreType] /\ registry' \in Stores \cup {None}
  BY <1>1, Zenon DEF Typed
<1>3. CASE Done(t)
  BY <1>1, <1>2, <1>3, ThinSame, DoneStep, Zenon
<1>4. CASE thread' = [thread EXCEPT ![t].pc = p, ![t].seen = n]
  <2>1. /\ p \in Pcs /\ p \in Writing /\ thread[t].pc \in Writing /\ n \in SeenMap
        /\ p \notin {"idle", "store"} /\ thread[t].pc \notin {"idle", "store"}
    BY <1>1, Zenon DEF Pcs, Writing, SeenMap
  <2>2. n = "current" => cm \in MapType
    BY Zenon DEF Typed
  <2> HIDE DEF p, n
  <2>3. After(t, p, thread[t].ad, thread[t].store, thread[t].blob, n)
    BY <1>4, <2>1, OfThread, GoesTo, Zenon
  <2>4. Typed'
    BY <1>1, <1>2, <2>1, <2>2, <2>3, OfThread, TypedAfter, Zenon
  <2>5. Sound'
    BY <1>1, <2>1, <2>3, ThinSame, QuietAfter, Zenon
  <2> QED
    BY <2>4, <2>5, Zenon
<1> QED
  BY <1>1, <1>3, <1>4, Zenon

-----------------------------------------------------------------------------
(* Writes, and the steps of the others *)

\* What a thread has read of the ConfigMap is old, and all else is the same.
LEMMA OutdatedIs ==
  ASSUME NEW f \in [Threads -> ThreadType]
  PROVE  /\ Outdated(f) \in [Threads -> ThreadType]
         /\ \A u \in Threads :
              /\ Outdated(f)[u].pc = f[u].pc /\ Outdated(f)[u].ad = f[u].ad
              /\ Outdated(f)[u].store = f[u].store /\ Outdated(f)[u].blob = f[u].blob
              /\ Outdated(f)[u].seen # "current"
<1> DEFINE o(x) == IF x.seen = "current" THEN [x EXCEPT !.seen = "old"] ELSE x
<1>1. ASSUME NEW x \in ThreadType
      PROVE  /\ o(x) \in ThreadType /\ o(x).pc = x.pc /\ o(x).ad = x.ad
             /\ o(x).store = x.store /\ o(x).blob = x.blob /\ o(x).seen # "current"
  <2>1. CASE x.seen = "current"
    BY <2>1, Zenon DEF ThreadType
  <2>2. CASE x.seen # "current"
    BY <2>2, Zenon
  <2> QED
    BY <2>1, <2>2, Zenon
<1>2. Outdated(f) = [u \in Threads |-> o(f[u])]
  BY Zenon DEF Outdated
<1> HIDE DEF o
<1>3. \A u \in Threads : f[u] \in ThreadType /\ Outdated(f)[u] = o(f[u])
  BY <1>2, Zenon
<1>4. Outdated(f) \in [Threads -> ThreadType]
  BY <1>1, <1>2, <1>3, Zenon
<1> QED
  BY <1>1, <1>3, <1>4, Zenon

\* Threads that have lost sight of the ConfigMap keep their place.
LEMMA OutdatedPlaced ==
  ASSUME Typed, NEW f \in [Threads -> ThreadType], thread' = Outdated(f),
         \A u \in Threads : f[u] = thread[u] \/ f[u] = idle
  PROVE  /\ thread' \in [Threads -> ThreadType]
         /\ \A u \in Threads : Placed(thread'[u]) /\ thread'[u].seen # "current"
         /\ thread'[Closer].pc \in {"idle", "flush", "snapshot"} \cup Writing
<1>1. \A u \in Threads : Placed(f[u])
  BY IdleIs, Zenon DEF Typed, Placed
<1>2. f[Closer].pc \in {"idle", "flush", "snapshot"} \cup Writing
  BY NoStore, IdleIs, Zenon DEF Typed
<1> QED
  BY <1>1, <1>2, OutdatedIs, NoStore, Zenon DEF Placed

\* A thread has written its copy.
LEMMA WriteStep ==
  ASSUME Typed, Sound, NEW t \in Threads, NEW new \in MapType, new.blob = thread[t].blob,
         thread[t].pc \in Writing, Write(t, new),
         ad' = ad, registry' = registry, store' = store, raced' = raced
  PROVE  Typed' /\ Sound'
<1> DEFINE f == [thread EXCEPT ![t] = idle]
<1>1. f \in [Threads -> ThreadType] /\ f[t] = idle /\ \A u \in Threads \ {t} : f[u] = thread[u]
  BY IdleIs, Zenon DEF Typed
<1>2. thread' = Outdated(f) /\ cm' = new /\ current' = FALSE /\ view' = view
  BY Zenon DEF Write
<1> HIDE DEF f
<1>3. /\ thread' \in [Threads -> ThreadType]
      /\ \A u \in Threads : Placed(thread'[u]) /\ thread'[u].seen # "current"
      /\ thread'[Closer].pc \in {"idle", "flush", "snapshot"} \cup Writing
  BY <1>1, <1>2, OutdatedPlaced, Zenon
<1>4. Typed'
  BY <1>2, <1>3, Zenon DEF Typed
<1>5. \A u \in Threads : Keeps(u) \/ Frees(u)
  <2>1. ASSUME NEW u \in Threads \ {t} PROVE Keeps(u)
    <3>1. /\ thread'[u].pc = f[u].pc /\ thread'[u].ad = f[u].ad
          /\ thread'[u].store = f[u].store /\ thread'[u].blob = f[u].blob
      <4>1. /\ Outdated(f)[u].pc = f[u].pc /\ Outdated(f)[u].ad = f[u].ad
            /\ Outdated(f)[u].store = f[u].store /\ Outdated(f)[u].blob = f[u].blob
        BY <1>1, OutdatedIs, Zenon
      <4> QED
        BY <1>2, <4>1, Zenon
    <3>2. f[u] = thread[u]
      BY <1>1, Zenon
    <3> QED
      BY <3>1, <3>2, ThinSame, Zenon DEF Keeps
  <2>2. Frees(t)
    BY <1>1, <1>2, OutdatedIs, IdleIs, Zenon DEF Frees, Free, Writing
  <2> QED
    BY <2>1, <2>2, Zenon
<1>6. ~raced => Maps(cm)' /\ Maps(view)'
  BY <1>2, Zenon DEF Sound, Shape, Maps
<1>7. Sound'
  BY <1>5, <1>6, ThinSame, QuietStep, Zenon
<1> QED
  BY <1>4, <1>7, Zenon

\* The ConfigMap is created, or it is not.
LEMMA UpsertCreateStep ==
  ASSUME Typed, Sound, NEW t \in Threads, UpsertCreate(t)
  PROVE  Typed' /\ Sound'
<1> DEFINE new == [owner |-> store[thread[t].store].owner, blob |-> thread[t].blob]
<1>1. /\ thread[t].pc \in {"put", "putAgain"} /\ ad' = ad /\ store' = store
      /\ registry' = registry /\ raced' = raced
      /\ \/ Done(t) /\ cm' = cm /\ view' = view /\ current' = current
         \/ Write(t, new)
  BY Zenon DEF UpsertCreate, maps, world, ghosts
<1>2. thread[t].pc \in Writing /\ thread[t].pc \notin {"loadRecords", "reset"} /\ thread[t].pc \notin {"idle", "store"}
  BY <1>1, Zenon DEF Writing
<1>3. CASE Done(t) /\ cm' = cm /\ view' = view /\ current' = current
  <2>1. store' \in [Stores -> StoreType]
    BY <1>1, Zenon DEF Typed
  <2> QED
    BY <1>1, <1>2, <1>3, <2>1, ThinSame, DoneStep, Zenon
<1>4. CASE Write(t, new)
  <2>1. thread[t].store \in Stores /\ thread[t].blob \in Buffer
    BY <1>2, OfThread, Zenon
  <2>2. store[thread[t].store].owner \in Int
    BY <2>1, Zenon DEF Typed, StoreType
  <2>3. new \in MapType /\ new.blob = thread[t].blob
    BY <2>1, <2>2, Zenon DEF MapType
  <2> QED
    BY <1>1, <1>2, <1>4, <2>3, WriteStep, Zenon
<1> QED
  BY <1>1, <1>3, <1>4, Zenon

\* It is updated, or it is not, or that is tried again.
LEMMA UpsertUpdateStep ==
  ASSUME Typed, Sound, NEW t \in Threads, UpsertUpdate(t)
  PROVE  Typed' /\ Sound'
<1> DEFINE new == [cm EXCEPT !.blob = thread[t].blob]
<1>1. /\ thread[t].pc \in {"put", "putAgain"} /\ ad' = ad /\ store' = store
      /\ registry' = registry /\ raced' = raced
      /\ \/ Done(t) /\ cm' = cm /\ view' = view /\ current' = current
         \/ thread[t].seen = "current" /\ Write(t, new)
         \/ Goto(t, "getAgain") /\ cm' = cm /\ view' = view /\ current' = current
  BY Zenon DEF UpsertUpdate, maps, world, ghosts
<1>2. thread[t].pc \in Writing /\ thread[t].pc \notin {"loadRecords", "reset"} /\ thread[t].pc \notin {"idle", "store"}
  BY <1>1, Zenon DEF Writing
<1>3. store' \in [Stores -> StoreType] /\ registry' \in Stores \cup {None}
  BY <1>1, Zenon DEF Typed
<1>4. CASE Done(t) /\ cm' = cm /\ view' = view /\ current' = current
  BY <1>1, <1>2, <1>3, <1>4, ThinSame, DoneStep, Zenon
<1>5. CASE thread[t].seen = "current" /\ Write(t, new)
  <2>1. cm \in MapType /\ thread[t].blob \in Buffer
    BY <1>5, OfThread, Zenon
  <2>2. new \in MapType /\ new.blob = thread[t].blob
    BY <2>1, Zenon DEF MapType
  <2> QED
    BY <1>1, <1>2, <1>5, <2>2, WriteStep, Zenon
<1>6. CASE Goto(t, "getAgain") /\ cm' = cm /\ view' = view /\ current' = current
  <2>1. "getAgain" \in Pcs /\ "getAgain" \in Writing
    BY Zenon DEF Pcs, Writing
  <2>2. After(t, "getAgain", thread[t].ad, thread[t].store, thread[t].blob, thread[t].seen)
    BY <1>6, <2>1, OfThread, GoesTo, Zenon
  <2>3. Typed'
    BY <1>1, <1>2, <1>3, <1>6, <2>1, <2>2, OfThread, TypedAfter, Zenon
  <2>4. Sound'
    BY <1>1, <1>2, <1>6, <2>1, <2>2, ThinSame, QuietAfter, Zenon
  <2> QED
    BY <2>3, <2>4, Zenon
<1> QED
  BY <1>1, <1>4, <1>5, <1>6, Zenon

\* A flush is not due.
LEMMA NotDueStep ==
  ASSUME Typed, Sound, NEW w \in Workers, NotDue(w)
  PROVE  Typed' /\ Sound'
<1>1. /\ thread[w].pc = "flush" /\ ad' = ad /\ cm' = cm /\ view' = view /\ raced' = raced
      /\ current' = current /\ registry' = registry /\ w \in Threads /\ Done(w) /\ store' = store
  BY NoStore, Zenon DEF NotDue, maps, world, ghosts
<1>2. store' \in [Stores -> StoreType]
  BY <1>1, Zenon DEF Typed
<1> QED
  BY <1>1, <1>2, ThinSame, DoneStep, Zenon

\* The AgentDeploy changes, or its controller acts.
LEMMA OutsideStep ==
  ASSUME Typed, Sound, ad' \in [uid : Int, hash : Hashes], registry' \in {registry, None},
         store' = store, cm' = cm, view' = view, current' = current, thread' = thread, raced' = raced
  PROVE  Typed' /\ Sound'
<1>1. Typed'
  BY Zenon DEF Typed
<1>2. Sound'
  BY Zenon DEF Sound, Exclusive, Rested, Zone, Shape, Maps
<1> QED
  BY <1>1, <1>2, Zenon

\* The ConfigMap is collected.
LEMMA CollectStep ==
  ASSUME Typed, Sound, Collect
  PROVE  Typed' /\ Sound'
<1>1. /\ cm' = None /\ current' = FALSE /\ thread' = Outdated(thread) /\ ad' = ad
      /\ registry' = registry /\ store' = store /\ view' = view /\ raced' = raced
      /\ thread \in [Threads -> ThreadType]
  BY Zenon DEF Collect, world, ghosts, Typed
<1>2. /\ thread' \in [Threads -> ThreadType]
      /\ \A u \in Threads : Placed(thread'[u]) /\ thread'[u].seen # "current"
      /\ thread'[Closer].pc \in {"idle", "flush", "snapshot"} \cup Writing
  BY <1>1, OutdatedPlaced, Zenon
<1>3. Typed'
  BY <1>1, <1>2, Zenon DEF Typed
<1>4. ASSUME NEW u \in Threads PROVE Keeps(u)
  <2>1. /\ Outdated(thread)[u].pc = thread[u].pc /\ Outdated(thread)[u].ad = thread[u].ad
        /\ Outdated(thread)[u].store = thread[u].store /\ Outdated(thread)[u].blob = thread[u].blob
    BY <1>1, OutdatedIs, Zenon
  <2> QED
    BY <1>1, <2>1, ThinSame, Zenon DEF Keeps
<1>5. ~raced => Maps(cm)' /\ Maps(view)'
  BY <1>1, Zenon DEF Sound, Maps
<1>6. Sound'
  BY <1>1, <1>4, <1>5, ThinSame, QuietStep, Zenon
<1> QED
  BY <1>3, <1>6, Zenon

\* The cache follows.
LEMMA SyncStep ==
  ASSUME Typed, Sound, Sync
  PROVE  Typed' /\ Sound'
<1>1. /\ view' = cm /\ cm' = cm /\ current' = TRUE /\ thread' = thread /\ ad' = ad
      /\ registry' = registry /\ store' = store /\ raced' = raced
  BY Zenon DEF Sync, world, ghosts
<1>2. Typed'
  BY <1>1, Zenon DEF Typed
<1>3. Sound'
  BY <1>1, Zenon DEF Sound, Exclusive, Rested, Zone, Shape, Maps
<1> QED
  BY <1>2, <1>3, Zenon

\* The Autoscaler looks at the samples.
LEMMA LookStep ==
  ASSUME Typed, Sound, History
  PROVE  Typed' /\ Sound'
<1>1. /\ registry # None /\ store' = samples(registry) /\ thread' = thread /\ ad' = ad
      /\ registry' = registry /\ cm' = cm /\ view' = view /\ current' = current /\ raced' = raced
  BY Zenon DEF History, world, maps, ghosts
<1>2. registry \in Stores
  BY <1>1, Zenon DEF Typed
<1>3. store' \in [Stores -> StoreType] /\ \A r \in Stores : Thin(store[r].buf, store'[r].buf)
  BY <1>1, <1>2, LookThins, ThinSame, Zenon DEF Filled
<1>4. Typed'
  BY <1>1, <1>3, Zenon DEF Typed
<1>5. \A u \in Threads : Keeps(u)
  BY <1>1, ThinSame, Zenon DEF Keeps
<1>6. ~raced => Maps(cm)' /\ Maps(view)'
  BY <1>1, Zenon DEF Sound, Maps
<1>7. Sound'
  BY <1>1, <1>3, <1>5, <1>6, QuietStep, Zenon
<1> QED
  BY <1>4, <1>7, Zenon

\* A buffer grows older.
LEMMA OlderBuffer ==
  ASSUME NEW b \in Buffer
  PROVE  /\ [b EXCEPT !.records = Older(b.records)] \in Buffer
         /\ Thin(b, [b EXCEPT !.records = Older(b.records)])
<1>1. b.records \in Seq(Rec)
  BY Zenon DEF Buffer
<1>2. Older(b.records) \in Seq(Rec) /\ \A h : All(b.records, h) => All(Older(b.records), h)
  BY <1>1, OlderThins, Zenon
<1>3. [b EXCEPT !.records = Older(b.records)] \in Buffer
  BY <1>2, Zenon DEF Buffer
<1>4. /\ [b EXCEPT !.records = Older(b.records)].spec = b.spec
      /\ [b EXCEPT !.records = Older(b.records)].records = Older(b.records)
  BY Zenon DEF Buffer
<1> QED
  BY <1>2, <1>3, <1>4, Zenon DEF Thin

\* Time passes.
LEMMA TickStep ==
  ASSUME Typed, Sound, Tick
  PROVE  Typed' /\ Sound'
<1> DEFINE o(b) == [b EXCEPT !.records = Older(b.records)]
<1>1. /\ ad' = ad /\ registry' = registry /\ current' = current /\ raced' = raced
  BY Zenon DEF Tick, world, ghosts
<1>2. \A b \in Buffer : o(b) \in Buffer /\ Thin(b, o(b))
  BY OlderBuffer, Zenon
<1>3. \A s \in Stores : store[s] \in StoreType /\ store[s].buf \in Buffer
  BY Zenon DEF Typed, StoreType
<1>4. store' = [s \in Stores |-> [store[s] EXCEPT !.buf = o(store[s].buf)]]
  BY <1>3, Zenon DEF Tick
<1>5. cm' = IF cm = None THEN None ELSE [cm EXCEPT !.blob = o(cm.blob)]
  BY Zenon DEF Tick
<1>6. view' = IF view = None THEN None ELSE [view EXCEPT !.blob = o(view.blob)]
  BY Zenon DEF Tick
<1>7. thread' = [t \in Threads |-> [thread[t] EXCEPT !.blob = o(thread[t].blob)]]
  BY Zenon DEF Tick
<1> HIDE DEF o
<1>8. store' \in [Stores -> StoreType] /\ \A s \in Stores : Thin(store[s].buf, store'[s].buf)
  <2>1. ASSUME NEW s \in Stores
        PROVE  store'[s] = [store[s] EXCEPT !.buf = o(store[s].buf)] /\ store'[s] \in StoreType
               /\ store'[s].buf = o(store[s].buf)
    BY <1>2, <1>3, <1>4, Zenon DEF StoreType
  <2> QED
    BY <1>2, <1>3, <1>4, <2>1, Zenon
<1>9. ASSUME NEW m \in MapType
      PROVE  [m EXCEPT !.blob = o(m.blob)] \in MapType /\ Thin(m.blob, [m EXCEPT !.blob = o(m.blob)].blob)
  <2>1. m.blob \in Buffer
    BY Zenon DEF MapType
  <2> QED
    BY <1>2, <2>1, Zenon DEF MapType
<1>10. ASSUME NEW t \in Threads
       PROVE  /\ thread'[t] \in ThreadType /\ thread'[t].pc = thread[t].pc /\ thread'[t].ad = thread[t].ad
              /\ thread'[t].store = thread[t].store /\ thread'[t].seen = thread[t].seen
              /\ Thin(thread[t].blob, thread'[t].blob)
  <2>1. thread[t] \in ThreadType /\ thread[t].blob \in Buffer
    BY OfThread, Zenon
  <2>2. thread'[t] = [thread[t] EXCEPT !.blob = o(thread[t].blob)]
    BY <1>7, Zenon
  <2> QED
    BY <1>2, <2>1, <2>2, Zenon DEF ThreadType
<1>11. /\ cm' = None \/ cm' \in MapType
       /\ view' = None \/ view' \in MapType
       /\ cm \in MapType => cm' \in MapType
       /\ current' => view' = cm'
  <2>1. cm \in MapType => cm' \in MapType
    <3>1. CASE cm = None
      BY <1>5, <3>1, Zenon
    <3>2. CASE cm # None
      BY <1>5, <1>9, <3>2, Zenon
    <3> QED
      BY <3>1, <3>2, Zenon
  <2> QED
    BY <1>1, <1>5, <1>6, <1>9, <2>1, Zenon DEF Typed
<1>12. Typed'
  <2>1. thread' \in [Threads -> ThreadType]
    BY <1>7, <1>10, Zenon
  <2>2. \A t \in Threads : Placed(thread'[t]) /\ (thread'[t].seen = "current" => cm' \in MapType)
    BY <1>10, <1>11, Zenon DEF Typed, Placed
  <2>3. thread'[Closer].pc \in {"idle", "flush", "snapshot"} \cup Writing
    BY <1>10, NoStore, Zenon DEF Typed
  <2> QED
    BY <1>1, <1>8, <1>11, <2>1, <2>2, <2>3, Zenon DEF Typed
<1>13. \A t \in Threads : Keeps(t)
  BY <1>10, Zenon DEF Keeps
<1>14. ASSUME NEW m, m = None \/ m \in MapType, Maps(m)
       PROVE  Maps(IF m = None THEN None ELSE [m EXCEPT !.blob = o(m.blob)])
  <2>1. CASE m = None
    BY <2>1, Zenon DEF Maps
  <2>2. CASE m # None
    <3>1. m \in MapType /\ m.blob \in Buffer /\ Single(m.blob)
      BY <1>14, <2>2, Zenon DEF Maps, MapType
    <3> QED
      BY <1>9, <2>2, <3>1, SingleIs, Zenon DEF Maps
  <2> QED
    BY <2>1, <2>2, Zenon
<1>15. ~raced => Maps(cm)' /\ Maps(view)'
  <2>1. ~raced => Maps(cm') /\ Maps(view')
    BY <1>5, <1>6, <1>14, Zenon DEF Typed, Sound
  <2> QED
    BY <2>1, Zenon DEF Maps
<1>16. Sound'
  BY <1>1, <1>8, <1>13, <1>15, QuietStep, Zenon
<1> QED
  BY <1>12, <1>16, Zenon

\* The leader stops, and flushes.
LEMMA StopStep ==
  ASSUME Typed, Sound, Stop
  PROVE  Typed' /\ Sound'
<1>1. /\ ad' = ad /\ registry' = registry /\ store' = store /\ cm' = cm /\ view' = view
      /\ current' = current /\ raced' = raced /\ Closer \in Threads
  BY NoStore, Zenon DEF Stop, maps
<1>2. CASE registry = None
  <2>1. thread' = thread /\ ad' \in [uid : Int, hash : Hashes]
    BY <1>1, <1>2, Zenon DEF Stop, Typed
  <2> QED
    BY <1>1, <2>1, OutsideStep, Zenon
<1>3. CASE registry # None
  <2>1. thread' = [thread EXCEPT ![Closer].pc = "flush", ![Closer].store = registry]
    BY <1>3, Zenon DEF Stop
  <2>2. registry \in Stores /\ "flush" \in Pcs /\ "flush" \in Free /\ store' \in [Stores -> StoreType]
    BY <1>1, <1>3, Zenon DEF Typed, Pcs, Free
  <2>3. After(Closer, "flush", thread[Closer].ad, registry, thread[Closer].blob, thread[Closer].seen)
    BY <1>1, <2>1, <2>2, OfThread, GoesTo, Zenon
  <2>4. thread[Closer].pc \notin {"loadRecords", "reset"}
    BY Zenon DEF Typed, Writing
  <2>5. Typed'
    BY <1>1, <2>2, <2>3, OfThread, TypedAfter, Zenon
  <2>6. Sound'
    BY <1>1, <2>2, <2>3, <2>4, ThinSame, QuietAfter, Zenon
  <2> QED
    BY <2>5, <2>6, Zenon
<1> QED
  BY <1>2, <1>3, Zenon

\* Stores and threads as a leader starts with.
LEMMA Fresh ==
  ASSUME NEW S, S = [s \in Stores |-> [owner |-> 0, buf |-> empty]],
         NEW T, T = [t \in Threads |-> idle]
  PROVE  /\ S \in [Stores -> StoreType] /\ \A s \in Stores : S[s].buf = empty
         /\ T \in [Threads -> ThreadType] /\ \A t \in Threads : T[t] = idle
         /\ T[Closer] = idle /\ Placed(idle)
<1>1. 0 \in Int
  OBVIOUS
<1>2. [owner |-> 0, buf |-> empty] \in StoreType /\ [owner |-> 0, buf |-> empty].buf = empty
  BY <1>1, IdleIs, Zenon DEF StoreType
<1> QED
  BY <1>2, IdleIs, NoStore, Zenon DEF Placed

\* The next leader starts.
LEMMA RestartStep ==
  ASSUME Typed, Sound, Restart
  PROVE  Typed' /\ Sound'
<1>1. /\ ad' = ad /\ registry' = None /\ cm' = cm /\ view' = cm /\ current' = TRUE /\ raced' = raced
      /\ store' = [s \in Stores |-> [owner |-> 0, buf |-> empty]]
      /\ thread' = [t \in Threads |-> idle]
  BY Zenon DEF Restart, ghosts
<1>2. /\ store' \in [Stores -> StoreType] /\ \A s \in Stores : store'[s].buf = empty
      /\ thread' \in [Threads -> ThreadType] /\ \A t \in Threads : thread'[t] = idle
      /\ thread'[Closer] = idle /\ Placed(idle)
  BY <1>1, Fresh, Zenon
<1>3. Typed'
  BY <1>1, <1>2, IdleIs, Zenon DEF Typed
<1>4. \A t \in Threads : ~Zone(t)' /\ Shape(t)'
  BY <1>2, IdleIs, Zenon DEF Zone, Between, Shape, Writing
<1>5. Sound'
  BY <1>1, <1>2, <1>4, IdleIs, Zenon DEF Sound, Exclusive, Rested, Maps
<1> QED
  BY <1>3, <1>5, Zenon

\* The first one starts.
LEMMA StartHolds ==
  ASSUME Init
  PROVE  Typed /\ Sound
<1> DEFINE first == CHOOSE h \in Hashes : TRUE
           sample == [under |-> ad.hash, age |-> 0]
           left == [owner |-> 1, blob |-> [spec |-> ad.hash, records |-> <<sample>>]]
<1>1. first \in Hashes
  BY HistoryAssumption, Zenon
<1>2. /\ ad = [uid |-> 1, hash |-> first] /\ registry = None /\ cm \in {None, left} /\ view = cm
      /\ store = [s \in Stores |-> [owner |-> 0, buf |-> empty]]
      /\ thread = [t \in Threads |-> idle]
  BY Zenon DEF Init
<1> HIDE DEF first
<1>3. ad \in [uid : Int, hash : Hashes] /\ ad.hash \in Hashes
  BY <1>1, <1>2
<1>4. left \in MapType /\ Single(left.blob)
  <2>1. sample \in Rec /\ sample.under = ad.hash
    BY <1>3 DEF Rec
  <2> HIDE DEF sample
  <2>2. <<sample>> \in Seq(Rec) /\ DOMAIN <<sample>> = {1} /\ <<sample>>[1] = sample /\ 1 \in Int
    BY <2>1
  <2>3. [spec |-> ad.hash, records |-> <<sample>>] \in Buffer
    BY <1>3, <2>2, Zenon DEF Buffer
  <2> QED
    BY <2>1, <2>2, <2>3, Zenon DEF MapType, Single
<1> HIDE DEF left
<1>5. /\ store \in [Stores -> StoreType] /\ \A s \in Stores : store[s].buf = empty
      /\ thread \in [Threads -> ThreadType] /\ \A t \in Threads : thread[t] = idle
      /\ thread[Closer] = idle /\ Placed(idle)
  BY <1>2, Fresh, Zenon
<1>6. Typed
  BY <1>2, <1>3, <1>4, <1>5, IdleIs, Zenon DEF Typed
<1>7. \A t \in Threads : ~Zone(t) /\ Shape(t)
  BY <1>5, IdleIs, Zenon DEF Zone, Between, Shape, Writing
<1>8. Sound
  BY <1>2, <1>4, <1>5, <1>7, IdleIs, Zenon DEF Sound, Exclusive, Rested, Maps
<1> QED
  BY <1>6, <1>8, Zenon

\* A step of whoever it is.
LEMMA HistoryStep ==
  ASSUME Typed, Sound, [Next]_vars
  PROVE  Typed' /\ Sound'
<1>1. ad \in [uid : Int, hash : Hashes]
  BY Zenon DEF Typed
<1>2. CASE Delete \/ Create
  <2>1. PICK u \in Int : ad' = [ad EXCEPT !.uid = u]
    <3>1. CASE Delete
      BY <3>1 DEF Delete
    <3>2. CASE Create
      BY <3>2 DEF Create
    <3> QED
      BY <1>2, <3>1, <3>2
  <2>2. ad' \in [uid : Int, hash : Hashes]
    BY <1>1, <2>1, Zenon
  <2>3. /\ registry' = registry /\ store' = store /\ thread' = thread /\ raced' = raced
        /\ cm' = cm /\ view' = view /\ current' = current
    BY <1>2, Zenon DEF Delete, Create, maps, ghosts
  <2> QED
    BY <2>2, <2>3, OutsideStep, Zenon
<1>3. CASE Reconcile
  <2>1. /\ ad' = ad /\ registry' \in {registry, None} /\ store' = store /\ thread' = thread
        /\ raced' = raced /\ cm' = cm /\ view' = view /\ current' = current
    BY <1>3, Zenon DEF Reconcile, maps, ghosts
  <2> QED
    BY <1>1, <2>1, OutsideStep, Zenon
<1>4. CASE Rollout
  <2>1. ad' \in [uid : Int, hash : Hashes]
    BY <1>1, <1>4, Zenon DEF Rollout
  <2>2. /\ registry' = registry /\ store' = store /\ thread' = thread /\ raced' = raced
        /\ cm' = cm /\ view' = view /\ current' = current
    BY <1>4, Zenon DEF Rollout, maps, ghosts
  <2> QED
    BY <2>1, <2>2, OutsideStep, Zenon
<1>5. CASE Collect \/ Sync \/ Tick \/ History \/ Stop \/ Restart
  BY <1>5, CollectStep, SyncStep, TickStep, LookStep, StopStep, RestartStep, Zenon
<1>6. ASSUME NEW w \in Workers, Get(w) \/ Proceed(w) PROVE Typed' /\ Sound'
  BY <1>6, GetStep, StoreForStep, LoadGetStep, LoadHashStep, LoadRecordsStep, CollectNothingStep,
     RecordHashStep, ResetStep, AddStep, NotDueStep, Zenon DEF Proceed
<1>7. ASSUME NEW t \in Threads, Flush(t) PROVE Typed' /\ Sound'
  BY <1>7, FlushHashStep, SnapshotStep, UpsertGetStep, UpsertCreateStep, UpsertUpdateStep, Zenon DEF Flush
<1>8. CASE UNCHANGED vars
  <2>1. /\ ad' = ad /\ registry' = registry /\ store' = store /\ thread' = thread /\ raced' = raced
        /\ cm' = cm /\ view' = view /\ current' = current
    BY <1>8, Zenon DEF vars
  <2> QED
    BY <1>1, <2>1, OutsideStep, Zenon
<1> QED
  BY <1>2, <1>3, <1>4, <1>5, <1>6, <1>7, <1>8, Zenon DEF Next

\* What a reader of the registered store or of the ConfigMap sees.
LEMMA SoundIsSingle ==
  ASSUME Typed, Sound
  PROVE  OneSpecOnly
<1> SUFFICES ASSUME ~raced
             PROVE  /\ registry # None /\ ~Busy(registry) => Single(store[registry].buf)
                    /\ \A m \in {cm, view} : m # None => Single(m.blob)
  BY Zenon DEF OneSpecOnly
<1>1. Rested /\ (\A t \in Threads : Shape(t)) /\ Maps(cm) /\ Maps(view)
  BY Zenon DEF Sound
<1>2. ASSUME registry # None, ~Busy(registry) PROVE Single(store[registry].buf)
  <2>1. registry \in Stores
    BY <1>2, Zenon DEF Typed
  <2>2. CASE \A t \in Threads : ~(Zone(t) /\ thread[t].store = registry)
    BY <1>1, <2>1, <2>2, Zenon DEF Rested
  <2>3. ASSUME NEW t \in Threads, Zone(t), thread[t].store = registry PROVE Single(store[registry].buf)
    <3>1. thread[t].pc \in {"loadHash", "add", "snapshot"}
      BY <1>2, <2>3, Zenon DEF Busy, Zone, Between
    <3> QED
      BY <1>1, <2>3, <3>1, Zenon DEF Shape
  <2> QED
    BY <2>2, <2>3, Zenon
<1> QED
  BY <1>1, <1>2, Zenon DEF Maps

(***************************************************************************)
(* For any number of workers, the flush of a leader that stops among them, *)
(* a cache of any age and any number of restarts: as long as no Load,      *)
(* Record or Flush has cut into another one of the same store, the records *)
(* in the registered store, in the ConfigMap and in its cached copy are    *)
(* all of the spec whose hash they carry (Record, Load, Flush).            *)
(***************************************************************************)
THEOREM HistoryOneSpec == Spec => []OneSpecOnly
<1>1. Init => Typed /\ Sound
  BY StartHolds
<1>2. Typed /\ Sound /\ [Next]_vars => (Typed /\ Sound)'
  BY HistoryStep
<1>3. Typed /\ Sound => OneSpecOnly
  BY SoundIsSingle
<1> QED
  BY <1>1, <1>2, <1>3, PTL DEF Spec
=============================================================================
