---------------------------- MODULE HistoryBuffer ----------------------------
(***************************************************************************)
(* The ring of samples behind a ConfigMapStore                             *)
(* (scaling/history/buffer.go), bounded by age and by count, and what the  *)
(* Autoscaler and the flush read from it.  Samples are named by their      *)
(* timestamps, which do not decrease (the comment of buffer assumes so).    *)
(***************************************************************************)
EXTENDS Integers, Sequences, FiniteSetsExt, Functions

CONSTANTS
  maxAge, maxRecords,
  MaxTime,   \* bound of the clock
  MaxAdds    \* bound: samples since a reset

VARIABLES
  now,
  records,   \* the ring
  saved,     \* what was last flushed
  log,       \* every sample added since the last reset: what is to be kept
  savedLog

vars == <<now, records, saved, log, savedLog>>

Times == 0 .. MaxTime

TypeOK ==
  /\ now \in Times
  /\ Len(records) <= maxRecords /\ Range(records) \subseteq Times
  /\ Len(saved) <= maxRecords

-----------------------------------------------------------------------------

\* Mutant of firstYoung: the cutoff itself is dropped.
firstYoungAfter(rs, t) == Min({i \in 1 .. Len(rs) + 1 : i <= Len(rs) => rs[i] > t - maxAge})

\* Where the loop over the records ends that are older than maxAge.
firstYoung(rs, t) == Min({i \in 1 .. Len(rs) + 1 : i <= Len(rs) => rs[i] >= t - maxAge})

\* The samples before the first young one go, then the oldest above the cap.
evictLocked(rs, t) ==
  LET i == firstYoung(rs, t)
      over == Len(rs) - i + 1 - maxRecords
  IN SubSeq(rs, IF over > 0 THEN i + over ELSE i, Len(rs))

add ==
  /\ Len(log) < MaxAdds /\ log' = Append(log, now)
  /\ records' = evictLocked(Append(records, now), now)
  /\ UNCHANGED <<now, saved, savedLog>>

samples ==
  /\ records' = evictLocked(records, now)
  /\ UNCHANGED <<now, saved, log, savedLog>>

reset ==
  /\ records # <<>>
  /\ records' = <<>> /\ log' = <<>>
  /\ UNCHANGED <<now, saved, savedLog>>

snapshot ==
  /\ saved' = records /\ savedLog' = log
  /\ UNCHANGED <<now, records, log>>

\* A restart: the ring is loaded with what was flushed, unchecked.
load ==
  /\ records' = saved /\ log' = savedLog
  /\ UNCHANGED <<now, saved, savedLog>>

Tick ==
  /\ now < MaxTime /\ now' = now + 1
  /\ UNCHANGED <<records, saved, log, savedLog>>

Init ==
  /\ now = 0
  /\ records = <<>> /\ saved = <<>> /\ log = <<>> /\ savedLog = <<>>

Next == add \/ samples \/ reset \/ snapshot \/ load \/ Tick

Spec == Init /\ [][Next]_vars

-----------------------------------------------------------------------------
(* Properties *)

\* A reader gets exactly the newest maxRecords of the samples that are not too
\* old: evicting step by step, at adds, reads and restarts, loses nothing else.
ReadsNewest ==
  \E k \in 1 .. Len(log) + 1 :
    /\ evictLocked(records, now) = SubSeq(log, k, Len(log))
    /\ \A i \in DOMAIN log : i >= k <=> log[i] >= now - maxAge /\ i > Len(log) - maxRecords
=============================================================================
