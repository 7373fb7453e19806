-------------------------------- MODULE Codec --------------------------------
(***************************************************************************)
(* The wire format of a persisted history (scaling/history/codec.go):      *)
(* version, length and bytes of the spec hash, number of records, and the  *)
(* records in fixed-width big-endian fields.  Floats are their bit         *)
(* patterns, timestamps and replica counts two's complement.  The radix of *)
(* a byte and the field widths are parameters (256; 2, 4; 8, 4, 8, 8, 2).  *)
(***************************************************************************)
EXTENDS Integers, Sequences, SequencesExt

CONSTANTS
  Byte,                             \* the radix, 256
  hashLenSize, countSize,
  timeSize, replicasSize, floatSize, foldedSize,
  Error                             \* what decodeHistory returns for a bad blob

ASSUME CodecAssumption ==
  /\ Byte \in Nat \ {0, 1, 2}
  /\ {hashLenSize, countSize, timeSize, replicasSize, floatSize, foldedSize} \subseteq Nat \ {0}

codecVersion == 2
versionSize == 1
recordSize == timeSize + replicasSize + 2 * floatSize + foldedSize

\* Fixed-width big-endian digits of n % Byte^width, and their value.
Put(n, width) == [i \in 1 .. width |-> (n \div Byte ^ (width - i)) % Byte]
Uint(b, off, width) ==
  FoldLeft(LAMBDA acc, d : acc * Byte + d, 0, SubSeq(b, off + 1, off + width))
Int64(b, off, width) ==
  LET u == Uint(b, off, width) IN IF u >= (Byte ^ width) \div 2 THEN u - Byte ^ width ELSE u

encodeRecord(r) ==
  Put(r.timestamp, timeSize) \o Put(r.replicas, replicasSize) \o Put(r.inflight, floatSize)
    \o Put(r.rate, floatSize) \o Put(r.count, foldedSize)

encodeHistory(specHash, records) ==
  <<codecVersion>> \o Put(Len(specHash), hashLenSize) \o specHash
    \o Put(Len(records), countSize)
    \o FoldLeft(LAMBDA b, r : b \o encodeRecord(r), <<>>, records)

decodeRecord(b, off) ==
  LET o1 == off + timeSize
      o2 == o1 + replicasSize
      o3 == o2 + floatSize
      o4 == o3 + floatSize
  IN [timestamp |-> Int64(b, off, timeSize), replicas |-> Int64(b, o1, replicasSize),
      inflight |-> Uint(b, o2, floatSize), rate |-> Uint(b, o3, floatSize),
      count |-> Uint(b, o4, foldedSize)]

\* What the header says, read as far as the lengths allow.
Header(b) ==
  LET hashLen == Uint(b, versionSize, hashLenSize)
      body    == versionSize + hashLenSize + hashLen + countSize
  IN [hashLen |-> hashLen, body |-> body,
      count |-> IF Len(b) < body THEN 0 ELSE Uint(b, body - countSize, countSize)]

Decoded(b) ==
  [specHash |-> SubSeq(b, versionSize + hashLenSize + 1,
                          versionSize + hashLenSize + Header(b).hashLen),
   records |-> [i \in 1 .. Header(b).count |->
                  decodeRecord(b, Header(b).body + (i - 1) * recordSize)]]

\* Mutant of decodeHistory: trailing bytes are let through.
decodeHistoryLax(b) ==
  IF Len(b) = 0 THEN [specHash |-> <<>>, records |-> <<>>]
  ELSE IF \/ b[1] # codecVersion
          \/ Len(b) < versionSize + hashLenSize
          \/ Len(b) < Header(b).body
          \/ Len(b) < Header(b).body + Header(b).count * recordSize
  THEN Error ELSE Decoded(b)

decodeHistory(b) ==
  IF Len(b) = 0 THEN [specHash |-> <<>>, records |-> <<>>]
  ELSE IF \/ b[1] # codecVersion
          \/ Len(b) < versionSize + hashLenSize
          \/ Len(b) < Header(b).body
          \/ Len(b) # Header(b).body + Header(b).count * recordSize
  THEN Error ELSE Decoded(b)
=============================================================================
