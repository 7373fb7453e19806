------------------------------ MODULE WireFormat ------------------------------
(***************************************************************************)
(* The protobuf encoding of the API types (generated.pb.go): the byte      *)
(* format shared by the generated functions, driven by the tables of       *)
(* WireTables.  A value maps every field of the Go struct to the sequence  *)
(* of what it holds (one for a plain field, at most one for a pointer, the *)
(* elements of a slice), or to the set of the pairs of a map.  A string is *)
(* its bytes, an embedded message the bytes of its own encoding.  Integers *)
(* are those of 32 bits; a negative one is sign-extended to 64.            *)
(***************************************************************************)
EXTENDS ApiTypes, WireTables, Integers, Sequences, FiniteSets
LOCAL INSTANCE FiniteSetsExt
LOCAL INSTANCE SequencesExt

-----------------------------------------------------------------------------
(* Varints *)

\* How many bytes a varint takes (sovGenerated).
sovGenerated(x) == IF x < 0 THEN 10 ELSE 1 + Cardinality({n \in 1 .. 4 : x >= 128^n})

\* The n-th group of seven bits of a number, counted from 0.
Group(x, n) == IF n > 4 THEN 127 ELSE (x \div 128^n) % 128

encodeVarintGenerated(x) ==
  [i \in 1 .. sovGenerated(x) |->
     IF i < sovGenerated(x) THEN 128 + Group(x, i - 1)
     ELSE IF x < 0 THEN 1 ELSE Group(x, i - 1)]

Failed == [ok |-> FALSE]

\* The first n bytes of b as a number, of which an int32 keeps 32 bits.
VarintOf(b, n) ==
  LET bits(i) == IF i <= n THEN b[i] % 128 ELSE 0
      high == bits(5) % 16
  IN  bits(1) + 128 * bits(2) + 128^2 * bits(3) + 128^3 * bits(4)
        + 128^4 * (IF high >= 8 THEN high - 16 ELSE high)

\* Reads a varint off the front of b: it fails at the end of the buffer and
\* after ten bytes.
ReadVarint(b) ==
  LET ends == {i \in 1 .. Len(b) : i <= 10 /\ b[i] < 128}
      upto(n) == [ok |-> TRUE, value |-> VarintOf(b, n), rest |-> SubSeq(b, n + 1, Len(b))]
  IN  IF ends = {} THEN Failed ELSE upto(Min(ends))

-----------------------------------------------------------------------------
(* Marshal and Size *)

Varint(kind) == kind \in {"int", "oint", "bool", "obool"}
Delimited(bytes) == encodeVarintGenerated(Len(bytes)) \o bytes

\* The order of sort.Strings on the keys of two pairs.
KeyLess(p, q) ==
  LET k == p[1]
      l == q[1]
      differ == {i \in 1 .. Len(k) : i > Len(l) \/ k[i] # l[i]}
  IN  IF differ = {} THEN Len(k) < Len(l)
      ELSE LET i == Min(differ) IN i <= Len(l) /\ k[i] < l[i]

Occurrences(kind, held) == IF kind = "map" THEN SetToSortSeq(held, KeyLess) ELSE held

MapEntry(pair) == <<10>> \o Delimited(pair[1]) \o <<18>> \o Delimited(pair[2])

Payload(kind, p) ==
  IF Varint(kind) THEN encodeVarintGenerated(p)
  ELSE Delimited(IF kind = "map" THEN MapEntry(p) ELSE p)

FieldBytes(num, kind, held) ==
  LET all == Occurrences(kind, held)
      tag == <<8 * num + (IF Varint(kind) THEN 0 ELSE 2)>>
  IN  FlattenSeq([i \in DOMAIN all |-> tag \o Payload(kind, all[i])])

Encoding(table, v) ==
  FlattenSeq([i \in DOMAIN table |-> FieldBytes(table[i][1], table[i][2], v[table[i][3]])])

LengthSize(n) == 1 + n + sovGenerated(n)

PayloadSize(kind, p) ==
  IF kind \in {"bool", "obool"} THEN 2
  ELSE IF Varint(kind) THEN 1 + sovGenerated(p)
  ELSE LengthSize(IF kind = "map" THEN LengthSize(Len(p[1])) + LengthSize(Len(p[2])) ELSE Len(p))

Size(table, v) ==
  LET total(kind, held) ==
        FoldSeq(LAMBDA p, n : n + PayloadSize(kind, p), 0, Occurrences(kind, held))
  IN  FoldSeq(LAMBDA f, n : n + total(f[1], v[f[2]]), 0, table)

\* A buffer of Size bytes is filled from its end and its first n bytes are
\* returned, n being the number written.  A buffer too short is a panic.
Marshal(type, v) ==
  LET bytes == Encoding(Marshals[type], v)
      spare == Size(Sizes[type], v) - Len(bytes)
  IN  IF spare < 0 THEN Failed
      ELSE [ok |-> TRUE,
            bytes |-> SubSeq([i \in 1 .. spare |-> 0] \o bytes, 1, Len(bytes))]

-----------------------------------------------------------------------------
(* Unmarshal *)

Drop(b, n) == IF n > Len(b) THEN Failed ELSE [ok |-> TRUE, rest |-> SubSeq(b, n + 1, Len(b))]

\* A length and that many bytes.
ReadBytes(b) ==
  LET after(size) ==
        IF ~size.ok \/ size.value < 0 \/ size.value > Len(size.rest) THEN Failed
        ELSE [ok |-> TRUE, value |-> SubSeq(size.rest, 1, size.value),
              rest |-> SubSeq(size.rest, size.value + 1, Len(size.rest))]
  IN  after(ReadVarint(b))

\* What comes after a tag of each wire type; a group begins or ends with its tag.
SkipBody(tag) ==
  LET wireType == tag.value % 8
  IN  CASE wireType = 0 -> ReadVarint(tag.rest)
        [] wireType = 1 -> Drop(tag.rest, 8)
        [] wireType = 2 -> ReadBytes(tag.rest)
        [] wireType \in {3, 4} -> tag
        [] wireType = 5 -> Drop(tag.rest, 4)
        [] OTHER -> Failed

\* Skips one field, a group with all it holds.
RECURSIVE skipGenerated(_, _)
skipGenerated(b, depth) ==
  LET group(wireType) == IF wireType = 3 THEN 1 ELSE IF wireType = 4 THEN -1 ELSE 0
      on(field, left) ==
        IF ~field.ok \/ left < 0 THEN Failed
        ELSE IF left = 0 THEN [ok |-> TRUE, rest |-> field.rest]
        ELSE skipGenerated(field.rest, left)
      after(tag) == IF ~tag.ok THEN Failed ELSE on(SkipBody(tag), depth + group(tag.value % 8))
  IN  after(ReadVarint(b))

\* One map entry: the bytes of b down to the last `after` ones are its fields.
\* A key or a value may be read past the end of the entry, a skipped field not.
RECURSIVE ReadEntry(_, _, _)
ReadEntry(b, after, pair) ==
  LET set(num, text) ==
        IF text.ok THEN ReadEntry(text.rest, after, [pair EXCEPT ![num] = text.value]) ELSE Failed
      skip(skipped) ==
        IF ~skipped.ok THEN Failed
        ELSE IF Len(skipped.rest) < after THEN Failed
        ELSE ReadEntry(skipped.rest, after, pair)
      from(tag) ==
        IF ~tag.ok THEN Failed
        ELSE IF tag.value \div 8 \in {1, 2} THEN set(tag.value \div 8, ReadBytes(tag.rest))
        ELSE skip(skipGenerated(b, 0))
  IN  IF Len(b) <= after THEN [ok |-> TRUE, value |-> pair] ELSE from(ReadVarint(b))

\* What a field holds after one more occurrence of it has been read.
Merge(kind, held, p) ==
  CASE kind \in {"strs", "msgs"} -> Append(held, p)
    [] kind = "msg" \/ (kind = "omsg" /\ held # <<>>) -> <<held[1] \o p>>
    [] kind = "map" -> {q \in held : q[1] # p[1]} \cup {p}
    [] kind \in {"bool", "obool"} -> <<IF p = 0 THEN 0 ELSE 1>>
    [] OTHER -> <<p>>

\* The occurrence of a field of this kind at the front of b.
ReadField(kind, b) ==
  LET entry(bytes) == ReadEntry(ReadVarint(b).rest, Len(bytes.rest), <<<<>>, <<>>>>)
      valued(bytes, e) == IF e.ok THEN [bytes EXCEPT !.value = e.value] ELSE Failed
      read(bytes) == IF ~bytes.ok \/ kind # "map" THEN bytes ELSE valued(bytes, entry(bytes))
  IN  IF Varint(kind) THEN ReadVarint(b) ELSE read(ReadBytes(b))

RECURSIVE Unmarshal(_, _, _)
Unmarshal(table, v, b) ==
  LET skip(skipped) == IF skipped.ok THEN Unmarshal(table, v, skipped.rest) ELSE Failed
      store(case, field) ==
        IF ~field.ok THEN Failed
        ELSE Unmarshal(table, [v EXCEPT ![case[3]] = Merge(case[2], @, field.value)], field.rest)
      known(case, tag) ==
        IF tag.value % 8 # (IF Varint(case[2]) THEN 0 ELSE 2) THEN Failed
        ELSE store(case, ReadField(case[2], tag.rest))
      from(tag, cases) ==
        IF ~tag.ok THEN Failed
        ELSE IF tag.value % 8 = 4 \/ tag.value \div 8 <= 0 THEN Failed
        ELSE IF cases = {} THEN skip(skipGenerated(b, 0))
        ELSE known(CHOOSE f \in cases : TRUE, tag)
      field(tag) == from(tag, {f \in table : f[1] = tag.value \div 8})
  IN  IF b = <<>> THEN [ok |-> TRUE, value |-> v] ELSE field(ReadVarint(b))

\* The zero value of a Go field, and of a struct.
Number(t) == t \in {"bool", "int32", "uint32", "int64"}
Zero(field) ==
  CASE field.shape = "val" -> IF Number(field.of) THEN <<0>> ELSE <<<<>>>>
    [] field.shape = "map" -> {}
    [] OTHER -> <<>>
ZeroOf(type) == [f \in DOMAIN Types[type] |-> Zero(Types[type][f])]

Decoded(type, b) == Unmarshal(Unmarshals[type], ZeroOf(type), b)
==============================================================================
