----------------------------- MODULE SseCounter ------------------------------
(***************************************************************************)
(* The events of a server-sent event stream, counted as the response       *)
(* passes through the broker (pkg/broker/sse.go).  The response comes in   *)
(* Writes that may end anywhere, between the bytes of a delimiter too;     *)
(* what follows the last delimiter is carried over to the next Write.      *)
(*                                                                         *)
(* A byte is LF, CR or another one.  The handler wrapped is the reverse    *)
(* proxy of proxy_http.go: it passes on informational headers (1xx) before *)
(* the final one; a handler that never calls WriteHeader writes at once.   *)
(***************************************************************************)
EXTENDS Sequences, Integers

CONSTANTS MaxBytes, MaxWrite      \* bounds on the response and on one Write

VARIABLES
  kind,          \* Content-Type: "unset", "sse" or "other"
  recorder,      \* streamRecorder: [headersSet, sse, carry]
  events,        \* streamMessages
  written        \* every byte written so far

sseVars == <<kind, recorder, events, written>>

LF == 10
CR == 13
Bytes == {LF, CR, 0}

Init ==
  /\ kind = "unset" /\ events = 0 /\ written = <<>>
  /\ recorder = [headersSet |-> FALSE, sse |-> FALSE, carry |-> <<>>]

detectSSE(r, type) == [r EXCEPT !.headersSet = TRUE, !.sse = (type = "sse")]

\* The delimiters LF LF and CR LF CR LF from left to right; the next search
\* begins after the one found.  scan[i] is what the search from i on finds, start
\* being where the remainder begins (0: no delimiter).
splitSSEEvents(buf) ==
  LET n == Len(buf)
      scan[i \in 1 .. n + 2] ==
        LET found(next) == [events |-> scan[next].events + 1,
                            start  |-> IF scan[next].start = 0 THEN next ELSE scan[next].start]
        IN  IF i + 1 > n THEN [events |-> 0, start |-> 0]
            ELSE IF buf[i] = LF /\ buf[i + 1] = LF THEN found(i + 2)
            ELSE IF i + 3 <= n /\ SubSeq(buf, i, i + 3) = <<CR, LF, CR, LF>> THEN found(i + 4)
            ELSE scan[i + 1]
      all == scan[1]
  IN  [events |-> all.events,
       remainder |-> SubSeq(buf, IF all.start = 0 THEN 1 ELSE all.start, n)]

\* What stays of the last Write: all that follows the last delimiter (a recorder
\* that kept one byte would do for LF LF only).
CarryOneByte(r, p) ==
  LET split == splitSSEEvents(r.carry \o p)
      rest  == split.remainder
  IN  [events |-> split.events, carry |-> SubSeq(rest, IF rest = <<>> THEN 1 ELSE Len(rest), Len(rest))]
countEvents(r, p) ==
  LET split == splitSSEEvents(r.carry \o p)
  IN  [events |-> split.events, carry |-> split.remainder]

Responding == kind # "unset"

\* An informational header, before the Content-Type is known.
Inform ==
  /\ ~Responding
  /\ recorder' = detectSSE(recorder, kind)
  /\ UNCHANGED <<kind, events, written>>

\* The header of the response; only a handler that informed nobody may leave
\* the call of WriteHeader to the first Write.
WriteHeader ==
  /\ ~Responding
  /\ kind' \in {"sse", "other"}
  /\ \/ recorder' = detectSSE(recorder, kind')
     \/ ~recorder.headersSet /\ UNCHANGED recorder
  /\ UNCHANGED <<events, written>>

Write ==
  /\ Responding
  /\ \E size \in 1 .. MaxWrite : \E p \in [1 .. size -> Bytes] :
       LET r == IF recorder.headersSet THEN recorder ELSE detectSSE(recorder, kind)
           c == countEvents(r, p)
       IN  /\ Len(written) + size <= MaxBytes
           /\ written' = written \o p
           /\ IF r.sse
              THEN recorder' = [r EXCEPT !.carry = c.carry] /\ events' = events + c.events
              ELSE recorder' = r /\ UNCHANGED events
  /\ UNCHANGED kind

Next == Inform \/ WriteHeader \/ Write

\* The bound on the response is reached.
Done == Len(written) = MaxBytes /\ UNCHANGED sseVars

-----------------------------------------------------------------------------
(* Properties *)

\* An event stream counts as many events as if it had come in a single Write,
\* wherever the Writes end and whether or not an informational header came
\* first; another response counts none (streamRecorder).
Exact ==
  IF kind = "sse"
  THEN LET whole == splitSSEEvents(written)
       IN  events = whole.events /\ recorder.carry = whole.remainder
  ELSE events = 0
=============================================================================
