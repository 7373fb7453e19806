--------------------------- MODULE PeerHashesFile ----------------------------
(***************************************************************************)
(* The broker's cache of the peer-hashes file (pkg/broker,                 *)
(* readPeerHashes), read by concurrent /introspect requests while the      *)
(* agent SDK rewrites the file.                                            *)
(*                                                                         *)
(* The contents of a write are its number, so a later write is a larger    *)
(* number.  Modification times are those of a clock that may stand still   *)
(* between two writes.  A request stats the file, then takes the lock and  *)
(* serves the cache or reads: one step each, the lock being held all       *)
(* through the second.  A file caught half-written does not decode.        *)
(***************************************************************************)
EXTENDS Integers, Sequences

CONSTANTS
  Requests,   \* handlers at work at the same time
  MaxWrites,  \* bound: writes of the SDK
  MaxServed,  \* bound: requests served
  None        \* no file, nothing cached, no reply

VARIABLES
  file,     \* number, time and validity of the contents, or None
  times,    \* the modification time of every write so far
  clock,
  cache,    \* peerHashesCache: modTime and hashes
  request,  \* per handler: where it is, what it saw, what it replied
  served

vars == <<file, times, clock, cache, request, served>>

Writes == 1 .. MaxWrites
File   == [number : Writes, modTime : 0 .. MaxWrites, valid : BOOLEAN]

TypeOK ==
  /\ file \in File \cup {None}
  /\ clock \in 0 .. MaxWrites
  /\ times \in Seq(0 .. clock) /\ Len(times) <= MaxWrites
  /\ cache \in [modTime : 0 .. clock, hashes : Writes \cup {None}]
  /\ \A r \in Requests :
       /\ request[r].pc \in {"idle", "stat"}
       /\ request[r].info \in File \cup {None}
       /\ request[r].reply \in Writes \cup {0, None}

-----------------------------------------------------------------------------
(* The SDK *)

Tick ==
  /\ clock < MaxWrites
  /\ clock' = clock + 1
  /\ UNCHANGED <<file, times, cache, request, served>>

Write(valid) ==
  /\ Len(times) < MaxWrites
  /\ times' = Append(times, clock)
  /\ file' = [number |-> Len(times'), modTime |-> clock, valid |-> valid]
  /\ UNCHANGED <<clock, cache, request, served>>

Remove ==
  /\ file # None /\ file' = None
  /\ UNCHANGED <<times, clock, cache, request, served>>

-----------------------------------------------------------------------------
(* The handlers; an empty map is the reply 0, an error the reply None *)

Replies(r, reply) ==
  /\ request' = [request EXCEPT ![r].pc = "idle", ![r].reply = reply]
  /\ served' = served + 1

\* os.Stat: a missing file is an empty map.
Stat(r) ==
  /\ request[r].pc = "idle" /\ served < MaxServed
  /\ \/ /\ file = None
        /\ request' = [request EXCEPT ![r].info = None, ![r].reply = 0]
        /\ served' = served + 1
     \/ /\ file # None
        /\ request' = [request EXCEPT ![r] = [pc |-> "stat", info |-> file,
                                              reply |-> None]]
        /\ UNCHANGED served
  /\ UNCHANGED <<file, times, clock, cache>>

Cached(r) ==
  cache.hashes # None /\ cache.modTime = request[r].info.modTime

\* Mutant of Filled: the time is taken after the contents were read.
FilledLate(r) == [modTime |-> file.modTime, hashes |-> request[r].info.number]

\* The time of the stat with the contents of the read.
Filled(r) == [modTime |-> request[r].info.modTime, hashes |-> file.number]

\* readPeerHashes from the lock on.
Serve(r) ==
  /\ request[r].pc = "stat"
  /\ \/ /\ Cached(r)
        /\ Replies(r, cache.hashes) /\ UNCHANGED cache
     \/ /\ ~Cached(r) /\ file = None
        /\ Replies(r, 0) /\ UNCHANGED cache
     \/ /\ ~Cached(r) /\ file # None /\ ~file.valid
        /\ Replies(r, None) /\ UNCHANGED cache
     \/ /\ ~Cached(r) /\ file # None /\ file.valid
        /\ cache' = Filled(r)
        /\ Replies(r, cache'.hashes)
  /\ UNCHANGED <<file, times, clock>>

Init ==
  /\ file = None /\ times = <<>> /\ clock = 0 /\ served = 0
  /\ cache = [modTime |-> 0, hashes |-> None]
  /\ request = [r \in Requests |-> [pc |-> "idle", info |-> None, reply |-> None]]

Next ==
  \/ Tick \/ Remove \/ \E valid \in BOOLEAN : Write(valid)
  \/ \E r \in Requests : Stat(r) \/ Serve(r)

Done == served >= MaxServed /\ (\A r \in Requests : request[r].pc = "idle") /\ UNCHANGED vars

Spec == Init /\ [][Next \/ Done]_vars

-----------------------------------------------------------------------------
(* Properties *)

\* No request is answered with hashes older, by the file's clock, than the
\* file was when the request came in, and the cache never carries the time
\* of a newer file than its contents: a burst of requests around a write
\* cannot pin outdated hashes (mtime check and fill of readPeerHashes).
ReplyCurrent ==
  /\ cache.hashes # None => times[cache.hashes] >= cache.modTime
  /\ \A r \in Requests :
       (request[r].reply \in Writes /\ request[r].info # None) =>
         times[request[r].reply] >= request[r].info.modTime
=============================================================================
