---------------------------- MODULE StabilityGate ----------------------------
(***************************************************************************)
(* The stability gate of the daemon (pkg/daemon/server/rater,              *)
(* gatedHash.observe): the hash of a peer's AgentCard is accepted after it *)
(* was seen on StabilityWindow polls in a row.  Hashes are the cards they  *)
(* are computed from; failed polls never reach the gate.                   *)
(***************************************************************************)
EXTENDS Integers

CONSTANTS
  Cards,            \* the cards a peer may serve
  None,             \* no card: not resolved, not observed, not accepted
  StabilityWindow   \* Options.StabilityWindow

ASSUME GateAssumption == None \notin Cards /\ StabilityWindow \in Nat \ {0}

gatedHash == [accepted : Cards \cup {None}, pending : Cards \cup {None},
              pendingCount : 0 .. StabilityWindow - 1]

noGate == [accepted |-> None, pending |-> None, pendingCount |-> 0]

\* Mutant of observe: a bounce through the accepted hash keeps the count.
observeNoReset(g, hash) ==
  IF hash = g.accepted THEN g
  ELSE LET count == IF hash = g.pending THEN g.pendingCount + 1 ELSE 1
       IN  IF count >= StabilityWindow
           THEN [noGate EXCEPT !.accepted = hash]
           ELSE [g EXCEPT !.pending = hash, !.pendingCount = count]

\* Mutant of observe: the first accepted hash stays.
observeOnce(g, hash) ==
  IF hash = g.accepted \/ g.accepted # None
  THEN [noGate EXCEPT !.accepted = g.accepted]
  ELSE LET count == IF hash = g.pending THEN g.pendingCount + 1 ELSE 1
       IN  IF count >= StabilityWindow
           THEN [noGate EXCEPT !.accepted = hash]
           ELSE [g EXCEPT !.pending = hash, !.pendingCount = count]

observe(g, hash) ==
  IF hash = g.accepted THEN [noGate EXCEPT !.accepted = g.accepted]
  ELSE LET count == IF hash = g.pending THEN g.pendingCount + 1 ELSE 1
       IN  IF count >= StabilityWindow
           THEN [noGate EXCEPT !.accepted = hash]
           ELSE [g EXCEPT !.pending = hash, !.pendingCount = count]
=============================================================================
