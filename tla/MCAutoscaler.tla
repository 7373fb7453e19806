---------------------------- MODULE MCAutoscaler ----------------------------
(***************************************************************************)
(* Autoscaling, for TLC: the loop from sample to patch, between two ranges *)
(* that users switch, and the ring of samples under the load history.  The *)
(* loop trusts a knee that is known, so each behaviour exercises one part, *)
(* while the other stays as it begins.                                     *)
(***************************************************************************)
EXTENDS Autoscaler

CONSTANTS maxAge, maxRecords, MaxTime, MaxAdds

ASSUME RingAssumption ==
  maxAge \in Nat /\ maxRecords \in Nat /\ MaxTime \in Nat /\ MaxAdds \in Nat

OneRange == {[min |-> 1, max |-> 4]}
TwoRanges == {[min |-> 1, max |-> 4], [min |-> 3, max |-> 4]}

VARIABLES part, now, records, saved, log, savedLog

Ring == INSTANCE HistoryBuffer

ringVars == <<now, records, saved, log, savedLog>>
mcVars == <<part, vars, ringVars>>

MCInit ==
  /\ part \in {"loop", "ring"}
  /\ Init /\ Ring!Init
  /\ part # "loop" => load = 0 /\ range.min = 1

Loop(step) == part = "loop" /\ step /\ UNCHANGED <<part, ringVars>>

MCNext == Loop(Next) \/ (part = "ring" /\ Ring!Next /\ UNCHANGED <<part, vars>>)

\* The fairness of Autoscaler.
MCSpec ==
  /\ MCInit /\ [][MCNext]_mcVars
  /\ WF_mcVars(Loop(Tick)) /\ WF_mcVars(Loop(Reconcile)) /\ WF_mcVars(Loop(PodChanges))
  /\ WF_mcVars(Loop(RolloutEnds)) /\ WF_mcVars(Loop(collectSample))
  /\ SF_mcVars(Loop(\E w \in Workers : scaleKey(w)))
  /\ \A w \in Workers : WF_mcVars(Loop(applyReplicas(w)))

-----------------------------------------------------------------------------
(* Properties: those of the parts, whose comments say what they are about. *)

\* Under a load that stays the fleet settles at the size the load asks for.
FleetSized == part = "loop" => EventuallySized

\* Counts stay in range and the ring within its size, and a reader of the ring
\* gets the newest samples that are not too old.
ReadsNewest == TypeOK /\ Ring!TypeOK /\ Ring!ReadsNewest
=============================================================================
