------------------------------ MODULE MCHistory ------------------------------
(***************************************************************************)
(* The load history, for TLC.  Each behaviour exercises one part of it:    *)
(* "race", where two workers take the same key and a rollout comes in      *)
(* between, with the history of an earlier leader to load; "restart",      *)
(* where leaders stop, crash and take over and records grow old; and       *)
(* "recreate", where the AgentDeploy is deleted and created again.  Only   *)
(* the first has two workers, and only in the last does the cache lag: in  *)
(* the others it follows every write at once.                              *)
(***************************************************************************)
EXTENDS History

CONSTANT First   \* a worker

VARIABLE part

mcVars == <<vars, part>>

Active == IF part = "race" THEN Workers ELSE {First}

\* Idle workers are alike: the first of them takes the key.
Takes(w) == (w = First \/ thread[First] # idle) /\ Get(w)

\* A step of the part that is exercised.
In(parts, step) ==
  /\ part \in parts /\ step /\ UNCHANGED part
  /\ part # "recreate" => current \/ current'
  /\ part # "restart" => UNCHANGED loadFails

All == {"race", "restart", "recreate"}

MCInit == Init /\ part \in All /\ (part = "race" <=> cm # None)

MCNext ==
  \/ In(All, Reconcile \/ Rollout \/ Sync)
  \/ In(All, \E w \in Active : Takes(w) \/ Proceed(w) \/ Flush(w))
  \/ In({"restart"}, Tick \/ History \/ Stop \/ Restart \/ Flush(Closer))
  \/ In({"recreate"}, Delete \/ Create \/ Collect)

\* The fairness of History.
MCSpec ==
  /\ MCInit /\ [][MCNext]_mcVars
  /\ SF_mcVars(In({"restart"}, Tick)) /\ WF_mcVars(In({"restart"}, stopping /\ Restart))
  /\ WF_mcVars(In(All, Reconcile)) /\ WF_mcVars(In(All, Sync))
  /\ WF_mcVars(In(All, \E w \in Active : Takes(w) \/ Proceed(w) \/ Flush(w)))
  /\ SF_mcVars(In(All, \E w \in Active : RecordHash(w)))
  /\ SF_mcVars(In(All, \E w \in Active : FlushHash(w)))
  /\ SF_mcVars(In(All, \E w \in Active : Reads(w)))
  /\ SF_mcVars(In(All, \E w \in Active : Writes(w)))
=============================================================================
