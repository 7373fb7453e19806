---------------------------- MODULE MCAgentDeploy ----------------------------
(***************************************************************************)
(* Instances of AgentDeploy for TLC.                                       *)
(***************************************************************************)
EXTENDS AgentDeploy

FixedSpec(h, n, mu) ==
  [hash |-> h, replicas |-> n, maxUnavailable |-> [percent |-> FALSE, value |-> mu],
   scale |-> [disabled |-> TRUE, min |-> Nil, max |-> Nil]]

\* An edit between these two rolls the hash and moves the window as well.
RollAndScale == {FixedSpec("h1", 2, 1), FixedSpec("h2", 1, 1)}

FourNames == 1 .. 4
=============================================================================
