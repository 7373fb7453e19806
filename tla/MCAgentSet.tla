----------------------------- MODULE MCAgentSet -----------------------------
(***************************************************************************)
(* AgentSet for TLC, in three settings.                                    *)
(***************************************************************************)
EXTENDS AgentSet

CONSTANTS a, b

Spec1 == [agents |-> {a}, hash |-> "h1", valid |-> TRUE]

\* An agent leaves and another joins while the entry Service is deleted, calls
\* fail and the controller restarts.
Swap == [specs |-> <<Spec1, [agents |-> {b}, hash |-> "h2", valid |-> TRUE]>>,
         objs |-> <<"entry">>, staleSelf |-> TRUE,
         kinds |-> {"delete", "error", "restart"}, maxFaults |-> 1]

\* An invalid spec comes in between, and children fail.
Mend == [specs |-> <<Spec1, [agents |-> {a, b}, hash |-> "h2", valid |-> FALSE],
                     [agents |-> {a, b}, hash |-> "h3", valid |-> TRUE]>>,
         objs |-> <<>>, staleSelf |-> FALSE, kinds |-> {"child", "restart"}, maxFaults |-> 1]

\* The daemon and its Service follow a changed spec.
Daemon == [specs |-> <<Spec1, [Spec1 EXCEPT !.hash = "h2"]>>,
           objs |-> <<"daemon", "daemonService">>, staleSelf |-> FALSE,
           kinds |-> {}, maxFaults |-> 0]

MCSettings == {Swap, Mend, Daemon}
=============================================================================
