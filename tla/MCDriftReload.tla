---------------------------- MODULE MCDriftReload ----------------------------
(***************************************************************************)
(* DriftReload for TLC, in two settings of its constants over the same     *)
(* variables: two slots whose pods vanish at once, without failures        *)
(* ("smooth"), and one slot whose pods are seen terminating, where calls   *)
(* fail and containers and the daemon restart ("rough").                   *)
(***************************************************************************)
EXTENDS DriftReload

VARIABLE setting

Rough == INSTANCE DriftReload WITH MaxReplicas <- 1, Lingering <- TRUE, MaxFaults <- 1

mcVars == <<vars, setting>>
In(s, step) == setting = s /\ step /\ UNCHANGED setting

MCInit ==
  \/ setting = "smooth" /\ Init
  \/ setting = "rough" /\ Rough!Init

MCNext == In("smooth", Next) \/ In("rough", Rough!Next)

\* The fairness of DriftReload in both settings; a behaviour stays in one of them.
Either(smooth, rough) == In("smooth", smooth) \/ In("rough", rough)

MCSpec ==
  /\ MCInit /\ [][MCNext]_mcVars
  /\ \A p \in Peers : WF_mcVars(Either(PeerSettlesSomehow(p), Rough!PeerSettlesSomehow(p)))
  /\ WF_mcVars(Either(Controller, Rough!Controller)) /\ WF_mcVars(Either(Kubelet, Rough!Kubelet))
  /\ WF_mcVars(Either(Daemon, Rough!Daemon)) /\ WF_mcVars(Either(Watcher, Rough!Watcher))

-----------------------------------------------------------------------------
(* Properties: those of DriftReload, in both settings unless said otherwise. *)

\* Every pod comes to hold the current cards of its peers, the watcher then stops
\* deleting, and without failures the reports of pods that are gone leave the
\* cache.
DriftSettles == <>[]Settled(setting = "smooth")
=============================================================================
