------------------------------- MODULE DeepCopy -------------------------------
(***************************************************************************)
(* DeepCopyInto of every API type.  Each begins with *out = *in and then   *)
(* gives some fields memory of their own; its table says which, and how:   *)
(*   deep   the value, or the value of a new pointer, by its DeepCopyInto  *)
(*   new    a new pointer to an assigned value                             *)
(*   each   a new slice, each element by its DeepCopyInto                  *)
(*   copy   a new slice, each element assigned                             *)
(*   map    a new map of strings                                           *)
(***************************************************************************)
EXTENDS ApiTypes

\* Mutant: the slice is copied, its elements are assigned.
AbstractAgentDeployCopyShallow ==
  {<<"AbstractPodTemplate","deep">>, <<"Container","deep">>, <<"InitContainer","deep">>,
   <<"BrokerContainer","deep">>, <<"Volumes","each">>, <<"Scale","deep">>,
   <<"RateLimit","deep">>, <<"InitContainers","each">>, <<"Sidecars","copy">>,
   <<"UpdateStrategy","deep">>, <<"DriftReload","deep">>}
AbstractAgentDeployCopy ==
  {<<"AbstractPodTemplate","deep">>, <<"Container","deep">>, <<"InitContainer","deep">>,
   <<"BrokerContainer","deep">>, <<"Volumes","each">>, <<"Scale","deep">>,
   <<"RateLimit","deep">>, <<"InitContainers","each">>, <<"Sidecars","each">>,
   <<"UpdateStrategy","deep">>, <<"DriftReload","deep">>}
AbstractPodTemplateCopy ==
  {<<"Metadata","deep">>, <<"NodeSelector","map">>, <<"Tolerations","each">>,
   <<"SecurityContext","deep">>, <<"ImagePullSecrets","copy">>, <<"Priority","new">>,
   <<"Affinity","deep">>, <<"RuntimeClassName","new">>,
   <<"AutomountServiceAccountToken","new">>, <<"DNSConfig","deep">>,
   <<"ResourceClaims","each">>, <<"TerminationGracePeriodSeconds","new">>}
AgentDeployCopy == {<<"ObjectMeta","deep">>, <<"Spec","deep">>, <<"Status","deep">>}
AgentDeployListCopy == {<<"ListMeta","deep">>, <<"Items","each">>}
AgentDeploySpecCopy ==
  {<<"AbstractAgentDeploy","deep">>, <<"Replicas","new">>, <<"Topology","deep">>}
AgentDeployStatusCopy == {<<"Status","deep">>, <<"LastScaledAt","deep">>}
AgentDeployTemplateCopy ==
  {<<"AbstractPodTemplate","deep">>, <<"InitContainer","deep">>, <<"BrokerContainer","deep">>}
AgentSetCopy == {<<"ObjectMeta","deep">>, <<"Spec","deep">>, <<"Status","deep">>}
AgentSetListCopy == {<<"ListMeta","deep">>, <<"Items","each">>}
AgentSetSpecCopy ==
  {<<"Agents","each">>, <<"Templates","deep">>, <<"ExternalAgents","copy">>,
   <<"DriftReload","deep">>}
AgentSetStatusCopy ==
  {<<"Status","deep">>, <<"LastUpdated","deep">>, <<"AgentCount","new">>,
   <<"ExternalAgentCount","new">>}
ContainerCopy ==
  {<<"Command","copy">>, <<"Args","copy">>, <<"Env","each">>, <<"EnvFrom","each">>,
   <<"VolumeMounts","each">>, <<"Resources","deep">>, <<"SecurityContext","deep">>,
   <<"ImagePullPolicy","new">>, <<"ReadinessProbe","deep">>, <<"LivenessProbe","deep">>,
   <<"StartupProbe","deep">>, <<"Ports","copy">>}
ContainerTemplateCopy ==
  {<<"Resources","deep">>, <<"SecurityContext","deep">>, <<"Env","each">>, <<"EnvFrom","each">>}
DaemonTemplateCopy == {<<"AbstractPodTemplate","deep">>, <<"Container","deep">>}
DriftReloadCopy == {<<"Enabled","new">>}
ExternalAgentRefCopy == {}
MetadataCopy == {<<"Annotations","map">>, <<"Labels","map">>}
PeerCopy == {}
ProbeCopy ==
  {<<"InitialDelaySeconds","new">>, <<"TimeoutSeconds","new">>, <<"PeriodSeconds","new">>,
   <<"SuccessThreshold","new">>, <<"FailureThreshold","new">>}
RateLimitCopy == {<<"MaxInFlight","new">>}
RollingUpdateStrategyCopy == {<<"MaxUnavailable","new">>}
ScaleCopy ==
  {<<"Min","new">>, <<"Max","new">>, <<"TargetSaturationPercentage","new">>,
   <<"ScaleUpCooldownSeconds","new">>, <<"ScaleDownCooldownSeconds","new">>,
   <<"ReplicasPerScaleUp","new">>, <<"ReplicasPerScaleDown","new">>}
StatusCopy == {<<"Conditions","each">>}
TemplatesCopy == {<<"AgentDeployTemplate","deep">>, <<"DaemonTemplate","deep">>}
TopologyCopy == {<<"Peers","copy">>}
UpdateStrategyCopy == {<<"RollingUpdate","deep">>}

Copies ==
  [AbstractAgentDeploy |-> AbstractAgentDeployCopy,
   AbstractPodTemplate |-> AbstractPodTemplateCopy, AgentDeploy |-> AgentDeployCopy,
   AgentDeployList |-> AgentDeployListCopy, AgentDeploySpec |-> AgentDeploySpecCopy,
   AgentDeployStatus |-> AgentDeployStatusCopy, AgentDeployTemplate |-> AgentDeployTemplateCopy,
   AgentSet |-> AgentSetCopy, AgentSetList |-> AgentSetListCopy,
   AgentSetSpec |-> AgentSetSpecCopy, AgentSetStatus |-> AgentSetStatusCopy,
   Container |-> ContainerCopy, ContainerTemplate |-> ContainerTemplateCopy,
   DaemonTemplate |-> DaemonTemplateCopy, DriftReload |-> DriftReloadCopy,
   ExternalAgentRef |-> ExternalAgentRefCopy, Metadata |-> MetadataCopy, Peer |-> PeerCopy,
   Probe |-> ProbeCopy, RateLimit |-> RateLimitCopy,
   RollingUpdateStrategy |-> RollingUpdateStrategyCopy, Scale |-> ScaleCopy,
   Status |-> StatusCopy, Templates |-> TemplatesCopy, Topology |-> TopologyCopy,
   UpdateStrategy |-> UpdateStrategyCopy]

(***************************************************************************)
(* A walk from a copied object down one path of fields: the type reached,  *)
(* whether it was copied by its DeepCopyInto or assigned, and whether the  *)
(* memory it lies in belongs to the copy.                                  *)
(***************************************************************************)
Copied(t) == [type |-> t, deep |-> TRUE, own |-> TRUE]

\* Types of the libraries that hold no pointer, slice or map.
Flat == {"string", "bool", "int32", "uint32", "int64", "LocalObjectReference",
         "ContainerPort", "IntOrString"}

Into(w, f) ==
  LET field == Types[w.type][f]
      how == {h \in {"deep", "new", "each", "copy", "map"} :
                w.deep /\ <<f, h>> \in Copies[w.type]}
  IN  [type |-> field.of,
       deep |-> how \cap {"deep", "each"} # {},
       own  |-> w.own /\ (how # {} \/ field.shape = "val")]

\* An assigned value of a library type shares whatever that type refers to.
OwnMemory(w) == w.own /\ (w.deep \/ w.type \in Flat \cup DOMAIN Types)
==============================================================================
