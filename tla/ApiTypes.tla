------------------------------- MODULE ApiTypes -------------------------------
(***************************************************************************)
(* The Go structs of the v1alpha1 API: the name, shape and element type of *)
(* every field that is serialised (TypeMeta is not).  Named string types   *)
(* (phases, patterns, pull policies) are strings; types of the Kubernetes  *)
(* libraries are only named.                                               *)
(***************************************************************************)

Val(t)  == [shape |-> "val", of |-> t]
Ptr(t)  == [shape |-> "ptr", of |-> t]
List(t) == [shape |-> "list", of |-> t]
StrMap  == [shape |-> "map", of |-> "string"]

AbstractAgentDeployFields ==
  [Name |-> Val("string"), AbstractPodTemplate |-> Val("AbstractPodTemplate"),
   Container |-> Ptr("Container"), InitContainer |-> Ptr("ContainerTemplate"),
   BrokerContainer |-> Ptr("ContainerTemplate"), Volumes |-> List("Volume"),
   Scale |-> Val("Scale"), RateLimit |-> Ptr("RateLimit"),
   InitContainers |-> List("corev1Container"), Sidecars |-> List("corev1Container"),
   UpdateStrategy |-> Val("UpdateStrategy"), PublicBaseURL |-> Val("string"),
   DriftReload |-> Ptr("DriftReload")]
AbstractPodTemplateFields ==
  [Metadata |-> Ptr("Metadata"), NodeSelector |-> StrMap, Tolerations |-> List("Toleration"),
   SecurityContext |-> Ptr("PodSecurityContext"),
   ImagePullSecrets |-> List("LocalObjectReference"), PriorityClassName |-> Val("string"),
   Priority |-> Ptr("int32"), Affinity |-> Ptr("Affinity"),
   ServiceAccountName |-> Val("string"), RuntimeClassName |-> Ptr("string"),
   AutomountServiceAccountToken |-> Ptr("bool"), DNSPolicy |-> Val("string"),
   DNSConfig |-> Ptr("PodDNSConfig"), ResourceClaims |-> List("PodResourceClaim"),
   TerminationGracePeriodSeconds |-> Ptr("int64")]
AgentDeployFields ==
  [ObjectMeta |-> Val("ObjectMeta"), Spec |-> Val("AgentDeploySpec"),
   Status |-> Val("AgentDeployStatus")]
AgentDeployListFields == [ListMeta |-> Val("ListMeta"), Items |-> List("AgentDeploy")]
AgentDeploySpecFields ==
  [AbstractAgentDeploy |-> Val("AbstractAgentDeploy"), AgentSetName |-> Val("string"),
   Replicas |-> Ptr("int32"), Topology |-> Val("Topology")]
AgentDeployStatusFields ==
  [Status |-> Val("Status"), Phase |-> Val("string"), Replicas |-> Val("uint32"),
   DesiredReplicas |-> Val("uint32"), Selector |-> Val("string"), Reason |-> Val("string"),
   Message |-> Val("string"), LastScaledAt |-> Val("Time"), ObservedGeneration |-> Val("int64"),
   ReadyReplicas |-> Val("uint32"), UpdatedReplicas |-> Val("uint32"),
   UpdatedReadyReplicas |-> Val("uint32"), CurrentHash |-> Val("string"),
   UpdateHash |-> Val("string")]
AgentDeployTemplateFields ==
  [AbstractPodTemplate |-> Val("AbstractPodTemplate"),
   InitContainer |-> Ptr("ContainerTemplate"), BrokerContainer |-> Ptr("ContainerTemplate")]
AgentSetFields ==
  [ObjectMeta |-> Val("ObjectMeta"), Spec |-> Val("AgentSetSpec"),
   Status |-> Val("AgentSetStatus")]
AgentSetListFields == [ListMeta |-> Val("ListMeta"), Items |-> List("AgentSet")]
AgentSetSpecFields ==
  [Pattern |-> Val("string"), Entry |-> Val("string"), Agents |-> List("AbstractAgentDeploy"),
   Templates |-> Ptr("Templates"), ExternalAgents |-> List("ExternalAgentRef"),
   DriftReload |-> Ptr("DriftReload")]
AgentSetStatusFields ==
  [Status |-> Val("Status"), Phase |-> Val("string"), Message |-> Val("string"),
   LastUpdated |-> Val("Time"), AgentCount |-> Ptr("uint32"),
   ExternalAgentCount |-> Ptr("uint32"), ObservedGeneration |-> Val("int64")]
ContainerFields ==
  [Image |-> Val("string"), Command |-> List("string"), Args |-> List("string"),
   Env |-> List("EnvVar"), EnvFrom |-> List("EnvFromSource"),
   VolumeMounts |-> List("VolumeMount"), Resources |-> Val("ResourceRequirements"),
   SecurityContext |-> Ptr("SecurityContext"), ImagePullPolicy |-> Ptr("string"),
   ReadinessProbe |-> Ptr("Probe"), LivenessProbe |-> Ptr("Probe"),
   StartupProbe |-> Ptr("Probe"), Ports |-> List("ContainerPort")]
ContainerTemplateFields ==
  [Resources |-> Val("ResourceRequirements"), ImagePullPolicy |-> Val("string"),
   SecurityContext |-> Ptr("SecurityContext"), Env |-> List("EnvVar"),
   EnvFrom |-> List("EnvFromSource")]
DaemonTemplateFields ==
  [AbstractPodTemplate |-> Val("AbstractPodTemplate"), Container |-> Ptr("ContainerTemplate")]
DriftReloadFields == [Enabled |-> Ptr("bool")]
ExternalAgentRefFields == [Name |-> Val("string"), URL |-> Val("string")]
MetadataFields == [Annotations |-> StrMap, Labels |-> StrMap]
PeerFields == [Name |-> Val("string"), Kind |-> Val("string"), URL |-> Val("string")]
ProbeFields ==
  [InitialDelaySeconds |-> Ptr("int32"), TimeoutSeconds |-> Ptr("int32"),
   PeriodSeconds |-> Ptr("int32"), SuccessThreshold |-> Ptr("int32"),
   FailureThreshold |-> Ptr("int32")]
RateLimitFields == [MaxInFlight |-> Ptr("int32")]
RollingUpdateStrategyFields == [MaxUnavailable |-> Ptr("IntOrString")]
ScaleFields ==
  [Disabled |-> Val("bool"), Min |-> Ptr("int32"), Max |-> Ptr("int32"),
   TargetSaturationPercentage |-> Ptr("uint32"), ScaleUpCooldownSeconds |-> Ptr("uint32"),
   ScaleDownCooldownSeconds |-> Ptr("uint32"), ReplicasPerScaleUp |-> Ptr("uint32"),
   ReplicasPerScaleDown |-> Ptr("uint32")]
StatusFields == [Conditions |-> List("Condition")]
TemplatesFields ==
  [AgentDeployTemplate |-> Ptr("AgentDeployTemplate"), DaemonTemplate |-> Ptr("DaemonTemplate")]
TopologyFields == [Pattern |-> Val("string"), IsEntry |-> Val("bool"), Peers |-> List("Peer")]
UpdateStrategyFields == [Type |-> Val("string"), RollingUpdate |-> Ptr("RollingUpdateStrategy")]

Types ==
  [AbstractAgentDeploy |-> AbstractAgentDeployFields,
   AbstractPodTemplate |-> AbstractPodTemplateFields, AgentDeploy |-> AgentDeployFields,
   AgentDeployList |-> AgentDeployListFields, AgentDeploySpec |-> AgentDeploySpecFields,
   AgentDeployStatus |-> AgentDeployStatusFields,
   AgentDeployTemplate |-> AgentDeployTemplateFields, AgentSet |-> AgentSetFields,
   AgentSetList |-> AgentSetListFields, AgentSetSpec |-> AgentSetSpecFields,
   AgentSetStatus |-> AgentSetStatusFields, Container |-> ContainerFields,
   ContainerTemplate |-> ContainerTemplateFields, DaemonTemplate |-> DaemonTemplateFields,
   DriftReload |-> DriftReloadFields, ExternalAgentRef |-> ExternalAgentRefFields,
   Metadata |-> MetadataFields, Peer |-> PeerFields, Probe |-> ProbeFields,
   RateLimit |-> RateLimitFields, RollingUpdateStrategy |-> RollingUpdateStrategyFields,
   Scale |-> ScaleFields, Status |-> StatusFields, Templates |-> TemplatesFields,
   Topology |-> TopologyFields, UpdateStrategy |-> UpdateStrategyFields]
==============================================================================
