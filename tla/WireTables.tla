------------------------------ MODULE WireTables ------------------------------
(***************************************************************************)
(* What the generated protobuf functions of each message do with its       *)
(* fields, one table per function:                                         *)
(*   Marshal     <<number, kind, field>> in the order they are written     *)
(*   Size        <<kind, field>> in the order they are counted             *)
(*   Unmarshal   <<number, kind, field>> for each case of the switch       *)
(* A kind says how the code treats the field: str, int, bool and msg are   *)
(* always written; ostr, oint, obool and omsg when the pointer is not nil; *)
(* strs and msgs once per element; map once per key, in key order.         *)
(***************************************************************************)

\* AbstractAgentDeploy
AbstractAgentDeployMarshal ==
  <<<<1,"str","Name">>, <<2,"msg","AbstractPodTemplate">>, <<3,"omsg","Container">>,
    <<4,"omsg","InitContainer">>, <<5,"omsg","BrokerContainer">>, <<6,"msgs","Volumes">>,
    <<7,"msg","Scale">>, <<8,"omsg","RateLimit">>, <<9,"msgs","InitContainers">>,
    <<10,"msgs","Sidecars">>, <<11,"msg","UpdateStrategy">>, <<12,"str","PublicBaseURL">>,
    <<13,"omsg","DriftReload">>>>
AbstractAgentDeploySize ==
  <<<<"str","Name">>, <<"msg","AbstractPodTemplate">>, <<"omsg","Container">>,
    <<"omsg","InitContainer">>, <<"omsg","BrokerContainer">>, <<"msgs","Volumes">>,
    <<"msg","Scale">>, <<"omsg","RateLimit">>, <<"msgs","InitContainers">>,
    <<"msgs","Sidecars">>, <<"msg","UpdateStrategy">>, <<"str","PublicBaseURL">>,
    <<"omsg","DriftReload">>>>
AbstractAgentDeployUnmarshal ==
  {<<1,"str","Name">>, <<2,"msg","AbstractPodTemplate">>, <<3,"omsg","Container">>,
   <<4,"omsg","InitContainer">>, <<5,"omsg","BrokerContainer">>, <<6,"msgs","Volumes">>,
   <<7,"msg","Scale">>, <<8,"omsg","RateLimit">>, <<9,"msgs","InitContainers">>,
   <<10,"msgs","Sidecars">>, <<11,"msg","UpdateStrategy">>, <<12,"str","PublicBaseURL">>,
   <<13,"omsg","DriftReload">>}

\* AbstractPodTemplate
AbstractPodTemplateMarshal ==
  <<<<1,"omsg","Metadata">>, <<2,"map","NodeSelector">>, <<3,"msgs","Tolerations">>,
    <<4,"omsg","SecurityContext">>, <<5,"msgs","ImagePullSecrets">>,
    <<6,"str","PriorityClassName">>, <<7,"oint","Priority">>, <<8,"omsg","Affinity">>,
    <<9,"str","ServiceAccountName">>, <<10,"ostr","RuntimeClassName">>,
    <<11,"obool","AutomountServiceAccountToken">>, <<12,"str","DNSPolicy">>,
    <<13,"omsg","DNSConfig">>, <<14,"msgs","ResourceClaims">>,
    <<15,"oint","TerminationGracePeriodSeconds">>>>
AbstractPodTemplateSize ==
  <<<<"omsg","Metadata">>, <<"map","NodeSelector">>, <<"msgs","Tolerations">>,
    <<"omsg","SecurityContext">>, <<"msgs","ImagePullSecrets">>, <<"str","PriorityClassName">>,
    <<"oint","Priority">>, <<"omsg","Affinity">>, <<"str","ServiceAccountName">>,
    <<"ostr","RuntimeClassName">>, <<"obool","AutomountServiceAccountToken">>,
    <<"str","DNSPolicy">>, <<"omsg","DNSConfig">>, <<"msgs","ResourceClaims">>,
    <<"oint","TerminationGracePeriodSeconds">>>>
AbstractPodTemplateUnmarshal ==
  {<<1,"omsg","Metadata">>, <<2,"map","NodeSelector">>, <<3,"msgs","Tolerations">>,
   <<4,"omsg","SecurityContext">>, <<5,"msgs","ImagePullSecrets">>,
   <<6,"str","PriorityClassName">>, <<7,"oint","Priority">>, <<8,"omsg","Affinity">>,
   <<9,"str","ServiceAccountName">>, <<10,"ostr","RuntimeClassName">>,
   <<11,"obool","AutomountServiceAccountToken">>, <<12,"str","DNSPolicy">>,
   <<13,"omsg","DNSConfig">>, <<14,"msgs","ResourceClaims">>,
   <<15,"oint","TerminationGracePeriodSeconds">>}

\* AgentDeploy
AgentDeployMarshal == <<<<1,"msg","ObjectMeta">>, <<2,"msg","Spec">>, <<3,"msg","Status">>>>
AgentDeploySize == <<<<"msg","ObjectMeta">>, <<"msg","Spec">>, <<"msg","Status">>>>
AgentDeployUnmarshal == {<<1,"msg","ObjectMeta">>, <<2,"msg","Spec">>, <<3,"msg","Status">>}

\* AgentDeployList
AgentDeployListMarshal == <<<<1,"msg","ListMeta">>, <<2,"msgs","Items">>>>
AgentDeployListSize == <<<<"msg","ListMeta">>, <<"msgs","Items">>>>
AgentDeployListUnmarshal == {<<1,"msg","ListMeta">>, <<2,"msgs","Items">>}

\* AgentDeploySpec
AgentDeploySpecMarshal ==
  <<<<1,"msg","AbstractAgentDeploy">>, <<2,"str","AgentSetName">>, <<3,"oint","Replicas">>,
    <<4,"msg","Topology">>>>
AgentDeploySpecSize ==
  <<<<"msg","AbstractAgentDeploy">>, <<"str","AgentSetName">>, <<"oint","Replicas">>,
    <<"msg","Topology">>>>
AgentDeploySpecUnmarshal ==
  {<<1,"msg","AbstractAgentDeploy">>, <<2,"str","AgentSetName">>, <<3,"oint","Replicas">>,
   <<4,"msg","Topology">>}

\* AgentDeployStatus
AgentDeployStatusMarshal ==
  <<<<1,"msg","Status">>, <<2,"str","Phase">>, <<3,"int","Replicas">>,
    <<4,"int","DesiredReplicas">>, <<5,"str","Selector">>, <<6,"str","Reason">>,
    <<7,"str","Message">>, <<8,"msg","LastScaledAt">>, <<9,"int","ObservedGeneration">>,
    <<10,"int","ReadyReplicas">>, <<11,"int","UpdatedReplicas">>,
    <<12,"int","UpdatedReadyReplicas">>, <<13,"str","CurrentHash">>, <<14,"str","UpdateHash">>>>
AgentDeployStatusSize ==
  <<<<"msg","Status">>, <<"str","Phase">>, <<"int","Replicas">>, <<"int","DesiredReplicas">>,
    <<"str","Selector">>, <<"str","Reason">>, <<"str","Message">>, <<"msg","LastScaledAt">>,
    <<"int","ObservedGeneration">>, <<"int","ReadyReplicas">>, <<"int","UpdatedReplicas">>,
    <<"int","UpdatedReadyReplicas">>, <<"str","CurrentHash">>, <<"str","UpdateHash">>>>
\* Mutant: the case of a field added to the struct is missing.
AgentDeployStatusUnmarshalShort ==
  {<<1,"msg","Status">>, <<2,"str","Phase">>, <<3,"int","Replicas">>,
   <<4,"int","DesiredReplicas">>, <<5,"str","Selector">>, <<6,"str","Reason">>,
   <<7,"str","Message">>, <<8,"msg","LastScaledAt">>, <<9,"int","ObservedGeneration">>,
   <<10,"int","ReadyReplicas">>, <<11,"int","UpdatedReplicas">>,
   <<13,"str","CurrentHash">>, <<14,"str","UpdateHash">>}
AgentDeployStatusUnmarshal ==
  {<<1,"msg","Status">>, <<2,"str","Phase">>, <<3,"int","Replicas">>,
   <<4,"int","DesiredReplicas">>, <<5,"str","Selector">>, <<6,"str","Reason">>,
   <<7,"str","Message">>, <<8,"msg","LastScaledAt">>, <<9,"int","ObservedGeneration">>,
   <<10,"int","ReadyReplicas">>, <<11,"int","UpdatedReplicas">>,
   <<12,"int","UpdatedReadyReplicas">>, <<13,"str","CurrentHash">>, <<14,"str","UpdateHash">>}

\* AgentDeployTemplate
AgentDeployTemplateMarshal ==
  <<<<1,"msg","AbstractPodTemplate">>, <<2,"omsg","InitContainer">>,
    <<3,"omsg","BrokerContainer">>>>
AgentDeployTemplateSize ==
  <<<<"msg","AbstractPodTemplate">>, <<"omsg","InitContainer">>, <<"omsg","BrokerContainer">>>>
AgentDeployTemplateUnmarshal ==
  {<<1,"msg","AbstractPodTemplate">>, <<2,"omsg","InitContainer">>,
   <<3,"omsg","BrokerContainer">>}

\* AgentSet
AgentSetMarshal == <<<<1,"msg","ObjectMeta">>, <<2,"msg","Spec">>, <<3,"msg","Status">>>>
AgentSetSize == <<<<"msg","ObjectMeta">>, <<"msg","Spec">>, <<"msg","Status">>>>
AgentSetUnmarshal == {<<1,"msg","ObjectMeta">>, <<2,"msg","Spec">>, <<3,"msg","Status">>}

\* AgentSetList
AgentSetListMarshal == <<<<1,"msg","ListMeta">>, <<2,"msgs","Items">>>>
AgentSetListSize == <<<<"msg","ListMeta">>, <<"msgs","Items">>>>
AgentSetListUnmarshal == {<<1,"msg","ListMeta">>, <<2,"msgs","Items">>}

\* AgentSetSpec
AgentSetSpecMarshal ==
  <<<<1,"str","Pattern">>, <<2,"str","Entry">>, <<3,"msgs","Agents">>, <<4,"omsg","Templates">>,
    <<5,"msgs","ExternalAgents">>, <<6,"omsg","DriftReload">>>>
AgentSetSpecSize ==
  <<<<"str","Pattern">>, <<"str","Entry">>, <<"msgs","Agents">>, <<"omsg","Templates">>,
    <<"msgs","ExternalAgents">>, <<"omsg","DriftReload">>>>
AgentSetSpecUnmarshal ==
  {<<1,"str","Pattern">>, <<2,"str","Entry">>, <<3,"msgs","Agents">>, <<4,"omsg","Templates">>,
   <<5,"msgs","ExternalAgents">>, <<6,"omsg","DriftReload">>}

\* AgentSetStatus
AgentSetStatusMarshal ==
  <<<<1,"msg","Status">>, <<2,"str","Phase">>, <<3,"str","Message">>, <<4,"msg","LastUpdated">>,
    <<5,"oint","AgentCount">>, <<6,"oint","ExternalAgentCount">>,
    <<7,"int","ObservedGeneration">>>>
AgentSetStatusSize ==
  <<<<"msg","Status">>, <<"str","Phase">>, <<"str","Message">>, <<"msg","LastUpdated">>,
    <<"oint","AgentCount">>, <<"oint","ExternalAgentCount">>, <<"int","ObservedGeneration">>>>
AgentSetStatusUnmarshal ==
  {<<1,"msg","Status">>, <<2,"str","Phase">>, <<3,"str","Message">>, <<4,"msg","LastUpdated">>,
   <<5,"oint","AgentCount">>, <<6,"oint","ExternalAgentCount">>,
   <<7,"int","ObservedGeneration">>}

\* Container
ContainerMarshal ==
  <<<<1,"str","Image">>, <<2,"strs","Command">>, <<3,"strs","Args">>, <<4,"msgs","Env">>,
    <<5,"msgs","EnvFrom">>, <<6,"msgs","VolumeMounts">>, <<7,"msg","Resources">>,
    <<8,"omsg","SecurityContext">>, <<9,"ostr","ImagePullPolicy">>,
    <<10,"omsg","ReadinessProbe">>, <<11,"omsg","LivenessProbe">>, <<12,"omsg","StartupProbe">>,
    <<13,"msgs","Ports">>>>
ContainerSize ==
  <<<<"str","Image">>, <<"strs","Command">>, <<"strs","Args">>, <<"msgs","Env">>,
    <<"msgs","EnvFrom">>, <<"msgs","VolumeMounts">>, <<"msg","Resources">>,
    <<"omsg","SecurityContext">>, <<"ostr","ImagePullPolicy">>, <<"omsg","ReadinessProbe">>,
    <<"omsg","LivenessProbe">>, <<"omsg","StartupProbe">>, <<"msgs","Ports">>>>
ContainerUnmarshal ==
  {<<1,"str","Image">>, <<2,"strs","Command">>, <<3,"strs","Args">>, <<4,"msgs","Env">>,
   <<5,"msgs","EnvFrom">>, <<6,"msgs","VolumeMounts">>, <<7,"msg","Resources">>,
   <<8,"omsg","SecurityContext">>, <<9,"ostr","ImagePullPolicy">>,
   <<10,"omsg","ReadinessProbe">>, <<11,"omsg","LivenessProbe">>, <<12,"omsg","StartupProbe">>,
   <<13,"msgs","Ports">>}

\* ContainerTemplate
ContainerTemplateMarshal ==
  <<<<1,"msg","Resources">>, <<2,"str","ImagePullPolicy">>, <<3,"omsg","SecurityContext">>,
    <<4,"msgs","Env">>, <<5,"msgs","EnvFrom">>>>
ContainerTemplateSize ==
  <<<<"msg","Resources">>, <<"str","ImagePullPolicy">>, <<"omsg","SecurityContext">>,
    <<"msgs","Env">>, <<"msgs","EnvFrom">>>>
ContainerTemplateUnmarshal ==
  {<<1,"msg","Resources">>, <<2,"str","ImagePullPolicy">>, <<3,"omsg","SecurityContext">>,
   <<4,"msgs","Env">>, <<5,"msgs","EnvFrom">>}

\* DaemonTemplate
DaemonTemplateMarshal == <<<<1,"msg","AbstractPodTemplate">>, <<2,"omsg","Container">>>>
DaemonTemplateSize == <<<<"msg","AbstractPodTemplate">>, <<"omsg","Container">>>>
DaemonTemplateUnmarshal == {<<1,"msg","AbstractPodTemplate">>, <<2,"omsg","Container">>}

\* DriftReload
DriftReloadMarshal == <<<<1,"obool","Enabled">>>>
DriftReloadSize == <<<<"obool","Enabled">>>>
DriftReloadUnmarshal == {<<1,"obool","Enabled">>}

\* ExternalAgentRef
ExternalAgentRefMarshal == <<<<1,"str","Name">>, <<2,"str","URL">>>>
ExternalAgentRefSize == <<<<"str","Name">>, <<"str","URL">>>>
ExternalAgentRefUnmarshal == {<<1,"str","Name">>, <<2,"str","URL">>}

\* Metadata
MetadataMarshal == <<<<1,"map","Annotations">>, <<2,"map","Labels">>>>
MetadataSize == <<<<"map","Annotations">>, <<"map","Labels">>>>
MetadataUnmarshal == {<<1,"map","Annotations">>, <<2,"map","Labels">>}

\* Peer
PeerMarshal == <<<<1,"str","Name">>, <<2,"str","Kind">>, <<3,"str","URL">>>>
PeerSize == <<<<"str","Name">>, <<"str","Kind">>, <<"str","URL">>>>
PeerUnmarshal == {<<1,"str","Name">>, <<2,"str","Kind">>, <<3,"str","URL">>}

\* Probe
ProbeMarshal ==
  <<<<1,"oint","InitialDelaySeconds">>, <<2,"oint","TimeoutSeconds">>,
    <<3,"oint","PeriodSeconds">>, <<4,"oint","SuccessThreshold">>,
    <<5,"oint","FailureThreshold">>>>
ProbeSize ==
  <<<<"oint","InitialDelaySeconds">>, <<"oint","TimeoutSeconds">>, <<"oint","PeriodSeconds">>,
    <<"oint","SuccessThreshold">>, <<"oint","FailureThreshold">>>>
ProbeUnmarshal ==
  {<<1,"oint","InitialDelaySeconds">>, <<2,"oint","TimeoutSeconds">>,
   <<3,"oint","PeriodSeconds">>, <<4,"oint","SuccessThreshold">>,
   <<5,"oint","FailureThreshold">>}

\* RateLimit
RateLimitMarshal == <<<<1,"oint","MaxInFlight">>>>
RateLimitSize == <<<<"oint","MaxInFlight">>>>
RateLimitUnmarshal == {<<1,"oint","MaxInFlight">>}

\* RollingUpdateStrategy
RollingUpdateStrategyMarshal == <<<<1,"omsg","MaxUnavailable">>>>
RollingUpdateStrategySize == <<<<"omsg","MaxUnavailable">>>>
RollingUpdateStrategyUnmarshal == {<<1,"omsg","MaxUnavailable">>}

\* Scale
ScaleMarshal ==
  <<<<1,"bool","Disabled">>, <<2,"oint","Min">>, <<3,"oint","Max">>,
    <<4,"oint","TargetSaturationPercentage">>, <<5,"oint","ScaleUpCooldownSeconds">>,
    <<6,"oint","ScaleDownCooldownSeconds">>, <<7,"oint","ReplicasPerScaleUp">>,
    <<8,"oint","ReplicasPerScaleDown">>>>
ScaleSize ==
  <<<<"bool","Disabled">>, <<"oint","Min">>, <<"oint","Max">>,
    <<"oint","TargetSaturationPercentage">>, <<"oint","ScaleUpCooldownSeconds">>,
    <<"oint","ScaleDownCooldownSeconds">>, <<"oint","ReplicasPerScaleUp">>,
    <<"oint","ReplicasPerScaleDown">>>>
ScaleUnmarshal ==
  {<<1,"bool","Disabled">>, <<2,"oint","Min">>, <<3,"oint","Max">>,
   <<4,"oint","TargetSaturationPercentage">>, <<5,"oint","ScaleUpCooldownSeconds">>,
   <<6,"oint","ScaleDownCooldownSeconds">>, <<7,"oint","ReplicasPerScaleUp">>,
   <<8,"oint","ReplicasPerScaleDown">>}

\* Status
StatusMarshal == <<<<1,"msgs","Conditions">>>>
StatusSize == <<<<"msgs","Conditions">>>>
StatusUnmarshal == {<<1,"msgs","Conditions">>}

\* Templates
TemplatesMarshal == <<<<1,"omsg","AgentDeployTemplate">>, <<2,"omsg","DaemonTemplate">>>>
TemplatesSize == <<<<"omsg","AgentDeployTemplate">>, <<"omsg","DaemonTemplate">>>>
TemplatesUnmarshal == {<<1,"omsg","AgentDeployTemplate">>, <<2,"omsg","DaemonTemplate">>}

\* Topology
TopologyMarshal == <<<<1,"str","Pattern">>, <<2,"bool","IsEntry">>, <<3,"msgs","Peers">>>>
TopologySize == <<<<"str","Pattern">>, <<"bool","IsEntry">>, <<"msgs","Peers">>>>
TopologyUnmarshal == {<<1,"str","Pattern">>, <<2,"bool","IsEntry">>, <<3,"msgs","Peers">>}

\* UpdateStrategy
UpdateStrategyMarshal == <<<<1,"str","Type">>, <<2,"omsg","RollingUpdate">>>>
UpdateStrategySize == <<<<"str","Type">>, <<"omsg","RollingUpdate">>>>
UpdateStrategyUnmarshal == {<<1,"str","Type">>, <<2,"omsg","RollingUpdate">>}

Marshals ==
  [AbstractAgentDeploy |-> AbstractAgentDeployMarshal,
   AbstractPodTemplate |-> AbstractPodTemplateMarshal, AgentDeploy |-> AgentDeployMarshal,
   AgentDeployList |-> AgentDeployListMarshal, AgentDeploySpec |-> AgentDeploySpecMarshal,
   AgentDeployStatus |-> AgentDeployStatusMarshal,
   AgentDeployTemplate |-> AgentDeployTemplateMarshal, AgentSet |-> AgentSetMarshal,
   AgentSetList |-> AgentSetListMarshal, AgentSetSpec |-> AgentSetSpecMarshal,
   AgentSetStatus |-> AgentSetStatusMarshal, Container |-> ContainerMarshal,
   ContainerTemplate |-> ContainerTemplateMarshal, DaemonTemplate |-> DaemonTemplateMarshal,
   DriftReload |-> DriftReloadMarshal, ExternalAgentRef |-> ExternalAgentRefMarshal,
   Metadata |-> MetadataMarshal, Peer |-> PeerMarshal, Probe |-> ProbeMarshal,
   RateLimit |-> RateLimitMarshal, RollingUpdateStrategy |-> RollingUpdateStrategyMarshal,
   Scale |-> ScaleMarshal, Status |-> StatusMarshal, Templates |-> TemplatesMarshal,
   Topology |-> TopologyMarshal, UpdateStrategy |-> UpdateStrategyMarshal]
Sizes ==
  [AbstractAgentDeploy |-> AbstractAgentDeploySize,
   AbstractPodTemplate |-> AbstractPodTemplateSize, AgentDeploy |-> AgentDeploySize,
   AgentDeployList |-> AgentDeployListSize, AgentDeploySpec |-> AgentDeploySpecSize,
   AgentDeployStatus |-> AgentDeployStatusSize, AgentDeployTemplate |-> AgentDeployTemplateSize,
   AgentSet |-> AgentSetSize, AgentSetList |-> AgentSetListSize,
   AgentSetSpec |-> AgentSetSpecSize, AgentSetStatus |-> AgentSetStatusSize,
   Container |-> ContainerSize, ContainerTemplate |-> ContainerTemplateSize,
   DaemonTemplate |-> DaemonTemplateSize, DriftReload |-> DriftReloadSize,
   ExternalAgentRef |-> ExternalAgentRefSize, Metadata |-> MetadataSize, Peer |-> PeerSize,
   Probe |-> ProbeSize, RateLimit |-> RateLimitSize,
   RollingUpdateStrategy |-> RollingUpdateStrategySize, Scale |-> ScaleSize,
   Status |-> StatusSize, Templates |-> TemplatesSize, Topology |-> TopologySize,
   UpdateStrategy |-> UpdateStrategySize]
Unmarshals ==
  [AbstractAgentDeploy |-> AbstractAgentDeployUnmarshal,
   AbstractPodTemplate |-> AbstractPodTemplateUnmarshal, AgentDeploy |-> AgentDeployUnmarshal,
   AgentDeployList |-> AgentDeployListUnmarshal, AgentDeploySpec |-> AgentDeploySpecUnmarshal,
   AgentDeployStatus |-> AgentDeployStatusUnmarshal,
   AgentDeployTemplate |-> AgentDeployTemplateUnmarshal, AgentSet |-> AgentSetUnmarshal,
   AgentSetList |-> AgentSetListUnmarshal, AgentSetSpec |-> AgentSetSpecUnmarshal,
   AgentSetStatus |-> AgentSetStatusUnmarshal, Container |-> ContainerUnmarshal,
   ContainerTemplate |-> ContainerTemplateUnmarshal, DaemonTemplate |-> DaemonTemplateUnmarshal,
   DriftReload |-> DriftReloadUnmarshal, ExternalAgentRef |-> ExternalAgentRefUnmarshal,
   Metadata |-> MetadataUnmarshal, Peer |-> PeerUnmarshal, Probe |-> ProbeUnmarshal,
   RateLimit |-> RateLimitUnmarshal, RollingUpdateStrategy |-> RollingUpdateStrategyUnmarshal,
   Scale |-> ScaleUnmarshal, Status |-> StatusUnmarshal, Templates |-> TemplatesUnmarshal,
   Topology |-> TopologyUnmarshal, UpdateStrategy |-> UpdateStrategyUnmarshal]
==============================================================================
