----------------------------- MODULE PodRender ------------------------------
(***************************************************************************)
(* From the specs a user writes to the pods that run: an agent's spec is   *)
(* completed from the templates of its AgentSet (agentset/agentdeploys.go, *)
(* pod_template.go, container_template.go), the pod spec is put together   *)
(* from it (agentdeploy/pod_spec.go), and so is the Deployment of the      *)
(* daemon (agentset/daemon.go).                                            *)
(*                                                                         *)
(* A setting is Nil (unset, or empty: the code treats them alike) or an    *)
(* opaque value that says who set it.  Environment variables, claims and   *)
(* mounts are sequences of records with a name; the last variable of a     *)
(* name is the one a container sees.  Limits are treated like requests.    *)
(* Ports, probes and images, constants of the code, are left out.          *)
(***************************************************************************)
EXTENDS Sequences, Integers, TLC

CONSTANT Nil

PodFields ==
  {"nodeSelector", "tolerations", "securityContext", "imagePullSecrets", "priorityClassName",
   "priority", "affinity", "serviceAccountName", "runtimeClassName", "automountToken",
   "dnsPolicy", "dnsConfig", "resourceClaims", "grace"}

EmptyTemplate ==
  [requests |-> <<>>, claims |-> <<>>, pullPolicy |-> Nil, securityContext |-> Nil,
   env |-> <<>>, envFrom |-> <<>>]

Or(own, default) == IF own = Nil THEN default ELSE own
OrList(own, default) == IF own = <<>> THEN default ELSE own

\* In what follows own wins over defaults, name by name.
mergeStringMapDefaults(own, defaults) == own @@ defaults
mergeResourceDefaults(own, defaults) == own @@ defaults
mergeEnvDefaults(own, defaults) ==
  own \o SelectSeq(defaults, LAMBDA e : \A i \in DOMAIN own : own[i].name # e.name)
mergeResourceClaims(own, other) ==
  own \o SelectSeq(other, LAMBDA e : \A i \in DOMAIN own : own[i].name # e.name)
mergeResourceList(base, override) == override @@ base

-----------------------------------------------------------------------------
(* Completing an agent's spec *)

mergeMetadataDefaults(own, defaults) ==
  IF defaults = Nil THEN own
  ELSE LET o == IF own = Nil THEN [labels |-> <<>>, annotations |-> <<>>] ELSE own
           m == [labels      |-> mergeStringMapDefaults(o.labels, defaults.labels),
                 annotations |-> mergeStringMapDefaults(o.annotations, defaults.annotations)]
       IN  IF m.labels = <<>> /\ m.annotations = <<>> THEN Nil ELSE m

PodDefaultsFrom(own, other) ==
  [fields   |-> [f \in PodFields |-> Or(own.fields[f], other.fields[f])],
   metadata |-> mergeMetadataDefaults(own.metadata, other.metadata)]

ContainerDefaultsFrom(own, other) ==
  [requests        |-> mergeResourceDefaults(own.requests, other.requests),
   claims          |-> mergeResourceClaims(own.claims, other.claims),
   pullPolicy      |-> Or(own.pullPolicy, other.pullPolicy),
   securityContext |-> Or(own.securityContext, other.securityContext),
   env             |-> mergeEnvDefaults(own.env, other.env),
   envFrom         |-> OrList(own.envFrom, other.envFrom)]

applyTemplate(agent, tmpl) ==
  LET filled(own, other) == IF other = Nil THEN own
                            ELSE ContainerDefaultsFrom(Or(own, EmptyTemplate), other)
  IN  [agent EXCEPT !.pod             = PodDefaultsFrom(@, tmpl.pod),
                    !.initContainer   = filled(@, tmpl.initContainer),
                    !.brokerContainer = filled(@, tmpl.brokerContainer)]

\* DriftReload is Nil, or a record whose field enabled may be unset.
applyDriftReloadDefault(agent, setDefault) ==
  [agent EXCEPT !.driftReload =
     IF @ = Nil THEN setDefault
     ELSE IF @.enabled = Nil /\ setDefault # Nil THEN [enabled |-> setDefault.enabled] ELSE @]

newAgentDeploy(as, agent) ==
  applyDriftReloadDefault(IF as.template = Nil THEN agent ELSE applyTemplate(agent, as.template),
                          as.driftReload)

-----------------------------------------------------------------------------
(* The pod spec *)

Var(name, from) == [name |-> name, from |-> from]
RunMount == [name |-> "kynomesh-run"]

Plain(name, env, pullPolicy) ==
  [EmptyTemplate EXCEPT !.env = env, !.pullPolicy = pullPolicy]
    @@ [name |-> name, mounts |-> <<>>]

ApplyToContainer(tmpl, c) ==
  [c EXCEPT !.requests        = mergeResourceList(@, tmpl.requests),
            !.claims          = mergeResourceClaims(@, tmpl.claims),
            !.securityContext = tmpl.securityContext,
            !.pullPolicy      = Or(@, tmpl.pullPolicy),
            !.env             = @ \o tmpl.env,
            !.envFrom         = @ \o tmpl.envFrom]

ApplyDefaultResourcesIfMissing(c, defaults) ==
  IF c.requests # <<>> THEN c ELSE [c EXCEPT !.requests = defaults, !.claims = <<>>]

\* The container of the operator's image: op is what the operator configures.
BuiltIn(c, tmpl, op) ==
  ApplyDefaultResourcesIfMissing(IF tmpl = Nil THEN c ELSE ApplyToContainer(tmpl, c), op.requests)

newInitRuntimeContainer(spec, op) ==
  BuiltIn(Plain("init-runtime", <<Var("OBJECT", "controller")>>, op.pullPolicy),
          spec.initContainer, op)

newBrokerContainer(spec, op, grace) ==
  BuiltIn(Plain("broker", <<Var("OBJECT", "controller"), Var("GRACE", grace)>>, op.pullPolicy),
          spec.brokerContainer, op)

\* The settings of the user's container that are left out here are copied.
newAgentContainer(spec) ==
  IF spec.container = Nil THEN Plain("agent", <<>>, Nil)
  ELSE [Plain("agent", spec.container.env, Nil) EXCEPT !.mounts = spec.container.mounts]

commonEnv ==
  <<Var("NAMESPACE", "controller"), Var("POD_NAME", "controller"),
    Var("AGENTSET_NAME", "controller"), Var("AGENTDEPLOY_NAME", "controller")>>

\* Every variable an override names is replaced; the overrides nobody named are
\* appended (mergeEnvKeeps: those somebody named are left alone).
mergeEnvKeeps(existing, overrides) ==
  existing \o SelectSeq(overrides, LAMBDA o : \A i \in DOMAIN existing : existing[i].name # o.name)
mergeEnv(existing, overrides) ==
  [i \in DOMAIN existing |->
     IF \E j \in DOMAIN overrides : overrides[j].name = existing[i].name
     THEN overrides[CHOOSE j \in DOMAIN overrides : overrides[j].name = existing[i].name]
     ELSE existing[i]]
  \o SelectSeq(overrides, LAMBDA o : \A i \in DOMAIN existing : existing[i].name # o.name)

appendMountIfAbsent(mounts, m) ==
  IF \E i \in DOMAIN mounts : mounts[i].name = m.name THEN mounts ELSE Append(mounts, m)

applyCommonEnv(cs) == [i \in DOMAIN cs |-> [cs[i] EXCEPT !.env = mergeEnv(@, commonEnv)]]
applyRunVolMount(cs, at) ==
  [i \in DOMAIN cs |->
     IF i \in at THEN [cs[i] EXCEPT !.mounts = appendMountIfAbsent(@, RunMount)] ELSE cs[i]]

ApplyToPodSpec(fields, ps) == [f \in PodFields |-> Or(ps[f], fields[f])]

buildPodSpec(spec, op) ==
  LET grace  == Or(spec.pod.fields["grace"], "default")
      main   == <<newBrokerContainer(spec, op, grace)>> \o spec.sidecars
      init   == <<newInitRuntimeContainer(spec, op)>> \o spec.initContainers \o <<newAgentContainer(spec)>>
      fields == ApplyToPodSpec(spec.pod.fields, [f \in PodFields |-> Nil])
  IN  [containers     |-> applyRunVolMount(applyCommonEnv(main), {1}),
       initContainers |-> applyRunVolMount(applyCommonEnv(init), {1, Len(init)}),
       fields         |-> [fields EXCEPT !["grace"] = Or(@, grace)]]

-----------------------------------------------------------------------------
(* The daemon *)

daemonLabels == ("app" :> "daemon") @@ ("agentset" :> "controller")

\* Selector and template hold the same map, to which the template's labels are
\* added; the Service selects by a map of its own.
newDaemonDeployment(metadata) ==
  LET podLabels == IF metadata = Nil THEN daemonLabels ELSE daemonLabels @@ metadata.labels
  IN  [selector |-> podLabels, podLabels |-> podLabels, service |-> daemonLabels]
=============================================================================
