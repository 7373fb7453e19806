------------------------------- MODULE MCSpecs -------------------------------
(***************************************************************************)
(* What is computed from the specs a user submits, for TLC: the wiring of  *)
(* an AgentSet that goes through the webhook (Wired varies agents, entry,  *)
(* pattern and external agents; Named varies the names), and the replica   *)
(* counts and budgets of an AgentDeploy that is edited, and the pods       *)
(* rendered from agents and templates.  And what happens to API objects on *)
(* their way: their protobuf encoding, and the deep copies made of them.   *)
(* Each behaviour exercises one; x is its input.                           *)
(***************************************************************************)
EXTENDS Wiring, ReplicaMath, FiniteSetsExt, TLC

CONSTANT Parts      \* the names agents may be given in Named

VARIABLES part, x, verdict
vars == <<part, x, verdict>>

MCSize == [a |-> 1, b |-> 1, c |-> 1, x |-> 1, s |-> 2, ingress |-> 7, daemon |-> 6,
           headless |-> 8, Bad |-> 3, limit |-> 47, over |-> 48]

Upto(S, n) == UNION {[1 .. k -> S] : k \in 0 .. n}
Agents(names, n) == Upto([name : names, saturation : {<<>>}], n)

Wired ==
  [name : {<<"s">>}, pattern : {"Supervisor", "Handoff", "Sequential", "Ring"},
   entry : {<<"a">>, <<"b">>, <<"x">>},
   agents : Agents({<<"a">>, <<"b">>, <<"c">>}, 3),
   externals : Upto([name : {<<"x">>, <<"c">>}, url : {"https://x", "x"}], 2)]

Named ==
  [name : {<<"s">>, <<"Bad">>}, pattern : {"Handoff"}, entry : {<<"a">>},
   agents : Agents(Parts, 2) \cup [{1} -> [name : {<<"a">>}, saturation : {<<0>>, <<100>>, <<101>>}]]
              \cup {<<[name |-> <<"a">>, saturation |-> <<>>], [name |-> <<"b">>, saturation |-> percent]>> :
                      percent \in {<<0>>, <<100>>, <<101>>}},
   externals : Upto([name : Parts, url : {"https://x"}], 1)]

Plain == {<<>>, <<"a">>, <<"b">>, <<"ingress">>, <<"daemon">>, <<"Bad">>, <<"limit">>, <<"over">>,
          <<"a", "headless">>}

\* What an update or a deletion starts from.
First == CHOOSE s \in Wired : ValidateAgentSet(s)

\* Replica counts and scale bounds, and the values of maxUnavailable: an
\* absolute one, a percentage, or a string that is none.
Counts   == {-1, 0, 1, 2, 3, 5, 51}
Budgets  == {-1, 0, 1, 3}
Percents == {0, 1, 25, 30, 33, 50, 67, 99, 100}

Wire == INSTANCE WireFormat
Deep == INSTANCE DeepCopy
Pods == INSTANCE PodRender

\* Contents for a field of an API object: an empty string, list or message, one
\* whose length takes two bytes, negative and large numbers, two map keys.
Long == [i \in 1 .. 130 |-> 1]
Contents(field) ==
  LET one == CASE field.of = "bool" -> {0, 1}
               [] field.of \in {"int32", "int64"} -> {0, 127, 128, -1, 2147483647, -2147483647 - 1}
               [] field.of = "uint32" -> {0, 127, 128, 2147483647}
               [] OTHER -> {<<>>, <<7, 200>>, Long}
  IN  CASE field.shape = "map" -> {{}, {<<<<2>>, <<>>>>}, {<<<<>>, <<3>>>>, <<<<1>>, Long>>}}
        [] field.shape = "list" -> {<<>>, <<<<>>>>, <<<<7>>, Long>>}
        [] field.shape = "ptr" -> {<<>>} \cup {<<p>> : p \in one}
        [] OTHER -> {<<p>> : p \in one}

\* Fields of a later version of the message, one of each wire type (16 is a
\* number no message uses yet).
Foreign == {<<128, 1, 150, 1>>, <<129, 1>> \o [i \in 1 .. 8 |-> 0], <<130, 1, 2, 9, 9>>,
            <<131, 1, 131, 1, 132, 1, 8, 5, 132, 1>>, <<133, 1, 0, 0, 0, 0>>}

Encoded(type, v) == LET m == Wire!Marshal(type, v) IN IF m.ok THEN m.bytes ELSE <<>>

\* Every message with two fields set, and with all of them set.
WireInit ==
  \E type \in DOMAIN Wire!Types :
    LET fields == Wire!Types[type]
        message(v) == x = [type |-> type, v |-> v, sent |-> "whole", bytes |-> Encoded(type, v)]
    IN  \/ \E f, g \in DOMAIN fields :
             \E p \in Contents(fields[f]), q \in Contents(fields[g]) :
               message([Wire!ZeroOf(type) EXCEPT ![f] = p, ![g] = q])
        \/ message([f \in DOMAIN fields |->
                      CHOOSE p \in Contents(fields[f]) : p # Wire!Zero(fields[f])])

\* Settings of an agent or of the templates of its AgentSet (who): variables that
\* take a name of the controller, or one twice, resources, a pull policy.
Vars(who) ==
  LET v(name) == Pods!Var(name, who)
  IN  {<<>>, <<v("X")>>, <<v("POD_NAME"), v("X"), v("POD_NAME")>>, <<v("GRACE")>>}
ContainerTemplates(who) ==
  {Nil} \cup {[Pods!EmptyTemplate EXCEPT !.env = env, !.requests = requests, !.pullPolicy = policy] :
                env \in Vars(who), requests \in {<<>>, "cpu" :> who}, policy \in {Nil, who}}
PodTemplates(who) ==
  [fields : {[f \in Pods!PodFields |-> IF f \in set THEN who ELSE Nil] :
               set \in {{}, {"grace"}, Pods!PodFields \ {"grace"}, Pods!PodFields}},
   metadata : {Nil, [labels |-> ("app" :> who) @@ (who :> who), annotations |-> <<>>]}]
Drifts == {Nil} \cup [enabled : {Nil, TRUE, FALSE}]

Unset == [fields |-> [f \in Pods!PodFields |-> Nil], metadata |-> Nil]
PlainAgent ==
  [pod |-> Unset, container |-> Nil, initContainer |-> Nil, brokerContainer |-> Nil,
   initContainers |-> <<>>, sidecars |-> <<>>, driftReload |-> Nil]
PlainTemplate == [pod |-> Unset, initContainer |-> Nil, brokerContainer |-> Nil]
Users(n) == [i \in 1 .. n |-> Pods!Plain("user", <<Pods!Var("POD_NAME", "agent")>>, Nil)]

\* The fields of the pod, the built-in containers, and the user's containers.
RenderInit ==
  LET rendered(agent, template, drift, policy) ==
        x = [agent |-> agent, as |-> [template |-> template, driftReload |-> drift],
             op |-> [pullPolicy |-> policy, requests |-> "cpu" :> "operator"]]
  IN  \/ \E own \in PodTemplates("agent"), set \in PodTemplates("set"), d, e \in Drifts :
           rendered([PlainAgent EXCEPT !.pod = own, !.driftReload = d],
                    [PlainTemplate EXCEPT !.pod = set], e, Nil)
      \/ \E own \in ContainerTemplates("agent"), set \in ContainerTemplates("set"), p \in {Nil, "operator"} :
           rendered([PlainAgent EXCEPT !.brokerContainer = own, !.initContainer = own],
                    [PlainTemplate EXCEPT !.brokerContainer = set, !.initContainer = set], Nil, p)
      \/ \E env \in Vars("agent"), mounts \in {<<>>, <<Pods!RunMount>>}, m, n \in 0 .. 2 :
           rendered([PlainAgent EXCEPT !.container = [env |-> env, mounts |-> mounts],
                                       !.initContainers = Users(m), !.sidecars = Users(n)],
                    Nil, Nil, "operator")

MCInit ==
  \/ part = "wire" /\ verdict = "none" /\ WireInit
  \/ part = "render" /\ verdict = "none" /\ RenderInit
  \/ part = "copy" /\ verdict = "none" /\ x \in {Deep!Copied(t) : t \in DOMAIN Deep!Types}
  \/ /\ part = "wiring" /\ verdict = "pending"
     /\ \E op \in {"CREATE", "UPDATE", "DELETE"} :
          \E as \in IF op = "DELETE" THEN {First} ELSE Wired \cup Named :
            x = [op |-> op, as |-> as]
  \/ /\ part = "replicas" /\ verdict = "none"
     /\ x \in [replicas : Optional(Counts),
               scale : [disabled : BOOLEAN, min : Optional(Counts), max : Optional(Counts)],
               maxUnavailable : {Nil} \cup [percent : {TRUE}, value : Percents \cup {Nil}]
                                      \cup [percent : {FALSE}, value : Budgets]]

Admit ==
  /\ part = "wiring" /\ verdict = "pending"
  /\ verdict' = IF admit(x.op, First, x.as) THEN "allowed" ELSE "denied"
  /\ UNCHANGED <<part, x>>

\* A user edits one of the fields.
Edit ==
  /\ part = "replicas"
  /\ \E n \in Optional(Counts) : x' = [x EXCEPT !.replicas = n]
  /\ UNCHANGED <<part, verdict>>

\* The message comes from a later version, or loses its last byte.
Extend ==
  /\ part = "wire" /\ x.sent = "whole"
  /\ \E more \in Foreign :
       \E bytes \in {more \o x.bytes, x.bytes \o more} :
         x' = [x EXCEPT !.bytes = bytes, !.sent = "extended"]
  /\ UNCHANGED <<part, verdict>>
Cut ==
  /\ part = "wire" /\ x.sent # "cut" /\ x.bytes # <<>>
  /\ x' = [x EXCEPT !.bytes = SubSeq(@, 1, Len(@) - 1), !.sent = "cut"]
  /\ UNCHANGED <<part, verdict>>

\* One field further down in a copied object.
Descend ==
  /\ part = "copy" /\ x.type \in DOMAIN Deep!Types
  /\ \E f \in DOMAIN Deep!Types[x.type] : x' = Deep!Into(x, f)
  /\ UNCHANGED <<part, verdict>>

MCNext == Admit \/ Edit \/ Extend \/ Cut \/ Descend
MCSpec == MCInit /\ [][MCNext]_vars

-----------------------------------------------------------------------------
(* Properties *)

as == x.as
Allowed == part = "wiring" /\ verdict = "allowed"
All == Names(as.agents) \cup Names(as.externals)
Peers(agent) == Names(ComputeTopology(as, agent).peers)

\* A request that is passed on along a Sequential set visits each agent once
\* and leaves the chain at its end.
SequentialEnds ==
  as.pattern = "Sequential" =>
    /\ \A n \in Names(as.agents) : Cardinality(Peers(n)) <= 1 /\ as.entry \notin Peers(n)
    /\ \A m, n \in Names(as.agents) : m # n => Peers(m) \cap Peers(n) = {}

\* Every agent, managed or external, can be reached from the entry of an
\* admitted AgentSet by following the peers the controller hands out, and a
\* chain ends (ValidateAgentSet, ComputeTopology).
AllReachable ==
  Allowed =>
    /\ \A S \in SUBSET All :
         (as.entry \in S /\ \A n \in S \cap Names(as.agents) : Peers(n) \subseteq S) => S = All
    /\ SequentialEnds

\* The URL of every managed peer in topology.json is the Service of an
\* AgentDeploy the controller creates, and not the agent's own; that of an
\* external one is the user's (resolvePeerURLs).  The daemon, which works from
\* the slim copy, polls the very peers the agents were given.
PeersExist ==
  Allowed =>
    \A n \in Names(as.agents) :
      LET peers == resolvePeerURLs(as, ComputeTopology(as, n)) IN
      /\ \A i \in DOMAIN peers :
           IF peers[i].kind = "Managed"
           THEN /\ peers[i].url.host \in {ServiceName(d) : d \in buildDesired(as)}
                /\ peers[i].url.host # ServiceName(ChildAgentDeployName(as, n))
           ELSE peers[i].url \in AbsoluteURLs
      /\ ComputeTopology(SimpleCopy(as), n) = ComputeTopology(as, n)

\* An admitted AgentSet is wired as its pattern says, with peers that exist.
WiringSound == AllReachable /\ PeersExist

\* The Services of an AgentSet have names of their own: the entry, the daemon,
\* and two for each agent.  These names, and those of the pods of replicas of up
\* to six digits, stay within a DNS label (ValidateAgentSet).  Nothing keeps an
\* agent from being named like another one's headless Service.
ServicesDistinct ==
  Allowed =>
    /\ (\A n \in Names(as.agents) : n \o <<"headless">> \notin Names(as.agents)) =>
         Cardinality({EntryServiceName(as), DaemonName(as)}
                       \cup {ServiceName(d) : d \in buildDesired(as)}
                       \cup {HeadlessServiceName(d) : d \in buildDesired(as)})
           = 2 + 2 * Len(as.agents)
    /\ \A d \in buildDesired(as) :
         /\ Length(HeadlessServiceName(d)) <= 63
         /\ \A digits \in 1 .. 6 : PodNameLength(d, digits) <= 63

desired == DesiredReplicas(x)

\* One pass may replace at least one slot, or the rollout would never end, and
\* a percentage, however it rounds, never more than the whole window.
BudgetInRange ==
  LET budget == ResolveMaxUnavailable(x, desired)
  IN  /\ budget >= 1
      /\ GetMaxUnavailable(x).percent => budget <= desired

\* The window respects the scale block even when it is inverted: at least one
\* replica; with autoscaling on at least min and, when max is no less than min,
\* at most max (DesiredReplicas).  The budget lies within the window.
WindowInBounds ==
  part = "replicas" =>
    /\ desired >= 1
    /\ ~x.scale.disabled =>
         LET lo == IF x.scale.min = Nil THEN 1 ELSE x.scale.min
             hi == IF x.scale.max = Nil THEN 50 ELSE x.scale.max
         IN  /\ desired >= lo
             /\ hi >= lo /\ hi >= 1 => desired <= hi
             /\ hi < lo => desired = IF lo > 1 THEN lo ELSE 1
    /\ BudgetInRange

spec == Pods!newAgentDeploy(x.as, x.agent)
pod  == Pods!buildPodSpec(spec, x.op)
Entries(list) == {list[i] : i \in DOMAIN list}

\* What a container sees of a variable: the last of that name.
Seen(env, name) ==
  LET at == {i \in DOMAIN env : env[i].name = name}
  IN  IF at = {} THEN Nil ELSE env[Max(at)].from

\* What a user set of a variable of a built-in container: the agent before the
\* AgentSet.
Given(name) ==
  LET of(tmpl) == IF tmpl = Nil \/ tmpl.brokerContainer = Nil THEN Nil
                  ELSE Seen(tmpl.brokerContainer.env, name)
  IN  Pods!Or(of(x.agent), of(x.as.template))

\* The pod of an agent (buildPodSpec on what newAgentDeploy completes): no
\* container can shadow the variables by which it knows its pod; the broker is
\* told the grace period the pod has, whether the agent, the AgentSet or neither
\* sets it, unless a user sets the variable itself; what an agent sets wins over
\* its AgentSet, and the operator's pull policy over both; the agent starts after
\* every init container and shares the run volume with the built-in ones only.
PodSound ==
  LET init == pod.initContainers
      main == pod.containers
  IN  /\ \A c \in Entries(init) \cup Entries(main) : \A v \in Entries(Pods!commonEnv) :
           {e \in Entries(c.env) : e.name = v.name} = {v}
      /\ Seen(main[1].env, "GRACE") = Pods!Or(Given("GRACE"), pod.fields["grace"])
      /\ Seen(main[1].env, "X") = Given("X")
      /\ \A f \in Pods!PodFields :
           LET set == IF x.as.template = Nil THEN Nil ELSE x.as.template.pod.fields[f]
           IN  pod.fields[f] = Pods!Or(Pods!Or(x.agent.pod.fields[f], set),
                                       IF f = "grace" THEN "default" ELSE Nil)
      /\ x.op.pullPolicy # Nil => main[1].pullPolicy = x.op.pullPolicy
      /\ init[1].name = "init-runtime" /\ init[Len(init)].name = "agent" /\ main[1].name = "broker"
      /\ \A c \in Entries(init) \cup Entries(main) :
           Cardinality({i \in DOMAIN c.mounts : c.mounts[i] = Pods!RunMount})
             = IF c.name = "user" THEN 0 ELSE 1
      /\ x.agent.driftReload # Nil /\ x.agent.driftReload.enabled # Nil =>
           spec.driftReload = x.agent.driftReload

\* Whatever labels the templates add, the Deployment of the daemon selects its own
\* pods, and so does the Service in front of it.
DaemonSelected ==
  LET d == Pods!newDaemonDeployment(x.agent.pod.metadata)
  IN  \A selector \in {d.selector, d.service} : \A k \in DOMAIN selector :
        k \in DOMAIN d.podLabels /\ d.podLabels[k] = selector[k]

\* Pods and daemon are rendered as the controllers need them.
Rendered == part = "render" => PodSound /\ DaemonSelected

\* Whatever its fields hold, a message that is encoded and decoded again is the
\* same, also when a later version added fields this one must skip; one that is
\* cut short is refused (Marshal, Size and Unmarshal of every type).  Marshal
\* relies on Size: a byte too few is a panic, one too many shifts the contents.
WireRoundTrips ==
  part = "wire" =>
    LET decoded == Wire!Decoded(x.type, x.bytes)
    IN  /\ Wire!Marshal(x.type, x.v).ok
        /\ IF x.sent = "cut" THEN ~decoded.ok ELSE decoded.ok /\ decoded.value = x.v

\* No path of fields leads from a deep copy into memory of the object it was made
\* of, so what the controllers change in a copy never shows in the informer
\* cache they share (DeepCopyInto of every type).
CopiesOwnMemory == part = "copy" => Deep!OwnMemory(x)
=============================================================================
