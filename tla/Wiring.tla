-------------------------------- MODULE Wiring --------------------------------
(***************************************************************************)
(* What an AgentSet is allowed to say and what is made of it: the          *)
(* admission check, the topology each agent is given, the names of the     *)
(* objects that follow, the slim copy the daemon works from, and the peer  *)
(* URLs an agent pod ends up with.                                         *)
(*                                                                         *)
(* A name is the sequence of its parts between dashes; NameSize gives the  *)
(* number of characters of a part.  A part in NotLabels is one DNS-1035    *)
(* does not allow.  An AgentSet is [name, pattern, entry, agents,          *)
(* externals], an agent [name, saturation], an external one [name, url],   *)
(* with saturation <<>> for unset.                                         *)
(***************************************************************************)
EXTENDS Integers, Sequences, FiniteSets, SequencesExt

CONSTANTS
  NameSize, NotLabels,
  AbsoluteURLs      \* the URLs with a scheme and a host

ASSUME WiringAssumption == \A part \in DOMAIN NameSize : NameSize[part] \in Nat \ {0}

Length(name) ==
  FoldLeft(LAMBDA n, part : n + NameSize[part], 0, name) + (IF name = <<>> THEN 0 ELSE Len(name) - 1)

IsDNS1035Label(name) ==
  name # <<>> /\ Length(name) <= 63 /\ \A i \in DOMAIN name : name[i] \notin NotLabels

EntryServiceSuffix == <<"ingress">>
DaemonSuffix == <<"daemon">>
MaxChildAgentDeployNameLen == 50
randomSuffixLength == 5

EntryServiceName(as) == as.name \o EntryServiceSuffix
DaemonName(as) == as.name \o DaemonSuffix
ChildAgentDeployName(as, agent) == as.name \o agent
ServiceName(deploy) == deploy
HeadlessServiceName(deploy) == deploy \o <<"headless">>

Names(list) == {list[i].name : i \in DOMAIN list}
\* Mutant: nothing is reserved.
reservedAgentNamesNone == {}
reservedAgentNames == {EntryServiceSuffix, DaemonSuffix}

-----------------------------------------------------------------------------
(* reconciler/validator *)

ValidateAgents(as) ==
  /\ as.agents # <<>>
  /\ \A i \in DOMAIN as.agents :
       LET a == as.agents[i] IN
       /\ IsDNS1035Label(a.name) /\ a.name \notin reservedAgentNames
       /\ \A j \in 1 .. i - 1 : as.agents[j].name # a.name
       /\ Length(ChildAgentDeployName(as, a.name)) <= MaxChildAgentDeployNameLen
       /\ a.saturation = <<>> \/ a.saturation[1] <= 100

ValidateExternals(as) ==
  \A i \in DOMAIN as.externals :
    LET e == as.externals[i] IN
    /\ IsDNS1035Label(e.name) /\ e.name \notin reservedAgentNames
    /\ e.name \notin Names(as.agents)
    /\ \A j \in 1 .. i - 1 : as.externals[j].name # e.name
    /\ e.url \in AbsoluteURLs

ValidateEntry(as) == as.entry \notin Names(as.externals) /\ as.entry \in Names(as.agents)

\* Mutant: any agent may be the entry of a chain, and it may fan out at its end.
ValidatePatternLax(as) ==
  \/ as.pattern = "Supervisor"
  \/ as.pattern \in {"Handoff", "Sequential"} /\ Len(as.agents) >= 2

ValidatePattern(as) ==
  \/ as.pattern = "Supervisor"
  \/ as.pattern = "Handoff" /\ Len(as.agents) >= 2
  \/ /\ as.pattern = "Sequential" /\ Len(as.agents) >= 2
     /\ as.entry = as.agents[1].name
     /\ Len(as.externals) <= 1

ValidateAgentSet(as) ==
  /\ IsDNS1035Label(as.name)
  /\ ValidateAgents(as) /\ ValidateExternals(as) /\ ValidateEntry(as) /\ ValidatePattern(as)

\* The webhook asks nothing else of a new or of a changed AgentSet.
ValidateCreate(as) == ValidateAgentSet(as)
ValidateUpdate(old, as) == ValidateAgentSet(as)

admit(op, old, as) ==
  CASE op = "CREATE" -> ValidateCreate(as)
    [] op = "UPDATE" -> ValidateUpdate(old, as)
    [] OTHER -> TRUE

-----------------------------------------------------------------------------
(* apis: ComputeTopology *)

managed(agent) == [name |-> agent.name, kind |-> "Managed", url |-> ""]
external(ref) == [name |-> ref.name, kind |-> "External", url |-> ref.url]

peersExcluding(agents, externals, self) ==
  LET others == SelectSeq(agents, LAMBDA a : a.name # self)
  IN [i \in DOMAIN others |-> managed(others[i])] \o [i \in DOMAIN externals |-> external(externals[i])]

nextAgent(agents, externals, self) ==
  IF self \notin Names(agents) THEN <<>>
  ELSE LET i == CHOOSE k \in DOMAIN agents :
                  agents[k].name = self /\ \A j \in 1 .. k - 1 : agents[j].name # self
       IN IF i < Len(agents) THEN <<managed(agents[i + 1])>>
          ELSE IF externals # <<>> THEN <<external(externals[1])>> ELSE <<>>

ComputeTopology(as, agent) ==
  [pattern |-> as.pattern, isEntry |-> agent = as.entry,
   peers |-> CASE as.pattern = "Handoff" -> peersExcluding(as.agents, as.externals, agent)
               [] as.pattern = "Supervisor" /\ agent = as.entry ->
                    peersExcluding(as.agents, as.externals, agent)
               [] as.pattern = "Sequential" -> nextAgent(as.agents, as.externals, agent)
               [] OTHER -> <<>>]

SimpleCopy(as) ==
  [as EXCEPT !.agents = [i \in DOMAIN as.agents |-> [as.agents[i] EXCEPT !.saturation = <<>>]]]

-----------------------------------------------------------------------------
(* What the controllers create, and init-runtime writes into a pod *)

buildDesired(as) == {ChildAgentDeployName(as, n) : n \in Names(as.agents)}

managedPeerURL(set, peer) == [scheme |-> "https", host |-> set \o peer]

resolvePeerURLs(as, topology) ==
  [i \in DOMAIN topology.peers |->
     IF topology.peers[i].kind = "External" THEN topology.peers[i]
     ELSE [topology.peers[i] EXCEPT !.url = managedPeerURL(as.name, topology.peers[i].name)]]

PodNameLength(deploy, digits) == Length(deploy) + 1 + digits + 1 + randomSuffixLength
=============================================================================
