----------------------------- MODULE MCManager -----------------------------
(***************************************************************************)
(* What runs in the controller manager beside the reconcilers, for TLC:    *)
(* the daemon clients that workers share, the round-robin runner of a work *)
(* set, and the admission webhook's replicas.  They share no state, so     *)
(* each behaviour exercises one part, while the others stay as they begin. *)
(***************************************************************************)
EXTENDS ClientCache, TLC

CONSTANTS a, b, A, B, Keys, MaxSwitches, Replicas, MaxFaults

MCSetOf == (a :> A) @@ (b :> B)

VARIABLES
  part,
  object, queued, keys, batch, hand, switches,
  secret, config, pc, certs, seen, generated, leaked, faults

Runner == INSTANCE WorkSet
            WITH NoKey <- None, worker <- hand, changes <- switches, MaxChanges <- MaxSwitches
Webhook == INSTANCE WebhookServer

runnerVars  == <<object, queued, keys, batch, hand, switches>>
webhookVars == <<secret, config, pc, certs, seen, generated, leaked, faults>>
mcVars == <<part, vars, runnerVars, webhookVars>>

MCInit ==
  /\ part \in {"clients", "runner", "webhook"}
  /\ Init /\ Runner!Init /\ Webhook!Init
  /\ part # "clients" => live = {}
  /\ part # "runner" => object = [k \in Keys |-> "idle"]

ClientsStep(step) == part = "clients" /\ step /\ UNCHANGED <<part, runnerVars, webhookVars>>
RunnerStep(step)  == part = "runner" /\ step /\ UNCHANGED <<part, vars, webhookVars>>
WebhookStep(step) == part = "webhook" /\ step /\ UNCHANGED <<part, vars, runnerVars>>

MCNext == ClientsStep(Next) \/ RunnerStep(Runner!Next) \/ WebhookStep(Webhook!Next)

\* The fairness of the three parts.
ClientsFair ==
  /\ WF_mcVars(ClientsStep(List)) /\ WF_mcVars(ClientsStep(reapSources))
  /\ \A w \in Workers :
       WF_mcVars(ClientsStep(sourceFor(w))) /\ WF_mcVars(ClientsStep(Call(w)))
  /\ \A d \in Deploys : SF_mcVars(ClientsStep(\E w \in Workers : Get(w, d)))

RunnerFair ==
  /\ \A k \in Keys : WF_mcVars(RunnerStep(Runner!Reconcile(k)))
  /\ \A w \in Workers : WF_mcVars(RunnerStep(Runner!Processes(w)))
  /\ WF_mcVars(RunnerStep(Runner!AssignAny))

WebhookFair == \A r \in Replicas : WF_mcVars(WebhookStep(Webhook!Runs(r)))

MCSpec == MCInit /\ [][MCNext]_mcVars /\ ClientsFair /\ RunnerFair /\ WebhookFair

-----------------------------------------------------------------------------
(* Properties: those of the parts, whose comments say what they are about. *)

\* The client of an AgentSet without AgentDeploys is closed in the end, and an
\* AgentDeploy that stays is served, also after a client was closed in use.
ClientsSettle == part = "clients" => EventuallyReaped /\ EventuallyServed

\* A key that stays tracked is processed again and again, and one whose object
\* stays out is let go of.
KeysServed == part = "runner" => Runner!TrackedServed /\ Runner!IdleLeftAlone

\* The webhook's replicas agree on one set of certificates, whatever fails.
ImplementsAgreement == Webhook!ImplementsAgreement

\* Every replica of the webhook ends up trusted, and even without its Secret
\* some replica does.
WebhookTrusted ==
  part = "webhook" => Webhook!EventuallyTrusted /\ Webhook!EventuallySomeTrusted
=============================================================================
