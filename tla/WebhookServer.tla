---------------------------- MODULE WebhookServer ----------------------------
(***************************************************************************)
(* The replicas of the admission webhook: how they agree on one set of     *)
(* certificates through a Secret, register the webhook with its CA, and    *)
(* answer the API server.                                                  *)
(*                                                                         *)
(* A generated set of certificates is a number; a server presents the one  *)
(* it loaded and the API server trusts the one that is registered.  Only   *)
(* reviews of a faulty AgentSet are modelled: what makes one faulty is the *)
(* subject of Wiring.  The failure policy is Ignore: a webhook that cannot *)
(* be called lets the request through.                                     *)
(***************************************************************************)
EXTENDS Integers, Sequences

CONSTANTS
  Replicas,
  MaxFaults,        \* bound
  None

VARIABLES
  secret,           \* the certificates in the Secret, or None
  config,           \* the registered webhook: its CA and resourceVersion
  pc, certs, seen,  \* of each replica: step, certificates in hand, version read
  generated,        \* how many sets of certificates were made
  leaked,           \* a faulty AgentSet was stored although a server was up
  faults            \* what went wrong: "crash", "api" or "delete", in order

vars == <<secret, config, pc, certs, seen, generated, leaked, faults>>

Absent == [ca |-> None, version |-> 0]

Init ==
  /\ secret = None /\ config = Absent
  /\ pc = [r \in Replicas |-> "get"] /\ certs = [r \in Replicas |-> None]
  /\ seen = [r \in Replicas |-> 0]
  /\ generated = 0 /\ leaked = FALSE /\ faults = <<>>

Fault(kind) == Len(faults) < MaxFaults /\ faults' = Append(faults, kind)
Happened(kind) == \E i \in DOMAIN faults : faults[i] = kind
Goto(r, step) == pc' = [pc EXCEPT ![r] = step]
Load(r, ca) == certs' = [certs EXCEPT ![r] = ca]

-----------------------------------------------------------------------------
(* configureCerts *)

GetSecret(r) ==
  /\ pc[r] = "get"
  /\ Load(r, secret) /\ Goto(r, IF secret = None THEN "generate" ELSE "register")
  /\ UNCHANGED <<secret, config, seen, generated, leaked, faults>>

generateSecret(r) ==
  /\ pc[r] = "generate"
  /\ generated' = generated + 1 /\ Load(r, generated') /\ Goto(r, "create")
  /\ UNCHANGED <<secret, config, seen, leaked, faults>>

CreateSecret(r) ==
  /\ pc[r] = "create"
  /\ secret' = IF secret = None THEN certs[r] ELSE secret
  /\ Goto(r, "reread")
  /\ UNCHANGED <<config, certs, seen, generated, leaked, faults>>

\* Mutant: what was generated is used, whoever won the Create.
RereadOwn(r) ==
  /\ pc[r] = "reread" /\ secret # None
  /\ Goto(r, "register")
  /\ UNCHANGED <<secret, config, certs, seen, generated, leaked, faults>>

Reread(r) ==
  /\ pc[r] = "reread" /\ secret # None
  /\ Load(r, secret) /\ Goto(r, "register")
  /\ UNCHANGED <<secret, config, seen, generated, leaked, faults>>

\* Run logs the error and goes on without certificates.
ConfigureFails(r) ==
  /\ pc[r] \in {"get", "generate", "create", "reread"}
  /\ \/ Fault("api")
     \/ pc[r] = "reread" /\ secret = None /\ UNCHANGED faults
  /\ Load(r, None) /\ Goto(r, "register")
  /\ UNCHANGED <<secret, config, seen, generated, leaked>>

-----------------------------------------------------------------------------
(* register *)

CreateWebhook(r) ==
  /\ pc[r] = "register"
  /\ IF config.version = 0
       THEN config' = [ca |-> certs[r], version |-> 1] /\ Goto(r, "listen")
       ELSE Goto(r, "compare") /\ UNCHANGED config
  /\ UNCHANGED <<secret, certs, seen, generated, leaked, faults>>

\* The fields the API server fills in by itself may count as a difference.
CompareWebhook(r) ==
  /\ pc[r] = "compare"
  /\ seen' = [seen EXCEPT ![r] = config.version]
  /\ \/ Goto(r, "update")
     \/ config.ca = certs[r] /\ Goto(r, "listen")
  /\ UNCHANGED <<secret, config, certs, generated, leaked, faults>>

\* Mutant: an existing registration is never brought up to date.
UpdateWebhookNever(r) ==
  /\ pc[r] = "update" /\ Goto(r, "listen")
  /\ UNCHANGED <<secret, config, certs, seen, generated, leaked, faults>>

UpdateWebhook(r) ==
  /\ pc[r] = "update"
  /\ IF seen[r] = config.version
       THEN /\ config' = IF config.ca = certs[r] THEN config
                         ELSE [ca |-> certs[r], version |-> config.version + 1]
            /\ Goto(r, "listen")
       ELSE Goto(r, "exited") /\ UNCHANGED config
  /\ UNCHANGED <<secret, certs, seen, generated, leaked, faults>>

RegisterFails(r) ==
  /\ pc[r] \in {"register", "compare", "update"} /\ Fault("api")
  /\ Goto(r, "exited")
  /\ UNCHANGED <<secret, config, certs, seen, generated, leaked>>

-----------------------------------------------------------------------------
(* Serving *)

\* A server without a certificate does not start.
ListenAndServeTLS(r) ==
  /\ pc[r] = "listen"
  /\ Goto(r, IF certs[r] = None THEN "exited" ELSE "serving")
  /\ UNCHANGED <<secret, config, certs, seen, generated, leaked, faults>>

\* The API server asks one server to review a faulty AgentSet: admit denies
\* it, unless the call cannot be made.
Review(r) ==
  /\ pc[r] = "serving"
  /\ leaked' = (leaked \/ config.ca # certs[r])
  /\ UNCHANGED <<secret, config, pc, certs, seen, generated, faults>>

\* The process ends, at whatever step of Run it is.
Crash(r) ==
  /\ pc[r] # "exited" /\ Fault("crash") /\ Goto(r, "exited")
  /\ UNCHANGED <<secret, config, certs, seen, generated, leaked>>

Restart(r) ==
  /\ pc[r] = "exited" /\ Goto(r, "get") /\ Load(r, None)
  /\ seen' = [seen EXCEPT ![r] = 0]
  /\ UNCHANGED <<secret, config, generated, leaked, faults>>

DeleteSecret ==
  /\ secret # None /\ Fault("delete") /\ secret' = None
  /\ UNCHANGED <<config, pc, certs, seen, generated, leaked>>

Starts(r) ==
  \/ GetSecret(r) \/ generateSecret(r) \/ CreateSecret(r) \/ Reread(r)
  \/ CreateWebhook(r) \/ CompareWebhook(r) \/ UpdateWebhook(r)
  \/ ListenAndServeTLS(r) \/ Restart(r)

Runs(r) == Starts(r) \/ ConfigureFails(r)

Next ==
  \/ \E r \in Replicas : Runs(r) \/ RegisterFails(r) \/ Review(r) \/ Crash(r)
  \/ DeleteSecret

Spec == Init /\ [][Next]_vars

\* A replica runs, and the kubelet restarts one that exited.
FairSpec == Spec /\ \A r \in Replicas : WF_vars(Runs(r))

-----------------------------------------------------------------------------
(* Replicas that serve present the certificates of the Secret, which the   *)
(* API server was told to trust, however their starts and crashes          *)
(* interleave (configureCerts, register); so while the webhook is up, a    *)
(* faulty AgentSet is rejected, not persisted (validating-webhook.md).     *)
(* This holds as long as no call to the API server fails and nobody        *)
(* deletes the Secret.                                                     *)
OneCertificate ==
  ~Happened("api") /\ ~Happened("delete") =>
    /\ \A r \in Replicas : pc[r] = "serving" => certs[r] = secret /\ config.ca = certs[r]
    /\ ~leaked

(* The replicas implement CertAgreement, failed calls and a deleted Secret *)
(* included: past configureCerts a replica goes by what it has loaded.     *)
Configured(r) == pc[r] \in {"register", "compare", "update", "listen", "serving"}
Agreement == INSTANCE CertAgreement
               WITH chosen <- secret,
                    holds <- [r \in Replicas |-> IF Configured(r) THEN certs[r] ELSE None]
ImplementsAgreement == Agreement!Spec

(* After the last failed call or crash, every replica comes to serve with  *)
(* the registered certificates (Run, register).                            *)
EventuallyTrusted ==
  []~Happened("delete") =>
    <>[](\A r \in Replicas : pc[r] = "serving" /\ certs[r] # None /\ config.ca = certs[r])

(* Even if the Secret is deleted, some replica ends up trusted: one that   *)
(* starts anew registers what it made (configureCerts, register).          *)
EventuallySomeTrusted ==
  <>[](/\ \A r \in Replicas : pc[r] = "serving"
       /\ \E r \in Replicas : config.ca = certs[r])
=============================================================================
