---------------------------- MODULE CertAgreement ----------------------------
(***************************************************************************)
(* What the replicas of the webhook promise each other: they go by one set *)
(* of certificates.  It is chosen once, by anyone, and from then on a      *)
(* replica takes up that set and no other, until it is lost.               *)
(***************************************************************************)
EXTENDS Naturals

CONSTANTS Replicas, None

VARIABLES chosen, holds     \* the certificates, and those each replica goes by

Init == chosen = None /\ holds = [r \in Replicas |-> None]

Choose == chosen = None /\ chosen' \in Nat \ {0} /\ UNCHANGED holds
Lose   == chosen # None /\ chosen' = None /\ UNCHANGED holds

Adopt(r) == chosen # None /\ holds' = [holds EXCEPT ![r] = chosen] /\ UNCHANGED chosen
Drop(r)  == holds' = [holds EXCEPT ![r] = None] /\ UNCHANGED chosen

Next == Choose \/ Lose \/ \E r \in Replicas : Adopt(r) \/ Drop(r)

Spec == Init /\ [][Next]_<<chosen, holds>>
==============================================================================
