-------------------------- MODULE MCEvidenceLedger --------------------------
(* Instances of EvidenceLedger for TLC. *)
EXTENDS EvidenceLedger, TLC

CONSTANTS m1, m2, k1, k2

\* An injective stand-in for sha256 of canonical JSON.
Sha256(x) == <<"sha256", x>>

OwnKeys == m1 :> k1 @@ m2 :> k2
CollidingKeys == m1 :> k1 @@ m2 :> k1
=============================================================================
