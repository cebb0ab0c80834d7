------------------------------ MODULE MCPostal ------------------------------
(* Small instances of Postal: two workers and two jobs.  The core        *)
(* instance queues a delivery to a reachable user and a campaign; the     *)
(* policy instances a delivery to a globally unsubscribed user and a      *)
(* payload that does not decode, the kind critical or not.                *)
EXTENDS Postal, TLC

CONSTANTS w1, w2, u1, u2

MCJobKind == (1 :> "delivery" @@ 2 :> "campaign")
MCJobUser == (1 :> u1 @@ 2 :> u1)
MCPolicyJobKind == (1 :> "delivery" @@ 2 :> "malformed")
MCPolicyJobUser == (1 :> u2 @@ 2 :> u1)

MCEmailOf == (u1 :> "valid" @@ u2 :> "valid")

MCSymmetry == Permutations({w1, w2})
=============================================================================
