----------------------------- MODULE MCCampaign -----------------------------
(* Small instances of Campaign: two workers, two campaign rows and two    *)
(* platform users.                                                         *)
EXTENDS Campaign, TLC

CONSTANTS w1, w2, p1, p2

MCSymmetry == Permutations({w1, w2}) \cup Permutations({p1, p2})
=============================================================================
