----------------------------- MODULE MCCampaigns -----------------------------
EXTENDS Campaigns, TLC

CONSTANTS r1, w1, w2, q1, rec, t1, t2, t3, t4

(* Invocations and tokens are interchangeable: no step tells them apart.    *)
Symmetry == Permutations(Invocations) \cup Permutations(Tokens)
=============================================================================
