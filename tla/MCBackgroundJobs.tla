-------------------------- MODULE MCBackgroundJobs --------------------------
EXTENDS BackgroundJobs, TLC

CONSTANTS w1, w2, t1, t2, t3, t4, j1

(* Invocations and tokens are interchangeable: no step tells them apart.    *)
Symmetry == Permutations(Invocations) \cup Permutations(Tokens)
=============================================================================
