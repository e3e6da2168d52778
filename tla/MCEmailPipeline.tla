--------------------------- MODULE MCEmailPipeline ---------------------------
EXTENDS EmailPipeline

CONSTANTS d1, d2, w1, w2, t1, t2, k1, k2

(* Deliveries share the invocations and the tokens, nothing else: the run   *)
(* takes a transactional and a promotional one in turn.                     *)
OneAtATime == Cardinality({d \in Deliveries : status[d] # "NONE"}) <= 1
=============================================================================
