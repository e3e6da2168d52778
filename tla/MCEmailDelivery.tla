-------------------------- MODULE MCEmailDelivery --------------------------
EXTENDS EmailDelivery

CONSTANTS w1, w2, t1, t2

(* A row is either in doubt or overwritten: of one that is overwritten      *)
(* AcceptedAtMostOnce says nothing.                                         *)
OneException == \A d \in Deliveries : hidden[d] > 0 => d \notin overwritten
=============================================================================
