---------------------------- MODULE MCEmailEvents ----------------------------
EXTENDS EmailEvents

CONSTANTS d1, e1, e2, w1, q1

(* Both events are about the one delivery; opens and clicks come beside them. *)
AboutTheOne == [e \in Events |-> d1]
AnyNews     == [e \in Events |-> IF e = e1
                                 THEN {"DELIVERED", "HARD_BOUNCE", "COMPLAINT", "FAILED",
                                       "UNSUBSCRIBED"}
                                 ELSE {"COMPLAINT"}]

(* The second event joins a first that is on record: then no request of the *)
(* mail client is under way, the executor has one attempt, and the events   *)
(* two between them.                                                        *)
SecondIsSimple ==
    estatus[e2] # "NONE" =>
        /\ estatus[e1] # "NONE" /\ e1 \notin posting
        /\ kind[e1] \in {"DELIVERED", "COMPLAINT"}
        /\ qpc[q1] = "idle"
        /\ sends[d1] <= 1
        /\ attempts[e1] + attempts[e2] <= 2
=============================================================================
