----------------------------- MODULE MCJourneys -----------------------------
EXTENDS Journeys, TLC

CONSTANTS n1, n2, branch, delay, send, wait, end

(* One step of each type: a delay, an email and a wait; or the end at once. *)
JSteps == {branch, delay, send, wait, end}
JTypes == (branch :> "CONDITIONAL_BRANCH") @@ (delay :> "DELAY") @@ (send :> "SEND_CAMPAIGN")
          @@ (wait :> "WAIT_FOR_EVENT") @@ (end :> "END")
JNext  == (branch :> delay) @@ (delay :> send) @@ (send :> wait) @@ (wait :> end) @@ (end :> None)
JOther == (branch :> end) @@ (delay :> None) @@ (send :> None) @@ (wait :> None) @@ (end :> None)
(* Two troubles in a behaviour: a pause, an event, a failed run, or two     *)
(* runs at once; also the same one twice.                                   *)
TwoTroubles == pauses + seenEvents + faults + overlaps <= 2
=============================================================================
