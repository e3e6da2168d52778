-------------------------- MODULE OutboundWebhooks --------------------------
(***************************************************************************)
(* The deliveries of outgoing webhooks (lib/webhooks/dispatcher.ts):       *)
(*   dispatchOutgoingWebhooks creates a PENDING row and attempts it at     *)
(*     once, without a claim;                                              *)
(*   processWebhookDeliveryQueue puts back what has been PROCESSING for    *)
(*     two minutes, claims a batch, and attempts its rows one by one;      *)
(*   deliverWebhookPayload is the retry an administrator asks for.         *)
(* All three end in executeDeliveryAttempt, which writes by id.            *)
(***************************************************************************)
EXTENDS Integers, FiniteSets

CONSTANTS
    Hooks,          \* the WebhookDelivery rows
    Attempters,     \* concurrent runs: a dispatch, a queue run or a manual retry
    MaxRetries,     \* OUTBOUND_WEBHOOK_MAX_RETRIES (5)
    QueueCap,       \* the most retries the queue's claim looks at (10)
    MaxFaults,      \* bound: runs that die, and writes that fail
    MaxManual,      \* bound: retries an administrator asks for
    RunsMayStall    \* FALSE: a run ends before its claims are two minutes old

ASSUME WebhookConstantsOK ==
    /\ MaxRetries \in Nat
    /\ QueueCap \in Nat \ {0}
    /\ MaxFaults \in Nat
    /\ MaxManual \in Nat
    /\ RunsMayStall \in BOOLEAN

None == -1   \* no row

VARIABLES
    \* WebhookDelivery: its status, attemptCount, and whether lockedAt is stale
    wstatus, wcount, wstale,
    \* a run: the attempt counts it read of the rows it has not finished, the row
    \* it has sent, and what the endpoint answered
    batch, sent, answer,
    \* history: times the endpoint took the event; rows two runs had at once or
    \* that were retried by hand; rows with an outcome that was lost; the counts
    \* of bounded steps
    taken, overlapped, lost, faults, retries

rows    == <<wstatus, wcount, wstale>>
runs    == <<batch, sent, answer>>
history == <<taken, overlapped, lost, faults, retries>>
wvars   == <<rows, runs, history>>

DeliveryStatuses == {"NONE", "PENDING", "PROCESSING", "SUCCESS", "FAILED"}
Answers == {"none", "ok", "later", "refused"}

WebhookTypeOK ==
    /\ wstatus \in [Hooks -> DeliveryStatuses]
    /\ wcount \in [Hooks -> Nat]
    /\ wstale \in SUBSET Hooks
    /\ batch \in [Attempters -> [Hooks -> Nat \cup {None}]]
    /\ sent \in [Attempters -> SUBSET Hooks]
    /\ answer \in [Attempters -> Answers]
    /\ \A a \in Attempters, d \in Hooks :
          d \in sent[a] => batch[a][d] # None /\ sent[a] = {d} /\ answer[a] # "none"
    /\ taken \in [Hooks -> Nat]
    /\ overlapped \in SUBSET Hooks
    /\ lost \in SUBSET Hooks
    /\ faults \in 0..MaxFaults
    /\ retries \in 0..MaxManual

Nothing == [d \in Hooks |-> None]

WebhookInit ==
    /\ wstatus = [d \in Hooks |-> "NONE"]
    /\ wcount = [d \in Hooks |-> 0]
    /\ wstale = {}
    /\ batch = [a \in Attempters |-> Nothing]
    /\ sent = [a \in Attempters |-> {}]
    /\ answer = [a \in Attempters |-> "none"]
    /\ taken = [d \in Hooks |-> 0]
    /\ overlapped = {}
    /\ lost = {}
    /\ faults = 0
    /\ retries = 0

-----------------------------------------------------------------------------
Has(a, d) == batch[a][d] # None

(* Run a takes on the rows D, with the attempt counts it read.              *)
TakeOn(a, D) ==
    /\ batch[a] = Nothing
    /\ batch' = [batch EXCEPT ![a] = [d \in Hooks |-> IF d \in D THEN wcount[d] ELSE None]]
    /\ UNCHANGED <<sent, answer, taken, lost, faults>>

Shared(D) == {d \in D : \E b \in Attempters : Has(b, d)}

(* Run a is done with row d; without another row it is over.                *)
Drop(a, d) ==
    /\ batch' = [batch EXCEPT ![a][d] = None]
    /\ sent' = [sent EXCEPT ![a] = {}]
    /\ answer' = [answer EXCEPT ![a] = "none"]

(* dispatchOutgoingWebhooks: the row is created, and attempted at once.     *)
Dispatch(a, d) ==
    /\ wstatus[d] = "NONE"
    /\ wstatus' = [wstatus EXCEPT ![d] = "PENDING"]
    /\ TakeOn(a, {d})
    /\ UNCHANGED <<wcount, wstale, overlapped, retries>>

(* Mutant: what is not being attempted is due.                              *)
DueUnlessClaimed(d) == wstatus[d] \notin {"NONE", "PROCESSING"} /\ wcount[d] < MaxRetries

(* The rows the queue may claim; the backoff is over at some time.          *)
Due(d) ==
    /\ wstatus[d] = "PENDING"
    /\ wcount[d] < IF MaxRetries > QueueCap THEN QueueCap
                   ELSE IF MaxRetries < 1 THEN 1 ELSE MaxRetries

(* One statement, FOR UPDATE SKIP LOCKED: a batch is claimed.               *)
Claim(a, D) ==
    /\ D # {}
    /\ \A d \in D : Due(d)
    /\ wstatus' = [d \in Hooks |-> IF d \in D THEN "PROCESSING" ELSE wstatus[d]]
    /\ wstale' = wstale \ D
    /\ overlapped' = overlapped \cup Shared(D)
    /\ TakeOn(a, D)
    /\ UNCHANGED <<wcount, retries>>

(* An administrator retries a row, whatever its status.                     *)
Retry(a, d) ==
    /\ wstatus[d] # "NONE"
    /\ retries < MaxManual
    /\ retries' = retries + 1
    /\ overlapped' = overlapped \cup {d}
    /\ TakeOn(a, {d})
    /\ UNCHANGED rows

(* Two minutes pass since row d was claimed.                                *)
LockAges(d) ==
    /\ wstatus[d] = "PROCESSING"
    /\ d \notin wstale
    /\ RunsMayStall \/ \A a \in Attempters : ~Has(a, d)
    /\ wstale' = wstale \cup {d}
    /\ UNCHANGED <<wstatus, wcount, runs, history>>

(* Mutant: nothing is put back.                                             *)
ReclaimNothing ==
    /\ wstale # {}
    /\ wstale' = {}
    /\ UNCHANGED <<wstatus, wcount, runs, history>>

(* Before it claims, the queue puts back what a dead run left.              *)
Reclaim ==
    /\ wstale # {}
    /\ wstatus' = [d \in Hooks |-> IF d \in wstale THEN "PENDING" ELSE wstatus[d]]
    /\ wstale' = {}
    /\ UNCHANGED <<wcount, runs, history>>

(* Between two rows, short of time, the queue run releases those it has not *)
(* begun, if they are still PROCESSING.                                     *)
Release(a) ==
    /\ batch[a] # Nothing
    /\ sent[a] = {}
    /\ LET claimed == {d \in Hooks : Has(a, d) /\ wstatus[d] = "PROCESSING"} IN
       /\ claimed # {}
       /\ wstatus' = [d \in Hooks |-> IF d \in claimed THEN "PENDING" ELSE wstatus[d]]
       /\ wstale' = wstale \ claimed
    /\ batch' = [batch EXCEPT ![a] = Nothing]
    /\ UNCHANGED <<wcount, sent, answer, history>>

(* The secret cannot be decrypted (the count is left alone), or the address *)
(* is not a safe one (the attempt is counted): FAILED, by id.               *)
Reject(a, d, counts) ==
    /\ Has(a, d)
    /\ sent[a] = {}
    /\ wstatus' = [wstatus EXCEPT ![d] = "FAILED"]
    /\ wcount' = [wcount EXCEPT ![d] = IF counts THEN batch[a][d] + 1 ELSE @]
    /\ wstale' = wstale \ {d}
    /\ Drop(a, d)
    /\ UNCHANGED history

(* The request: 2xx, 4xx, or 5xx and no answer at all, when the endpoint    *)
(* may have taken the event all the same.                                   *)
Post(a, d, reply, took) ==
    /\ Has(a, d)
    /\ sent[a] = {}
    /\ reply = "ok" => took
    /\ reply = "refused" => ~took
    /\ sent' = [sent EXCEPT ![a] = {d}]
    /\ answer' = [answer EXCEPT ![a] = reply]
    /\ taken' = [taken EXCEPT ![d] = IF took THEN @ + 1 ELSE @]
    /\ lost' = IF took /\ reply = "later" THEN lost \cup {d} ELSE lost
    /\ UNCHANGED <<rows, batch, overlapped, faults, retries>>

(* The status an attempt leads to; count is that of the attempts made.      *)
NextStatus(reply, count) ==
    IF reply = "ok" THEN "SUCCESS"
    ELSE IF reply = "later" /\ count < MaxRetries THEN "PENDING" ELSE "FAILED"

(* The outcome is written by id, with the count the run read plus one.      *)
Record(a, d) ==
    /\ d \in sent[a]
    /\ wstatus' = [wstatus EXCEPT ![d] = NextStatus(answer[a], batch[a][d] + 1)]
    /\ wcount' = [wcount EXCEPT ![d] = batch[a][d] + 1]
    /\ wstale' = wstale \ {d}
    /\ Drop(a, d)
    /\ UNCHANGED history

(* The write fails, which is only logged; or the whole run dies.            *)
Fault == faults < MaxFaults /\ faults' = faults + 1

RecordFails(a, d) ==
    /\ d \in sent[a]
    /\ Fault
    /\ lost' = lost \cup {d}
    /\ Drop(a, d)
    /\ UNCHANGED <<rows, taken, overlapped, retries>>

RunDies(a) ==
    /\ batch[a] # Nothing
    /\ Fault
    /\ lost' = lost \cup sent[a]
    /\ batch' = [batch EXCEPT ![a] = Nothing]
    /\ sent' = [sent EXCEPT ![a] = {}]
    /\ answer' = [answer EXCEPT ![a] = "none"]
    /\ UNCHANGED <<rows, taken, overlapped, retries>>

-----------------------------------------------------------------------------
Attempt(a, d) ==
    \/ \E counts \in BOOLEAN : Reject(a, d, counts)
    \/ \E reply \in {"ok", "later", "refused"}, took \in BOOLEAN : Post(a, d, reply, took)
    \/ Record(a, d)

Queue == \E a \in Attempters, D \in SUBSET Hooks : Claim(a, D)

WebhookNext ==
    \/ \E a \in Attempters :
          \/ \E d \in Hooks :
                Dispatch(a, d) \/ Retry(a, d) \/ Attempt(a, d) \/ RecordFails(a, d)
          \/ Release(a) \/ RunDies(a)
    \/ Queue
    \/ \E d \in Hooks : LockAges(d)
    \/ Reclaim

WebhookSpec == WebhookInit /\ [][WebhookNext]_wvars

(* pg_cron runs the queue every minute, so a row that is due again and      *)
(* again is claimed, and a row that is claimed again and again is attempted *)
(* (the queue is short of time for some rows, not for the oldest every      *)
(* time); time passes.                                                      *)
WebhookFairness ==
    /\ \A d \in Hooks :
          /\ \A a \in Attempters : SF_wvars(Attempt(a, d))
          /\ SF_wvars(\E a \in Attempters, D \in SUBSET Hooks : d \in D /\ Claim(a, D))
          /\ WF_wvars(LockAges(d))
    /\ WF_wvars(Reclaim)

FairWebhookSpec == WebhookSpec /\ WebhookFairness

-----------------------------------------------------------------------------
(* Properties                                                               *)

(* The endpoint takes an event once, a row that says SUCCESS was taken and  *)
(* one that was given up was not - unless an outcome was lost (an answer, a *)
(* write, a run) or two runs had the row.                                   *)
TakenAsRecorded ==
    \A d \in Hooks \ (lost \cup overlapped) :
        /\ taken[d] \in IF wstatus[d] = "SUCCESS" THEN {1} ELSE {0, 1}
        /\ wstatus[d] = "FAILED" => taken[d] = 0

(* A row that is being served, or waits, is not counted beyond the limit:   *)
(* the next attempt on it is one the queue would still make.                *)
WaitingIsDue ==
    \A d \in Hooks \ overlapped :
        wstatus[d] \in {"PENDING", "PROCESSING"} => wcount[d] = 0 \/ wcount[d] < MaxRetries

(* Every webhook is delivered or given up, whatever dies.                   *)
WebhooksSettle ==
    \A d \in Hooks : wstatus[d] # "NONE" ~> wstatus[d] \in {"SUCCESS", "FAILED"}
=============================================================================
