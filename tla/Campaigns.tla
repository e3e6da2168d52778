------------------------------ MODULE Campaigns ------------------------------
(***************************************************************************)
(* One email campaign, its recipients and their deliveries:                *)
(*   EmailCampaignService: send now, schedule, pause, resume, cancel;      *)
(*   CampaignTriggerService: trigger, checkAndCompleteCampaign;            *)
(*   CampaignRecipientExecutor.executeRecipient, with and without a token; *)
(*   ServerlessJobProcessor.processCampaignRecipients;                     *)
(*   ReconciliationExecutor.reconcile, recipients and campaigns.           *)
(*                                                                         *)
(* One step is one statement or transaction, one provider call or its      *)
(* answer.  An admin request validates the campaign it has read and then   *)
(* writes it by id; a trigger is modelled as one more kind of request.     *)
(*                                                                         *)
(* A lock may be stale at any time its owner can have outlived it; no flag *)
(* is needed, since every step that asks may be preceded by ten minutes.   *)
(* The jobs of recipients are not modelled: a job may ask for any active   *)
(* recipient at any time.  Provider events are not modelled here.          *)
(***************************************************************************)
EXTENDS Integers, FiniteSets

CONSTANTS
    Recipients,     \* EmailCampaignRecipient ids of the campaign's audience
    Invocations,    \* concurrent invocations that execute recipients
    Reconcilers,    \* concurrent reconciliation sweeps
    Requests,       \* admin requests and triggers under way at once
    Tokens,         \* claim tokens
    Null,           \* SQL NULL, or no recipient at hand
    MaxAttempts,    \* maxAttempts of executeRecipient and reconcile
    AttemptCap,     \* bound: no claim raises attemptCount above this
    OwnersMayStall  \* FALSE: an invocation is killed before its lock is stale

ASSUME CampaignConstantsOK ==
    /\ Null \notin Tokens \cup Recipients
    /\ MaxAttempts \in Nat \ {0}
    /\ AttemptCap \in Nat \ {0}
    /\ OwnersMayStall \in BOOLEAN
    /\ Invocations \cap Reconcilers = {}

VARIABLES
    campaign,       \* EmailCampaign.status
    \* the EmailCampaignRecipient table
    status, attempts, lockedBy, sending,
    \* the EmailDelivery of each recipient; its lock always carries the marker
    dstatus, dlock,
    \* an admin request or trigger: the last thing it did
    request,
    \* the local variables of each invocation
    pc, cur, tok, attempt, batch,
    \* unmarked stale recipients a reconciliation has read and not yet handled
    snap,
    \* who has counted no active recipient and is about to complete the campaign
    closing,
    \* history: read by no guard
    accepted, overwritten, premature

recipient == <<status, attempts, lockedBy, sending>>
delivery  == <<dstatus, dlock>>
local     == <<pc, cur, tok, attempt, batch>>
history   == <<accepted, overwritten, premature>>
vars      == <<campaign, recipient, delivery, request, local, snap, closing, history>>

CampaignStatuses == {"DRAFT", "SCHEDULED", "RUNNING", "PAUSED", "COMPLETED", "FAILED", "CANCELLED"}
Active           == {"PENDING", "PROCESSING"}
(* UNKNOWN: FAILED with SEND_OUTCOME_UNKNOWN.                               *)
Settled          == {"SENT", "FAILED", "UNKNOWN", "CANCELLED", "SUPPRESSED"}
DeliveryStatuses == {"NONE", "QUEUED", "PROCESSING", "SENT", "FAILED", "UNKNOWN"}

Stages == {"none", "send", "frozen", "started", "schedule", "scheduled", "pause", "resume",
           "resumed", "counting", "counted", "cancel", "cancelling", "trigger", "triggered", "seeded"}
Phases == {"idle", "loaded", "sweeping", "claimed", "toCancel", "toPend", "toDrop", "checked",
           "unsent", "found", "marked", "sending", "accepted", "recorded",
           "requeueing", "failing", "completing"}

Snapshots ==
    [id : Recipients, lockedBy : Tokens \cup {Null}, attempts : Int, cancelled : BOOLEAN]

CampaignTypeOK ==
    /\ campaign \in CampaignStatuses
    /\ status \in [Recipients -> {"NONE"} \cup Active \cup Settled]
    /\ attempts \in [Recipients -> Int]
    /\ lockedBy \in [Recipients -> Tokens \cup {Null}]
    /\ sending \in [Recipients -> BOOLEAN]
    /\ dstatus \in [Recipients -> DeliveryStatuses]
    /\ dlock \in [Recipients -> Tokens \cup {Null}]
    /\ request \in [Requests -> Stages]
    /\ pc \in [Invocations -> Phases]
    /\ cur \in [Invocations -> Recipients \cup {Null}]
    /\ \A w \in Invocations : cur[w] \in Recipients <=> pc[w] \notin {"idle", "sweeping"}
    /\ tok \in [Invocations -> Tokens \cup {Null}]
    /\ attempt \in [Invocations -> Int]
    /\ batch \in [Invocations -> SUBSET Recipients]
    /\ snap \in [Reconcilers -> SUBSET Snapshots]
    /\ closing \in SUBSET (Invocations \cup Reconcilers)
    /\ accepted \in [Recipients -> Nat]
    /\ overwritten \in SUBSET Recipients
    /\ premature \in BOOLEAN

CampaignInit ==
    /\ campaign = "DRAFT"
    /\ status = [d \in Recipients |-> "NONE"]
    /\ attempts = [d \in Recipients |-> 0]
    /\ lockedBy = [d \in Recipients |-> Null]
    /\ sending = [d \in Recipients |-> FALSE]
    /\ dstatus = [d \in Recipients |-> "NONE"]
    /\ dlock = [d \in Recipients |-> Null]
    /\ request = [q \in Requests |-> "none"]
    /\ pc = [w \in Invocations |-> "idle"]
    /\ cur = [w \in Invocations |-> Null]
    /\ tok = [w \in Invocations |-> Null]
    /\ attempt = [w \in Invocations |-> 0]
    /\ batch = [w \in Invocations |-> {}]
    /\ snap = [r \in Reconcilers |-> {}]
    /\ closing = {}
    /\ accepted = [d \in Recipients |-> 0]
    /\ overwritten = {}
    /\ premature = FALSE

(* Mutant: only the PENDING recipients are counted.                         *)
NonePending == \A d \in Recipients : status[d] # "PENDING"

(* The count of active recipients is zero.                                  *)
NoneActive == \A d \in Recipients : status[d] \notin Active

-----------------------------------------------------------------------------
(* Admin requests.  Each reads the campaign, validates the transition and   *)
(* only then writes, by id.                                                 *)

(* VALID_TRANSITIONS; a transition to the same status is let through.       *)
ValidTransitions ==
    [DRAFT     |-> {"SCHEDULED", "RUNNING", "CANCELLED"},
     SCHEDULED |-> {"RUNNING", "PAUSED", "CANCELLED"},
     RUNNING   |-> {"PAUSED", "COMPLETED", "FAILED", "CANCELLED"},
     PAUSED    |-> {"RUNNING", "CANCELLED"},
     COMPLETED |-> {},
     CANCELLED |-> {},
     FAILED    |-> {"RUNNING"}]

Valid(target) == campaign = target \/ target \in ValidTransitions[campaign]

Goes(q, from, to) == request[q] = from /\ request' = [request EXCEPT ![q] = to]

Begin(q) ==
    /\ \/ Goes(q, "none", "send") /\ Valid("RUNNING")
       \/ Goes(q, "none", "schedule") /\ Valid("SCHEDULED")
       \/ Goes(q, "none", "pause") /\ Valid("PAUSED")
       \/ Goes(q, "none", "resume") /\ campaign \notin {"CANCELLED", "COMPLETED"} /\ Valid("RUNNING")
       \/ Goes(q, "none", "cancel") /\ campaign \notin {"CANCELLED", "COMPLETED"} /\ Valid("CANCELLED")
       \/ Goes(q, "none", "trigger") /\ campaign = "SCHEDULED"
    /\ UNCHANGED <<campaign, recipient, delivery, local, snap, closing, history>>

(* createRecipientSnapshot: one transaction; existing rows are kept.        *)
Freeze ==
    \E A \in SUBSET Recipients :
        status' = IF \E d \in Recipients : status[d] # "NONE" THEN status
                  ELSE [d \in Recipients |-> IF d \in A THEN "PENDING" ELSE "NONE"]

(* sendCampaignNow and triggerScheduledCampaign freeze the audience, the    *)
(* first before and the second after the campaign is RUNNING.               *)
FreezeAudience(q) ==
    /\ Freeze
    /\ \/ /\ \E d \in Recipients : status'[d] # "NONE"
          /\ Goes(q, "send", "frozen")
       \/ /\ \A d \in Recipients : status'[d] = "NONE"   \* nobody eligible: refused
          /\ Goes(q, "send", "none")
       \/ Goes(q, "triggered", "seeded")
    /\ UNCHANGED <<campaign, attempts, lockedBy, sending, delivery, local, snap, closing, history>>

(* History: was the campaign ever under way before its audience was frozen? *)
NotesPremature ==
    premature' = \/ premature
                 \/ /\ campaign' \in {"RUNNING", "PAUSED"}
                    /\ \A d \in Recipients : status[d] = "NONE"

(* The writes of the status by id.  A request that adds jobs afterwards may *)
(* fail to, and then writes once more.                                      *)
Write(q) ==
    /\ \/ Goes(q, "frozen", "started") /\ campaign' = "RUNNING"
       \/ Goes(q, "started", "none") /\ campaign' \in {campaign, "FAILED"}
       \/ Goes(q, "schedule", "scheduled") /\ campaign' = "SCHEDULED"
       \/ Goes(q, "scheduled", "none") /\ campaign' \in {campaign, "DRAFT"}
       \/ Goes(q, "pause", "none") /\ campaign' = "PAUSED"
       \/ Goes(q, "resume", "resumed") /\ campaign' = "RUNNING"
       \/ Goes(q, "cancelling", "none") /\ campaign' = "CANCELLED"
       \/ Goes(q, "trigger", "none") /\ campaign' = "FAILED"   \* invalid configuration
    /\ NotesPremature
    /\ UNCHANGED <<recipient, delivery, local, snap, closing, accepted, overwritten>>

(* resumeCampaign: add jobs for the PENDING recipients, or, when there are  *)
(* none, complete the campaign if none is PROCESSING either.                *)
Resume(q) ==
    /\ \/ /\ \E d \in Recipients : status[d] = "PENDING"
          /\ Goes(q, "resumed", "started")
          /\ UNCHANGED campaign
       \/ /\ \A d \in Recipients : status[d] # "PENDING"
          /\ Goes(q, "resumed", "counting")
          /\ UNCHANGED campaign
       \/ Goes(q, "counting", IF NoneActive THEN "counted" ELSE "none") /\ UNCHANGED campaign
       \/ Goes(q, "counted", "none") /\ campaign' = "COMPLETED"
    /\ UNCHANGED <<recipient, delivery, local, snap, closing, history>>

(* cancelCampaign: the PENDING recipients first.                            *)
CancelPending(q) ==
    /\ Goes(q, "cancel", "cancelling")
    /\ status' = [d \in Recipients |-> IF status[d] = "PENDING" THEN "CANCELLED" ELSE status[d]]
    /\ UNCHANGED <<campaign, attempts, lockedBy, sending, delivery, local, snap, closing, history>>

(* triggerScheduledCampaign: SCHEDULED -> RUNNING by conditional update.    *)
Trigger(q) ==
    /\ IF campaign = "SCHEDULED"
       THEN Goes(q, "trigger", "triggered") /\ campaign' = "RUNNING"
       ELSE Goes(q, "trigger", "none") /\ UNCHANGED campaign
    /\ NotesPremature
    /\ UNCHANGED <<recipient, delivery, local, snap, closing, accepted, overwritten>>

(* Afterwards: an empty audience completes the campaign by id, otherwise    *)
(* jobs are added.                                                          *)
Seeded(q) ==
    /\ Goes(q, "seeded", "none")
    /\ campaign' = IF \A d \in Recipients : status[d] = "NONE" THEN "COMPLETED" ELSE campaign
    /\ UNCHANGED <<recipient, delivery, local, snap, closing, history>>

(* A request is killed, or a statement of it fails.                         *)
RequestDies(q) ==
    /\ request[q] # "none"
    /\ request' = [request EXCEPT ![q] = "none"]
    /\ UNCHANGED <<campaign, recipient, delivery, local, snap, closing, history>>

-----------------------------------------------------------------------------
(* Locks of recipients.                                                     *)

InUse(t) ==
    \/ \E d \in Recipients : lockedBy[d] = t \/ dlock[d] = t
    \/ \E w \in Invocations : tok[w] = t
    \/ \E r \in Reconcilers : \E s \in snap[r] : s.lockedBy = t

(* The lock may be ten minutes old: its owner is gone, or stalls.           *)
MayBeStale(t) == OwnersMayStall \/ \A w \in Invocations : tok[w] # t

(* What the executor's conditional update may claim ...                     *)
Claimable(d) ==
    \/ status[d] = "PENDING"
    \/ status[d] = "PROCESSING" /\ ~sending[d] /\ MayBeStale(lockedBy[d])

Held(w, d) == status[d] = "PROCESSING" /\ lockedBy[d] = tok[w]

(* owned(): the lock carries the marker from the moment it was set.         *)
Marked(w) == pc[w] \in {"marked", "sending", "accepted", "recorded"}
Owned(w)  == Held(w, cur[w]) /\ sending[cur[w]] = Marked(w)

(* Every write that ends a claim, made where the lock is still ours.        *)
Leave(owned, d, s) ==
    /\ status' = IF owned THEN [status EXCEPT ![d] = s] ELSE status
    /\ lockedBy' = IF owned THEN [lockedBy EXCEPT ![d] = Null] ELSE lockedBy
    /\ sending' = IF owned THEN [sending EXCEPT ![d] = FALSE] ELSE sending

(* executeRecipient returns or throws; a sweep goes on to its next row.     *)
EndItem(w) ==
    /\ pc' = [pc EXCEPT ![w] = IF batch[w] = {} THEN "idle" ELSE "sweeping"]
    /\ tok' = [tok EXCEPT ![w] = IF batch[w] = {} THEN Null ELSE @]
    /\ cur' = [cur EXCEPT ![w] = Null]
    /\ attempt' = [attempt EXCEPT ![w] = 0]
    /\ UNCHANGED batch

Goto(w, phase) ==
    /\ pc' = [pc EXCEPT ![w] = phase]
    /\ UNCHANGED <<cur, tok, attempt, batch>>

-----------------------------------------------------------------------------
(* Claims: a job, without a token ...                                       *)

Load(w, d) ==
    /\ pc[w] = "idle"
    /\ status[d] \in Active
    /\ pc' = [pc EXCEPT ![w] = "loaded"]
    /\ cur' = [cur EXCEPT ![w] = d]
    /\ attempt' = [attempt EXCEPT ![w] = attempts[d] + 1]
    /\ UNCHANGED <<campaign, recipient, delivery, request, tok, batch, snap, closing, history>>

Claim(w) ==
    LET d == cur[w] IN
    /\ pc[w] = "loaded"
    /\ Claimable(d)
    /\ attempts[d] < AttemptCap
    /\ \E t \in Tokens :
          /\ ~InUse(t)
          /\ tok' = [tok EXCEPT ![w] = t]
          /\ lockedBy' = [lockedBy EXCEPT ![d] = t]
    /\ status' = [status EXCEPT ![d] = "PROCESSING"]
    /\ attempts' = [attempts EXCEPT ![d] = @ + 1]
    /\ sending' = [sending EXCEPT ![d] = FALSE]
    /\ pc' = [pc EXCEPT ![w] = "claimed"]
    /\ UNCHANGED <<campaign, delivery, request, cur, attempt, batch, snap, closing, history>>

(* Held, settled meanwhile, or (its lock not being stale) not claimable.    *)
ClaimRefused(w) ==
    /\ pc[w] = "loaded"
    /\ status[cur[w]] # "PENDING"
    /\ EndItem(w)
    /\ UNCHANGED <<campaign, recipient, delivery, request, snap, closing, history>>

(* ... and processCampaignRecipients, a batch under one token.              *)
SweepClaim(w, B) ==
    /\ pc[w] = "idle"
    /\ campaign = "RUNNING"
    /\ B # {}
    /\ \A d \in B : status[d] = "PENDING" /\ attempts[d] < AttemptCap
    /\ \E t \in Tokens :
          /\ ~InUse(t)
          /\ tok' = [tok EXCEPT ![w] = t]
          /\ lockedBy' = [d \in Recipients |-> IF d \in B THEN t ELSE lockedBy[d]]
    /\ status' = [d \in Recipients |-> IF d \in B THEN "PROCESSING" ELSE status[d]]
    /\ attempts' = [d \in Recipients |-> IF d \in B THEN attempts[d] + 1 ELSE attempts[d]]
    /\ sending' = [d \in Recipients |-> d \notin B /\ sending[d]]
    /\ batch' = [batch EXCEPT ![w] = B]
    /\ pc' = [pc EXCEPT ![w] = "sweeping"]
    /\ UNCHANGED <<campaign, delivery, request, cur, attempt, snap, closing, history>>

StartItem(w, d) ==
    /\ pc[w] = "sweeping"
    /\ d \in batch[w]
    /\ Held(w, d) /\ ~sending[d]
    /\ pc' = [pc EXCEPT ![w] = "claimed"]
    /\ cur' = [cur EXCEPT ![w] = d]
    /\ attempt' = [attempt EXCEPT ![w] = attempts[d]]
    /\ batch' = [batch EXCEPT ![w] = @ \ {d}]
    /\ UNCHANGED <<campaign, recipient, delivery, request, tok, snap, closing, history>>

SkipItem(w, d) ==
    /\ pc[w] = "sweeping"
    /\ d \in batch[w]
    /\ ~(Held(w, d) /\ ~sending[d])
    /\ batch' = [batch EXCEPT ![w] = @ \ {d}]
    /\ pc' = [pc EXCEPT ![w] = IF batch[w] = {d} THEN "idle" ELSE @]
    /\ tok' = [tok EXCEPT ![w] = IF batch[w] = {d} THEN Null ELSE @]
    /\ UNCHANGED <<campaign, recipient, delivery, request, cur, attempt, snap, closing, history>>

(* The deadline: the rows not started are put back by their ids.            *)
Release(w) ==
    LET B == batch[w] IN
    /\ pc[w] = "sweeping"
    /\ status' = [d \in Recipients |-> IF d \in B THEN "PENDING" ELSE status[d]]
    /\ lockedBy' = [d \in Recipients |-> IF d \in B THEN Null ELSE lockedBy[d]]
    /\ sending' = [d \in Recipients |-> d \notin B /\ sending[d]]
    /\ attempts' = [d \in Recipients |-> IF d \in B THEN attempts[d] - 1 ELSE attempts[d]]
    /\ pc' = [pc EXCEPT ![w] = "idle"]
    /\ tok' = [tok EXCEPT ![w] = Null]
    /\ batch' = [batch EXCEPT ![w] = {}]
    /\ overwritten' = overwritten \cup
          {d \in B : status[d] # "PENDING" /\ lockedBy[d] # tok[w]}
    /\ UNCHANGED <<campaign, delivery, request, cur, attempt, snap, closing, accepted, premature>>

-----------------------------------------------------------------------------
(* executeRecipient, the recipient claimed                                  *)

(* The campaign is read once; what was read decides.                        *)
CheckCampaign(w) ==
    /\ pc[w] = "claimed"
    /\ Goto(w, CASE campaign = "CANCELLED" -> "toCancel"
                 [] campaign = "PAUSED"    -> "toPend"
                 [] campaign = "COMPLETED" -> "toDrop"
                 [] OTHER                  -> "checked")
    /\ UNCHANGED <<campaign, recipient, delivery, request, snap, closing, history>>

Withdraw(w) ==
    /\ \/ /\ pc[w] = "toCancel"
          /\ Leave(Owned(w), cur[w], "CANCELLED")
          /\ Goto(w, "completing")
          /\ UNCHANGED attempts
       \/ /\ pc[w] = "toPend"
          /\ Leave(Owned(w), cur[w], "PENDING")
          /\ attempts' = IF Owned(w) THEN [attempts EXCEPT ![cur[w]] = @ - 1] ELSE attempts
          /\ EndItem(w)
       \/ /\ pc[w] = "toDrop"
          /\ Leave(Owned(w), cur[w], "CANCELLED")
          /\ EndItem(w)
          /\ UNCHANGED attempts
    /\ UNCHANGED <<campaign, delivery, request, snap, closing, history>>

(* The error thrown afterwards fails the claim, which is gone by then, and  *)
(* checks for completion once more: the same again.                         *)
Suppress(w) ==
    /\ pc[w] = "checked"
    /\ Leave(Owned(w), cur[w], "SUPPRESSED")
    /\ Goto(w, "completing")
    /\ UNCHANGED <<campaign, attempts, delivery, request, snap, closing, history>>

(* Mutant: the delivery of an earlier attempt is not looked up.             *)
FindNoDelivery(w) ==
    /\ pc[w] = "checked"
    /\ Goto(w, "unsent")
    /\ UNCHANGED <<campaign, recipient, delivery, request, snap, closing, history>>

(* Idempotency: a delivery that is SENT is never sent again.                *)
FindDelivery(w) ==
    /\ pc[w] = "checked"
    /\ Goto(w, IF dstatus[cur[w]] = "SENT" THEN "found" ELSE "unsent")
    /\ UNCHANGED <<campaign, recipient, delivery, request, snap, closing, history>>

MarkInFlight(w) ==
    /\ pc[w] = "unsent"
    /\ IF Owned(w)
       THEN /\ sending' = [sending EXCEPT ![cur[w]] = TRUE]
            /\ Goto(w, "marked")
       ELSE /\ EndItem(w)   \* CLAIM_LOST
            /\ UNCHANGED sending
    /\ UNCHANGED <<campaign, status, attempts, lockedBy, delivery, request, snap, closing, history>>

(* The delivery row, created or updated by id, and the provider call.       *)
WriteDelivery(w) ==
    /\ pc[w] = "marked"
    /\ dstatus' = [dstatus EXCEPT ![cur[w]] = "PROCESSING"]
    /\ dlock' = [dlock EXCEPT ![cur[w]] = tok[w]]
    /\ Goto(w, "sending")
    /\ UNCHANGED <<campaign, recipient, request, snap, closing, history>>

ProviderAccepts(w) ==
    /\ pc[w] = "sending"
    /\ accepted' = [accepted EXCEPT ![cur[w]] = @ + 1]
    /\ Goto(w, "accepted")
    /\ UNCHANGED <<campaign, recipient, delivery, request, snap, closing, overwritten, premature>>

RecordDelivery(w) ==
    /\ pc[w] = "accepted"
    /\ dstatus' = [dstatus EXCEPT ![cur[w]] = "SENT"]
    /\ dlock' = [dlock EXCEPT ![cur[w]] = Null]
    /\ Goto(w, "recorded")
    /\ UNCHANGED <<campaign, recipient, request, snap, closing, history>>

RecordRecipient(w) ==
    /\ pc[w] \in {"recorded", "found"}
    /\ Leave(Owned(w), cur[w], "SENT")
    /\ Goto(w, "completing")
    /\ UNCHANGED <<campaign, attempts, delivery, request, snap, closing, history>>

(* Mutant: the recipient is put back whether or not the delivery is recorded. *)
ReleaseUnrecorded(w) ==
    /\ pc[w] \in {"accepted", "recorded", "found"}
    /\ Leave(Owned(w), cur[w], "PENDING")
    /\ EndItem(w)
    /\ UNCHANGED <<campaign, attempts, delivery, request, snap, closing, history>>

(* The delivery is recorded but the recipient is not: it is put back, and   *)
(* its next execution will find the delivery.                               *)
BookkeepingFails(w) ==
    /\ pc[w] \in {"recorded", "found"}
    /\ Leave(Owned(w), cur[w], "PENDING")
    /\ EndItem(w)
    /\ UNCHANGED <<campaign, attempts, delivery, request, snap, closing, history>>

(* Any other error before the provider accepted, its refusal included: the  *)
(* recipient first, then the delivery if this execution wrote one.          *)
Fails(w, retryable) ==
    LET again == retryable /\ attempt[w] < MaxAttempts IN
    /\ pc[w] \in {"claimed", "toCancel", "toPend", "toDrop", "checked", "unsent", "marked", "sending"}
    /\ Leave(Owned(w), cur[w], IF again THEN "PENDING" ELSE "FAILED")
    /\ \/ pc[w] = "sending" /\ Goto(w, IF again THEN "requeueing" ELSE "failing")
       \/ pc[w] # "sending" /\ again /\ EndItem(w)
       \/ pc[w] # "sending" /\ ~again /\ Goto(w, "completing")
    /\ UNCHANGED <<campaign, attempts, delivery, request, snap, closing, history>>

ReleaseDelivery(w) ==
    LET d == cur[w]
        owned == dstatus[d] = "PROCESSING" /\ dlock[d] = tok[w]
    IN
    /\ pc[w] \in {"requeueing", "failing"}
    /\ dstatus' = IF owned
                  THEN [dstatus EXCEPT ![d] = IF pc[w] = "failing" THEN "FAILED" ELSE "QUEUED"]
                  ELSE dstatus
    /\ dlock' = IF owned THEN [dlock EXCEPT ![d] = Null] ELSE dlock
    /\ IF pc[w] = "failing" THEN Goto(w, "completing") ELSE EndItem(w)
    /\ UNCHANGED <<campaign, recipient, request, snap, closing, history>>

(* An error while handling an error, or after the provider accepted: the    *)
(* rows keep what they hold.                                                *)
GivesUp(w) ==
    /\ pc[w] \notin {"idle", "sweeping"}
    /\ EndItem(w)
    /\ closing' = closing \ {w}
    /\ UNCHANGED <<campaign, recipient, delivery, request, snap, history>>

Crash(w) ==
    /\ pc[w] # "idle"
    /\ pc' = [pc EXCEPT ![w] = "idle"]
    /\ tok' = [tok EXCEPT ![w] = Null]
    /\ batch' = [batch EXCEPT ![w] = {}]
    /\ cur' = [cur EXCEPT ![w] = Null]
    /\ attempt' = [attempt EXCEPT ![w] = 0]
    /\ closing' = closing \ {w}
    /\ UNCHANGED <<campaign, recipient, delivery, request, snap, history>>

-----------------------------------------------------------------------------
(* checkAndCompleteCampaign: count, then a conditional update.  Executors   *)
(* call it for their campaign, reconciliation for those it has just listed  *)
(* as RUNNING or PAUSED.                                                    *)

CountActive(x) ==
    /\ x \notin closing
    /\ IF NoneActive
       THEN closing' = closing \cup {x} /\ UNCHANGED local
       ELSE x \in Invocations /\ EndItem(x) /\ UNCHANGED closing
    /\ IF x \in Invocations THEN pc[x] = "completing" ELSE campaign \in {"RUNNING", "PAUSED"}
    /\ UNCHANGED <<campaign, recipient, delivery, request, snap, history>>

Complete(x) ==
    /\ x \in closing
    /\ closing' = closing \ {x}
    /\ campaign' = IF campaign \in {"RUNNING", "PAUSED"} THEN "COMPLETED" ELSE campaign
    /\ IF x \in Invocations THEN EndItem(x) ELSE UNCHANGED local
    /\ UNCHANGED <<recipient, delivery, request, snap, history>>

-----------------------------------------------------------------------------
(* ReconciliationExecutor.reconcile.  A marked lock is resolved under the   *)
(* token that was read, so reading and writing it can be one step; other    *)
(* recipients are read first and written by id later.                       *)

ReconcileDelivery(d) ==
    /\ dstatus[d] = "PROCESSING"
    /\ MayBeStale(dlock[d])
    /\ dstatus' = [dstatus EXCEPT ![d] = "UNKNOWN"]
    /\ dlock' = [dlock EXCEPT ![d] = Null]
    /\ UNCHANGED <<campaign, recipient, request, local, snap, closing, history>>

(* Mutant: a marked recipient is resolved by way of its delivery only.      *)
ReconcileWithDelivery(d) ==
    /\ status[d] = "PROCESSING" /\ sending[d] /\ dstatus[d] # "NONE"
    /\ MayBeStale(lockedBy[d])
    /\ Leave(TRUE, d, "UNKNOWN")
    /\ UNCHANGED <<campaign, attempts, delivery, request, local, snap, closing, history>>

ReconcileInFlight(d) ==
    /\ status[d] = "PROCESSING" /\ sending[d]
    /\ MayBeStale(lockedBy[d])
    /\ Leave(TRUE, d, "UNKNOWN")
    /\ UNCHANGED <<campaign, attempts, delivery, request, local, snap, closing, history>>

StaleRecipients ==
    {d \in Recipients : status[d] = "PROCESSING" /\ ~sending[d] /\ MayBeStale(lockedBy[d])}

ReconcileRead(r) ==
    /\ snap[r] = {}
    /\ \E S \in (SUBSET StaleRecipients) \ {{}} :
          snap' = [snap EXCEPT ![r] =
              {[id |-> d, lockedBy |-> lockedBy[d], attempts |-> attempts[d],
                cancelled |-> campaign = "CANCELLED"] : d \in S}]
    /\ UNCHANGED <<campaign, recipient, delivery, request, local, closing, history>>

(* By id and status only, whoever holds the recipient by now.               *)
ReconcileRecipient(r, s) ==
    /\ Leave(status[s.id] = "PROCESSING", s.id,
             IF s.cancelled THEN "CANCELLED"
             ELSE IF s.attempts >= MaxAttempts THEN "FAILED" ELSE "PENDING")
    /\ snap' = [snap EXCEPT ![r] = @ \ {s}]
    /\ overwritten' =
          IF status[s.id] = "PROCESSING" /\ (lockedBy[s.id] # s.lockedBy \/ sending[s.id])
          THEN overwritten \cup {s.id}
          ELSE overwritten
    /\ UNCHANGED <<campaign, attempts, delivery, request, local, closing, accepted, premature>>

ReconcileStops(r) ==
    /\ snap[r] # {} \/ r \in closing
    /\ snap' = [snap EXCEPT ![r] = {}]
    /\ closing' = closing \ {r}
    /\ UNCHANGED <<campaign, recipient, delivery, request, local, history>>

-----------------------------------------------------------------------------
Administer(q) ==
    Begin(q) \/ FreezeAudience(q) \/ Write(q) \/ Resume(q) \/ CancelPending(q)
    \/ Trigger(q) \/ Seeded(q) \/ RequestDies(q)

Execute(w) ==
    \/ Claim(w) \/ ClaimRefused(w) \/ CheckCampaign(w) \/ Withdraw(w) \/ Suppress(w)
    \/ FindDelivery(w) \/ MarkInFlight(w) \/ WriteDelivery(w) \/ ProviderAccepts(w)
    \/ RecordDelivery(w) \/ RecordRecipient(w) \/ BookkeepingFails(w)
    \/ \E retryable \in BOOLEAN : Fails(w, retryable)
    \/ ReleaseDelivery(w) \/ CountActive(w) \/ Complete(w)

Sweep(w) ==
    \/ \E B \in SUBSET Recipients : SweepClaim(w, B)
    \/ \E d \in Recipients : StartItem(w, d) \/ SkipItem(w, d)

ReconcileRow(r) == \E s \in snap[r] : ReconcileRecipient(r, s)

CampaignNext ==
    \/ \E q \in Requests : Administer(q)
    \/ \E w \in Invocations :
          \/ \E d \in Recipients : Load(w, d)
          \/ Execute(w) \/ Sweep(w) \/ Release(w) \/ GivesUp(w) \/ Crash(w)
    \/ \E d \in Recipients : ReconcileDelivery(d) \/ ReconcileInFlight(d)
    \/ \E r \in Reconcilers :
          ReconcileRead(r) \/ ReconcileRow(r) \/ ReconcileStops(r) \/ CountActive(r) \/ Complete(r)

CampaignSpec == CampaignInit /\ [][CampaignNext]_vars

-----------------------------------------------------------------------------
(* Properties.  overwritten holds the recipients on which a write by id hit *)
(* a claim other than the one its writer had seen.                          *)

(* A recipient is accepted by a provider at most once, through retries,     *)
(* crashes and repeated bookkeeping, unless its lock was overwritten.       *)
RecipientSentOnce == \A d \in Recipients \ overwritten : accepted[d] <= 1

(* A recipient a provider accepted is not lost track of: its delivery says  *)
(* SENT, or the marker is still on it, or it ended as SEND_OUTCOME_UNKNOWN. *)
(* No retry, cancellation or failure may hide the acceptance.               *)
AcceptanceLeavesTrace ==
    \A d \in Recipients \ overwritten : accepted[d] > 0 =>
        \/ dstatus[d] = "SENT"
        \/ status[d] = "PROCESSING" /\ sending[d]
        \/ status[d] = "UNKNOWN"

(* What the records say of a recipient: its delivery if that is SENT, its   *)
(* own status otherwise.                                                    *)
Outcome ==
    [d \in Recipients |->
        CASE dstatus[d] = "SENT" \/ status[d] = "SENT"           -> "sent"
          [] dstatus[d] # "SENT" /\ status[d] = "NONE"           -> "none"
          [] dstatus[d] # "SENT" /\ status[d] = "PENDING"        -> "queued"
          [] dstatus[d] # "SENT" /\ status[d] = "PROCESSING"     -> "working"
          [] dstatus[d] # "SENT" /\ status[d] = "UNKNOWN"        -> "unknown"
          [] dstatus[d] # "SENT" /\ status[d] \in {"FAILED", "CANCELLED", "SUPPRESSED"} -> "failed"]

Promise == INSTANCE SendPromise
    WITH Mails <- Recipients, outcome <- Outcome, times <- accepted, spoiled <- overwritten

(* Executors, requests and reconciliations together move each recipient     *)
(* only as SendPromise says, unless its lock was overwritten: two records,  *)
(* written one after the other by several actors, behave as one.            *)
RecipientsAsPromised == Promise!PromiseSpec

(* A campaign that is COMPLETED has no recipient left to serve, though the  *)
(* count and the update that follows are two statements: unless it was      *)
(* under way before its audience was frozen, or a lock was overwritten.     *)
CompletedMeansSettled ==
    campaign = "COMPLETED" /\ ~premature /\ overwritten = {} =>
        \A d \in Recipients : status[d] \notin Active

-----------------------------------------------------------------------------
(* The inductive invariant behind the first two properties, in named parts. *)

RecipientLockShape ==
    \A d \in Recipients :
        /\ lockedBy[d] # Null <=> status[d] = "PROCESSING"
        /\ sending[d] => lockedBy[d] # Null

(* What an invocation remembers in each phase.                              *)
ExecutorShape ==
    \A w \in Invocations :
        /\ tok[w] = Null <=> pc[w] \in {"idle", "loaded"}
        /\ tok[w] = Null => batch[w] = {}
        /\ cur[w] \notin batch[w]

ExecutorTokensUnique ==
    \A v, w \in Invocations : tok[v] = tok[w] /\ tok[v] # Null => v = w

(* A recipient its holder has not marked yet carries no marker.             *)
Unmarked == {"claimed", "toCancel", "toPend", "toDrop", "checked", "unsent", "found"}

UnsentIsUnmarked ==
    \A w \in Invocations, d \in Recipients :
        /\ lockedBy[d] = tok[w]
        /\ d \in batch[w] \/ (pc[w] \in Unmarked /\ d = cur[w])
        => ~sending[d]

(* From the marker to the end of the bookkeeping the row carries the        *)
(* marker, until reconciliation resolves it to SEND_OUTCOME_UNKNOWN ...     *)
SendIsMarked ==
    \A w \in Invocations :
        Marked(w) /\ cur[w] \notin overwritten => Owned(w) \/ status[cur[w]] = "UNKNOWN"

(* ... and nobody else is that far.                                         *)
OneSender ==
    \A v, w \in Invocations :
        Marked(v) /\ Marked(w) /\ cur[v] = cur[w] /\ cur[w] \notin overwritten => v = w

(* What each phase knows of the acceptance.                                 *)
PhasesKnow ==
    \A w \in Invocations : cur[w] \notin overwritten =>
        /\ pc[w] = "unsent" /\ Owned(w) => accepted[cur[w]] = 0
        /\ pc[w] \in {"marked", "sending"} => accepted[cur[w]] = 0
        /\ pc[w] = "recorded" => dstatus[cur[w]] = "SENT"

CampaignIInv ==
    /\ CampaignTypeOK /\ RecipientLockShape /\ ExecutorShape /\ ExecutorTokensUnique
    /\ UnsentIsUnmarked /\ SendIsMarked /\ OneSender
    /\ PhasesKnow /\ RecipientSentOnce /\ AcceptanceLeavesTrace

(* What is recorded as sent was accepted, and whoever found the record of   *)
(* the delivery may rely on it.                                             *)
RecordedIsAccepted ==
    \A d \in Recipients \ overwritten :
        /\ dstatus[d] = "SENT" => accepted[d] > 0
        /\ status[d] = "SENT" => dstatus[d] = "SENT"
        /\ \A w \in Invocations : cur[w] = d =>
              /\ pc[w] = "accepted" => accepted[d] > 0
              /\ pc[w] = "found" => dstatus[d] = "SENT"

(* For completion: who may complete the campaign, or serve it, came after   *)
(* its audience was frozen ...                                              *)
Frozen == \E d \in Recipients : status[d] # "NONE"

UnderWayIsFrozen ==
    \/ campaign \in {"RUNNING", "PAUSED", "COMPLETED"}
    \/ \E q \in Requests : request[q] \in {"resumed", "counting", "counted", "triggered", "seeded"}
    \/ \E w \in Invocations : pc[w] # "idle"
    \/ closing # {}
    => Frozen

(* ... and what was counted as settled stays settled.                       *)
CountedIsSettled ==
    \/ campaign = "COMPLETED"
    \/ closing # {}
    \/ \E q \in Requests : request[q] = "counted"
    => NoneActive

CompletionIInv == ~premature /\ overwritten = {} => UnderWayIsFrozen /\ CountedIsSettled

-----------------------------------------------------------------------------
(* Fairness.  Invocations and reconciliations come again and again, so live *)
(* ones take their next step.  A recipient can be claimed and put back at   *)
(* the deadline for ever, and a reconciliation be cut off: what is needed   *)
(* is a turn that gets that far, again and again.                           *)
CampaignFairness ==
    /\ \A w \in Invocations : WF_vars(Execute(w)) /\ WF_vars(\E d \in Recipients : SkipItem(w, d))
    /\ \A w \in Invocations, d \in Recipients :
          /\ SF_vars(\E B \in SUBSET Recipients : d \in B /\ SweepClaim(w, B))
          /\ SF_vars(StartItem(w, d))
    /\ \A d \in Recipients : WF_vars(ReconcileDelivery(d)) /\ WF_vars(ReconcileInFlight(d))
    /\ \A r \in Reconcilers :
          /\ SF_vars(ReconcileRead(r)) /\ SF_vars(ReconcileRow(r))
          /\ SF_vars(CountActive(r)) /\ SF_vars(Complete(r))

FairCampaignSpec == CampaignSpec /\ CampaignFairness

(* No campaign is left running: it completes, or someone stops it           *)
(* (documentation/flags.md:219).  The bound on claims stands for no code: a  *)
(* recipient waiting there is not looked at any further.                    *)
CampaignCompletes ==
    campaign = "RUNNING" ~>
        \/ campaign # "RUNNING"
        \/ \E d \in Recipients : status[d] = "PENDING" /\ attempts[d] = AttemptCap
=============================================================================
