---------------------------- MODULE EmailEvents ----------------------------
(***************************************************************************)
(* What happens to a campaign email after it was handed to the provider:   *)
(*   POST /api/email/webhooks/:provider and the mailbox bounce scan, which *)
(*     record EmailEvent rows (EmailEventService.recordAndEnqueueEvent);   *)
(*   EmailEventService.processEventFromWorker, run by jobs and by sweeps;  *)
(*   EmailTrackingService.recordOpen and recordClick, the tracked requests *)
(*     of the recipient's mail client;                                     *)
(*   the end of CampaignRecipientExecutor.executeRecipient and the         *)
(*     reconciliation, which write the same three rows: the delivery, the  *)
(*     recipient and the campaign's counters.                              *)
(*                                                                         *)
(* One step is one database statement.  Claims between executors are the   *)
(* subject of Campaigns; here one executor serves each recipient.  The     *)
(* completion check that ends several of these handlers is there, too.     *)
(***************************************************************************)
EXTENDS Integers, FiniteSets

CONSTANTS
    Deliveries,       \* campaign recipients, each with its EmailDelivery
    Events,           \* provider events, told apart by providerEventId
    EventOf,          \* the delivery an event is about
    ById,             \* events that carry the deliveryId; the others carry the provider's message id
    KindsOf,          \* the kinds an event may have
    Invocations,      \* concurrent invocations that process events
    Requests,         \* concurrent tracking requests
    MaxEventAttempts, \* MAX_EVENT_ATTEMPTS (5)
    MaxSends,         \* maxAttempts of executeRecipient (5)
    Null

EventKinds == {"SENT", "DELIVERED", "OPENED", "FAILED", "HARD_BOUNCE", "SOFT_BOUNCE",
               "COMPLAINT", "UNSUBSCRIBED"}

ASSUME EventConstantsOK ==
    /\ EventOf \in [Events -> Deliveries]
    /\ ById \subseteq Events
    /\ KindsOf \in [Events -> SUBSET EventKinds]
    /\ MaxEventAttempts \in Nat \ {0}
    /\ MaxSends \in Nat \ {0}
    /\ Null \notin Events \cup Deliveries

VARIABLES
    \* EmailDelivery: its status, and whether its providerMessageId is stored
    dstatus, known,
    \* EmailCampaignRecipient, and its share of the campaign's counters
    rstatus, counted,
    \* EmailSuppression of the recipient's address
    suppressed,
    \* EmailEvent: kind, status, attempts
    kind, estatus, attempts,
    \* the executor of each recipient, the attempts it claimed, what it read, the
    \* in-flight marker of the recipient's lock, and what the provider accepted
    spc, sends, sseen, marked, accepted,
    \* the events whose webhook request has not yet added their job
    posting,
    \* the local variables of the event processors and of the tracking requests
    pc, cur, used, seen, rseen,
    qpc, qcur, qseen, qrseen,
    \* history: deliveries on which a write by id missed a change since its read
    raced

mail     == <<dstatus, known, rstatus, counted, suppressed>>
events   == <<kind, estatus, attempts>>
sender   == <<spc, sends, sseen, marked, accepted>>
worker   == <<pc, cur, used, seen, rseen>>
tracking == <<qpc, qcur, qseen, qrseen>>
vars     == <<mail, events, sender, posting, worker, tracking, raced>>

(* A recipient that is SUPPRESSED or CANCELLED is FAILED here: none of them *)
(* is served again, and no code below tells them apart.                      *)
Statuses    == {"NONE", "QUEUED", "PROCESSING", "SENT", "DELIVERED", "BOUNCED", "COMPLAINED", "FAILED"}
RStatuses   == {"PENDING", "PROCESSING", "SENT", "DELIVERED", "BOUNCED", "COMPLAINED", "FAILED"}
Metrics     == {"SENT", "DELIVERED", "BOUNCED", "COMPLAINED"}
EventStates == {"NONE", "RECEIVED", "PROCESSING", "PROCESSED", "FAILED"}
Phases      == {"idle", "loaded", "claimed", "apply", "recipient", "complaint", "complain",
                "count", "policy", "finish"}
QPhases     == {"idle", "delivery", "recipient", "count"}
SPhases     == {"idle", "looked", "sending", "bookkeeping"}

MailTypeOK ==
    /\ dstatus \in [Deliveries -> Statuses]
    /\ known \in [Deliveries -> BOOLEAN]
    /\ rstatus \in [Deliveries -> RStatuses]
    /\ counted \in [Deliveries -> [Metrics -> Nat]]
    /\ suppressed \in SUBSET Deliveries
    /\ raced \in SUBSET Deliveries

SenderTypeOK ==
    /\ spc \in [Deliveries -> SPhases]
    /\ sends \in [Deliveries -> 0..MaxSends]
    /\ sseen \in [Deliveries -> Statuses]
    /\ marked \in SUBSET Deliveries
    /\ accepted \in SUBSET Deliveries

WorkerTypeOK ==
    /\ kind \in [Events -> EventKinds]
    /\ estatus \in [Events -> EventStates]
    /\ attempts \in [Events -> 0..MaxEventAttempts]
    /\ posting \in SUBSET Events
    /\ pc \in [Invocations -> Phases]
    /\ cur \in [Invocations -> Events \cup {Null}]
    /\ \A w \in Invocations : cur[w] \in Events <=> pc[w] # "idle"
    /\ used \in [Invocations -> 0..MaxEventAttempts]
    /\ seen \in [Invocations -> Statuses]
    /\ rseen \in [Invocations -> RStatuses]

TrackingTypeOK ==
    /\ qpc \in [Requests -> QPhases]
    /\ qcur \in [Requests -> Deliveries \cup {Null}]
    /\ \A q \in Requests : qcur[q] \in Deliveries <=> qpc[q] # "idle"
    /\ qseen \in [Requests -> Statuses]
    /\ qrseen \in [Requests -> RStatuses]

EventTypeOK == MailTypeOK /\ SenderTypeOK /\ WorkerTypeOK /\ TrackingTypeOK

Init ==
    /\ dstatus = [d \in Deliveries |-> "NONE"]
    /\ known = [d \in Deliveries |-> FALSE]
    /\ rstatus = [d \in Deliveries |-> "PENDING"]
    /\ counted = [d \in Deliveries |-> [m \in Metrics |-> 0]]
    /\ suppressed = {}
    /\ kind \in [Events -> EventKinds] /\ \A e \in Events : kind[e] \in KindsOf[e]
    /\ estatus = [e \in Events |-> "NONE"]
    /\ attempts = [e \in Events |-> 0]
    /\ spc = [d \in Deliveries |-> "idle"]
    /\ sends = [d \in Deliveries |-> 0]
    /\ sseen = [d \in Deliveries |-> "NONE"]
    /\ marked = {}
    /\ accepted = {}
    /\ posting = {}
    /\ pc = [w \in Invocations |-> "idle"]
    /\ cur = [w \in Invocations |-> Null]
    /\ used = [w \in Invocations |-> 0]
    /\ seen = [w \in Invocations |-> "NONE"]
    /\ rseen = [w \in Invocations |-> "PENDING"]
    /\ qpc = [q \in Requests |-> "idle"]
    /\ qcur = [q \in Requests |-> Null]
    /\ qseen = [q \in Requests |-> "NONE"]
    /\ qrseen = [q \in Requests |-> "PENDING"]
    /\ raced = {}

-----------------------------------------------------------------------------
(* The delivery state machine                                               *)

Outcomes == {"DELIVERED", "BOUNCED", "COMPLAINED"}
Settled  == Outcomes \cup {"FAILED"}

(* Mutant: a delivered mail may still bounce.                               *)
CanBounceLate(current, target) ==
    \/ current \in {"QUEUED", "PROCESSING"} /\ target # current /\ target # "QUEUED"
    \/ current = "SENT" /\ target \in Settled
    \/ current = "DELIVERED" /\ target \in {"COMPLAINED", "BOUNCED"}

(* Mutant: a status may be applied again.                                   *)
CanRepeat(current, target) ==
    \/ current = "QUEUED" /\ target # current
    \/ current = "PROCESSING" /\ target \in Settled \cup {"SENT"}
    \/ current = "SENT" /\ target \in Settled
    \/ current = "DELIVERED" /\ target \in {"COMPLAINED", "DELIVERED"}

(* canTransitionDeliveryStatus                                              *)
CanTransition(current, target) ==
    \/ current = "QUEUED" /\ target # current
    \/ current = "PROCESSING" /\ target \in Settled \cup {"SENT"}
    \/ current = "SENT" /\ target \in Settled
    \/ current = "DELIVERED" /\ target = "COMPLAINED"

(* mapEventToDeliveryStatus                                                 *)
Target(k) ==
    CASE k = "SENT" -> "SENT"
      [] k \in {"DELIVERED", "OPENED"} -> "DELIVERED"
      [] k \in {"HARD_BOUNCE", "SOFT_BOUNCE"} -> "BOUNCED"
      [] k = "COMPLAINT" -> "COMPLAINED"
      [] k = "FAILED" -> "FAILED"
      [] k = "UNSUBSCRIBED" -> "NONE"

(* applySuppressionPolicies: the kinds that put the address on the list.    *)
Suppresses(k) == k \in {"HARD_BOUNCE", "COMPLAINT", "UNSUBSCRIBED"}

Unsent == {"NONE", "QUEUED", "PROCESSING", "FAILED"}

(* resolveDelivery finds the row: by its id, or by a stored message id.     *)
Correlated(e) == e \in ById \/ known[EventOf[e]]

(* A write by id after a read: the row may have changed in between.         *)
Overtakes(d, changed) == raced' = IF changed THEN raced \cup {d} ELSE raced

Increment(d, m) == counted' = [counted EXCEPT ![d][m] = @ + 1]

-----------------------------------------------------------------------------
(* executeRecipient from its claim to its last write.                       *)

(* Claim the recipient and look for an earlier delivery.                    *)
Look(d) ==
    /\ spc[d] = "idle"
    /\ rstatus[d] = "PENDING"
    /\ sends[d] < MaxSends
    /\ d \notin suppressed
    /\ rstatus' = [rstatus EXCEPT ![d] = "PROCESSING"]
    /\ sends' = [sends EXCEPT ![d] = @ + 1]
    /\ spc' = [spc EXCEPT ![d] = IF dstatus[d] \in Unsent THEN "looked" ELSE "bookkeeping"]
    /\ sseen' = [sseen EXCEPT ![d] = IF dstatus[d] \in Unsent THEN dstatus[d] ELSE "NONE"]
    /\ UNCHANGED <<dstatus, known, counted, suppressed, events, marked, accepted,
                   posting, worker, tracking, raced>>

(* The address is suppressed: the recipient is closed without a send.       *)
RefuseSuppressed(d) ==
    /\ spc[d] = "idle"
    /\ rstatus[d] = "PENDING"
    /\ d \in suppressed
    /\ rstatus' = [rstatus EXCEPT ![d] = "FAILED"]
    /\ UNCHANGED <<dstatus, known, counted, suppressed, events, sender, posting, worker,
                   tracking, raced>>

(* Mark the lock, if it is still ours; create the delivery or put it back   *)
(* in flight, by id; call the provider, which accepts the mail or does not. *)
Dispatch(d) ==
    /\ spc[d] = "looked"
    /\ rstatus[d] = "PROCESSING"
    /\ marked' = marked \cup {d}
    /\ dstatus' = [dstatus EXCEPT ![d] = "PROCESSING"]
    /\ Overtakes(d, dstatus[d] # sseen[d])
    /\ spc' = [spc EXCEPT ![d] = "sending"]
    /\ sseen' = [sseen EXCEPT ![d] = "NONE"]
    /\ accepted' \in {accepted, accepted \cup {d}}
    /\ UNCHANGED <<known, rstatus, counted, suppressed, events, sends, posting,
                   worker, tracking>>

ClaimLost(d) ==
    /\ spc[d] = "looked"
    /\ rstatus[d] # "PROCESSING"
    /\ spc' = [spc EXCEPT ![d] = "idle"]
    /\ sseen' = [sseen EXCEPT ![d] = "NONE"]
    /\ UNCHANGED <<mail, events, sends, marked, accepted, posting, worker, tracking, raced>>

(* The claimed recipient moves on and its lock is cleared.                  *)
Unclaim(d, status) ==
    IF rstatus[d] = "PROCESSING"
    THEN rstatus' = [rstatus EXCEPT ![d] = status] /\ marked' = marked \ {d}
    ELSE UNCHANGED <<rstatus, marked>>

(* A failed call: recipient and delivery are released, each if it is still  *)
(* in flight.  After a timeout the provider may have accepted the mail.     *)
SendFails(d, retryable) ==
    LET again == retryable /\ sends[d] < MaxSends IN
    /\ spc[d] = "sending"
    /\ Unclaim(d, IF again THEN "PENDING" ELSE "FAILED")
    /\ dstatus' = IF dstatus[d] = "PROCESSING"
                  THEN [dstatus EXCEPT ![d] = IF again THEN "QUEUED" ELSE "FAILED"]
                  ELSE dstatus
    /\ spc' = [spc EXCEPT ![d] = "idle"]
    /\ UNCHANGED <<known, counted, suppressed, events, sends, sseen, accepted, posting, worker,
                   tracking, raced>>

(* The delivery is recorded as SENT, by id, whatever it became meanwhile.   *)
RecordDelivery(d) ==
    /\ spc[d] = "sending"
    /\ d \in accepted
    /\ dstatus' = [dstatus EXCEPT ![d] = "SENT"]
    /\ known' = [known EXCEPT ![d] = TRUE]
    /\ Overtakes(d, dstatus[d] # "PROCESSING")
    /\ spc' = [spc EXCEPT ![d] = "bookkeeping"]
    /\ UNCHANGED <<rstatus, counted, suppressed, events, sends, sseen, marked, accepted,
                   posting, worker, tracking>>

(* One transaction: the recipient SENT and counted, if it is still claimed. *)
RecordRecipient(d) ==
    /\ spc[d] = "bookkeeping"
    /\ Unclaim(d, "SENT")
    /\ IF rstatus[d] = "PROCESSING" THEN Increment(d, "SENT") ELSE UNCHANGED counted
    /\ spc' = [spc EXCEPT ![d] = "idle"]
    /\ UNCHANGED <<dstatus, known, suppressed, events, sends, sseen, accepted, posting,
                   worker, tracking, raced>>

(* The transaction fails: the recipient is released for a later attempt.    *)
BookkeepingFails(d) ==
    /\ spc[d] = "bookkeeping"
    /\ Unclaim(d, "PENDING")
    /\ spc' = [spc EXCEPT ![d] = "idle"]
    /\ UNCHANGED <<dstatus, known, counted, suppressed, events, sends, sseen,
                   accepted, posting, worker, tracking, raced>>

(* The executor dies, or cannot write what it has to.                       *)
SenderDies(d) ==
    /\ spc[d] # "idle"
    /\ spc' = [spc EXCEPT ![d] = "idle"]
    /\ sseen' = [sseen EXCEPT ![d] = "NONE"]
    /\ UNCHANGED <<mail, events, sends, accepted, marked, posting, worker, tracking, raced>>

(* Reconciliation resolves what a dead executor left in flight.             *)
ReconcileRecipient(d) ==
    /\ spc[d] = "idle"
    /\ rstatus[d] = "PROCESSING"
    /\ Unclaim(d, IF d \in marked \/ sends[d] >= MaxSends THEN "FAILED" ELSE "PENDING")
    /\ UNCHANGED <<dstatus, known, counted, suppressed, events, spc, sends, sseen, accepted,
                   posting, worker, tracking, raced>>

ReconcileDelivery(d) ==
    /\ spc[d] = "idle"
    /\ dstatus[d] = "PROCESSING"
    /\ dstatus' = [dstatus EXCEPT ![d] = "FAILED"]
    /\ UNCHANGED <<known, rstatus, counted, suppressed, events, sender, posting,
                   worker, tracking, raced>>

-----------------------------------------------------------------------------
(* recordAndEnqueueEvent, called by the webhook and by the mailbox scan.    *)

(* The event is new: its row is created.  A repeated delivery, or another   *)
(* scan, that finds the row changes nothing.                                *)
Record(e) ==
    /\ estatus[e] = "NONE"
    /\ EventOf[e] \in accepted
    /\ estatus' = [estatus EXCEPT ![e] = "RECEIVED"]
    /\ posting' = posting \cup {e}
    /\ UNCHANGED <<mail, kind, attempts, sender, worker, tracking, raced>>

(* The job is added, or the request dies: processing starts now, or with    *)
(* the sweep that reads every RECEIVED row.                                 *)
Enqueued(e) ==
    /\ e \in posting
    /\ posting' = posting \ {e}
    /\ UNCHANGED <<mail, events, sender, worker, tracking, raced>>

(* The job cannot be added: the event is closed by id, whoever has it.      *)
EnqueueFails(e) ==
    /\ e \in posting
    /\ posting' = posting \ {e}
    /\ estatus' = [estatus EXCEPT ![e] = "FAILED"]
    /\ UNCHANGED <<mail, kind, attempts, sender, worker, tracking, raced>>

-----------------------------------------------------------------------------
(* processEventFromWorker                                                   *)

Goto(w, phase) == pc' = [pc EXCEPT ![w] = phase]

(* The invocation returns, throws or dies.                                  *)
Leave(w) ==
    /\ Goto(w, "idle")
    /\ cur' = [cur EXCEPT ![w] = Null]
    /\ used' = [used EXCEPT ![w] = 0]
    /\ seen' = [seen EXCEPT ![w] = "NONE"]
    /\ rseen' = [rseen EXCEPT ![w] = "PENDING"]

(* Mutant: the sweep looks for RECEIVED events only.                        *)
LoadReceived(w, e) ==
    /\ pc[w] = "idle"
    /\ estatus[e] = "RECEIVED"
    /\ Goto(w, "loaded")
    /\ cur' = [cur EXCEPT ![w] = e]
    /\ used' = [used EXCEPT ![w] = attempts[e]]
    /\ UNCHANGED <<mail, events, sender, posting, seen, rseen, tracking, raced>>

(* The job of an event loads it, or a sweep (findPendingEvents).            *)
Load(w, e) ==
    /\ pc[w] = "idle"
    /\ estatus[e] \in {"RECEIVED", "PROCESSING"}
    /\ Goto(w, "loaded")
    /\ cur' = [cur EXCEPT ![w] = e]
    /\ used' = [used EXCEPT ![w] = attempts[e]]
    /\ UNCHANGED <<mail, events, sender, posting, seen, rseen, tracking, raced>>

(* A claim is stale ten minutes after it was made, when the invocation that *)
(* made it has ended: none runs longer than maxDuration, one minute.        *)
Abandoned(e) ==
    estatus[e] = "PROCESSING" /\ \A w \in Invocations : cur[w] = e => pc[w] = "loaded"

EventClaimable(e) ==
    attempts[e] < MaxEventAttempts /\ (estatus[e] = "RECEIVED" \/ Abandoned(e))

ClaimEvent(w) ==
    LET e == cur[w] IN
    /\ pc[w] = "loaded"
    /\ EventClaimable(e)
    /\ estatus' = [estatus EXCEPT ![e] = "PROCESSING"]
    /\ attempts' = [attempts EXCEPT ![e] = @ + 1]
    /\ Goto(w, "claimed")
    /\ UNCHANGED <<mail, kind, sender, posting, cur, used, seen, rseen, tracking, raced>>

ClaimRefused(w) ==
    /\ pc[w] = "loaded"
    /\ ~EventClaimable(cur[w])
    /\ Leave(w)
    /\ UNCHANGED <<mail, events, sender, posting, tracking, raced>>

(* applyDeliveryStateMachine reads the delivery and decides on its status.  *)
Decide(w) ==
    LET e == cur[w]
        d == EventOf[e] IN
    /\ pc[w] = "claimed"
    /\ Goto(w, IF ~Correlated(e) \/ Target(kind[e]) = "NONE" THEN "policy"
               ELSE IF CanTransition(dstatus[d], Target(kind[e])) THEN "apply"
               ELSE IF kind[e] = "COMPLAINT" /\ rstatus[d] # "COMPLAINED" THEN "complaint"
               ELSE "policy")
    /\ seen' = [seen EXCEPT ![w] = IF pc'[w] \in {"apply", "complaint"} THEN dstatus[d] ELSE "NONE"]
    /\ rseen' = [rseen EXCEPT ![w] = IF pc'[w] = "apply" THEN rstatus[d] ELSE "PENDING"]
    /\ UNCHANGED <<mail, events, sender, posting, cur, used, tracking, raced>>

(* The delivery is written by id, whatever it became since it was read.     *)
Apply(w) ==
    LET d == EventOf[cur[w]] IN
    /\ pc[w] = "apply"
    /\ dstatus' = [dstatus EXCEPT ![d] = Target(kind[cur[w]])]
    /\ Overtakes(d, dstatus[d] # seen[w])
    /\ Goto(w, "recipient")
    /\ seen' = [seen EXCEPT ![w] = "NONE"]
    /\ UNCHANGED <<known, rstatus, counted, suppressed, events, sender, posting,
                   cur, used, rseen, tracking>>

(* updateCampaignRecipientAndMetrics: the recipient, then its counter.      *)
ApplyToRecipient(w) ==
    LET d == EventOf[cur[w]] IN
    /\ pc[w] = "recipient"
    /\ rstatus' = [rstatus EXCEPT ![d] = Target(kind[cur[w]])]
    /\ Overtakes(d, rstatus[d] # rseen[w])
    /\ Goto(w, IF Target(kind[cur[w]]) \in {"SENT", "FAILED"} THEN "policy" ELSE "count")
    /\ rseen' = [rseen EXCEPT ![w] = "PENDING"]
    /\ UNCHANGED <<dstatus, known, counted, suppressed, events, sender, posting,
                   cur, used, seen, tracking>>

Count(w) ==
    /\ pc[w] = "count"
    /\ Increment(EventOf[cur[w]], Target(kind[cur[w]]))
    /\ Goto(w, "policy")
    /\ UNCHANGED <<dstatus, known, rstatus, suppressed, events, sender, posting,
                   cur, used, seen, rseen, tracking, raced>>

(* recordCampaignComplaintOnly, when the delivery was over already: the     *)
(* recipient is read again, then written by id, counted and checked.        *)
Recheck(w) ==
    LET d == EventOf[cur[w]] IN
    /\ pc[w] = "complaint"
    /\ \/ /\ rstatus[d] = "COMPLAINED"
          /\ Goto(w, "policy")
          /\ seen' = [seen EXCEPT ![w] = "NONE"]
          /\ UNCHANGED rseen
       \/ /\ rstatus[d] # "COMPLAINED"
          /\ Goto(w, "complain")
          /\ rseen' = [rseen EXCEPT ![w] = rstatus[d]]
          /\ UNCHANGED seen
    /\ UNCHANGED <<mail, events, sender, posting, cur, used, tracking, raced>>

(* It misses a change of the recipient, or of the delivery: one that was    *)
(* over may have been put in flight again.                                  *)
Complain(w) ==
    LET d == EventOf[cur[w]] IN
    /\ pc[w] = "complain"
    /\ rstatus' = [rstatus EXCEPT ![d] = "COMPLAINED"]
    /\ Overtakes(d, rstatus[d] # rseen[w] \/ dstatus[d] # seen[w])
    /\ Goto(w, "count")
    /\ seen' = [seen EXCEPT ![w] = "NONE"]
    /\ rseen' = [rseen EXCEPT ![w] = "PENDING"]
    /\ UNCHANGED <<dstatus, known, counted, suppressed, events, sender, posting,
                   cur, used, tracking>>

(* Mutant: a complaint about a delivery that is over leaves the list alone. *)
SuppressApplied(w) ==
    LET e == cur[w]
        d == EventOf[e] IN
    /\ pc[w] = "policy"
    /\ suppressed' = IF Suppresses(kind[e]) /\ rstatus[d] = Target(kind[e])
                     THEN suppressed \cup {d} ELSE suppressed
    /\ Goto(w, "finish")
    /\ UNCHANGED <<dstatus, known, rstatus, counted, events, sender, posting,
                   cur, used, seen, rseen, tracking, raced>>

Suppress(w) ==
    /\ pc[w] = "policy"
    /\ suppressed' = IF Suppresses(kind[cur[w]])
                     THEN suppressed \cup {EventOf[cur[w]]} ELSE suppressed
    /\ Goto(w, "finish")
    /\ UNCHANGED <<dstatus, known, rstatus, counted, events, sender, posting,
                   cur, used, seen, rseen, tracking, raced>>

(* Every write that ends a claim: conditional on PROCESSING, by whomever.   *)
CloseEvent(w, status) ==
    /\ estatus' = [estatus EXCEPT ![cur[w]] = IF @ = "PROCESSING" THEN status ELSE @]
    /\ Leave(w)
    /\ UNCHANGED <<mail, kind, attempts, sender, posting, tracking, raced>>

Finish(w) == pc[w] = "finish" /\ CloseEvent(w, "PROCESSED")

(* A database error: the attempts are those read before the claim, plus one. *)
ProcessingFails(w, retryable) ==
    /\ pc[w] \notin {"idle", "loaded"}
    /\ CloseEvent(w, IF retryable /\ used[w] + 1 < MaxEventAttempts THEN "RECEIVED" ELSE "FAILED")

Die(w) ==
    /\ pc[w] \notin {"idle", "loaded"}
    /\ Leave(w)
    /\ UNCHANGED <<mail, events, sender, posting, tracking, raced>>

-----------------------------------------------------------------------------
(* recordOpen and recordClick                                               *)

QGoto(q, phase) == qpc' = [qpc EXCEPT ![q] = phase]

QLeave(q) ==
    /\ QGoto(q, "idle")
    /\ qcur' = [qcur EXCEPT ![q] = Null]
    /\ qseen' = [qseen EXCEPT ![q] = "NONE"]
    /\ qrseen' = [qrseen EXCEPT ![q] = "PENDING"]

(* The delivery and its recipient are read, no event of this hour is found, *)
(* and one is created; another hour, or a request at the same time, creates *)
(* another.  Only an open that leads to a write matters here.               *)
Open(q, d) ==
    /\ qpc[q] = "idle"
    /\ d \in accepted
    /\ \/ dstatus[d] \in {"QUEUED", "PROCESSING", "SENT"} /\ QGoto(q, "delivery")
       \/ /\ dstatus[d] \notin {"QUEUED", "PROCESSING", "SENT"}
          /\ rstatus[d] \in {"PENDING", "SENT"}
          /\ QGoto(q, "recipient")
    /\ qcur' = [qcur EXCEPT ![q] = d]
    /\ qseen' = [qseen EXCEPT ![q] = dstatus[d]]
    /\ qrseen' = [qrseen EXCEPT ![q] = rstatus[d]]
    /\ UNCHANGED <<mail, events, sender, posting, worker, raced>>

(* recordClick: another event, the same reads and the same writes.          *)
Click(q, d) == Open(q, d)

OpenDelivers(q) ==
    LET d == qcur[q] IN
    /\ qpc[q] = "delivery"
    /\ dstatus' = [dstatus EXCEPT ![d] = "DELIVERED"]
    /\ Overtakes(d, dstatus[d] # qseen[q])
    /\ IF qrseen[q] \in {"PENDING", "SENT"}
       THEN /\ QGoto(q, "recipient")
            /\ qseen' = [qseen EXCEPT ![q] = "DELIVERED"]
            /\ UNCHANGED <<qcur, qrseen>>
       ELSE QLeave(q)
    /\ UNCHANGED <<known, rstatus, counted, suppressed, events, sender, posting,
                   worker>>

OpenPromotes(q) ==
    LET d == qcur[q] IN
    /\ qpc[q] = "recipient"
    /\ rstatus' = [rstatus EXCEPT ![d] = "DELIVERED"]
    /\ Overtakes(d, rstatus[d] # qrseen[q] \/ dstatus[d] # qseen[q])
    /\ QGoto(q, "count")
    /\ qseen' = [qseen EXCEPT ![q] = "NONE"]
    /\ qrseen' = [qrseen EXCEPT ![q] = "PENDING"]
    /\ UNCHANGED <<dstatus, known, counted, suppressed, events, sender, posting,
                   worker, qcur>>

OpenCounts(q) ==
    /\ qpc[q] = "count"
    /\ Increment(qcur[q], "DELIVERED")
    /\ QLeave(q)
    /\ UNCHANGED <<dstatus, known, rstatus, suppressed, events, sender, posting,
                   worker, raced>>

OpenDies(q) ==
    /\ qpc[q] # "idle"
    /\ QLeave(q)
    /\ UNCHANGED <<mail, events, sender, posting, worker, raced>>

-----------------------------------------------------------------------------
Process(w) ==
    \/ ClaimEvent(w) \/ ClaimRefused(w) \/ Decide(w)
    \/ Apply(w) \/ ApplyToRecipient(w) \/ Count(w)
    \/ Recheck(w) \/ Complain(w) \/ Suppress(w) \/ Finish(w)

Next ==
    \/ \E d \in Deliveries :
          \/ Look(d) \/ RefuseSuppressed(d) \/ Dispatch(d) \/ ClaimLost(d)
          \/ \E retryable \in BOOLEAN : SendFails(d, retryable)
          \/ RecordDelivery(d) \/ RecordRecipient(d) \/ BookkeepingFails(d) \/ SenderDies(d)
          \/ ReconcileRecipient(d) \/ ReconcileDelivery(d)
    \/ \E e \in Events :
          Record(e) \/ Enqueued(e) \/ EnqueueFails(e)
    \/ \E w \in Invocations :
          \/ \E e \in Events : Load(w, e)
          \/ Process(w) \/ Die(w)
          \/ \E retryable \in BOOLEAN : ProcessingFails(w, retryable)
    \/ \E q \in Requests :
          \/ \E d \in Deliveries : Open(q, d) \/ Click(q, d)
          \/ OpenDelivers(q) \/ OpenPromotes(q) \/ OpenCounts(q) \/ OpenDies(q)

EventSpec == Init /\ [][Next]_vars

(* pg_cron runs the sweep every minute: a pending event is loaded again and *)
(* again, a live invocation takes its next step, a claim grows old.         *)
EventFairness ==
    /\ \A w \in Invocations : WF_vars(Process(w))
    /\ \A e \in Events :
          SF_vars(\E w \in Invocations : Load(w, e))

FairEventSpec == EventSpec /\ EventFairness

-----------------------------------------------------------------------------
(* Properties.  raced holds the deliveries on which a write by id missed a  *)
(* change made after its writer's read.                                     *)

(* A delivery the provider reported on keeps its outcome: DELIVERED, then   *)
(* at most COMPLAINED; BOUNCED and COMPLAINED for ever; never back to SENT  *)
(* (flags.md:232) - unless a write raced, whatever dies and retries.        *)
OutcomesStand ==
    [][\A d \in Deliveries :
          dstatus[d] \in Outcomes /\ dstatus'[d] # dstatus[d] =>
             <<dstatus[d], dstatus'[d]>> = <<"DELIVERED", "COMPLAINED">> \/ d \in raced']_vars

(* However often an event is processed again after a crash, an error or a   *)
(* stale claim, and however many events and opens say the same, a recipient *)
(* is counted at most once under each metric - unless a write raced.        *)
CountedOnce ==
    \A d \in Deliveries \ raced : \A m \in Metrics : counted[d][m] <= 1

(* A processed complaint, hard bounce or unsubscribe has put the address on *)
(* the suppression list, whoever else processed the event and died.         *)
ProcessedIsSuppressed ==
    \A e \in Events :
        estatus[e] = "PROCESSED" /\ Suppresses(kind[e]) => EventOf[e] \in suppressed

(* Every event recorded is processed or closed, or has used its attempts up. *)
EventsSettle ==
    \A e \in Events :
        estatus[e] \in {"RECEIVED", "PROCESSING"} ~>
            estatus[e] \in {"PROCESSED", "FAILED"} \/ attempts[e] = MaxEventAttempts
=============================================================================
