-------------------------- MODULE WhatsAppMessages --------------------------
(***************************************************************************)
(* One outbound WhatsApp message, from the requests that ask for it (the   *)
(* same client and idempotency key) to the last status Meta reports:       *)
(*   MessageService.send, the first attempt, synchronous;                  *)
(*   the WHATSAPP_MESSAGE job and WhatsAppMessageExecutor.execute;         *)
(*   the reconciliation of messages and jobs left by a dead invocation;    *)
(*   WebhookService.handleStatusUpdate, one invocation per status report.  *)
(*                                                                         *)
(* No invocation lives as long as a lock takes to be stale (maxDuration is *)
(* one minute, STALE_LOCK_MS ten): a lock is stale when its owner is gone. *)
(*                                                                         *)
(* Left out: a report of failure also marks pending one-time codes to the  *)
(* number as FAILED, which no step of a message reads.                     *)
(***************************************************************************)
EXTENDS Integers, FiniteSets

CONSTANTS
    Requests,   \* concurrent calls of MessageService.send for the message
    Workers,    \* concurrent invocations of the job processor
    Reports,    \* status webhooks, told apart by status and timestamp
    KindOf,     \* what a report says: "sent", "delivered", "read" or "failed"
    MaxSends,   \* WHATSAPP_MAX_SEND_ATTEMPTS (5)
    MaxFaults,  \* bound: invocations that die, database errors
    Null

ReportKinds == {"sent", "delivered", "read", "failed"}

ASSUME WhatsAppConstantsOK ==
    /\ Requests \cap Workers = {}
    /\ Null \notin Requests \cup Workers
    /\ KindOf \in [Reports -> ReportKinds]
    /\ MaxSends \in Nat \ {0, 1}
    /\ MaxFaults \in Nat

Actors == Requests \cup Workers

VARIABLES
    \* Message: status, attemptCount, lockedBy without its suffix, the in-flight
    \* suffix, and the call whose id is stored as providerMessageId (0: none)
    mstatus, attempts, owner, inflight, stored,
    \* BackgroundJob of the message: its status, attemptCount and holder
    job, jattempts, holder,
    \* the local state of requests and workers, the attemptCount a worker read,
    \* and the call that was accepted
    pc, read, call,
    \* the status reports: MessageEvent's processingStatus, and the local state
    \* of the invocation that handles one, with the message's status it read
    event, hook, seen,
    \* history: calls made, the accepted ones, the outgoing webhooks of the
    \* message's sender and those that pass on a report of Meta, whether an
    \* accepted call was not answered, whether a report was applied to a message
    \* that had changed, the bounded count of faults, and whether a fault or an
    \* unreadable answer came between an accepted call and its record
    calls, accepted, told, relayed, unclear, raced, faults, lost

message == <<mstatus, attempts, owner, inflight, stored>>
jobs    == <<job, jattempts, holder>>
locals  == <<pc, read, call>>
hooks   == <<event, hook, seen, relayed>>
sendhist == <<calls, accepted, unclear>>
wavars  == <<message, jobs, locals, hooks, sendhist, told, raced, faults, lost>>

MessageStatuses == {"NONE", "QUEUED", "SENT", "DELIVERED", "READ", "FAILED"}
RequestPhases   == {"idle", "creating", "calling", "accepted", "transient", "rejected", "tell", "done"}
WorkerPhases    == {"idle", "loading", "loaded", "claimed", "calling", "accepted", "transient",
                    "rejected", "tell"}
HookPhases      == {"idle", "apply", "tell", "finish", "done"}

RowTypeOK ==
    /\ mstatus \in MessageStatuses
    /\ attempts \in Nat
    /\ owner \in Actors \cup {Null}
    /\ inflight => owner # Null
    /\ stored \in Nat
    /\ job \in {"none", "QUEUED", "PROCESSING", "COMPLETED", "FAILED"}
    /\ jattempts \in Int
    /\ holder \in Workers \cup {Null}
    /\ holder # Null <=> job = "PROCESSING"

LocalTypeOK ==
    /\ pc \in [Actors -> RequestPhases \cup WorkerPhases]
    /\ \A r \in Requests : pc[r] \in RequestPhases
    /\ \A w \in Workers : pc[w] \in WorkerPhases
    /\ read \in [Workers -> Nat]
    /\ call \in [Actors -> Nat]
    /\ event \in [Reports -> {"NONE", "PENDING", "PROCESSED", "FAILED"}]
    /\ hook \in [Reports -> HookPhases]
    /\ seen \in [Reports -> MessageStatuses]

HistoryTypeOK ==
    /\ calls \in Nat
    /\ accepted \in SUBSET (1..calls)
    /\ told \in SUBSET {"sent", "failed"}
    /\ relayed \in SUBSET ReportKinds
    /\ faults \in 0..MaxFaults

FlagTypeOK == {inflight, unclear, raced, lost} \subseteq BOOLEAN

MessageTypeOK == RowTypeOK /\ LocalTypeOK /\ HistoryTypeOK /\ FlagTypeOK

MessageInit ==
    /\ mstatus = "NONE"
    /\ attempts = 0
    /\ owner = Null
    /\ inflight = FALSE
    /\ stored = 0
    /\ job = "none"
    /\ jattempts = 0
    /\ holder = Null
    /\ pc = [a \in Actors |-> "idle"]
    /\ read = [w \in Workers |-> 0]
    /\ call = [a \in Actors |-> 0]
    /\ event = [k \in Reports |-> "NONE"]
    /\ hook = [k \in Reports |-> "idle"]
    /\ seen = [k \in Reports |-> "NONE"]
    /\ calls = 0
    /\ accepted = {}
    /\ told = {}
    /\ relayed = {}
    /\ unclear = FALSE
    /\ raced = FALSE
    /\ faults = 0
    /\ lost = FALSE

-----------------------------------------------------------------------------
Goto(a, phase) == pc' = [pc EXCEPT ![a] = phase]
Fault == faults < MaxFaults /\ faults' = faults + 1
FaultOf(a) == Fault /\ lost' = (lost \/ pc[a] = "accepted")

Unlock == owner' = Null /\ inflight' = FALSE

(* lockedBy is the in-flight token of a, and the message still QUEUED.      *)
Owned(a) == mstatus = "QUEUED" /\ owner = a /\ inflight

(* The owner of the lock is gone, so the lock grows stale.                  *)
Ended(a) == pc[a] \in {"idle", "done"} \/ (a \in Workers /\ pc[a] \in {"loading", "loaded"})
Abandoned == owner # Null /\ Ended(owner)

-----------------------------------------------------------------------------
(* MessageService.send                                                      *)

(* No message with this idempotency key is found; an existing one is        *)
(* returned to the caller.                                                  *)
Look(r) ==
    /\ pc[r] = "idle"
    /\ Goto(r, IF mstatus = "NONE" THEN "creating" ELSE "done")
    /\ UNCHANGED <<message, jobs, read, call, hooks, sendhist, told, raced, faults, lost>>

(* The row is created with the marker of its first attempt, unless another  *)
(* request was faster (P2002).                                              *)
Create(r) ==
    /\ pc[r] = "creating"
    /\ \/ /\ mstatus = "NONE"
          /\ mstatus' = "QUEUED"
          /\ attempts' = 1
          /\ owner' = r
          /\ inflight' = TRUE
          /\ Goto(r, "calling")
       \/ /\ mstatus # "NONE"
          /\ Goto(r, "done")
          /\ UNCHANGED <<mstatus, attempts, owner, inflight>>
    /\ UNCHANGED <<stored, jobs, read, call, hooks, sendhist, told, raced, faults, lost>>

(* sendWhatsAppMessage.  5xx, 408, a timeout or a broken connection are     *)
(* transient, and Meta may have accepted the message all the same; so it    *)
(* may behind an answer that is not JSON, which is taken for a rejection.   *)
CallMeta(a, outcome, took) ==
    /\ pc[a] = "calling"
    /\ outcome = "accepted" => took
    /\ calls' = calls + 1
    /\ accepted' = IF took THEN accepted \cup {calls + 1} ELSE accepted
    /\ unclear' = (unclear \/ (took /\ outcome = "transient"))
    /\ lost' = (lost \/ (took /\ outcome = "rejected"))
    /\ call' = [call EXCEPT ![a] = IF outcome = "accepted" THEN calls + 1 ELSE 0]
    /\ Goto(a, outcome)
    /\ UNCHANGED <<message, jobs, read, hooks, told, raced, faults>>

(* The first attempt succeeded: written by id.                              *)
RecordSent(r) ==
    /\ pc[r] = "accepted"
    /\ mstatus' = "SENT"
    /\ stored' = call[r]
    /\ Unlock
    /\ Goto(r, "tell")
    /\ UNCHANGED <<attempts, jobs, read, call, hooks, sendhist, told, raced, faults, lost>>

(* ... or it cannot be written, which is handled like a rejection.          *)
RecordSentFails(r) ==
    /\ pc[r] = "accepted"
    /\ FaultOf(r)
    /\ Goto(r, "rejected")
    /\ UNCHANGED <<message, jobs, read, call, hooks, sendhist, told, raced>>

(* A transient failure: unlocked and handed to a job, in one transaction.   *)
Schedule(r) ==
    /\ pc[r] = "transient"
    /\ Unlock
    /\ job' = "QUEUED"
    /\ Goto(r, "done")
    /\ UNCHANGED <<mstatus, attempts, stored, jattempts, holder, read, call, hooks, sendhist,
                   told, raced, faults, lost>>

ScheduleFails(r) ==
    /\ pc[r] = "transient"
    /\ FaultOf(r)
    /\ Goto(r, "rejected")
    /\ UNCHANGED <<message, jobs, read, call, hooks, sendhist, told, raced>>

RecordFailed(r) ==
    /\ pc[r] = "rejected"
    /\ mstatus' = "FAILED"
    /\ Unlock
    /\ Goto(r, "tell")
    /\ UNCHANGED <<attempts, stored, jobs, read, call, hooks, sendhist, told, raced, faults, lost>>

(* dispatchOutgoingWebhooks, of message.sent or message.failed.             *)
Tell(r) ==
    /\ pc[r] = "tell"
    /\ told' = told \cup {IF call[r] # 0 /\ stored = call[r] THEN "sent" ELSE "failed"}
    /\ Goto(r, "done")
    /\ UNCHANGED <<message, jobs, read, call, hooks, sendhist, raced, faults, lost>>

(* The request dies, or a write fails that nothing handles.                 *)
RequestDies(r) ==
    /\ pc[r] \notin {"idle", "done"}
    /\ FaultOf(r)
    /\ Goto(r, "done")
    /\ UNCHANGED <<message, jobs, read, call, hooks, sendhist, told, raced>>

-----------------------------------------------------------------------------
(* The job, and WhatsAppMessageExecutor.execute                             *)

StartJob(w) ==
    /\ pc[w] = "idle"
    /\ job = "QUEUED"
    /\ job' = "PROCESSING"
    /\ jattempts' = jattempts + 1
    /\ holder' = w
    /\ Goto(w, "loading")
    /\ UNCHANGED <<message, read, call, hooks, sendhist, told, raced, faults, lost>>

(* How the body's result ends the job, if w still holds it.                 *)
EndJob(w, result) ==
    /\ IF holder = w
       THEN /\ job' = IF result = "done" THEN "COMPLETED"
                      ELSE IF result = "yield" THEN "QUEUED"
                      ELSE IF result = "retry" /\ jattempts < MaxSends THEN "QUEUED"
                      ELSE "FAILED"
            /\ jattempts' = IF result = "yield" THEN jattempts - 1 ELSE jattempts
            /\ holder' = Null
       ELSE UNCHANGED jobs
    /\ Goto(w, "idle")
    /\ read' = [read EXCEPT ![w] = 0]
    /\ call' = [call EXCEPT ![w] = 0]
    /\ UNCHANGED <<hooks, sendhist, raced>>

Load(w) ==
    /\ pc[w] = "loading"
    /\ mstatus = "QUEUED"
    /\ read' = [read EXCEPT ![w] = attempts]
    /\ Goto(w, "loaded")
    /\ UNCHANGED <<message, jobs, call, hooks, sendhist, told, raced, faults, lost>>

AlreadyTerminal(w) ==
    /\ pc[w] \in {"loading", "loaded"}
    /\ mstatus # "QUEUED"
    /\ EndJob(w, "done")
    /\ UNCHANGED <<message, told, faults, lost>>

(* Mutant: a stale lock is free, also one whose send may have gone out.     *)
ClaimableMarked == mstatus = "QUEUED" /\ (owner = Null \/ Abandoned)

(* A free row, or a stale lock that never reached the provider.             *)
Claimable == mstatus = "QUEUED" /\ (owner = Null \/ (Abandoned /\ ~inflight))

Claim(w) ==
    /\ pc[w] = "loaded"
    /\ Claimable
    /\ owner' = w
    /\ inflight' = FALSE
    /\ attempts' = attempts + 1
    /\ Goto(w, "claimed")
    /\ UNCHANGED <<mstatus, stored, jobs, read, call, hooks, sendhist, told, raced, faults, lost>>

(* Held by another attempt, or by a dead one that reconciliation resolves.  *)
Contended(w) ==
    /\ pc[w] = "loaded"
    /\ mstatus = "QUEUED"
    /\ ~Claimable
    /\ EndJob(w, "yield")
    /\ UNCHANGED <<message, told, faults, lost>>

(* The marker is set on the way to Meta, unless the claim is gone.          *)
Mark(w) ==
    /\ pc[w] = "claimed"
    /\ IF mstatus = "QUEUED" /\ owner = w
       THEN /\ inflight' = TRUE
            /\ Goto(w, "calling")
            /\ UNCHANGED <<jobs, read, call, hooks, sendhist, raced>>
       ELSE EndJob(w, "done") /\ UNCHANGED inflight
    /\ UNCHANGED <<mstatus, attempts, owner, stored, told, faults, lost>>

(* Mutant: the retry decision counts from one attempt too many.             *)
AgainAfter(w) == read[w] < MaxSends

MayRetry(w) == read[w] + 1 < MaxSends

(* Mutant: every failed attempt is told.                                    *)
ReleaseTold(w) ==
    /\ pc[w] = "transient"
    /\ MayRetry(w)
    /\ IF Owned(w) THEN Unlock ELSE UNCHANGED <<owner, inflight>>
    /\ told' = told \cup {"failed"}
    /\ EndJob(w, "retry")
    /\ UNCHANGED <<mstatus, attempts, stored, faults, lost>>

(* Transient, and not the last attempt: the lock is cleared, if still ours. *)
Release(w) ==
    /\ pc[w] = "transient"
    /\ MayRetry(w)
    /\ IF Owned(w) THEN Unlock ELSE UNCHANGED <<owner, inflight>>
    /\ EndJob(w, "retry")
    /\ UNCHANGED <<mstatus, attempts, stored, told, faults, lost>>

(* Rejected, or the attempts are used up: FAILED, if still ours, and told.  *)
Fail(w) ==
    /\ pc[w] = "rejected" \/ (pc[w] = "transient" /\ ~MayRetry(w))
    /\ IF Owned(w)
       THEN /\ mstatus' = "FAILED"
            /\ Unlock
            /\ Goto(w, "tell")
            /\ UNCHANGED <<jobs, read, call, hooks, sendhist, raced>>
       ELSE /\ EndJob(w, "failed")
            /\ UNCHANGED <<mstatus, owner, inflight>>
    /\ UNCHANGED <<attempts, stored, told, faults, lost>>

(* Accepted: SENT, if still ours.  The webhook follows either way.          *)
Sent(w) ==
    /\ pc[w] = "accepted"
    /\ IF Owned(w)
       THEN mstatus' = "SENT" /\ stored' = call[w] /\ Unlock
       ELSE UNCHANGED <<mstatus, stored, owner, inflight>>
    /\ Goto(w, "tell")
    /\ UNCHANGED <<attempts, jobs, read, call, hooks, sendhist, told, raced, faults, lost>>

(* The write fails: a permanent error, and the marker stays.                *)
SentFails(w) ==
    /\ pc[w] = "accepted"
    /\ FaultOf(w)
    /\ EndJob(w, "failed")
    /\ UNCHANGED <<message, told>>

TellByWorker(w) ==
    /\ pc[w] = "tell"
    /\ told' = told \cup {IF call[w] # 0 THEN "sent" ELSE "failed"}
    /\ EndJob(w, IF call[w] # 0 THEN "done" ELSE "failed")
    /\ UNCHANGED <<message, faults, lost>>

(* A database error anywhere else: the job is tried again.                  *)
WorkerFails(w) ==
    /\ pc[w] \in {"loading", "loaded", "claimed", "transient", "rejected"}
    /\ FaultOf(w)
    /\ EndJob(w, "retry")
    /\ UNCHANGED <<message, told>>

WorkerDies(w) ==
    /\ pc[w] # "idle"
    /\ FaultOf(w)
    /\ Goto(w, "idle")
    /\ read' = [read EXCEPT ![w] = 0]
    /\ call' = [call EXCEPT ![w] = 0]
    /\ UNCHANGED <<message, jobs, hooks, sendhist, told, raced>>

-----------------------------------------------------------------------------
(* ReconciliationExecutor.reconcile                                         *)

(* Mutant: locks are resolved that never reached Meta.                      *)
ReconcileUnmarked ==
    /\ mstatus = "QUEUED"
    /\ ~inflight
    /\ Abandoned
    /\ mstatus' = "FAILED"
    /\ Unlock
    /\ UNCHANGED <<attempts, stored, jobs, locals, hooks, sendhist, told, raced, faults, lost>>

(* A stale in-flight marker: the outcome is unknown, FAILED for review.     *)
ReconcileMessage ==
    /\ mstatus = "QUEUED"
    /\ inflight
    /\ Abandoned
    /\ mstatus' = "FAILED"
    /\ Unlock
    /\ UNCHANGED <<attempts, stored, jobs, locals, hooks, sendhist, told, raced, faults, lost>>

ReconcileJob ==
    /\ job = "PROCESSING"
    /\ pc[holder] = "idle"
    /\ job' = IF jattempts >= MaxSends THEN "FAILED" ELSE "QUEUED"
    /\ holder' = Null
    /\ UNCHANGED <<message, jattempts, locals, hooks, sendhist, told, raced, faults, lost>>

-----------------------------------------------------------------------------
(* WebhookService.handleStatusUpdate                                        *)

Rank(s) == CASE s \in {"NONE", "QUEUED"} -> 0
             [] s = "SENT" -> 1
             [] s = "DELIVERED" -> 2
             [] s = "READ" -> 3
             [] s = "FAILED" -> 4

StatusOf(k) == CASE KindOf[k] = "sent" -> "SENT"
                 [] KindOf[k] = "delivered" -> "DELIVERED"
                 [] KindOf[k] = "read" -> "READ"
                 [] KindOf[k] = "failed" -> "FAILED"

(* Mutant: a report of failure is always believed.                          *)
ShouldBelieve(s, new) == s # "FAILED" /\ (new = "FAILED" \/ Rank(new) > Rank(s))

(* READ and FAILED are final; any other failure counts; no step back.       *)
ShouldUpdate(s, new) ==
    s \notin {"READ", "FAILED"} /\ (new = "FAILED" \/ Rank(new) > Rank(s))

(* A report about call c: the event is new, the message is looked up by the *)
(* id of the call, and the event is recorded.  A repeated report is not new.*)
Receive(k, c) ==
    /\ event[k] = "NONE"
    /\ c \in accepted
    /\ event' = [event EXCEPT ![k] = "PENDING"]
    /\ IF stored = c
       THEN /\ seen' = [seen EXCEPT ![k] = mstatus]
            /\ hook' = [hook EXCEPT ![k] = "apply"]
       ELSE /\ hook' = [hook EXCEPT ![k] = "finish"]
            /\ UNCHANGED seen
    /\ UNCHANGED <<message, jobs, locals, relayed, sendhist, told, raced, faults, lost>>

(* The message is written by id, on what was read.                          *)
Apply(k) ==
    /\ hook[k] = "apply"
    /\ mstatus' = IF ShouldUpdate(seen[k], StatusOf(k)) THEN StatusOf(k) ELSE mstatus
    /\ raced' = (raced \/ (ShouldUpdate(seen[k], StatusOf(k)) /\ mstatus # seen[k]))
    /\ hook' = [hook EXCEPT ![k] = "tell"]
    /\ UNCHANGED <<attempts, owner, inflight, stored, jobs, locals, event, seen, relayed,
                   sendhist, told, faults, lost>>

(* dispatchOutgoingWebhooks, of message.<what the report says>, whether the *)
(* report changed the message or not.  An error of it is only logged.       *)
TellReport(k) ==
    /\ hook[k] = "tell"
    /\ hook' = [hook EXCEPT ![k] = "finish"]
    /\ \/ relayed' = relayed \cup {KindOf[k]} /\ UNCHANGED faults
       \/ Fault /\ UNCHANGED relayed
    /\ UNCHANGED <<message, jobs, locals, event, seen, sendhist, told, raced, lost>>

FinishReport(k) ==
    /\ hook[k] = "finish"
    /\ event' = [event EXCEPT ![k] = "PROCESSED"]
    /\ hook' = [hook EXCEPT ![k] = "done"]
    /\ UNCHANGED <<message, jobs, locals, seen, relayed, sendhist, told, raced, faults, lost>>

(* A database error closes the event, and nothing opens it again; a dead    *)
(* invocation leaves it PENDING, which is the same to a repeated report.    *)
ReportFails(k, status) ==
    /\ hook[k] \in {"apply", "tell", "finish"}
    /\ Fault
    /\ event' = [event EXCEPT ![k] = status]
    /\ hook' = [hook EXCEPT ![k] = "done"]
    /\ UNCHANGED <<message, jobs, locals, seen, relayed, sendhist, told, raced, lost>>

-----------------------------------------------------------------------------
RequestStep(r) ==
    \/ Create(r) \/ RecordSent(r) \/ Schedule(r) \/ RecordFailed(r) \/ Tell(r)

WorkerStep(w) ==
    \/ Load(w) \/ AlreadyTerminal(w) \/ Claim(w) \/ Contended(w) \/ Mark(w)
    \/ Release(w) \/ Fail(w) \/ Sent(w) \/ TellByWorker(w)

Call(a) ==
    \E outcome \in {"accepted", "transient", "rejected"}, took \in BOOLEAN :
        CallMeta(a, outcome, took)

MessageNext ==
    \/ \E r \in Requests :
          \/ Look(r) \/ RequestStep(r)
          \/ RecordSentFails(r) \/ ScheduleFails(r) \/ RequestDies(r)
    \/ \E w \in Workers :
          StartJob(w) \/ WorkerStep(w) \/ SentFails(w) \/ WorkerFails(w) \/ WorkerDies(w)
    \/ \E a \in Actors : Call(a)
    \/ ReconcileMessage \/ ReconcileJob
    \/ \E k \in Reports :
          \/ \E c \in accepted : Receive(k, c)
          \/ Apply(k) \/ TellReport(k) \/ FinishReport(k)
          \/ \E status \in {"PENDING", "FAILED"} : ReportFails(k, status)

MessageSpec == MessageInit /\ [][MessageNext]_wavars

(* pg_cron starts the processor every minute, with a reconciliation before  *)
(* it; an invocation that does not die takes its next step.                 *)
MessageFairness ==
    /\ \A r \in Requests : WF_wavars(RequestStep(r) \/ Call(r))
    /\ \A w \in Workers : WF_wavars(WorkerStep(w) \/ Call(w))
    /\ WF_wavars(\E w \in Workers : StartJob(w))
    /\ WF_wavars(ReconcileMessage)
    /\ WF_wavars(ReconcileJob)

FairMessageSpec == MessageSpec /\ MessageFairness

-----------------------------------------------------------------------------
(* Properties                                                               *)

(* Requests with the same key, retries, crashes and reconciliation together *)
(* get a message accepted at most once - unless Meta accepted a call whose  *)
(* answer was lost, which the code takes for a transient failure.           *)
AcceptedOnce == unclear \/ Cardinality(accepted) <= 1

(* Meta is called at most MaxSends times, though the message and its job    *)
(* count attempts separately and a crash is counted by one of them.         *)
CallsWithinLimit == calls <= MaxSends

(* The sender of a message (its request, its job) never says both that it   *)
(* was sent and that it failed.  Meta may still report the failure of a     *)
(* message that was sent, and that report is passed on.                     *)
SendersAgree == told # {"sent", "failed"}

(* A message is told as sent, and a report on it is passed on, only with    *)
(* the id of the call Meta accepted.                                        *)
NewsIsOfStored == "sent" \in told \/ relayed # {} => stored \in accepted

(* After its sender told a message as failed no report on it is passed on:  *)
(* the customer never hears that it was delivered, or sent, after all.      *)
FailureIsLast == "failed" \in told => relayed = {}

(* A message that its sender gave up, or told as failed, was not accepted - *)
(* unless the answer was lost or unreadable, or its record failed.          *)
FailedIsUntaken ==
    (mstatus = "FAILED" /\ stored = 0) \/ "failed" \in told => accepted = {} \/ unclear \/ lost

(* Whatever fails and is tried again, and whatever Meta reports in between, *)
(* the sender's own word of a message is true, and nothing that the         *)
(* customer's systems are told of it contradicts a failure once told.       *)
ToldTheTruth == SendersAgree /\ NewsIsOfStored /\ FailureIsLast /\ FailedIsUntaken

(* A message waiting for its retry has a job that will make it, until two   *)
(* faults have used up the one attempt the job has more than the message.   *)
WaitingHasJob ==
    mstatus = "QUEUED" /\ owner = Null /\ faults < 2 => job \in {"QUEUED", "PROCESSING"}

(* Whatever order reports arrive in, a message never steps back, and READ   *)
(* and FAILED are final - unless a report was applied to a message that had *)
(* changed since it was read.                                               *)
NoStepBack ==
    [][Rank(mstatus') < Rank(mstatus) \/ (mstatus = "READ" /\ mstatus' # "READ") => raced']_wavars

(* A message that is asked for is sent or failed in the end, but for the    *)
(* same two faults.                                                         *)
MessageSettles ==
    mstatus = "QUEUED" ~> mstatus # "QUEUED" \/ (job = "FAILED" /\ faults > 1)
=============================================================================
