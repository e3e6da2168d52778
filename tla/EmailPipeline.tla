---------------------------- MODULE EmailPipeline ----------------------------
(***************************************************************************)
(* Deliveries and the jobs that carry them: EmailDelivery driven by        *)
(* BackgroundJobs.  Every delivery has at most one job, under a key made   *)
(* from its id (email-delivery:<id> in enqueueBackground, another prefix   *)
(* in POST /email/send), so a job is named by its delivery.                *)
(*                                                                         *)
(* An invocation that runs a job executes the job's delivery without a     *)
(* claim token; the step that ends execute also ends the body of the job,  *)
(* with what it returned or threw.  An invocation that is not in           *)
(* processBackgroundJobs may be in processTransactionalEmails instead: one *)
(* call of processAll runs its stages one after the other.                 *)
(***************************************************************************)
EXTENDS EmailDelivery

CONSTANTS
    JobTokens,      \* claim tokens of processBackgroundJobs
    MaxJobAttempts  \* BackgroundJob.maxAttempts

ASSUME PipelineConstantsOK ==
    /\ Null \notin JobTokens
    /\ MaxJobAttempts \in Nat \ {0}

VARIABLES
    jstatus, jattempts, jlockedBy, jstale,
    jpc, jtok, jbatch, jcur, jseen, jresult,
    jsnap, succeeded, doomed, displaced

J == INSTANCE BackgroundJobs WITH Jobs <- Deliveries, Tokens <- JobTokens

deliveryVars == vars
jobVars      == <<jstatus, jattempts, jlockedBy, jstale, jpc, jtok, jbatch, jcur, jseen, jresult,
                  jsnap, succeeded, doomed, displaced>>
pipelineVars == <<deliveryVars, jobVars>>

PipelineInit == Init /\ J!JobInit

-----------------------------------------------------------------------------
(* Where work comes from.                                                   *)

(* enqueueBackground: delivery and job in one transaction; no job for a     *)
(* suppressed recipient.                                                    *)
Dispatch(d) ==
    /\ Enqueue(d)
    /\ IF status'[d] = "QUEUED" THEN J!AddJob(d) ELSE UNCHANGED jobVars

(* /email/send: the row first; then the job, an error, or neither.          *)
PostDelivery(d) == Post(d) /\ UNCHANGED jobVars
PostJob(d)      == PostEnds(d) /\ J!AddJob(d)
PostKilled(d)   == PostEnds(d) /\ UNCHANGED jobVars
PostRefused(d)  == PostFails(d) /\ UNCHANGED jobVars

-----------------------------------------------------------------------------
(* The job path: processBackgroundJobs calls EmailDeliveryExecutor.execute. *)

InJob(w)   == jpc[w] = "running"
Waiting(w) == InJob(w) /\ pc[w] = "idle"

ClaimPending(w, B) == pc[w] = "idle" /\ J!ClaimJobs(w, B) /\ UNCHANGED deliveryVars
BeginJob(w, d)     == J!StartJob(w, d) /\ UNCHANGED deliveryVars

LoadForJob(w) ==
    /\ Waiting(w)
    /\ Load(w, jcur[w])
    /\ UNCHANGED jobVars

(* execute ends before any claim: the row is closed, or cannot be read.     *)
EndUnclaimed(w) ==
    /\ Waiting(w)
    /\ \/ status[jcur[w]] \in Terminal /\ J!Return(w, "done")
       \/ J!Return(w, "retry")
    /\ UNCHANGED deliveryVars

(* execute ends: in a job with what it returned or threw.                   *)
EndsWith(w, result) == IF InJob(w) THEN J!Return(w, result) ELSE UNCHANGED jobVars

(* A refusal is contention only while another holder has the row.           *)
RefusalResult(w) == IF status[cur[w]] = "PROCESSING" THEN "yield" ELSE "done"

(* Mutant: the last attempt but one throws the permanent error already.     *)
GiveUpEarly(w, retryable) ==
    IF retryable /\ attempt[w] + 1 < MaxAttempts THEN "retry" ELSE "permanent"

FailureResult(w, retryable) == IF MayTryAgain(w, retryable) THEN "retry" ELSE "permanent"

ExecuteStep(w) ==
    \/ /\ Claim(w) \/ ClaimRefused(w) \/ MarkInFlight(w) \/ ProviderAccepts(w)
       /\ UNCHANGED jobVars
    \/ ReportRefusal(w) /\ EndsWith(w, RefusalResult(w))
    \/ Reject(w) /\ EndsWith(w, "permanent")
    \/ ClaimLost(w) /\ EndsWith(w, "done")
    \/ \E retryable, took \in BOOLEAN :
          SendFails(w, retryable, took) /\ EndsWith(w, FailureResult(w, retryable))
    \/ RecordSent(w) /\ EndsWith(w, "done")
    \/ DatabaseError(w) /\ EndsWith(w, IF pc[w] = "accepted" THEN "permanent" ELSE "retry")

FinishJob(w) ==
    /\ J!ReleaseJobs(w) \/ J!Record(w) \/ J!RecordingFails(w)
    /\ UNCHANGED deliveryVars

-----------------------------------------------------------------------------
SweepStep(w) ==
    /\ jpc[w] = "idle"
    /\ Sweep(w) \/ Release(w)
    /\ UNCHANGED jobVars

CrashStep(w) ==
    /\ pc[w] # "idle" \/ jpc[w] # "idle"
    /\ IF pc[w] # "idle" THEN Crash(w) ELSE UNCHANGED deliveryVars
    /\ IF jpc[w] # "idle" THEN J!JobCrash(w) ELSE UNCHANGED jobVars

DeliverySide(r) ==
    /\ ReconcileRead(r) \/ ReconcileRow(r) \/ ReconcileStops(r)
    /\ UNCHANGED jobVars

JobSide(r) ==
    /\ \/ J!ReconcileReadJobs(r) \/ J!ReconcileJobsStop(r)
       \/ \E s \in jsnap[r] : J!ReconcileJob(r, s)
    /\ UNCHANGED deliveryVars

ClockStep(d) ==
    \/ LockExpires(d) /\ UNCHANGED jobVars
    \/ J!JobLockExpires(d) /\ UNCHANGED deliveryVars

PipelineNext ==
    \/ \E d \in Deliveries :
          \/ Dispatch(d) \/ PostDelivery(d) \/ PostJob(d) \/ PostKilled(d) \/ PostRefused(d)
          \/ ClockStep(d)
    \/ \E w \in Invocations :
          \/ \E B \in SUBSET Deliveries : ClaimPending(w, B)
          \/ \E d \in Deliveries : BeginJob(w, d)
          \/ LoadForJob(w) \/ EndUnclaimed(w) \/ ExecuteStep(w) \/ FinishJob(w)
          \/ SweepStep(w) \/ CrashStep(w)
    \/ \E r \in Reconcilers : DeliverySide(r) \/ JobSide(r)

PipelineSpec == PipelineInit /\ [][PipelineNext]_pipelineVars

-----------------------------------------------------------------------------
(* Properties.                                                              *)

(* A permanent error closes the job for good, so its delivery must be past  *)
(* any retry: closed, or marked for reconciliation to close.                *)
PermanentMeansOver ==
    \A d \in doomed \ overwritten : status[d] \in Terminal \/ sending[d]

(* Where invocations are killed before their locks grow stale and           *)
(* reconciliations do not overlap, no job is taken from an invocation that  *)
(* still relies on it, although neither the deadline release nor            *)
(* reconciliation looks at the lock it clears.                              *)
JobsKeepTheirHolders == displaced = {}

(* "max 5 attempts" (email-architecture.md:129): no promotional delivery     *)
(* reaches the provider more often than maxAttempts.  execute counts from   *)
(* the row as it was before its claim, so the bound holds while the job     *)
(* queue lets one invocation at a time work on the delivery.  It does not   *)
(* hold for a transactional one: the sweep may claim, fail and requeue the  *)
(* row between the load and the claim of its job, and the count that        *)
(* decides about the retry is then one behind the row's.                    *)
CallsWithinLimit ==
    \A d \in Deliveries \ (Transactional \cup overwritten) : calls[d] <= MaxAttempts

-----------------------------------------------------------------------------
(* Fairness: the processor is called every minute and reconciliation every  *)
(* five.  A job may be claimed and released at the deadline again and again,*)
(* so claims and starts need turns they complete.  Nothing is asked of the  *)
(* sweep: a delivery whose job is in hand does not need it.                 *)
PipelineFairness ==
    /\ \A d \in Deliveries :
          /\ WF_pipelineVars(LockExpires(d) /\ UNCHANGED jobVars)
          /\ WF_pipelineVars(J!JobLockExpires(d) /\ UNCHANGED deliveryVars)
    /\ \A w \in Invocations :
          /\ WF_pipelineVars(LoadForJob(w) \/ EndUnclaimed(w))
          /\ WF_pipelineVars(ExecuteStep(w))
          /\ WF_pipelineVars(J!Record(w) /\ UNCHANGED deliveryVars)
    /\ \A d \in Deliveries :
          /\ SF_pipelineVars(\E w \in Invocations, B \in SUBSET Deliveries : d \in B /\ ClaimPending(w, B))
          /\ SF_pipelineVars(\E w \in Invocations : BeginJob(w, d))
    /\ \A r \in Reconcilers :
          /\ WF_pipelineVars(ReconcileRead(r) /\ UNCHANGED jobVars)
          /\ SF_pipelineVars(ReconcileRow(r) /\ UNCHANGED jobVars)
          /\ WF_pipelineVars(J!ReconcileReadJobs(r) /\ UNCHANGED deliveryVars)
          /\ SF_pipelineVars((\E s \in jsnap[r] : J!ReconcileJob(r, s)) /\ UNCHANGED deliveryVars)

FairPipeline == PipelineSpec /\ PipelineFairness

(* Every job of a promotional delivery is settled: one that yields to       *)
(* another holder of its delivery does not wait for ever, whatever happens  *)
(* to that holder.                                                          *)
JobsSettle ==
    \A d \in Deliveries \ Transactional :
        jstatus[d] \in {"QUEUED", "PROCESSING"} ~>
            jstatus[d] \in {"COMPLETED", "FAILED"} \/ attempts[d] = AttemptCap
=============================================================================
