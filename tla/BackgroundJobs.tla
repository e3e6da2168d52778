--------------------------- MODULE BackgroundJobs ---------------------------
(***************************************************************************)
(* The durable job queue on the BackgroundJob table:                       *)
(*   ServerlessJobProcessor.processBackgroundJobs, whatever its jobs do;   *)
(*   ReconciliationExecutor.reconcile, its BackgroundJob part;             *)
(*   PostgresJobQueue.add and remove.                                      *)
(*                                                                         *)
(* A job is a row.  Its body is one step that leaves a result: "done",     *)
(* "yield" (another holder works on the same item), "retry" or             *)
(* "permanent" (what the body threw).  The processor does not look at the  *)
(* row again between claiming a batch and running its jobs.                *)
(*                                                                         *)
(* jstale[j] says that lockedAt is older than STALE_LOCK_MS; availableAt   *)
(* (the retry delay) is abstracted away.                                   *)
(***************************************************************************)
EXTENDS Integers, FiniteSets

CONSTANTS
    Jobs,           \* BackgroundJob rows; a key added again after remove is a new row
    Invocations,    \* concurrent calls of processBackgroundJobs
    Reconcilers,    \* concurrent reconciliation sweeps
    Tokens,         \* claim tokens
    Null,           \* SQL NULL, or nothing at hand
    MaxJobAttempts, \* the rows' maxAttempts
    OwnersMayStall  \* FALSE: an invocation is killed (maxDuration) before its lock is stale

ASSUME JobConstantsOK ==
    /\ Null \notin Tokens \cup Jobs
    /\ MaxJobAttempts \in Nat \ {0}
    /\ OwnersMayStall \in BOOLEAN

VARIABLES
    \* the BackgroundJob table
    jstatus, jattempts, jlockedBy, jstale,
    \* the local variables of each invocation
    jpc, jtok, jbatch, jcur, jseen, jresult,
    \* the stale rows a reconciliation has read and not yet handled
    jsnap,
    \* history: jobs whose body succeeded or failed for good, and jobs that
    \* a write took from an invocation relying on them, or from a holder other
    \* than the one the writer had seen
    succeeded, doomed, displaced

jrow     == <<jstatus, jattempts, jlockedBy, jstale>>
jlocal   == <<jpc, jtok, jbatch, jcur, jseen, jresult>>
jhistory == <<succeeded, doomed, displaced>>
jvars    == <<jrow, jlocal, jsnap, jhistory>>

Closed   == {"COMPLETED", "FAILED", "REMOVED"}
Results  == {"none", "done", "yield", "retry", "permanent"}

JobSnapshots == [id : Jobs, lockedBy : Tokens \cup {Null}, attempts : Int]

JobTypeOK ==
    /\ jstatus \in [Jobs -> {"NONE", "QUEUED", "PROCESSING"} \cup Closed]
    /\ jattempts \in [Jobs -> Int]
    /\ jlockedBy \in [Jobs -> Tokens \cup {Null}]
    /\ jstale \in [Jobs -> BOOLEAN]
    /\ jpc \in [Invocations -> {"idle", "looping", "running", "returned"}]
    /\ jtok \in [Invocations -> Tokens \cup {Null}]
    /\ jbatch \in [Invocations -> SUBSET Jobs]
    /\ jcur \in [Invocations -> Jobs \cup {Null}]
    /\ \A w \in Invocations : jcur[w] \in Jobs <=> jpc[w] \in {"running", "returned"}
    /\ jseen \in [Invocations -> [Jobs -> Int]]
    /\ jresult \in [Invocations -> Results]
    /\ jsnap \in [Reconcilers -> SUBSET JobSnapshots]
    /\ succeeded \in SUBSET Jobs
    /\ doomed \in SUBSET Jobs
    /\ displaced \in SUBSET Jobs

JobInit ==
    /\ jstatus = [j \in Jobs |-> "NONE"]
    /\ jattempts = [j \in Jobs |-> 0]
    /\ jlockedBy = [j \in Jobs |-> Null]
    /\ jstale = [j \in Jobs |-> FALSE]
    /\ jpc = [w \in Invocations |-> "idle"]
    /\ jtok = [w \in Invocations |-> Null]
    /\ jbatch = [w \in Invocations |-> {}]
    /\ jcur = [w \in Invocations |-> Null]
    /\ jseen = [w \in Invocations |-> [j \in Jobs |-> 0]]
    /\ jresult = [w \in Invocations |-> "none"]
    /\ jsnap = [r \in Reconcilers |-> {}]
    /\ succeeded = {}
    /\ doomed = {}
    /\ displaced = {}

-----------------------------------------------------------------------------
(* Who still relies on a job: it is in hand, or claimed and not yet begun.  *)
Relies(w, j) == j \in jbatch[w] \/ jcur[w] = j

JobTokenInUse(t) ==
    \/ \E j \in Jobs : jlockedBy[j] = t
    \/ \E w \in Invocations : jtok[w] = t
    \/ \E r \in Reconcilers : \E s \in jsnap[r] : s.lockedBy = t

OwnsJob(w) == jlockedBy[jcur[w]] = jtok[w]

(* Every write that ends a claim: the status, and the lock cleared.         *)
GiveUp(j, s) ==
    /\ jstatus' = [jstatus EXCEPT ![j] = s]
    /\ jlockedBy' = [jlockedBy EXCEPT ![j] = Null]
    /\ jstale' = [jstale EXCEPT ![j] = FALSE]

(* The next turn of the loop over the batch, or its end.                    *)
NextJob(w) ==
    /\ jpc' = [jpc EXCEPT ![w] = IF jbatch[w] = {} THEN "idle" ELSE "looping"]
    /\ jtok' = [jtok EXCEPT ![w] = IF jbatch[w] = {} THEN Null ELSE @]
    /\ jseen' = [jseen EXCEPT ![w] = IF jbatch[w] = {} THEN [j \in Jobs |-> 0] ELSE @]
    /\ jcur' = [jcur EXCEPT ![w] = Null]
    /\ jresult' = [jresult EXCEPT ![w] = "none"]
    /\ UNCHANGED jbatch

-----------------------------------------------------------------------------
(* PostgresJobQueue.add; a key that exists already leaves the row alone.    *)
AddJob(j) ==
    /\ jstatus[j] = "NONE"
    /\ jstatus' = [jstatus EXCEPT ![j] = "QUEUED"]
    /\ UNCHANGED <<jattempts, jlockedBy, jstale, jlocal, jsnap, jhistory>>

(* QueuedJob.remove: a campaign deletes a closed job before adding its key  *)
(* again, and deletes its trigger job, whatever its state, on cancellation. *)
RemoveJob(j) ==
    /\ jstatus[j] \notin {"NONE", "REMOVED"}
    /\ GiveUp(j, "REMOVED")
    /\ displaced' = IF \E w \in Invocations : Relies(w, j) THEN displaced \cup {j} ELSE displaced
    /\ UNCHANGED <<jattempts, jlocal, jsnap, succeeded, doomed>>

-----------------------------------------------------------------------------
(* ServerlessJobProcessor.processBackgroundJobs                             *)

(* Mutant: the claim also takes over jobs whose lock is stale.              *)
ReadyOrStale(j) == jstatus[j] = "QUEUED" \/ (jstatus[j] = "PROCESSING" /\ jstale[j])

Ready(j) == jstatus[j] = "QUEUED"

(* One UPDATE claims a batch under one token.  It does not look at          *)
(* maxAttempts: who requeues a row must have done so.                       *)
ClaimJobs(w, B) ==
    /\ jpc[w] = "idle"
    /\ B # {}
    /\ \A j \in B : Ready(j)
    /\ \E t \in Tokens :
          /\ ~JobTokenInUse(t)
          /\ jtok' = [jtok EXCEPT ![w] = t]
          /\ jlockedBy' = [j \in Jobs |-> IF j \in B THEN t ELSE jlockedBy[j]]
    /\ jstatus' = [j \in Jobs |-> IF j \in B THEN "PROCESSING" ELSE jstatus[j]]
    /\ jattempts' = [j \in Jobs |-> IF j \in B THEN jattempts[j] + 1 ELSE jattempts[j]]
    /\ jseen' = [jseen EXCEPT ![w] = [j \in Jobs |-> IF j \in B THEN jattempts[j] + 1 ELSE 0]]
    /\ jbatch' = [jbatch EXCEPT ![w] = B]
    /\ jpc' = [jpc EXCEPT ![w] = "looping"]
    /\ UNCHANGED <<jstale, jcur, jresult, jsnap, jhistory>>

StartJob(w, j) ==
    /\ jpc[w] = "looping"
    /\ j \in jbatch[w]
    /\ jpc' = [jpc EXCEPT ![w] = "running"]
    /\ jcur' = [jcur EXCEPT ![w] = j]
    /\ jbatch' = [jbatch EXCEPT ![w] = @ \ {j}]
    /\ UNCHANGED <<jrow, jtok, jseen, jresult, jsnap, jhistory>>

(* The deadline: the jobs not started are put back, whoever holds them now. *)
ReleaseJobs(w) ==
    LET B == {j \in jbatch[w] : jstatus[j] # "REMOVED"} IN
    /\ jpc[w] = "looping"
    /\ jstatus' = [j \in Jobs |-> IF j \in B THEN "QUEUED" ELSE jstatus[j]]
    /\ jlockedBy' = [j \in Jobs |-> IF j \in B THEN Null ELSE jlockedBy[j]]
    /\ jstale' = [j \in Jobs |-> j \notin B /\ jstale[j]]
    /\ jattempts' = [j \in Jobs |-> IF j \in B THEN jattempts[j] - 1 ELSE jattempts[j]]
    /\ jpc' = [jpc EXCEPT ![w] = "idle"]
    /\ jtok' = [jtok EXCEPT ![w] = Null]
    /\ jbatch' = [jbatch EXCEPT ![w] = {}]
    /\ jseen' = [jseen EXCEPT ![w] = [j \in Jobs |-> 0]]
    /\ displaced' = displaced \cup {j \in B : jlockedBy[j] # jtok[w]}
    /\ UNCHANGED <<jcur, jresult, jsnap, succeeded, doomed>>

(* The body of the job ends.                                                *)
Return(w, result) ==
    /\ jpc[w] = "running"
    /\ jpc' = [jpc EXCEPT ![w] = "returned"]
    /\ jresult' = [jresult EXCEPT ![w] = result]
    /\ succeeded' = IF result = "done" THEN succeeded \cup {jcur[w]} ELSE succeeded
    /\ doomed' = IF result = "permanent" THEN doomed \cup {jcur[w]} ELSE doomed
    /\ UNCHANGED <<jrow, jtok, jbatch, jcur, jseen, jsnap, displaced>>

(* Mutant: a yield closes the job.                                          *)
YieldCompletes(w) ==
    LET j == jcur[w] IN
    /\ jpc[w] = "returned"
    /\ jresult[w] = "yield"
    /\ IF jstatus[j] = "PROCESSING" /\ OwnsJob(w)
       THEN GiveUp(j, "COMPLETED")
       ELSE UNCHANGED <<jstatus, jlockedBy, jstale>>
    /\ NextJob(w)
    /\ UNCHANGED <<jattempts, jsnap, jhistory>>

(* Waiting on another holder is not an attempt.                             *)
RecordYield(w) ==
    LET j == jcur[w] IN
    /\ jpc[w] = "returned"
    /\ jresult[w] = "yield"
    /\ IF jstatus[j] = "PROCESSING" /\ OwnsJob(w)
       THEN /\ GiveUp(j, "QUEUED")
            /\ jattempts' = [jattempts EXCEPT ![j] = @ - 1]
       ELSE UNCHANGED jrow
    /\ NextJob(w)
    /\ UNCHANGED <<jsnap, jhistory>>

RecordDone(w) ==
    /\ jpc[w] = "returned"
    /\ jresult[w] = "done"
    /\ IF OwnsJob(w) THEN GiveUp(jcur[w], "COMPLETED") ELSE UNCHANGED <<jstatus, jlockedBy, jstale>>
    /\ NextJob(w)
    /\ UNCHANGED <<jattempts, jsnap, jhistory>>

ReachesMax(n) == n >= MaxJobAttempts

RecordError(w) ==
    LET j == jcur[w]
        shouldFail == jresult[w] = "permanent" \/ ReachesMax(jseen[w][j])
    IN
    /\ jpc[w] = "returned"
    /\ jresult[w] \in {"retry", "permanent"}
    /\ IF OwnsJob(w)
       THEN GiveUp(j, IF shouldFail THEN "FAILED" ELSE "QUEUED")
       ELSE UNCHANGED <<jstatus, jlockedBy, jstale>>
    /\ NextJob(w)
    /\ UNCHANGED <<jattempts, jsnap, jhistory>>

(* The database refuses the write of a result.  Inside the try block that   *)
(* is one more error of the job; inside the catch block it ends the call.   *)
RecordingFails(w) ==
    /\ jpc[w] = "returned"
    /\ jresult[w] \in {"done", "yield"}
    /\ jresult' = [jresult EXCEPT ![w] = "retry"]
    /\ UNCHANGED <<jrow, jpc, jtok, jbatch, jcur, jseen, jsnap, jhistory>>

(* The invocation is killed, or an error leaves the loop.                   *)
JobCrash(w) ==
    /\ jpc[w] # "idle"
    /\ jpc' = [jpc EXCEPT ![w] = "idle"]
    /\ jtok' = [jtok EXCEPT ![w] = Null]
    /\ jbatch' = [jbatch EXCEPT ![w] = {}]
    /\ jcur' = [jcur EXCEPT ![w] = Null]
    /\ jseen' = [jseen EXCEPT ![w] = [j \in Jobs |-> 0]]
    /\ jresult' = [jresult EXCEPT ![w] = "none"]
    /\ UNCHANGED <<jrow, jsnap, jhistory>>

-----------------------------------------------------------------------------
JobLockExpires(j) ==
    /\ jstatus[j] = "PROCESSING"
    /\ ~jstale[j]
    /\ OwnersMayStall \/ \A w \in Invocations : jtok[w] # jlockedBy[j]
    /\ jstale' = [jstale EXCEPT ![j] = TRUE]
    /\ UNCHANGED <<jstatus, jattempts, jlockedBy, jlocal, jsnap, jhistory>>

(* Mutant: the staleness cutoff is dropped.                                 *)
ClaimedJobs ==
    {[id |-> j, lockedBy |-> jlockedBy[j], attempts |-> jattempts[j]] :
        j \in {i \in Jobs : jstatus[i] = "PROCESSING"}}

(* ReconciliationExecutor.reconcile: findMany, then one update per row,     *)
(* under whatever lock the row carries by then.                             *)
StaleJobs ==
    {[id |-> j, lockedBy |-> jlockedBy[j], attempts |-> jattempts[j]] :
        j \in {i \in Jobs : jstatus[i] = "PROCESSING" /\ jstale[i]}}

ReconcileReadJobs(r) ==
    /\ jsnap[r] = {}
    /\ StaleJobs # {}
    /\ jsnap' = [jsnap EXCEPT ![r] = StaleJobs]
    /\ UNCHANGED <<jrow, jlocal, jhistory>>

ReconcileJob(r, s) ==
    /\ IF jstatus[s.id] = "PROCESSING"
       THEN GiveUp(s.id, IF ReachesMax(s.attempts) THEN "FAILED" ELSE "QUEUED")
       ELSE UNCHANGED <<jstatus, jlockedBy, jstale>>
    /\ jsnap' = [jsnap EXCEPT ![r] = @ \ {s}]
    /\ displaced' =
          IF /\ jstatus[s.id] = "PROCESSING"
             /\ jlockedBy[s.id] # s.lockedBy \/ \E w \in Invocations : Relies(w, s.id)
          THEN displaced \cup {s.id}
          ELSE displaced
    /\ UNCHANGED <<jattempts, jlocal, succeeded, doomed>>

ReconcileJobsStop(r) ==
    /\ jsnap[r] # {}
    /\ jsnap' = [jsnap EXCEPT ![r] = {}]
    /\ UNCHANGED <<jrow, jlocal, jhistory>>

-----------------------------------------------------------------------------
Record(w) == RecordYield(w) \/ RecordDone(w) \/ RecordError(w)

JobStep ==
    \/ \E j \in Jobs : AddJob(j) \/ JobLockExpires(j)
    \/ \E w \in Invocations :
          \/ \E B \in SUBSET Jobs : ClaimJobs(w, B)
          \/ \E j \in Jobs : StartJob(w, j)
          \/ \E result \in Results \ {"none"} : Return(w, result)
          \/ ReleaseJobs(w) \/ Record(w) \/ RecordingFails(w) \/ JobCrash(w)
    \/ \E r \in Reconcilers :
          \/ ReconcileReadJobs(r) \/ ReconcileJobsStop(r)
          \/ \E s \in jsnap[r] : ReconcileJob(r, s)

JobNext == JobStep \/ \E j \in Jobs : RemoveJob(j)

JobSpec == JobInit /\ [][JobNext]_jvars

-----------------------------------------------------------------------------
(* Properties.                                                              *)

(* Two invocations never have the same job in hand or in their batches,     *)
(* unless its lock was taken from an invocation that relied on it.          *)
JobsRunAlone ==
    \A v, w \in Invocations : \A j \in Jobs \ displaced :
        Relies(v, j) /\ Relies(w, j) => v = w

(* A job is COMPLETED only after its body succeeded and FAILED only after a *)
(* permanent error or the last attempt it was allowed.                      *)
ClosedForAReason ==
    \A j \in Jobs \ displaced :
        /\ jstatus[j] = "COMPLETED" => j \in succeeded
        /\ jstatus[j] = "FAILED" => j \in doomed \/ jattempts[j] = MaxJobAttempts

(* The claim does not look at maxAttempts, yet no job is claimed more often *)
(* than that: every path back to QUEUED checks the count or gives one back. *)
AttemptsRespectLimit ==
    \A j \in Jobs \ displaced : jattempts[j] \in 0..MaxJobAttempts

(* A closed job is not run again: only a displaced one leaves its state,    *)
(* except to be removed.                                                    *)
ClosedJobsStayClosed ==
    [][\A j \in Jobs :
          jstatus[j] \in Closed /\ jstatus'[j] # jstatus[j] =>
              jstatus'[j] = "REMOVED" \/ j \in displaced']_jvars

-----------------------------------------------------------------------------
(* The inductive invariant behind these properties, in named parts.         *)

(* A job is locked exactly while it is PROCESSING.                          *)
JobLockShape ==
    \A j \in Jobs : jlockedBy[j] # Null <=> jstatus[j] = "PROCESSING"

(* What an invocation remembers in each phase.                              *)
JobLocalShape ==
    \A w \in Invocations :
        /\ jtok[w] = Null <=> jpc[w] = "idle"
        /\ jpc[w] = "idle" => jbatch[w] = {}
        /\ jcur[w] \notin jbatch[w]
        /\ jpc[w] # "returned" => jresult[w] = "none"

JobTokensUnique ==
    \A v, w \in Invocations : jtok[v] = jtok[w] /\ jtok[v] # Null => v = w

(* Who relies on a job holds its lock, and saw the count of its attempts.   *)
HoldersLock ==
    \A w \in Invocations : \A j \in Jobs \ displaced :
        Relies(w, j) => jlockedBy[j] = jtok[w] /\ jseen[w][j] = jattempts[j]

(* What a reconciliation read about a job is true while the lock is the same. *)
SnapshotsHonest ==
    \A r \in Reconcilers : \A s \in jsnap[r] :
        /\ s.lockedBy # Null
        /\ s.id \notin displaced /\ jlockedBy[s.id] = s.lockedBy => s.attempts = jattempts[s.id]

(* A queued job has an attempt left, a claimed one has one to give back.    *)
AttemptsLeft ==
    \A j \in Jobs \ displaced :
        /\ jattempts[j] \in 0..MaxJobAttempts
        /\ jstatus[j] \in {"NONE", "QUEUED"} => jattempts[j] < MaxJobAttempts
        /\ jstatus[j] = "PROCESSING" => jattempts[j] > 0

ResultsHonest ==
    \A w \in Invocations :
        /\ jresult[w] = "done" => jcur[w] \in succeeded
        /\ jresult[w] = "permanent" => jcur[w] \in doomed

JobIInv ==
    /\ JobTypeOK /\ JobLockShape /\ JobLocalShape /\ JobTokensUnique
    /\ HoldersLock /\ SnapshotsHonest /\ AttemptsLeft /\ ResultsHonest /\ ClosedForAReason

(* Where invocations are killed before their locks grow stale and one       *)
(* reconciliation runs at a time, a stale job's holder is gone, and what    *)
(* was read about it stays true until it is handled: nothing is displaced.  *)
HeldJobs ==
    /\ displaced = {}
    /\ \A j \in Jobs : jstale[j] =>
          jstatus[j] = "PROCESSING" /\ \A w \in Invocations : jtok[w] # jlockedBy[j]
    /\ \A r \in Reconcilers : \A s \in jsnap[r] :
          /\ jstale[s.id] /\ jlockedBy[s.id] = s.lockedBy
          /\ \A t \in jsnap[r] : t.id = s.id => t = s
=============================================================================
