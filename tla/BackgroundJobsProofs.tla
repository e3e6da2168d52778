------------------------ MODULE BackgroundJobsProofs ------------------------
(***************************************************************************)
(* The safety properties of BackgroundJobs for every set of jobs,          *)
(* invocations, reconciliation sweeps and tokens and every attempt limit.  *)
(*                                                                         *)
(* The argument: who relies on a job that was not displaced holds its lock *)
(* under a token of its own, and knows its attempt count (HoldersLock);    *)
(* hence two cannot rely on it, what is written back is decided on the     *)
(* right count, and a released attempt was really taken.                   *)
(***************************************************************************)
EXTENDS BackgroundJobs, TLAPS

Holding  == JobLockShape /\ JobLocalShape /\ JobTokensUnique /\ HoldersLock
Counting == AttemptsLeft /\ ResultsHonest /\ ClosedForAReason

-----------------------------------------------------------------------------
(* A write that ends a claim, made or not, keeps the row well typed.        *)
LEMMA GiveUpType ==
    ASSUME JobTypeOK, NEW j \in Jobs, NEW s \in {"QUEUED"} \cup Closed, NEW owned,
           IF owned THEN GiveUp(j, s) ELSE UNCHANGED <<jstatus, jlockedBy, jstale>>
    PROVE  /\ jstatus' \in [Jobs -> {"NONE", "QUEUED", "PROCESSING"} \cup Closed]
           /\ jlockedBy' \in [Jobs -> Tokens \cup {Null}]
           /\ jstale' \in [Jobs -> BOOLEAN]
<1>1. CASE owned
  <2>1. GiveUp(j, s)
    BY <1>1
  <2>2. QED
    BY <2>1 DEF GiveUp, JobTypeOK
<1>2. CASE ~owned
    BY <1>2 DEF JobTypeOK
<1>3. QED
    BY <1>1, <1>2

(* The next turn of the loop keeps the local variables well typed.          *)
LEMMA NextJobType ==
    ASSUME JobTypeOK, NEW w \in Invocations, NextJob(w)
    PROVE  /\ jpc' \in [Invocations -> {"idle", "looping", "running", "returned"}]
           /\ jtok' \in [Invocations -> Tokens \cup {Null}]
           /\ jbatch' \in [Invocations -> SUBSET Jobs]
           /\ jcur' \in [Invocations -> Jobs \cup {Null}]
           /\ \A v \in Invocations : jcur'[v] \in Jobs <=> jpc'[v] \in {"running", "returned"}
           /\ jseen' \in [Invocations -> [Jobs -> Int]]
           /\ jresult' \in [Invocations -> Results]
    BY JobConstantsOK DEF NextJob, JobTypeOK, Results

(* Type correctness: every step writes values of the right type.            *)
LEMMA JobTypeStep == JobTypeOK /\ [JobNext]_jvars => JobTypeOK'
<1> SUFFICES ASSUME JobTypeOK, [JobNext]_jvars PROVE JobTypeOK'
    OBVIOUS
<1> USE JobConstantsOK DEF JobTypeOK, Closed, Results, JobSnapshots, jvars, jrow, jlocal, jhistory
<1>1. ASSUME NEW j \in Jobs, AddJob(j) PROVE JobTypeOK'
    BY <1>1 DEF AddJob
<1>2. ASSUME NEW j \in Jobs, RemoveJob(j) PROVE JobTypeOK'
    BY <1>2 DEF RemoveJob, GiveUp
<1>3. ASSUME NEW j \in Jobs, JobLockExpires(j) PROVE JobTypeOK'
    BY <1>3 DEF JobLockExpires
<1>4. ASSUME NEW w \in Invocations, NEW B \in SUBSET Jobs, ClaimJobs(w, B) PROVE JobTypeOK'
    BY <1>4 DEF ClaimJobs
<1>5. ASSUME NEW w \in Invocations, NEW j \in Jobs, StartJob(w, j) PROVE JobTypeOK'
    BY <1>5 DEF StartJob
<1>6. ASSUME NEW w \in Invocations, NEW result \in Results \ {"none"}, Return(w, result)
      PROVE  JobTypeOK'
    BY <1>6 DEF Return
<1>7. ASSUME NEW w \in Invocations, ReleaseJobs(w) PROVE JobTypeOK'
    BY <1>7 DEF ReleaseJobs
<1>8. ASSUME NEW w \in Invocations, RecordYield(w) PROVE JobTypeOK'
  <2>1. jcur[w] \in Jobs
    BY <1>8 DEF RecordYield
  <2>2. PICK owned \in BOOLEAN :
            IF owned THEN GiveUp(jcur[w], "QUEUED") ELSE UNCHANGED <<jstatus, jlockedBy, jstale>>
    BY <1>8 DEF RecordYield
  <2>3. jattempts' \in [Jobs -> Int]
    BY <1>8 DEF RecordYield
  <2>4. QED
    BY <1>8, <2>1, <2>2, <2>3, GiveUpType, NextJobType DEF RecordYield
<1>9. ASSUME NEW w \in Invocations, RecordDone(w) PROVE JobTypeOK'
  <2>1. jcur[w] \in Jobs
    BY <1>9 DEF RecordDone
  <2>2. QED
    BY <1>9, <2>1, GiveUpType, NextJobType DEF RecordDone
<1>10. ASSUME NEW w \in Invocations, RecordError(w) PROVE JobTypeOK'
  <2>1. jcur[w] \in Jobs
    BY <1>10 DEF RecordError
  <2>2. PICK s \in {"QUEUED"} \cup Closed :
            IF OwnsJob(w) THEN GiveUp(jcur[w], s) ELSE UNCHANGED <<jstatus, jlockedBy, jstale>>
    BY <1>10 DEF RecordError
  <2>3. QED
    BY <1>10, <2>1, <2>2, GiveUpType, NextJobType DEF RecordError
<1>11. ASSUME NEW w \in Invocations, RecordingFails(w) PROVE JobTypeOK'
    BY <1>11 DEF RecordingFails
<1>12. ASSUME NEW w \in Invocations, JobCrash(w) PROVE JobTypeOK'
    BY <1>12 DEF JobCrash
<1>13. ASSUME NEW r \in Reconcilers, ReconcileReadJobs(r) PROVE JobTypeOK'
    BY <1>13 DEF ReconcileReadJobs, StaleJobs
<1>14. ASSUME NEW r \in Reconcilers, ReconcileJobsStop(r) PROVE JobTypeOK'
    BY <1>14 DEF ReconcileJobsStop
<1>15. ASSUME NEW r \in Reconcilers, NEW s \in jsnap[r], ReconcileJob(r, s) PROVE JobTypeOK'
  <2>1. s.id \in Jobs
    OBVIOUS
  <2>2. PICK q \in {"QUEUED"} \cup Closed :
            IF jstatus[s.id] = "PROCESSING" THEN GiveUp(s.id, q)
            ELSE UNCHANGED <<jstatus, jlockedBy, jstale>>
    BY <1>15 DEF ReconcileJob
  <2>3. QED
    BY <1>15, <2>1, <2>2, GiveUpType DEF ReconcileJob
<1>16. CASE UNCHANGED jvars
    BY <1>16
<1> HIDE DEF JobTypeOK, Closed, Results, JobSnapshots, jvars, jrow, jlocal, jhistory
<1>17. QED
    BY <1>1, <1>2, <1>3, <1>4, <1>5, <1>6, <1>7, <1>8, <1>9, <1>10, <1>11, <1>12, <1>13,
       <1>14, <1>15, <1>16 DEF JobNext, JobStep, Record

-----------------------------------------------------------------------------
(* Locks, tokens and holders.                                               *)
LEMMA HoldingStep == JobTypeOK /\ Holding /\ JobTypeOK' /\ [JobNext]_jvars => Holding'
<1> SUFFICES ASSUME JobTypeOK, Holding, JobTypeOK', [JobNext]_jvars PROVE Holding'
    OBVIOUS
<1> USE JobConstantsOK DEF Holding, JobLockShape, JobLocalShape, JobTokensUnique, HoldersLock,
       Relies, JobTypeOK, Closed, Results, JobSnapshots, jvars, jrow, jlocal, jhistory
<1>1. ASSUME NEW j \in Jobs, AddJob(j) PROVE Holding'
    BY <1>1 DEF AddJob
<1>2. ASSUME NEW j \in Jobs, RemoveJob(j) PROVE Holding'
    BY <1>2 DEF RemoveJob, GiveUp
<1>3. ASSUME NEW j \in Jobs, JobLockExpires(j) PROVE Holding'
    BY <1>3 DEF JobLockExpires
<1>4. ASSUME NEW w \in Invocations, NEW B \in SUBSET Jobs, ClaimJobs(w, B) PROVE Holding'
    BY <1>4 DEF ClaimJobs, JobTokenInUse, Ready
<1>5. ASSUME NEW w \in Invocations, NEW j \in Jobs, StartJob(w, j) PROVE Holding'
    BY <1>5 DEF StartJob
<1>6. ASSUME NEW w \in Invocations, NEW result \in Results \ {"none"}, Return(w, result)
      PROVE  Holding'
    BY <1>6 DEF Return
<1>7. ASSUME NEW w \in Invocations, ReleaseJobs(w) PROVE Holding'
    BY <1>7 DEF ReleaseJobs
<1>8. ASSUME NEW w \in Invocations, RecordYield(w) PROVE Holding'
  <2>1. jcur[w] \in Jobs
    BY <1>8 DEF RecordYield
  <2>2. CASE jstatus[jcur[w]] = "PROCESSING" /\ OwnsJob(w)
    <3>1. GiveUp(jcur[w], "QUEUED") /\ jattempts' = [jattempts EXCEPT ![jcur[w]] = @ - 1]
      BY <1>8, <2>2 DEF RecordYield
    <3>2. NextJob(w) /\ UNCHANGED displaced
      BY <1>8 DEF RecordYield
    <3>3. JobLockShape'
      BY <2>1, <3>1 DEF GiveUp
    <3>4. JobLocalShape' /\ JobTokensUnique'
      BY <3>2 DEF NextJob
    <3>5. HoldersLock'
      BY <2>1, <2>2, <3>1, <3>2 DEF GiveUp, NextJob, OwnsJob
    <3>6. QED
      BY <3>3, <3>4, <3>5
  <2>3. CASE ~(jstatus[jcur[w]] = "PROCESSING" /\ OwnsJob(w))
    BY <1>8, <2>3 DEF RecordYield, NextJob
  <2>4. QED
    BY <2>2, <2>3
<1>9. ASSUME NEW w \in Invocations, RecordDone(w) PROVE Holding'
    BY <1>9 DEF RecordDone, GiveUp, NextJob, OwnsJob
<1>10. ASSUME NEW w \in Invocations, RecordError(w) PROVE Holding'
    BY <1>10 DEF RecordError, GiveUp, NextJob, OwnsJob
<1>11. ASSUME NEW w \in Invocations, RecordingFails(w) PROVE Holding'
    BY <1>11 DEF RecordingFails
<1>12. ASSUME NEW w \in Invocations, JobCrash(w) PROVE Holding'
    BY <1>12 DEF JobCrash
<1>13. ASSUME NEW r \in Reconcilers, ReconcileReadJobs(r) PROVE Holding'
    BY <1>13 DEF ReconcileReadJobs
<1>14. ASSUME NEW r \in Reconcilers, ReconcileJobsStop(r) PROVE Holding'
    BY <1>14 DEF ReconcileJobsStop
<1>15. ASSUME NEW r \in Reconcilers, NEW s \in jsnap[r], ReconcileJob(r, s) PROVE Holding'
  <2>1. s.id \in Jobs
    OBVIOUS
  <2>2. QED
    BY <1>15, <2>1 DEF ReconcileJob, GiveUp
<1>16. CASE UNCHANGED jvars
    BY <1>16
<1> HIDE DEF Holding, JobLockShape, JobLocalShape, JobTokensUnique, HoldersLock,
       Relies, JobTypeOK, Closed, Results, JobSnapshots, jvars, jrow, jlocal, jhistory
<1>17. QED
    BY <1>1, <1>2, <1>3, <1>4, <1>5, <1>6, <1>7, <1>8, <1>9, <1>10, <1>11, <1>12, <1>13,
       <1>14, <1>15, <1>16 DEF JobNext, JobStep, Record

-----------------------------------------------------------------------------
(* What reconciliation has read.                                            *)

(* A step that leaves the snapshots, and changes the attempts of a job only *)
(* together with its lock and never back to a lock that was read, keeps     *)
(* them honest.                                                             *)
LEMMA SnapshotsKept ==
    ASSUME JobTypeOK, SnapshotsHonest, JobTypeOK',
           \A r \in Reconcilers : jsnap'[r] \subseteq jsnap[r],
           displaced \subseteq displaced',
           \A j \in Jobs :
              \/ jlockedBy'[j] = jlockedBy[j] /\ jattempts'[j] = jattempts[j]
              \/ jlockedBy'[j] = Null
              \/ \A r \in Reconcilers : \A s \in jsnap[r] : s.lockedBy # jlockedBy'[j]
    PROVE  SnapshotsHonest'
<1> SUFFICES ASSUME NEW r \in Reconcilers, NEW s \in jsnap'[r]
    PROVE  /\ s.lockedBy # Null
           /\ s.id \notin displaced' /\ jlockedBy'[s.id] = s.lockedBy
                => s.attempts = jattempts'[s.id]
    BY DEF SnapshotsHonest
<1>1. s \in jsnap[r] /\ s.id \in Jobs
    BY DEF JobTypeOK, JobSnapshots
<1>2. QED
    BY <1>1 DEF SnapshotsHonest

LEMMA SnapshotStep ==
    JobTypeOK /\ Holding /\ SnapshotsHonest /\ JobTypeOK' /\ [JobNext]_jvars => SnapshotsHonest'
<1> SUFFICES ASSUME JobTypeOK, Holding, SnapshotsHonest, JobTypeOK', [JobNext]_jvars
    PROVE SnapshotsHonest'
    OBVIOUS
<1> USE JobConstantsOK DEF jvars, jrow, jlocal, jhistory
<1>1. ASSUME NEW j \in Jobs, AddJob(j) PROVE SnapshotsHonest'
    BY <1>1, SnapshotsKept DEF AddJob
<1>2. ASSUME NEW j \in Jobs, RemoveJob(j) PROVE SnapshotsHonest'
    BY <1>2, SnapshotsKept DEF RemoveJob, GiveUp, JobTypeOK
<1>3. ASSUME NEW j \in Jobs, JobLockExpires(j) PROVE SnapshotsHonest'
    BY <1>3, SnapshotsKept DEF JobLockExpires
<1>4. ASSUME NEW w \in Invocations, NEW B \in SUBSET Jobs, ClaimJobs(w, B) PROVE SnapshotsHonest'
    BY <1>4, SnapshotsKept DEF ClaimJobs, JobTokenInUse
<1>5. ASSUME NEW w \in Invocations, NEW j \in Jobs, StartJob(w, j) PROVE SnapshotsHonest'
    BY <1>5, SnapshotsKept DEF StartJob
<1>6. ASSUME NEW w \in Invocations, NEW result \in Results \ {"none"}, Return(w, result)
      PROVE  SnapshotsHonest'
    BY <1>6, SnapshotsKept DEF Return
<1>7. ASSUME NEW w \in Invocations, ReleaseJobs(w) PROVE SnapshotsHonest'
    BY <1>7, SnapshotsKept DEF ReleaseJobs
<1>8. ASSUME NEW w \in Invocations, RecordYield(w) PROVE SnapshotsHonest'
    BY <1>8, SnapshotsKept DEF RecordYield, GiveUp, JobTypeOK
<1>9. ASSUME NEW w \in Invocations, RecordDone(w) PROVE SnapshotsHonest'
    BY <1>9, SnapshotsKept DEF RecordDone, GiveUp, JobTypeOK
<1>10. ASSUME NEW w \in Invocations, RecordError(w) PROVE SnapshotsHonest'
    BY <1>10, SnapshotsKept DEF RecordError, GiveUp, JobTypeOK
<1>11. ASSUME NEW w \in Invocations, RecordingFails(w) PROVE SnapshotsHonest'
    BY <1>11, SnapshotsKept DEF RecordingFails
<1>12. ASSUME NEW w \in Invocations, JobCrash(w) PROVE SnapshotsHonest'
    BY <1>12, SnapshotsKept DEF JobCrash
<1>13. ASSUME NEW r \in Reconcilers, ReconcileReadJobs(r) PROVE SnapshotsHonest'
  <2>1. \A s \in StaleJobs : /\ s.id \in Jobs /\ s.lockedBy # Null
                            /\ s.attempts = jattempts[s.id]
    BY DEF StaleJobs, Holding, JobLockShape
  <2>2. ASSUME NEW q \in Reconcilers, NEW s \in jsnap'[q]
        PROVE  s \in jsnap[q] \/ s \in StaleJobs
    BY <1>13, <2>2 DEF ReconcileReadJobs, JobTypeOK
  <2>3. UNCHANGED <<jlockedBy, jattempts, displaced>>
    BY <1>13 DEF ReconcileReadJobs
  <2>4. QED
    BY <2>1, <2>2, <2>3 DEF SnapshotsHonest
<1>14. ASSUME NEW r \in Reconcilers, ReconcileJobsStop(r) PROVE SnapshotsHonest'
    BY <1>14, SnapshotsKept DEF ReconcileJobsStop, JobTypeOK
<1>15. ASSUME NEW r \in Reconcilers, NEW s \in jsnap[r], ReconcileJob(r, s) PROVE SnapshotsHonest'
    BY <1>15, SnapshotsKept DEF ReconcileJob, GiveUp, JobTypeOK, JobSnapshots
<1>16. CASE UNCHANGED jvars
    BY <1>16, SnapshotsKept
<1>17. QED
    BY <1>1, <1>2, <1>3, <1>4, <1>5, <1>6, <1>7, <1>8, <1>9, <1>10, <1>11, <1>12, <1>13,
       <1>14, <1>15, <1>16 DEF JobNext, JobStep, Record

-----------------------------------------------------------------------------
(* A job that is requeued with an attempt left, or failed for a reason.     *)
LEMMA StatusWritten ==
    ASSUME JobTypeOK, AttemptsLeft, ClosedForAReason,
           NEW j \in Jobs, NEW q \in {"QUEUED", "FAILED"},
           jstatus' = [jstatus EXCEPT ![j] = q],
           jattempts' = jattempts, succeeded' = succeeded, doomed' = doomed,
           \A i \in Jobs : i \in displaced => i \in displaced',
           j \notin displaced' /\ q = "FAILED" => j \in doomed \/ jattempts[j] >= MaxJobAttempts,
           j \notin displaced' /\ q = "QUEUED" => jattempts[j] < MaxJobAttempts
    PROVE  AttemptsLeft' /\ ClosedForAReason'
<1>1. ASSUME NEW i \in Jobs \ displaced'
      PROVE  /\ jattempts'[i] = jattempts[i] /\ jattempts[i] \in 0..MaxJobAttempts
             /\ i # j => jstatus'[i] = jstatus[i]
             /\ i = j => jstatus'[i] = q
    BY <1>1 DEF JobTypeOK, AttemptsLeft
<1>2. AttemptsLeft'
    BY <1>1 DEF AttemptsLeft
<1>3. ClosedForAReason'
    BY <1>1, JobConstantsOK DEF ClosedForAReason
<1>4. QED
    BY <1>2, <1>3

(* Attempt counts, results and the reasons for closing a job.               *)
LEMMA CountingStep ==
    JobTypeOK /\ Holding /\ SnapshotsHonest /\ Counting /\ JobTypeOK' /\ [JobNext]_jvars
        => Counting'
<1> SUFFICES ASSUME JobTypeOK, Holding, SnapshotsHonest, Counting, JobTypeOK', [JobNext]_jvars
    PROVE Counting'
    OBVIOUS
<1> USE JobConstantsOK DEF Counting, AttemptsLeft, ResultsHonest, ClosedForAReason,
       Holding, JobLockShape, JobLocalShape, JobTokensUnique, HoldersLock,
       Relies, JobTypeOK, Closed, Results, JobSnapshots, jvars, jrow, jlocal, jhistory
<1>1. ASSUME NEW j \in Jobs, AddJob(j) PROVE Counting'
    BY <1>1 DEF AddJob
<1>2. ASSUME NEW j \in Jobs, RemoveJob(j) PROVE Counting'
    BY <1>2 DEF RemoveJob, GiveUp
<1>3. ASSUME NEW j \in Jobs, JobLockExpires(j) PROVE Counting'
    BY <1>3 DEF JobLockExpires
<1>4. ASSUME NEW w \in Invocations, NEW B \in SUBSET Jobs, ClaimJobs(w, B) PROVE Counting'
    BY <1>4 DEF ClaimJobs, Ready
<1>5. ASSUME NEW w \in Invocations, NEW j \in Jobs, StartJob(w, j) PROVE Counting'
    BY <1>5 DEF StartJob
<1>6. ASSUME NEW w \in Invocations, NEW result \in Results \ {"none"}, Return(w, result)
      PROVE  Counting'
    BY <1>6 DEF Return
<1>7. ASSUME NEW w \in Invocations, ReleaseJobs(w) PROVE Counting'
    BY <1>7 DEF ReleaseJobs
<1>8. ASSUME NEW w \in Invocations, RecordYield(w) PROVE Counting'
  <2>1. jcur[w] \in Jobs
    BY <1>8 DEF RecordYield
  <2>2. ResultsHonest'
    BY <1>8 DEF RecordYield, NextJob
  <2>3. CASE jstatus[jcur[w]] = "PROCESSING" /\ OwnsJob(w)
    <3>1. /\ jstatus' = [jstatus EXCEPT ![jcur[w]] = "QUEUED"]
          /\ jattempts' = [jattempts EXCEPT ![jcur[w]] = @ - 1]
          /\ UNCHANGED <<displaced, succeeded, doomed>>
      BY <1>8, <2>3 DEF RecordYield, GiveUp
    <3>2. AttemptsLeft' /\ ClosedForAReason'
      BY <2>1, <2>3, <3>1
    <3>3. QED
      BY <2>2, <3>2
  <2>4. CASE ~(jstatus[jcur[w]] = "PROCESSING" /\ OwnsJob(w))
    BY <1>8, <2>2, <2>4 DEF RecordYield
  <2>5. QED
    BY <2>3, <2>4
<1>9. ASSUME NEW w \in Invocations, RecordDone(w) PROVE Counting'
    BY <1>9 DEF RecordDone, GiveUp, NextJob, OwnsJob
<1>10. ASSUME NEW w \in Invocations, RecordError(w) PROVE Counting'
  <2>1. jcur[w] \in Jobs
    BY <1>10 DEF RecordError
  <2>2. ResultsHonest' /\ UNCHANGED <<jattempts, displaced, succeeded, doomed>>
    BY <1>10 DEF RecordError, NextJob
  <2>3. CASE OwnsJob(w)
    <3>1. PICK s \in {"QUEUED", "FAILED"} :
              /\ jstatus' = [jstatus EXCEPT ![jcur[w]] = s]
              /\ s = "FAILED" <=>
                    jresult[w] = "permanent" \/ jseen[w][jcur[w]] >= MaxJobAttempts
      BY <1>10, <2>3 DEF RecordError, ReachesMax, GiveUp
    <3>2. jcur[w] \notin displaced => jseen[w][jcur[w]] = jattempts[jcur[w]]
      BY <2>1
    <3>3. jresult[w] = "permanent" => jcur[w] \in doomed
      OBVIOUS
    <3>4. jattempts[jcur[w]] \in Int /\ MaxJobAttempts \in Int
      BY <2>1
    <3>5. s = "FAILED" => jcur[w] \in doomed \/ jattempts[jcur[w]] >= MaxJobAttempts
             \/ jcur[w] \in displaced
      BY <3>1, <3>2, <3>3
    <3>6. s = "QUEUED" => jattempts[jcur[w]] < MaxJobAttempts \/ jcur[w] \in displaced
      BY <3>1, <3>2, <3>4
    <3> HIDE DEF AttemptsLeft, ClosedForAReason, JobTypeOK, Holding
    <3>7. /\ jstatus' = [jstatus EXCEPT ![jcur[w]] = s] /\ jattempts' = jattempts
          /\ succeeded' = succeeded /\ doomed' = doomed /\ displaced' = displaced
      BY <2>2, <3>1
    <3>8. AttemptsLeft' /\ ClosedForAReason'
      BY <2>1, <3>5, <3>6, <3>7, StatusWritten
    <3>9. QED
      BY <2>2, <3>8
  <2>4. CASE ~OwnsJob(w)
    BY <1>10, <2>2, <2>4 DEF RecordError
  <2>5. QED
    BY <2>3, <2>4
<1>11. ASSUME NEW w \in Invocations, RecordingFails(w) PROVE Counting'
    BY <1>11 DEF RecordingFails
<1>12. ASSUME NEW w \in Invocations, JobCrash(w) PROVE Counting'
    BY <1>12 DEF JobCrash
<1>13. ASSUME NEW r \in Reconcilers, ReconcileReadJobs(r) PROVE Counting'
    BY <1>13 DEF ReconcileReadJobs
<1>14. ASSUME NEW r \in Reconcilers, ReconcileJobsStop(r) PROVE Counting'
    BY <1>14 DEF ReconcileJobsStop
<1>15. ASSUME NEW r \in Reconcilers, NEW s \in jsnap[r], ReconcileJob(r, s) PROVE Counting'
  <2>1. s.id \in Jobs /\ s.attempts \in Int
    OBVIOUS
  <2>2. UNCHANGED <<jattempts, jlocal, succeeded, doomed>> /\ displaced \subseteq displaced'
    BY <1>15 DEF ReconcileJob
  <2>3. CASE jstatus[s.id] = "PROCESSING"
    <3>1. PICK q \in {"QUEUED", "FAILED"} :
              /\ jstatus' = [jstatus EXCEPT ![s.id] = q]
              /\ q = "FAILED" <=> s.attempts >= MaxJobAttempts
      BY <1>15, <2>3 DEF ReconcileJob, ReachesMax, GiveUp
    <3>2. s.id \notin displaced' => s.attempts = jattempts[s.id]
      BY <1>15, <2>1, <2>3 DEF ReconcileJob, SnapshotsHonest
    <3>3. /\ s.id \notin displaced' /\ q = "FAILED" => jattempts[s.id] >= MaxJobAttempts
          /\ s.id \notin displaced' /\ q = "QUEUED" => jattempts[s.id] < MaxJobAttempts
      BY <2>1, <3>1, <3>2
    <3> HIDE DEF AttemptsLeft, ClosedForAReason, JobTypeOK, Holding
    <3>4. /\ jstatus' = [jstatus EXCEPT ![s.id] = q] /\ jattempts' = jattempts
          /\ succeeded' = succeeded /\ doomed' = doomed
          /\ \A i \in Jobs : i \in displaced => i \in displaced'
      BY <2>2, <3>1
    <3>5. AttemptsLeft' /\ ClosedForAReason'
      BY <2>1, <3>3, <3>4, StatusWritten
    <3>6. QED
      BY <2>2, <3>5
  <2>4. CASE jstatus[s.id] # "PROCESSING"
    BY <1>15, <2>2, <2>4 DEF ReconcileJob
  <2>5. QED
    BY <2>3, <2>4
<1>16. CASE UNCHANGED jvars
    BY <1>16
<1> HIDE DEF Counting, AttemptsLeft, ResultsHonest, ClosedForAReason,
       Holding, JobLockShape, JobLocalShape, JobTokensUnique, HoldersLock,
       Relies, JobTypeOK, Closed, Results, JobSnapshots, jvars, jrow, jlocal, jhistory
<1>17. QED
    BY <1>1, <1>2, <1>3, <1>4, <1>5, <1>6, <1>7, <1>8, <1>9, <1>10, <1>11, <1>12, <1>13,
       <1>14, <1>15, <1>16 DEF JobNext, JobStep, Record

-----------------------------------------------------------------------------
(* The invariant, and the properties it implies.                            *)

(* The empty table satisfies the invariant.                                 *)
LEMMA JobInitInvariant == JobInit => JobIInv
    BY JobConstantsOK DEF JobInit, JobIInv, JobTypeOK, JobLockShape, JobLocalShape, JobTokensUnique,
       HoldersLock, SnapshotsHonest, AttemptsLeft, ResultsHonest, ClosedForAReason, Relies,
       Closed, Results, JobSnapshots

(* Locks match statuses, live tokens differ, holders know their jobs, what  *)
(* reconciliation read stays true of the same lock, and counts and results  *)
(* explain every closed job: in every reachable state.                      *)
THEOREM JobInvariantHolds == JobSpec => []JobIInv
<1>1. JobInit => JobIInv
    BY JobInitInvariant
<1>2. JobIInv /\ [JobNext]_jvars => JobIInv'
  <2> SUFFICES ASSUME JobIInv, [JobNext]_jvars PROVE JobIInv'
    OBVIOUS
  <2>1. JobTypeOK'
    BY JobTypeStep DEF JobIInv
  <2>2. Holding'
    BY <2>1, HoldingStep DEF JobIInv, Holding
  <2>3. SnapshotsHonest'
    BY <2>1, SnapshotStep DEF JobIInv, Holding
  <2>4. Counting'
    BY <2>1, CountingStep DEF JobIInv, Holding, Counting
  <2>5. QED
    BY <2>1, <2>2, <2>3, <2>4 DEF JobIInv, Holding, Counting
<1>3. QED
    BY <1>1, <1>2, PTL DEF JobSpec

(* Type correctness of the job table and of what invocations remember.      *)
THEOREM JobTypeCorrect == JobSpec => []JobTypeOK
<1>1. JobIInv => JobTypeOK
    BY DEF JobIInv
<1>2. QED
    BY <1>1, JobInvariantHolds, PTL

(* No two invocations rely on the same job (serverless-job-processor.ts:    *)
(* 150-165, one claim and one token per batch), displaced ones aside.       *)
THEOREM RunAlone == JobSpec => []JobsRunAlone
<1>1. JobIInv => JobsRunAlone
  <2> SUFFICES ASSUME JobIInv, NEW v \in Invocations, NEW w \in Invocations,
                      NEW j \in Jobs \ displaced, Relies(v, j), Relies(w, j)
               PROVE  v = w
    BY DEF JobsRunAlone
  <2>1. jtok[v] = jlockedBy[j] /\ jtok[w] = jlockedBy[j]
    BY DEF JobIInv, HoldersLock
  <2>2. jpc[v] # "idle"
    BY DEF JobIInv, JobLocalShape, JobTypeOK, Relies
  <2>3. jtok[v] # Null
    BY <2>2 DEF JobIInv, JobLocalShape
  <2>4. QED
    BY <2>1, <2>3 DEF JobIInv, JobTokensUnique
<1>2. QED
    BY <1>1, JobInvariantHolds, PTL

(* COMPLETED means the body succeeded, FAILED a permanent error or the last *)
(* attempt (serverless-job-processor.ts:301-332), displaced jobs aside.     *)
THEOREM ClosedWithReason == JobSpec => []ClosedForAReason
<1>1. JobIInv => ClosedForAReason
    BY DEF JobIInv
<1>2. QED
    BY <1>1, JobInvariantHolds, PTL

(* The claim never exceeds maxAttempts although it does not look at it.     *)
THEOREM WithinLimit == JobSpec => []AttemptsRespectLimit
<1>1. JobIInv => AttemptsRespectLimit
    BY DEF JobIInv, AttemptsLeft, AttemptsRespectLimit
<1>2. QED
    BY <1>1, JobInvariantHolds, PTL

(* A closed job is reopened only after it was displaced.                    *)
LEMMA ClosedStep ==
    ASSUME JobIInv, [JobNext]_jvars, NEW j \in Jobs, jstatus[j] \in Closed,
           jstatus'[j] # jstatus[j]
    PROVE  jstatus'[j] = "REMOVED" \/ j \in displaced'
<1> USE DEF JobIInv, JobTypeOK, JobLockShape, JobLocalShape, Closed, jvars, jrow
<1>1. jstatus[j] \notin {"NONE", "QUEUED", "PROCESSING"} /\ jlockedBy[j] = Null
    OBVIOUS
<1>2. ASSUME NEW i \in Jobs, AddJob(i) \/ RemoveJob(i) \/ JobLockExpires(i)
      PROVE  jstatus'[j] = "REMOVED" \/ j \in displaced'
    BY <1>1, <1>2 DEF AddJob, RemoveJob, GiveUp, JobLockExpires
<1>3. ASSUME NEW w \in Invocations, NEW B \in SUBSET Jobs, ClaimJobs(w, B)
      PROVE  jstatus'[j] = "REMOVED" \/ j \in displaced'
    BY <1>1, <1>3 DEF ClaimJobs, Ready
<1>4. ASSUME NEW w \in Invocations,
             \/ \E i \in Jobs : StartJob(w, i)
             \/ \E result \in Results \ {"none"} : Return(w, result)
             \/ RecordingFails(w) \/ JobCrash(w)
      PROVE  jstatus'[j] = "REMOVED" \/ j \in displaced'
    BY <1>4 DEF StartJob, Return, RecordingFails, JobCrash
<1>5. ASSUME NEW w \in Invocations, ReleaseJobs(w)
      PROVE  jstatus'[j] = "REMOVED" \/ j \in displaced'
    BY <1>1, <1>5 DEF ReleaseJobs
<1>6. ASSUME NEW w \in Invocations, Record(w)
      PROVE  jstatus'[j] = "REMOVED" \/ j \in displaced'
  <2>1. jtok[w] # Null /\ jcur[w] \in Jobs
    BY <1>6 DEF Record, RecordYield, RecordDone, RecordError
  <2>2. jcur[w] = j => ~OwnsJob(w)
    BY <1>1, <2>1 DEF OwnsJob
  <2>3. QED
    BY <1>6, <2>1, <2>2 DEF Record, RecordYield, RecordDone, RecordError, GiveUp
<1>7. ASSUME NEW r \in Reconcilers, ReconcileReadJobs(r) \/ ReconcileJobsStop(r)
      PROVE  jstatus'[j] = "REMOVED" \/ j \in displaced'
    BY <1>7 DEF ReconcileReadJobs, ReconcileJobsStop
<1>8. ASSUME NEW r \in Reconcilers, NEW s \in jsnap[r], ReconcileJob(r, s)
      PROVE  jstatus'[j] = "REMOVED" \/ j \in displaced'
    BY <1>1, <1>8 DEF ReconcileJob, GiveUp
<1> HIDE DEF JobIInv, JobTypeOK, JobLockShape, JobLocalShape, Closed
<1>9. QED
    BY <1>2, <1>3, <1>4, <1>5, <1>6, <1>7, <1>8 DEF JobNext, JobStep

(* COMPLETED, FAILED and REMOVED jobs are not run again unless displaced.   *)
THEOREM JobsClosed == JobSpec => ClosedJobsStayClosed
<1>1. JobIInv /\ [JobNext]_jvars =>
        [\A j \in Jobs :
            jstatus[j] \in Closed /\ jstatus'[j] # jstatus[j] =>
                jstatus'[j] = "REMOVED" \/ j \in displaced']_jvars
    BY ClosedStep
<1>2. QED
    BY <1>1, JobInvariantHolds, PTL DEF JobSpec, ClosedJobsStayClosed

-----------------------------------------------------------------------------
(* Holders keep their jobs where no owner stalls and no job is removed.     *)

(* HeldJobs is kept by every step but a removal.                            *)
LEMMA HeldStep ==
    ASSUME ~OwnersMayStall, \A q, r \in Reconcilers : q = r,
           JobIInv, HeldJobs, JobTypeOK', [JobStep]_jvars
    PROVE  HeldJobs'
<1> USE JobConstantsOK DEF HeldJobs, JobTypeOK, JobSnapshots, jvars, jrow, jlocal, jhistory
<1>1. /\ JobTypeOK /\ JobLockShape /\ JobLocalShape /\ JobTokensUnique
      /\ \A w \in Invocations, j \in Jobs : Relies(w, j) => jlockedBy[j] = jtok[w] /\ ~jstale[j]
    BY DEF JobIInv, HoldersLock
<1>2. ASSUME NEW j \in Jobs, AddJob(j) PROVE HeldJobs'
    BY <1>2, <1>1 DEF AddJob
<1>3. ASSUME NEW j \in Jobs, JobLockExpires(j) PROVE HeldJobs'
    BY <1>3, <1>1 DEF JobLockExpires
<1>4. ASSUME NEW w \in Invocations, NEW B \in SUBSET Jobs, ClaimJobs(w, B) PROVE HeldJobs'
    BY <1>4, <1>1 DEF ClaimJobs, Ready, JobTokenInUse
<1>5. ASSUME NEW w \in Invocations, NEW j \in Jobs, StartJob(w, j) PROVE HeldJobs'
    BY <1>5, <1>1 DEF StartJob
<1>6. ASSUME NEW w \in Invocations, NEW result \in Results \ {"none"}, Return(w, result)
      PROVE  HeldJobs'
    BY <1>6, <1>1 DEF Return
<1>7. ASSUME NEW w \in Invocations, ReleaseJobs(w) PROVE HeldJobs'
    BY <1>7, <1>1 DEF ReleaseJobs, Relies, JobLockShape
<1>8. ASSUME NEW w \in Invocations, Record(w) PROVE HeldJobs'
  <2>1. jcur[w] \in Jobs /\ ~jstale[jcur[w]] /\ jtok[w] # Null
    BY <1>8, <1>1 DEF Record, RecordYield, RecordDone, RecordError, Relies, JobLocalShape
  <2>2. UNCHANGED <<jsnap, displaced>>
    BY <1>8 DEF Record, RecordYield, RecordDone, RecordError
  <2>3. \A v \in Invocations : jtok'[v] \in {jtok[v], Null}
    BY <1>8 DEF Record, RecordYield, RecordDone, RecordError, NextJob
  <2>4. \A j \in Jobs \ {jcur[w]} :
           jstale'[j] = jstale[j] /\ jlockedBy'[j] = jlockedBy[j] /\ jstatus'[j] = jstatus[j]
    BY <1>8, <2>1 DEF Record, RecordYield, RecordDone, RecordError, GiveUp
  <2>5. ~jstale'[jcur[w]]
    BY <1>8, <2>1 DEF Record, RecordYield, RecordDone, RecordError, GiveUp
  <2>6. QED
    BY <1>1, <2>1, <2>2, <2>3, <2>4, <2>5 DEF JobLockShape
<1>9. ASSUME NEW w \in Invocations, RecordingFails(w) PROVE HeldJobs'
    BY <1>9, <1>1 DEF RecordingFails
<1>10. ASSUME NEW w \in Invocations, JobCrash(w) PROVE HeldJobs'
    BY <1>10, <1>1 DEF JobCrash, JobLockShape
<1>11. ASSUME NEW r \in Reconcilers, ReconcileReadJobs(r) PROVE HeldJobs'
    BY <1>11, <1>1 DEF ReconcileReadJobs, StaleJobs
<1>12. ASSUME NEW r \in Reconcilers, ReconcileJobsStop(r) PROVE HeldJobs'
    BY <1>12, <1>1 DEF ReconcileJobsStop
<1>13. ASSUME NEW r \in Reconcilers, NEW s \in jsnap[r], ReconcileJob(r, s) PROVE HeldJobs'
  <2>1. s.id \in Jobs /\ jlockedBy[s.id] = s.lockedBy /\ jstale[s.id]
    BY <1>1
  <2>2. \A w \in Invocations : ~Relies(w, s.id)
    BY <1>1, <2>1
  <2>3. UNCHANGED <<jlocal, displaced>> /\ jsnap' = [jsnap EXCEPT ![r] = @ \ {s}]
    BY <1>13, <2>1, <2>2 DEF ReconcileJob
  <2>4. \A j \in Jobs \ {s.id} :
           jstale'[j] = jstale[j] /\ jlockedBy'[j] = jlockedBy[j] /\ jstatus'[j] = jstatus[j]
    BY <1>13, <2>1 DEF ReconcileJob, GiveUp
  <2>5. ~jstale'[s.id]
    BY <1>13, <2>1 DEF ReconcileJob, GiveUp
  <2>6. \A q \in Reconcilers : \A t \in jsnap'[q] : t \in jsnap[q] /\ t.id \in Jobs \ {s.id}
    BY <2>1, <2>3
  <2> HIDE DEF JobTypeOK, JobSnapshots
  <2>7. displaced' = {} /\ \A j \in Jobs : jstale'[j] =>
           jstatus'[j] = "PROCESSING" /\ \A w \in Invocations : jtok'[w] # jlockedBy'[j]
    BY <2>3, <2>4, <2>5
  <2>8. ASSUME NEW q \in Reconcilers, NEW t \in jsnap'[q]
        PROVE  /\ jstale'[t.id] /\ jlockedBy'[t.id] = t.lockedBy
               /\ \A u \in jsnap'[q] : u.id = t.id => u = t
    <3>1. t \in jsnap[q] /\ t.id \in Jobs \ {s.id} /\ \A u \in jsnap'[q] : u \in jsnap[q]
      BY <2>6, <2>8
    <3>2. QED
      BY <2>4, <3>1
  <2>9. QED
    BY <2>7, <2>8
<1>14. CASE UNCHANGED jvars
    BY <1>14, <1>1
<1> HIDE DEF HeldJobs, JobTypeOK, JobSnapshots, jvars, jrow, jlocal, jhistory
<1>15. QED
    BY <1>2, <1>3, <1>4, <1>5, <1>6, <1>7, <1>8, <1>9, <1>10, <1>11, <1>12, <1>13, <1>14
       DEF JobStep

(* The release at the deadline and reconciliation clear locks they do not   *)
(* look at; where the platform kills an invocation before its locks grow    *)
(* stale and one reconciliation runs at a time, no holder loses a job.      *)
THEOREM HoldersKeepJobs ==
    ASSUME ~OwnersMayStall, \A q, r \in Reconcilers : q = r
    PROVE  JobInit /\ [][JobStep]_jvars => [](displaced = {})
<1>1. JobInit => HeldJobs
    BY DEF JobInit, HeldJobs
<1>2. [JobStep]_jvars => [JobNext]_jvars
    BY DEF JobNext
<1>3. JobIInv /\ HeldJobs /\ [JobStep]_jvars => HeldJobs'
    BY <1>2, HeldStep, JobTypeStep DEF JobIInv
<1>4. HeldJobs => displaced = {}
    BY DEF HeldJobs
<1>5. QED
    BY <1>1, <1>2, <1>3, <1>4, JobInvariantHolds, PTL DEF JobSpec
=============================================================================
