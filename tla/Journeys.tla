------------------------------ MODULE Journeys ------------------------------
(***************************************************************************)
(* The journey of one contact through one automation                       *)
(* (EmailAutomationService): the enrollment, the runs that advance it, the *)
(* AUTOMATION_STEP jobs, and the administrator who pauses the automation.  *)
(*                                                                         *)
(* A run is a call of processEnrollmentStep or executeStepTimeout: from    *)
(* enrollContact, from the sweep of due enrollments, from a job, or from   *)
(* an email event.  Nothing keeps two runs of one enrollment apart         *)
(* (lockedAt is never written), and all of them write it by id.            *)
(***************************************************************************)
EXTENDS Integers, FiniteSets

CONSTANTS
    Runs,           \* concurrent invocations
    Steps,          \* the steps of the automation
    Root,           \* steps[0]
    TypeOf,         \* the type of each step
    NextOf,         \* nextStepId, config.nextStepId or trueNextStepId
    OtherOf,        \* falseNextStepId or timeoutNextStepId
    None,           \* no step
    MaxEvents,      \* bound: email events of the contact
    MaxPauses,      \* bound: times the automation is paused
    MaxOverlaps,    \* bound: runs that begin while another is under way
    MaxFaults       \* bound: runs that fail or die (below a job's maxAttempts)

StepTypes == {"SEND_CAMPAIGN", "DELAY", "CONDITIONAL_BRANCH", "WAIT_FOR_EVENT", "END"}

Edges == {e \in Steps \X Steps : e[2] = NextOf[e[1]] \/ e[2] = OtherOf[e[1]]}

(* What validateSteps accepts: the edges each type needs, no cycle (steps   *)
(* can be ranked), and nothing that cannot be reached (whatever holds the   *)
(* root and is closed under the edges is everything).                       *)
ValidSteps ==
    /\ Root \in Steps
    /\ \A s \in Steps :
          /\ TypeOf[s] \in {"DELAY", "CONDITIONAL_BRANCH", "WAIT_FOR_EVENT"} => NextOf[s] \in Steps
          /\ TypeOf[s] = "CONDITIONAL_BRANCH" => OtherOf[s] \in Steps
          /\ TypeOf[s] \in {"SEND_CAMPAIGN", "DELAY"} => OtherOf[s] = None
          /\ TypeOf[s] = "END" => NextOf[s] = None /\ OtherOf[s] = None
    /\ \E rank \in [Steps -> 1..Cardinality(Steps)] : \A e \in Edges : rank[e[1]] < rank[e[2]]
    /\ \A reached \in SUBSET Steps :
          Root \in reached /\ (\A e \in Edges : e[1] \in reached => e[2] \in reached)
              => reached = Steps

ASSUME JourneyConstantsOK ==
    /\ None \notin Steps
    /\ TypeOf \in [Steps -> StepTypes]
    /\ NextOf \in [Steps -> Steps \cup {None}]
    /\ OtherOf \in [Steps -> Steps \cup {None}]
    /\ ValidSteps
    /\ MaxEvents \in Nat
    /\ MaxPauses \in Nat
    /\ MaxOverlaps \in Nat
    /\ MaxFaults \in Nat

(* deduplicationKey: a step's job, or the timeout check of a WAIT step.     *)
JobKeys == {"step", "timeout"} \X Steps
NoJob   == <<"none", None>>

VARIABLES
    \* EmailAutomationEnrollment: status, currentStepId, and nextActionAt <= now
    status, step, due,
    \* EmailAutomation: whether it is ACTIVE, and its three counters
    active, nactive, ncompleted, nabandoned,
    \* the child campaigns of each SEND step, and those with a recipient
    campaigns, recipients,
    \* BackgroundJob: the status of the job with each key
    job,
    \* the local state of the runs, and where the administrator is
    run, admin,
    \* history: a run failed between its two writes; an enrollment changed since
    \* it was read was written; the SEND steps whose campaign a run looked for while another
    \* was about to create it
    torn, stale, blind,
    \* the bounded counts
    overlaps, pauses, seenEvents, faults

enrollment == <<status, step, due>>
counters   == <<nactive, ncompleted, nabandoned>>
sends      == <<campaigns, recipients>>
caps       == <<pauses, seenEvents, faults>>
world      == <<admin, torn, overlaps, caps>>
jvars == <<enrollment, active, counters, sends, job, run, world, stale, blind>>

Statuses  == {"NONE", "ACTIVE", "WAITING", "PAUSED", "COMPLETED", "ABANDONED"}
Ended     == status \in {"COMPLETED", "ABANDONED"}
JobStates == {"none", "DELAYED", "QUEUED", "PROCESSING", "COMPLETED"}
Phases    == {"idle", "countEnrolled", "load", "act", "create", "address", "advance",
              "scheduleNext", "scheduleTimeout", "readTimeout", "expire", "match", "abandon",
              "abandoning", "countAbandoned", "complete", "countCompleted"}

(* A run: where it is, the step it is at, its job, whether the enrollment   *)
(* it read was WAITING at that step, the campaign it found, and whether the *)
(* enrollment is still what it read or wrote.                               *)
RunStates == [pc : Phases, at : Steps \cup {None}, job : JobKeys \cup {NoJob}, waited : BOOLEAN,
              found : Nat, fresh : BOOLEAN]

Idle == [pc |-> "idle", at |-> None, job |-> NoJob, waited |-> FALSE, found |-> 0, fresh |-> FALSE]

(* The administrator: between which statements, and for an enrollment that  *)
(* was read as PAUSED its step and whether it is still to wait there.       *)
Admins == [pc : {"idle", "pausing", "recovering", "resuming"}, step : Steps \cup {None},
           waits : BOOLEAN]

AdminIdle == [pc |-> "idle", step |-> None, waits |-> FALSE]

RowTypeOK ==
    /\ status \in Statuses
    /\ step \in Steps \cup {None}
    /\ nactive \in Int /\ ncompleted \in Int /\ nabandoned \in Int
    /\ admin \in Admins
    /\ job \in [JobKeys -> JobStates]
    /\ blind \in SUBSET Steps
    /\ overlaps \in 0..MaxOverlaps
    /\ pauses \in 0..MaxPauses /\ seenEvents \in 0..MaxEvents /\ faults \in 0..MaxFaults

FlagTypeOK ==
    /\ due \in BOOLEAN /\ active \in BOOLEAN
    /\ torn \in BOOLEAN /\ stale \in BOOLEAN

SendTypeOK ==
    /\ campaigns \in [Steps -> Nat]
    /\ recipients \in [Steps -> SUBSET Nat]
    /\ \A s \in Steps : recipients[s] \subseteq 1..campaigns[s]

JourneyTypeOK ==
    RowTypeOK /\ FlagTypeOK /\ SendTypeOK /\ run \in [Runs -> RunStates]

JourneyInit ==
    /\ status = "NONE" /\ step = None /\ due = FALSE
    /\ active = TRUE
    /\ nactive = 0 /\ ncompleted = 0 /\ nabandoned = 0
    /\ campaigns = [s \in Steps |-> 0]
    /\ recipients = [s \in Steps |-> {}]
    /\ job = [k \in JobKeys |-> "none"]
    /\ run = [r \in Runs |-> Idle]
    /\ admin = AdminIdle
    /\ torn = FALSE /\ stale = FALSE /\ blind = {}
    /\ overlaps = 0 /\ pauses = 0 /\ seenEvents = 0 /\ faults = 0

-----------------------------------------------------------------------------
To(r, phase) == [run[r] EXCEPT !.pc = phase]

(* Run r goes on to step s, by recursion.                                   *)
On(r, s) == [run[r] EXCEPT !.pc = "load", !.at = s, !.waited = FALSE, !.found = 0]

Becomes(r, state) == run' = [run EXCEPT ![r] = state] /\ UNCHANGED stale

(* ... and has written the enrollment, on what it read.                     *)
Writes(r, state) ==
    /\ run' = [q \in Runs |-> IF q = r THEN state ELSE [run[q] EXCEPT !.fresh = FALSE]]
    /\ stale' = (stale \/ ~run[r].fresh)

(* The job of a run is completed, whatever the run did.                     *)
Close(r) == job' = [k \in JobKeys |-> IF k = run[r].job THEN "COMPLETED" ELSE job[k]]

Start(r, phase, s, k) ==
    /\ run[r].pc = "idle"
    /\ Becomes(r, [Idle EXCEPT !.pc = phase, !.at = s, !.job = k, !.fresh = TRUE])
    /\ IF \A q \in Runs : run[q].pc = "idle" THEN UNCHANGED overlaps
       ELSE overlaps < MaxOverlaps /\ overlaps' = overlaps + 1

-----------------------------------------------------------------------------
(* How runs begin                                                           *)

(* enrollContact: a contact that may not be written to (no consent, or      *)
(* suppressed) is ABANDONED at once; without re-entry it is enrolled once.  *)
Enroll(r, eligible) ==
    /\ status = "NONE"
    /\ IF eligible
       THEN /\ status' = "ACTIVE" /\ step' = Root /\ due' = TRUE
            /\ Start(r, "countEnrolled", Root, NoJob)
       ELSE /\ status' = "ABANDONED"
            /\ UNCHANGED <<step, due, run, stale, overlaps>>
    /\ UNCHANGED <<active, counters, sends, job, blind, admin, torn, caps>>

CountEnrolled(r) ==
    /\ run[r].pc = "countEnrolled"
    /\ nactive' = nactive + 1
    /\ Becomes(r, IF active THEN To(r, "load") ELSE Idle)
    /\ UNCHANGED <<enrollment, active, ncompleted, nabandoned, sends, job, blind, world>>

(* findDueEnrollments; the step is the one of that read.                    *)
Sweep(r) ==
    /\ status \in {"ACTIVE", "WAITING"}
    /\ due
    /\ Start(r, "load", step, NoJob)
    /\ UNCHANGED <<enrollment, active, counters, sends, job, blind, admin, torn, caps>>

TakeJob(r, k) ==
    /\ job[k] = "QUEUED"
    /\ Start(r, IF k[1] = "step" THEN "load" ELSE "readTimeout", k[2], k)
    /\ job' = [job EXCEPT ![k] = "PROCESSING"]
    /\ UNCHANGED <<enrollment, active, counters, sends, blind, admin, torn, caps>>

(* handleEmailEvent: the enrollment is waiting for this event ...           *)
Notice(r) ==
    /\ seenEvents < MaxEvents
    /\ seenEvents' = seenEvents + 1
    /\ status = "WAITING" /\ active
    /\ step # None /\ TypeOf[step] = "WAIT_FOR_EVENT"
    /\ Start(r, "match", step, NoJob)
    /\ UNCHANGED <<enrollment, active, counters, sends, job, blind, admin, torn,
                   pauses, faults>>

(* ... and goes on, on what was read.                                       *)
Match(r) ==
    /\ run[r].pc = "match"
    /\ LET next == NextOf[run[r].at] IN
       /\ status' = "ACTIVE" /\ step' = next /\ due' = TRUE
       /\ Writes(r, On(r, next))
    /\ UNCHANGED <<active, counters, sends, job, blind, world>>

-----------------------------------------------------------------------------
(* processEnrollmentStep                                                    *)

(* The step a run is asked to execute, or the one the enrollment is at.     *)
StepOf(r) == IF run[r].at # None THEN run[r].at ELSE step

(* The guards: nothing to do, not now, or not to this contact, who may have *)
(* opted out since.                                                         *)
Load(r, eligible) ==
    /\ run[r].pc = "load"
    /\ IF Ended \/ ~active
       THEN Becomes(r, Idle) /\ Close(r)
       ELSE LET s == StepOf(r)
                phase == IF s = None THEN "complete" ELSE IF eligible THEN "act" ELSE "abandon"
            IN /\ Becomes(r, [run[r] EXCEPT !.pc = phase, !.at = s,
                                            !.waited = (status = "WAITING" /\ step = s)])
               /\ UNCHANGED job
    /\ UNCHANGED <<enrollment, active, counters, sends, blind, world>>

AtA(r, type) == run[r].pc = "act" /\ TypeOf[run[r].at] = type

(* Mutant: every execution makes a campaign.                                *)
FindNoCampaign(r) ==
    /\ AtA(r, "SEND_CAMPAIGN")
    /\ Becomes(r, To(r, "create"))
    /\ UNCHANGED <<enrollment, active, counters, sends, job, blind, world>>

(* SEND_CAMPAIGN: the child campaign of this step, if there is one, ...     *)
FindCampaign(r) ==
    /\ AtA(r, "SEND_CAMPAIGN")
    /\ LET s == run[r].at IN
       /\ Becomes(r, IF campaigns[s] > 0 THEN [To(r, "address") EXCEPT !.found = 1]
                     ELSE To(r, "create"))
       /\ blind' = IF \E q \in Runs : run[q].pc = "create" /\ run[q].at = s
                   THEN blind \cup {s} ELSE blind
    /\ UNCHANGED <<enrollment, active, counters, sends, job, world>>

(* ... or a new one, ...                                                    *)
CreateCampaign(r) ==
    /\ run[r].pc = "create"
    /\ LET n == campaigns[run[r].at] + 1 IN
       /\ campaigns' = [campaigns EXCEPT ![run[r].at] = n]
       /\ Becomes(r, [To(r, "address") EXCEPT !.found = n])
    /\ UNCHANGED <<enrollment, active, counters, recipients, job, blind, world>>

(* ... has the contact for its recipient, and a job that will send it.      *)
Address(r) ==
    /\ run[r].pc = "address"
    /\ recipients' = [recipients EXCEPT ![run[r].at] = @ \cup {run[r].found}]
    /\ Becomes(r, To(r, "advance"))
    /\ UNCHANGED <<enrollment, active, counters, campaigns, job, blind, world>>

(* The next step; the status stays what it is, and so does nextActionAt.    *)
Advance(r) ==
    /\ run[r].pc = "advance"
    /\ LET next == NextOf[run[r].at] IN
       IF next # None
       THEN step' = next /\ Writes(r, On(r, next))
       ELSE Becomes(r, To(r, "complete")) /\ UNCHANGED step
    /\ UNCHANGED <<status, due, active, counters, sends, job, blind, world>>

(* CONDITIONAL_BRANCH, whatever the condition says.                         *)
Branch(r, s) ==
    /\ AtA(r, "CONDITIONAL_BRANCH")
    /\ s \in {NextOf[run[r].at], OtherOf[run[r].at]}
    /\ step' = s
    /\ Writes(r, On(r, s))
    /\ UNCHANGED <<status, due, active, counters, sends, job, blind, world>>

(* DELAY: the enrollment waits at the delay itself ...                      *)
Delay(r) ==
    /\ AtA(r, "DELAY")
    /\ status' = "WAITING" /\ step' = run[r].at /\ due' = FALSE
    /\ Writes(r, To(r, "scheduleNext"))
    /\ UNCHANGED <<active, counters, sends, job, blind, world>>

(* Mutant: the job executes the delay itself.                               *)
ScheduleSame(r) ==
    /\ run[r].pc = "scheduleNext"
    /\ LET key == <<"step", run[r].at>> IN
       job' = [k \in JobKeys |-> IF k = run[r].job THEN "COMPLETED"
                                 ELSE IF k = key /\ job[k] = "none" THEN "DELAYED" ELSE job[k]]
    /\ Becomes(r, Idle)
    /\ UNCHANGED <<enrollment, active, counters, sends, blind, world>>

(* ... and a delayed job will execute the step after it, unless there has   *)
(* been one with its key.                                                   *)
ScheduleNext(r) ==
    /\ run[r].pc = "scheduleNext"
    /\ LET key == <<"step", NextOf[run[r].at]>> IN
       job' = [k \in JobKeys |-> IF k = run[r].job THEN "COMPLETED"
                                 ELSE IF k = key /\ job[k] = "none" THEN "DELAYED" ELSE job[k]]
    /\ Becomes(r, Idle)
    /\ UNCHANGED <<enrollment, active, counters, sends, blind, world>>

(* WAIT_FOR_EVENT: an enrollment that waits here already has waited enough; *)
(* another begins to wait ...                                               *)
Wait(r) ==
    /\ AtA(r, "WAIT_FOR_EVENT")
    /\ IF run[r].waited
       THEN Becomes(r, To(r, "readTimeout")) /\ UNCHANGED enrollment
       ELSE /\ status' = "WAITING" /\ step' = run[r].at /\ due' = FALSE
            /\ Writes(r, To(r, "scheduleTimeout"))
    /\ UNCHANGED <<active, counters, sends, job, blind, world>>

(* ... and a delayed job will check whether it still does; a finished job   *)
(* with its key is removed first.                                           *)
ScheduleTimeout(r) ==
    /\ run[r].pc = "scheduleTimeout"
    /\ LET key == <<"timeout", run[r].at>> IN
       job' = [k \in JobKeys |-> IF k = run[r].job THEN "COMPLETED"
                                 ELSE IF k = key /\ job[k] \in {"none", "COMPLETED"} THEN "DELAYED"
                                 ELSE job[k]]
    /\ Becomes(r, Idle)
    /\ UNCHANGED <<enrollment, active, counters, sends, blind, world>>

(* completeEnrollment, whatever the status has become.                      *)
Complete(r) ==
    /\ run[r].pc = "complete" \/ AtA(r, "END")
    /\ status' = "COMPLETED" /\ step' = None
    /\ Writes(r, To(r, "countCompleted"))
    /\ UNCHANGED <<due, active, counters, sends, job, blind, world>>

CountCompleted(r) ==
    /\ run[r].pc = "countCompleted"
    /\ nactive' = nactive - 1
    /\ ncompleted' = ncompleted + 1
    /\ Becomes(r, Idle) /\ Close(r)
    /\ UNCHANGED <<enrollment, active, nabandoned, sends, blind, world>>

-----------------------------------------------------------------------------
(* executeStepTimeout                                                       *)

(* Mutant: whatever the enrollment does now, its time is over.              *)
ReadTimeoutBlindly(r) ==
    /\ run[r].pc = "readTimeout"
    /\ IF active
       THEN Becomes(r, To(r, "expire")) /\ UNCHANGED job
       ELSE Becomes(r, Idle) /\ Close(r)
    /\ UNCHANGED <<enrollment, active, counters, sends, blind, world>>

(* Still waiting at this step?                                              *)
ReadTimeout(r) ==
    /\ run[r].pc = "readTimeout"
    /\ IF active /\ status = "WAITING" /\ step = run[r].at
       THEN Becomes(r, To(r, "expire")) /\ UNCHANGED job
       ELSE Becomes(r, Idle) /\ Close(r)
    /\ UNCHANGED <<enrollment, active, counters, sends, blind, world>>

(* The step that is there for it, or the end of the journey.                *)
Expire(r) ==
    /\ run[r].pc = "expire"
    /\ LET next == OtherOf[run[r].at] IN
       IF next # None
       THEN /\ status' = "ACTIVE" /\ step' = next /\ due' = TRUE
            /\ Writes(r, On(r, next))
       ELSE Becomes(r, To(r, "abandon")) /\ UNCHANGED enrollment
    /\ UNCHANGED <<active, counters, sends, job, blind, world>>

(* abandonEnrollment: nothing, if it is ABANDONED already, ...              *)
ReadAbandon(r) ==
    /\ run[r].pc = "abandon"
    /\ IF status = "ABANDONED"
       THEN Becomes(r, Idle) /\ Close(r)
       ELSE Becomes(r, To(r, "abandoning")) /\ UNCHANGED job
    /\ UNCHANGED <<enrollment, active, counters, sends, blind, world>>

(* ... and otherwise the end, whatever the status has become.               *)
Abandon(r) ==
    /\ run[r].pc = "abandoning"
    /\ status' = "ABANDONED" /\ step' = None
    /\ Writes(r, To(r, "countAbandoned"))
    /\ UNCHANGED <<due, active, counters, sends, job, blind, world>>

CountAbandoned(r) ==
    /\ run[r].pc = "countAbandoned"
    /\ nactive' = nactive - 1
    /\ nabandoned' = nabandoned + 1
    /\ Becomes(r, Idle) /\ Close(r)
    /\ UNCHANGED <<enrollment, active, ncompleted, sends, blind, world>>

-----------------------------------------------------------------------------
(* What else happens                                                        *)

(* A run fails or dies; its job is queued again, by the reconciliation if   *)
(* need be.                                                                 *)
RunFails(r) ==
    /\ run[r].pc # "idle"
    /\ faults < MaxFaults
    /\ faults' = faults + 1
    /\ Becomes(r, Idle)
    /\ job' = [k \in JobKeys |-> IF k = run[r].job THEN "QUEUED" ELSE job[k]]
    /\ torn' = (torn \/ run[r].pc \in {"countEnrolled", "countCompleted", "countAbandoned"})
    /\ UNCHANGED <<enrollment, active, counters, sends, blind, admin, overlaps,
                   pauses, seenEvents>>

(* Time passes: nextActionAt is over; a delayed job is available.  Nothing  *)
(* is said about how long delays are, but a timeout is checked when it is   *)
(* due.                                                                     *)
TimePasses ==
    /\ status \in {"WAITING", "PAUSED"}
    /\ ~due
    /\ due' = TRUE
    /\ UNCHANGED <<status, step, active, counters, sends, job, run, world, stale, blind>>

JobDue(k) ==
    /\ job[k] = "DELAYED"
    /\ k[1] = "timeout" /\ step = k[2] => due
    /\ job' = [job EXCEPT ![k] = "QUEUED"]
    /\ UNCHANGED <<enrollment, active, counters, sends, run, world, stale, blind>>

Aside == run' = [q \in Runs |-> [run[q] EXCEPT !.fresh = FALSE]]

(* pauseAutomation: first the enrollments, then the automation.             *)
PauseEnrollments ==
    /\ admin.pc = "idle"
    /\ active
    /\ pauses < MaxPauses
    /\ pauses' = pauses + 1
    /\ IF status \in {"ACTIVE", "WAITING"}
       THEN status' = "PAUSED" /\ Aside ELSE UNCHANGED <<status, run>>
    /\ admin' = [AdminIdle EXCEPT !.pc = "pausing"]
    /\ UNCHANGED <<step, due, active, counters, sends, job, torn, stale, blind,
                   overlaps, seenEvents, faults>>

PauseAutomation ==
    /\ admin.pc = "pausing"
    /\ active' = FALSE
    /\ admin' = AdminIdle
    /\ UNCHANGED <<enrollment, counters, sends, job, run, torn, stale, blind,
                   overlaps, caps>>

(* activateAutomation: the paused enrollment is read, ...                   *)
ReadPaused ==
    /\ admin.pc = "idle"
    /\ ~active
    /\ admin' = IF status = "PAUSED"
                THEN [pc |-> "recovering", step |-> step, waits |-> step # None /\ ~due]
                ELSE [AdminIdle EXCEPT !.pc = "resuming"]
    /\ UNCHANGED <<enrollment, active, counters, sends, job, run, torn, stale, blind,
                   overlaps, caps>>

(* ... waits for what it waited for, or a job will execute its step (unless *)
(* there has been one with its key), whatever its status has become, ...    *)
ResumeEnrollment ==
    /\ admin.pc = "recovering"
    /\ status' = IF admin.waits THEN "WAITING" ELSE "ACTIVE"
    /\ job' = [k \in JobKeys |->
                  IF ~admin.waits /\ k = <<"step", admin.step>> /\ job[k] = "none"
                  THEN "QUEUED" ELSE job[k]]
    /\ Aside
    /\ stale' = (stale \/ status # "PAUSED")
    /\ admin' = [AdminIdle EXCEPT !.pc = "resuming"]
    /\ UNCHANGED <<step, due, active, counters, sends, torn, blind, overlaps, caps>>

(* ... and the automation is ACTIVE again.                                  *)
ActivateAutomation ==
    /\ admin.pc = "resuming"
    /\ active' = TRUE
    /\ admin' = AdminIdle
    /\ UNCHANGED <<enrollment, counters, sends, job, run, torn, stale, blind,
                   overlaps, caps>>

-----------------------------------------------------------------------------
RunStep(r) ==
    \/ CountEnrolled(r) \/ Match(r)
    \/ \E eligible \in BOOLEAN : Load(r, eligible)
    \/ FindCampaign(r) \/ CreateCampaign(r) \/ Address(r) \/ Advance(r)
    \/ \E s \in Steps : Branch(r, s)
    \/ Delay(r) \/ ScheduleNext(r) \/ Wait(r) \/ ScheduleTimeout(r)
    \/ Complete(r) \/ CountCompleted(r)
    \/ ReadTimeout(r) \/ Expire(r) \/ ReadAbandon(r) \/ Abandon(r)
    \/ CountAbandoned(r)

JourneyNext ==
    \/ \E r \in Runs :
          \/ \E eligible \in BOOLEAN : Enroll(r, eligible)
          \/ Sweep(r) \/ Notice(r)
          \/ \E k \in JobKeys : TakeJob(r, k)
          \/ RunStep(r) \/ RunFails(r)
    \/ TimePasses
    \/ \E k \in JobKeys : JobDue(k)
    \/ PauseEnrollments \/ PauseAutomation
    \/ ReadPaused \/ ResumeEnrollment \/ ActivateAutomation

JourneySpec == JourneyInit /\ [][JourneyNext]_jvars

(* pg_cron starts the processor every minute: a due enrollment is swept and *)
(* an available job taken, though another run may have it first, again and  *)
(* again; a run takes its next step; time passes; what was begun to be      *)
(* paused is paused, and what was paused is resumed.                        *)
JourneyFairness ==
    /\ \A r \in Runs : WF_jvars(RunStep(r))
    /\ SF_jvars(\E r \in Runs : Sweep(r))
    /\ SF_jvars(\E r \in Runs, k \in JobKeys : TakeJob(r, k))
    /\ WF_jvars(TimePasses)
    /\ WF_jvars(\E k \in JobKeys : JobDue(k))
    /\ WF_jvars(PauseAutomation \/ ReadPaused \/ ResumeEnrollment \/ ActivateAutomation)

FairJourneySpec == JourneySpec /\ JourneyFairness

-----------------------------------------------------------------------------
(* Properties                                                               *)

(* A step sends its email once, however often it is executed: the sweep, a  *)
(* job, a retry and a resumption find what an earlier execution made -      *)
(* unless two runs looked for the campaign before either had created it.    *)
SentOnce == \A s \in Steps \ blind : Cardinality(recipients[s]) <= 1

(* The counters agree with the enrollment when no run is between its two    *)
(* writes - unless a run failed there, or wrote on what it read too early.  *)
Between == {r \in Runs : run[r].pc \in {"countEnrolled", "countCompleted", "countAbandoned"}}

CountersAgree ==
    stale \/ torn \/ Between # {} \/
    /\ nactive = IF status = "NONE" \/ Ended THEN 0 ELSE 1
    /\ ncompleted = IF status = "COMPLETED" THEN 1 ELSE 0
    /\ nabandoned <= IF status = "ABANDONED" THEN 1 ELSE 0

(* A journey that has ended is not taken up again, whatever sweeps, jobs,   *)
(* events and resumptions are still to come - but for writes on an earlier  *)
(* read.                                                                    *)
EndStands == [][Ended => stale' \/ (status' = status /\ step' = step)]_jvars

(* Every journey ends, through delays, waits, events and failed runs - but  *)
(* for such writes, and if it is never paused.                              *)
JourneyEnds == status # "NONE" ~> Ended \/ stale \/ pauses > 0

=============================================================================
