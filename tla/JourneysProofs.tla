---------------------------- MODULE JourneysProofs ----------------------------
(***************************************************************************)
(* Proofs about Journeys: types, and that a step sends its email once, the *)
(* counters agree with the enrollment, and a journey that has ended is not *)
(* taken up again, for any valid automation and any number of runs.        *)
(***************************************************************************)
EXTENDS Journeys, FiniteSetTheorems, TLAPS

(* The phases in which a run may still write the enrollment, and those      *)
(* between the enrollment and its counter.                                  *)
Writers  == {"act", "create", "address", "advance", "match", "expire", "complete", "abandon",
            "abandoning"}
Counting == {"countEnrolled", "countCompleted", "countAbandoned"}

(* The phases of a run that is at a step.                                   *)
AtStep == {"act", "create", "address", "advance", "match", "expire", "readTimeout",
           "scheduleNext", "scheduleTimeout"}

Live == status \in {"ACTIVE", "WAITING", "PAUSED"}

(* Nothing happens before the contact is enrolled.                          *)
NoneIsQuiet ==
    status = "NONE" => /\ \A r \in Runs : run[r].pc = "idle"
                       /\ \A k \in JobKeys : job[k] = "none"

RunsHaveSteps == \A r \in Runs : run[r].pc \in AtStep => run[r].at \in Steps

(* A run about to write an enrollment that is still what it read writes one *)
(* that has not ended.                                                      *)
FreshIsLive == \A r \in Runs : run[r].fresh /\ run[r].pc \in Writers => Live

(* A step has one campaign, or one run that is about to create it - unless  *)
(* two runs missed each other.                                              *)
CampaignsFit ==
    /\ \A s \in Steps \ blind :
          /\ campaigns[s] <= 1
          /\ \A r \in Runs : run[r].pc = "create" /\ run[r].at = s =>
                campaigns[s] = 0 /\ \A q \in Runs : run[q].pc = "create" /\ run[q].at = s => q = r
    /\ \A r \in Runs : run[r].pc = "address" => run[r].found \in 1..campaigns[run[r].at]

(* The counters, with what the runs between two writes still have to count. *)
At(phase) == \E r \in Runs : run[r].pc = phase

CountsFit ==
    /\ \A phase \in Counting : \A q, r \in Runs :
          run[q].pc = phase /\ run[r].pc = phase => q = r
    /\ At("countCompleted") => status = "COMPLETED"
    /\ At("countAbandoned") => status = "ABANDONED"
    /\ nactive = (IF Live THEN 1 ELSE 0) - (IF At("countEnrolled") THEN 1 ELSE 0)
          + (IF At("countCompleted") \/ At("countAbandoned") THEN 1 ELSE 0)
    /\ ncompleted = IF status = "COMPLETED" /\ ~At("countCompleted") THEN 1 ELSE 0
    /\ nabandoned <= IF status = "ABANDONED" /\ ~At("countAbandoned") THEN 1 ELSE 0

CountersFit == stale \/ torn \/ CountsFit

JourneyInv ==
    /\ JourneyTypeOK /\ NoneIsQuiet /\ RunsHaveSteps /\ FreshIsLive /\ CampaignsFit /\ CountersFit

LEMMA InitHolds == JourneyInit => JourneyInv
<1> SUFFICES ASSUME JourneyInit PROVE JourneyInv
  OBVIOUS
<1> USE JourneyConstantsOK DEF JourneyInit
<1>1. RowTypeOK
  BY DEF RowTypeOK, Statuses, JobStates, Admins, AdminIdle
<1>2. FlagTypeOK
  BY DEF FlagTypeOK
<1>3. SendTypeOK
  BY DEF SendTypeOK
<1>4. run \in [Runs -> RunStates]
  BY DEF RunStates, Phases, Idle
<1>5. NoneIsQuiet /\ RunsHaveSteps /\ FreshIsLive /\ CampaignsFit
  BY DEF NoneIsQuiet, RunsHaveSteps, AtStep, FreshIsLive, Writers, CampaignsFit, Idle
<1>6. CountersFit
  <2>1. \A r \in Runs : run[r].pc = "idle"
    BY DEF Idle
  <2>2. ~At("countEnrolled") /\ ~At("countCompleted") /\ ~At("countAbandoned")
    BY <2>1 DEF At
  <2>3. CountsFit
    BY <2>1, <2>2 DEF CountsFit, Counting, Live
  <2>4. QED
    BY <2>3 DEF CountersFit
<1>7. QED
  BY <1>1, <1>2, <1>3, <1>4, <1>5, <1>6 DEF JourneyInv, JourneyTypeOK

-----------------------------------------------------------------------------
(* What the steps of a run have in common.                                  *)

LEMMA Becoming ==
    ASSUME run \in [Runs -> RunStates], NEW r \in Runs, NEW st \in RunStates, Becomes(r, st)
    PROVE  /\ run' \in [Runs -> RunStates]
           /\ run'[r] = st
           /\ \A q \in Runs \ {r} : run'[q] = run[q]
           /\ stale' = stale
BY DEF Becomes

LEMMA Writing ==
    ASSUME run \in [Runs -> RunStates], NEW r \in Runs, NEW st \in RunStates, Writes(r, st)
    PROVE  /\ run' \in [Runs -> RunStates]
           /\ run'[r] = st
           /\ \A q \in Runs \ {r} :
                 run'[q].pc = run[q].pc /\ run'[q].at = run[q].at /\ run'[q].found = run[q].found
           /\ \A q \in Runs \ {r} : ~run'[q].fresh
           /\ run[r].fresh \/ stale'
           /\ stale => stale'
<1>1. /\ run'[r] = st
      /\ \A q \in Runs \ {r} :
            run'[q].pc = run[q].pc /\ run'[q].at = run[q].at /\ run'[q].found = run[q].found
      /\ \A q \in Runs \ {r} : ~run'[q].fresh
  BY DEF Writes, RunStates
<1>2. run[r].fresh \/ stale'
  BY DEF Writes
<1>3. stale => stale'
  BY DEF Writes
<1>4. run' \in [Runs -> RunStates]
  BY DEF Writes, RunStates
<1>5. QED
  BY <1>1, <1>2, <1>3, <1>4
(* A run that moves and leaves the enrollment alone: it is at a step, and if *)
(* what it read is still true and it may write, the journey has not ended.  *)
Moves(r, st) ==
    /\ Becomes(r, st)
    /\ st.pc \notin Counting
    /\ st.pc \in AtStep => st.at \in Steps
    /\ st.fresh /\ st.pc \in Writers => Live

(* A run that writes the enrollment and does not end the journey.           *)
WritesOn(r, st) ==
    /\ Writes(r, st)
    /\ run[r].pc \in Writers
    /\ st.pc \notin Counting \cup Writers
    /\ st.pc \in AtStep => st.at \in Steps
    /\ status' \in {status, "ACTIVE", "WAITING"}

RunsFit == run \in [Runs -> RunStates] /\ NoneIsQuiet /\ RunsHaveSteps /\ FreshIsLive /\ CountersFit

LEMMA Moving ==
    ASSUME JourneyInv, NEW r \in Runs, NEW st \in RunStates, Moves(r, st),
           status # "NONE", UNCHANGED <<status, counters>>, torn => torn',
           run[r].pc \in Counting => torn'
    PROVE  RunsFit'
<1> USE DEF JourneyInv, JourneyTypeOK, Moves
<1>1. /\ run' \in [Runs -> RunStates] /\ run'[r] = st
      /\ \A q \in Runs \ {r} : run'[q] = run[q]
      /\ stale' = stale
  BY Becoming
<1>2. NoneIsQuiet' /\ RunsHaveSteps' /\ FreshIsLive'
  BY <1>1 DEF NoneIsQuiet, RunsHaveSteps, FreshIsLive, Live
<1>3. ASSUME run[r].pc \notin Counting, CountsFit PROVE CountsFit'
  <2>1. \A phase \in Counting : At(phase)' <=> At(phase)
    BY <1>1, <1>3 DEF At
  <2>2. \A phase \in Counting : \A q \in Runs : run'[q].pc = phase => run[q].pc = phase
    BY <1>1
  <2>3. (At("countEnrolled")' <=> At("countEnrolled"))
        /\ (At("countCompleted")' <=> At("countCompleted"))
        /\ (At("countAbandoned")' <=> At("countAbandoned"))
    BY <2>1 DEF Counting
  <2>4. QED
    BY <1>3, <2>2, <2>3 DEF CountsFit, Counting, counters, Live
<1>4. CountersFit'
  BY <1>1, <1>3 DEF CountersFit
<1>5. QED
  BY <1>1, <1>2, <1>4 DEF RunsFit

LEMMA WritingOn ==
    ASSUME JourneyInv, NEW r \in Runs, NEW st \in RunStates, WritesOn(r, st),
           UNCHANGED counters, torn' = torn
    PROVE  RunsFit'
<1> USE DEF JourneyInv, JourneyTypeOK, WritesOn
<1>1. /\ run' \in [Runs -> RunStates] /\ run'[r] = st
      /\ \A q \in Runs \ {r} : run'[q].pc = run[q].pc /\ run'[q].at = run[q].at
      /\ \A q \in Runs \ {r} : ~run'[q].fresh
      /\ run[r].fresh \/ stale'
      /\ stale => stale'
  BY Writing
<1>2. status # "NONE" /\ status' # "NONE"
  BY DEF NoneIsQuiet, Writers
<1>3. NoneIsQuiet' /\ RunsHaveSteps' /\ FreshIsLive'
  BY <1>1, <1>2 DEF NoneIsQuiet, RunsHaveSteps, FreshIsLive
<1>4. ASSUME run[r].fresh, CountsFit PROVE CountsFit'
  <2>1. Live /\ Live'
    BY <1>4 DEF FreshIsLive, Live
  <2>2. \A phase \in Counting : \A q \in Runs : run'[q].pc = phase <=> run[q].pc = phase
    BY <1>1 DEF Counting, Writers
  <2>3. (At("countEnrolled")' <=> At("countEnrolled"))
        /\ (At("countCompleted")' <=> At("countCompleted"))
        /\ (At("countAbandoned")' <=> At("countAbandoned"))
    BY <2>2 DEF At, Counting
  <2>4. QED
    BY <1>4, <2>1, <2>2, <2>3 DEF CountsFit, counters, Live
<1>5. CountersFit'
  BY <1>1, <1>4 DEF CountersFit
<1>6. QED
  BY <1>1, <1>3, <1>5 DEF RunsFit

(* Campaigns are the business of the runs that look for one or create one.  *)
LEMMA CampaignsKept ==
    ASSUME CampaignsFit, NEW r \in Runs, UNCHANGED <<sends, blind>>,
           run'[r].pc \notin {"create", "address"},
           \A q \in Runs \ {r} :
               run'[q].pc = run[q].pc /\ run'[q].at = run[q].at /\ run'[q].found = run[q].found
    PROVE  CampaignsFit'
BY DEF CampaignsFit, sends

LEMMA Starting ==
    ASSUME overlaps \in 0..MaxOverlaps, NEW r, NEW phase, NEW s, NEW k, Start(r, phase, s, k)
    PROVE  overlaps' \in 0..MaxOverlaps
BY JourneyConstantsOK DEF Start

LEMMA QuietSteps ==
    ASSUME JourneyInv, NEW r \in Runs,
           \/ Sweep(r) \/ Notice(r) \/ RunFails(r)
           \/ \E k \in JobKeys : TakeJob(r, k)
           \/ \E eligible \in BOOLEAN : Load(r, eligible)
           \/ ScheduleNext(r) \/ ScheduleTimeout(r) \/ ReadTimeout(r)
    PROVE  JourneyInv'
<1> USE JourneyConstantsOK DEF JourneyInv
<1>1. ASSUME Sweep(r) PROVE JourneyInv'
  <2> USE <1>1 DEF Sweep
  <2>1. status # "NONE"
    BY DEF NoneIsQuiet, Start
  <2>2. PICK st \in RunStates : Moves(r, st) /\ st.pc \notin {"create", "address"}
    <3> DEFINE now == [Idle EXCEPT !.pc = "load", !.at = step, !.job = NoJob, !.fresh = TRUE]
    <3>1. now \in RunStates
      BY <2>1 DEF RunStates, Idle, Phases, JourneyTypeOK, RowTypeOK
    <3>2. Moves(r, now) /\ now.pc \notin {"create", "address"}
      BY <2>1 DEF RunStates, Moves, Counting, AtStep, Writers, Live, FreshIsLive,
             RunsHaveSteps, Idle, Phases, Start, JourneyTypeOK, RowTypeOK, Statuses,
             JobStates
    <3>3. QED
      BY <3>1, <3>2
  <2>3. RowTypeOK'
    BY DEF JourneyTypeOK, RowTypeOK, Statuses, JobStates, enrollment, counters, sends, caps,
           Start, Becomes
  <2>4. FlagTypeOK'
    BY DEF JourneyTypeOK, FlagTypeOK, enrollment, counters, sends, caps, Start, Becomes
  <2>5. SendTypeOK'
    BY DEF JourneyTypeOK, SendTypeOK, sends
  <2>6. RunsFit'
    BY <2>1, <2>2, Moving DEF enrollment, counters, sends, caps, Counting, Start
  <2>7. CampaignsFit'
    BY <2>2, CampaignsKept, Becoming DEF Moves, JourneyTypeOK
  <2>8. QED
    BY <2>1, <2>2, <2>3, <2>4, <2>5, <2>6, <2>7 DEF JourneyTypeOK, RunsFit
<1>2. ASSUME NEW k \in JobKeys, TakeJob(r, k) PROVE JourneyInv'
  <2> USE <1>2 DEF TakeJob
  <2>1. status # "NONE"
    BY DEF NoneIsQuiet, Start
  <2>2. PICK st \in RunStates : Moves(r, st) /\ st.pc \notin {"create", "address"}
    <3>1. CASE k[1] = "step"
      <4> DEFINE now == [Idle EXCEPT !.pc = "load", !.at = k[2], !.job = k, !.fresh = TRUE]
      <4>1. now \in RunStates
        BY <2>1, <3>1 DEF RunStates, Idle, Phases, JourneyTypeOK, RowTypeOK, JobKeys
      <4>2. Moves(r, now) /\ now.pc \notin {"create", "address"}
        BY <2>1, <3>1 DEF RunStates, Moves, Counting, AtStep, Writers, Live, FreshIsLive,
               RunsHaveSteps, Idle, Phases, Start, JourneyTypeOK, RowTypeOK, Statuses,
               JobStates, JobKeys
      <4>3. QED
        BY <4>1, <4>2
    <3>2. CASE k[1] # "step"
      <4> DEFINE now == [Idle EXCEPT !.pc = "readTimeout", !.at = k[2], !.job = k, !.fresh = TRUE]
      <4>1. now \in RunStates
        BY <2>1, <3>2 DEF RunStates, Idle, Phases, JourneyTypeOK, RowTypeOK, JobKeys
      <4>2. Moves(r, now) /\ now.pc \notin {"create", "address"}
        BY <2>1, <3>2 DEF RunStates, Moves, Counting, AtStep, Writers, Live, FreshIsLive,
               RunsHaveSteps, Idle, Phases, Start, JourneyTypeOK, RowTypeOK, Statuses,
               JobStates, JobKeys
      <4>3. QED
        BY <4>1, <4>2
    <3>3. QED
      BY <3>1, <3>2
  <2>3. RowTypeOK'
    <3>1. job' \in [JobKeys -> JobStates]
      BY DEF JourneyTypeOK, RowTypeOK, Statuses, JobStates
    <3>2. UNCHANGED <<status, step, nactive, ncompleted, nabandoned, admin, blind, caps>>
      BY DEF enrollment, counters
    <3>3. overlaps' \in 0..MaxOverlaps
      BY Starting DEF JourneyTypeOK, RowTypeOK, Statuses, JobStates
    <3>4. QED
      BY <3>1, <3>2, <3>3 DEF JourneyTypeOK, RowTypeOK, Statuses, JobStates, caps
  <2>4. FlagTypeOK'
    BY DEF JourneyTypeOK, FlagTypeOK, enrollment, counters, sends, caps, Start, Becomes
  <2>5. SendTypeOK'
    BY DEF JourneyTypeOK, SendTypeOK, sends
  <2>6. RunsFit'
    BY <2>1, <2>2, Moving DEF enrollment, counters, sends, caps, Counting, Start
  <2>7. CampaignsFit'
    BY <2>2, CampaignsKept, Becoming DEF Moves, JourneyTypeOK
  <2>8. QED
    BY <2>1, <2>2, <2>3, <2>4, <2>5, <2>6, <2>7 DEF JourneyTypeOK, RunsFit
<1>3. ASSUME Notice(r) PROVE JourneyInv'
  <2> USE <1>3 DEF Notice
  <2>1. status # "NONE"
    BY DEF NoneIsQuiet, Start
  <2>2. PICK st \in RunStates : Moves(r, st) /\ st.pc \notin {"create", "address"}
    <3> DEFINE now == [Idle EXCEPT !.pc = "match", !.at = step, !.job = NoJob, !.fresh = TRUE]
    <3>1. now \in RunStates
      BY <2>1 DEF RunStates, Idle, Phases, JourneyTypeOK, RowTypeOK
    <3>2. Moves(r, now) /\ now.pc \notin {"create", "address"}
      BY <2>1 DEF RunStates, Moves, Counting, AtStep, Writers, Live, FreshIsLive,
             RunsHaveSteps, Idle, Phases, Start, JourneyTypeOK, RowTypeOK, Statuses,
             JobStates
    <3>3. QED
      BY <3>1, <3>2
  <2>3. RowTypeOK'
    BY DEF JourneyTypeOK, RowTypeOK, Statuses, JobStates, enrollment, counters, sends,
           Start, Becomes
  <2>4. FlagTypeOK'
    BY DEF JourneyTypeOK, FlagTypeOK, enrollment, counters, sends, Start, Becomes
  <2>5. SendTypeOK'
    BY DEF JourneyTypeOK, SendTypeOK, sends
  <2>6. RunsFit'
    BY <2>1, <2>2, Moving DEF enrollment, counters, sends, Counting, Start
  <2>7. CampaignsFit'
    BY <2>2, CampaignsKept, Becoming DEF Moves, JourneyTypeOK
  <2>8. QED
    BY <2>1, <2>2, <2>3, <2>4, <2>5, <2>6, <2>7 DEF JourneyTypeOK, RunsFit
<1>4. ASSUME NEW eligible \in BOOLEAN, Load(r, eligible) PROVE JourneyInv'
  <2> USE <1>4 DEF Load
  <2>1. status # "NONE" /\ StepOf(r) \in Steps \cup {None}
    BY DEF NoneIsQuiet, StepOf, RunStates, JourneyTypeOK, RowTypeOK
  <2>2. PICK st \in RunStates : Moves(r, st) /\ st.pc \notin {"create", "address"}
    <3>1. CASE Ended \/ ~active
      <4> DEFINE now == Idle
      <4>1. now \in RunStates
        BY <2>1, <3>1 DEF RunStates, Idle, Phases, JourneyTypeOK, RowTypeOK
      <4>2. Moves(r, now) /\ now.pc \notin {"create", "address"}
        BY <2>1, <3>1 DEF RunStates, Moves, Counting, AtStep, Writers, Live, FreshIsLive,
               RunsHaveSteps, Idle, Phases, Ended, JourneyTypeOK, RowTypeOK, Statuses,
               JobStates
      <4>3. QED
        BY <4>1, <4>2
    <3>2. CASE ~(Ended \/ ~active) /\ StepOf(r) = None
      <4> DEFINE now == [run[r] EXCEPT !.pc = "complete", !.at = StepOf(r),
                           !.waited = (status = "WAITING" /\ step = StepOf(r))]
      <4>1. now \in RunStates
        BY <2>1, <3>2 DEF RunStates, Idle, Phases, JourneyTypeOK, RowTypeOK
      <4>2. Moves(r, now) /\ now.pc \notin {"create", "address"}
        BY <2>1, <3>2 DEF RunStates, Moves, Counting, AtStep, Writers, Live, FreshIsLive,
               RunsHaveSteps, Idle, Phases, Ended, JourneyTypeOK, RowTypeOK, Statuses,
               JobStates
      <4>3. QED
        BY <4>1, <4>2
    <3>3. CASE ~(Ended \/ ~active) /\ StepOf(r) # None /\ eligible
      <4> DEFINE now == [run[r] EXCEPT !.pc = "act", !.at = StepOf(r),
                           !.waited = (status = "WAITING" /\ step = StepOf(r))]
      <4>1. now \in RunStates
        BY <2>1, <3>3 DEF RunStates, Idle, Phases, JourneyTypeOK, RowTypeOK
      <4>2. Moves(r, now) /\ now.pc \notin {"create", "address"}
        BY <2>1, <3>3 DEF RunStates, Moves, Counting, AtStep, Writers, Live, FreshIsLive,
               RunsHaveSteps, Idle, Phases, Ended, JourneyTypeOK, RowTypeOK, Statuses,
               JobStates
      <4>3. QED
        BY <4>1, <4>2
    <3>4. CASE ~(Ended \/ ~active) /\ StepOf(r) # None /\ ~eligible
      <4> DEFINE now == [run[r] EXCEPT !.pc = "abandon", !.at = StepOf(r),
                           !.waited = (status = "WAITING" /\ step = StepOf(r))]
      <4>1. now \in RunStates
        BY <2>1, <3>4 DEF RunStates, Idle, Phases, JourneyTypeOK, RowTypeOK
      <4>2. Moves(r, now) /\ now.pc \notin {"create", "address"}
        BY <2>1, <3>4 DEF RunStates, Moves, Counting, AtStep, Writers, Live, FreshIsLive,
               RunsHaveSteps, Idle, Phases, Ended, JourneyTypeOK, RowTypeOK, Statuses,
               JobStates
      <4>3. QED
        BY <4>1, <4>2
    <3>5. QED
      BY <3>1, <3>2, <3>3, <3>4
  <2>3. RowTypeOK'
    BY DEF JourneyTypeOK, RowTypeOK, Statuses, JobStates, enrollment, counters, sends, caps,
           world, Close, Becomes
  <2>4. FlagTypeOK'
    BY DEF JourneyTypeOK, FlagTypeOK, enrollment, counters, sends, caps, world, Becomes
  <2>5. SendTypeOK'
    BY DEF JourneyTypeOK, SendTypeOK, sends
  <2>6. RunsFit'
    BY <2>1, <2>2, Moving DEF enrollment, counters, sends, caps, world, Counting
  <2>7. CampaignsFit'
    BY <2>2, CampaignsKept, Becoming DEF Moves, JourneyTypeOK
  <2>8. QED
    BY <2>1, <2>2, <2>3, <2>4, <2>5, <2>6, <2>7 DEF JourneyTypeOK, RunsFit
<1>5. ASSUME ScheduleNext(r) PROVE JourneyInv'
  <2> USE <1>5 DEF ScheduleNext
  <2>1. status # "NONE"
    BY DEF NoneIsQuiet
  <2>2. PICK st \in RunStates : Moves(r, st) /\ st.pc \notin {"create", "address"}
    <3> DEFINE now == Idle
    <3>1. now \in RunStates
      BY <2>1 DEF RunStates, Idle, Phases, JourneyTypeOK, RowTypeOK
    <3>2. Moves(r, now) /\ now.pc \notin {"create", "address"}
      BY <2>1 DEF RunStates, Moves, Counting, AtStep, Writers, Live, FreshIsLive,
             RunsHaveSteps, Idle, Phases, JourneyTypeOK, RowTypeOK, Statuses, JobStates
    <3>3. QED
      BY <3>1, <3>2
  <2>3. RowTypeOK'
    BY DEF JourneyTypeOK, RowTypeOK, Statuses, JobStates, enrollment, counters, sends, caps,
           world, Becomes
  <2>4. FlagTypeOK'
    BY DEF JourneyTypeOK, FlagTypeOK, enrollment, counters, sends, caps, world, Becomes
  <2>5. SendTypeOK'
    BY DEF JourneyTypeOK, SendTypeOK, sends
  <2>6. RunsFit'
    BY <2>1, <2>2, Moving DEF enrollment, counters, sends, caps, world, Counting
  <2>7. CampaignsFit'
    BY <2>2, CampaignsKept, Becoming DEF Moves, JourneyTypeOK
  <2>8. QED
    BY <2>1, <2>2, <2>3, <2>4, <2>5, <2>6, <2>7 DEF JourneyTypeOK, RunsFit
<1>6. ASSUME ScheduleTimeout(r) PROVE JourneyInv'
  <2> USE <1>6 DEF ScheduleTimeout
  <2>1. status # "NONE"
    BY DEF NoneIsQuiet
  <2>2. PICK st \in RunStates : Moves(r, st) /\ st.pc \notin {"create", "address"}
    <3> DEFINE now == Idle
    <3>1. now \in RunStates
      BY <2>1 DEF RunStates, Idle, Phases, JourneyTypeOK, RowTypeOK
    <3>2. Moves(r, now) /\ now.pc \notin {"create", "address"}
      BY <2>1 DEF RunStates, Moves, Counting, AtStep, Writers, Live, FreshIsLive,
             RunsHaveSteps, Idle, Phases, JourneyTypeOK, RowTypeOK, Statuses, JobStates
    <3>3. QED
      BY <3>1, <3>2
  <2>3. RowTypeOK'
    BY DEF JourneyTypeOK, RowTypeOK, Statuses, JobStates, enrollment, counters, sends, caps,
           world, Becomes
  <2>4. FlagTypeOK'
    BY DEF JourneyTypeOK, FlagTypeOK, enrollment, counters, sends, caps, world, Becomes
  <2>5. SendTypeOK'
    BY DEF JourneyTypeOK, SendTypeOK, sends
  <2>6. RunsFit'
    BY <2>1, <2>2, Moving DEF enrollment, counters, sends, caps, world, Counting
  <2>7. CampaignsFit'
    BY <2>2, CampaignsKept, Becoming DEF Moves, JourneyTypeOK
  <2>8. QED
    BY <2>1, <2>2, <2>3, <2>4, <2>5, <2>6, <2>7 DEF JourneyTypeOK, RunsFit
<1>7. ASSUME ReadTimeout(r) PROVE JourneyInv'
  <2> USE <1>7 DEF ReadTimeout
  <2>1. status # "NONE"
    BY DEF NoneIsQuiet
  <2>2. PICK st \in RunStates : Moves(r, st) /\ st.pc \notin {"create", "address"}
    <3>1. CASE active /\ status = "WAITING" /\ step = run[r].at
      <4> DEFINE now == To(r, "expire")
      <4>1. now \in RunStates
        BY <2>1, <3>1 DEF RunStates, To, Idle, Phases, JourneyTypeOK, RowTypeOK
      <4>2. Moves(r, now) /\ now.pc \notin {"create", "address"}
        BY <2>1, <3>1 DEF RunStates, Moves, Counting, AtStep, Writers, Live, FreshIsLive,
               RunsHaveSteps, To, Idle, Phases, JourneyTypeOK, RowTypeOK, Statuses,
               JobStates
      <4>3. QED
        BY <4>1, <4>2
    <3>2. CASE ~(active /\ status = "WAITING" /\ step = run[r].at)
      <4> DEFINE now == Idle
      <4>1. now \in RunStates
        BY <2>1, <3>2 DEF RunStates, To, Idle, Phases, JourneyTypeOK, RowTypeOK
      <4>2. Moves(r, now) /\ now.pc \notin {"create", "address"}
        BY <2>1, <3>2 DEF RunStates, Moves, Counting, AtStep, Writers, Live, FreshIsLive,
               RunsHaveSteps, To, Idle, Phases, JourneyTypeOK, RowTypeOK, Statuses,
               JobStates
      <4>3. QED
        BY <4>1, <4>2
    <3>3. QED
      BY <3>1, <3>2
  <2>3. RowTypeOK'
    BY DEF JourneyTypeOK, RowTypeOK, Statuses, JobStates, enrollment, counters, sends, caps,
           world, Close, Becomes
  <2>4. FlagTypeOK'
    BY DEF JourneyTypeOK, FlagTypeOK, enrollment, counters, sends, caps, world, Becomes
  <2>5. SendTypeOK'
    BY DEF JourneyTypeOK, SendTypeOK, sends
  <2>6. RunsFit'
    BY <2>1, <2>2, Moving DEF enrollment, counters, sends, caps, world, Counting
  <2>7. CampaignsFit'
    BY <2>2, CampaignsKept, Becoming DEF Moves, JourneyTypeOK
  <2>8. QED
    BY <2>1, <2>2, <2>3, <2>4, <2>5, <2>6, <2>7 DEF JourneyTypeOK, RunsFit
<1>8. ASSUME RunFails(r) PROVE JourneyInv'
  <2> USE <1>8 DEF RunFails
  <2>1. status # "NONE"
    BY DEF NoneIsQuiet
  <2>2. PICK st \in RunStates : Moves(r, st) /\ st.pc \notin {"create", "address"}
    <3> DEFINE now == Idle
    <3>1. now \in RunStates
      BY <2>1 DEF RunStates, Idle, Phases, JourneyTypeOK, RowTypeOK
    <3>2. Moves(r, now) /\ now.pc \notin {"create", "address"}
      BY <2>1 DEF RunStates, Moves, Counting, AtStep, Writers, Live, FreshIsLive,
             RunsHaveSteps, Idle, Phases, JourneyTypeOK, RowTypeOK, Statuses, JobStates
    <3>3. QED
      BY <3>1, <3>2
  <2>3. RowTypeOK'
    BY DEF JourneyTypeOK, RowTypeOK, Statuses, JobStates, enrollment, counters, sends,
           Becomes
  <2>4. FlagTypeOK'
    BY DEF JourneyTypeOK, FlagTypeOK, enrollment, counters, sends, Becomes
  <2>5. SendTypeOK'
    BY DEF JourneyTypeOK, SendTypeOK, sends
  <2>6. RunsFit'
    BY <2>1, <2>2, Moving DEF enrollment, counters, sends, Counting
  <2>7. CampaignsFit'
    BY <2>2, CampaignsKept, Becoming DEF Moves, JourneyTypeOK
  <2>8. QED
    BY <2>1, <2>2, <2>3, <2>4, <2>5, <2>6, <2>7 DEF JourneyTypeOK, RunsFit
<1>9. QED
  BY <1>1, <1>2, <1>3, <1>4, <1>5, <1>6, <1>7, <1>8

LEMMA GoingOn ==
    ASSUME run \in [Runs -> RunStates], NEW r \in Runs, NEW s \in Steps \cup {None}
    PROVE  On(r, s) \in RunStates
BY DEF On, RunStates, Phases

LEMMA WritingSteps ==
    ASSUME JourneyInv, NEW r \in Runs,
           \/ Match(r) \/ Advance(r) \/ Delay(r) \/ Wait(r) \/ Expire(r)
           \/ \E s \in Steps : Branch(r, s)
    PROVE  JourneyInv'
<1> USE JourneyConstantsOK DEF JourneyInv
<1>1. ASSUME Match(r) PROVE JourneyInv'
  <2> USE <1>1 DEF Match
  <2>1. /\ status # "NONE" /\ run[r].at \in Steps
        /\ NextOf[run[r].at] \in Steps \cup {None} /\ OtherOf[run[r].at] \in Steps \cup {None}
    BY DEF NoneIsQuiet, RunsHaveSteps, AtStep
  <2>2. PICK st \in RunStates : WritesOn(r, st) /\ st.pc \notin {"create", "address"}
    <3> DEFINE now == On(r, NextOf[run[r].at])
    <3>1. now \in RunStates
      BY <2>1, GoingOn DEF JourneyTypeOK
    <3>2. WritesOn(r, now) /\ now.pc \notin {"create", "address"}
      BY <2>1 DEF RunStates, WritesOn, Counting, AtStep, Writers, Live, FreshIsLive,
             RunsHaveSteps, On, Phases, JourneyTypeOK, RowTypeOK, Statuses, JobStates
    <3>3. QED
      BY <3>1, <3>2
  <2>3. RowTypeOK'
    BY <2>1 DEF JourneyTypeOK, RowTypeOK, Statuses, JobStates, counters, sends, caps, world
  <2>4. FlagTypeOK'
    BY DEF JourneyTypeOK, FlagTypeOK, counters, sends, caps, world, Writes
  <2>5. SendTypeOK'
    BY DEF JourneyTypeOK, SendTypeOK, sends
  <2>6. RunsFit'
    BY <2>1, <2>2, WritingOn DEF counters, sends, caps, world
  <2>7. CampaignsFit'
    BY <2>2, CampaignsKept, Writing DEF WritesOn, JourneyTypeOK
  <2>8. QED
    BY <2>1, <2>2, <2>3, <2>4, <2>5, <2>6, <2>7 DEF JourneyTypeOK, RunsFit
<1>2. ASSUME Advance(r), NextOf[run[r].at] # None PROVE JourneyInv'
  <2> USE <1>2 DEF Advance
  <2>1. /\ status # "NONE" /\ run[r].at \in Steps
        /\ NextOf[run[r].at] \in Steps \cup {None} /\ OtherOf[run[r].at] \in Steps \cup {None}
    BY DEF NoneIsQuiet, RunsHaveSteps, AtStep
  <2>2. PICK st \in RunStates : WritesOn(r, st) /\ st.pc \notin {"create", "address"}
    <3> DEFINE now == On(r, NextOf[run[r].at])
    <3>1. now \in RunStates
      BY <2>1, GoingOn DEF JourneyTypeOK
    <3>2. WritesOn(r, now) /\ now.pc \notin {"create", "address"}
      BY <2>1 DEF RunStates, WritesOn, Counting, AtStep, Writers, Live, FreshIsLive,
             RunsHaveSteps, To, On, Phases, JourneyTypeOK, RowTypeOK, Statuses, JobStates
    <3>3. QED
      BY <3>1, <3>2
  <2>3. RowTypeOK'
    BY <2>1 DEF JourneyTypeOK, RowTypeOK, Statuses, JobStates, counters, sends, caps, world
  <2>4. FlagTypeOK'
    BY DEF JourneyTypeOK, FlagTypeOK, counters, sends, caps, world, Writes, Becomes
  <2>5. SendTypeOK'
    BY DEF JourneyTypeOK, SendTypeOK, sends
  <2>6. RunsFit'
    BY <2>1, <2>2, WritingOn DEF counters, sends, caps, world
  <2>7. CampaignsFit'
    BY <2>2, CampaignsKept, Writing DEF WritesOn, JourneyTypeOK
  <2>8. QED
    BY <2>1, <2>2, <2>3, <2>4, <2>5, <2>6, <2>7 DEF JourneyTypeOK, RunsFit
<1>3. ASSUME Advance(r), NextOf[run[r].at] = None PROVE JourneyInv'
  <2> USE <1>3 DEF Advance
  <2>1. /\ status # "NONE" /\ run[r].at \in Steps
        /\ NextOf[run[r].at] \in Steps \cup {None} /\ OtherOf[run[r].at] \in Steps \cup {None}
    BY DEF NoneIsQuiet, RunsHaveSteps, AtStep
  <2>2. PICK st \in RunStates : Moves(r, st) /\ st.pc \notin {"create", "address"}
    <3> DEFINE now == To(r, "complete")
    <3>1. now \in RunStates
      BY <2>1 DEF RunStates, To, On, Phases, JourneyTypeOK, RowTypeOK
    <3>2. Moves(r, now) /\ now.pc \notin {"create", "address"}
      BY <2>1 DEF RunStates, Moves, Counting, AtStep, Writers, Live, FreshIsLive,
             RunsHaveSteps, To, On, Phases, JourneyTypeOK, RowTypeOK, Statuses, JobStates
    <3>3. QED
      BY <3>1, <3>2
  <2>3. RowTypeOK'
    BY <2>1 DEF JourneyTypeOK, RowTypeOK, Statuses, JobStates, counters, sends, caps, world
  <2>4. FlagTypeOK'
    BY DEF JourneyTypeOK, FlagTypeOK, counters, sends, caps, world, Writes, Becomes
  <2>5. SendTypeOK'
    BY DEF JourneyTypeOK, SendTypeOK, sends
  <2>6. RunsFit'
    BY <2>1, <2>2, Moving DEF counters, sends, caps, world, Counting
  <2>7. CampaignsFit'
    BY <2>2, CampaignsKept, Becoming DEF Moves, JourneyTypeOK
  <2>8. QED
    BY <2>1, <2>2, <2>3, <2>4, <2>5, <2>6, <2>7 DEF JourneyTypeOK, RunsFit
<1>4. ASSUME NEW s \in Steps, Branch(r, s) PROVE JourneyInv'
  <2> USE <1>4 DEF Branch
  <2>1. /\ status # "NONE" /\ run[r].at \in Steps
        /\ NextOf[run[r].at] \in Steps \cup {None} /\ OtherOf[run[r].at] \in Steps \cup {None}
    BY DEF NoneIsQuiet, RunsHaveSteps, AtStep, AtA
  <2>2. PICK st \in RunStates : WritesOn(r, st) /\ st.pc \notin {"create", "address"}
    <3> DEFINE now == On(r, s)
    <3>1. now \in RunStates
      BY <2>1, GoingOn DEF JourneyTypeOK
    <3>2. WritesOn(r, now) /\ now.pc \notin {"create", "address"}
      BY <2>1 DEF RunStates, WritesOn, Counting, AtStep, Writers, Live, FreshIsLive,
             RunsHaveSteps, On, Phases, JourneyTypeOK, RowTypeOK, Statuses, JobStates, AtA
    <3>3. QED
      BY <3>1, <3>2
  <2>3. RowTypeOK'
    BY <2>1 DEF JourneyTypeOK, RowTypeOK, Statuses, JobStates, counters, sends, caps, world
  <2>4. FlagTypeOK'
    BY DEF JourneyTypeOK, FlagTypeOK, counters, sends, caps, world, Writes
  <2>5. SendTypeOK'
    BY DEF JourneyTypeOK, SendTypeOK, sends
  <2>6. RunsFit'
    BY <2>1, <2>2, WritingOn DEF counters, sends, caps, world, AtA
  <2>7. CampaignsFit'
    BY <2>2, CampaignsKept, Writing DEF WritesOn, JourneyTypeOK
  <2>8. QED
    BY <2>1, <2>2, <2>3, <2>4, <2>5, <2>6, <2>7 DEF JourneyTypeOK, RunsFit
<1>5. ASSUME Delay(r) PROVE JourneyInv'
  <2> USE <1>5 DEF Delay
  <2>1. /\ status # "NONE" /\ run[r].at \in Steps
        /\ NextOf[run[r].at] \in Steps \cup {None} /\ OtherOf[run[r].at] \in Steps \cup {None}
    BY DEF NoneIsQuiet, RunsHaveSteps, AtStep, AtA
  <2>2. PICK st \in RunStates : WritesOn(r, st) /\ st.pc \notin {"create", "address"}
    <3> DEFINE now == To(r, "scheduleNext")
    <3>1. now \in RunStates
      BY <2>1 DEF RunStates, To, Phases, JourneyTypeOK, RowTypeOK
    <3>2. WritesOn(r, now) /\ now.pc \notin {"create", "address"}
      BY <2>1 DEF RunStates, WritesOn, Counting, AtStep, Writers, Live, FreshIsLive,
             RunsHaveSteps, To, Phases, JourneyTypeOK, RowTypeOK, Statuses, JobStates, AtA
    <3>3. QED
      BY <3>1, <3>2
  <2>3. RowTypeOK'
    BY <2>1 DEF JourneyTypeOK, RowTypeOK, Statuses, JobStates, counters, sends, caps, world
  <2>4. FlagTypeOK'
    BY DEF JourneyTypeOK, FlagTypeOK, counters, sends, caps, world, Writes
  <2>5. SendTypeOK'
    BY DEF JourneyTypeOK, SendTypeOK, sends
  <2>6. RunsFit'
    BY <2>1, <2>2, WritingOn DEF counters, sends, caps, world, AtA
  <2>7. CampaignsFit'
    BY <2>2, CampaignsKept, Writing DEF WritesOn, JourneyTypeOK
  <2>8. QED
    BY <2>1, <2>2, <2>3, <2>4, <2>5, <2>6, <2>7 DEF JourneyTypeOK, RunsFit
<1>6. ASSUME Wait(r), run[r].waited PROVE JourneyInv'
  <2> USE <1>6 DEF Wait
  <2>1. /\ status # "NONE" /\ run[r].at \in Steps
        /\ NextOf[run[r].at] \in Steps \cup {None} /\ OtherOf[run[r].at] \in Steps \cup {None}
    BY DEF NoneIsQuiet, RunsHaveSteps, AtStep, AtA
  <2>2. PICK st \in RunStates : Moves(r, st) /\ st.pc \notin {"create", "address"}
    <3> DEFINE now == To(r, "readTimeout")
    <3>1. now \in RunStates
      BY <2>1 DEF RunStates, To, Phases, JourneyTypeOK, RowTypeOK
    <3>2. Moves(r, now) /\ now.pc \notin {"create", "address"}
      BY <2>1 DEF RunStates, Moves, Counting, AtStep, Writers, Live, FreshIsLive,
             RunsHaveSteps, To, Phases, JourneyTypeOK, RowTypeOK, Statuses, JobStates, AtA
    <3>3. QED
      BY <3>1, <3>2
  <2>3. RowTypeOK'
    BY <2>1 DEF JourneyTypeOK, RowTypeOK, Statuses, JobStates, enrollment, counters, sends,
           caps, world
  <2>4. FlagTypeOK'
    BY DEF JourneyTypeOK, FlagTypeOK, enrollment, counters, sends, caps, world, Writes,
           Becomes
  <2>5. SendTypeOK'
    BY DEF JourneyTypeOK, SendTypeOK, sends
  <2>6. RunsFit'
    BY <2>1, <2>2, Moving DEF enrollment, counters, sends, caps, world, Counting, AtA
  <2>7. CampaignsFit'
    BY <2>2, CampaignsKept, Becoming DEF Moves, JourneyTypeOK
  <2>8. QED
    BY <2>1, <2>2, <2>3, <2>4, <2>5, <2>6, <2>7 DEF JourneyTypeOK, RunsFit
<1>7. ASSUME Wait(r), ~run[r].waited PROVE JourneyInv'
  <2> USE <1>7 DEF Wait
  <2>1. /\ status # "NONE" /\ run[r].at \in Steps
        /\ NextOf[run[r].at] \in Steps \cup {None} /\ OtherOf[run[r].at] \in Steps \cup {None}
    BY DEF NoneIsQuiet, RunsHaveSteps, AtStep, AtA
  <2>2. PICK st \in RunStates : WritesOn(r, st) /\ st.pc \notin {"create", "address"}
    <3> DEFINE now == To(r, "scheduleTimeout")
    <3>1. now \in RunStates
      BY <2>1 DEF RunStates, To, Phases, JourneyTypeOK, RowTypeOK
    <3>2. WritesOn(r, now) /\ now.pc \notin {"create", "address"}
      BY <2>1 DEF RunStates, WritesOn, Counting, AtStep, Writers, Live, FreshIsLive,
             RunsHaveSteps, To, Phases, JourneyTypeOK, RowTypeOK, Statuses, JobStates, AtA
    <3>3. QED
      BY <3>1, <3>2
  <2>3. RowTypeOK'
    BY <2>1 DEF JourneyTypeOK, RowTypeOK, Statuses, JobStates, enrollment, counters, sends,
           caps, world
  <2>4. FlagTypeOK'
    BY DEF JourneyTypeOK, FlagTypeOK, enrollment, counters, sends, caps, world, Writes,
           Becomes
  <2>5. SendTypeOK'
    BY DEF JourneyTypeOK, SendTypeOK, sends
  <2>6. RunsFit'
    BY <2>1, <2>2, WritingOn DEF enrollment, counters, sends, caps, world, AtA
  <2>7. CampaignsFit'
    BY <2>2, CampaignsKept, Writing DEF WritesOn, JourneyTypeOK
  <2>8. QED
    BY <2>1, <2>2, <2>3, <2>4, <2>5, <2>6, <2>7 DEF JourneyTypeOK, RunsFit
<1>8. ASSUME Expire(r), OtherOf[run[r].at] # None PROVE JourneyInv'
  <2> USE <1>8 DEF Expire
  <2>1. /\ status # "NONE" /\ run[r].at \in Steps
        /\ NextOf[run[r].at] \in Steps \cup {None} /\ OtherOf[run[r].at] \in Steps \cup {None}
    BY DEF NoneIsQuiet, RunsHaveSteps, AtStep
  <2>2. PICK st \in RunStates : WritesOn(r, st) /\ st.pc \notin {"create", "address"}
    <3> DEFINE now == On(r, OtherOf[run[r].at])
    <3>1. now \in RunStates
      BY <2>1, GoingOn DEF JourneyTypeOK
    <3>2. WritesOn(r, now) /\ now.pc \notin {"create", "address"}
      BY <2>1 DEF RunStates, WritesOn, Counting, AtStep, Writers, Live, FreshIsLive,
             RunsHaveSteps, To, On, Phases, JourneyTypeOK, RowTypeOK, Statuses, JobStates
    <3>3. QED
      BY <3>1, <3>2
  <2>3. RowTypeOK'
    BY <2>1 DEF JourneyTypeOK, RowTypeOK, Statuses, JobStates, enrollment, counters, sends,
           caps, world
  <2>4. FlagTypeOK'
    BY DEF JourneyTypeOK, FlagTypeOK, enrollment, counters, sends, caps, world, Writes,
           Becomes
  <2>5. SendTypeOK'
    BY DEF JourneyTypeOK, SendTypeOK, sends
  <2>6. RunsFit'
    BY <2>1, <2>2, WritingOn DEF enrollment, counters, sends, caps, world
  <2>7. CampaignsFit'
    BY <2>2, CampaignsKept, Writing DEF WritesOn, JourneyTypeOK
  <2>8. QED
    BY <2>1, <2>2, <2>3, <2>4, <2>5, <2>6, <2>7 DEF JourneyTypeOK, RunsFit
<1>9. ASSUME Expire(r), OtherOf[run[r].at] = None PROVE JourneyInv'
  <2> USE <1>9 DEF Expire
  <2>1. /\ status # "NONE" /\ run[r].at \in Steps
        /\ NextOf[run[r].at] \in Steps \cup {None} /\ OtherOf[run[r].at] \in Steps \cup {None}
    BY DEF NoneIsQuiet, RunsHaveSteps, AtStep
  <2>2. PICK st \in RunStates : Moves(r, st) /\ st.pc \notin {"create", "address"}
    <3> DEFINE now == To(r, "abandon")
    <3>1. now \in RunStates
      BY <2>1 DEF RunStates, To, On, Phases, JourneyTypeOK, RowTypeOK
    <3>2. Moves(r, now) /\ now.pc \notin {"create", "address"}
      BY <2>1 DEF RunStates, Moves, Counting, AtStep, Writers, Live, FreshIsLive,
             RunsHaveSteps, To, On, Phases, JourneyTypeOK, RowTypeOK, Statuses, JobStates
    <3>3. QED
      BY <3>1, <3>2
  <2>3. RowTypeOK'
    BY <2>1 DEF JourneyTypeOK, RowTypeOK, Statuses, JobStates, enrollment, counters, sends,
           caps, world
  <2>4. FlagTypeOK'
    BY DEF JourneyTypeOK, FlagTypeOK, enrollment, counters, sends, caps, world, Writes,
           Becomes
  <2>5. SendTypeOK'
    BY DEF JourneyTypeOK, SendTypeOK, sends
  <2>6. RunsFit'
    BY <2>1, <2>2, Moving DEF enrollment, counters, sends, caps, world, Counting
  <2>7. CampaignsFit'
    BY <2>2, CampaignsKept, Becoming DEF Moves, JourneyTypeOK
  <2>8. QED
    BY <2>1, <2>2, <2>3, <2>4, <2>5, <2>6, <2>7 DEF JourneyTypeOK, RunsFit
<1>10. QED
  BY <1>1, <1>2, <1>3, <1>4, <1>5, <1>6, <1>7, <1>8, <1>9

(* Run state `before` once it addresses the n-th campaign.                   *)
Addressing(before, n) == [[before EXCEPT !.pc = "address"] EXCEPT !.found = n]

(* A run that addresses its n-th campaign is a run of the same step.        *)
LEMMA AddressingFits ==
    ASSUME NEW before \in RunStates, NEW n \in Nat
    PROVE  /\ Addressing(before, n) \in RunStates
           /\ Addressing(before, n).pc = "address"
           /\ Addressing(before, n).at = before.at
           /\ Addressing(before, n).fresh = before.fresh
BY DEF Addressing, RunStates, Phases

(* So a run that goes on to address a campaign moves, and stays at its step. *)
LEMMA AddressingMoves ==
    ASSUME NEW r \in Runs, NEW n \in Nat, run \in [Runs -> RunStates],
           run[r].at \in Steps, run[r].fresh => Live,
           Becomes(r, Addressing(run[r], n))
    PROVE  Addressing(run[r], n) \in RunStates /\ Moves(r, Addressing(run[r], n))
<1>1. run[r] \in RunStates
  OBVIOUS
<1>2. QED
  BY <1>1, AddressingFits DEF Moves, Counting

LEMMA SendingSteps ==
    ASSUME JourneyInv, NEW r \in Runs, FindCampaign(r) \/ CreateCampaign(r) \/ Address(r)
    PROVE  JourneyInv'
<1> USE JourneyConstantsOK DEF JourneyInv
<1>1. status # "NONE" /\ run[r].at \in Steps /\ (run[r].fresh => Live)
  BY DEF NoneIsQuiet, RunsHaveSteps, FreshIsLive, AtStep, Writers, AtA, FindCampaign,
         CreateCampaign, Address
<1>2. RowTypeOK'
  BY <1>1 DEF JourneyTypeOK, RowTypeOK, Statuses, JobStates, FindCampaign, CreateCampaign,
         Address, enrollment, counters, world, caps
<1>3. FlagTypeOK'
  BY DEF JourneyTypeOK, FlagTypeOK, FindCampaign, CreateCampaign, Address, Becomes,
         enrollment, world
<1>4. SendTypeOK'
  <2>1. CASE FindCampaign(r)
    BY <2>1 DEF FindCampaign, sends, JourneyTypeOK, SendTypeOK
  <2>2. CASE CreateCampaign(r)
    BY <1>1, <2>2 DEF CreateCampaign, JourneyTypeOK, SendTypeOK
  <2>3. CASE Address(r)
    <3>1. run[r].found \in 1..campaigns[run[r].at]
      BY <2>3 DEF Address, CampaignsFit
    <3>2. QED
      BY <1>1, <2>3, <3>1 DEF Address, JourneyTypeOK, SendTypeOK
  <2>4. QED
    BY <2>1, <2>2, <2>3
<1>5. PICK st \in RunStates :
         /\ Moves(r, st)
         /\ FindCampaign(r) => IF campaigns[run[r].at] > 0
                               THEN st = [To(r, "address") EXCEPT !.found = 1]
                               ELSE st = To(r, "create")
         /\ CreateCampaign(r) => st = [To(r, "address") EXCEPT !.found = campaigns[run[r].at] + 1]
         /\ Address(r) => st = To(r, "advance")
  <2>1. run \in [Runs -> RunStates] /\ campaigns[run[r].at] \in Nat
    BY <1>1 DEF JourneyTypeOK, SendTypeOK
  <2>2. ASSUME FindCampaign(r), campaigns[run[r].at] > 0
        PROVE  /\ [To(r, "address") EXCEPT !.found = 1] \in RunStates
               /\ Moves(r, [To(r, "address") EXCEPT !.found = 1])
    <3>1. [To(r, "address") EXCEPT !.found = 1] = Addressing(run[r], 1)
      BY DEF To, Addressing
    <3>2. Becomes(r, Addressing(run[r], 1))
      BY <2>2, <3>1 DEF FindCampaign
    <3>3. QED
      BY <1>1, <2>1, <3>1, <3>2, AddressingMoves
  <2>3. ASSUME FindCampaign(r), ~(campaigns[run[r].at] > 0)
        PROVE  To(r, "create") \in RunStates /\ Moves(r, To(r, "create"))
    BY <1>1, <2>1, <2>3 DEF FindCampaign, Moves, To, RunStates, Phases, Counting
  <2>4. ASSUME CreateCampaign(r)
        PROVE  /\ [To(r, "address") EXCEPT !.found = campaigns[run[r].at] + 1] \in RunStates
               /\ Moves(r, [To(r, "address") EXCEPT !.found = campaigns[run[r].at] + 1])
    <3> DEFINE n == campaigns[run[r].at] + 1
    <3>1. [To(r, "address") EXCEPT !.found = n] = Addressing(run[r], n)
      BY DEF To, Addressing
    <3>2. Becomes(r, Addressing(run[r], n))
      BY <2>4, <3>1 DEF CreateCampaign
    <3>3. n \in Nat
      BY <2>1
    <3> HIDE DEF n
    <3>4. QED
      BY <1>1, <2>1, <3>1, <3>2, <3>3, AddressingMoves DEF n
  <2>5. ASSUME Address(r)
        PROVE  To(r, "advance") \in RunStates /\ Moves(r, To(r, "advance"))
    BY <1>1, <2>1, <2>5 DEF Address, Moves, To, RunStates, Phases, Counting
  <2>6. /\ ~(FindCampaign(r) /\ CreateCampaign(r)) /\ ~(FindCampaign(r) /\ Address(r))
        /\ ~(CreateCampaign(r) /\ Address(r))
    BY DEF FindCampaign, CreateCampaign, Address, AtA
  <2>7. QED
    BY <2>2, <2>3, <2>4, <2>5, <2>6
<1>6. RunsFit'
  BY <1>1, <1>5, Moving DEF FindCampaign, CreateCampaign, Address, AtA, Counting,
         enrollment, counters, world
<1>7. /\ run' \in [Runs -> RunStates] /\ run'[r] = st
      /\ \A q \in Runs \ {r} : run'[q] = run[q]
  BY <1>5, Becoming DEF Moves, JourneyTypeOK
<1>8. CampaignsFit'
  <2>1. campaigns \in [Steps -> Nat] /\ run \in [Runs -> RunStates]
    BY DEF JourneyTypeOK, SendTypeOK
  <2>2. CASE FindCampaign(r)
    <3> DEFINE s == run[r].at
    <3>1. UNCHANGED <<campaigns, recipients>>
      BY <2>2 DEF FindCampaign, sends
    <3>2. CASE campaigns[s] > 0
      <4>1. st.pc = "address" /\ st.found = 1 /\ st.at = s
        BY <1>5, <2>1, <2>2, <3>2 DEF To, RunStates
      <4>2. blind \subseteq blind'
        BY <2>2 DEF FindCampaign
      <4>3. QED
        BY <1>1, <1>7, <2>1, <3>1, <3>2, <4>1, <4>2 DEF CampaignsFit
    <3>3. CASE ~(campaigns[s] > 0)
      <4>1. st.pc = "create" /\ st.at = s
        BY <1>5, <2>1, <2>2, <3>3 DEF To, RunStates
      <4>2. blind \subseteq blind' /\ (s \in blind' \/ \A q \in Runs : ~(run[q].pc = "create" /\ run[q].at = s))
        BY <1>1, <2>2 DEF FindCampaign
      <4>3. campaigns[s] = 0
        BY <1>1, <2>1, <3>3
      <4>4. QED
        BY <1>1, <1>7, <2>1, <3>1, <4>1, <4>2, <4>3 DEF CampaignsFit
    <3>4. QED
      BY <3>2, <3>3
  <2>3. CASE CreateCampaign(r)
    <3>1. st.pc = "address" /\ st.at = run[r].at /\ st.found = campaigns[run[r].at] + 1
      BY <1>5, <2>1, <2>3 DEF To, RunStates
    <3>2. /\ campaigns' = [campaigns EXCEPT ![run[r].at] = campaigns[run[r].at] + 1]
          /\ blind' = blind /\ run[r].pc = "create"
      BY <2>3 DEF CreateCampaign
    <3>3. QED
      BY <1>1, <1>7, <2>1, <3>1, <3>2 DEF CampaignsFit
  <2>4. CASE Address(r)
    <3>1. st.pc = "advance"
      BY <1>5, <2>1, <2>4 DEF To, RunStates
    <3>2. campaigns' = campaigns /\ blind' = blind
      BY <2>4 DEF Address
    <3>3. QED
      BY <1>7, <2>1, <3>1, <3>2 DEF CampaignsFit
  <2>5. QED
    BY <2>2, <2>3, <2>4
<1>9. QED
  BY <1>2, <1>3, <1>4, <1>6, <1>8 DEF JourneyTypeOK, RunsFit

LEMMA CountingSteps ==
    ASSUME JourneyInv, NEW r \in Runs,
           \/ \E eligible \in BOOLEAN : Enroll(r, eligible)
           \/ CountEnrolled(r) \/ Complete(r) \/ CountCompleted(r)
           \/ ReadAbandon(r) \/ Abandon(r) \/ CountAbandoned(r)
    PROVE  JourneyInv'
<1> USE JourneyConstantsOK DEF JourneyInv
<1>1. run \in [Runs -> RunStates] /\ Idle \in RunStates /\ Idle.pc = "idle"
  BY DEF JourneyTypeOK, RunStates, Phases, Idle
<1>2. ASSUME Enroll(r, TRUE) PROVE JourneyInv'
  <2> USE <1>2 DEF Enroll
  <2> DEFINE now == [Idle EXCEPT !.pc = "countEnrolled", !.at = Root, !.job = NoJob, !.fresh = TRUE]
  <2>1. now \in RunStates /\ now.pc = "countEnrolled" /\ Becomes(r, now)
    BY DEF Start, RunStates, Phases, Idle, ValidSteps
  <2>2. /\ run' \in [Runs -> RunStates] /\ run'[r] = now
        /\ \A q \in Runs \ {r} : run'[q] = run[q]
        /\ stale' = stale
    BY <1>1, <2>1, Becoming
  <2>3. \A q \in Runs : run[q].pc = "idle"
    BY DEF NoneIsQuiet
  <2>4. RowTypeOK'
    <3>1. overlaps' \in 0..MaxOverlaps
      BY Starting DEF JourneyTypeOK, RowTypeOK
    <3>2. QED
      BY <3>1 DEF JourneyTypeOK, RowTypeOK, Statuses, ValidSteps, counters, caps
  <2>5. FlagTypeOK'
    BY <2>2 DEF JourneyTypeOK, FlagTypeOK
  <2>6. SendTypeOK'
    BY DEF JourneyTypeOK, SendTypeOK, sends
  <2>7. NoneIsQuiet' /\ RunsHaveSteps' /\ FreshIsLive'
    BY <2>1, <2>2, <2>3 DEF NoneIsQuiet, RunsHaveSteps, AtStep, FreshIsLive, Writers
  <2>8. CampaignsFit'
    BY <2>1, <2>2, CampaignsKept
  <2>9. ASSUME CountsFit PROVE CountsFit'
    <3>1. ~At("countEnrolled") /\ ~At("countCompleted") /\ ~At("countAbandoned")
      BY <2>3 DEF At
    <3>2. At("countEnrolled")' /\ ~At("countCompleted")' /\ ~At("countAbandoned")'
      BY <2>1, <2>2, <2>3 DEF At
    <3>3. QED
      BY <2>1, <2>2, <2>3, <2>9, <3>1, <3>2 DEF CountsFit, Counting, Live, counters
  <2>10. CountersFit'
    BY <2>2, <2>9 DEF CountersFit
  <2>11. QED
    BY <2>2, <2>4, <2>5, <2>6, <2>7, <2>8, <2>10 DEF JourneyTypeOK
<1>3. ASSUME Enroll(r, FALSE) PROVE JourneyInv'
  <2> USE <1>3 DEF Enroll
  <2>1. \A q \in Runs : run[q].pc = "idle"
    BY DEF NoneIsQuiet
  <2>2. RowTypeOK'
    BY DEF JourneyTypeOK, RowTypeOK, Statuses, counters, caps
  <2>3. FlagTypeOK'
    BY DEF JourneyTypeOK, FlagTypeOK
  <2>4. SendTypeOK'
    BY DEF JourneyTypeOK, SendTypeOK, sends
  <2>5. NoneIsQuiet' /\ RunsHaveSteps' /\ FreshIsLive' /\ CampaignsFit'
    BY <2>1 DEF NoneIsQuiet, RunsHaveSteps, AtStep, FreshIsLive, Writers, CampaignsFit,
           sends
  <2>6. ASSUME CountsFit PROVE CountsFit'
    <3>1. ~At("countEnrolled") /\ ~At("countCompleted") /\ ~At("countAbandoned")
      BY <2>1 DEF At
    <3>2. ~At("countEnrolled")' /\ ~At("countCompleted")' /\ ~At("countAbandoned")'
      BY <2>1 DEF At
    <3>3. QED
      BY <2>1, <2>6, <3>1, <3>2 DEF CountsFit, Counting, Live, counters, JourneyTypeOK,
             RowTypeOK
  <2>7. CountersFit'
    BY <2>6 DEF CountersFit
  <2>8. run' \in [Runs -> RunStates]
    BY <1>1
  <2>9. QED
    BY <2>2, <2>3, <2>4, <2>5, <2>7, <2>8 DEF JourneyTypeOK
<1>4. ASSUME CountEnrolled(r) PROVE JourneyInv'
  <2> USE <1>4 DEF CountEnrolled
  <2>1. PICK now \in RunStates :
           Becomes(r, now) /\ now.pc \in {"idle", "load"}
    <3>1. To(r, "load") \in RunStates /\ To(r, "load").pc = "load"
      BY <1>1 DEF To, RunStates, Phases
    <3>2. QED
      BY <1>1, <3>1
  <2>2. /\ run' \in [Runs -> RunStates] /\ run'[r] = now
        /\ \A q \in Runs \ {r} : run'[q] = run[q]
        /\ stale' = stale
    BY <1>1, <2>1, Becoming
  <2>3. status # "NONE"
    BY DEF NoneIsQuiet
  <2>4. RowTypeOK'
    BY DEF JourneyTypeOK, RowTypeOK, JobStates, enrollment, world, caps
  <2>5. FlagTypeOK'
    BY <2>2 DEF JourneyTypeOK, FlagTypeOK, enrollment, world
  <2>6. SendTypeOK'
    BY DEF JourneyTypeOK, SendTypeOK, sends
  <2>7. NoneIsQuiet' /\ RunsHaveSteps' /\ FreshIsLive'
    BY <2>1, <2>2, <2>3 DEF NoneIsQuiet, RunsHaveSteps, AtStep, FreshIsLive, Writers, Live,
           enrollment
  <2>8. CampaignsFit'
    BY <2>1, <2>2, CampaignsKept
  <2>9. ASSUME CountsFit PROVE CountsFit'
    <3>1. At("countEnrolled") /\ ~At("countEnrolled")'
      BY <2>1, <2>2, <2>9 DEF At, CountsFit, Counting
    <3>2. \A phase \in Counting \ {"countEnrolled"} : At(phase)' <=> At(phase)
      BY <2>1, <2>2 DEF At, Counting
    <3>3. \A phase \in Counting : \A q, p \in Runs :
             run'[q].pc = phase /\ run'[p].pc = phase => q = p
      BY <2>1, <2>2, <2>9 DEF CountsFit, Counting
    <3>4. QED
      BY <2>9, <3>1, <3>2, <3>3 DEF CountsFit, Counting, Live, enrollment, JourneyTypeOK,
             RowTypeOK
  <2>10. CountersFit'
    BY <2>2, <2>9 DEF CountersFit, world
  <2>11. QED
    BY <2>2, <2>4, <2>5, <2>6, <2>7, <2>8, <2>10 DEF JourneyTypeOK
<1>5. ASSUME CountCompleted(r) PROVE JourneyInv'
  <2> USE <1>5 DEF CountCompleted
  <2>1. PICK now \in RunStates :
           Becomes(r, now) /\ now.pc \in {"idle", "load"}
    <3>1. To(r, "load") \in RunStates /\ To(r, "load").pc = "load"
      BY <1>1 DEF To, RunStates, Phases
    <3>2. QED
      BY <1>1, <3>1
  <2>2. /\ run' \in [Runs -> RunStates] /\ run'[r] = now
        /\ \A q \in Runs \ {r} : run'[q] = run[q]
        /\ stale' = stale
    BY <1>1, <2>1, Becoming
  <2>3. status # "NONE"
    BY DEF NoneIsQuiet
  <2>4. RowTypeOK'
    BY DEF JourneyTypeOK, RowTypeOK, JobStates, enrollment, world, caps, Close
  <2>5. FlagTypeOK'
    BY <2>2 DEF JourneyTypeOK, FlagTypeOK, enrollment, world
  <2>6. SendTypeOK'
    BY DEF JourneyTypeOK, SendTypeOK, sends
  <2>7. NoneIsQuiet' /\ RunsHaveSteps' /\ FreshIsLive'
    BY <2>1, <2>2, <2>3 DEF NoneIsQuiet, RunsHaveSteps, AtStep, FreshIsLive, Writers, Live,
           enrollment
  <2>8. CampaignsFit'
    BY <2>1, <2>2, CampaignsKept
  <2>9. ASSUME CountsFit PROVE CountsFit'
    <3>1. At("countCompleted") /\ ~At("countCompleted")'
      BY <2>1, <2>2, <2>9 DEF At, CountsFit, Counting
    <3>2. \A phase \in Counting \ {"countCompleted"} : At(phase)' <=> At(phase)
      BY <2>1, <2>2 DEF At, Counting
    <3>3. \A phase \in Counting : \A q, p \in Runs :
             run'[q].pc = phase /\ run'[p].pc = phase => q = p
      BY <2>1, <2>2, <2>9 DEF CountsFit, Counting
    <3>4. QED
      BY <2>9, <3>1, <3>2, <3>3 DEF CountsFit, Counting, Live, enrollment, JourneyTypeOK,
             RowTypeOK
  <2>10. CountersFit'
    BY <2>2, <2>9 DEF CountersFit, world
  <2>11. QED
    BY <2>2, <2>4, <2>5, <2>6, <2>7, <2>8, <2>10 DEF JourneyTypeOK
<1>6. ASSUME CountAbandoned(r) PROVE JourneyInv'
  <2> USE <1>6 DEF CountAbandoned
  <2>1. PICK now \in RunStates :
           Becomes(r, now) /\ now.pc \in {"idle", "load"}
    <3>1. To(r, "load") \in RunStates /\ To(r, "load").pc = "load"
      BY <1>1 DEF To, RunStates, Phases
    <3>2. QED
      BY <1>1, <3>1
  <2>2. /\ run' \in [Runs -> RunStates] /\ run'[r] = now
        /\ \A q \in Runs \ {r} : run'[q] = run[q]
        /\ stale' = stale
    BY <1>1, <2>1, Becoming
  <2>3. status # "NONE"
    BY DEF NoneIsQuiet
  <2>4. RowTypeOK'
    BY DEF JourneyTypeOK, RowTypeOK, JobStates, enrollment, world, caps, Close
  <2>5. FlagTypeOK'
    BY <2>2 DEF JourneyTypeOK, FlagTypeOK, enrollment, world
  <2>6. SendTypeOK'
    BY DEF JourneyTypeOK, SendTypeOK, sends
  <2>7. NoneIsQuiet' /\ RunsHaveSteps' /\ FreshIsLive'
    BY <2>1, <2>2, <2>3 DEF NoneIsQuiet, RunsHaveSteps, AtStep, FreshIsLive, Writers, Live,
           enrollment
  <2>8. CampaignsFit'
    BY <2>1, <2>2, CampaignsKept
  <2>9. ASSUME CountsFit PROVE CountsFit'
    <3>1. At("countAbandoned") /\ ~At("countAbandoned")'
      BY <2>1, <2>2, <2>9 DEF At, CountsFit, Counting
    <3>2. \A phase \in Counting \ {"countAbandoned"} : At(phase)' <=> At(phase)
      BY <2>1, <2>2 DEF At, Counting
    <3>3. \A phase \in Counting : \A q, p \in Runs :
             run'[q].pc = phase /\ run'[p].pc = phase => q = p
      BY <2>1, <2>2, <2>9 DEF CountsFit, Counting
    <3>4. QED
      BY <2>9, <3>1, <3>2, <3>3 DEF CountsFit, Counting, Live, enrollment, JourneyTypeOK,
             RowTypeOK
  <2>10. CountersFit'
    BY <2>2, <2>9 DEF CountersFit, world
  <2>11. QED
    BY <2>2, <2>4, <2>5, <2>6, <2>7, <2>8, <2>10 DEF JourneyTypeOK
<1>7. ASSUME Complete(r) PROVE JourneyInv'
  <2> USE <1>7 DEF Complete
  <2>1. Writes(r, To(r, "countCompleted")) /\ run[r].pc \in Writers
    BY DEF Writers, AtA
  <2>2. To(r, "countCompleted") \in RunStates /\ To(r, "countCompleted").pc = "countCompleted"
    BY <1>1 DEF To, RunStates, Phases
  <2>3. /\ run' \in [Runs -> RunStates] /\ run'[r].pc = "countCompleted"
        /\ \A q \in Runs \ {r} :
              run'[q].pc = run[q].pc /\ run'[q].at = run[q].at /\ run'[q].found = run[q].found
        /\ \A q \in Runs \ {r} : ~run'[q].fresh
        /\ run[r].fresh \/ stale'
        /\ stale => stale'
    BY <1>1, <2>1, <2>2, Writing
  <2>4. RowTypeOK'
    BY DEF JourneyTypeOK, RowTypeOK, Statuses, counters, world, caps
  <2>5. FlagTypeOK'
    BY DEF JourneyTypeOK, FlagTypeOK, world, Writes
  <2>6. SendTypeOK'
    BY DEF JourneyTypeOK, SendTypeOK, sends
  <2>7. NoneIsQuiet' /\ RunsHaveSteps' /\ FreshIsLive'
    BY <2>3 DEF NoneIsQuiet, RunsHaveSteps, AtStep, FreshIsLive, Writers
  <2>8. CampaignsFit'
    BY <2>3, CampaignsKept
  <2>9. ASSUME CountsFit, run[r].fresh PROVE CountsFit'
    <3>1. Live
      BY <2>1, <2>9 DEF FreshIsLive
    <3>2. ~At("countCompleted") /\ ~At("countAbandoned")
      BY <2>9, <3>1 DEF CountsFit, Live
    <3>3. /\ At("countCompleted")'
          /\ \A phase \in Counting \ {"countCompleted"} : At(phase)' <=> At(phase)
      BY <2>1, <2>3 DEF At, Counting, Writers
    <3>4. \A phase \in Counting : \A q, p \in Runs :
             run'[q].pc = phase /\ run'[p].pc = phase => q = p
      BY <2>3, <2>9, <3>2 DEF CountsFit, Counting, At
    <3>5. QED
      BY <2>9, <3>1, <3>2, <3>3, <3>4 DEF CountsFit, Counting, Live, counters,
             JourneyTypeOK, RowTypeOK
  <2>10. CountersFit'
    BY <2>3, <2>9 DEF CountersFit, world
  <2>11. QED
    BY <2>3, <2>4, <2>5, <2>6, <2>7, <2>8, <2>10 DEF JourneyTypeOK
<1>8. ASSUME Abandon(r) PROVE JourneyInv'
  <2> USE <1>8 DEF Abandon
  <2>1. Writes(r, To(r, "countAbandoned")) /\ run[r].pc \in Writers
    BY DEF Writers
  <2>2. To(r, "countAbandoned") \in RunStates /\ To(r, "countAbandoned").pc = "countAbandoned"
    BY <1>1 DEF To, RunStates, Phases
  <2>3. /\ run' \in [Runs -> RunStates] /\ run'[r].pc = "countAbandoned"
        /\ \A q \in Runs \ {r} :
              run'[q].pc = run[q].pc /\ run'[q].at = run[q].at /\ run'[q].found = run[q].found
        /\ \A q \in Runs \ {r} : ~run'[q].fresh
        /\ run[r].fresh \/ stale'
        /\ stale => stale'
    BY <1>1, <2>1, <2>2, Writing
  <2>4. RowTypeOK'
    BY DEF JourneyTypeOK, RowTypeOK, Statuses, counters, world, caps
  <2>5. FlagTypeOK'
    BY DEF JourneyTypeOK, FlagTypeOK, world, Writes
  <2>6. SendTypeOK'
    BY DEF JourneyTypeOK, SendTypeOK, sends
  <2>7. NoneIsQuiet' /\ RunsHaveSteps' /\ FreshIsLive'
    BY <2>3 DEF NoneIsQuiet, RunsHaveSteps, AtStep, FreshIsLive, Writers
  <2>8. CampaignsFit'
    BY <2>3, CampaignsKept
  <2>9. ASSUME CountsFit, run[r].fresh PROVE CountsFit'
    <3>1. Live
      BY <2>1, <2>9 DEF FreshIsLive
    <3>2. ~At("countCompleted") /\ ~At("countAbandoned")
      BY <2>9, <3>1 DEF CountsFit, Live
    <3>3. /\ At("countAbandoned")'
          /\ \A phase \in Counting \ {"countAbandoned"} : At(phase)' <=> At(phase)
      BY <2>1, <2>3 DEF At, Counting, Writers
    <3>4. \A phase \in Counting : \A q, p \in Runs :
             run'[q].pc = phase /\ run'[p].pc = phase => q = p
      BY <2>3, <2>9, <3>2 DEF CountsFit, Counting, At
    <3>5. QED
      BY <2>9, <3>1, <3>2, <3>3, <3>4 DEF CountsFit, Counting, Live, counters,
             JourneyTypeOK, RowTypeOK
  <2>10. CountersFit'
    BY <2>3, <2>9 DEF CountersFit, world
  <2>11. QED
    BY <2>3, <2>4, <2>5, <2>6, <2>7, <2>8, <2>10 DEF JourneyTypeOK
<1>9. ASSUME ReadAbandon(r) PROVE JourneyInv'
  <2> USE <1>9 DEF ReadAbandon
  <2>1. status # "NONE"
    BY DEF NoneIsQuiet
  <2>2. PICK st \in RunStates : Moves(r, st) /\ st.pc \notin {"create", "address"}
    <3>1. CASE status = "ABANDONED"
      <4>1. Moves(r, Idle) /\ Idle.pc \notin {"create", "address"}
        BY <1>1, <3>1 DEF Moves, Counting, AtStep, Writers
      <4>2. QED
        BY <1>1, <4>1
    <3>2. CASE status # "ABANDONED"
      <4> DEFINE now == To(r, "abandoning")
      <4>1. now \in RunStates
        BY <1>1 DEF RunStates, To, Phases
      <4>2. Moves(r, now) /\ now.pc \notin {"create", "address"}
        BY <1>1, <3>2 DEF RunStates, Moves, Counting, AtStep, Writers, FreshIsLive, To
      <4>3. QED
        BY <4>1, <4>2
    <3>3. QED
      BY <3>1, <3>2
  <2>3. RunsFit'
    BY <1>1, <2>1, <2>2, Moving DEF Counting, counters, enrollment, world
  <2>4. RowTypeOK'
    BY DEF JourneyTypeOK, RowTypeOK, JobStates, enrollment, counters, world, caps, Close
  <2>5. FlagTypeOK'
    BY DEF JourneyTypeOK, FlagTypeOK, enrollment, world, Becomes
  <2>6. SendTypeOK'
    BY DEF JourneyTypeOK, SendTypeOK, sends
  <2>7. CampaignsFit'
    BY <1>1, <2>2, CampaignsKept, Becoming DEF Moves
  <2>8. QED
    BY <2>3, <2>4, <2>5, <2>6, <2>7 DEF JourneyTypeOK, RunsFit
<1>10. \A eligible \in BOOLEAN : eligible = TRUE \/ eligible = FALSE
  OBVIOUS
<1>11. QED
  BY <1>2, <1>3, <1>4, <1>5, <1>6, <1>7, <1>8, <1>9, <1>10

LEMMA WorldSteps ==
    ASSUME JourneyInv,
           \/ TimePasses \/ \E k \in JobKeys : JobDue(k)
           \/ PauseEnrollments \/ PauseAutomation
           \/ ReadPaused \/ ResumeEnrollment \/ ActivateAutomation
    PROVE  JourneyInv'
<1> USE JourneyConstantsOK DEF JourneyInv, enrollment, counters, sends, world, caps
<1>1. CASE TimePasses \/ PauseAutomation \/ ReadPaused \/ ActivateAutomation
  <2> USE <1>1 DEF TimePasses, PauseAutomation, ReadPaused, ActivateAutomation
  <2>1. JourneyTypeOK'
    <3>1. admin' \in Admins
      <4>1. CASE TimePasses
        BY <4>1 DEF JourneyTypeOK, RowTypeOK
      <4>2. CASE PauseAutomation \/ ActivateAutomation
        <5>1. admin' = AdminIdle
          BY <4>2
        <5>2. AdminIdle \in Admins
          BY DEF Admins, AdminIdle
        <5>3. QED
          BY <5>1, <5>2
      <4>3. CASE ReadPaused
        <5>1. [AdminIdle EXCEPT !.pc = "resuming"] \in Admins
          BY DEF Admins, AdminIdle
        <5>2. (step # None /\ ~due) \in BOOLEAN /\ step \in Steps \cup {None}
          BY DEF JourneyTypeOK, RowTypeOK
        <5>3. [pc |-> "recovering", step |-> step, waits |-> step # None /\ ~due] \in Admins
          BY <5>2 DEF Admins
        <5>4. QED
          BY <4>3, <5>1, <5>3
      <4>4. QED
        BY <1>1, <4>1, <4>2, <4>3
    <3>2. RowTypeOK' /\ SendTypeOK' /\ run' \in [Runs -> RunStates]
      BY <3>1 DEF JourneyTypeOK, RowTypeOK, SendTypeOK
    <3>3. FlagTypeOK'
      BY DEF JourneyTypeOK, FlagTypeOK
    <3>4. QED
      BY <3>2, <3>3 DEF JourneyTypeOK
  <2>2. NoneIsQuiet' /\ RunsHaveSteps' /\ FreshIsLive' /\ CampaignsFit'
    BY DEF NoneIsQuiet, RunsHaveSteps, FreshIsLive, Live, CampaignsFit
  <2>3. CountersFit'
    BY DEF CountersFit, CountsFit, At, Live
  <2>4. QED
    BY <2>1, <2>2, <2>3
<1>2. ASSUME NEW k \in JobKeys, JobDue(k) PROVE JourneyInv'
  <2> USE <1>2 DEF JobDue
  <2>1. JourneyTypeOK'
    <3>1. RowTypeOK' /\ SendTypeOK' /\ run' \in [Runs -> RunStates]
      BY DEF JourneyTypeOK, RowTypeOK, SendTypeOK, JobStates
    <3>2. FlagTypeOK'
      BY DEF JourneyTypeOK, FlagTypeOK
    <3>3. QED
      BY <3>1, <3>2 DEF JourneyTypeOK
  <2>2. NoneIsQuiet' /\ RunsHaveSteps' /\ FreshIsLive' /\ CampaignsFit'
    BY DEF NoneIsQuiet, RunsHaveSteps, FreshIsLive, Live, CampaignsFit
  <2>3. CountersFit'
    BY DEF CountersFit, CountsFit, At, Live
  <2>4. QED
    BY <2>1, <2>2, <2>3
<1>3. ASSUME PauseEnrollments \/ ResumeEnrollment PROVE JourneyInv'
  <2>1. /\ run' \in [Runs -> RunStates]
        /\ \A q \in Runs : run'[q].pc = run[q].pc /\ run'[q].at = run[q].at /\ run'[q].found = run[q].found
        /\ Aside \/ UNCHANGED <<status, run>>
    <3>1. Aside \/ UNCHANGED <<status, run>>
      BY <1>3 DEF PauseEnrollments, ResumeEnrollment
    <3>2. CASE Aside
      BY <3>2 DEF Aside, JourneyTypeOK, RunStates
    <3>3. CASE UNCHANGED <<status, run>>
      BY <3>3 DEF JourneyTypeOK
    <3>4. QED
      BY <3>1, <3>2, <3>3
  <2>2. /\ status' = status \/ (Live /\ Live') \/ stale'
        /\ stale => stale'
        /\ status' # "NONE" \/ UNCHANGED <<status, job>>
    <3>1. CASE PauseEnrollments
      BY <3>1 DEF PauseEnrollments, Live
    <3>2. CASE ResumeEnrollment
      <4>1. status' \in {"WAITING", "ACTIVE"} /\ stale' = (stale \/ status # "PAUSED")
        BY <3>2 DEF ResumeEnrollment
      <4>2. QED
        BY <4>1 DEF Live
    <3>3. QED
      BY <1>3, <3>1, <3>2
  <2>3. RowTypeOK'
    <3>1. CASE PauseEnrollments
      <4>1. admin' \in Admins
        BY <3>1 DEF PauseEnrollments, Admins, AdminIdle
      <4>2. QED
        BY <3>1, <4>1 DEF PauseEnrollments, JourneyTypeOK, RowTypeOK, Statuses
    <3>2. CASE ResumeEnrollment
      <4>1. job' \in [JobKeys -> JobStates]
        BY <3>2 DEF ResumeEnrollment, JourneyTypeOK, RowTypeOK, JobStates
      <4>2. admin' \in Admins
        BY <3>2 DEF ResumeEnrollment, Admins, AdminIdle
      <4>3. QED
        BY <3>2, <4>1, <4>2 DEF ResumeEnrollment, JourneyTypeOK, RowTypeOK, Statuses
    <3>3. QED
      BY <1>3, <3>1, <3>2
  <2>4. FlagTypeOK'
    BY <1>3 DEF PauseEnrollments, ResumeEnrollment, JourneyTypeOK, FlagTypeOK
  <2>5. SendTypeOK'
    BY <1>3 DEF PauseEnrollments, ResumeEnrollment, JourneyTypeOK, SendTypeOK
  <2>6. NoneIsQuiet'
    BY <2>1, <2>2 DEF NoneIsQuiet, Live
  <2>7. RunsHaveSteps'
    BY <2>1 DEF RunsHaveSteps
  <2>8. FreshIsLive'
    <3>1. CASE Aside
      <4>1. \A q \in Runs : ~run'[q].fresh
        BY <3>1 DEF Aside, JourneyTypeOK, RunStates
      <4>2. QED
        BY <4>1 DEF FreshIsLive
    <3>2. CASE UNCHANGED <<status, run>>
      BY <3>2 DEF FreshIsLive, Live
    <3>3. QED
      BY <2>1, <3>1, <3>2
  <2>9. CampaignsFit'
    <3>1. UNCHANGED <<campaigns, blind>>
      BY <1>3 DEF PauseEnrollments, ResumeEnrollment
    <3>2. QED
      BY <2>1, <3>1 DEF CampaignsFit
  <2>10. CountersFit'
    <3>1. UNCHANGED <<nactive, ncompleted, nabandoned, torn>>
      BY <1>3 DEF PauseEnrollments, ResumeEnrollment
    <3>2. \A phase \in Counting : At(phase)' <=> At(phase)
      BY <2>1 DEF At
    <3>3. ASSUME CountsFit, ~stale' PROVE CountsFit'
      BY <2>1, <2>2, <3>1, <3>2, <3>3 DEF CountsFit, Counting, Live
    <3>4. QED
      BY <2>2, <3>1, <3>3 DEF CountersFit
  <2>11. QED
    BY <2>1, <2>3, <2>4, <2>5, <2>6, <2>7, <2>8, <2>9, <2>10 DEF JourneyTypeOK
<1>4. QED
  BY <1>1, <1>2, <1>3

LEMMA StepHolds == JourneyInv /\ [JourneyNext]_jvars => JourneyInv'
<1> SUFFICES ASSUME JourneyInv, [JourneyNext]_jvars PROVE JourneyInv'
  OBVIOUS
<1>1. CASE UNCHANGED jvars
  <2> USE <1>1 DEF JourneyInv, jvars, enrollment, counters, sends, world, caps
  <2>1. JourneyTypeOK'
    BY DEF JourneyTypeOK, RowTypeOK, FlagTypeOK, SendTypeOK
  <2>2. NoneIsQuiet' /\ RunsHaveSteps' /\ FreshIsLive' /\ CampaignsFit'
    BY DEF NoneIsQuiet, RunsHaveSteps, FreshIsLive, Live, CampaignsFit
  <2>3. CountersFit'
    BY DEF CountersFit, CountsFit, At, Live
  <2>4. QED
    BY <2>1, <2>2, <2>3
<1>2. ASSUME NEW r \in Runs,
             \/ \E eligible \in BOOLEAN : Enroll(r, eligible)
             \/ Sweep(r) \/ Notice(r)
             \/ \E k \in JobKeys : TakeJob(r, k)
             \/ RunStep(r) \/ RunFails(r)
      PROVE  JourneyInv'
  BY <1>2, QuietSteps, WritingSteps, SendingSteps, CountingSteps DEF RunStep
<1>3. CASE \/ TimePasses \/ \E k \in JobKeys : JobDue(k)
           \/ PauseEnrollments \/ PauseAutomation
           \/ ReadPaused \/ ResumeEnrollment \/ ActivateAutomation
  BY <1>3, WorldSteps
<1>4. QED
  BY <1>1, <1>2, <1>3 DEF JourneyNext

-----------------------------------------------------------------------------
(* Runs, campaigns and counters fit the enrollment in every state.          *)
THEOREM InvariantHolds == JourneySpec => []JourneyInv
BY InitHolds, StepHolds, PTL DEF JourneySpec

(* The enrollment, the jobs, the campaigns and the runs keep their types.   *)
THEOREM JourneyTypesHold == JourneySpec => []JourneyTypeOK
BY InvariantHolds, PTL DEF JourneyInv

(* A step sends its email once, however often it is executed, unless two    *)
(* runs looked for its campaign before either had created it.               *)
THEOREM EmailsSentOnce == JourneySpec => []SentOnce
<1>1. JourneyInv => SentOnce
  <2> SUFFICES ASSUME JourneyInv, NEW s \in Steps \ blind
               PROVE  Cardinality(recipients[s]) <= 1
    BY DEF SentOnce
  <2>1. recipients[s] \subseteq 1..campaigns[s] /\ campaigns[s] \in Nat /\ campaigns[s] <= 1
    BY DEF JourneyInv, JourneyTypeOK, SendTypeOK, CampaignsFit
  <2>2. recipients[s] = {} \/ recipients[s] = {1}
    BY <2>1
  <2>3. Cardinality(recipients[s]) \in {0, 1}
    BY <2>2, FS_EmptySet, FS_Singleton
  <2>4. QED
    BY <2>3
<1>2. QED
  BY <1>1, InvariantHolds, PTL

(* The automation's counters agree with the enrollment between the runs     *)
(* that write both, unless one failed there or wrote on an earlier read.    *)
THEOREM EnrollmentsAreCounted == JourneySpec => []CountersAgree
<1>1. JourneyInv => CountersAgree
  <2> SUFFICES ASSUME JourneyInv, CountsFit, Between = {} PROVE CountersAgree
    BY DEF JourneyInv, CountersFit, CountersAgree
  <2>1. ~At("countEnrolled") /\ ~At("countCompleted") /\ ~At("countAbandoned")
    BY DEF At, Between
  <2>2. QED
    BY <2>1 DEF CountsFit, CountersAgree, Live, Ended, JourneyInv, JourneyTypeOK, RowTypeOK,
           Statuses
<1>2. QED
  BY <1>1, InvariantHolds, PTL

(* A journey that has ended stays as it is, but for writes on an earlier    *)
(* read.                                                                    *)
THEOREM EndsAreFinal == JourneySpec => EndStands
<1> DEFINE Stands == Ended => stale' \/ (status' = status /\ step' = step)
<1>1. JourneyInv /\ [JourneyNext]_jvars => [Stands]_jvars
  <2> SUFFICES ASSUME JourneyInv, JourneyNext, Ended PROVE stale' \/ (status' = status /\ step' = step)
    OBVIOUS
  <2> USE DEF JourneyInv, Ended
  <2>1. ~Live /\ status # "NONE" /\ run \in [Runs -> RunStates]
    BY DEF Live, JourneyTypeOK
  <2>2. ASSUME NEW r \in Runs, NEW st, Writes(r, st), run[r].pc \in Writers PROVE stale'
    BY <2>1, <2>2 DEF Writes, FreshIsLive
  <2>3. ASSUME NEW r \in Runs,
               \/ \E eligible \in BOOLEAN : Enroll(r, eligible)
               \/ Sweep(r) \/ Notice(r) \/ RunFails(r)
               \/ \E k \in JobKeys : TakeJob(r, k)
        PROVE  status' = status /\ step' = step
    BY <2>1, <2>3 DEF Enroll, Sweep, Notice, RunFails, TakeJob, enrollment
  <2>4. ASSUME NEW r \in Runs,
               \/ Match(r) \/ Advance(r) \/ Delay(r) \/ Wait(r) \/ Expire(r) \/ Complete(r) \/ Abandon(r)
               \/ \E s \in Steps : Branch(r, s)
        PROVE  stale' \/ (status' = status /\ step' = step)
    BY <2>2, <2>4 DEF Match, Advance, Delay, Wait, Expire, Complete, Abandon, Branch, AtA,
           Writers, enrollment
  <2>5. ASSUME NEW r \in Runs,
               \/ CountEnrolled(r) \/ \E eligible \in BOOLEAN : Load(r, eligible)
               \/ FindCampaign(r) \/ CreateCampaign(r) \/ Address(r)
               \/ ScheduleNext(r) \/ ScheduleTimeout(r)
               \/ CountCompleted(r) \/ ReadTimeout(r) \/ ReadAbandon(r) \/ CountAbandoned(r)
        PROVE  status' = status /\ step' = step
    BY <2>5 DEF CountEnrolled, Load, FindCampaign, CreateCampaign, Address, ScheduleNext,
           ScheduleTimeout, CountCompleted, ReadTimeout, ReadAbandon, CountAbandoned, enrollment
  <2>6. CASE \/ TimePasses \/ \E k \in JobKeys : JobDue(k)
             \/ PauseEnrollments \/ PauseAutomation
             \/ ReadPaused \/ ResumeEnrollment \/ ActivateAutomation
    BY <2>6 DEF TimePasses, JobDue, PauseEnrollments, PauseAutomation, ReadPaused, ResumeEnrollment,
           ActivateAutomation, enrollment
  <2>7. QED
    BY <2>3, <2>4, <2>5, <2>6 DEF JourneyNext, RunStep
<1>2. QED
  BY <1>1, InvariantHolds, PTL DEF JourneySpec, EndStands
=============================================================================
