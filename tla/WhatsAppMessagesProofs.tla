------------------------ MODULE WhatsAppMessagesProofs ------------------------
(***************************************************************************)
(* Proofs about WhatsAppMessages: types, and that a message is accepted at *)
(* most once, by at most MaxSends calls, and that what is told of it is    *)
(* true, for any number of requests, invocations, reports and faults; and  *)
(* that a message which waits has a job, since the job's count of attempts *)
(* runs ahead of the message's by no more than one attempt per fault.      *)
(***************************************************************************)
EXTENDS WhatsAppMessages, FiniteSetTheorems, TLAPS

(* The phases of an attempt that has set its in-flight marker.              *)
InCall == {"calling", "accepted", "transient", "rejected"}

(* Who is in an attempt has the lock, with the marker from its call on, and *)
(* a message in status QUEUED.                                              *)
AttemptsLock ==
    \A a \in Actors :
        /\ pc[a] \in InCall => mstatus = "QUEUED" /\ owner = a /\ inflight
        /\ pc[a] = "claimed" => mstatus = "QUEUED" /\ owner = a /\ ~inflight

(* One invocation at a time has the job, and there is a job only when the   *)
(* first attempt is over.                                                   *)
JobInHand ==
    /\ holder # Null <=> job = "PROCESSING"
    /\ \A w \in Workers : pc[w] # "idle" => holder = w
    /\ job # "none" => mstatus # "NONE" /\ \A r \in Requests : pc[r] \notin InCall

(* What is stored is the id of an accepted call; until then the message is  *)
(* QUEUED, and no report finds it.                                          *)
StoredIsAccepted ==
    /\ stored = 0 \/ stored \in accepted
    /\ mstatus \in {"NONE", "QUEUED"} => stored = 0
    /\ \A k \in Reports : hook[k] \in {"apply", "tell"} => stored # 0
    /\ \A a \in Actors : pc[a] = "accepted" => call[a] \in accepted

(* An accepted call leaves a marker behind that only its attempt, or the    *)
(* reconciliation of a dead one, removes - and then the message is closed.  *)
AcceptedIsMarked ==
    /\ mstatus = "NONE" => accepted = {}
    /\ unclear \/ accepted = {} \/ \E c \in accepted : accepted = {c}
    /\ ~unclear /\ accepted # {} /\ mstatus = "QUEUED" =>
          inflight /\ owner # Null /\ pc[owner] \notin {"calling", "transient"}

(* attemptCount: what a worker read, and counted, is what the row has.      *)
AttemptsCounted ==
    /\ \A r \in Requests : pc[r] \in InCall => attempts = 1
    /\ \A w \in Workers :
          /\ pc[w] = "loaded" => read[w] = attempts
          /\ pc[w] \in InCall \cup {"claimed"} => read[w] + 1 = attempts

(* A message that may be called for again has been called for fewer than    *)
(* MaxSends times.                                                          *)
CallsLeft ==
    /\ mstatus = "NONE" => calls = 0
    /\ calls <= attempts /\ calls <= MaxSends
    /\ mstatus = "QUEUED" /\ (~inflight \/ pc[owner] = "calling") =>
          calls < MaxSends /\ (owner # Null /\ pc[owner] \in {"calling", "claimed"} => calls < attempts)

(* The outgoing webhook is the last thing its attempt does, and no other    *)
(* attempt follows.                                                         *)
ToldLast ==
    /\ mstatus \in {"NONE", "QUEUED"} => told = {} /\ \A a \in Actors : pc[a] # "tell"
    /\ \A a, b \in Actors : pc[a] = "tell" /\ pc[b] = "tell" => a = b
    /\ \A a \in Actors : pc[a] = "tell" => told = {}
    /\ \A w \in Workers :
          /\ pc[w] \in {"transient", "rejected"} => call[w] = 0
          /\ pc[w] = "tell" => call[w] = 0 \/ stored = call[w]
    /\ told \in {{}, {"sent"}, {"failed"}}
    /\ "sent" \in told => stored \in accepted

MessageInv ==
    /\ MessageTypeOK /\ AttemptsLock /\ JobInHand /\ StoredIsAccepted /\ AcceptedIsMarked
    /\ AttemptsCounted /\ CallsLeft /\ ToldLast

LEMMA InitHolds == MessageInit => MessageInv
<1> SUFFICES ASSUME MessageInit PROVE MessageInv
  OBVIOUS
<1> USE WhatsAppConstantsOK DEF MessageInit
<1>1. MessageTypeOK
  <2>1. RowTypeOK
    BY DEF RowTypeOK, MessageStatuses, Actors
  <2>2. LocalTypeOK
    BY DEF LocalTypeOK, MessageStatuses, RequestPhases, WorkerPhases, HookPhases, Actors
  <2>3. HistoryTypeOK
    BY DEF HistoryTypeOK
  <2>4. FlagTypeOK
    BY DEF FlagTypeOK
  <2>5. QED
    BY <2>1, <2>2, <2>3, <2>4 DEF MessageTypeOK
<1>2. AttemptsLock /\ JobInHand
  BY DEF AttemptsLock, JobInHand, InCall, Actors
<1>3. StoredIsAccepted /\ AcceptedIsMarked
  BY DEF StoredIsAccepted, AcceptedIsMarked, Actors
<1>4. AttemptsCounted /\ CallsLeft /\ ToldLast
  BY DEF AttemptsCounted, CallsLeft, ToldLast, InCall, Actors
<1>5. QED
  BY <1>1, <1>2, <1>3, <1>4 DEF MessageInv
-----------------------------------------------------------------------------
(* One step of each actor keeps the invariant.                              *)

LEMMA RequestSteps ==
    ASSUME MessageInv, NEW r \in Requests,
           \/ Look(r) \/ RequestStep(r)
           \/ RecordSentFails(r) \/ ScheduleFails(r) \/ RequestDies(r)
    PROVE  MessageInv'
<1> USE WhatsAppConstantsOK DEF MessageInv
<1>1. CASE Look(r)
  <2> USE <1>1 DEF Look, Goto, message, jobs, locals, hooks, sendhist
  <2>1. RowTypeOK'
    BY DEF MessageTypeOK, RowTypeOK, LocalTypeOK, HistoryTypeOK, MessageStatuses,
           RequestPhases, WorkerPhases, HookPhases, ReportKinds, Actors
  <2>2. LocalTypeOK'
    BY DEF MessageTypeOK, RowTypeOK, LocalTypeOK, HistoryTypeOK, MessageStatuses,
           RequestPhases, WorkerPhases, HookPhases, ReportKinds, Actors
  <2>3. HistoryTypeOK'
    BY DEF MessageTypeOK, RowTypeOK, LocalTypeOK, HistoryTypeOK
  <2>4. FlagTypeOK'
    BY DEF MessageTypeOK, FlagTypeOK
  <2>5. AttemptsLock'
    BY DEF AttemptsLock, MessageTypeOK, RowTypeOK, LocalTypeOK, HistoryTypeOK, Actors,
           InCall
  <2>6. JobInHand'
    BY DEF JobInHand, AttemptsLock, MessageTypeOK, RowTypeOK, LocalTypeOK, HistoryTypeOK,
           Actors, InCall
  <2>7. StoredIsAccepted'
    BY DEF StoredIsAccepted, AttemptsLock, MessageTypeOK, RowTypeOK, LocalTypeOK,
           HistoryTypeOK, Actors, InCall
  <2>8. AcceptedIsMarked'
    BY DEF AcceptedIsMarked, AttemptsLock, MessageTypeOK, RowTypeOK, LocalTypeOK,
           HistoryTypeOK, Actors, InCall
  <2>9. AttemptsCounted'
    BY DEF AttemptsCounted, AttemptsLock, JobInHand, MessageTypeOK, RowTypeOK, LocalTypeOK,
           HistoryTypeOK, Actors, InCall
  <2>10. CallsLeft'
    BY DEF CallsLeft, AttemptsLock, AttemptsCounted, JobInHand, MessageTypeOK, RowTypeOK,
           LocalTypeOK, HistoryTypeOK, Actors, InCall
  <2>11. ToldLast'
    BY DEF ToldLast, AttemptsLock, StoredIsAccepted, MessageTypeOK, RowTypeOK, LocalTypeOK,
           HistoryTypeOK, Actors, InCall
  <2>12. QED
    BY <2>1, <2>2, <2>3, <2>4, <2>5, <2>6, <2>7, <2>8, <2>9, <2>10, <2>11 DEF MessageTypeOK
<1>2. CASE Create(r)
  <2> USE <1>2 DEF Create, Goto, message, jobs, locals, hooks, sendhist
  <2>1. RowTypeOK'
    BY DEF MessageTypeOK, RowTypeOK, LocalTypeOK, HistoryTypeOK, MessageStatuses,
           RequestPhases, WorkerPhases, HookPhases, ReportKinds, Actors
  <2>2. LocalTypeOK'
    BY DEF MessageTypeOK, RowTypeOK, LocalTypeOK, HistoryTypeOK, MessageStatuses,
           RequestPhases, WorkerPhases, HookPhases, ReportKinds, Actors
  <2>3. HistoryTypeOK'
    BY DEF MessageTypeOK, RowTypeOK, LocalTypeOK, HistoryTypeOK
  <2>4. FlagTypeOK'
    BY DEF MessageTypeOK, FlagTypeOK
  <2>5. AttemptsLock'
    BY DEF AttemptsLock, MessageTypeOK, RowTypeOK, LocalTypeOK, HistoryTypeOK, Actors,
           InCall
  <2>6. JobInHand'
    BY DEF JobInHand, AttemptsLock, MessageTypeOK, RowTypeOK, LocalTypeOK, HistoryTypeOK,
           Actors, InCall
  <2>7. StoredIsAccepted'
    BY DEF StoredIsAccepted, AttemptsLock, MessageTypeOK, RowTypeOK, LocalTypeOK,
           HistoryTypeOK, Actors, InCall
  <2>8. AcceptedIsMarked'
    BY DEF AcceptedIsMarked, AttemptsLock, MessageTypeOK, RowTypeOK, LocalTypeOK,
           HistoryTypeOK, Actors, InCall
  <2>9. AttemptsCounted'
    BY DEF AttemptsCounted, AttemptsLock, JobInHand, MessageTypeOK, RowTypeOK, LocalTypeOK,
           HistoryTypeOK, Actors, InCall
  <2>10. CallsLeft'
    BY DEF CallsLeft, AttemptsLock, AttemptsCounted, JobInHand, MessageTypeOK, RowTypeOK,
           LocalTypeOK, HistoryTypeOK, Actors, InCall
  <2>11. ToldLast'
    BY DEF ToldLast, AttemptsLock, StoredIsAccepted, MessageTypeOK, RowTypeOK, LocalTypeOK,
           HistoryTypeOK, Actors, InCall
  <2>12. QED
    BY <2>1, <2>2, <2>3, <2>4, <2>5, <2>6, <2>7, <2>8, <2>9, <2>10, <2>11 DEF MessageTypeOK
<1>3. CASE RecordSent(r)
  <2> USE <1>3 DEF RecordSent, Goto, message, jobs, locals, hooks, sendhist, Unlock
  <2>1. RowTypeOK'
    BY DEF MessageTypeOK, RowTypeOK, LocalTypeOK, HistoryTypeOK, MessageStatuses,
           RequestPhases, WorkerPhases, HookPhases, ReportKinds, Actors
  <2>2. LocalTypeOK'
    BY DEF MessageTypeOK, RowTypeOK, LocalTypeOK, HistoryTypeOK, MessageStatuses,
           RequestPhases, WorkerPhases, HookPhases, ReportKinds, Actors
  <2>3. HistoryTypeOK'
    BY DEF MessageTypeOK, RowTypeOK, LocalTypeOK, HistoryTypeOK
  <2>4. FlagTypeOK'
    BY DEF MessageTypeOK, FlagTypeOK
  <2>5. AttemptsLock'
    BY DEF AttemptsLock, MessageTypeOK, RowTypeOK, LocalTypeOK, HistoryTypeOK, Actors,
           InCall
  <2>6. JobInHand'
    BY DEF JobInHand, AttemptsLock, MessageTypeOK, RowTypeOK, LocalTypeOK, HistoryTypeOK,
           Actors, InCall
  <2>7. StoredIsAccepted'
    BY DEF StoredIsAccepted, AttemptsLock, MessageTypeOK, RowTypeOK, LocalTypeOK,
           HistoryTypeOK, Actors, InCall
  <2>8. AcceptedIsMarked'
    BY DEF AcceptedIsMarked, AttemptsLock, MessageTypeOK, RowTypeOK, LocalTypeOK,
           HistoryTypeOK, Actors, InCall
  <2>9. AttemptsCounted'
    BY DEF AttemptsCounted, AttemptsLock, JobInHand, MessageTypeOK, RowTypeOK, LocalTypeOK,
           HistoryTypeOK, Actors, InCall
  <2>10. CallsLeft'
    BY DEF CallsLeft, AttemptsLock, AttemptsCounted, JobInHand, MessageTypeOK, RowTypeOK,
           LocalTypeOK, HistoryTypeOK, Actors, InCall
  <2>11. ToldLast'
    BY DEF ToldLast, AttemptsLock, StoredIsAccepted, MessageTypeOK, RowTypeOK, LocalTypeOK,
           HistoryTypeOK, Actors, InCall
  <2>12. QED
    BY <2>1, <2>2, <2>3, <2>4, <2>5, <2>6, <2>7, <2>8, <2>9, <2>10, <2>11 DEF MessageTypeOK
<1>4. CASE RecordSentFails(r)
  <2> USE <1>4 DEF RecordSentFails, Goto, message, jobs, locals, hooks, sendhist, FaultOf, Fault
  <2>1. RowTypeOK'
    BY DEF MessageTypeOK, RowTypeOK, LocalTypeOK, HistoryTypeOK, MessageStatuses,
           RequestPhases, WorkerPhases, HookPhases, ReportKinds, Actors
  <2>2. LocalTypeOK'
    BY DEF MessageTypeOK, RowTypeOK, LocalTypeOK, HistoryTypeOK, MessageStatuses,
           RequestPhases, WorkerPhases, HookPhases, ReportKinds, Actors
  <2>3. HistoryTypeOK'
    BY DEF MessageTypeOK, RowTypeOK, LocalTypeOK, HistoryTypeOK
  <2>4. FlagTypeOK'
    BY DEF MessageTypeOK, FlagTypeOK
  <2>5. AttemptsLock'
    BY DEF AttemptsLock, MessageTypeOK, RowTypeOK, LocalTypeOK, HistoryTypeOK, Actors,
           InCall
  <2>6. JobInHand'
    BY DEF JobInHand, AttemptsLock, MessageTypeOK, RowTypeOK, LocalTypeOK, HistoryTypeOK,
           Actors, InCall
  <2>7. StoredIsAccepted'
    BY DEF StoredIsAccepted, AttemptsLock, MessageTypeOK, RowTypeOK, LocalTypeOK,
           HistoryTypeOK, Actors, InCall
  <2>8. AcceptedIsMarked'
    BY DEF AcceptedIsMarked, AttemptsLock, MessageTypeOK, RowTypeOK, LocalTypeOK,
           HistoryTypeOK, Actors, InCall
  <2>9. AttemptsCounted'
    BY DEF AttemptsCounted, AttemptsLock, JobInHand, MessageTypeOK, RowTypeOK, LocalTypeOK,
           HistoryTypeOK, Actors, InCall
  <2>10. CallsLeft'
    BY DEF CallsLeft, AttemptsLock, AttemptsCounted, JobInHand, MessageTypeOK, RowTypeOK,
           LocalTypeOK, HistoryTypeOK, Actors, InCall
  <2>11. ToldLast'
    BY DEF ToldLast, AttemptsLock, StoredIsAccepted, MessageTypeOK, RowTypeOK, LocalTypeOK,
           HistoryTypeOK, Actors, InCall
  <2>12. QED
    BY <2>1, <2>2, <2>3, <2>4, <2>5, <2>6, <2>7, <2>8, <2>9, <2>10, <2>11 DEF MessageTypeOK
<1>5. CASE Schedule(r)
  <2> USE <1>5 DEF Schedule, Goto, message, jobs, locals, hooks, sendhist, Unlock
  <2>1. RowTypeOK'
    BY DEF MessageTypeOK, RowTypeOK, LocalTypeOK, HistoryTypeOK, MessageStatuses,
           RequestPhases, WorkerPhases, HookPhases, ReportKinds, Actors, JobInHand, InCall
  <2>2. LocalTypeOK'
    BY DEF MessageTypeOK, RowTypeOK, LocalTypeOK, HistoryTypeOK, MessageStatuses,
           RequestPhases, WorkerPhases, HookPhases, ReportKinds, Actors
  <2>3. HistoryTypeOK'
    BY DEF MessageTypeOK, RowTypeOK, LocalTypeOK, HistoryTypeOK
  <2>4. FlagTypeOK'
    BY DEF MessageTypeOK, FlagTypeOK
  <2>5. AttemptsLock'
    BY DEF AttemptsLock, MessageTypeOK, RowTypeOK, LocalTypeOK, HistoryTypeOK, Actors,
           InCall
  <2>6. JobInHand'
    BY DEF JobInHand, AttemptsLock, MessageTypeOK, RowTypeOK, LocalTypeOK, HistoryTypeOK,
           Actors, InCall
  <2>7. StoredIsAccepted'
    BY DEF StoredIsAccepted, AttemptsLock, MessageTypeOK, RowTypeOK, LocalTypeOK,
           HistoryTypeOK, Actors, InCall
  <2>8. AcceptedIsMarked'
    BY DEF AcceptedIsMarked, AttemptsLock, MessageTypeOK, RowTypeOK, LocalTypeOK,
           HistoryTypeOK, Actors, InCall
  <2>9. AttemptsCounted'
    BY DEF AttemptsCounted, AttemptsLock, JobInHand, MessageTypeOK, RowTypeOK, LocalTypeOK,
           HistoryTypeOK, Actors, InCall
  <2>10. CallsLeft'
    BY DEF CallsLeft, AttemptsLock, AttemptsCounted, JobInHand, MessageTypeOK, RowTypeOK,
           LocalTypeOK, HistoryTypeOK, Actors, InCall
  <2>11. ToldLast'
    BY DEF ToldLast, AttemptsLock, StoredIsAccepted, MessageTypeOK, RowTypeOK, LocalTypeOK,
           HistoryTypeOK, Actors, InCall
  <2>12. QED
    BY <2>1, <2>2, <2>3, <2>4, <2>5, <2>6, <2>7, <2>8, <2>9, <2>10, <2>11 DEF MessageTypeOK
<1>6. CASE ScheduleFails(r)
  <2> USE <1>6 DEF ScheduleFails, Goto, message, jobs, locals, hooks, sendhist, FaultOf, Fault
  <2>1. RowTypeOK'
    BY DEF MessageTypeOK, RowTypeOK, LocalTypeOK, HistoryTypeOK, MessageStatuses,
           RequestPhases, WorkerPhases, HookPhases, ReportKinds, Actors
  <2>2. LocalTypeOK'
    BY DEF MessageTypeOK, RowTypeOK, LocalTypeOK, HistoryTypeOK, MessageStatuses,
           RequestPhases, WorkerPhases, HookPhases, ReportKinds, Actors
  <2>3. HistoryTypeOK'
    BY DEF MessageTypeOK, RowTypeOK, LocalTypeOK, HistoryTypeOK
  <2>4. FlagTypeOK'
    BY DEF MessageTypeOK, FlagTypeOK
  <2>5. AttemptsLock'
    BY DEF AttemptsLock, MessageTypeOK, RowTypeOK, LocalTypeOK, HistoryTypeOK, Actors,
           InCall
  <2>6. JobInHand'
    BY DEF JobInHand, AttemptsLock, MessageTypeOK, RowTypeOK, LocalTypeOK, HistoryTypeOK,
           Actors, InCall
  <2>7. StoredIsAccepted'
    BY DEF StoredIsAccepted, AttemptsLock, MessageTypeOK, RowTypeOK, LocalTypeOK,
           HistoryTypeOK, Actors, InCall
  <2>8. AcceptedIsMarked'
    BY DEF AcceptedIsMarked, AttemptsLock, MessageTypeOK, RowTypeOK, LocalTypeOK,
           HistoryTypeOK, Actors, InCall
  <2>9. AttemptsCounted'
    BY DEF AttemptsCounted, AttemptsLock, JobInHand, MessageTypeOK, RowTypeOK, LocalTypeOK,
           HistoryTypeOK, Actors, InCall
  <2>10. CallsLeft'
    BY DEF CallsLeft, AttemptsLock, AttemptsCounted, JobInHand, MessageTypeOK, RowTypeOK,
           LocalTypeOK, HistoryTypeOK, Actors, InCall
  <2>11. ToldLast'
    BY DEF ToldLast, AttemptsLock, StoredIsAccepted, MessageTypeOK, RowTypeOK, LocalTypeOK,
           HistoryTypeOK, Actors, InCall
  <2>12. QED
    BY <2>1, <2>2, <2>3, <2>4, <2>5, <2>6, <2>7, <2>8, <2>9, <2>10, <2>11 DEF MessageTypeOK
<1>7. CASE RecordFailed(r)
  <2> USE <1>7 DEF RecordFailed, Goto, message, jobs, locals, hooks, sendhist, Unlock
  <2>1. RowTypeOK'
    BY DEF MessageTypeOK, RowTypeOK, LocalTypeOK, HistoryTypeOK, MessageStatuses,
           RequestPhases, WorkerPhases, HookPhases, ReportKinds, Actors
  <2>2. LocalTypeOK'
    BY DEF MessageTypeOK, RowTypeOK, LocalTypeOK, HistoryTypeOK, MessageStatuses,
           RequestPhases, WorkerPhases, HookPhases, ReportKinds, Actors
  <2>3. HistoryTypeOK'
    BY DEF MessageTypeOK, RowTypeOK, LocalTypeOK, HistoryTypeOK
  <2>4. FlagTypeOK'
    BY DEF MessageTypeOK, FlagTypeOK
  <2>5. AttemptsLock'
    BY DEF AttemptsLock, MessageTypeOK, RowTypeOK, LocalTypeOK, HistoryTypeOK, Actors,
           InCall
  <2>6. JobInHand'
    BY DEF JobInHand, AttemptsLock, MessageTypeOK, RowTypeOK, LocalTypeOK, HistoryTypeOK,
           Actors, InCall
  <2>7. StoredIsAccepted'
    BY DEF StoredIsAccepted, AttemptsLock, MessageTypeOK, RowTypeOK, LocalTypeOK,
           HistoryTypeOK, Actors, InCall
  <2>8. AcceptedIsMarked'
    BY DEF AcceptedIsMarked, AttemptsLock, MessageTypeOK, RowTypeOK, LocalTypeOK,
           HistoryTypeOK, Actors, InCall
  <2>9. AttemptsCounted'
    BY DEF AttemptsCounted, AttemptsLock, JobInHand, MessageTypeOK, RowTypeOK, LocalTypeOK,
           HistoryTypeOK, Actors, InCall
  <2>10. CallsLeft'
    BY DEF CallsLeft, AttemptsLock, AttemptsCounted, JobInHand, MessageTypeOK, RowTypeOK,
           LocalTypeOK, HistoryTypeOK, Actors, InCall
  <2>11. ToldLast'
    BY DEF ToldLast, AttemptsLock, StoredIsAccepted, MessageTypeOK, RowTypeOK, LocalTypeOK,
           HistoryTypeOK, Actors, InCall
  <2>12. QED
    BY <2>1, <2>2, <2>3, <2>4, <2>5, <2>6, <2>7, <2>8, <2>9, <2>10, <2>11 DEF MessageTypeOK
<1>8. CASE Tell(r)
  <2> USE <1>8 DEF Tell, Goto, message, jobs, locals, hooks, sendhist
  <2>1. RowTypeOK'
    BY DEF MessageTypeOK, RowTypeOK, LocalTypeOK, HistoryTypeOK, MessageStatuses,
           RequestPhases, WorkerPhases, HookPhases, ReportKinds, Actors
  <2>2. LocalTypeOK'
    BY DEF MessageTypeOK, RowTypeOK, LocalTypeOK, HistoryTypeOK, MessageStatuses,
           RequestPhases, WorkerPhases, HookPhases, ReportKinds, Actors
  <2>3. HistoryTypeOK'
    BY DEF MessageTypeOK, RowTypeOK, LocalTypeOK, HistoryTypeOK
  <2>4. FlagTypeOK'
    BY DEF MessageTypeOK, FlagTypeOK
  <2>5. AttemptsLock'
    BY DEF AttemptsLock, MessageTypeOK, RowTypeOK, LocalTypeOK, HistoryTypeOK, Actors,
           InCall
  <2>6. JobInHand'
    BY DEF JobInHand, AttemptsLock, MessageTypeOK, RowTypeOK, LocalTypeOK, HistoryTypeOK,
           Actors, InCall
  <2>7. StoredIsAccepted'
    BY DEF StoredIsAccepted, AttemptsLock, MessageTypeOK, RowTypeOK, LocalTypeOK,
           HistoryTypeOK, Actors, InCall
  <2>8. AcceptedIsMarked'
    BY DEF AcceptedIsMarked, AttemptsLock, MessageTypeOK, RowTypeOK, LocalTypeOK,
           HistoryTypeOK, Actors, InCall
  <2>9. AttemptsCounted'
    BY DEF AttemptsCounted, AttemptsLock, JobInHand, MessageTypeOK, RowTypeOK, LocalTypeOK,
           HistoryTypeOK, Actors, InCall
  <2>10. CallsLeft'
    BY DEF CallsLeft, AttemptsLock, AttemptsCounted, JobInHand, MessageTypeOK, RowTypeOK,
           LocalTypeOK, HistoryTypeOK, Actors, InCall
  <2>11. ToldLast'
    BY DEF ToldLast, AttemptsLock, StoredIsAccepted, MessageTypeOK, RowTypeOK, LocalTypeOK,
           HistoryTypeOK, Actors, InCall
  <2>12. QED
    BY <2>1, <2>2, <2>3, <2>4, <2>5, <2>6, <2>7, <2>8, <2>9, <2>10, <2>11 DEF MessageTypeOK
<1>9. CASE RequestDies(r)
  <2> USE <1>9 DEF RequestDies, Goto, message, jobs, locals, hooks, sendhist, FaultOf, Fault
  <2>1. RowTypeOK'
    BY DEF MessageTypeOK, RowTypeOK, LocalTypeOK, HistoryTypeOK, MessageStatuses,
           RequestPhases, WorkerPhases, HookPhases, ReportKinds, Actors
  <2>2. LocalTypeOK'
    BY DEF MessageTypeOK, RowTypeOK, LocalTypeOK, HistoryTypeOK, MessageStatuses,
           RequestPhases, WorkerPhases, HookPhases, ReportKinds, Actors
  <2>3. HistoryTypeOK'
    BY DEF MessageTypeOK, RowTypeOK, LocalTypeOK, HistoryTypeOK
  <2>4. FlagTypeOK'
    BY DEF MessageTypeOK, FlagTypeOK
  <2>5. AttemptsLock'
    BY DEF AttemptsLock, MessageTypeOK, RowTypeOK, LocalTypeOK, HistoryTypeOK, Actors,
           InCall
  <2>6. JobInHand'
    BY DEF JobInHand, AttemptsLock, MessageTypeOK, RowTypeOK, LocalTypeOK, HistoryTypeOK,
           Actors, InCall
  <2>7. StoredIsAccepted'
    BY DEF StoredIsAccepted, AttemptsLock, MessageTypeOK, RowTypeOK, LocalTypeOK,
           HistoryTypeOK, Actors, InCall
  <2>8. AcceptedIsMarked'
    BY DEF AcceptedIsMarked, AttemptsLock, MessageTypeOK, RowTypeOK, LocalTypeOK,
           HistoryTypeOK, Actors, InCall
  <2>9. AttemptsCounted'
    BY DEF AttemptsCounted, AttemptsLock, JobInHand, MessageTypeOK, RowTypeOK, LocalTypeOK,
           HistoryTypeOK, Actors, InCall
  <2>10. CallsLeft'
    BY DEF CallsLeft, AttemptsLock, AttemptsCounted, JobInHand, MessageTypeOK, RowTypeOK,
           LocalTypeOK, HistoryTypeOK, Actors, InCall
  <2>11. ToldLast'
    BY DEF ToldLast, AttemptsLock, StoredIsAccepted, MessageTypeOK, RowTypeOK, LocalTypeOK,
           HistoryTypeOK, Actors, InCall
  <2>12. QED
    BY <2>1, <2>2, <2>3, <2>4, <2>5, <2>6, <2>7, <2>8, <2>9, <2>10, <2>11 DEF MessageTypeOK
<1>10. QED
  BY <1>1, <1>2, <1>3, <1>4, <1>5, <1>6, <1>7, <1>8, <1>9 DEF RequestStep

LEMMA WorkerSteps ==
    ASSUME MessageInv, NEW w \in Workers,
           StartJob(w) \/ WorkerStep(w) \/ SentFails(w) \/ WorkerFails(w) \/ WorkerDies(w)
    PROVE  MessageInv'
<1> USE WhatsAppConstantsOK DEF MessageInv
<1>1. CASE StartJob(w)
  <2> USE <1>1 DEF StartJob, Goto, message, jobs, locals, hooks, sendhist
  <2>1. RowTypeOK'
    BY DEF MessageTypeOK, RowTypeOK, LocalTypeOK, HistoryTypeOK, MessageStatuses,
           RequestPhases, WorkerPhases, HookPhases, ReportKinds, Actors
  <2>2. LocalTypeOK'
    BY DEF MessageTypeOK, RowTypeOK, LocalTypeOK, HistoryTypeOK, MessageStatuses,
           RequestPhases, WorkerPhases, HookPhases, ReportKinds, Actors
  <2>3. HistoryTypeOK'
    BY DEF MessageTypeOK, RowTypeOK, LocalTypeOK, HistoryTypeOK
  <2>4. FlagTypeOK'
    BY DEF MessageTypeOK, FlagTypeOK
  <2>5. AttemptsLock'
    BY DEF AttemptsLock, MessageTypeOK, RowTypeOK, LocalTypeOK, HistoryTypeOK, Actors,
           InCall
  <2>6. JobInHand'
    BY DEF JobInHand, AttemptsLock, MessageTypeOK, RowTypeOK, LocalTypeOK, HistoryTypeOK,
           Actors, InCall
  <2>7. StoredIsAccepted'
    BY DEF StoredIsAccepted, AttemptsLock, MessageTypeOK, RowTypeOK, LocalTypeOK,
           HistoryTypeOK, Actors, InCall
  <2>8. AcceptedIsMarked'
    BY DEF AcceptedIsMarked, AttemptsLock, MessageTypeOK, RowTypeOK, LocalTypeOK,
           HistoryTypeOK, Actors, InCall
  <2>9. AttemptsCounted'
    BY DEF AttemptsCounted, AttemptsLock, JobInHand, MessageTypeOK, RowTypeOK, LocalTypeOK,
           HistoryTypeOK, Actors, InCall
  <2>10. CallsLeft'
    BY DEF CallsLeft, AttemptsLock, AttemptsCounted, JobInHand, MessageTypeOK, RowTypeOK,
           LocalTypeOK, HistoryTypeOK, Actors, InCall
  <2>11. ToldLast'
    BY DEF ToldLast, AttemptsLock, StoredIsAccepted, MessageTypeOK, RowTypeOK, LocalTypeOK,
           HistoryTypeOK, Actors, InCall
  <2>12. QED
    BY <2>1, <2>2, <2>3, <2>4, <2>5, <2>6, <2>7, <2>8, <2>9, <2>10, <2>11 DEF MessageTypeOK
<1>2. CASE Load(w)
  <2> USE <1>2 DEF Load, Goto, message, jobs, locals, hooks, sendhist
  <2>1. RowTypeOK'
    BY DEF MessageTypeOK, RowTypeOK, LocalTypeOK, HistoryTypeOK, MessageStatuses,
           RequestPhases, WorkerPhases, HookPhases, ReportKinds, Actors
  <2>2. LocalTypeOK'
    BY DEF MessageTypeOK, RowTypeOK, LocalTypeOK, HistoryTypeOK, MessageStatuses,
           RequestPhases, WorkerPhases, HookPhases, ReportKinds, Actors
  <2>3. HistoryTypeOK'
    BY DEF MessageTypeOK, RowTypeOK, LocalTypeOK, HistoryTypeOK
  <2>4. FlagTypeOK'
    BY DEF MessageTypeOK, FlagTypeOK
  <2>5. AttemptsLock'
    BY DEF AttemptsLock, MessageTypeOK, RowTypeOK, LocalTypeOK, HistoryTypeOK, Actors,
           InCall
  <2>6. JobInHand'
    BY DEF JobInHand, AttemptsLock, MessageTypeOK, RowTypeOK, LocalTypeOK, HistoryTypeOK,
           Actors, InCall
  <2>7. StoredIsAccepted'
    BY DEF StoredIsAccepted, AttemptsLock, MessageTypeOK, RowTypeOK, LocalTypeOK,
           HistoryTypeOK, Actors, InCall
  <2>8. AcceptedIsMarked'
    BY DEF AcceptedIsMarked, AttemptsLock, MessageTypeOK, RowTypeOK, LocalTypeOK,
           HistoryTypeOK, Actors, InCall
  <2>9. AttemptsCounted'
    BY DEF AttemptsCounted, AttemptsLock, JobInHand, MessageTypeOK, RowTypeOK, LocalTypeOK,
           HistoryTypeOK, Actors, InCall
  <2>10. CallsLeft'
    BY DEF CallsLeft, AttemptsLock, AttemptsCounted, JobInHand, MessageTypeOK, RowTypeOK,
           LocalTypeOK, HistoryTypeOK, Actors, InCall
  <2>11. ToldLast'
    BY DEF ToldLast, AttemptsLock, StoredIsAccepted, MessageTypeOK, RowTypeOK, LocalTypeOK,
           HistoryTypeOK, Actors, InCall
  <2>12. QED
    BY <2>1, <2>2, <2>3, <2>4, <2>5, <2>6, <2>7, <2>8, <2>9, <2>10, <2>11 DEF MessageTypeOK
<1>3. CASE AlreadyTerminal(w)
  <2> USE <1>3 DEF AlreadyTerminal, Goto, message, jobs, locals, hooks, sendhist, EndJob
  <2>1. RowTypeOK'
    BY DEF MessageTypeOK, RowTypeOK, LocalTypeOK, HistoryTypeOK, MessageStatuses,
           RequestPhases, WorkerPhases, HookPhases, ReportKinds, Actors
  <2>2. LocalTypeOK'
    BY DEF MessageTypeOK, RowTypeOK, LocalTypeOK, HistoryTypeOK, MessageStatuses,
           RequestPhases, WorkerPhases, HookPhases, ReportKinds, Actors
  <2>3. HistoryTypeOK'
    BY DEF MessageTypeOK, RowTypeOK, LocalTypeOK, HistoryTypeOK
  <2>4. FlagTypeOK'
    BY DEF MessageTypeOK, FlagTypeOK
  <2>5. AttemptsLock'
    BY DEF AttemptsLock, MessageTypeOK, RowTypeOK, LocalTypeOK, HistoryTypeOK, Actors,
           InCall
  <2>6. JobInHand'
    BY DEF JobInHand, AttemptsLock, MessageTypeOK, RowTypeOK, LocalTypeOK, HistoryTypeOK,
           Actors, InCall
  <2>7. StoredIsAccepted'
    BY DEF StoredIsAccepted, AttemptsLock, MessageTypeOK, RowTypeOK, LocalTypeOK,
           HistoryTypeOK, Actors, InCall
  <2>8. AcceptedIsMarked'
    BY DEF AcceptedIsMarked, AttemptsLock, MessageTypeOK, RowTypeOK, LocalTypeOK,
           HistoryTypeOK, Actors, InCall
  <2>9. AttemptsCounted'
    BY DEF AttemptsCounted, AttemptsLock, JobInHand, MessageTypeOK, RowTypeOK, LocalTypeOK,
           HistoryTypeOK, Actors, InCall
  <2>10. CallsLeft'
    BY DEF CallsLeft, AttemptsLock, AttemptsCounted, JobInHand, MessageTypeOK, RowTypeOK,
           LocalTypeOK, HistoryTypeOK, Actors, InCall
  <2>11. ToldLast'
    BY DEF ToldLast, AttemptsLock, StoredIsAccepted, MessageTypeOK, RowTypeOK, LocalTypeOK,
           HistoryTypeOK, Actors, InCall
  <2>12. QED
    BY <2>1, <2>2, <2>3, <2>4, <2>5, <2>6, <2>7, <2>8, <2>9, <2>10, <2>11 DEF MessageTypeOK
<1>4. CASE Claim(w)
  <2> USE <1>4 DEF Claim, Goto, message, jobs, locals, hooks, sendhist, Claimable, Abandoned, Ended
  <2>1. RowTypeOK'
    BY DEF MessageTypeOK, RowTypeOK, LocalTypeOK, HistoryTypeOK, MessageStatuses,
           RequestPhases, WorkerPhases, HookPhases, ReportKinds, Actors
  <2>2. LocalTypeOK'
    BY DEF MessageTypeOK, RowTypeOK, LocalTypeOK, HistoryTypeOK, MessageStatuses,
           RequestPhases, WorkerPhases, HookPhases, ReportKinds, Actors
  <2>3. HistoryTypeOK'
    BY DEF MessageTypeOK, RowTypeOK, LocalTypeOK, HistoryTypeOK
  <2>4. FlagTypeOK'
    BY DEF MessageTypeOK, FlagTypeOK
  <2>5. AttemptsLock'
    BY DEF AttemptsLock, MessageTypeOK, RowTypeOK, LocalTypeOK, HistoryTypeOK, Actors,
           InCall
  <2>6. JobInHand'
    BY DEF JobInHand, AttemptsLock, MessageTypeOK, RowTypeOK, LocalTypeOK, HistoryTypeOK,
           Actors, InCall
  <2>7. StoredIsAccepted'
    BY DEF StoredIsAccepted, AttemptsLock, MessageTypeOK, RowTypeOK, LocalTypeOK,
           HistoryTypeOK, Actors, InCall
  <2>8. AcceptedIsMarked'
    BY DEF AcceptedIsMarked, AttemptsLock, MessageTypeOK, RowTypeOK, LocalTypeOK,
           HistoryTypeOK, Actors, InCall
  <2>9. AttemptsCounted'
    BY DEF AttemptsCounted, AttemptsLock, JobInHand, MessageTypeOK, RowTypeOK, LocalTypeOK,
           HistoryTypeOK, Actors, InCall
  <2>10. CallsLeft'
    BY DEF CallsLeft, AttemptsLock, AttemptsCounted, JobInHand, MessageTypeOK, RowTypeOK,
           LocalTypeOK, HistoryTypeOK, Actors, InCall
  <2>11. ToldLast'
    BY DEF ToldLast, AttemptsLock, StoredIsAccepted, MessageTypeOK, RowTypeOK, LocalTypeOK,
           HistoryTypeOK, Actors, InCall
  <2>12. QED
    BY <2>1, <2>2, <2>3, <2>4, <2>5, <2>6, <2>7, <2>8, <2>9, <2>10, <2>11 DEF MessageTypeOK
<1>5. CASE Contended(w)
  <2> USE <1>5 DEF Contended, Goto, message, jobs, locals, hooks, sendhist, EndJob
  <2>1. RowTypeOK'
    BY DEF MessageTypeOK, RowTypeOK, LocalTypeOK, HistoryTypeOK, MessageStatuses,
           RequestPhases, WorkerPhases, HookPhases, ReportKinds, Actors
  <2>2. LocalTypeOK'
    BY DEF MessageTypeOK, RowTypeOK, LocalTypeOK, HistoryTypeOK, MessageStatuses,
           RequestPhases, WorkerPhases, HookPhases, ReportKinds, Actors
  <2>3. HistoryTypeOK'
    BY DEF MessageTypeOK, RowTypeOK, LocalTypeOK, HistoryTypeOK
  <2>4. FlagTypeOK'
    BY DEF MessageTypeOK, FlagTypeOK
  <2>5. AttemptsLock'
    BY DEF AttemptsLock, MessageTypeOK, RowTypeOK, LocalTypeOK, HistoryTypeOK, Actors,
           InCall
  <2>6. JobInHand'
    BY DEF JobInHand, AttemptsLock, MessageTypeOK, RowTypeOK, LocalTypeOK, HistoryTypeOK,
           Actors, InCall
  <2>7. StoredIsAccepted'
    BY DEF StoredIsAccepted, AttemptsLock, MessageTypeOK, RowTypeOK, LocalTypeOK,
           HistoryTypeOK, Actors, InCall
  <2>8. AcceptedIsMarked'
    BY DEF AcceptedIsMarked, AttemptsLock, MessageTypeOK, RowTypeOK, LocalTypeOK,
           HistoryTypeOK, Actors, InCall
  <2>9. AttemptsCounted'
    BY DEF AttemptsCounted, AttemptsLock, JobInHand, MessageTypeOK, RowTypeOK, LocalTypeOK,
           HistoryTypeOK, Actors, InCall
  <2>10. CallsLeft'
    BY DEF CallsLeft, AttemptsLock, AttemptsCounted, JobInHand, MessageTypeOK, RowTypeOK,
           LocalTypeOK, HistoryTypeOK, Actors, InCall
  <2>11. ToldLast'
    BY DEF ToldLast, AttemptsLock, StoredIsAccepted, MessageTypeOK, RowTypeOK, LocalTypeOK,
           HistoryTypeOK, Actors, InCall
  <2>12. QED
    BY <2>1, <2>2, <2>3, <2>4, <2>5, <2>6, <2>7, <2>8, <2>9, <2>10, <2>11 DEF MessageTypeOK
<1>6. CASE Mark(w)
  <2> USE <1>6 DEF Mark, Goto, message, jobs, locals, hooks, sendhist, EndJob
  <2>1. RowTypeOK'
    BY DEF MessageTypeOK, RowTypeOK, LocalTypeOK, HistoryTypeOK, MessageStatuses,
           RequestPhases, WorkerPhases, HookPhases, ReportKinds, Actors
  <2>2. LocalTypeOK'
    BY DEF MessageTypeOK, RowTypeOK, LocalTypeOK, HistoryTypeOK, MessageStatuses,
           RequestPhases, WorkerPhases, HookPhases, ReportKinds, Actors
  <2>3. HistoryTypeOK'
    BY DEF MessageTypeOK, RowTypeOK, LocalTypeOK, HistoryTypeOK
  <2>4. FlagTypeOK'
    BY DEF MessageTypeOK, FlagTypeOK
  <2>5. AttemptsLock'
    BY DEF AttemptsLock, MessageTypeOK, RowTypeOK, LocalTypeOK, HistoryTypeOK, Actors,
           InCall
  <2>6. JobInHand'
    BY DEF JobInHand, AttemptsLock, MessageTypeOK, RowTypeOK, LocalTypeOK, HistoryTypeOK,
           Actors, InCall
  <2>7. StoredIsAccepted'
    BY DEF StoredIsAccepted, AttemptsLock, MessageTypeOK, RowTypeOK, LocalTypeOK,
           HistoryTypeOK, Actors, InCall
  <2>8. AcceptedIsMarked'
    BY DEF AcceptedIsMarked, AttemptsLock, MessageTypeOK, RowTypeOK, LocalTypeOK,
           HistoryTypeOK, Actors, InCall
  <2>9. AttemptsCounted'
    BY DEF AttemptsCounted, AttemptsLock, JobInHand, MessageTypeOK, RowTypeOK, LocalTypeOK,
           HistoryTypeOK, Actors, InCall
  <2>10. CallsLeft'
    BY DEF CallsLeft, AttemptsLock, AttemptsCounted, JobInHand, MessageTypeOK, RowTypeOK,
           LocalTypeOK, HistoryTypeOK, Actors, InCall
  <2>11. ToldLast'
    BY DEF ToldLast, AttemptsLock, StoredIsAccepted, MessageTypeOK, RowTypeOK, LocalTypeOK,
           HistoryTypeOK, Actors, InCall
  <2>12. QED
    BY <2>1, <2>2, <2>3, <2>4, <2>5, <2>6, <2>7, <2>8, <2>9, <2>10, <2>11 DEF MessageTypeOK
<1>7. CASE Release(w)
  <2> USE <1>7 DEF Release, Goto, message, jobs, locals, hooks, sendhist, EndJob, MayRetry, Owned, Unlock
  <2>1. RowTypeOK'
    BY DEF MessageTypeOK, RowTypeOK, LocalTypeOK, HistoryTypeOK, MessageStatuses,
           RequestPhases, WorkerPhases, HookPhases, ReportKinds, Actors
  <2>2. LocalTypeOK'
    BY DEF MessageTypeOK, RowTypeOK, LocalTypeOK, HistoryTypeOK, MessageStatuses,
           RequestPhases, WorkerPhases, HookPhases, ReportKinds, Actors
  <2>3. HistoryTypeOK'
    BY DEF MessageTypeOK, RowTypeOK, LocalTypeOK, HistoryTypeOK
  <2>4. FlagTypeOK'
    BY DEF MessageTypeOK, FlagTypeOK
  <2>5. AttemptsLock'
    BY DEF AttemptsLock, MessageTypeOK, RowTypeOK, LocalTypeOK, HistoryTypeOK, Actors,
           InCall
  <2>6. JobInHand'
    BY DEF JobInHand, AttemptsLock, MessageTypeOK, RowTypeOK, LocalTypeOK, HistoryTypeOK,
           Actors, InCall
  <2>7. StoredIsAccepted'
    BY DEF StoredIsAccepted, AttemptsLock, MessageTypeOK, RowTypeOK, LocalTypeOK,
           HistoryTypeOK, Actors, InCall
  <2>8. AcceptedIsMarked'
    BY DEF AcceptedIsMarked, AttemptsLock, MessageTypeOK, RowTypeOK, LocalTypeOK,
           HistoryTypeOK, Actors, InCall
  <2>9. AttemptsCounted'
    BY DEF AttemptsCounted, AttemptsLock, JobInHand, MessageTypeOK, RowTypeOK, LocalTypeOK,
           HistoryTypeOK, Actors, InCall
  <2>10. CallsLeft'
    BY DEF CallsLeft, AttemptsLock, AttemptsCounted, JobInHand, MessageTypeOK, RowTypeOK,
           LocalTypeOK, HistoryTypeOK, Actors, InCall
  <2>11. ToldLast'
    BY DEF ToldLast, AttemptsLock, StoredIsAccepted, MessageTypeOK, RowTypeOK, LocalTypeOK,
           HistoryTypeOK, Actors, InCall
  <2>12. QED
    BY <2>1, <2>2, <2>3, <2>4, <2>5, <2>6, <2>7, <2>8, <2>9, <2>10, <2>11 DEF MessageTypeOK
<1>8. CASE Fail(w)
  <2> USE <1>8 DEF Fail, Goto, message, jobs, locals, hooks, sendhist, EndJob, MayRetry, Owned, Unlock
  <2>1. RowTypeOK'
    BY DEF MessageTypeOK, RowTypeOK, LocalTypeOK, HistoryTypeOK, MessageStatuses,
           RequestPhases, WorkerPhases, HookPhases, ReportKinds, Actors
  <2>2. LocalTypeOK'
    BY DEF MessageTypeOK, RowTypeOK, LocalTypeOK, HistoryTypeOK, MessageStatuses,
           RequestPhases, WorkerPhases, HookPhases, ReportKinds, Actors
  <2>3. HistoryTypeOK'
    BY DEF MessageTypeOK, RowTypeOK, LocalTypeOK, HistoryTypeOK
  <2>4. FlagTypeOK'
    BY DEF MessageTypeOK, FlagTypeOK
  <2>5. AttemptsLock'
    BY DEF AttemptsLock, MessageTypeOK, RowTypeOK, LocalTypeOK, HistoryTypeOK, Actors,
           InCall
  <2>6. JobInHand'
    BY DEF JobInHand, AttemptsLock, MessageTypeOK, RowTypeOK, LocalTypeOK, HistoryTypeOK,
           Actors, InCall
  <2>7. StoredIsAccepted'
    BY DEF StoredIsAccepted, AttemptsLock, MessageTypeOK, RowTypeOK, LocalTypeOK,
           HistoryTypeOK, Actors, InCall
  <2>8. AcceptedIsMarked'
    BY DEF AcceptedIsMarked, AttemptsLock, MessageTypeOK, RowTypeOK, LocalTypeOK,
           HistoryTypeOK, Actors, InCall
  <2>9. AttemptsCounted'
    BY DEF AttemptsCounted, AttemptsLock, JobInHand, MessageTypeOK, RowTypeOK, LocalTypeOK,
           HistoryTypeOK, Actors, InCall
  <2>10. CallsLeft'
    BY DEF CallsLeft, AttemptsLock, AttemptsCounted, JobInHand, MessageTypeOK, RowTypeOK,
           LocalTypeOK, HistoryTypeOK, Actors, InCall
  <2>11. ToldLast'
    BY DEF ToldLast, AttemptsLock, StoredIsAccepted, MessageTypeOK, RowTypeOK, LocalTypeOK,
           HistoryTypeOK, Actors, InCall
  <2>12. QED
    BY <2>1, <2>2, <2>3, <2>4, <2>5, <2>6, <2>7, <2>8, <2>9, <2>10, <2>11 DEF MessageTypeOK
<1>9. CASE Sent(w)
  <2> USE <1>9 DEF Sent, Goto, message, jobs, locals, hooks, sendhist, Owned, Unlock
  <2>1. RowTypeOK'
    BY DEF MessageTypeOK, RowTypeOK, LocalTypeOK, HistoryTypeOK, MessageStatuses,
           RequestPhases, WorkerPhases, HookPhases, ReportKinds, Actors
  <2>2. LocalTypeOK'
    BY DEF MessageTypeOK, RowTypeOK, LocalTypeOK, HistoryTypeOK, MessageStatuses,
           RequestPhases, WorkerPhases, HookPhases, ReportKinds, Actors
  <2>3. HistoryTypeOK'
    BY DEF MessageTypeOK, RowTypeOK, LocalTypeOK, HistoryTypeOK
  <2>4. FlagTypeOK'
    BY DEF MessageTypeOK, FlagTypeOK
  <2>5. AttemptsLock'
    BY DEF AttemptsLock, MessageTypeOK, RowTypeOK, LocalTypeOK, HistoryTypeOK, Actors,
           InCall
  <2>6. JobInHand'
    BY DEF JobInHand, AttemptsLock, MessageTypeOK, RowTypeOK, LocalTypeOK, HistoryTypeOK,
           Actors, InCall
  <2>7. StoredIsAccepted'
    BY DEF StoredIsAccepted, AttemptsLock, MessageTypeOK, RowTypeOK, LocalTypeOK,
           HistoryTypeOK, Actors, InCall
  <2>8. AcceptedIsMarked'
    BY DEF AcceptedIsMarked, AttemptsLock, MessageTypeOK, RowTypeOK, LocalTypeOK,
           HistoryTypeOK, Actors, InCall
  <2>9. AttemptsCounted'
    BY DEF AttemptsCounted, AttemptsLock, JobInHand, MessageTypeOK, RowTypeOK, LocalTypeOK,
           HistoryTypeOK, Actors, InCall
  <2>10. CallsLeft'
    BY DEF CallsLeft, AttemptsLock, AttemptsCounted, JobInHand, MessageTypeOK, RowTypeOK,
           LocalTypeOK, HistoryTypeOK, Actors, InCall
  <2>11. ToldLast'
    BY DEF ToldLast, AttemptsLock, StoredIsAccepted, MessageTypeOK, RowTypeOK, LocalTypeOK,
           HistoryTypeOK, Actors, InCall
  <2>12. QED
    BY <2>1, <2>2, <2>3, <2>4, <2>5, <2>6, <2>7, <2>8, <2>9, <2>10, <2>11 DEF MessageTypeOK
<1>10. CASE SentFails(w)
  <2> USE <1>10 DEF SentFails, Goto, message, jobs, locals, hooks, sendhist, EndJob, FaultOf, Fault
  <2>1. RowTypeOK'
    BY DEF MessageTypeOK, RowTypeOK, LocalTypeOK, HistoryTypeOK, MessageStatuses,
           RequestPhases, WorkerPhases, HookPhases, ReportKinds, Actors
  <2>2. LocalTypeOK'
    BY DEF MessageTypeOK, RowTypeOK, LocalTypeOK, HistoryTypeOK, MessageStatuses,
           RequestPhases, WorkerPhases, HookPhases, ReportKinds, Actors
  <2>3. HistoryTypeOK'
    BY DEF MessageTypeOK, RowTypeOK, LocalTypeOK, HistoryTypeOK
  <2>4. FlagTypeOK'
    BY DEF MessageTypeOK, FlagTypeOK
  <2>5. AttemptsLock'
    BY DEF AttemptsLock, MessageTypeOK, RowTypeOK, LocalTypeOK, HistoryTypeOK, Actors,
           InCall
  <2>6. JobInHand'
    BY DEF JobInHand, AttemptsLock, MessageTypeOK, RowTypeOK, LocalTypeOK, HistoryTypeOK,
           Actors, InCall
  <2>7. StoredIsAccepted'
    BY DEF StoredIsAccepted, AttemptsLock, MessageTypeOK, RowTypeOK, LocalTypeOK,
           HistoryTypeOK, Actors, InCall
  <2>8. AcceptedIsMarked'
    BY DEF AcceptedIsMarked, AttemptsLock, MessageTypeOK, RowTypeOK, LocalTypeOK,
           HistoryTypeOK, Actors, InCall
  <2>9. AttemptsCounted'
    BY DEF AttemptsCounted, AttemptsLock, JobInHand, MessageTypeOK, RowTypeOK, LocalTypeOK,
           HistoryTypeOK, Actors, InCall
  <2>10. CallsLeft'
    BY DEF CallsLeft, AttemptsLock, AttemptsCounted, JobInHand, MessageTypeOK, RowTypeOK,
           LocalTypeOK, HistoryTypeOK, Actors, InCall
  <2>11. ToldLast'
    BY DEF ToldLast, AttemptsLock, StoredIsAccepted, MessageTypeOK, RowTypeOK, LocalTypeOK,
           HistoryTypeOK, Actors, InCall
  <2>12. QED
    BY <2>1, <2>2, <2>3, <2>4, <2>5, <2>6, <2>7, <2>8, <2>9, <2>10, <2>11 DEF MessageTypeOK
<1>11. CASE TellByWorker(w)
  <2> USE <1>11 DEF TellByWorker, Goto, message, jobs, locals, hooks, sendhist, EndJob
  <2>1. RowTypeOK'
    BY DEF MessageTypeOK, RowTypeOK, LocalTypeOK, HistoryTypeOK, MessageStatuses,
           RequestPhases, WorkerPhases, HookPhases, ReportKinds, Actors
  <2>2. LocalTypeOK'
    BY DEF MessageTypeOK, RowTypeOK, LocalTypeOK, HistoryTypeOK, MessageStatuses,
           RequestPhases, WorkerPhases, HookPhases, ReportKinds, Actors
  <2>3. HistoryTypeOK'
    BY DEF MessageTypeOK, RowTypeOK, LocalTypeOK, HistoryTypeOK
  <2>4. FlagTypeOK'
    BY DEF MessageTypeOK, FlagTypeOK
  <2>5. AttemptsLock'
    BY DEF AttemptsLock, MessageTypeOK, RowTypeOK, LocalTypeOK, HistoryTypeOK, Actors,
           InCall
  <2>6. JobInHand'
    BY DEF JobInHand, AttemptsLock, MessageTypeOK, RowTypeOK, LocalTypeOK, HistoryTypeOK,
           Actors, InCall
  <2>7. StoredIsAccepted'
    BY DEF StoredIsAccepted, AttemptsLock, MessageTypeOK, RowTypeOK, LocalTypeOK,
           HistoryTypeOK, Actors, InCall
  <2>8. AcceptedIsMarked'
    BY DEF AcceptedIsMarked, AttemptsLock, MessageTypeOK, RowTypeOK, LocalTypeOK,
           HistoryTypeOK, Actors, InCall
  <2>9. AttemptsCounted'
    BY DEF AttemptsCounted, AttemptsLock, JobInHand, MessageTypeOK, RowTypeOK, LocalTypeOK,
           HistoryTypeOK, Actors, InCall
  <2>10. CallsLeft'
    BY DEF CallsLeft, AttemptsLock, AttemptsCounted, JobInHand, MessageTypeOK, RowTypeOK,
           LocalTypeOK, HistoryTypeOK, Actors, InCall
  <2>11. ToldLast'
    BY DEF ToldLast, AttemptsLock, StoredIsAccepted, MessageTypeOK, RowTypeOK, LocalTypeOK,
           HistoryTypeOK, Actors, InCall
  <2>12. QED
    BY <2>1, <2>2, <2>3, <2>4, <2>5, <2>6, <2>7, <2>8, <2>9, <2>10, <2>11 DEF MessageTypeOK
<1>12. CASE WorkerFails(w)
  <2> USE <1>12 DEF WorkerFails, Goto, message, jobs, locals, hooks, sendhist, EndJob, FaultOf, Fault
  <2>1. RowTypeOK'
    BY DEF MessageTypeOK, RowTypeOK, LocalTypeOK, HistoryTypeOK, MessageStatuses,
           RequestPhases, WorkerPhases, HookPhases, ReportKinds, Actors
  <2>2. LocalTypeOK'
    BY DEF MessageTypeOK, RowTypeOK, LocalTypeOK, HistoryTypeOK, MessageStatuses,
           RequestPhases, WorkerPhases, HookPhases, ReportKinds, Actors
  <2>3. HistoryTypeOK'
    BY DEF MessageTypeOK, RowTypeOK, LocalTypeOK, HistoryTypeOK
  <2>4. FlagTypeOK'
    BY DEF MessageTypeOK, FlagTypeOK
  <2>5. AttemptsLock'
    BY DEF AttemptsLock, MessageTypeOK, RowTypeOK, LocalTypeOK, HistoryTypeOK, Actors,
           InCall
  <2>6. JobInHand'
    BY DEF JobInHand, AttemptsLock, MessageTypeOK, RowTypeOK, LocalTypeOK, HistoryTypeOK,
           Actors, InCall
  <2>7. StoredIsAccepted'
    BY DEF StoredIsAccepted, AttemptsLock, MessageTypeOK, RowTypeOK, LocalTypeOK,
           HistoryTypeOK, Actors, InCall
  <2>8. AcceptedIsMarked'
    BY DEF AcceptedIsMarked, AttemptsLock, MessageTypeOK, RowTypeOK, LocalTypeOK,
           HistoryTypeOK, Actors, InCall
  <2>9. AttemptsCounted'
    BY DEF AttemptsCounted, AttemptsLock, JobInHand, MessageTypeOK, RowTypeOK, LocalTypeOK,
           HistoryTypeOK, Actors, InCall
  <2>10. CallsLeft'
    BY DEF CallsLeft, AttemptsLock, AttemptsCounted, JobInHand, MessageTypeOK, RowTypeOK,
           LocalTypeOK, HistoryTypeOK, Actors, InCall
  <2>11. ToldLast'
    BY DEF ToldLast, AttemptsLock, StoredIsAccepted, MessageTypeOK, RowTypeOK, LocalTypeOK,
           HistoryTypeOK, Actors, InCall
  <2>12. QED
    BY <2>1, <2>2, <2>3, <2>4, <2>5, <2>6, <2>7, <2>8, <2>9, <2>10, <2>11 DEF MessageTypeOK
<1>13. CASE WorkerDies(w)
  <2> USE <1>13 DEF WorkerDies, Goto, message, jobs, locals, hooks, sendhist, FaultOf, Fault
  <2>1. RowTypeOK'
    BY DEF MessageTypeOK, RowTypeOK, LocalTypeOK, HistoryTypeOK, MessageStatuses,
           RequestPhases, WorkerPhases, HookPhases, ReportKinds, Actors
  <2>2. LocalTypeOK'
    BY DEF MessageTypeOK, RowTypeOK, LocalTypeOK, HistoryTypeOK, MessageStatuses,
           RequestPhases, WorkerPhases, HookPhases, ReportKinds, Actors
  <2>3. HistoryTypeOK'
    BY DEF MessageTypeOK, RowTypeOK, LocalTypeOK, HistoryTypeOK
  <2>4. FlagTypeOK'
    BY DEF MessageTypeOK, FlagTypeOK
  <2>5. AttemptsLock'
    BY DEF AttemptsLock, MessageTypeOK, RowTypeOK, LocalTypeOK, HistoryTypeOK, Actors,
           InCall
  <2>6. JobInHand'
    BY DEF JobInHand, AttemptsLock, MessageTypeOK, RowTypeOK, LocalTypeOK, HistoryTypeOK,
           Actors, InCall
  <2>7. StoredIsAccepted'
    BY DEF StoredIsAccepted, AttemptsLock, MessageTypeOK, RowTypeOK, LocalTypeOK,
           HistoryTypeOK, Actors, InCall
  <2>8. AcceptedIsMarked'
    BY DEF AcceptedIsMarked, AttemptsLock, MessageTypeOK, RowTypeOK, LocalTypeOK,
           HistoryTypeOK, Actors, InCall
  <2>9. AttemptsCounted'
    BY DEF AttemptsCounted, AttemptsLock, JobInHand, MessageTypeOK, RowTypeOK, LocalTypeOK,
           HistoryTypeOK, Actors, InCall
  <2>10. CallsLeft'
    BY DEF CallsLeft, AttemptsLock, AttemptsCounted, JobInHand, MessageTypeOK, RowTypeOK,
           LocalTypeOK, HistoryTypeOK, Actors, InCall
  <2>11. ToldLast'
    BY DEF ToldLast, AttemptsLock, StoredIsAccepted, MessageTypeOK, RowTypeOK, LocalTypeOK,
           HistoryTypeOK, Actors, InCall
  <2>12. QED
    BY <2>1, <2>2, <2>3, <2>4, <2>5, <2>6, <2>7, <2>8, <2>9, <2>10, <2>11 DEF MessageTypeOK
<1>14. QED
  BY <1>1, <1>2, <1>3, <1>4, <1>5, <1>6, <1>7, <1>8, <1>9, <1>10, <1>11, <1>12, <1>13 DEF
         WorkerStep

LEMMA CallSteps ==
    ASSUME MessageInv, NEW a \in Actors, Call(a)
    PROVE  MessageInv'
<1> USE WhatsAppConstantsOK DEF MessageInv
<1>1. ASSUME NEW outcome \in {"accepted", "transient", "rejected"}, NEW took \in BOOLEAN,
             CallMeta(a, outcome, took)
      PROVE  MessageInv'
  <2> USE <1>1 DEF CallMeta, Goto, message, jobs, locals, hooks, sendhist
  <2>1. RowTypeOK'
    BY DEF MessageTypeOK, RowTypeOK, LocalTypeOK, HistoryTypeOK, MessageStatuses,
           RequestPhases, WorkerPhases, HookPhases, ReportKinds, Actors
  <2>2. LocalTypeOK'
    BY DEF MessageTypeOK, RowTypeOK, LocalTypeOK, HistoryTypeOK, MessageStatuses,
           RequestPhases, WorkerPhases, HookPhases, ReportKinds, Actors
  <2>3. HistoryTypeOK'
    BY DEF MessageTypeOK, RowTypeOK, LocalTypeOK, HistoryTypeOK
  <2>4. FlagTypeOK'
    BY DEF MessageTypeOK, FlagTypeOK
  <2>5. AttemptsLock'
    BY DEF AttemptsLock, MessageTypeOK, RowTypeOK, LocalTypeOK, HistoryTypeOK, Actors,
           InCall
  <2>6. JobInHand'
    BY DEF JobInHand, AttemptsLock, MessageTypeOK, RowTypeOK, LocalTypeOK, HistoryTypeOK,
           Actors, InCall
  <2>7. StoredIsAccepted'
    BY DEF StoredIsAccepted, AttemptsLock, MessageTypeOK, RowTypeOK, LocalTypeOK,
           HistoryTypeOK, Actors, InCall
  <2>8. AcceptedIsMarked'
   <3>1. mstatus = "QUEUED" /\ owner = a /\ inflight
      BY DEF AttemptsLock, InCall
    <3>2. unclear \/ accepted = {}
      BY <3>1 DEF AcceptedIsMarked
    <3>3. took /\ accepted = {} => accepted' = {calls + 1}
      BY SMT
    <3>4. unclear \/ accepted' = {} \/ \E c \in accepted' : accepted' = {c}
      BY <3>2, <3>3
    <3>5. unclear' => unclear \/ (took /\ outcome = "transient")
      BY Zenon
    <3>6. unclear => unclear'
      BY Zenon
    <3>7. ~unclear' /\ accepted' # {} => pc'[owner] = "accepted" \/ pc'[owner] = "rejected"
      <4> SUFFICES ASSUME ~unclear', accepted' # {} PROVE outcome # "transient" /\ pc'[owner] = outcome
        OBVIOUS
      <4>1. took
        BY <3>2, <3>6
      <4>2. outcome # "transient"
        BY <4>1
      <4>3. QED
        BY <3>1, <4>2 DEF MessageTypeOK, LocalTypeOK
    <3>8. QED
      BY <3>1, <3>4, <3>6, <3>7 DEF AcceptedIsMarked, MessageTypeOK, RowTypeOK
  <2>9. AttemptsCounted'
    BY DEF AttemptsCounted, AttemptsLock, JobInHand, MessageTypeOK, RowTypeOK, LocalTypeOK,
           HistoryTypeOK, Actors, InCall
  <2>10. CallsLeft'
    BY DEF CallsLeft, AttemptsLock, AttemptsCounted, JobInHand, MessageTypeOK, RowTypeOK,
           LocalTypeOK, HistoryTypeOK, Actors, InCall
  <2>11. ToldLast'
    BY DEF ToldLast, AttemptsLock, StoredIsAccepted, MessageTypeOK, RowTypeOK, LocalTypeOK,
           HistoryTypeOK, Actors, InCall
  <2>12. QED
    BY <2>1, <2>2, <2>3, <2>4, <2>5, <2>6, <2>7, <2>8, <2>9, <2>10, <2>11 DEF MessageTypeOK
<1>2. QED
  BY <1>1 DEF Call

LEMMA ReconcileSteps ==
    ASSUME MessageInv, ReconcileMessage \/ ReconcileJob
    PROVE  MessageInv'
<1> USE WhatsAppConstantsOK DEF MessageInv
<1>1. CASE ReconcileMessage
  <2> USE <1>1 DEF ReconcileMessage, Abandoned, Ended, Unlock, message, jobs, locals, hooks, sendhist
  <2>1. RowTypeOK'
    BY DEF MessageTypeOK, RowTypeOK, LocalTypeOK, HistoryTypeOK, MessageStatuses,
           RequestPhases, WorkerPhases, HookPhases, ReportKinds, Actors
  <2>2. LocalTypeOK'
    BY DEF MessageTypeOK, RowTypeOK, LocalTypeOK, HistoryTypeOK, MessageStatuses,
           RequestPhases, WorkerPhases, HookPhases, ReportKinds, Actors
  <2>3. HistoryTypeOK'
    BY DEF MessageTypeOK, RowTypeOK, LocalTypeOK, HistoryTypeOK
  <2>4. FlagTypeOK'
    BY DEF MessageTypeOK, FlagTypeOK
  <2>5. AttemptsLock'
    BY DEF AttemptsLock, MessageTypeOK, RowTypeOK, LocalTypeOK, HistoryTypeOK, Actors,
           InCall
  <2>6. JobInHand'
    BY DEF JobInHand, AttemptsLock, MessageTypeOK, RowTypeOK, LocalTypeOK, HistoryTypeOK,
           Actors, InCall
  <2>7. StoredIsAccepted'
    BY DEF StoredIsAccepted, AttemptsLock, MessageTypeOK, RowTypeOK, LocalTypeOK,
           HistoryTypeOK, Actors, InCall
  <2>8. AcceptedIsMarked'
    BY DEF AcceptedIsMarked, AttemptsLock, MessageTypeOK, RowTypeOK, LocalTypeOK,
           HistoryTypeOK, Actors, InCall
  <2>9. AttemptsCounted'
    BY DEF AttemptsCounted, AttemptsLock, JobInHand, MessageTypeOK, RowTypeOK, LocalTypeOK,
           HistoryTypeOK, Actors, InCall
  <2>10. CallsLeft'
    BY DEF CallsLeft, AttemptsLock, AttemptsCounted, JobInHand, MessageTypeOK, RowTypeOK,
           LocalTypeOK, HistoryTypeOK, Actors, InCall
  <2>11. ToldLast'
    BY DEF ToldLast, AttemptsLock, StoredIsAccepted, MessageTypeOK, RowTypeOK, LocalTypeOK,
           HistoryTypeOK, Actors, InCall
  <2>12. QED
    BY <2>1, <2>2, <2>3, <2>4, <2>5, <2>6, <2>7, <2>8, <2>9, <2>10, <2>11 DEF MessageTypeOK
<1>2. CASE ReconcileJob
  <2> USE <1>2 DEF ReconcileJob, message, jobs, locals, hooks, sendhist
  <2>1. RowTypeOK'
    BY DEF MessageTypeOK, RowTypeOK, LocalTypeOK, HistoryTypeOK, MessageStatuses,
           RequestPhases, WorkerPhases, HookPhases, ReportKinds, Actors
  <2>2. LocalTypeOK'
    BY DEF MessageTypeOK, RowTypeOK, LocalTypeOK, HistoryTypeOK, MessageStatuses,
           RequestPhases, WorkerPhases, HookPhases, ReportKinds, Actors
  <2>3. HistoryTypeOK'
    BY DEF MessageTypeOK, RowTypeOK, LocalTypeOK, HistoryTypeOK
  <2>4. FlagTypeOK'
    BY DEF MessageTypeOK, FlagTypeOK
  <2>5. AttemptsLock'
    BY DEF AttemptsLock, MessageTypeOK, RowTypeOK, LocalTypeOK, HistoryTypeOK, Actors,
           InCall
  <2>6. JobInHand'
    BY DEF JobInHand, AttemptsLock, MessageTypeOK, RowTypeOK, LocalTypeOK, HistoryTypeOK,
           Actors, InCall
  <2>7. StoredIsAccepted'
    BY DEF StoredIsAccepted, AttemptsLock, MessageTypeOK, RowTypeOK, LocalTypeOK,
           HistoryTypeOK, Actors, InCall
  <2>8. AcceptedIsMarked'
    BY DEF AcceptedIsMarked, AttemptsLock, MessageTypeOK, RowTypeOK, LocalTypeOK,
           HistoryTypeOK, Actors, InCall
  <2>9. AttemptsCounted'
    BY DEF AttemptsCounted, AttemptsLock, JobInHand, MessageTypeOK, RowTypeOK, LocalTypeOK,
           HistoryTypeOK, Actors, InCall
  <2>10. CallsLeft'
    BY DEF CallsLeft, AttemptsLock, AttemptsCounted, JobInHand, MessageTypeOK, RowTypeOK,
           LocalTypeOK, HistoryTypeOK, Actors, InCall
  <2>11. ToldLast'
    BY DEF ToldLast, AttemptsLock, StoredIsAccepted, MessageTypeOK, RowTypeOK, LocalTypeOK,
           HistoryTypeOK, Actors, InCall
  <2>12. QED
    BY <2>1, <2>2, <2>3, <2>4, <2>5, <2>6, <2>7, <2>8, <2>9, <2>10, <2>11 DEF MessageTypeOK
<1>3. QED
  BY <1>1, <1>2

LEMMA ReportSteps ==
    ASSUME MessageInv, NEW k \in Reports,
           \/ \E c \in accepted : Receive(k, c)
           \/ Apply(k) \/ TellReport(k) \/ FinishReport(k)
           \/ \E status \in {"PENDING", "FAILED"} : ReportFails(k, status)
    PROVE  MessageInv'
<1> USE WhatsAppConstantsOK DEF MessageInv
<1>1. ASSUME NEW c \in accepted, Receive(k, c)
      PROVE  MessageInv'
  <2> USE <1>1 DEF Receive, message, jobs, locals, hooks, sendhist
  <2>1. RowTypeOK'
    BY DEF MessageTypeOK, RowTypeOK, LocalTypeOK, HistoryTypeOK, MessageStatuses,
           RequestPhases, WorkerPhases, HookPhases, ReportKinds, Actors
  <2>2. LocalTypeOK'
    BY DEF MessageTypeOK, RowTypeOK, LocalTypeOK, HistoryTypeOK, MessageStatuses,
           RequestPhases, WorkerPhases, HookPhases, ReportKinds, Actors
  <2>3. HistoryTypeOK'
    BY DEF MessageTypeOK, RowTypeOK, LocalTypeOK, HistoryTypeOK
  <2>4. FlagTypeOK'
    BY DEF MessageTypeOK, FlagTypeOK
  <2>5. AttemptsLock'
    BY DEF AttemptsLock, MessageTypeOK, RowTypeOK, LocalTypeOK, HistoryTypeOK, Actors,
           InCall
  <2>6. JobInHand'
    BY DEF JobInHand, AttemptsLock, MessageTypeOK, RowTypeOK, LocalTypeOK, HistoryTypeOK,
           Actors, InCall
  <2>7. StoredIsAccepted'
    BY DEF StoredIsAccepted, AttemptsLock, MessageTypeOK, RowTypeOK, LocalTypeOK,
           HistoryTypeOK, Actors, InCall
  <2>8. AcceptedIsMarked'
    BY DEF AcceptedIsMarked, AttemptsLock, MessageTypeOK, RowTypeOK, LocalTypeOK,
           HistoryTypeOK, Actors, InCall
  <2>9. AttemptsCounted'
    BY DEF AttemptsCounted, AttemptsLock, JobInHand, MessageTypeOK, RowTypeOK, LocalTypeOK,
           HistoryTypeOK, Actors, InCall
  <2>10. CallsLeft'
    BY DEF CallsLeft, AttemptsLock, AttemptsCounted, JobInHand, MessageTypeOK, RowTypeOK,
           LocalTypeOK, HistoryTypeOK, Actors, InCall
  <2>11. ToldLast'
    BY DEF ToldLast, AttemptsLock, StoredIsAccepted, MessageTypeOK, RowTypeOK, LocalTypeOK,
           HistoryTypeOK, Actors, InCall
  <2>12. QED
    BY <2>1, <2>2, <2>3, <2>4, <2>5, <2>6, <2>7, <2>8, <2>9, <2>10, <2>11 DEF MessageTypeOK
<1>2. CASE Apply(k)
  <2> USE <1>2 DEF Apply, ShouldUpdate, StatusOf, message, jobs, locals, hooks, sendhist
  <2>1. mstatus \notin {"NONE", "QUEUED"} /\ mstatus' \notin {"NONE", "QUEUED"}
    BY DEF StoredIsAccepted, ReportKinds
  <2>2. RowTypeOK'
    BY <2>1 DEF MessageTypeOK, RowTypeOK, LocalTypeOK, HistoryTypeOK, MessageStatuses,
           RequestPhases, WorkerPhases, HookPhases, ReportKinds, Actors
  <2>3. LocalTypeOK'
    BY <2>1 DEF MessageTypeOK, RowTypeOK, LocalTypeOK, HistoryTypeOK, MessageStatuses,
           RequestPhases, WorkerPhases, HookPhases, ReportKinds, Actors
  <2>4. HistoryTypeOK'
    BY <2>1 DEF MessageTypeOK, RowTypeOK, LocalTypeOK, HistoryTypeOK
  <2>5. FlagTypeOK'
    BY <2>1 DEF MessageTypeOK, FlagTypeOK
  <2>6. AttemptsLock'
    BY <2>1 DEF AttemptsLock, MessageTypeOK, RowTypeOK, LocalTypeOK, HistoryTypeOK, Actors,
           InCall
  <2>7. JobInHand'
    BY <2>1 DEF JobInHand, AttemptsLock, MessageTypeOK, RowTypeOK, LocalTypeOK,
           HistoryTypeOK, Actors, InCall
  <2>8. StoredIsAccepted'
    BY <2>1 DEF StoredIsAccepted, AttemptsLock, MessageTypeOK, RowTypeOK, LocalTypeOK,
           HistoryTypeOK, Actors, InCall
  <2>9. AcceptedIsMarked'
    BY <2>1 DEF AcceptedIsMarked, AttemptsLock, MessageTypeOK, RowTypeOK, LocalTypeOK,
           HistoryTypeOK, Actors, InCall
  <2>10. AttemptsCounted'
    BY <2>1 DEF AttemptsCounted, AttemptsLock, JobInHand, MessageTypeOK, RowTypeOK,
           LocalTypeOK, HistoryTypeOK, Actors, InCall
  <2>11. CallsLeft'
    BY <2>1 DEF CallsLeft, AttemptsLock, AttemptsCounted, JobInHand, MessageTypeOK,
           RowTypeOK, LocalTypeOK, HistoryTypeOK, Actors, InCall
  <2>12. ToldLast'
    BY <2>1 DEF ToldLast, AttemptsLock, StoredIsAccepted, MessageTypeOK, RowTypeOK,
           LocalTypeOK, HistoryTypeOK, Actors, InCall
  <2>13. QED
    BY <2>2, <2>3, <2>4, <2>5, <2>6, <2>7, <2>8, <2>9, <2>10, <2>11, <2>12 DEF MessageTypeOK
<1>3. CASE TellReport(k)
  <2> USE <1>3 DEF TellReport, Fault, message, jobs, locals, hooks, sendhist
  <2>1. RowTypeOK'
    BY DEF MessageTypeOK, RowTypeOK, LocalTypeOK, HistoryTypeOK, MessageStatuses,
           RequestPhases, WorkerPhases, HookPhases, ReportKinds, Actors
  <2>2. LocalTypeOK'
    BY DEF MessageTypeOK, RowTypeOK, LocalTypeOK, HistoryTypeOK, MessageStatuses,
           RequestPhases, WorkerPhases, HookPhases, ReportKinds, Actors
  <2>3. HistoryTypeOK'
    BY DEF MessageTypeOK, RowTypeOK, LocalTypeOK, HistoryTypeOK
  <2>4. FlagTypeOK'
    BY DEF MessageTypeOK, FlagTypeOK
  <2>5. AttemptsLock'
    BY DEF AttemptsLock, MessageTypeOK, RowTypeOK, LocalTypeOK, HistoryTypeOK, Actors,
           InCall
  <2>6. JobInHand'
    BY DEF JobInHand, AttemptsLock, MessageTypeOK, RowTypeOK, LocalTypeOK, HistoryTypeOK,
           Actors, InCall
  <2>7. StoredIsAccepted'
    BY DEF StoredIsAccepted, AttemptsLock, MessageTypeOK, RowTypeOK, LocalTypeOK,
           HistoryTypeOK, Actors, InCall
  <2>8. AcceptedIsMarked'
    BY DEF AcceptedIsMarked, AttemptsLock, MessageTypeOK, RowTypeOK, LocalTypeOK,
           HistoryTypeOK, Actors, InCall
  <2>9. AttemptsCounted'
    BY DEF AttemptsCounted, AttemptsLock, JobInHand, MessageTypeOK, RowTypeOK, LocalTypeOK,
           HistoryTypeOK, Actors, InCall
  <2>10. CallsLeft'
    BY DEF CallsLeft, AttemptsLock, AttemptsCounted, JobInHand, MessageTypeOK, RowTypeOK,
           LocalTypeOK, HistoryTypeOK, Actors, InCall
  <2>11. ToldLast'
    BY DEF ToldLast, AttemptsLock, StoredIsAccepted, MessageTypeOK, RowTypeOK, LocalTypeOK,
           HistoryTypeOK, Actors, InCall
  <2>12. QED
    BY <2>1, <2>2, <2>3, <2>4, <2>5, <2>6, <2>7, <2>8, <2>9, <2>10, <2>11 DEF MessageTypeOK
<1>4. CASE FinishReport(k)
  <2> USE <1>4 DEF FinishReport, message, jobs, locals, hooks, sendhist
  <2>1. RowTypeOK'
    BY DEF MessageTypeOK, RowTypeOK, LocalTypeOK, HistoryTypeOK, MessageStatuses,
           RequestPhases, WorkerPhases, HookPhases, ReportKinds, Actors
  <2>2. LocalTypeOK'
    BY DEF MessageTypeOK, RowTypeOK, LocalTypeOK, HistoryTypeOK, MessageStatuses,
           RequestPhases, WorkerPhases, HookPhases, ReportKinds, Actors
  <2>3. HistoryTypeOK'
    BY DEF MessageTypeOK, RowTypeOK, LocalTypeOK, HistoryTypeOK
  <2>4. FlagTypeOK'
    BY DEF MessageTypeOK, FlagTypeOK
  <2>5. AttemptsLock'
    BY DEF AttemptsLock, MessageTypeOK, RowTypeOK, LocalTypeOK, HistoryTypeOK, Actors,
           InCall
  <2>6. JobInHand'
    BY DEF JobInHand, AttemptsLock, MessageTypeOK, RowTypeOK, LocalTypeOK, HistoryTypeOK,
           Actors, InCall
  <2>7. StoredIsAccepted'
    BY DEF StoredIsAccepted, AttemptsLock, MessageTypeOK, RowTypeOK, LocalTypeOK,
           HistoryTypeOK, Actors, InCall
  <2>8. AcceptedIsMarked'
    BY DEF AcceptedIsMarked, AttemptsLock, MessageTypeOK, RowTypeOK, LocalTypeOK,
           HistoryTypeOK, Actors, InCall
  <2>9. AttemptsCounted'
    BY DEF AttemptsCounted, AttemptsLock, JobInHand, MessageTypeOK, RowTypeOK, LocalTypeOK,
           HistoryTypeOK, Actors, InCall
  <2>10. CallsLeft'
    BY DEF CallsLeft, AttemptsLock, AttemptsCounted, JobInHand, MessageTypeOK, RowTypeOK,
           LocalTypeOK, HistoryTypeOK, Actors, InCall
  <2>11. ToldLast'
    BY DEF ToldLast, AttemptsLock, StoredIsAccepted, MessageTypeOK, RowTypeOK, LocalTypeOK,
           HistoryTypeOK, Actors, InCall
  <2>12. QED
    BY <2>1, <2>2, <2>3, <2>4, <2>5, <2>6, <2>7, <2>8, <2>9, <2>10, <2>11 DEF MessageTypeOK
<1>5. ASSUME NEW status \in {"PENDING", "FAILED"}, ReportFails(k, status)
      PROVE  MessageInv'
  <2> USE <1>5 DEF ReportFails, Fault, message, jobs, locals, hooks, sendhist
  <2>1. RowTypeOK'
    BY DEF MessageTypeOK, RowTypeOK, LocalTypeOK, HistoryTypeOK, MessageStatuses,
           RequestPhases, WorkerPhases, HookPhases, ReportKinds, Actors
  <2>2. LocalTypeOK'
    BY DEF MessageTypeOK, RowTypeOK, LocalTypeOK, HistoryTypeOK, MessageStatuses,
           RequestPhases, WorkerPhases, HookPhases, ReportKinds, Actors
  <2>3. HistoryTypeOK'
    BY DEF MessageTypeOK, RowTypeOK, LocalTypeOK, HistoryTypeOK
  <2>4. FlagTypeOK'
    BY DEF MessageTypeOK, FlagTypeOK
  <2>5. AttemptsLock'
    BY DEF AttemptsLock, MessageTypeOK, RowTypeOK, LocalTypeOK, HistoryTypeOK, Actors,
           InCall
  <2>6. JobInHand'
    BY DEF JobInHand, AttemptsLock, MessageTypeOK, RowTypeOK, LocalTypeOK, HistoryTypeOK,
           Actors, InCall
  <2>7. StoredIsAccepted'
    BY DEF StoredIsAccepted, AttemptsLock, MessageTypeOK, RowTypeOK, LocalTypeOK,
           HistoryTypeOK, Actors, InCall
  <2>8. AcceptedIsMarked'
    BY DEF AcceptedIsMarked, AttemptsLock, MessageTypeOK, RowTypeOK, LocalTypeOK,
           HistoryTypeOK, Actors, InCall
  <2>9. AttemptsCounted'
    BY DEF AttemptsCounted, AttemptsLock, JobInHand, MessageTypeOK, RowTypeOK, LocalTypeOK,
           HistoryTypeOK, Actors, InCall
  <2>10. CallsLeft'
    BY DEF CallsLeft, AttemptsLock, AttemptsCounted, JobInHand, MessageTypeOK, RowTypeOK,
           LocalTypeOK, HistoryTypeOK, Actors, InCall
  <2>11. ToldLast'
    BY DEF ToldLast, AttemptsLock, StoredIsAccepted, MessageTypeOK, RowTypeOK, LocalTypeOK,
           HistoryTypeOK, Actors, InCall
  <2>12. QED
    BY <2>1, <2>2, <2>3, <2>4, <2>5, <2>6, <2>7, <2>8, <2>9, <2>10, <2>11 DEF MessageTypeOK
<1>6. QED
  BY <1>1, <1>2, <1>3, <1>4, <1>5

LEMMA StepHolds == MessageInv /\ [MessageNext]_wavars => MessageInv'
<1> SUFFICES ASSUME MessageInv, [MessageNext]_wavars PROVE MessageInv'
  OBVIOUS
<1>1. CASE UNCHANGED wavars
  <2> USE <1>1 DEF MessageInv, wavars, message, jobs, locals, hooks, sendhist
  <2>1. MessageTypeOK'
    BY DEF MessageTypeOK, RowTypeOK, LocalTypeOK, HistoryTypeOK, FlagTypeOK
  <2>2. AttemptsLock' /\ JobInHand' /\ StoredIsAccepted'
    BY DEF AttemptsLock, JobInHand, StoredIsAccepted
  <2>3. AcceptedIsMarked' /\ AttemptsCounted' /\ CallsLeft' /\ ToldLast'
    BY DEF AcceptedIsMarked, AttemptsCounted, CallsLeft, ToldLast
  <2>4. QED
    BY <2>1, <2>2, <2>3
<1>2. ASSUME NEW r \in Requests,
             \/ Look(r) \/ RequestStep(r)
             \/ RecordSentFails(r) \/ ScheduleFails(r) \/ RequestDies(r)
      PROVE  MessageInv'
  BY <1>2, RequestSteps
<1>3. ASSUME NEW w \in Workers,
             StartJob(w) \/ WorkerStep(w) \/ SentFails(w) \/ WorkerFails(w) \/ WorkerDies(w)
      PROVE  MessageInv'
  BY <1>3, WorkerSteps
<1>4. ASSUME NEW a \in Actors, Call(a) PROVE MessageInv'
  BY <1>4, CallSteps
<1>5. CASE ReconcileMessage \/ ReconcileJob
  BY <1>5, ReconcileSteps
<1>6. ASSUME NEW k \in Reports,
             \/ \E c \in accepted : Receive(k, c)
             \/ Apply(k) \/ TellReport(k) \/ FinishReport(k)
             \/ \E status \in {"PENDING", "FAILED"} : ReportFails(k, status)
      PROVE  MessageInv'
  BY <1>6, ReportSteps
<1>7. QED
  BY <1>1, <1>2, <1>3, <1>4, <1>5, <1>6 DEF MessageNext

(* Every step but a report leaves the status alone or finds it QUEUED, or   *)
(* the message missing.                                                     *)
LEMMA OnlyReportsFollow ==
    ASSUME MessageInv, [MessageNext]_wavars, mstatus' # mstatus
    PROVE  \/ mstatus \in {"NONE", "QUEUED"}
           \/ \E k \in Reports : Apply(k)
<1> USE DEF message, jobs, locals, hooks, sendhist
<1>1. ASSUME NEW r \in Requests, Look(r) \/ RequestStep(r)
      PROVE  mstatus \in {"NONE", "QUEUED"}
  BY <1>1 DEF Look, RequestStep, Create, RecordSent, Schedule, RecordFailed, Tell,
         MessageInv, AttemptsLock, InCall, Actors
<1>2. ASSUME NEW r \in Requests, RecordSentFails(r) \/ ScheduleFails(r) \/ RequestDies(r)
      PROVE  FALSE
  BY <1>2 DEF RecordSentFails, ScheduleFails, RequestDies
<1>3. ASSUME NEW w \in Workers, WorkerStep(w)
      PROVE  mstatus \in {"NONE", "QUEUED"}
  BY <1>3 DEF WorkerStep, Load, AlreadyTerminal, Claim, Contended, Mark, Release, Fail,
         Sent, TellByWorker, Owned
<1>4. ASSUME NEW w \in Workers, StartJob(w) \/ SentFails(w) \/ WorkerFails(w) \/ WorkerDies(w)
      PROVE  FALSE
  BY <1>4 DEF StartJob, SentFails, WorkerFails, WorkerDies
<1>5. ASSUME NEW a \in Actors, Call(a) PROVE FALSE
  BY <1>5 DEF Call, CallMeta
<1>6. CASE ReconcileMessage \/ ReconcileJob
  BY <1>6 DEF ReconcileMessage, ReconcileJob
<1>7. ASSUME NEW k \in Reports,
             \/ \E c \in accepted : Receive(k, c)
             \/ TellReport(k) \/ FinishReport(k)
             \/ \E status \in {"PENDING", "FAILED"} : ReportFails(k, status)
      PROVE  FALSE
  BY <1>7 DEF Receive, TellReport, FinishReport, ReportFails
<1>8. ~UNCHANGED wavars
  BY DEF wavars
<1>9. QED
  BY <1>1, <1>2, <1>3, <1>4, <1>5, <1>6, <1>7, <1>8 DEF MessageNext

LEMMA ReportsFollow ==
    ASSUME MessageInv, NEW k \in Reports, Apply(k), mstatus' # mstatus
    PROVE  \/ raced'
           \/ mstatus # "READ" /\ Rank(mstatus') >= Rank(mstatus)
<1>1. ShouldUpdate(seen[k], StatusOf(k)) /\ mstatus' = StatusOf(k)
  BY DEF Apply
<1>2. CASE mstatus # seen[k]
  BY <1>1, <1>2 DEF Apply
<1>3. CASE mstatus = seen[k]
  <2>1. mstatus # "READ" /\ mstatus # "FAILED"
    BY <1>1, <1>3 DEF ShouldUpdate
  <2>2. CASE StatusOf(k) = "FAILED"
    <3>1. mstatus' = "FAILED"
      BY <1>1, <2>2
    <3>2. QED
      BY <2>1, <3>1 DEF Rank, MessageInv, MessageTypeOK, RowTypeOK, MessageStatuses
  <2>3. CASE StatusOf(k) # "FAILED"
    <3>1. Rank(mstatus') > Rank(mstatus) /\ Rank(mstatus) \in Nat /\ Rank(mstatus') \in Nat
      <4>1. mstatus' \in MessageStatuses /\ mstatus \in MessageStatuses
        BY StepHolds, <1>1 DEF MessageInv, MessageTypeOK, RowTypeOK, StatusOf,
               MessageStatuses, MessageNext
      <4>2. QED
        BY <4>1, <1>1, <1>3, <2>3 DEF Rank, ShouldUpdate, MessageStatuses
    <3>2. QED
      BY <2>1, <3>1
  <2>4. QED
    BY <2>2, <2>3
<1>4. QED
  BY <1>2, <1>3

-----------------------------------------------------------------------------
(* The lock, the job, the counts of attempts and what was told fit each     *)
(* other in every state.                                                    *)
THEOREM InvariantHolds == MessageSpec => []MessageInv
BY InitHolds, StepHolds, PTL DEF MessageSpec

(* The message, its job, requests, workers and reports keep their types;    *)
(* the job is held while, and only while, it is PROCESSING.                 *)
THEOREM MessageTypesHold == MessageSpec => []MessageTypeOK
BY InvariantHolds, PTL DEF MessageInv

(* Meta accepts a message once, unless it accepted a call it did not answer.*)
THEOREM MessageAcceptedOnce == MessageSpec => []AcceptedOnce
<1>1. MessageInv => AcceptedOnce
  <2>1. SUFFICES ASSUME MessageInv, ~unclear
                 PROVE  Cardinality(accepted) <= 1
    BY DEF AcceptedOnce
  <2>2. CASE accepted = {}
    <3>1. Cardinality(accepted) = 0
      BY <2>2, FS_EmptySet
    <3>2. QED
      BY <3>1
  <2>3. CASE \E c \in accepted : accepted = {c}
    <3>1. PICK c \in accepted : accepted = {c}
      BY <2>3
    <3>2. Cardinality({c}) = 1
      BY FS_Singleton
    <3>3. QED
      BY <3>1, <3>2
  <2>4. QED
    BY <2>1, <2>2, <2>3 DEF MessageInv, AcceptedIsMarked
<1>2. QED
  BY <1>1, InvariantHolds, PTL

(* Meta is called at most MaxSends times for a message.                     *)
THEOREM CallsAreLimited == MessageSpec => []CallsWithinLimit
<1>1. MessageInv => CallsWithinLimit
  BY DEF MessageInv, CallsLeft, CallsWithinLimit
<1>2. QED
  BY <1>1, InvariantHolds, PTL

(* In whatever order reports are handled, a message steps back only when    *)
(* one is applied to a message that has changed since it was read.          *)
THEOREM StatusesStepForward == MessageSpec => NoStepBack
<1> DEFINE Forward == Rank(mstatus') < Rank(mstatus) \/ (mstatus = "READ" /\ mstatus' # "READ") => raced'
<1>1. MessageInv /\ [MessageNext]_wavars => [Forward]_wavars
  <2> SUFFICES ASSUME MessageInv, [MessageNext]_wavars, mstatus' # mstatus PROVE Forward
    <3>1. mstatus \in MessageStatuses => Rank(mstatus) \in Nat
      BY DEF Rank, MessageStatuses
    <3>2. ASSUME MessageInv, mstatus' = mstatus PROVE Forward
      BY <3>1, <3>2 DEF MessageInv, MessageTypeOK, RowTypeOK
    <3>3. QED
      BY <3>2
  <2>1. Rank(mstatus) \in Nat /\ Rank(mstatus') \in Nat
    BY StepHolds DEF MessageInv, MessageTypeOK, RowTypeOK, MessageStatuses, Rank
  <2>2. CASE mstatus \in {"NONE", "QUEUED"}
    <3>1. Rank(mstatus) = 0
      BY <2>2 DEF Rank
    <3>2. QED
      BY <2>1, <2>2, <3>1
  <2>3. ASSUME NEW k \in Reports, Apply(k) PROVE Forward
    BY <2>1, <2>3, ReportsFollow
  <2>4. QED
    BY <2>2, <2>3, OnlyReportsFollow
<1>2. QED
  BY <1>1, InvariantHolds, PTL DEF MessageSpec, NoStepBack

-----------------------------------------------------------------------------
(* A message that waits has a job.                                          *)

(* While a message is open its job has counted no more attempts than it,    *)
(* but for one for each fault, and one that is about to be counted.         *)
AttemptsKeepUp ==
    /\ job = "none" => jattempts = 0
    /\ job # "none" /\ mstatus = "QUEUED" =>
          /\ jattempts <= attempts + faults
          /\ holder = Null \/ pc[holder] \notin {"loading", "loaded"} => jattempts < attempts + faults

(* A message that waits has an attempt left, and a job open.                *)
WaitingIsServed ==
    mstatus = "QUEUED" /\ owner = Null =>
        /\ attempts < MaxSends
        /\ faults < 2 => job \in {"QUEUED", "PROCESSING"}

ServedInv == MessageInv /\ AttemptsKeepUp /\ WaitingIsServed

(* A request hands its message to a new job, or keeps the lock.             *)
LEMMA RequestsServe ==
    ASSUME ServedInv, NEW r \in Requests,
           \/ Look(r) \/ RequestStep(r)
           \/ RecordSentFails(r) \/ ScheduleFails(r) \/ RequestDies(r)
    PROVE  AttemptsKeepUp' /\ WaitingIsServed'
<1> USE WhatsAppConstantsOK DEF ServedInv, MessageInv, Goto, message, jobs, locals, hooks, sendhist
<1>1. CASE Look(r)
  <2> USE <1>1 DEF Look
  <2>1. AttemptsKeepUp'
    BY DEF AttemptsKeepUp, AttemptsCounted, MessageTypeOK, RowTypeOK, LocalTypeOK,
           HistoryTypeOK, AttemptsLock, JobInHand, StoredIsAccepted, InCall, Actors
  <2>2. WaitingIsServed'
    BY DEF WaitingIsServed, AttemptsKeepUp, AttemptsCounted, MessageTypeOK, RowTypeOK,
           LocalTypeOK, HistoryTypeOK, AttemptsLock, JobInHand, StoredIsAccepted, ToldLast,
           InCall, Actors
  <2>3. QED
    BY <2>1, <2>2
<1>2. CASE Create(r)
  <2> USE <1>2 DEF Create
  <2>1. AttemptsKeepUp'
    BY DEF AttemptsKeepUp, AttemptsCounted, MessageTypeOK, RowTypeOK, LocalTypeOK,
           HistoryTypeOK, AttemptsLock, JobInHand, StoredIsAccepted, InCall, Actors
  <2>2. WaitingIsServed'
    BY DEF WaitingIsServed, AttemptsKeepUp, AttemptsCounted, MessageTypeOK, RowTypeOK,
           LocalTypeOK, HistoryTypeOK, AttemptsLock, JobInHand, StoredIsAccepted, ToldLast,
           InCall, Actors
  <2>3. QED
    BY <2>1, <2>2
<1>3. CASE RecordSent(r)
  <2> USE <1>3 DEF RecordSent, Unlock
  <2>1. AttemptsKeepUp'
    BY DEF AttemptsKeepUp, AttemptsCounted, MessageTypeOK, RowTypeOK, LocalTypeOK,
           HistoryTypeOK, AttemptsLock, JobInHand, StoredIsAccepted, InCall, Actors
  <2>2. WaitingIsServed'
    BY DEF WaitingIsServed, AttemptsKeepUp, AttemptsCounted, MessageTypeOK, RowTypeOK,
           LocalTypeOK, HistoryTypeOK, AttemptsLock, JobInHand, StoredIsAccepted, ToldLast,
           InCall, Actors
  <2>3. QED
    BY <2>1, <2>2
<1>4. CASE Schedule(r)
  <2> USE <1>4 DEF Schedule, Unlock
  <2>1. AttemptsKeepUp'
    BY DEF AttemptsKeepUp, AttemptsCounted, MessageTypeOK, RowTypeOK, LocalTypeOK,
           HistoryTypeOK, AttemptsLock, JobInHand, StoredIsAccepted, InCall, Actors
  <2>2. WaitingIsServed'
    BY DEF WaitingIsServed, AttemptsKeepUp, AttemptsCounted, MessageTypeOK, RowTypeOK,
           LocalTypeOK, HistoryTypeOK, AttemptsLock, JobInHand, StoredIsAccepted, ToldLast,
           InCall, Actors
  <2>3. QED
    BY <2>1, <2>2
<1>5. CASE RecordFailed(r)
  <2> USE <1>5 DEF RecordFailed, Unlock
  <2>1. AttemptsKeepUp'
    BY DEF AttemptsKeepUp, AttemptsCounted, MessageTypeOK, RowTypeOK, LocalTypeOK,
           HistoryTypeOK, AttemptsLock, JobInHand, StoredIsAccepted, InCall, Actors
  <2>2. WaitingIsServed'
    BY DEF WaitingIsServed, AttemptsKeepUp, AttemptsCounted, MessageTypeOK, RowTypeOK,
           LocalTypeOK, HistoryTypeOK, AttemptsLock, JobInHand, StoredIsAccepted, ToldLast,
           InCall, Actors
  <2>3. QED
    BY <2>1, <2>2
<1>6. CASE Tell(r)
  <2> USE <1>6 DEF Tell
  <2>1. AttemptsKeepUp'
    BY DEF AttemptsKeepUp, AttemptsCounted, MessageTypeOK, RowTypeOK, LocalTypeOK,
           HistoryTypeOK, AttemptsLock, JobInHand, StoredIsAccepted, InCall, Actors
  <2>2. WaitingIsServed'
    BY DEF WaitingIsServed, AttemptsKeepUp, AttemptsCounted, MessageTypeOK, RowTypeOK,
           LocalTypeOK, HistoryTypeOK, AttemptsLock, JobInHand, StoredIsAccepted, ToldLast,
           InCall, Actors
  <2>3. QED
    BY <2>1, <2>2
<1>7. CASE RecordSentFails(r)
  <2> USE <1>7 DEF RecordSentFails, FaultOf, Fault
  <2>1. AttemptsKeepUp'
    BY DEF AttemptsKeepUp, AttemptsCounted, MessageTypeOK, RowTypeOK, LocalTypeOK,
           HistoryTypeOK, AttemptsLock, JobInHand, StoredIsAccepted, InCall, Actors
  <2>2. WaitingIsServed'
    BY DEF WaitingIsServed, AttemptsKeepUp, AttemptsCounted, MessageTypeOK, RowTypeOK,
           LocalTypeOK, HistoryTypeOK, AttemptsLock, JobInHand, StoredIsAccepted, ToldLast,
           InCall, Actors
  <2>3. QED
    BY <2>1, <2>2
<1>8. CASE ScheduleFails(r)
  <2> USE <1>8 DEF ScheduleFails, FaultOf, Fault
  <2>1. AttemptsKeepUp'
    BY DEF AttemptsKeepUp, AttemptsCounted, MessageTypeOK, RowTypeOK, LocalTypeOK,
           HistoryTypeOK, AttemptsLock, JobInHand, StoredIsAccepted, InCall, Actors
  <2>2. WaitingIsServed'
    BY DEF WaitingIsServed, AttemptsKeepUp, AttemptsCounted, MessageTypeOK, RowTypeOK,
           LocalTypeOK, HistoryTypeOK, AttemptsLock, JobInHand, StoredIsAccepted, ToldLast,
           InCall, Actors
  <2>3. QED
    BY <2>1, <2>2
<1>9. CASE RequestDies(r)
  <2> USE <1>9 DEF RequestDies, FaultOf, Fault
  <2>1. AttemptsKeepUp'
    BY DEF AttemptsKeepUp, AttemptsCounted, MessageTypeOK, RowTypeOK, LocalTypeOK,
           HistoryTypeOK, AttemptsLock, JobInHand, StoredIsAccepted, InCall, Actors
  <2>2. WaitingIsServed'
    BY DEF WaitingIsServed, AttemptsKeepUp, AttemptsCounted, MessageTypeOK, RowTypeOK,
           LocalTypeOK, HistoryTypeOK, AttemptsLock, JobInHand, StoredIsAccepted, ToldLast,
           InCall, Actors
  <2>3. QED
    BY <2>1, <2>2
<1>10. QED
  BY <1>1, <1>2, <1>3, <1>4, <1>5, <1>6, <1>7, <1>8, <1>9 DEF RequestStep

(* A worker that releases the message leaves an attempt to make.            *)
LEMMA WorkersServe ==
    ASSUME ServedInv, NEW w \in Workers,
           \/ StartJob(w) \/ WorkerStep(w)
           \/ SentFails(w) \/ WorkerFails(w) \/ WorkerDies(w)
    PROVE  AttemptsKeepUp' /\ WaitingIsServed'
<1> USE WhatsAppConstantsOK DEF ServedInv, MessageInv, Goto, message, jobs, locals, hooks, sendhist
<1>1. CASE StartJob(w)
  <2> USE <1>1 DEF StartJob
  <2>1. AttemptsKeepUp'
    BY DEF AttemptsKeepUp, AttemptsCounted, MessageTypeOK, RowTypeOK, LocalTypeOK,
           HistoryTypeOK, AttemptsLock, JobInHand, StoredIsAccepted, InCall, Actors
  <2>2. WaitingIsServed'
    BY DEF WaitingIsServed, AttemptsKeepUp, AttemptsCounted, MessageTypeOK, RowTypeOK,
           LocalTypeOK, HistoryTypeOK, AttemptsLock, JobInHand, StoredIsAccepted, ToldLast,
           InCall, Actors
  <2>3. QED
    BY <2>1, <2>2
<1>2. CASE Load(w)
  <2> USE <1>2 DEF Load
  <2>1. AttemptsKeepUp'
    BY DEF AttemptsKeepUp, AttemptsCounted, MessageTypeOK, RowTypeOK, LocalTypeOK,
           HistoryTypeOK, AttemptsLock, JobInHand, StoredIsAccepted, InCall, Actors
  <2>2. WaitingIsServed'
    BY DEF WaitingIsServed, AttemptsKeepUp, AttemptsCounted, MessageTypeOK, RowTypeOK,
           LocalTypeOK, HistoryTypeOK, AttemptsLock, JobInHand, StoredIsAccepted, ToldLast,
           InCall, Actors
  <2>3. QED
    BY <2>1, <2>2
<1>3. CASE AlreadyTerminal(w)
  <2> USE <1>3 DEF AlreadyTerminal, EndJob
  <2>1. AttemptsKeepUp'
    BY DEF AttemptsKeepUp, AttemptsCounted, MessageTypeOK, RowTypeOK, LocalTypeOK,
           HistoryTypeOK, AttemptsLock, JobInHand, StoredIsAccepted, InCall, Actors
  <2>2. WaitingIsServed'
    BY DEF WaitingIsServed, AttemptsKeepUp, AttemptsCounted, MessageTypeOK, RowTypeOK,
           LocalTypeOK, HistoryTypeOK, AttemptsLock, JobInHand, StoredIsAccepted, ToldLast,
           InCall, Actors
  <2>3. QED
    BY <2>1, <2>2
<1>4. CASE Claim(w)
  <2> USE <1>4 DEF Claim, Claimable
  <2>1. AttemptsKeepUp'
    BY DEF AttemptsKeepUp, AttemptsCounted, MessageTypeOK, RowTypeOK, LocalTypeOK,
           HistoryTypeOK, AttemptsLock, JobInHand, StoredIsAccepted, InCall, Actors
  <2>2. WaitingIsServed'
    BY DEF WaitingIsServed, AttemptsKeepUp, AttemptsCounted, MessageTypeOK, RowTypeOK,
           LocalTypeOK, HistoryTypeOK, AttemptsLock, JobInHand, StoredIsAccepted, ToldLast,
           InCall, Actors
  <2>3. QED
    BY <2>1, <2>2
<1>5. CASE Contended(w)
  <2> USE <1>5 DEF Contended, EndJob, Claimable
  <2>1. AttemptsKeepUp'
    BY DEF AttemptsKeepUp, AttemptsCounted, MessageTypeOK, RowTypeOK, LocalTypeOK,
           HistoryTypeOK, AttemptsLock, JobInHand, StoredIsAccepted, InCall, Actors
  <2>2. WaitingIsServed'
    BY DEF WaitingIsServed, AttemptsKeepUp, AttemptsCounted, MessageTypeOK, RowTypeOK,
           LocalTypeOK, HistoryTypeOK, AttemptsLock, JobInHand, StoredIsAccepted, ToldLast,
           InCall, Actors
  <2>3. QED
    BY <2>1, <2>2
<1>6. CASE Mark(w)
  <2> USE <1>6 DEF Mark, EndJob
  <2>1. AttemptsKeepUp'
    BY DEF AttemptsKeepUp, AttemptsCounted, MessageTypeOK, RowTypeOK, LocalTypeOK,
           HistoryTypeOK, AttemptsLock, JobInHand, StoredIsAccepted, InCall, Actors
  <2>2. WaitingIsServed'
    BY DEF WaitingIsServed, AttemptsKeepUp, AttemptsCounted, MessageTypeOK, RowTypeOK,
           LocalTypeOK, HistoryTypeOK, AttemptsLock, JobInHand, StoredIsAccepted, ToldLast,
           InCall, Actors
  <2>3. QED
    BY <2>1, <2>2
<1>7. CASE Release(w)
  <2> USE <1>7 DEF Release, EndJob, Owned, Unlock, MayRetry
  <2>1. AttemptsKeepUp'
    BY DEF AttemptsKeepUp, AttemptsCounted, MessageTypeOK, RowTypeOK, LocalTypeOK,
           HistoryTypeOK, AttemptsLock, JobInHand, StoredIsAccepted, InCall, Actors
  <2>2. WaitingIsServed'
    BY DEF WaitingIsServed, AttemptsKeepUp, AttemptsCounted, MessageTypeOK, RowTypeOK,
           LocalTypeOK, HistoryTypeOK, AttemptsLock, JobInHand, StoredIsAccepted, ToldLast,
           InCall, Actors
  <2>3. QED
    BY <2>1, <2>2
<1>8. CASE Fail(w)
  <2> USE <1>8 DEF Fail, EndJob, Owned, Unlock
  <2>1. AttemptsKeepUp'
    BY DEF AttemptsKeepUp, AttemptsCounted, MessageTypeOK, RowTypeOK, LocalTypeOK,
           HistoryTypeOK, AttemptsLock, JobInHand, StoredIsAccepted, InCall, Actors
  <2>2. WaitingIsServed'
    BY DEF WaitingIsServed, AttemptsKeepUp, AttemptsCounted, MessageTypeOK, RowTypeOK,
           LocalTypeOK, HistoryTypeOK, AttemptsLock, JobInHand, StoredIsAccepted, ToldLast,
           InCall, Actors
  <2>3. QED
    BY <2>1, <2>2
<1>9. CASE Sent(w)
  <2> USE <1>9 DEF Sent, Owned, Unlock
  <2>1. AttemptsKeepUp'
    BY DEF AttemptsKeepUp, AttemptsCounted, MessageTypeOK, RowTypeOK, LocalTypeOK,
           HistoryTypeOK, AttemptsLock, JobInHand, StoredIsAccepted, InCall, Actors
  <2>2. WaitingIsServed'
    BY DEF WaitingIsServed, AttemptsKeepUp, AttemptsCounted, MessageTypeOK, RowTypeOK,
           LocalTypeOK, HistoryTypeOK, AttemptsLock, JobInHand, StoredIsAccepted, ToldLast,
           InCall, Actors
  <2>3. QED
    BY <2>1, <2>2
<1>10. CASE TellByWorker(w)
  <2> USE <1>10 DEF TellByWorker, EndJob
  <2>1. AttemptsKeepUp'
    BY DEF AttemptsKeepUp, AttemptsCounted, MessageTypeOK, RowTypeOK, LocalTypeOK,
           HistoryTypeOK, AttemptsLock, JobInHand, StoredIsAccepted, InCall, Actors
  <2>2. WaitingIsServed'
    BY DEF WaitingIsServed, AttemptsKeepUp, AttemptsCounted, MessageTypeOK, RowTypeOK,
           LocalTypeOK, HistoryTypeOK, AttemptsLock, JobInHand, StoredIsAccepted, ToldLast,
           InCall, Actors
  <2>3. QED
    BY <2>1, <2>2
<1>11. CASE SentFails(w)
  <2> USE <1>11 DEF SentFails, EndJob, FaultOf, Fault
  <2>1. AttemptsKeepUp'
    BY DEF AttemptsKeepUp, AttemptsCounted, MessageTypeOK, RowTypeOK, LocalTypeOK,
           HistoryTypeOK, AttemptsLock, JobInHand, StoredIsAccepted, InCall, Actors
  <2>2. WaitingIsServed'
    BY DEF WaitingIsServed, AttemptsKeepUp, AttemptsCounted, MessageTypeOK, RowTypeOK,
           LocalTypeOK, HistoryTypeOK, AttemptsLock, JobInHand, StoredIsAccepted, ToldLast,
           InCall, Actors
  <2>3. QED
    BY <2>1, <2>2
<1>12. CASE WorkerFails(w)
  <2> USE <1>12 DEF WorkerFails, EndJob, FaultOf, Fault
  <2>1. AttemptsKeepUp'
    BY DEF AttemptsKeepUp, AttemptsCounted, MessageTypeOK, RowTypeOK, LocalTypeOK,
           HistoryTypeOK, AttemptsLock, JobInHand, StoredIsAccepted, InCall, Actors
  <2>2. WaitingIsServed'
    BY DEF WaitingIsServed, AttemptsKeepUp, AttemptsCounted, MessageTypeOK, RowTypeOK,
           LocalTypeOK, HistoryTypeOK, AttemptsLock, JobInHand, StoredIsAccepted, ToldLast,
           InCall, Actors
  <2>3. QED
    BY <2>1, <2>2
<1>13. CASE WorkerDies(w)
  <2> USE <1>13 DEF WorkerDies, FaultOf, Fault
  <2>1. AttemptsKeepUp'
    BY DEF AttemptsKeepUp, AttemptsCounted, MessageTypeOK, RowTypeOK, LocalTypeOK,
           HistoryTypeOK, AttemptsLock, JobInHand, StoredIsAccepted, InCall, Actors
  <2>2. WaitingIsServed'
    BY DEF WaitingIsServed, AttemptsKeepUp, AttemptsCounted, MessageTypeOK, RowTypeOK,
           LocalTypeOK, HistoryTypeOK, AttemptsLock, JobInHand, StoredIsAccepted, ToldLast,
           InCall, Actors
  <2>3. QED
    BY <2>1, <2>2
<1>14. QED
  BY <1>1, <1>2, <1>3, <1>4, <1>5, <1>6, <1>7, <1>8, <1>9, <1>10, <1>11, <1>12, <1>13 DEF WorkerStep

(* Calls, the reconciliation and reports leave a waiting message its job.   *)
LEMMA OthersServe ==
    ASSUME ServedInv, \/ \E a \in Actors : Call(a)
           \/ ReconcileMessage \/ ReconcileJob
           \/ \E k \in Reports :
                 \/ \E c \in accepted : Receive(k, c)
                 \/ Apply(k) \/ TellReport(k) \/ FinishReport(k)
                 \/ \E status \in {"PENDING", "FAILED"} : ReportFails(k, status)
    PROVE  AttemptsKeepUp' /\ WaitingIsServed'
<1> USE WhatsAppConstantsOK DEF ServedInv, MessageInv, Goto, message, jobs, locals, hooks, sendhist
<1>1. CASE \E a \in Actors : Call(a)
  <2> USE <1>1 DEF Call, CallMeta
  <2>1. AttemptsKeepUp'
    BY DEF AttemptsKeepUp, AttemptsCounted, MessageTypeOK, RowTypeOK, LocalTypeOK,
           HistoryTypeOK, AttemptsLock, JobInHand, StoredIsAccepted, InCall, Actors
  <2>2. WaitingIsServed'
    BY DEF WaitingIsServed, AttemptsKeepUp, AttemptsCounted, MessageTypeOK, RowTypeOK,
           LocalTypeOK, HistoryTypeOK, AttemptsLock, JobInHand, StoredIsAccepted, ToldLast,
           InCall, Actors
  <2>3. QED
    BY <2>1, <2>2
<1>2. CASE ReconcileMessage
  <2> USE <1>2 DEF ReconcileMessage, Abandoned, Unlock
  <2>1. AttemptsKeepUp'
    BY DEF AttemptsKeepUp, AttemptsCounted, MessageTypeOK, RowTypeOK, LocalTypeOK,
           HistoryTypeOK, AttemptsLock, JobInHand, StoredIsAccepted, InCall, Actors
  <2>2. WaitingIsServed'
    BY DEF WaitingIsServed, AttemptsKeepUp, AttemptsCounted, MessageTypeOK, RowTypeOK,
           LocalTypeOK, HistoryTypeOK, AttemptsLock, JobInHand, StoredIsAccepted, ToldLast,
           InCall, Actors
  <2>3. QED
    BY <2>1, <2>2
<1>3. CASE ReconcileJob
  <2> USE <1>3 DEF ReconcileJob
  <2>1. AttemptsKeepUp'
    BY DEF AttemptsKeepUp, AttemptsCounted, MessageTypeOK, RowTypeOK, LocalTypeOK,
           HistoryTypeOK, AttemptsLock, JobInHand, StoredIsAccepted, InCall, Actors
  <2>2. WaitingIsServed'
    BY DEF WaitingIsServed, AttemptsKeepUp, AttemptsCounted, MessageTypeOK, RowTypeOK,
           LocalTypeOK, HistoryTypeOK, AttemptsLock, JobInHand, StoredIsAccepted, ToldLast,
           InCall, Actors
  <2>3. QED
    BY <2>1, <2>2
<1>4. CASE \E k \in Reports : \E c \in accepted : Receive(k, c)
  <2> USE <1>4 DEF Receive
  <2>1. AttemptsKeepUp'
    BY DEF AttemptsKeepUp, AttemptsCounted, MessageTypeOK, RowTypeOK, LocalTypeOK,
           HistoryTypeOK, AttemptsLock, JobInHand, StoredIsAccepted, InCall, Actors
  <2>2. WaitingIsServed'
    BY DEF WaitingIsServed, AttemptsKeepUp, AttemptsCounted, MessageTypeOK, RowTypeOK,
           LocalTypeOK, HistoryTypeOK, AttemptsLock, JobInHand, StoredIsAccepted, ToldLast,
           InCall, Actors
  <2>3. QED
    BY <2>1, <2>2
<1>5. CASE \E k \in Reports : Apply(k)
  <2> USE <1>5 DEF Apply, StatusOf, ReportKinds, StoredIsAccepted
  <2>1. AttemptsKeepUp'
    BY DEF AttemptsKeepUp, AttemptsCounted, MessageTypeOK, RowTypeOK, LocalTypeOK,
           HistoryTypeOK, AttemptsLock, JobInHand, StoredIsAccepted, InCall, Actors
  <2>2. WaitingIsServed'
    BY DEF WaitingIsServed, AttemptsKeepUp, AttemptsCounted, MessageTypeOK, RowTypeOK,
           LocalTypeOK, HistoryTypeOK, AttemptsLock, JobInHand, StoredIsAccepted, ToldLast,
           InCall, Actors
  <2>3. QED
    BY <2>1, <2>2
<1>6. CASE \E k \in Reports : TellReport(k)
  <2> USE <1>6 DEF TellReport, Fault
  <2>1. AttemptsKeepUp'
    BY DEF AttemptsKeepUp, AttemptsCounted, MessageTypeOK, RowTypeOK, LocalTypeOK,
           HistoryTypeOK, AttemptsLock, JobInHand, StoredIsAccepted, InCall, Actors
  <2>2. WaitingIsServed'
    BY DEF WaitingIsServed, AttemptsKeepUp, AttemptsCounted, MessageTypeOK, RowTypeOK,
           LocalTypeOK, HistoryTypeOK, AttemptsLock, JobInHand, StoredIsAccepted, ToldLast,
           InCall, Actors
  <2>3. QED
    BY <2>1, <2>2
<1>7. CASE \E k \in Reports : FinishReport(k)
  <2> USE <1>7 DEF FinishReport
  <2>1. AttemptsKeepUp'
    BY DEF AttemptsKeepUp, AttemptsCounted, MessageTypeOK, RowTypeOK, LocalTypeOK,
           HistoryTypeOK, AttemptsLock, JobInHand, StoredIsAccepted, InCall, Actors
  <2>2. WaitingIsServed'
    BY DEF WaitingIsServed, AttemptsKeepUp, AttemptsCounted, MessageTypeOK, RowTypeOK,
           LocalTypeOK, HistoryTypeOK, AttemptsLock, JobInHand, StoredIsAccepted, ToldLast,
           InCall, Actors
  <2>3. QED
    BY <2>1, <2>2
<1>8. CASE \E k \in Reports, s \in {"PENDING", "FAILED"} : ReportFails(k, s)
  <2> USE <1>8 DEF ReportFails, Fault
  <2>1. AttemptsKeepUp'
    BY DEF AttemptsKeepUp, AttemptsCounted, MessageTypeOK, RowTypeOK, LocalTypeOK,
           HistoryTypeOK, AttemptsLock, JobInHand, StoredIsAccepted, InCall, Actors
  <2>2. WaitingIsServed'
    BY DEF WaitingIsServed, AttemptsKeepUp, AttemptsCounted, MessageTypeOK, RowTypeOK,
           LocalTypeOK, HistoryTypeOK, AttemptsLock, JobInHand, StoredIsAccepted, ToldLast,
           InCall, Actors
  <2>3. QED
    BY <2>1, <2>2
<1>9. QED
  BY <1>1, <1>2, <1>3, <1>4, <1>5, <1>6, <1>7, <1>8

LEMMA ServedHolds == MessageSpec => [](AttemptsKeepUp /\ WaitingIsServed)
<1>1. MessageInit => AttemptsKeepUp /\ WaitingIsServed
  BY DEF MessageInit, AttemptsKeepUp, WaitingIsServed
<1>2. ServedInv /\ [MessageNext]_wavars => (AttemptsKeepUp /\ WaitingIsServed)'
  <2> SUFFICES ASSUME ServedInv, [MessageNext]_wavars
               PROVE  AttemptsKeepUp' /\ WaitingIsServed'
    OBVIOUS
  <2>1. CASE UNCHANGED wavars
    BY <2>1 DEF wavars, message, jobs, locals, ServedInv, AttemptsKeepUp, WaitingIsServed
  <2>2. CASE MessageNext
    BY <2>2, RequestsServe, WorkersServe, OthersServe DEF MessageNext
  <2>3. QED
    BY <2>1, <2>2
<1>3. QED
  BY <1>1, <1>2, InvariantHolds, PTL DEF MessageSpec, ServedInv

(* A message waiting for its retry has a job open, until two faults have    *)
(* used up the one attempt the job has more than the message.               *)
THEOREM WaitingMessagesHaveJobs == MessageSpec => []WaitingHasJob
<1>1. WaitingIsServed => WaitingHasJob
  BY DEF WaitingIsServed, WaitingHasJob
<1>2. QED
  BY <1>1, ServedHolds, PTL

-----------------------------------------------------------------------------
(* What is told is true.                                                    *)

(* While nothing came between an accepted call and its record, the message  *)
(* is with whoever was answered, or is stored: nobody gives it up.          *)
GivenUpUntaken ==
    accepted = {} \/ unclear \/ lost \/
        /\ mstatus = "QUEUED" => owner # Null /\ pc[owner] = "accepted"
        /\ mstatus = "FAILED" => stored # 0
        /\ "failed" \notin told
        /\ \A a \in Actors : pc[a] = "tell" => call[a] # 0 /\ stored = call[a]

TruthInv == MessageInv /\ GivenUpUntaken

(* A request gives up only what was rejected or not answered.               *)
LEMMA RequestsAreTruthful ==
    ASSUME TruthInv, NEW r \in Requests,
           \/ Look(r) \/ RequestStep(r)
           \/ RecordSentFails(r) \/ ScheduleFails(r) \/ RequestDies(r)
    PROVE  GivenUpUntaken'
<1> USE DEF TruthInv, MessageInv, GivenUpUntaken, Goto, message, jobs, locals, hooks, sendhist,
            MessageTypeOK, RowTypeOK, LocalTypeOK, HistoryTypeOK, AttemptsLock, AcceptedIsMarked,
            StoredIsAccepted, ToldLast, InCall, Actors
<1>1. CASE Look(r)
  BY <1>1 DEF Look
<1>2. CASE Create(r)
  BY <1>2 DEF Create
<1>3. CASE RecordSent(r)
  BY <1>3 DEF RecordSent, Unlock
<1>4. CASE RecordSentFails(r)
  BY <1>4 DEF RecordSentFails, FaultOf
<1>5. CASE Schedule(r)
  BY <1>5 DEF Schedule, Unlock
<1>6. CASE ScheduleFails(r)
  BY <1>6 DEF ScheduleFails, FaultOf
<1>7. CASE RecordFailed(r)
  BY <1>7 DEF RecordFailed, Unlock
<1>8. CASE Tell(r)
  BY <1>8 DEF Tell
<1>9. CASE RequestDies(r)
  BY <1>9 DEF RequestDies, FaultOf
<1>10. QED
  BY <1>1, <1>2, <1>3, <1>4, <1>5, <1>6, <1>7, <1>8, <1>9 DEF RequestStep

(* So does a worker, and it claims only what no call was accepted for.      *)
LEMMA WorkersAreTruthful ==
    ASSUME TruthInv, NEW w \in Workers,
           \/ StartJob(w) \/ WorkerStep(w)
           \/ SentFails(w) \/ WorkerFails(w) \/ WorkerDies(w)
    PROVE  GivenUpUntaken'
<1> USE DEF TruthInv, MessageInv, GivenUpUntaken, Goto, message, jobs, locals, hooks, sendhist,
            MessageTypeOK, RowTypeOK, LocalTypeOK, HistoryTypeOK, AttemptsLock, AcceptedIsMarked,
            StoredIsAccepted, ToldLast, InCall, Actors
<1>1. CASE StartJob(w)
  BY <1>1 DEF StartJob
<1>2. CASE Load(w)
  BY <1>2 DEF Load
<1>3. CASE AlreadyTerminal(w)
  BY <1>3 DEF AlreadyTerminal, EndJob
<1>4. CASE Claim(w)
  BY <1>4 DEF Claim, Claimable, Abandoned, Ended
<1>5. CASE Contended(w)
  BY <1>5 DEF Contended, EndJob
<1>6. CASE Mark(w)
  BY <1>6 DEF Mark, EndJob
<1>7. CASE Release(w)
  BY <1>7 DEF Release, EndJob, Owned, Unlock
<1>8. CASE Fail(w)
  BY <1>8 DEF Fail, EndJob, Owned, Unlock
<1>9. CASE Sent(w)
  BY <1>9 DEF Sent, Owned, Unlock
<1>10. CASE TellByWorker(w)
  BY <1>10 DEF TellByWorker, EndJob
<1>11. CASE SentFails(w)
  BY <1>11 DEF SentFails, EndJob, FaultOf
<1>12. CASE WorkerFails(w)
  BY <1>12 DEF WorkerFails, EndJob, FaultOf
<1>13. CASE WorkerDies(w)
  BY <1>13 DEF WorkerDies, FaultOf
<1>14. QED
  BY <1>1, <1>2, <1>3, <1>4, <1>5, <1>6, <1>7, <1>8, <1>9,
      <1>10, <1>11, <1>12, <1>13 DEF WorkerStep

(* A call leaves the message with its caller, reconciliation takes it from  *)
(* the dead, and a report finds it stored.                                  *)
LEMMA OthersAreTruthful ==
    ASSUME TruthInv,
           \/ \E a \in Actors : Call(a)
           \/ ReconcileMessage \/ ReconcileJob
           \/ \E k \in Reports :
                 \/ \E c \in accepted : Receive(k, c)
                 \/ Apply(k) \/ TellReport(k) \/ FinishReport(k)
                 \/ \E status \in {"PENDING", "FAILED"} : ReportFails(k, status)
    PROVE  GivenUpUntaken'
<1> USE DEF TruthInv, MessageInv, GivenUpUntaken, Goto, message, jobs, locals, hooks, sendhist,
            MessageTypeOK, RowTypeOK, LocalTypeOK, HistoryTypeOK, AttemptsLock, AcceptedIsMarked,
            StoredIsAccepted, ToldLast, InCall, Actors
<1>1. CASE \E a \in Actors : Call(a)
  <2>1. PICK a \in Actors, outcome \in {"accepted", "transient", "rejected"}, took \in BOOLEAN :
            CallMeta(a, outcome, took)
    BY <1>1 DEF Call
  <2>2. pc[a] = "calling" /\ owner = a /\ mstatus = "QUEUED"
    BY <2>1 DEF CallMeta
  <2>3. /\ accepted' = IF took THEN accepted \cup {calls + 1} ELSE accepted
        /\ unclear' = (unclear \/ (took /\ outcome = "transient"))
        /\ lost' = (lost \/ (took /\ outcome = "rejected"))
        /\ pc' = [pc EXCEPT ![a] = outcome]
        /\ UNCHANGED <<mstatus, owner, told>>
    BY <2>1 DEF CallMeta
  <2>4. told = {} /\ \A b \in Actors : pc'[b] # "tell"
    BY <2>2, <2>3
  <2>5. CASE ~took \/ outcome # "accepted" \/ unclear \/ lost
    BY <2>2, <2>3, <2>5
  <2>6. CASE outcome = "accepted"
    BY <2>2, <2>3, <2>4, <2>6
  <2>7. QED
    BY <2>3, <2>5, <2>6
<1>2. CASE ReconcileMessage
  BY <1>2 DEF ReconcileMessage, Abandoned, Ended, Unlock
<1>3. CASE ReconcileJob
  BY <1>3 DEF ReconcileJob
<1>4. CASE \E k \in Reports : \E c \in accepted : Receive(k, c)
  BY <1>4 DEF Receive
<1>5. CASE \E k \in Reports : Apply(k)
  <2>1. PICK k \in Reports : Apply(k)
    BY <1>5
  <2>2. StatusOf(k) \in {"SENT", "DELIVERED", "READ", "FAILED"}
    BY WhatsAppConstantsOK DEF StatusOf, ReportKinds
  <2>3. stored # 0 /\ mstatus' # "QUEUED"
    BY <2>1, <2>2 DEF Apply
  <2>4. UNCHANGED <<accepted, unclear, lost, told, pc, call, stored>>
    BY <2>1 DEF Apply
  <2>5. QED
    BY <2>3, <2>4
<1>6. CASE \E k \in Reports : TellReport(k)
  BY <1>6 DEF TellReport
<1>7. CASE \E k \in Reports : FinishReport(k)
  BY <1>7 DEF FinishReport
<1>8. CASE \E k \in Reports, s \in {"PENDING", "FAILED"} : ReportFails(k, s)
  BY <1>8 DEF ReportFails
<1>9. QED
  BY <1>1, <1>2, <1>3, <1>4, <1>5, <1>6, <1>7, <1>8

LEMMA GivenUpHolds == MessageSpec => []GivenUpUntaken
<1>1. MessageInit => GivenUpUntaken
  BY DEF MessageInit, GivenUpUntaken
<1>2. TruthInv /\ [MessageNext]_wavars => GivenUpUntaken'
  <2> SUFFICES ASSUME TruthInv, [MessageNext]_wavars
               PROVE  GivenUpUntaken'
    OBVIOUS
  <2>1. CASE UNCHANGED wavars
    BY <2>1 DEF wavars, message, locals, sendhist, TruthInv, GivenUpUntaken
  <2>2. CASE MessageNext
    BY <2>2, RequestsAreTruthful, WorkersAreTruthful, OthersAreTruthful DEF MessageNext
  <2>3. QED
    BY <2>1, <2>2
<1>3. QED
  BY <1>1, <1>2, InvariantHolds, PTL DEF MessageSpec, TruthInv

(* A report passed on is of the stored call; what is told, or about to be   *)
(* told, as failed has no call stored.                                      *)
NewsFitsStored ==
    /\ relayed # {} => stored # 0
    /\ "failed" \in told => stored = 0
    /\ \A a \in Actors : pc[a] = "tell" => stored = 0 \/ stored = call[a]

(* A call is stored while the message is QUEUED, before anything is told.   *)
LEMMA NewsStep ==
    ASSUME MessageInv, NewsFitsStored, [MessageNext]_wavars
    PROVE  NewsFitsStored'
<1> USE DEF MessageInv, NewsFitsStored, Goto, message, jobs, locals, hooks, sendhist,
            MessageTypeOK, RowTypeOK, LocalTypeOK, HistoryTypeOK, AttemptsLock,
            StoredIsAccepted, ToldLast, InCall, Actors
<1>1. CASE UNCHANGED wavars
  BY <1>1 DEF wavars
<1>2. ASSUME NEW r \in Requests,
             \/ Look(r) \/ Create(r) \/ Schedule(r)
             \/ RecordSentFails(r) \/ ScheduleFails(r) \/ RequestDies(r)
      PROVE  NewsFitsStored'
  BY <1>2 DEF Look, Create, Schedule, RecordSentFails, ScheduleFails, RequestDies
<1>3. ASSUME NEW r \in Requests, RecordSent(r) \/ RecordFailed(r)
      PROVE  NewsFitsStored'
  BY <1>3 DEF RecordSent, RecordFailed
<1>4. ASSUME NEW r \in Requests, Tell(r) PROVE NewsFitsStored'
  BY <1>4 DEF Tell
<1>5. ASSUME NEW w \in Workers,
             \/ StartJob(w) \/ Load(w) \/ AlreadyTerminal(w) \/ Claim(w) \/ Contended(w)
             \/ Mark(w) \/ Release(w) \/ SentFails(w) \/ WorkerFails(w) \/ WorkerDies(w)
      PROVE  NewsFitsStored'
  BY <1>5 DEF StartJob, Load, AlreadyTerminal, Claim, Contended, Mark, Release, SentFails,
         WorkerFails, WorkerDies, EndJob
<1>6. ASSUME NEW w \in Workers, Fail(w) \/ Sent(w) PROVE NewsFitsStored'
  BY <1>6 DEF Fail, Sent, EndJob, Owned
<1>7. ASSUME NEW w \in Workers, TellByWorker(w) PROVE NewsFitsStored'
  BY <1>7 DEF TellByWorker, EndJob
<1>8. ASSUME NEW a \in Actors, Call(a) PROVE NewsFitsStored'
  BY <1>8 DEF Call, CallMeta
<1>9. CASE ReconcileMessage \/ ReconcileJob
  BY <1>9 DEF ReconcileMessage, ReconcileJob
<1>10. ASSUME NEW k \in Reports,
              \/ \E c \in accepted : Receive(k, c)
              \/ Apply(k) \/ TellReport(k) \/ FinishReport(k)
              \/ \E status \in {"PENDING", "FAILED"} : ReportFails(k, status)
       PROVE  NewsFitsStored'
  BY <1>10 DEF Receive, Apply, TellReport, FinishReport, ReportFails
<1>11. QED
  BY <1>1, <1>2, <1>3, <1>4, <1>5, <1>6, <1>7, <1>8, <1>9, <1>10
     DEF MessageNext, RequestStep, WorkerStep

LEMMA NewsFits == MessageSpec => []NewsFitsStored
<1>1. MessageInit => NewsFitsStored
  BY DEF MessageInit, NewsFitsStored
<1>2. MessageInv /\ NewsFitsStored /\ [MessageNext]_wavars => NewsFitsStored'
  BY NewsStep
<1>3. QED
  BY <1>1, <1>2, InvariantHolds, PTL DEF MessageSpec

(* The sender of a message tells one thing of it, and it is true: sent with *)
(* the id of the call that Meta accepted, or failed where it accepted none  *)
(* - unless an answer was lost or unreadable, or could not be recorded; and *)
(* no report is passed on of a message that was told as failed.             *)
THEOREM CustomerIsToldTheTruth == MessageSpec => []ToldTheTruth
<1>1. MessageInv /\ GivenUpUntaken /\ NewsFitsStored => ToldTheTruth
  <2> SUFFICES ASSUME MessageInv, GivenUpUntaken, NewsFitsStored PROVE ToldTheTruth
    OBVIOUS
  <2>1. SendersAgree /\ NewsIsOfStored
    BY DEF MessageInv, ToldLast, StoredIsAccepted, NewsFitsStored, SendersAgree, NewsIsOfStored
  <2>2. FailureIsLast
    BY DEF NewsFitsStored, FailureIsLast
  <2>3. FailedIsUntaken
    BY DEF GivenUpUntaken, FailedIsUntaken
  <2>4. QED
    BY <2>1, <2>2, <2>3 DEF ToldTheTruth
<1>2. QED
  BY <1>1, GivenUpHolds, NewsFits, InvariantHolds, PTL
=============================================================================
