--------------------------- MODULE EmailEventsProofs ---------------------------
(***************************************************************************)
(* Proofs about EmailEvents: types; that a report that was processed has   *)
(* put the address on the suppression list; that a delivery keeps its      *)
(* outcome; and that a recipient is counted once under each metric - for   *)
(* any number of deliveries, events, invocations and opens.                *)
(***************************************************************************)
EXTENDS EmailEvents, TLAPS

(* An invocation writes a status only for an event that means one, and      *)
(* counts only what is counted.                                             *)
StatusesMeant ==
    \A w \in Invocations :
        /\ pc[w] \in {"apply", "recipient"} => Target(kind[cur[w]]) # "NONE"
        /\ pc[w] \in {"complaint", "complain"} => kind[cur[w]] = "COMPLAINT"
        /\ pc[w] = "count" => Target(kind[cur[w]]) \in Outcomes

(* What a write by id was decided on allows it.                             *)
ReadsAllow ==
    /\ \A w \in Invocations : pc[w] = "apply" => CanTransition(seen[w], Target(kind[cur[w]]))
    /\ \A q \in Requests : qpc[q] = "delivery" => qseen[q] \in {"QUEUED", "PROCESSING", "SENT"}
    /\ \A d \in Deliveries : spc[d] = "looked" => sseen[d] \in Unsent

(* An invocation that is done with an event has suppressed its address.     *)
FinishedIsSuppressed ==
    \A w \in Invocations :
        pc[w] = "finish" /\ Suppresses(kind[cur[w]]) => EventOf[cur[w]] \in suppressed

EventInv ==
    /\ EventTypeOK /\ StatusesMeant /\ ReadsAllow /\ FinishedIsSuppressed /\ ProcessedIsSuppressed

LEMMA TargetType ==
    \A k \in EventKinds :
        /\ Target(k) \in Outcomes \cup {"SENT", "FAILED", "NONE"}
        /\ k = "COMPLAINT" => Target(k) = "COMPLAINED"
BY DEF EventKinds, Target, Outcomes

LEMMA InitHolds == Init => EventInv
<1> SUFFICES ASSUME Init PROVE EventInv
  OBVIOUS
<1> USE EventConstantsOK DEF Init
<1>1. MailTypeOK
  BY DEF MailTypeOK, Statuses, RStatuses
<1>2. SenderTypeOK
  BY DEF SenderTypeOK, Statuses, SPhases
<1>3. WorkerTypeOK
  BY DEF WorkerTypeOK, EventStates, Phases, Statuses, RStatuses
<1>4. TrackingTypeOK
  BY DEF TrackingTypeOK, QPhases, Statuses, RStatuses
<1>5. StatusesMeant /\ ReadsAllow /\ FinishedIsSuppressed /\ ProcessedIsSuppressed
  BY DEF StatusesMeant, ReadsAllow, FinishedIsSuppressed, ProcessedIsSuppressed
<1>6. QED
  BY <1>1, <1>2, <1>3, <1>4, <1>5 DEF EventInv, EventTypeOK

-----------------------------------------------------------------------------
(* One step of each process keeps the invariant.                            *)

LEMMA SenderSteps ==
    ASSUME EventInv, NEW d \in Deliveries,
           \/ Look(d) \/ RefuseSuppressed(d) \/ Dispatch(d) \/ ClaimLost(d)
           \/ \E retryable \in BOOLEAN : SendFails(d, retryable)
           \/ RecordDelivery(d) \/ RecordRecipient(d) \/ BookkeepingFails(d)
           \/ SenderDies(d) \/ ReconcileRecipient(d) \/ ReconcileDelivery(d)
    PROVE  EventInv'
<1> USE EventConstantsOK DEF EventInv
<1>1. CASE Look(d)
  <2> USE <1>1 DEF Look, mail, events, sender, worker, tracking, Unclaim, Overtakes, Increment
  <2>1. MailTypeOK'
    BY TargetType DEF EventTypeOK, MailTypeOK, SenderTypeOK, WorkerTypeOK, TrackingTypeOK,
           Statuses, RStatuses, SPhases, EventStates, Phases, QPhases, Metrics,
           StatusesMeant, Outcomes, Unsent
  <2>2. SenderTypeOK'
    BY DEF EventTypeOK, MailTypeOK, SenderTypeOK, WorkerTypeOK, TrackingTypeOK, Statuses,
           RStatuses, SPhases, EventStates, Phases, QPhases, Metrics, StatusesMeant,
           Outcomes, Unsent
  <2>3. WorkerTypeOK'
    BY DEF EventTypeOK, MailTypeOK, SenderTypeOK, WorkerTypeOK, TrackingTypeOK, Statuses,
           RStatuses, SPhases, EventStates, Phases, QPhases, Metrics, StatusesMeant,
           Outcomes, Unsent
  <2>4. TrackingTypeOK'
    BY DEF EventTypeOK, MailTypeOK, SenderTypeOK, WorkerTypeOK, TrackingTypeOK, Statuses,
           RStatuses, SPhases, EventStates, Phases, QPhases, Metrics, StatusesMeant,
           Outcomes, Unsent
  <2>5. StatusesMeant'
    BY TargetType DEF StatusesMeant, EventTypeOK, MailTypeOK, SenderTypeOK, WorkerTypeOK,
           TrackingTypeOK, Outcomes
  <2>6. ReadsAllow'
    BY DEF ReadsAllow, EventTypeOK, MailTypeOK, SenderTypeOK, WorkerTypeOK, TrackingTypeOK
  <2>7. FinishedIsSuppressed'
    BY DEF FinishedIsSuppressed, EventTypeOK, MailTypeOK, SenderTypeOK, WorkerTypeOK,
           TrackingTypeOK
  <2>8. ProcessedIsSuppressed'
    BY DEF ProcessedIsSuppressed, FinishedIsSuppressed, EventTypeOK, MailTypeOK,
           SenderTypeOK, WorkerTypeOK, TrackingTypeOK
  <2>9. QED
    BY <2>1, <2>2, <2>3, <2>4, <2>5, <2>6, <2>7, <2>8 DEF EventTypeOK
<1>2. CASE RefuseSuppressed(d)
  <2> USE <1>2 DEF RefuseSuppressed, mail, events, sender, worker, tracking, Unclaim, Overtakes, Increment
  <2>1. MailTypeOK'
    BY TargetType DEF EventTypeOK, MailTypeOK, SenderTypeOK, WorkerTypeOK, TrackingTypeOK,
           Statuses, RStatuses, SPhases, EventStates, Phases, QPhases, Metrics,
           StatusesMeant, Outcomes
  <2>2. SenderTypeOK'
    BY DEF EventTypeOK, MailTypeOK, SenderTypeOK, WorkerTypeOK, TrackingTypeOK, Statuses,
           RStatuses, SPhases, EventStates, Phases, QPhases, Metrics, StatusesMeant,
           Outcomes
  <2>3. WorkerTypeOK'
    BY DEF EventTypeOK, MailTypeOK, SenderTypeOK, WorkerTypeOK, TrackingTypeOK, Statuses,
           RStatuses, SPhases, EventStates, Phases, QPhases, Metrics, StatusesMeant,
           Outcomes
  <2>4. TrackingTypeOK'
    BY DEF EventTypeOK, MailTypeOK, SenderTypeOK, WorkerTypeOK, TrackingTypeOK, Statuses,
           RStatuses, SPhases, EventStates, Phases, QPhases, Metrics, StatusesMeant,
           Outcomes
  <2>5. StatusesMeant'
    BY TargetType DEF StatusesMeant, EventTypeOK, MailTypeOK, SenderTypeOK, WorkerTypeOK,
           TrackingTypeOK, Outcomes
  <2>6. ReadsAllow'
    BY DEF ReadsAllow, EventTypeOK, MailTypeOK, SenderTypeOK, WorkerTypeOK, TrackingTypeOK
  <2>7. FinishedIsSuppressed'
    BY DEF FinishedIsSuppressed, EventTypeOK, MailTypeOK, SenderTypeOK, WorkerTypeOK,
           TrackingTypeOK
  <2>8. ProcessedIsSuppressed'
    BY DEF ProcessedIsSuppressed, FinishedIsSuppressed, EventTypeOK, MailTypeOK,
           SenderTypeOK, WorkerTypeOK, TrackingTypeOK
  <2>9. QED
    BY <2>1, <2>2, <2>3, <2>4, <2>5, <2>6, <2>7, <2>8 DEF EventTypeOK
<1>3. CASE Dispatch(d)
  <2> USE <1>3 DEF Dispatch, mail, events, sender, worker, tracking, Unclaim, Overtakes, Increment
  <2>1. MailTypeOK'
    BY TargetType DEF EventTypeOK, MailTypeOK, SenderTypeOK, WorkerTypeOK, TrackingTypeOK,
           Statuses, RStatuses, SPhases, EventStates, Phases, QPhases, Metrics,
           StatusesMeant, Outcomes
  <2>2. SenderTypeOK'
    BY DEF EventTypeOK, MailTypeOK, SenderTypeOK, WorkerTypeOK, TrackingTypeOK, Statuses,
           RStatuses, SPhases, EventStates, Phases, QPhases, Metrics, StatusesMeant,
           Outcomes
  <2>3. WorkerTypeOK'
    BY DEF EventTypeOK, MailTypeOK, SenderTypeOK, WorkerTypeOK, TrackingTypeOK, Statuses,
           RStatuses, SPhases, EventStates, Phases, QPhases, Metrics, StatusesMeant,
           Outcomes
  <2>4. TrackingTypeOK'
    BY DEF EventTypeOK, MailTypeOK, SenderTypeOK, WorkerTypeOK, TrackingTypeOK, Statuses,
           RStatuses, SPhases, EventStates, Phases, QPhases, Metrics, StatusesMeant,
           Outcomes
  <2>5. StatusesMeant'
    BY TargetType DEF StatusesMeant, EventTypeOK, MailTypeOK, SenderTypeOK, WorkerTypeOK,
           TrackingTypeOK, Outcomes
  <2>6. ReadsAllow'
    BY DEF ReadsAllow, EventTypeOK, MailTypeOK, SenderTypeOK, WorkerTypeOK, TrackingTypeOK
  <2>7. FinishedIsSuppressed'
    BY DEF FinishedIsSuppressed, EventTypeOK, MailTypeOK, SenderTypeOK, WorkerTypeOK,
           TrackingTypeOK
  <2>8. ProcessedIsSuppressed'
    BY DEF ProcessedIsSuppressed, FinishedIsSuppressed, EventTypeOK, MailTypeOK,
           SenderTypeOK, WorkerTypeOK, TrackingTypeOK
  <2>9. QED
    BY <2>1, <2>2, <2>3, <2>4, <2>5, <2>6, <2>7, <2>8 DEF EventTypeOK
<1>4. CASE ClaimLost(d)
  <2> USE <1>4 DEF ClaimLost, mail, events, sender, worker, tracking, Unclaim, Overtakes, Increment
  <2>1. MailTypeOK'
    BY TargetType DEF EventTypeOK, MailTypeOK, SenderTypeOK, WorkerTypeOK, TrackingTypeOK,
           Statuses, RStatuses, SPhases, EventStates, Phases, QPhases, Metrics,
           StatusesMeant, Outcomes
  <2>2. SenderTypeOK'
    BY DEF EventTypeOK, MailTypeOK, SenderTypeOK, WorkerTypeOK, TrackingTypeOK, Statuses,
           RStatuses, SPhases, EventStates, Phases, QPhases, Metrics, StatusesMeant,
           Outcomes
  <2>3. WorkerTypeOK'
    BY DEF EventTypeOK, MailTypeOK, SenderTypeOK, WorkerTypeOK, TrackingTypeOK, Statuses,
           RStatuses, SPhases, EventStates, Phases, QPhases, Metrics, StatusesMeant,
           Outcomes
  <2>4. TrackingTypeOK'
    BY DEF EventTypeOK, MailTypeOK, SenderTypeOK, WorkerTypeOK, TrackingTypeOK, Statuses,
           RStatuses, SPhases, EventStates, Phases, QPhases, Metrics, StatusesMeant,
           Outcomes
  <2>5. StatusesMeant'
    BY TargetType DEF StatusesMeant, EventTypeOK, MailTypeOK, SenderTypeOK, WorkerTypeOK,
           TrackingTypeOK, Outcomes
  <2>6. ReadsAllow'
    BY DEF ReadsAllow, EventTypeOK, MailTypeOK, SenderTypeOK, WorkerTypeOK, TrackingTypeOK
  <2>7. FinishedIsSuppressed'
    BY DEF FinishedIsSuppressed, EventTypeOK, MailTypeOK, SenderTypeOK, WorkerTypeOK,
           TrackingTypeOK
  <2>8. ProcessedIsSuppressed'
    BY DEF ProcessedIsSuppressed, FinishedIsSuppressed, EventTypeOK, MailTypeOK,
           SenderTypeOK, WorkerTypeOK, TrackingTypeOK
  <2>9. QED
    BY <2>1, <2>2, <2>3, <2>4, <2>5, <2>6, <2>7, <2>8 DEF EventTypeOK
<1>5. ASSUME NEW retryable \in BOOLEAN, SendFails(d, retryable)
      PROVE  EventInv'
  <2> USE <1>5 DEF SendFails, mail, events, sender, worker, tracking, Unclaim, Overtakes, Increment
  <2>1. MailTypeOK'
   <3>1. rstatus' \in [Deliveries -> RStatuses]
      BY DEF EventTypeOK, MailTypeOK, RStatuses
    <3>2. dstatus' \in [Deliveries -> Statuses]
      BY DEF EventTypeOK, MailTypeOK, Statuses
    <3>3. counted' \in [Deliveries -> [Metrics -> Nat]]
      BY DEF EventTypeOK, MailTypeOK
    <3>4. QED
      BY <3>1, <3>2, <3>3 DEF EventTypeOK, MailTypeOK
  <2>2. SenderTypeOK'
    BY DEF EventTypeOK, MailTypeOK, SenderTypeOK, WorkerTypeOK, TrackingTypeOK, Statuses,
           RStatuses, SPhases, EventStates, Phases, QPhases, Metrics, StatusesMeant,
           Outcomes
  <2>3. WorkerTypeOK'
    BY DEF EventTypeOK, MailTypeOK, SenderTypeOK, WorkerTypeOK, TrackingTypeOK, Statuses,
           RStatuses, SPhases, EventStates, Phases, QPhases, Metrics, StatusesMeant,
           Outcomes
  <2>4. TrackingTypeOK'
    BY DEF EventTypeOK, MailTypeOK, SenderTypeOK, WorkerTypeOK, TrackingTypeOK, Statuses,
           RStatuses, SPhases, EventStates, Phases, QPhases, Metrics, StatusesMeant,
           Outcomes
  <2>5. StatusesMeant'
    BY TargetType DEF StatusesMeant, EventTypeOK, MailTypeOK, SenderTypeOK, WorkerTypeOK,
           TrackingTypeOK, Outcomes
  <2>6. ReadsAllow'
    BY DEF ReadsAllow, EventTypeOK, MailTypeOK, SenderTypeOK, WorkerTypeOK, TrackingTypeOK
  <2>7. FinishedIsSuppressed'
    BY DEF FinishedIsSuppressed, EventTypeOK, MailTypeOK, SenderTypeOK, WorkerTypeOK,
           TrackingTypeOK
  <2>8. ProcessedIsSuppressed'
    BY DEF ProcessedIsSuppressed, FinishedIsSuppressed, EventTypeOK, MailTypeOK,
           SenderTypeOK, WorkerTypeOK, TrackingTypeOK
  <2>9. QED
    BY <2>1, <2>2, <2>3, <2>4, <2>5, <2>6, <2>7, <2>8 DEF EventTypeOK
<1>6. CASE RecordDelivery(d)
  <2> USE <1>6 DEF RecordDelivery, mail, events, sender, worker, tracking, Unclaim, Overtakes, Increment
  <2>1. MailTypeOK'
    BY TargetType DEF EventTypeOK, MailTypeOK, SenderTypeOK, WorkerTypeOK, TrackingTypeOK,
           Statuses, RStatuses, SPhases, EventStates, Phases, QPhases, Metrics,
           StatusesMeant, Outcomes
  <2>2. SenderTypeOK'
    BY DEF EventTypeOK, MailTypeOK, SenderTypeOK, WorkerTypeOK, TrackingTypeOK, Statuses,
           RStatuses, SPhases, EventStates, Phases, QPhases, Metrics, StatusesMeant,
           Outcomes
  <2>3. WorkerTypeOK'
    BY DEF EventTypeOK, MailTypeOK, SenderTypeOK, WorkerTypeOK, TrackingTypeOK, Statuses,
           RStatuses, SPhases, EventStates, Phases, QPhases, Metrics, StatusesMeant,
           Outcomes
  <2>4. TrackingTypeOK'
    BY DEF EventTypeOK, MailTypeOK, SenderTypeOK, WorkerTypeOK, TrackingTypeOK, Statuses,
           RStatuses, SPhases, EventStates, Phases, QPhases, Metrics, StatusesMeant,
           Outcomes
  <2>5. StatusesMeant'
    BY TargetType DEF StatusesMeant, EventTypeOK, MailTypeOK, SenderTypeOK, WorkerTypeOK,
           TrackingTypeOK, Outcomes
  <2>6. ReadsAllow'
    BY DEF ReadsAllow, EventTypeOK, MailTypeOK, SenderTypeOK, WorkerTypeOK, TrackingTypeOK
  <2>7. FinishedIsSuppressed'
    BY DEF FinishedIsSuppressed, EventTypeOK, MailTypeOK, SenderTypeOK, WorkerTypeOK,
           TrackingTypeOK
  <2>8. ProcessedIsSuppressed'
    BY DEF ProcessedIsSuppressed, FinishedIsSuppressed, EventTypeOK, MailTypeOK,
           SenderTypeOK, WorkerTypeOK, TrackingTypeOK
  <2>9. QED
    BY <2>1, <2>2, <2>3, <2>4, <2>5, <2>6, <2>7, <2>8 DEF EventTypeOK
<1>7. CASE RecordRecipient(d)
  <2> USE <1>7 DEF RecordRecipient, mail, events, sender, worker, tracking, Unclaim, Overtakes, Increment
  <2>1. MailTypeOK'
   <3>1. rstatus' \in [Deliveries -> RStatuses]
      BY DEF EventTypeOK, MailTypeOK, RStatuses
    <3>2. dstatus' \in [Deliveries -> Statuses]
      BY DEF EventTypeOK, MailTypeOK, Statuses
    <3>3. counted' \in [Deliveries -> [Metrics -> Nat]]
      <4>1. CASE rstatus[d] = "PROCESSING"
        BY <4>1 DEF EventTypeOK, MailTypeOK, Metrics
      <4>2. CASE rstatus[d] # "PROCESSING"
        BY <4>2 DEF EventTypeOK, MailTypeOK
      <4>3. QED
        BY <4>1, <4>2
    <3>4. QED
      BY <3>1, <3>2, <3>3 DEF EventTypeOK, MailTypeOK
  <2>2. SenderTypeOK'
    BY DEF EventTypeOK, MailTypeOK, SenderTypeOK, WorkerTypeOK, TrackingTypeOK, Statuses,
           RStatuses, SPhases, EventStates, Phases, QPhases, Metrics, StatusesMeant,
           Outcomes
  <2>3. WorkerTypeOK'
    BY DEF EventTypeOK, MailTypeOK, SenderTypeOK, WorkerTypeOK, TrackingTypeOK, Statuses,
           RStatuses, SPhases, EventStates, Phases, QPhases, Metrics, StatusesMeant,
           Outcomes
  <2>4. TrackingTypeOK'
    BY DEF EventTypeOK, MailTypeOK, SenderTypeOK, WorkerTypeOK, TrackingTypeOK, Statuses,
           RStatuses, SPhases, EventStates, Phases, QPhases, Metrics, StatusesMeant,
           Outcomes
  <2>5. StatusesMeant'
    BY TargetType DEF StatusesMeant, EventTypeOK, MailTypeOK, SenderTypeOK, WorkerTypeOK,
           TrackingTypeOK, Outcomes
  <2>6. ReadsAllow'
    BY DEF ReadsAllow, EventTypeOK, MailTypeOK, SenderTypeOK, WorkerTypeOK, TrackingTypeOK
  <2>7. FinishedIsSuppressed'
    BY DEF FinishedIsSuppressed, EventTypeOK, MailTypeOK, SenderTypeOK, WorkerTypeOK,
           TrackingTypeOK
  <2>8. ProcessedIsSuppressed'
    BY DEF ProcessedIsSuppressed, FinishedIsSuppressed, EventTypeOK, MailTypeOK,
           SenderTypeOK, WorkerTypeOK, TrackingTypeOK
  <2>9. QED
    BY <2>1, <2>2, <2>3, <2>4, <2>5, <2>6, <2>7, <2>8 DEF EventTypeOK
<1>8. CASE BookkeepingFails(d)
  <2> USE <1>8 DEF BookkeepingFails, mail, events, sender, worker, tracking, Unclaim, Overtakes, Increment
  <2>1. MailTypeOK'
    BY TargetType DEF EventTypeOK, MailTypeOK, SenderTypeOK, WorkerTypeOK, TrackingTypeOK,
           Statuses, RStatuses, SPhases, EventStates, Phases, QPhases, Metrics,
           StatusesMeant, Outcomes
  <2>2. SenderTypeOK'
    BY DEF EventTypeOK, MailTypeOK, SenderTypeOK, WorkerTypeOK, TrackingTypeOK, Statuses,
           RStatuses, SPhases, EventStates, Phases, QPhases, Metrics, StatusesMeant,
           Outcomes
  <2>3. WorkerTypeOK'
    BY DEF EventTypeOK, MailTypeOK, SenderTypeOK, WorkerTypeOK, TrackingTypeOK, Statuses,
           RStatuses, SPhases, EventStates, Phases, QPhases, Metrics, StatusesMeant,
           Outcomes
  <2>4. TrackingTypeOK'
    BY DEF EventTypeOK, MailTypeOK, SenderTypeOK, WorkerTypeOK, TrackingTypeOK, Statuses,
           RStatuses, SPhases, EventStates, Phases, QPhases, Metrics, StatusesMeant,
           Outcomes
  <2>5. StatusesMeant'
    BY TargetType DEF StatusesMeant, EventTypeOK, MailTypeOK, SenderTypeOK, WorkerTypeOK,
           TrackingTypeOK, Outcomes
  <2>6. ReadsAllow'
    BY DEF ReadsAllow, EventTypeOK, MailTypeOK, SenderTypeOK, WorkerTypeOK, TrackingTypeOK
  <2>7. FinishedIsSuppressed'
    BY DEF FinishedIsSuppressed, EventTypeOK, MailTypeOK, SenderTypeOK, WorkerTypeOK,
           TrackingTypeOK
  <2>8. ProcessedIsSuppressed'
    BY DEF ProcessedIsSuppressed, FinishedIsSuppressed, EventTypeOK, MailTypeOK,
           SenderTypeOK, WorkerTypeOK, TrackingTypeOK
  <2>9. QED
    BY <2>1, <2>2, <2>3, <2>4, <2>5, <2>6, <2>7, <2>8 DEF EventTypeOK
<1>9. CASE SenderDies(d)
  <2> USE <1>9 DEF SenderDies, mail, events, sender, worker, tracking, Unclaim, Overtakes, Increment
  <2>1. MailTypeOK'
    BY TargetType DEF EventTypeOK, MailTypeOK, SenderTypeOK, WorkerTypeOK, TrackingTypeOK,
           Statuses, RStatuses, SPhases, EventStates, Phases, QPhases, Metrics,
           StatusesMeant, Outcomes
  <2>2. SenderTypeOK'
    BY DEF EventTypeOK, MailTypeOK, SenderTypeOK, WorkerTypeOK, TrackingTypeOK, Statuses,
           RStatuses, SPhases, EventStates, Phases, QPhases, Metrics, StatusesMeant,
           Outcomes
  <2>3. WorkerTypeOK'
    BY DEF EventTypeOK, MailTypeOK, SenderTypeOK, WorkerTypeOK, TrackingTypeOK, Statuses,
           RStatuses, SPhases, EventStates, Phases, QPhases, Metrics, StatusesMeant,
           Outcomes
  <2>4. TrackingTypeOK'
    BY DEF EventTypeOK, MailTypeOK, SenderTypeOK, WorkerTypeOK, TrackingTypeOK, Statuses,
           RStatuses, SPhases, EventStates, Phases, QPhases, Metrics, StatusesMeant,
           Outcomes
  <2>5. StatusesMeant'
    BY TargetType DEF StatusesMeant, EventTypeOK, MailTypeOK, SenderTypeOK, WorkerTypeOK,
           TrackingTypeOK, Outcomes
  <2>6. ReadsAllow'
    BY DEF ReadsAllow, EventTypeOK, MailTypeOK, SenderTypeOK, WorkerTypeOK, TrackingTypeOK
  <2>7. FinishedIsSuppressed'
    BY DEF FinishedIsSuppressed, EventTypeOK, MailTypeOK, SenderTypeOK, WorkerTypeOK,
           TrackingTypeOK
  <2>8. ProcessedIsSuppressed'
    BY DEF ProcessedIsSuppressed, FinishedIsSuppressed, EventTypeOK, MailTypeOK,
           SenderTypeOK, WorkerTypeOK, TrackingTypeOK
  <2>9. QED
    BY <2>1, <2>2, <2>3, <2>4, <2>5, <2>6, <2>7, <2>8 DEF EventTypeOK
<1>10. CASE ReconcileRecipient(d)
  <2> USE <1>10 DEF ReconcileRecipient, mail, events, sender, worker, tracking, Unclaim, Overtakes, Increment
  <2>1. MailTypeOK'
   <3>1. rstatus' \in [Deliveries -> RStatuses]
      BY DEF EventTypeOK, MailTypeOK, RStatuses
    <3>2. dstatus' \in [Deliveries -> Statuses]
      BY DEF EventTypeOK, MailTypeOK, Statuses
    <3>3. counted' \in [Deliveries -> [Metrics -> Nat]]
      BY DEF EventTypeOK, MailTypeOK
    <3>4. QED
      BY <3>1, <3>2, <3>3 DEF EventTypeOK, MailTypeOK
  <2>2. SenderTypeOK'
    BY DEF EventTypeOK, MailTypeOK, SenderTypeOK, WorkerTypeOK, TrackingTypeOK, Statuses,
           RStatuses, SPhases, EventStates, Phases, QPhases, Metrics, StatusesMeant,
           Outcomes
  <2>3. WorkerTypeOK'
    BY DEF EventTypeOK, MailTypeOK, SenderTypeOK, WorkerTypeOK, TrackingTypeOK, Statuses,
           RStatuses, SPhases, EventStates, Phases, QPhases, Metrics, StatusesMeant,
           Outcomes
  <2>4. TrackingTypeOK'
    BY DEF EventTypeOK, MailTypeOK, SenderTypeOK, WorkerTypeOK, TrackingTypeOK, Statuses,
           RStatuses, SPhases, EventStates, Phases, QPhases, Metrics, StatusesMeant,
           Outcomes
  <2>5. StatusesMeant'
    BY TargetType DEF StatusesMeant, EventTypeOK, MailTypeOK, SenderTypeOK, WorkerTypeOK,
           TrackingTypeOK, Outcomes
  <2>6. ReadsAllow'
    BY DEF ReadsAllow, EventTypeOK, MailTypeOK, SenderTypeOK, WorkerTypeOK, TrackingTypeOK
  <2>7. FinishedIsSuppressed'
    BY DEF FinishedIsSuppressed, EventTypeOK, MailTypeOK, SenderTypeOK, WorkerTypeOK,
           TrackingTypeOK
  <2>8. ProcessedIsSuppressed'
    BY DEF ProcessedIsSuppressed, FinishedIsSuppressed, EventTypeOK, MailTypeOK,
           SenderTypeOK, WorkerTypeOK, TrackingTypeOK
  <2>9. QED
    BY <2>1, <2>2, <2>3, <2>4, <2>5, <2>6, <2>7, <2>8 DEF EventTypeOK
<1>11. CASE ReconcileDelivery(d)
  <2> USE <1>11 DEF ReconcileDelivery, mail, events, sender, worker, tracking, Unclaim, Overtakes, Increment
  <2>1. MailTypeOK'
    BY TargetType DEF EventTypeOK, MailTypeOK, SenderTypeOK, WorkerTypeOK, TrackingTypeOK,
           Statuses, RStatuses, SPhases, EventStates, Phases, QPhases, Metrics,
           StatusesMeant, Outcomes
  <2>2. SenderTypeOK'
    BY DEF EventTypeOK, MailTypeOK, SenderTypeOK, WorkerTypeOK, TrackingTypeOK, Statuses,
           RStatuses, SPhases, EventStates, Phases, QPhases, Metrics, StatusesMeant,
           Outcomes
  <2>3. WorkerTypeOK'
    BY DEF EventTypeOK, MailTypeOK, SenderTypeOK, WorkerTypeOK, TrackingTypeOK, Statuses,
           RStatuses, SPhases, EventStates, Phases, QPhases, Metrics, StatusesMeant,
           Outcomes
  <2>4. TrackingTypeOK'
    BY DEF EventTypeOK, MailTypeOK, SenderTypeOK, WorkerTypeOK, TrackingTypeOK, Statuses,
           RStatuses, SPhases, EventStates, Phases, QPhases, Metrics, StatusesMeant,
           Outcomes
  <2>5. StatusesMeant'
    BY TargetType DEF StatusesMeant, EventTypeOK, MailTypeOK, SenderTypeOK, WorkerTypeOK,
           TrackingTypeOK, Outcomes
  <2>6. ReadsAllow'
    BY DEF ReadsAllow, EventTypeOK, MailTypeOK, SenderTypeOK, WorkerTypeOK, TrackingTypeOK
  <2>7. FinishedIsSuppressed'
    BY DEF FinishedIsSuppressed, EventTypeOK, MailTypeOK, SenderTypeOK, WorkerTypeOK,
           TrackingTypeOK
  <2>8. ProcessedIsSuppressed'
    BY DEF ProcessedIsSuppressed, FinishedIsSuppressed, EventTypeOK, MailTypeOK,
           SenderTypeOK, WorkerTypeOK, TrackingTypeOK
  <2>9. QED
    BY <2>1, <2>2, <2>3, <2>4, <2>5, <2>6, <2>7, <2>8 DEF EventTypeOK
<1>12. QED
  BY <1>1, <1>2, <1>3, <1>4, <1>5, <1>6, <1>7, <1>8, <1>9, <1>10, <1>11

LEMMA PostingSteps ==
    ASSUME EventInv, NEW e \in Events,
           \/ Record(e) \/ Enqueued(e) \/ EnqueueFails(e)
    PROVE  EventInv'
<1> USE EventConstantsOK DEF EventInv
<1>1. CASE Record(e)
  <2> USE <1>1 DEF Record, mail, events, sender, worker, tracking
  <2>1. MailTypeOK'
    BY TargetType DEF EventTypeOK, MailTypeOK, SenderTypeOK, WorkerTypeOK, TrackingTypeOK,
           Statuses, RStatuses, SPhases, EventStates, Phases, QPhases, Metrics,
           StatusesMeant, Outcomes
  <2>2. SenderTypeOK'
    BY DEF EventTypeOK, MailTypeOK, SenderTypeOK, WorkerTypeOK, TrackingTypeOK, Statuses,
           RStatuses, SPhases, EventStates, Phases, QPhases, Metrics, StatusesMeant,
           Outcomes
  <2>3. WorkerTypeOK'
    BY DEF EventTypeOK, MailTypeOK, SenderTypeOK, WorkerTypeOK, TrackingTypeOK, Statuses,
           RStatuses, SPhases, EventStates, Phases, QPhases, Metrics, StatusesMeant,
           Outcomes
  <2>4. TrackingTypeOK'
    BY DEF EventTypeOK, MailTypeOK, SenderTypeOK, WorkerTypeOK, TrackingTypeOK, Statuses,
           RStatuses, SPhases, EventStates, Phases, QPhases, Metrics, StatusesMeant,
           Outcomes
  <2>5. StatusesMeant'
    BY TargetType DEF StatusesMeant, EventTypeOK, MailTypeOK, SenderTypeOK, WorkerTypeOK,
           TrackingTypeOK, Outcomes
  <2>6. ReadsAllow'
    BY DEF ReadsAllow, EventTypeOK, MailTypeOK, SenderTypeOK, WorkerTypeOK, TrackingTypeOK
  <2>7. FinishedIsSuppressed'
    BY DEF FinishedIsSuppressed, EventTypeOK, MailTypeOK, SenderTypeOK, WorkerTypeOK,
           TrackingTypeOK
  <2>8. ProcessedIsSuppressed'
    BY DEF ProcessedIsSuppressed, FinishedIsSuppressed, EventTypeOK, MailTypeOK,
           SenderTypeOK, WorkerTypeOK, TrackingTypeOK
  <2>9. QED
    BY <2>1, <2>2, <2>3, <2>4, <2>5, <2>6, <2>7, <2>8 DEF EventTypeOK
<1>2. CASE Enqueued(e)
  <2> USE <1>2 DEF Enqueued, mail, events, sender, worker, tracking
  <2>1. MailTypeOK'
    BY TargetType DEF EventTypeOK, MailTypeOK, SenderTypeOK, WorkerTypeOK, TrackingTypeOK,
           Statuses, RStatuses, SPhases, EventStates, Phases, QPhases, Metrics,
           StatusesMeant, Outcomes
  <2>2. SenderTypeOK'
    BY DEF EventTypeOK, MailTypeOK, SenderTypeOK, WorkerTypeOK, TrackingTypeOK, Statuses,
           RStatuses, SPhases, EventStates, Phases, QPhases, Metrics, StatusesMeant,
           Outcomes
  <2>3. WorkerTypeOK'
    BY DEF EventTypeOK, MailTypeOK, SenderTypeOK, WorkerTypeOK, TrackingTypeOK, Statuses,
           RStatuses, SPhases, EventStates, Phases, QPhases, Metrics, StatusesMeant,
           Outcomes
  <2>4. TrackingTypeOK'
    BY DEF EventTypeOK, MailTypeOK, SenderTypeOK, WorkerTypeOK, TrackingTypeOK, Statuses,
           RStatuses, SPhases, EventStates, Phases, QPhases, Metrics, StatusesMeant,
           Outcomes
  <2>5. StatusesMeant'
    BY TargetType DEF StatusesMeant, EventTypeOK, MailTypeOK, SenderTypeOK, WorkerTypeOK,
           TrackingTypeOK, Outcomes
  <2>6. ReadsAllow'
    BY DEF ReadsAllow, EventTypeOK, MailTypeOK, SenderTypeOK, WorkerTypeOK, TrackingTypeOK
  <2>7. FinishedIsSuppressed'
    BY DEF FinishedIsSuppressed, EventTypeOK, MailTypeOK, SenderTypeOK, WorkerTypeOK,
           TrackingTypeOK
  <2>8. ProcessedIsSuppressed'
    BY DEF ProcessedIsSuppressed, FinishedIsSuppressed, EventTypeOK, MailTypeOK,
           SenderTypeOK, WorkerTypeOK, TrackingTypeOK
  <2>9. QED
    BY <2>1, <2>2, <2>3, <2>4, <2>5, <2>6, <2>7, <2>8 DEF EventTypeOK
<1>3. CASE EnqueueFails(e)
  <2> USE <1>3 DEF EnqueueFails, mail, events, sender, worker, tracking
  <2>1. MailTypeOK'
    BY TargetType DEF EventTypeOK, MailTypeOK, SenderTypeOK, WorkerTypeOK, TrackingTypeOK,
           Statuses, RStatuses, SPhases, EventStates, Phases, QPhases, Metrics,
           StatusesMeant, Outcomes
  <2>2. SenderTypeOK'
    BY DEF EventTypeOK, MailTypeOK, SenderTypeOK, WorkerTypeOK, TrackingTypeOK, Statuses,
           RStatuses, SPhases, EventStates, Phases, QPhases, Metrics, StatusesMeant,
           Outcomes
  <2>3. WorkerTypeOK'
    BY DEF EventTypeOK, MailTypeOK, SenderTypeOK, WorkerTypeOK, TrackingTypeOK, Statuses,
           RStatuses, SPhases, EventStates, Phases, QPhases, Metrics, StatusesMeant,
           Outcomes
  <2>4. TrackingTypeOK'
    BY DEF EventTypeOK, MailTypeOK, SenderTypeOK, WorkerTypeOK, TrackingTypeOK, Statuses,
           RStatuses, SPhases, EventStates, Phases, QPhases, Metrics, StatusesMeant,
           Outcomes
  <2>5. StatusesMeant'
    BY TargetType DEF StatusesMeant, EventTypeOK, MailTypeOK, SenderTypeOK, WorkerTypeOK,
           TrackingTypeOK, Outcomes
  <2>6. ReadsAllow'
    BY DEF ReadsAllow, EventTypeOK, MailTypeOK, SenderTypeOK, WorkerTypeOK, TrackingTypeOK
  <2>7. FinishedIsSuppressed'
    BY DEF FinishedIsSuppressed, EventTypeOK, MailTypeOK, SenderTypeOK, WorkerTypeOK,
           TrackingTypeOK
  <2>8. ProcessedIsSuppressed'
    BY DEF ProcessedIsSuppressed, FinishedIsSuppressed, EventTypeOK, MailTypeOK,
           SenderTypeOK, WorkerTypeOK, TrackingTypeOK
  <2>9. QED
    BY <2>1, <2>2, <2>3, <2>4, <2>5, <2>6, <2>7, <2>8 DEF EventTypeOK
<1>4. QED
  BY <1>1, <1>2, <1>3

LEMMA WorkerSteps ==
    ASSUME EventInv, NEW w \in Invocations,
           \/ \E e \in Events : Load(w, e)
           \/ ClaimEvent(w) \/ ClaimRefused(w) \/ Decide(w) \/ Apply(w)
           \/ ApplyToRecipient(w) \/ Count(w) \/ Recheck(w) \/ Complain(w) \/ Suppress(w)
           \/ Finish(w)
           \/ \E retryable \in BOOLEAN : ProcessingFails(w, retryable)
           \/ Die(w)
    PROVE  EventInv'
<1> USE EventConstantsOK DEF EventInv
<1>1. ASSUME NEW e \in Events, Load(w, e)
      PROVE  EventInv'
  <2> USE <1>1 DEF Load, mail, events, sender, worker, tracking, Goto, Leave, CloseEvent, Overtakes, Increment
  <2>1. MailTypeOK'
    BY TargetType DEF EventTypeOK, MailTypeOK, SenderTypeOK, WorkerTypeOK, TrackingTypeOK,
           Statuses, RStatuses, SPhases, EventStates, Phases, QPhases, Metrics,
           StatusesMeant, Outcomes
  <2>2. SenderTypeOK'
    BY DEF EventTypeOK, MailTypeOK, SenderTypeOK, WorkerTypeOK, TrackingTypeOK, Statuses,
           RStatuses, SPhases, EventStates, Phases, QPhases, Metrics, StatusesMeant,
           Outcomes
  <2>3. WorkerTypeOK'
    BY DEF EventTypeOK, MailTypeOK, SenderTypeOK, WorkerTypeOK, TrackingTypeOK, Statuses,
           RStatuses, SPhases, EventStates, Phases, QPhases, Metrics, StatusesMeant,
           Outcomes
  <2>4. TrackingTypeOK'
    BY DEF EventTypeOK, MailTypeOK, SenderTypeOK, WorkerTypeOK, TrackingTypeOK, Statuses,
           RStatuses, SPhases, EventStates, Phases, QPhases, Metrics, StatusesMeant,
           Outcomes
  <2>5. StatusesMeant'
    BY TargetType DEF StatusesMeant, EventTypeOK, MailTypeOK, SenderTypeOK, WorkerTypeOK,
           TrackingTypeOK, Outcomes
  <2>6. ReadsAllow'
    BY DEF ReadsAllow, EventTypeOK, MailTypeOK, SenderTypeOK, WorkerTypeOK, TrackingTypeOK
  <2>7. FinishedIsSuppressed'
    BY DEF FinishedIsSuppressed, EventTypeOK, MailTypeOK, SenderTypeOK, WorkerTypeOK,
           TrackingTypeOK
  <2>8. ProcessedIsSuppressed'
    BY DEF ProcessedIsSuppressed, FinishedIsSuppressed, EventTypeOK, MailTypeOK,
           SenderTypeOK, WorkerTypeOK, TrackingTypeOK
  <2>9. QED
    BY <2>1, <2>2, <2>3, <2>4, <2>5, <2>6, <2>7, <2>8 DEF EventTypeOK
<1>2. CASE ClaimEvent(w)
  <2> USE <1>2 DEF ClaimEvent, mail, events, sender, worker, tracking, Goto, Leave, CloseEvent, Overtakes, Increment
  <2>1. MailTypeOK'
    BY TargetType DEF EventTypeOK, MailTypeOK, SenderTypeOK, WorkerTypeOK, TrackingTypeOK,
           Statuses, RStatuses, SPhases, EventStates, Phases, QPhases, Metrics,
           StatusesMeant, Outcomes
  <2>2. SenderTypeOK'
    BY DEF EventTypeOK, MailTypeOK, SenderTypeOK, WorkerTypeOK, TrackingTypeOK, Statuses,
           RStatuses, SPhases, EventStates, Phases, QPhases, Metrics, StatusesMeant,
           Outcomes
  <2>3. WorkerTypeOK'
    BY DEF EventTypeOK, MailTypeOK, SenderTypeOK, WorkerTypeOK, TrackingTypeOK, Statuses,
           RStatuses, SPhases, EventStates, Phases, QPhases, Metrics, StatusesMeant,
           Outcomes, EventClaimable
  <2>4. TrackingTypeOK'
    BY DEF EventTypeOK, MailTypeOK, SenderTypeOK, WorkerTypeOK, TrackingTypeOK, Statuses,
           RStatuses, SPhases, EventStates, Phases, QPhases, Metrics, StatusesMeant,
           Outcomes
  <2>5. StatusesMeant'
    BY TargetType DEF StatusesMeant, EventTypeOK, MailTypeOK, SenderTypeOK, WorkerTypeOK,
           TrackingTypeOK, Outcomes
  <2>6. ReadsAllow'
    BY DEF ReadsAllow, EventTypeOK, MailTypeOK, SenderTypeOK, WorkerTypeOK, TrackingTypeOK
  <2>7. FinishedIsSuppressed'
    BY DEF FinishedIsSuppressed, EventTypeOK, MailTypeOK, SenderTypeOK, WorkerTypeOK,
           TrackingTypeOK
  <2>8. ProcessedIsSuppressed'
    BY DEF ProcessedIsSuppressed, FinishedIsSuppressed, EventTypeOK, MailTypeOK,
           SenderTypeOK, WorkerTypeOK, TrackingTypeOK
  <2>9. QED
    BY <2>1, <2>2, <2>3, <2>4, <2>5, <2>6, <2>7, <2>8 DEF EventTypeOK
<1>3. CASE ClaimRefused(w)
  <2> USE <1>3 DEF ClaimRefused, mail, events, sender, worker, tracking, Goto, Leave, CloseEvent, Overtakes, Increment
  <2>1. MailTypeOK'
    BY TargetType DEF EventTypeOK, MailTypeOK, SenderTypeOK, WorkerTypeOK, TrackingTypeOK,
           Statuses, RStatuses, SPhases, EventStates, Phases, QPhases, Metrics,
           StatusesMeant, Outcomes
  <2>2. SenderTypeOK'
    BY DEF EventTypeOK, MailTypeOK, SenderTypeOK, WorkerTypeOK, TrackingTypeOK, Statuses,
           RStatuses, SPhases, EventStates, Phases, QPhases, Metrics, StatusesMeant,
           Outcomes
  <2>3. WorkerTypeOK'
    BY DEF EventTypeOK, MailTypeOK, SenderTypeOK, WorkerTypeOK, TrackingTypeOK, Statuses,
           RStatuses, SPhases, EventStates, Phases, QPhases, Metrics, StatusesMeant,
           Outcomes
  <2>4. TrackingTypeOK'
    BY DEF EventTypeOK, MailTypeOK, SenderTypeOK, WorkerTypeOK, TrackingTypeOK, Statuses,
           RStatuses, SPhases, EventStates, Phases, QPhases, Metrics, StatusesMeant,
           Outcomes
  <2>5. StatusesMeant'
    BY TargetType DEF StatusesMeant, EventTypeOK, MailTypeOK, SenderTypeOK, WorkerTypeOK,
           TrackingTypeOK, Outcomes
  <2>6. ReadsAllow'
    BY DEF ReadsAllow, EventTypeOK, MailTypeOK, SenderTypeOK, WorkerTypeOK, TrackingTypeOK
  <2>7. FinishedIsSuppressed'
    BY DEF FinishedIsSuppressed, EventTypeOK, MailTypeOK, SenderTypeOK, WorkerTypeOK,
           TrackingTypeOK
  <2>8. ProcessedIsSuppressed'
    BY DEF ProcessedIsSuppressed, FinishedIsSuppressed, EventTypeOK, MailTypeOK,
           SenderTypeOK, WorkerTypeOK, TrackingTypeOK
  <2>9. QED
    BY <2>1, <2>2, <2>3, <2>4, <2>5, <2>6, <2>7, <2>8 DEF EventTypeOK
<1>4. CASE Decide(w)
  <2> USE <1>4 DEF Decide, mail, events, sender, worker, tracking, Goto, Leave, CloseEvent, Overtakes, Increment
  <2>1. MailTypeOK'
    BY TargetType DEF EventTypeOK, MailTypeOK, SenderTypeOK, WorkerTypeOK, TrackingTypeOK,
           Statuses, RStatuses, SPhases, EventStates, Phases, QPhases, Metrics,
           StatusesMeant, Outcomes
  <2>2. SenderTypeOK'
    BY DEF EventTypeOK, MailTypeOK, SenderTypeOK, WorkerTypeOK, TrackingTypeOK, Statuses,
           RStatuses, SPhases, EventStates, Phases, QPhases, Metrics, StatusesMeant,
           Outcomes
  <2>3. WorkerTypeOK'
    BY DEF EventTypeOK, MailTypeOK, SenderTypeOK, WorkerTypeOK, TrackingTypeOK, Statuses,
           RStatuses, SPhases, EventStates, Phases, QPhases, Metrics, StatusesMeant,
           Outcomes
  <2>4. TrackingTypeOK'
    BY DEF EventTypeOK, MailTypeOK, SenderTypeOK, WorkerTypeOK, TrackingTypeOK, Statuses,
           RStatuses, SPhases, EventStates, Phases, QPhases, Metrics, StatusesMeant,
           Outcomes
  <2>5. StatusesMeant'
    BY TargetType DEF StatusesMeant, EventTypeOK, MailTypeOK, SenderTypeOK, WorkerTypeOK,
           TrackingTypeOK, Outcomes
  <2>6. ReadsAllow'
    BY DEF ReadsAllow, EventTypeOK, MailTypeOK, SenderTypeOK, WorkerTypeOK, TrackingTypeOK
  <2>7. FinishedIsSuppressed'
    BY DEF FinishedIsSuppressed, EventTypeOK, MailTypeOK, SenderTypeOK, WorkerTypeOK,
           TrackingTypeOK
  <2>8. ProcessedIsSuppressed'
    BY DEF ProcessedIsSuppressed, FinishedIsSuppressed, EventTypeOK, MailTypeOK,
           SenderTypeOK, WorkerTypeOK, TrackingTypeOK
  <2>9. QED
    BY <2>1, <2>2, <2>3, <2>4, <2>5, <2>6, <2>7, <2>8 DEF EventTypeOK
<1>5. CASE Apply(w)
  <2> USE <1>5 DEF Apply, mail, events, sender, worker, tracking, Goto, Leave, CloseEvent, Overtakes, Increment
  <2>1. MailTypeOK'
    BY TargetType DEF EventTypeOK, MailTypeOK, SenderTypeOK, WorkerTypeOK, TrackingTypeOK,
           Statuses, RStatuses, SPhases, EventStates, Phases, QPhases, Metrics,
           StatusesMeant, Outcomes
  <2>2. SenderTypeOK'
    BY DEF EventTypeOK, MailTypeOK, SenderTypeOK, WorkerTypeOK, TrackingTypeOK, Statuses,
           RStatuses, SPhases, EventStates, Phases, QPhases, Metrics, StatusesMeant,
           Outcomes
  <2>3. WorkerTypeOK'
    BY DEF EventTypeOK, MailTypeOK, SenderTypeOK, WorkerTypeOK, TrackingTypeOK, Statuses,
           RStatuses, SPhases, EventStates, Phases, QPhases, Metrics, StatusesMeant,
           Outcomes
  <2>4. TrackingTypeOK'
    BY DEF EventTypeOK, MailTypeOK, SenderTypeOK, WorkerTypeOK, TrackingTypeOK, Statuses,
           RStatuses, SPhases, EventStates, Phases, QPhases, Metrics, StatusesMeant,
           Outcomes
  <2>5. StatusesMeant'
    BY TargetType DEF StatusesMeant, EventTypeOK, MailTypeOK, SenderTypeOK, WorkerTypeOK,
           TrackingTypeOK, Outcomes
  <2>6. ReadsAllow'
    BY DEF ReadsAllow, EventTypeOK, MailTypeOK, SenderTypeOK, WorkerTypeOK, TrackingTypeOK
  <2>7. FinishedIsSuppressed'
    BY DEF FinishedIsSuppressed, EventTypeOK, MailTypeOK, SenderTypeOK, WorkerTypeOK,
           TrackingTypeOK
  <2>8. ProcessedIsSuppressed'
    BY DEF ProcessedIsSuppressed, FinishedIsSuppressed, EventTypeOK, MailTypeOK,
           SenderTypeOK, WorkerTypeOK, TrackingTypeOK
  <2>9. QED
    BY <2>1, <2>2, <2>3, <2>4, <2>5, <2>6, <2>7, <2>8 DEF EventTypeOK
<1>6. CASE ApplyToRecipient(w)
  <2> USE <1>6 DEF ApplyToRecipient, mail, events, sender, worker, tracking, Goto, Leave, CloseEvent, Overtakes, Increment
  <2>1. MailTypeOK'
    BY TargetType DEF EventTypeOK, MailTypeOK, SenderTypeOK, WorkerTypeOK, TrackingTypeOK,
           Statuses, RStatuses, SPhases, EventStates, Phases, QPhases, Metrics,
           StatusesMeant, Outcomes
  <2>2. SenderTypeOK'
    BY DEF EventTypeOK, MailTypeOK, SenderTypeOK, WorkerTypeOK, TrackingTypeOK, Statuses,
           RStatuses, SPhases, EventStates, Phases, QPhases, Metrics, StatusesMeant,
           Outcomes
  <2>3. WorkerTypeOK'
    BY DEF EventTypeOK, MailTypeOK, SenderTypeOK, WorkerTypeOK, TrackingTypeOK, Statuses,
           RStatuses, SPhases, EventStates, Phases, QPhases, Metrics, StatusesMeant,
           Outcomes
  <2>4. TrackingTypeOK'
    BY DEF EventTypeOK, MailTypeOK, SenderTypeOK, WorkerTypeOK, TrackingTypeOK, Statuses,
           RStatuses, SPhases, EventStates, Phases, QPhases, Metrics, StatusesMeant,
           Outcomes
  <2>5. StatusesMeant'
    BY TargetType DEF StatusesMeant, EventTypeOK, MailTypeOK, SenderTypeOK, WorkerTypeOK,
           TrackingTypeOK, Outcomes
  <2>6. ReadsAllow'
    BY DEF ReadsAllow, EventTypeOK, MailTypeOK, SenderTypeOK, WorkerTypeOK, TrackingTypeOK
  <2>7. FinishedIsSuppressed'
    BY DEF FinishedIsSuppressed, EventTypeOK, MailTypeOK, SenderTypeOK, WorkerTypeOK,
           TrackingTypeOK
  <2>8. ProcessedIsSuppressed'
    BY DEF ProcessedIsSuppressed, FinishedIsSuppressed, EventTypeOK, MailTypeOK,
           SenderTypeOK, WorkerTypeOK, TrackingTypeOK
  <2>9. QED
    BY <2>1, <2>2, <2>3, <2>4, <2>5, <2>6, <2>7, <2>8 DEF EventTypeOK
<1>7. CASE Count(w)
  <2> USE <1>7 DEF Count, mail, events, sender, worker, tracking, Goto, Leave, CloseEvent, Overtakes, Increment
  <2>1. MailTypeOK'
    BY TargetType DEF EventTypeOK, MailTypeOK, SenderTypeOK, WorkerTypeOK, TrackingTypeOK,
           Statuses, RStatuses, SPhases, EventStates, Phases, QPhases, Metrics,
           StatusesMeant, Outcomes
  <2>2. SenderTypeOK'
    BY DEF EventTypeOK, MailTypeOK, SenderTypeOK, WorkerTypeOK, TrackingTypeOK, Statuses,
           RStatuses, SPhases, EventStates, Phases, QPhases, Metrics, StatusesMeant,
           Outcomes
  <2>3. WorkerTypeOK'
    BY DEF EventTypeOK, MailTypeOK, SenderTypeOK, WorkerTypeOK, TrackingTypeOK, Statuses,
           RStatuses, SPhases, EventStates, Phases, QPhases, Metrics, StatusesMeant,
           Outcomes
  <2>4. TrackingTypeOK'
    BY DEF EventTypeOK, MailTypeOK, SenderTypeOK, WorkerTypeOK, TrackingTypeOK, Statuses,
           RStatuses, SPhases, EventStates, Phases, QPhases, Metrics, StatusesMeant,
           Outcomes
  <2>5. StatusesMeant'
    BY TargetType DEF StatusesMeant, EventTypeOK, MailTypeOK, SenderTypeOK, WorkerTypeOK,
           TrackingTypeOK, Outcomes
  <2>6. ReadsAllow'
    BY DEF ReadsAllow, EventTypeOK, MailTypeOK, SenderTypeOK, WorkerTypeOK, TrackingTypeOK
  <2>7. FinishedIsSuppressed'
    BY DEF FinishedIsSuppressed, EventTypeOK, MailTypeOK, SenderTypeOK, WorkerTypeOK,
           TrackingTypeOK
  <2>8. ProcessedIsSuppressed'
    BY DEF ProcessedIsSuppressed, FinishedIsSuppressed, EventTypeOK, MailTypeOK,
           SenderTypeOK, WorkerTypeOK, TrackingTypeOK
  <2>9. QED
    BY <2>1, <2>2, <2>3, <2>4, <2>5, <2>6, <2>7, <2>8 DEF EventTypeOK
<1>8. CASE Recheck(w)
  <2> USE <1>8 DEF Recheck, mail, events, sender, worker, tracking, Goto, Leave, CloseEvent, Overtakes, Increment
  <2>1. MailTypeOK'
    BY TargetType DEF EventTypeOK, MailTypeOK, SenderTypeOK, WorkerTypeOK, TrackingTypeOK,
           Statuses, RStatuses, SPhases, EventStates, Phases, QPhases, Metrics,
           StatusesMeant, Outcomes
  <2>2. SenderTypeOK'
    BY DEF EventTypeOK, MailTypeOK, SenderTypeOK, WorkerTypeOK, TrackingTypeOK, Statuses,
           RStatuses, SPhases, EventStates, Phases, QPhases, Metrics, StatusesMeant,
           Outcomes
  <2>3. WorkerTypeOK'
    <3>1. pc' \in [Invocations -> Phases] /\ pc'[w] # "idle" /\ cur[w] \in Events
      BY DEF EventTypeOK, WorkerTypeOK, Phases
    <3>2. rseen' \in [Invocations -> RStatuses] /\ seen' \in [Invocations -> Statuses]
      BY <3>1 DEF EventTypeOK, WorkerTypeOK, MailTypeOK, Statuses
    <3>3. \A v \in Invocations : cur'[v] \in Events <=> pc'[v] # "idle"
      BY <3>1 DEF EventTypeOK, WorkerTypeOK
    <3>4. QED
      BY <3>1, <3>2, <3>3 DEF EventTypeOK, WorkerTypeOK
  <2>4. TrackingTypeOK'
    BY DEF EventTypeOK, MailTypeOK, SenderTypeOK, WorkerTypeOK, TrackingTypeOK, Statuses,
           RStatuses, SPhases, EventStates, Phases, QPhases, Metrics, StatusesMeant,
           Outcomes
  <2>5. StatusesMeant'
    BY TargetType DEF StatusesMeant, EventTypeOK, MailTypeOK, SenderTypeOK, WorkerTypeOK,
           TrackingTypeOK, Outcomes
  <2>6. ReadsAllow'
    BY DEF ReadsAllow, EventTypeOK, MailTypeOK, SenderTypeOK, WorkerTypeOK, TrackingTypeOK
  <2>7. FinishedIsSuppressed'
    BY DEF FinishedIsSuppressed, EventTypeOK, MailTypeOK, SenderTypeOK, WorkerTypeOK,
           TrackingTypeOK
  <2>8. ProcessedIsSuppressed'
    BY DEF ProcessedIsSuppressed, FinishedIsSuppressed, EventTypeOK, MailTypeOK,
           SenderTypeOK, WorkerTypeOK, TrackingTypeOK
  <2>9. QED
    BY <2>1, <2>2, <2>3, <2>4, <2>5, <2>6, <2>7, <2>8 DEF EventTypeOK
<1>9. CASE Complain(w)
  <2> USE <1>9 DEF Complain, mail, events, sender, worker, tracking, Goto, Leave, CloseEvent, Overtakes, Increment
  <2>1. MailTypeOK'
    BY TargetType DEF EventTypeOK, MailTypeOK, SenderTypeOK, WorkerTypeOK, TrackingTypeOK,
           Statuses, RStatuses, SPhases, EventStates, Phases, QPhases, Metrics,
           StatusesMeant, Outcomes
  <2>2. SenderTypeOK'
    BY DEF EventTypeOK, MailTypeOK, SenderTypeOK, WorkerTypeOK, TrackingTypeOK, Statuses,
           RStatuses, SPhases, EventStates, Phases, QPhases, Metrics, StatusesMeant,
           Outcomes
  <2>3. WorkerTypeOK'
    BY DEF EventTypeOK, MailTypeOK, SenderTypeOK, WorkerTypeOK, TrackingTypeOK, Statuses,
           RStatuses, SPhases, EventStates, Phases, QPhases, Metrics, StatusesMeant,
           Outcomes
  <2>4. TrackingTypeOK'
    BY DEF EventTypeOK, MailTypeOK, SenderTypeOK, WorkerTypeOK, TrackingTypeOK, Statuses,
           RStatuses, SPhases, EventStates, Phases, QPhases, Metrics, StatusesMeant,
           Outcomes
  <2>5. StatusesMeant'
    BY TargetType DEF StatusesMeant, EventTypeOK, MailTypeOK, SenderTypeOK, WorkerTypeOK,
           TrackingTypeOK, Outcomes
  <2>6. ReadsAllow'
    BY DEF ReadsAllow, EventTypeOK, MailTypeOK, SenderTypeOK, WorkerTypeOK, TrackingTypeOK
  <2>7. FinishedIsSuppressed'
    BY DEF FinishedIsSuppressed, EventTypeOK, MailTypeOK, SenderTypeOK, WorkerTypeOK,
           TrackingTypeOK
  <2>8. ProcessedIsSuppressed'
    BY DEF ProcessedIsSuppressed, FinishedIsSuppressed, EventTypeOK, MailTypeOK,
           SenderTypeOK, WorkerTypeOK, TrackingTypeOK
  <2>9. QED
    BY <2>1, <2>2, <2>3, <2>4, <2>5, <2>6, <2>7, <2>8 DEF EventTypeOK
<1>10. CASE Suppress(w)
  <2> USE <1>10 DEF Suppress, mail, events, sender, worker, tracking, Goto, Leave, CloseEvent, Overtakes, Increment
  <2>1. MailTypeOK'
    BY TargetType DEF EventTypeOK, MailTypeOK, SenderTypeOK, WorkerTypeOK, TrackingTypeOK,
           Statuses, RStatuses, SPhases, EventStates, Phases, QPhases, Metrics,
           StatusesMeant, Outcomes
  <2>2. SenderTypeOK'
    BY DEF EventTypeOK, MailTypeOK, SenderTypeOK, WorkerTypeOK, TrackingTypeOK, Statuses,
           RStatuses, SPhases, EventStates, Phases, QPhases, Metrics, StatusesMeant,
           Outcomes
  <2>3. WorkerTypeOK'
    BY DEF EventTypeOK, MailTypeOK, SenderTypeOK, WorkerTypeOK, TrackingTypeOK, Statuses,
           RStatuses, SPhases, EventStates, Phases, QPhases, Metrics, StatusesMeant,
           Outcomes
  <2>4. TrackingTypeOK'
    BY DEF EventTypeOK, MailTypeOK, SenderTypeOK, WorkerTypeOK, TrackingTypeOK, Statuses,
           RStatuses, SPhases, EventStates, Phases, QPhases, Metrics, StatusesMeant,
           Outcomes
  <2>5. StatusesMeant'
    BY TargetType DEF StatusesMeant, EventTypeOK, MailTypeOK, SenderTypeOK, WorkerTypeOK,
           TrackingTypeOK, Outcomes
  <2>6. ReadsAllow'
    BY DEF ReadsAllow, EventTypeOK, MailTypeOK, SenderTypeOK, WorkerTypeOK, TrackingTypeOK
  <2>7. FinishedIsSuppressed'
    BY DEF FinishedIsSuppressed, EventTypeOK, MailTypeOK, SenderTypeOK, WorkerTypeOK,
           TrackingTypeOK
  <2>8. ProcessedIsSuppressed'
    BY DEF ProcessedIsSuppressed, FinishedIsSuppressed, EventTypeOK, MailTypeOK,
           SenderTypeOK, WorkerTypeOK, TrackingTypeOK
  <2>9. QED
    BY <2>1, <2>2, <2>3, <2>4, <2>5, <2>6, <2>7, <2>8 DEF EventTypeOK
<1>11. CASE Finish(w)
  <2> USE <1>11 DEF Finish, mail, events, sender, worker, tracking, Goto, Leave, CloseEvent, Overtakes, Increment
  <2>1. MailTypeOK'
    BY TargetType DEF EventTypeOK, MailTypeOK, SenderTypeOK, WorkerTypeOK, TrackingTypeOK,
           Statuses, RStatuses, SPhases, EventStates, Phases, QPhases, Metrics,
           StatusesMeant, Outcomes
  <2>2. SenderTypeOK'
    BY DEF EventTypeOK, MailTypeOK, SenderTypeOK, WorkerTypeOK, TrackingTypeOK, Statuses,
           RStatuses, SPhases, EventStates, Phases, QPhases, Metrics, StatusesMeant,
           Outcomes
  <2>3. WorkerTypeOK'
    BY DEF EventTypeOK, MailTypeOK, SenderTypeOK, WorkerTypeOK, TrackingTypeOK, Statuses,
           RStatuses, SPhases, EventStates, Phases, QPhases, Metrics, StatusesMeant,
           Outcomes
  <2>4. TrackingTypeOK'
    BY DEF EventTypeOK, MailTypeOK, SenderTypeOK, WorkerTypeOK, TrackingTypeOK, Statuses,
           RStatuses, SPhases, EventStates, Phases, QPhases, Metrics, StatusesMeant,
           Outcomes
  <2>5. StatusesMeant'
    BY TargetType DEF StatusesMeant, EventTypeOK, MailTypeOK, SenderTypeOK, WorkerTypeOK,
           TrackingTypeOK, Outcomes
  <2>6. ReadsAllow'
    BY DEF ReadsAllow, EventTypeOK, MailTypeOK, SenderTypeOK, WorkerTypeOK, TrackingTypeOK
  <2>7. FinishedIsSuppressed'
    BY DEF FinishedIsSuppressed, EventTypeOK, MailTypeOK, SenderTypeOK, WorkerTypeOK,
           TrackingTypeOK
  <2>8. ProcessedIsSuppressed'
    BY DEF ProcessedIsSuppressed, FinishedIsSuppressed, EventTypeOK, MailTypeOK,
           SenderTypeOK, WorkerTypeOK, TrackingTypeOK
  <2>9. QED
    BY <2>1, <2>2, <2>3, <2>4, <2>5, <2>6, <2>7, <2>8 DEF EventTypeOK
<1>12. ASSUME NEW retryable \in BOOLEAN, ProcessingFails(w, retryable)
      PROVE  EventInv'
  <2> USE <1>12 DEF ProcessingFails, mail, events, sender, worker, tracking, Goto, Leave, CloseEvent, Overtakes, Increment
  <2>1. MailTypeOK'
    BY TargetType DEF EventTypeOK, MailTypeOK, SenderTypeOK, WorkerTypeOK, TrackingTypeOK,
           Statuses, RStatuses, SPhases, EventStates, Phases, QPhases, Metrics,
           StatusesMeant, Outcomes
  <2>2. SenderTypeOK'
    BY DEF EventTypeOK, MailTypeOK, SenderTypeOK, WorkerTypeOK, TrackingTypeOK, Statuses,
           RStatuses, SPhases, EventStates, Phases, QPhases, Metrics, StatusesMeant,
           Outcomes
  <2>3. WorkerTypeOK'
    BY DEF EventTypeOK, MailTypeOK, SenderTypeOK, WorkerTypeOK, TrackingTypeOK, Statuses,
           RStatuses, SPhases, EventStates, Phases, QPhases, Metrics, StatusesMeant,
           Outcomes
  <2>4. TrackingTypeOK'
    BY DEF EventTypeOK, MailTypeOK, SenderTypeOK, WorkerTypeOK, TrackingTypeOK, Statuses,
           RStatuses, SPhases, EventStates, Phases, QPhases, Metrics, StatusesMeant,
           Outcomes
  <2>5. StatusesMeant'
    BY TargetType DEF StatusesMeant, EventTypeOK, MailTypeOK, SenderTypeOK, WorkerTypeOK,
           TrackingTypeOK, Outcomes
  <2>6. ReadsAllow'
    BY DEF ReadsAllow, EventTypeOK, MailTypeOK, SenderTypeOK, WorkerTypeOK, TrackingTypeOK
  <2>7. FinishedIsSuppressed'
    BY DEF FinishedIsSuppressed, EventTypeOK, MailTypeOK, SenderTypeOK, WorkerTypeOK,
           TrackingTypeOK
  <2>8. ProcessedIsSuppressed'
    BY DEF ProcessedIsSuppressed, FinishedIsSuppressed, EventTypeOK, MailTypeOK,
           SenderTypeOK, WorkerTypeOK, TrackingTypeOK
  <2>9. QED
    BY <2>1, <2>2, <2>3, <2>4, <2>5, <2>6, <2>7, <2>8 DEF EventTypeOK
<1>13. CASE Die(w)
  <2> USE <1>13 DEF Die, mail, events, sender, worker, tracking, Goto, Leave, CloseEvent, Overtakes, Increment
  <2>1. MailTypeOK'
    BY TargetType DEF EventTypeOK, MailTypeOK, SenderTypeOK, WorkerTypeOK, TrackingTypeOK,
           Statuses, RStatuses, SPhases, EventStates, Phases, QPhases, Metrics,
           StatusesMeant, Outcomes
  <2>2. SenderTypeOK'
    BY DEF EventTypeOK, MailTypeOK, SenderTypeOK, WorkerTypeOK, TrackingTypeOK, Statuses,
           RStatuses, SPhases, EventStates, Phases, QPhases, Metrics, StatusesMeant,
           Outcomes
  <2>3. WorkerTypeOK'
    BY DEF EventTypeOK, MailTypeOK, SenderTypeOK, WorkerTypeOK, TrackingTypeOK, Statuses,
           RStatuses, SPhases, EventStates, Phases, QPhases, Metrics, StatusesMeant,
           Outcomes
  <2>4. TrackingTypeOK'
    BY DEF EventTypeOK, MailTypeOK, SenderTypeOK, WorkerTypeOK, TrackingTypeOK, Statuses,
           RStatuses, SPhases, EventStates, Phases, QPhases, Metrics, StatusesMeant,
           Outcomes
  <2>5. StatusesMeant'
    BY TargetType DEF StatusesMeant, EventTypeOK, MailTypeOK, SenderTypeOK, WorkerTypeOK,
           TrackingTypeOK, Outcomes
  <2>6. ReadsAllow'
    BY DEF ReadsAllow, EventTypeOK, MailTypeOK, SenderTypeOK, WorkerTypeOK, TrackingTypeOK
  <2>7. FinishedIsSuppressed'
    BY DEF FinishedIsSuppressed, EventTypeOK, MailTypeOK, SenderTypeOK, WorkerTypeOK,
           TrackingTypeOK
  <2>8. ProcessedIsSuppressed'
    BY DEF ProcessedIsSuppressed, FinishedIsSuppressed, EventTypeOK, MailTypeOK,
           SenderTypeOK, WorkerTypeOK, TrackingTypeOK
  <2>9. QED
    BY <2>1, <2>2, <2>3, <2>4, <2>5, <2>6, <2>7, <2>8 DEF EventTypeOK
<1>14. QED
  BY <1>1, <1>2, <1>3, <1>4, <1>5, <1>6, <1>7, <1>8, <1>9, <1>10, <1>11, <1>12, <1>13

LEMMA TrackingSteps ==
    ASSUME EventInv, NEW q \in Requests,
           \/ \E d \in Deliveries : Open(q, d) \/ Click(q, d)
           \/ OpenDelivers(q) \/ OpenPromotes(q) \/ OpenCounts(q) \/ OpenDies(q)
    PROVE  EventInv'
<1> USE EventConstantsOK DEF EventInv
<1>1. ASSUME NEW d \in Deliveries, Open(q, d) \/ Click(q, d)
      PROVE  EventInv'
  <2> USE <1>1 DEF Open, mail, events, sender, worker, tracking, QGoto, QLeave, Overtakes, Increment, Click
  <2>1. MailTypeOK'
    BY TargetType DEF EventTypeOK, MailTypeOK, SenderTypeOK, WorkerTypeOK, TrackingTypeOK,
           Statuses, RStatuses, SPhases, EventStates, Phases, QPhases, Metrics,
           StatusesMeant, Outcomes
  <2>2. SenderTypeOK'
    BY DEF EventTypeOK, MailTypeOK, SenderTypeOK, WorkerTypeOK, TrackingTypeOK, Statuses,
           RStatuses, SPhases, EventStates, Phases, QPhases, Metrics, StatusesMeant,
           Outcomes
  <2>3. WorkerTypeOK'
    BY DEF EventTypeOK, MailTypeOK, SenderTypeOK, WorkerTypeOK, TrackingTypeOK, Statuses,
           RStatuses, SPhases, EventStates, Phases, QPhases, Metrics, StatusesMeant,
           Outcomes
  <2>4. TrackingTypeOK'
   <3>1. qpc' \in [Requests -> QPhases] /\ qpc'[q] # "idle"
      BY DEF EventTypeOK, TrackingTypeOK, QPhases
    <3>2. qseen' \in [Requests -> Statuses]
      BY DEF EventTypeOK, TrackingTypeOK, MailTypeOK, Statuses
    <3>3. qrseen' \in [Requests -> RStatuses]
      BY DEF EventTypeOK, TrackingTypeOK, MailTypeOK
    <3>4. qcur' \in [Requests -> Deliveries \cup {Null}] /\ \A p \in Requests : qcur'[p] \in Deliveries <=> qpc'[p] # "idle"
      BY <3>1 DEF EventTypeOK, TrackingTypeOK
    <3>5. QED
      BY <3>1, <3>2, <3>3, <3>4 DEF TrackingTypeOK
  <2>5. StatusesMeant'
    BY TargetType DEF StatusesMeant, EventTypeOK, MailTypeOK, SenderTypeOK, WorkerTypeOK,
           TrackingTypeOK, Outcomes
  <2>6. ReadsAllow'
    BY DEF ReadsAllow, EventTypeOK, MailTypeOK, SenderTypeOK, WorkerTypeOK, TrackingTypeOK
  <2>7. FinishedIsSuppressed'
    BY DEF FinishedIsSuppressed, EventTypeOK, MailTypeOK, SenderTypeOK, WorkerTypeOK,
           TrackingTypeOK
  <2>8. ProcessedIsSuppressed'
    BY DEF ProcessedIsSuppressed, FinishedIsSuppressed, EventTypeOK, MailTypeOK,
           SenderTypeOK, WorkerTypeOK, TrackingTypeOK
  <2>9. QED
    BY <2>1, <2>2, <2>3, <2>4, <2>5, <2>6, <2>7, <2>8 DEF EventTypeOK
<1>2. CASE OpenDelivers(q)
  <2> USE <1>2 DEF OpenDelivers, mail, events, sender, worker, tracking, QGoto, QLeave, Overtakes, Increment
  <2>1. MailTypeOK'
    BY TargetType DEF EventTypeOK, MailTypeOK, SenderTypeOK, WorkerTypeOK, TrackingTypeOK,
           Statuses, RStatuses, SPhases, EventStates, Phases, QPhases, Metrics,
           StatusesMeant, Outcomes
  <2>2. SenderTypeOK'
    BY DEF EventTypeOK, MailTypeOK, SenderTypeOK, WorkerTypeOK, TrackingTypeOK, Statuses,
           RStatuses, SPhases, EventStates, Phases, QPhases, Metrics, StatusesMeant,
           Outcomes
  <2>3. WorkerTypeOK'
    BY DEF EventTypeOK, MailTypeOK, SenderTypeOK, WorkerTypeOK, TrackingTypeOK, Statuses,
           RStatuses, SPhases, EventStates, Phases, QPhases, Metrics, StatusesMeant,
           Outcomes
  <2>4. TrackingTypeOK'
   <3>1. CASE qrseen[q] \in {"PENDING", "SENT"}
      BY <3>1 DEF EventTypeOK, TrackingTypeOK, QPhases, Statuses
    <3>2. CASE qrseen[q] \notin {"PENDING", "SENT"}
      BY <3>2 DEF EventTypeOK, TrackingTypeOK, QPhases, Statuses, RStatuses
    <3>3. QED
      BY <3>1, <3>2
  <2>5. StatusesMeant'
    BY TargetType DEF StatusesMeant, EventTypeOK, MailTypeOK, SenderTypeOK, WorkerTypeOK,
           TrackingTypeOK, Outcomes
  <2>6. ReadsAllow'
    BY DEF ReadsAllow, EventTypeOK, MailTypeOK, SenderTypeOK, WorkerTypeOK, TrackingTypeOK
  <2>7. FinishedIsSuppressed'
    BY DEF FinishedIsSuppressed, EventTypeOK, MailTypeOK, SenderTypeOK, WorkerTypeOK,
           TrackingTypeOK
  <2>8. ProcessedIsSuppressed'
    BY DEF ProcessedIsSuppressed, FinishedIsSuppressed, EventTypeOK, MailTypeOK,
           SenderTypeOK, WorkerTypeOK, TrackingTypeOK
  <2>9. QED
    BY <2>1, <2>2, <2>3, <2>4, <2>5, <2>6, <2>7, <2>8 DEF EventTypeOK
<1>3. CASE OpenPromotes(q)
  <2> USE <1>3 DEF OpenPromotes, mail, events, sender, worker, tracking, QGoto, QLeave, Overtakes, Increment
  <2>1. MailTypeOK'
    BY TargetType DEF EventTypeOK, MailTypeOK, SenderTypeOK, WorkerTypeOK, TrackingTypeOK,
           Statuses, RStatuses, SPhases, EventStates, Phases, QPhases, Metrics,
           StatusesMeant, Outcomes
  <2>2. SenderTypeOK'
    BY DEF EventTypeOK, MailTypeOK, SenderTypeOK, WorkerTypeOK, TrackingTypeOK, Statuses,
           RStatuses, SPhases, EventStates, Phases, QPhases, Metrics, StatusesMeant,
           Outcomes
  <2>3. WorkerTypeOK'
    BY DEF EventTypeOK, MailTypeOK, SenderTypeOK, WorkerTypeOK, TrackingTypeOK, Statuses,
           RStatuses, SPhases, EventStates, Phases, QPhases, Metrics, StatusesMeant,
           Outcomes
  <2>4. TrackingTypeOK'
    BY DEF EventTypeOK, MailTypeOK, SenderTypeOK, WorkerTypeOK, TrackingTypeOK, Statuses,
           RStatuses, SPhases, EventStates, Phases, QPhases, Metrics, StatusesMeant,
           Outcomes
  <2>5. StatusesMeant'
    BY TargetType DEF StatusesMeant, EventTypeOK, MailTypeOK, SenderTypeOK, WorkerTypeOK,
           TrackingTypeOK, Outcomes
  <2>6. ReadsAllow'
    BY DEF ReadsAllow, EventTypeOK, MailTypeOK, SenderTypeOK, WorkerTypeOK, TrackingTypeOK
  <2>7. FinishedIsSuppressed'
    BY DEF FinishedIsSuppressed, EventTypeOK, MailTypeOK, SenderTypeOK, WorkerTypeOK,
           TrackingTypeOK
  <2>8. ProcessedIsSuppressed'
    BY DEF ProcessedIsSuppressed, FinishedIsSuppressed, EventTypeOK, MailTypeOK,
           SenderTypeOK, WorkerTypeOK, TrackingTypeOK
  <2>9. QED
    BY <2>1, <2>2, <2>3, <2>4, <2>5, <2>6, <2>7, <2>8 DEF EventTypeOK
<1>4. CASE OpenCounts(q)
  <2> USE <1>4 DEF OpenCounts, mail, events, sender, worker, tracking, QGoto, QLeave, Overtakes, Increment
  <2>1. MailTypeOK'
    BY TargetType DEF EventTypeOK, MailTypeOK, SenderTypeOK, WorkerTypeOK, TrackingTypeOK,
           Statuses, RStatuses, SPhases, EventStates, Phases, QPhases, Metrics,
           StatusesMeant, Outcomes
  <2>2. SenderTypeOK'
    BY DEF EventTypeOK, MailTypeOK, SenderTypeOK, WorkerTypeOK, TrackingTypeOK, Statuses,
           RStatuses, SPhases, EventStates, Phases, QPhases, Metrics, StatusesMeant,
           Outcomes
  <2>3. WorkerTypeOK'
    BY DEF EventTypeOK, MailTypeOK, SenderTypeOK, WorkerTypeOK, TrackingTypeOK, Statuses,
           RStatuses, SPhases, EventStates, Phases, QPhases, Metrics, StatusesMeant,
           Outcomes
  <2>4. TrackingTypeOK'
    BY DEF EventTypeOK, MailTypeOK, SenderTypeOK, WorkerTypeOK, TrackingTypeOK, Statuses,
           RStatuses, SPhases, EventStates, Phases, QPhases, Metrics, StatusesMeant,
           Outcomes
  <2>5. StatusesMeant'
    BY TargetType DEF StatusesMeant, EventTypeOK, MailTypeOK, SenderTypeOK, WorkerTypeOK,
           TrackingTypeOK, Outcomes
  <2>6. ReadsAllow'
    BY DEF ReadsAllow, EventTypeOK, MailTypeOK, SenderTypeOK, WorkerTypeOK, TrackingTypeOK
  <2>7. FinishedIsSuppressed'
    BY DEF FinishedIsSuppressed, EventTypeOK, MailTypeOK, SenderTypeOK, WorkerTypeOK,
           TrackingTypeOK
  <2>8. ProcessedIsSuppressed'
    BY DEF ProcessedIsSuppressed, FinishedIsSuppressed, EventTypeOK, MailTypeOK,
           SenderTypeOK, WorkerTypeOK, TrackingTypeOK
  <2>9. QED
    BY <2>1, <2>2, <2>3, <2>4, <2>5, <2>6, <2>7, <2>8 DEF EventTypeOK
<1>5. CASE OpenDies(q)
  <2> USE <1>5 DEF OpenDies, mail, events, sender, worker, tracking, QGoto, QLeave, Overtakes, Increment
  <2>1. MailTypeOK'
    BY TargetType DEF EventTypeOK, MailTypeOK, SenderTypeOK, WorkerTypeOK, TrackingTypeOK,
           Statuses, RStatuses, SPhases, EventStates, Phases, QPhases, Metrics,
           StatusesMeant, Outcomes
  <2>2. SenderTypeOK'
    BY DEF EventTypeOK, MailTypeOK, SenderTypeOK, WorkerTypeOK, TrackingTypeOK, Statuses,
           RStatuses, SPhases, EventStates, Phases, QPhases, Metrics, StatusesMeant,
           Outcomes
  <2>3. WorkerTypeOK'
    BY DEF EventTypeOK, MailTypeOK, SenderTypeOK, WorkerTypeOK, TrackingTypeOK, Statuses,
           RStatuses, SPhases, EventStates, Phases, QPhases, Metrics, StatusesMeant,
           Outcomes
  <2>4. TrackingTypeOK'
    BY DEF EventTypeOK, MailTypeOK, SenderTypeOK, WorkerTypeOK, TrackingTypeOK, Statuses,
           RStatuses, SPhases, EventStates, Phases, QPhases, Metrics, StatusesMeant,
           Outcomes
  <2>5. StatusesMeant'
    BY TargetType DEF StatusesMeant, EventTypeOK, MailTypeOK, SenderTypeOK, WorkerTypeOK,
           TrackingTypeOK, Outcomes
  <2>6. ReadsAllow'
    BY DEF ReadsAllow, EventTypeOK, MailTypeOK, SenderTypeOK, WorkerTypeOK, TrackingTypeOK
  <2>7. FinishedIsSuppressed'
    BY DEF FinishedIsSuppressed, EventTypeOK, MailTypeOK, SenderTypeOK, WorkerTypeOK,
           TrackingTypeOK
  <2>8. ProcessedIsSuppressed'
    BY DEF ProcessedIsSuppressed, FinishedIsSuppressed, EventTypeOK, MailTypeOK,
           SenderTypeOK, WorkerTypeOK, TrackingTypeOK
  <2>9. QED
    BY <2>1, <2>2, <2>3, <2>4, <2>5, <2>6, <2>7, <2>8 DEF EventTypeOK
<1>6. QED
  BY <1>1, <1>2, <1>3, <1>4, <1>5

LEMMA StepHolds == EventInv /\ [Next]_vars => EventInv'
<1> SUFFICES ASSUME EventInv, [Next]_vars PROVE EventInv'
  OBVIOUS
<1>1. CASE UNCHANGED vars
  <2> USE <1>1 DEF EventInv, vars, mail, events, sender, worker, tracking
  <2>1. EventTypeOK'
    BY DEF EventTypeOK, MailTypeOK, SenderTypeOK, WorkerTypeOK, TrackingTypeOK
  <2>2. StatusesMeant' /\ ReadsAllow' /\ FinishedIsSuppressed' /\ ProcessedIsSuppressed'
    BY DEF StatusesMeant, ReadsAllow, FinishedIsSuppressed, ProcessedIsSuppressed
  <2>3. QED
    BY <2>1, <2>2
<1>2. ASSUME NEW d \in Deliveries,
             \/ Look(d) \/ RefuseSuppressed(d) \/ Dispatch(d) \/ ClaimLost(d)
             \/ \E retryable \in BOOLEAN : SendFails(d, retryable)
             \/ RecordDelivery(d) \/ RecordRecipient(d) \/ BookkeepingFails(d) \/ SenderDies(d)
             \/ ReconcileRecipient(d) \/ ReconcileDelivery(d)
      PROVE  EventInv'
  BY <1>2, SenderSteps
<1>3. ASSUME NEW e \in Events, Record(e) \/ Enqueued(e) \/ EnqueueFails(e) PROVE EventInv'
  BY <1>3, PostingSteps
<1>4. ASSUME NEW w \in Invocations,
             \/ \E e \in Events : Load(w, e)
             \/ Process(w) \/ Die(w)
             \/ \E retryable \in BOOLEAN : ProcessingFails(w, retryable)
      PROVE  EventInv'
  BY <1>4, WorkerSteps DEF Process
<1>5. ASSUME NEW q \in Requests,
             \/ \E d \in Deliveries : Open(q, d) \/ Click(q, d)
             \/ OpenDelivers(q) \/ OpenPromotes(q) \/ OpenCounts(q) \/ OpenDies(q)
      PROVE  EventInv'
  BY <1>5, TrackingSteps
<1>6. QED
  BY <1>1, <1>2, <1>3, <1>4, <1>5 DEF Next

(* Whatever writes a delivery that has an outcome applies a complaint to a  *)
(* delivered one, or missed a change.                                       *)
LEMMA OutcomesKept ==
    ASSUME EventInv, Next, NEW d \in Deliveries, dstatus[d] \in Outcomes, dstatus'[d] # dstatus[d]
    PROVE  (dstatus[d] = "DELIVERED" /\ dstatus'[d] = "COMPLAINED") \/ d \in raced'
<1> USE DEF EventInv, EventTypeOK, MailTypeOK
<1>1. ASSUME NEW b \in Deliveries,
             \/ Dispatch(b) \/ RecordDelivery(b) \/ ReconcileDelivery(b)
             \/ \E retryable \in BOOLEAN : SendFails(b, retryable)
      PROVE  d \in raced'
  <2>1. b = d
    BY <1>1 DEF Dispatch, RecordDelivery, ReconcileDelivery, SendFails
  <2>2. CASE Dispatch(d)
    BY <2>2 DEF Dispatch, Overtakes, ReadsAllow, Unsent, Outcomes
  <2>3. CASE RecordDelivery(d)
    BY <2>3 DEF RecordDelivery, Overtakes, Outcomes
  <2>4. ~ReconcileDelivery(d) /\ ~\E retryable \in BOOLEAN : SendFails(d, retryable)
    BY DEF ReconcileDelivery, SendFails, Outcomes
  <2>5. QED
    BY <1>1, <2>1, <2>2, <2>3, <2>4
<1>2. ASSUME NEW w \in Invocations, Apply(w)
      PROVE  (dstatus[d] = "DELIVERED" /\ dstatus'[d] = "COMPLAINED") \/ d \in raced'
  <2>1. cur[w] \in Events /\ EventOf[cur[w]] = d
    BY <1>2 DEF Apply, WorkerTypeOK
  <2>2. dstatus'[d] = Target(kind[cur[w]]) /\ (dstatus[d] # seen[w] => d \in raced')
    BY <1>2, <2>1 DEF Apply, Overtakes
  <2>3. CanTransition(seen[w], Target(kind[cur[w]]))
    BY <1>2 DEF Apply, ReadsAllow
  <2>4. QED
    BY <2>2, <2>3 DEF CanTransition, Outcomes
<1>3. ASSUME NEW q \in Requests, OpenDelivers(q) PROVE d \in raced'
  BY <1>3 DEF OpenDelivers, Overtakes, ReadsAllow, Outcomes, TrackingTypeOK
<1>4. ASSUME NEW b \in Deliveries,
             \/ Look(b) \/ RefuseSuppressed(b) \/ ClaimLost(b) \/ RecordRecipient(b)
             \/ BookkeepingFails(b) \/ SenderDies(b) \/ ReconcileRecipient(b)
      PROVE  FALSE
  BY <1>4 DEF Look, RefuseSuppressed, ClaimLost, RecordRecipient, BookkeepingFails,
         SenderDies, ReconcileRecipient, mail
<1>5. ASSUME NEW e \in Events, Record(e) \/ Enqueued(e) \/ EnqueueFails(e) PROVE FALSE
  BY <1>5 DEF Record, Enqueued, EnqueueFails, mail
<1>6. ASSUME NEW w \in Invocations,
             \/ \E e \in Events : Load(w, e)
             \/ ClaimEvent(w) \/ ClaimRefused(w) \/ Decide(w) \/ ApplyToRecipient(w) \/ Count(w)
             \/ Recheck(w) \/ Complain(w) \/ Suppress(w) \/ Finish(w) \/ Die(w)
             \/ \E retryable \in BOOLEAN : ProcessingFails(w, retryable)
      PROVE  FALSE
  BY <1>6 DEF Load, ClaimEvent, ClaimRefused, Decide, ApplyToRecipient, Count, Recheck,
         Complain, Suppress, Finish, Die, ProcessingFails, CloseEvent, mail
<1>7. ASSUME NEW q \in Requests,
             \/ \E b \in Deliveries : Open(q, b) \/ Click(q, b)
             \/ OpenPromotes(q) \/ OpenCounts(q) \/ OpenDies(q)
      PROVE  FALSE
  BY <1>7 DEF Open, Click, OpenPromotes, OpenCounts, OpenDies, mail
<1>8. QED
  BY <1>1, <1>2, <1>3, <1>4, <1>5, <1>6, <1>7 DEF Next, Process

-----------------------------------------------------------------------------
(* What the processes have read and decided fits their rows in every state. *)
THEOREM InvariantHolds == EventSpec => []EventInv
BY InitHolds, StepHolds, PTL DEF EventSpec

(* Deliveries, recipients, events and the processes keep their types: no    *)
(* event makes a status of a row that the row cannot have.                  *)
THEOREM EventTypesHold == EventSpec => []EventTypeOK
BY InvariantHolds, PTL DEF EventInv

(* A processed complaint, hard bounce or unsubscribe has put the address on *)
(* the suppression list.                                                    *)
THEOREM ProcessedAreSuppressed == EventSpec => []ProcessedIsSuppressed
BY InvariantHolds, PTL DEF EventInv

(* A delivery keeps its outcome, unless a write missed a change.            *)
THEOREM OutcomesAreKept == EventSpec => OutcomesStand
<1> DEFINE Stand == \A d \in Deliveries :
                       dstatus[d] \in Outcomes /\ dstatus'[d] # dstatus[d] =>
                          <<dstatus[d], dstatus'[d]>> = <<"DELIVERED", "COMPLAINED">> \/ d \in raced'
<1>1. EventInv /\ [Next]_vars => [Stand]_vars
  BY OutcomesKept
<1>2. QED
  BY <1>1, InvariantHolds, PTL DEF EventSpec, OutcomesStand

-----------------------------------------------------------------------------

(* Counting (CountedOnce).                                                  *)
InFlight == {"QUEUED", "PROCESSING", "SENT"}

(* An event is recorded, and loaded, only of a mail that was accepted, and  *)
(* that was sent from a row.                                                *)
NewsOfTheSent ==
    /\ \A d \in Deliveries : d \in accepted => dstatus[d] # "NONE"
    /\ \A e \in Events : estatus[e] # "NONE" \/ e \in posting => EventOf[e] \in accepted
    /\ \A w \in Invocations : pc[w] # "idle" => EventOf[cur[w]] \in accepted

(* A recipient counted as SENT is not claimed again.                        *)
SentIsCounted ==
    \A d \in Deliveries :
        /\ counted[d]["SENT"] <= 1
        /\ counted[d]["SENT"] = 1 => rstatus[d] \notin {"PENDING", "PROCESSING"}

(* Who is about to count what.                                              *)
Counts(w, d, m) == pc[w] = "count" /\ EventOf[cur[w]] = d /\ Target(kind[cur[w]]) = m
OpensCount(q, d, m) == m = "DELIVERED" /\ qpc[q] = "count" /\ qcur[q] = d

NoneCounted(d, m) ==
    /\ counted[d][m] = 0
    /\ \A w \in Invocations : ~ Counts(w, d, m)
    /\ \A q \in Requests : ~ OpensCount(q, d, m)

OneCounted(d, m) ==
    /\ counted[d][m] <= 1
    /\ counted[d][m] = 1 => /\ \A w \in Invocations : ~ Counts(w, d, m)
                            /\ \A q \in Requests : ~ OpensCount(q, d, m)
    /\ \A v, w \in Invocations : Counts(v, d, m) /\ Counts(w, d, m) => v = w
    /\ \A p, q \in Requests : OpensCount(p, d, m) /\ OpensCount(q, d, m) => p = q
    /\ \A w \in Invocations, q \in Requests : ~ (Counts(w, d, m) /\ OpensCount(q, d, m))

(* An outcome is counted after the recipient has one, and the recipient has *)
(* one after the delivery has.                                              *)
Tally(d) ==
    /\ \A m \in Outcomes : OneCounted(d, m)
    /\ rstatus[d] \notin Outcomes => \A m \in Outcomes : NoneCounted(d, m)
    /\ rstatus[d] # "COMPLAINED" => NoneCounted(d, "COMPLAINED")
    /\ dstatus[d] \in InFlight \cup {"NONE"} => rstatus[d] \notin Outcomes
    /\ dstatus[d] = "DELIVERED" => rstatus[d] # "COMPLAINED"

(* What an invocation and a request have read still lets them write.        *)
Allowed(w, d) ==
    LET target == Target(kind[cur[w]]) IN
    /\ pc[w] \in {"apply", "recipient"} =>
           /\ target # "COMPLAINED" => rseen[w] \notin Outcomes
           /\ target = "COMPLAINED" => rseen[w] # "COMPLAINED"
    /\ pc[w] = "recipient" /\ target \in Outcomes =>
           dstatus[d] \in {target} \cup (IF target = "DELIVERED" THEN {"COMPLAINED"} ELSE {})
    /\ pc[w] = "complain" => rseen[w] # "COMPLAINED"
    /\ pc[w] \in {"complaint", "complain"} => seen[w] \in {"BOUNCED", "COMPLAINED", "FAILED"}

OpenAllowed(q) ==
    qpc[q] = "recipient" => qrseen[q] \in {"PENDING", "SENT"} /\ qseen[q] \notin InFlight \cup {"NONE"}

CountInv ==
    /\ NewsOfTheSent
    /\ SentIsCounted
    /\ \A d \in Deliveries \ raced : Tally(d)
    /\ \A w \in Invocations, d \in Deliveries \ raced :
           pc[w] # "idle" /\ EventOf[cur[w]] = d => Allowed(w, d)
    /\ \A q \in Requests : OpenAllowed(q)

LEMMA OutcomeTargets ==
    /\ Outcomes = {"DELIVERED", "BOUNCED", "COMPLAINED"}
    /\ \A k \in EventKinds : Target(k) \in Outcomes \cup {"SENT", "FAILED", "NONE"}
    /\ Outcomes \subseteq Metrics /\ Outcomes \subseteq RStatuses /\ Outcomes \subseteq Statuses
BY TargetType DEF Outcomes, Metrics, RStatuses, Statuses

(* Nobody begins to count: what the rows say may change as long as they     *)
(* agree.                                                                   *)
LEMMA TallyMoves ==
    ASSUME NEW d \in Deliveries, Tally(d),
           \A m \in Outcomes : counted'[d][m] = counted[d][m],
           \A w \in Invocations, m \in Outcomes : Counts(w, d, m)' => Counts(w, d, m),
           \A q \in Requests, m \in Outcomes : OpensCount(q, d, m)' => OpensCount(q, d, m),
           rstatus'[d] \notin Outcomes => rstatus[d] \notin Outcomes,
           rstatus'[d] # "COMPLAINED" => rstatus[d] # "COMPLAINED",
           dstatus'[d] \in InFlight \cup {"NONE"} => rstatus'[d] \notin Outcomes,
           dstatus'[d] = "DELIVERED" => rstatus'[d] # "COMPLAINED"
    PROVE  Tally(d)'
<1>1. \A m \in Outcomes : NoneCounted(d, m) => NoneCounted(d, m)'
  BY DEF NoneCounted
<1>2. \A m \in Outcomes : OneCounted(d, m) => OneCounted(d, m)'
  BY DEF OneCounted
<1>3. "COMPLAINED" \in Outcomes
  BY DEF Outcomes
<1>4. QED
  BY <1>1, <1>2, <1>3 DEF Tally

(* An invocation gives a recipient an outcome and is about to count it.     *)
LEMMA TallyBegins ==
    ASSUME NEW d \in Deliveries, Tally(d), NEW b \in Invocations, NEW o \in Outcomes, NoneCounted(d, o),
           \A m \in Outcomes : counted'[d][m] = counted[d][m],
           \A w \in Invocations, m \in Outcomes :
               Counts(w, d, m)' => Counts(w, d, m) \/ (w = b /\ m = o),
           \A q \in Requests, m \in Outcomes : OpensCount(q, d, m)' => OpensCount(q, d, m),
           rstatus'[d] = o, o # "COMPLAINED" => rstatus[d] \notin Outcomes,
           dstatus'[d] \notin InFlight \cup {"NONE"},
           dstatus'[d] = "DELIVERED" => o # "COMPLAINED"
    PROVE  Tally(d)'
<1>1. \A m \in Outcomes \ {o} : NoneCounted(d, m) => NoneCounted(d, m)'
  BY DEF NoneCounted
<1>2. \A m \in Outcomes \ {o} : OneCounted(d, m) => OneCounted(d, m)'
  BY DEF OneCounted
<1>3. OneCounted(d, o)'
  <2>1. counted'[d][o] = 0
    BY DEF NoneCounted
  <2>2. \A w \in Invocations : Counts(w, d, o)' => w = b
    BY DEF NoneCounted
  <2>3. \A q \in Requests : ~ OpensCount(q, d, o)'
    BY DEF NoneCounted
  <2>4. QED
    BY <2>1, <2>2, <2>3 DEF OneCounted
<1>4. "COMPLAINED" \in Outcomes
  BY DEF Outcomes
<1>5. o # "COMPLAINED" => NoneCounted(d, "COMPLAINED")'
  BY <1>1, <1>4 DEF Tally
<1>6. QED
  BY <1>2, <1>3, <1>5 DEF Tally

(* So does a request.                                                       *)
LEMMA TallyOpens ==
    ASSUME NEW d \in Deliveries, Tally(d), NEW b \in Requests, NoneCounted(d, "DELIVERED"),
           \A m \in Outcomes : counted'[d][m] = counted[d][m],
           \A w \in Invocations, m \in Outcomes : Counts(w, d, m)' => Counts(w, d, m),
           \A q \in Requests, m \in Outcomes :
               OpensCount(q, d, m)' => OpensCount(q, d, m) \/ (q = b /\ m = "DELIVERED"),
           rstatus'[d] = "DELIVERED", rstatus[d] \notin Outcomes,
           dstatus'[d] \notin InFlight \cup {"NONE"}
    PROVE  Tally(d)'
<1>1. \A m \in Outcomes \ {"DELIVERED"} : NoneCounted(d, m) => NoneCounted(d, m)'
  BY DEF NoneCounted
<1>2. \A m \in Outcomes \ {"DELIVERED"} : OneCounted(d, m) => OneCounted(d, m)'
  BY DEF OneCounted
<1>3. "COMPLAINED" \in Outcomes /\ "DELIVERED" \in Outcomes
  BY DEF Outcomes
<1>4. OneCounted(d, "DELIVERED")'
  <2>1. counted'[d]["DELIVERED"] = 0
    BY <1>3 DEF NoneCounted
  <2>2. \A w \in Invocations : ~ Counts(w, d, "DELIVERED")'
    BY <1>3 DEF NoneCounted
  <2>3. \A q \in Requests : OpensCount(q, d, "DELIVERED")' => q = b
    BY <1>3 DEF NoneCounted
  <2>4. QED
    BY <2>1, <2>2, <2>3 DEF OneCounted
<1>5. NoneCounted(d, "COMPLAINED")'
  BY <1>1, <1>3 DEF Tally
<1>6. QED
  BY <1>2, <1>3, <1>4, <1>5 DEF Tally

(* One of them counts, and is done with it.                                 *)
LEMMA TallyCounts ==
    ASSUME NEW d \in Deliveries, Tally(d), NEW o \in Outcomes,
           \/ \E b \in Invocations : Counts(b, d, o) /\ ~ Counts(b, d, o)'
           \/ \E b \in Requests : OpensCount(b, d, o) /\ ~ OpensCount(b, d, o)',
           counted'[d][o] = counted[d][o] + 1, counted[d][o] \in Nat,
           \A m \in Outcomes \ {o} : counted'[d][m] = counted[d][m],
           \A w \in Invocations, m \in Outcomes : Counts(w, d, m)' => Counts(w, d, m),
           \A q \in Requests, m \in Outcomes : OpensCount(q, d, m)' => OpensCount(q, d, m),
           UNCHANGED <<rstatus, dstatus>>
    PROVE  Tally(d)'
<1>1. \A m \in Outcomes \ {o} : NoneCounted(d, m) => NoneCounted(d, m)'
  BY DEF NoneCounted
<1>2. \A m \in Outcomes \ {o} : OneCounted(d, m) => OneCounted(d, m)'
  BY DEF OneCounted
<1>3. OneCounted(d, o)
  BY DEF Tally
<1>4. counted[d][o] = 0
  BY <1>3 DEF OneCounted
<1>5. \A w \in Invocations : ~ Counts(w, d, o)'
  BY <1>3 DEF OneCounted
<1>6. \A q \in Requests : ~ OpensCount(q, d, o)'
  BY <1>3 DEF OneCounted
<1>7. OneCounted(d, o)'
  BY <1>4, <1>5, <1>6 DEF OneCounted
<1>8. ~ NoneCounted(d, o)
  BY DEF NoneCounted
<1>9. QED
  BY <1>1, <1>2, <1>7, <1>8 DEF Tally, Outcomes

-----------------------------------------------------------------------------
(* What an executor and a reconciliation do to the rows of a mail.          *)
LEMMA SenderWrites ==
    ASSUME EventInv, NEW b \in Deliveries,
           \/ Look(b) \/ RefuseSuppressed(b) \/ Dispatch(b) \/ ClaimLost(b)
           \/ \E retryable \in BOOLEAN : SendFails(b, retryable)
           \/ RecordDelivery(b) \/ RecordRecipient(b) \/ BookkeepingFails(b)
           \/ SenderDies(b) \/ ReconcileRecipient(b) \/ ReconcileDelivery(b)
    PROVE  /\ UNCHANGED <<events, worker, tracking, posting>> /\ raced \subseteq raced'
           /\ \A d \in Deliveries \ {b} : /\ dstatus'[d] = dstatus[d] /\ rstatus'[d] = rstatus[d]
                                          /\ counted'[d] = counted[d]
           /\ \/ rstatus'[b] = rstatus[b]
              \/ rstatus[b] \in {"PENDING", "PROCESSING"} /\ rstatus'[b] \in {"PROCESSING", "FAILED"}
              \/ rstatus[b] = "PROCESSING" /\ rstatus'[b] \in {"PENDING", "SENT"}
           /\ \/ dstatus'[b] = dstatus[b]
              \/ dstatus'[b] \in InFlight /\ (rstatus[b] = "PROCESSING" \/ dstatus[b] \in InFlight \/ b \in raced')
              \/ dstatus[b] \in InFlight /\ dstatus'[b] = "FAILED"
           /\ \/ counted'[b] = counted[b]
              \/ /\ rstatus[b] = "PROCESSING" /\ rstatus'[b] = "SENT"
                 /\ counted'[b] = [counted[b] EXCEPT !["SENT"] = counted[b]["SENT"] + 1]
           /\ accepted \subseteq accepted' /\ accepted' \subseteq accepted \cup {b}
           /\ b \in accepted' /\ b \notin accepted => dstatus'[b] = "PROCESSING"
<1> USE DEF EventInv, EventTypeOK, MailTypeOK, InFlight
<1>1. CASE Look(b)
  BY <1>1 DEF Look
<1>2. CASE RefuseSuppressed(b)
  BY <1>2 DEF RefuseSuppressed, sender
<1>3. CASE Dispatch(b)
  BY <1>3 DEF Dispatch, Overtakes
<1>4. CASE ClaimLost(b)
  BY <1>4 DEF ClaimLost, mail
<1>5. ASSUME NEW retryable \in BOOLEAN, SendFails(b, retryable)
      PROVE  /\ UNCHANGED <<events, worker, tracking, posting, raced, counted, accepted>>
             /\ \/ rstatus' = rstatus
                \/ /\ rstatus[b] = "PROCESSING"
                   /\ rstatus' = [rstatus EXCEPT ![b] = "PENDING"] \/ rstatus' = [rstatus EXCEPT ![b] = "FAILED"]
             /\ \/ dstatus' = dstatus
                \/ /\ dstatus[b] = "PROCESSING"
                   /\ dstatus' = [dstatus EXCEPT ![b] = "QUEUED"] \/ dstatus' = [dstatus EXCEPT ![b] = "FAILED"]
  BY <1>5 DEF SendFails, Unclaim
<1>6. CASE \E retryable \in BOOLEAN : SendFails(b, retryable)
  BY <1>5, <1>6
<1>7. CASE RecordDelivery(b)
  BY <1>7 DEF RecordDelivery, Overtakes
<1>8. CASE RecordRecipient(b)
  BY <1>8 DEF RecordRecipient, Unclaim, Increment
<1>9. CASE BookkeepingFails(b)
  BY <1>9 DEF BookkeepingFails, Unclaim
<1>10. CASE SenderDies(b)
  BY <1>10 DEF SenderDies, mail
<1>11. CASE ReconcileRecipient(b)
  BY <1>11 DEF ReconcileRecipient, Unclaim
<1>12. CASE ReconcileDelivery(b)
  BY <1>12 DEF ReconcileDelivery, sender
<1>13. QED
  BY <1>1, <1>2, <1>3, <1>4, <1>6, <1>7, <1>8, <1>9, <1>10, <1>11, <1>12

LEMMA SenderKeepsCounts ==
    ASSUME EventInv, CountInv, Next, NEW b \in Deliveries,
           \/ Look(b) \/ RefuseSuppressed(b) \/ Dispatch(b) \/ ClaimLost(b)
           \/ \E retryable \in BOOLEAN : SendFails(b, retryable)
           \/ RecordDelivery(b) \/ RecordRecipient(b) \/ BookkeepingFails(b)
           \/ SenderDies(b) \/ ReconcileRecipient(b) \/ ReconcileDelivery(b)
    PROVE  CountInv'
<1>1. /\ UNCHANGED <<events, worker, tracking, posting>> /\ raced \subseteq raced'
      /\ \A d \in Deliveries \ {b} : /\ dstatus'[d] = dstatus[d] /\ rstatus'[d] = rstatus[d]
                                     /\ counted'[d] = counted[d]
      /\ \/ rstatus'[b] = rstatus[b]
         \/ rstatus[b] \in {"PENDING", "PROCESSING"} /\ rstatus'[b] \in {"PROCESSING", "FAILED"}
         \/ rstatus[b] = "PROCESSING" /\ rstatus'[b] \in {"PENDING", "SENT"}
      /\ \/ dstatus'[b] = dstatus[b]
         \/ dstatus'[b] \in InFlight /\ (rstatus[b] = "PROCESSING" \/ dstatus[b] \in InFlight \/ b \in raced')
         \/ dstatus[b] \in InFlight /\ dstatus'[b] = "FAILED"
      /\ \/ counted'[b] = counted[b]
         \/ /\ rstatus[b] = "PROCESSING" /\ rstatus'[b] = "SENT"
            /\ counted'[b] = [counted[b] EXCEPT !["SENT"] = counted[b]["SENT"] + 1]
      /\ accepted \subseteq accepted' /\ accepted' \subseteq accepted \cup {b}
      /\ b \in accepted' /\ b \notin accepted => dstatus'[b] = "PROCESSING"
  BY SenderWrites
<1>2. /\ UNCHANGED <<kind, estatus, pc, cur, seen, rseen, qpc, qcur, qseen, qrseen, posting>>
      /\ raced \subseteq raced'
  BY <1>1 DEF events, worker, tracking
<1>3. \A d \in Deliveries : counted[d] \in [Metrics -> Nat]
  BY DEF EventInv, EventTypeOK, MailTypeOK
<1>4. NewsOfTheSent'
  BY <1>1, <1>2 DEF CountInv, NewsOfTheSent, InFlight
<1>5. SentIsCounted'
  <2>1. \A d \in Deliveries \ {b} : counted'[d] = counted[d] /\ rstatus'[d] = rstatus[d]
    BY <1>1
  <2>2. "SENT" \in Metrics /\ counted[b]["SENT"] \in Nat
    BY <1>3 DEF Metrics
  <2>3. /\ counted'[b]["SENT"] <= 1
        /\ counted'[b]["SENT"] = 1 => rstatus'[b] \notin {"PENDING", "PROCESSING"}
    <3>1. CASE counted'[b] = counted[b]
      BY <1>1, <2>2, <3>1 DEF CountInv, SentIsCounted
    <3>2. CASE /\ rstatus[b] = "PROCESSING" /\ rstatus'[b] = "SENT"
               /\ counted'[b] = [counted[b] EXCEPT !["SENT"] = counted[b]["SENT"] + 1]
      <4>1. counted[b]["SENT"] = 0
        BY <2>2, <3>2 DEF CountInv, SentIsCounted
      <4>2. counted'[b]["SENT"] = 1
        BY <1>3, <2>2, <3>2, <4>1
      <4>3. QED
        BY <3>2, <4>2
    <3>3. QED
      BY <1>1, <3>1, <3>2
  <2>4. QED
    BY <2>1, <2>3 DEF CountInv, SentIsCounted
<1>6. ASSUME NEW d \in Deliveries \ raced' PROVE Tally(d)'
  <2>1. Tally(d)
    BY <1>2 DEF CountInv
  <2>2. \A m \in Outcomes : counted'[d][m] = counted[d][m]
    BY <1>1, <1>3 DEF Outcomes, Metrics
  <2>3. \A w \in Invocations, m \in Outcomes : Counts(w, d, m)' => Counts(w, d, m)
    BY <1>2 DEF Counts
  <2>4. \A q \in Requests, m \in Outcomes : OpensCount(q, d, m)' => OpensCount(q, d, m)
    BY <1>2 DEF OpensCount
  <2>5. /\ rstatus'[d] \notin Outcomes => rstatus[d] \notin Outcomes
        /\ rstatus'[d] # "COMPLAINED" => rstatus[d] # "COMPLAINED"
    BY <1>1 DEF Outcomes
  <2>6. dstatus'[d] \in InFlight \cup {"NONE"} => rstatus'[d] \notin Outcomes
    BY <1>1, <2>1 DEF Tally, InFlight, Outcomes
  <2>7. dstatus'[d] = "DELIVERED" => rstatus'[d] # "COMPLAINED"
    BY <1>1, <2>1 DEF Tally, InFlight, Outcomes
  <2>8. QED
    BY <2>1, <2>2, <2>3, <2>4, <2>5, <2>6, <2>7, TallyMoves
<1>7. ASSUME NEW w \in Invocations, NEW d \in Deliveries \ raced',
             pc'[w] # "idle", EventOf[cur'[w]] = d
      PROVE  Allowed(w, d)'
  <2>1. Allowed(w, d)
    BY <1>2, <1>7 DEF CountInv
  <2>2. dstatus[d] \in Outcomes /\ dstatus'[d] # dstatus[d] =>
           dstatus[d] = "DELIVERED" /\ dstatus'[d] = "COMPLAINED"
    BY OutcomesKept
  <2>3. QED
    BY <1>2, <2>1, <2>2 DEF Allowed, Outcomes
<1>8. \A q \in Requests : OpenAllowed(q)'
  BY <1>2 DEF CountInv, OpenAllowed
<1>9. QED
  BY <1>4, <1>5, <1>6, <1>7, <1>8 DEF CountInv

-----------------------------------------------------------------------------
(* What is left to show of a step once the rows' tallies stay right.        *)
LEMMA StepKeepsCounts ==
    ASSUME EventInv, CountInv, Next,
           raced \subseteq raced', UNCHANGED <<accepted, kind, posting>>,
           \A e \in Events : estatus'[e] # "NONE" => estatus[e] # "NONE",
           \A d \in Deliveries :
               /\ dstatus[d] # "NONE" => dstatus'[d] # "NONE"
               /\ counted'[d]["SENT"] = counted[d]["SENT"]
               /\ rstatus[d] \notin {"PENDING", "PROCESSING"} => rstatus'[d] \notin {"PENDING", "PROCESSING"},
           \A w \in Invocations :
               \/ pc'[w] = pc[w] /\ cur'[w] = cur[w] /\ seen'[w] = seen[w] /\ rseen'[w] = rseen[w]
               \/ pc'[w] = "idle"
               \/ /\ EventOf[cur'[w]] \in accepted
                  /\ \A d \in Deliveries \ raced' : EventOf[cur'[w]] = d => Allowed(w, d)',
           \A q \in Requests :
               \/ qpc'[q] = qpc[q] /\ qseen'[q] = qseen[q] /\ qrseen'[q] = qrseen[q]
               \/ OpenAllowed(q)',
           \A d \in Deliveries \ raced' : Tally(d)'
    PROVE  CountInv'
<1>1. NewsOfTheSent'
  BY DEF CountInv, NewsOfTheSent
<1>2. SentIsCounted'
  BY DEF CountInv, SentIsCounted
<1>3. ASSUME NEW w \in Invocations, NEW d \in Deliveries \ raced',
             pc'[w] # "idle", EventOf[cur'[w]] = d
      PROVE  Allowed(w, d)'
  <2>1. dstatus[d] \in Outcomes /\ dstatus'[d] # dstatus[d] =>
           dstatus[d] = "DELIVERED" /\ dstatus'[d] = "COMPLAINED"
    BY OutcomesKept
  <2>2. CASE pc'[w] = pc[w] /\ cur'[w] = cur[w] /\ seen'[w] = seen[w] /\ rseen'[w] = rseen[w]
    <3>1. Allowed(w, d)
      BY <1>3, <2>2 DEF CountInv
    <3>2. QED
      BY <2>1, <2>2, <3>1 DEF Allowed, Outcomes
  <2>3. QED
    BY <1>3, <2>2
<1>4. \A q \in Requests : OpenAllowed(q)'
  BY DEF CountInv, OpenAllowed
<1>5. QED
  BY <1>1, <1>2, <1>3, <1>4 DEF CountInv

(* Nobody begins to count: the rows' tallies stay.                          *)
LEMMA TallyStays ==
    ASSUME NEW d \in Deliveries, Tally(d),
           dstatus'[d] = dstatus[d], rstatus'[d] = rstatus[d],
           \A m \in Outcomes : counted'[d][m] = counted[d][m],
           \A w \in Invocations, m \in Outcomes : Counts(w, d, m)' => Counts(w, d, m),
           \A q \in Requests, m \in Outcomes : OpensCount(q, d, m)' => OpensCount(q, d, m)
    PROVE  Tally(d)'
<1>1. /\ dstatus[d] \in InFlight \cup {"NONE"} => rstatus[d] \notin Outcomes
      /\ dstatus[d] = "DELIVERED" => rstatus[d] # "COMPLAINED"
  BY DEF Tally
<1>2. QED
  BY <1>1, TallyMoves

LEMMA PostingKeepsCounts ==
    ASSUME EventInv, CountInv, NEW e \in Events, Record(e) \/ Enqueued(e) \/ EnqueueFails(e)
    PROVE  CountInv'
<1>1. /\ UNCHANGED <<dstatus, rstatus, counted, accepted, kind, raced>>
      /\ UNCHANGED <<pc, cur, seen, rseen, qpc, qcur, qseen, qrseen>>
  BY DEF Record, Enqueued, EnqueueFails, mail, events, sender, worker, tracking
<1>2. NewsOfTheSent'
  BY <1>1 DEF CountInv, NewsOfTheSent, Record, Enqueued, EnqueueFails, events,
              EventInv, EventTypeOK, WorkerTypeOK
<1>3. SentIsCounted'
  BY <1>1 DEF CountInv, SentIsCounted
<1>4. ASSUME NEW d \in Deliveries \ raced' PROVE Tally(d)'
  BY <1>1, TallyStays DEF CountInv, Counts, OpensCount
<1>5. ASSUME NEW w \in Invocations, NEW d \in Deliveries \ raced',
             pc'[w] # "idle", EventOf[cur'[w]] = d
      PROVE  Allowed(w, d)'
  BY <1>1, <1>5 DEF CountInv, Allowed
<1>6. \A q \in Requests : OpenAllowed(q)'
  BY <1>1 DEF CountInv, OpenAllowed
<1>7. QED
  BY <1>2, <1>3, <1>4, <1>5, <1>6 DEF CountInv

(* An invocation that writes no row, and is not about to count.             *)
LEMMA QuietWorkerKeepsCounts ==
    ASSUME EventInv, CountInv, Next, NEW b \in Invocations,
           UNCHANGED <<dstatus, rstatus, counted, accepted, kind, posting, tracking, raced>>,
           \A e \in Events : estatus'[e] # "NONE" => estatus[e] # "NONE",
           \A w \in Invocations \ {b} :
               pc'[w] = pc[w] /\ cur'[w] = cur[w] /\ seen'[w] = seen[w] /\ rseen'[w] = rseen[w],
           pc'[b] # "count",
           \/ pc'[b] = "idle"
           \/ /\ EventOf[cur'[b]] \in accepted
              /\ \A d \in Deliveries \ raced' : EventOf[cur'[b]] = d => Allowed(b, d)'
    PROVE  CountInv'
<1>1. UNCHANGED <<qpc, qcur, qseen, qrseen>>
  BY DEF tracking
<1>2. ASSUME NEW d \in Deliveries \ raced' PROVE Tally(d)'
  <2>1. \A w \in Invocations, m \in Outcomes : Counts(w, d, m)' => Counts(w, d, m)
    BY DEF Counts
  <2>2. \A q \in Requests, m \in Outcomes : OpensCount(q, d, m)' => OpensCount(q, d, m)
    BY <1>1 DEF OpensCount
  <2>3. QED
    BY <2>1, <2>2, TallyStays DEF CountInv
<1>3. QED
  BY <1>1, <1>2, StepKeepsCounts

(* An invocation reads: what it goes on to write, the rows allow.           *)
LEMMA DecideKeepsCounts ==
    ASSUME EventInv, CountInv, Next, NEW b \in Invocations, Decide(b) \/ Recheck(b)
    PROVE  CountInv'
<1> DEFINE k == kind[cur[b]]
           a == EventOf[cur[b]]
<1>1. /\ cur[b] \in Events /\ k \in EventKinds /\ pc[b] # "idle" /\ a \in accepted /\ a \in Deliveries
      /\ pc \in [Invocations -> Phases] /\ seen \in [Invocations -> Statuses]
      /\ rseen \in [Invocations -> RStatuses] /\ dstatus[a] \in Statuses
  BY EventConstantsOK DEF EventInv, EventTypeOK, WorkerTypeOK, MailTypeOK, Decide, Recheck,
     CountInv, NewsOfTheSent
<1>2. /\ UNCHANGED <<dstatus, rstatus, counted, accepted, kind, posting, tracking, raced, estatus, cur>>
      /\ \A w \in Invocations \ {b} : pc'[w] = pc[w] /\ seen'[w] = seen[w] /\ rseen'[w] = rseen[w]
      /\ pc'[b] \in {"apply", "complaint", "complain", "policy"}
  BY <1>1 DEF Decide, Recheck, Goto, mail, events, sender
<1>3. \A d \in Deliveries \ raced : Tally(d)
  BY DEF CountInv
<1>4. ASSUME a \notin raced PROVE Allowed(b, a)'
  <2>1. CASE pc'[b] = "policy"
    BY <2>1 DEF Allowed
  <2>2. CASE Decide(b) /\ pc'[b] = "apply"
    <3>1. CanTransition(dstatus[a], Target(k)) /\ rseen'[b] = rstatus[a] /\ Target(k) # "NONE"
      BY <1>1, <2>2 DEF Decide, Goto
    <3>2. Tally(a)
      BY <1>1, <1>3, <1>4
    <3>3. Target(k) # "COMPLAINED" => rstatus[a] \notin Outcomes
      BY <1>1, <3>1, <3>2 DEF CanTransition, Tally, InFlight
    <3>4. Target(k) = "COMPLAINED" => rstatus[a] # "COMPLAINED"
      BY <1>1, <3>1, <3>2 DEF CanTransition, Tally, InFlight, Outcomes
    <3>5. QED
      BY <1>2, <2>2, <3>1, <3>3, <3>4 DEF Allowed
  <2>3. CASE Decide(b) /\ pc'[b] = "complaint"
    <3>1. ~CanTransition(dstatus[a], Target(k)) /\ k = "COMPLAINT" /\ seen'[b] = dstatus[a]
      BY <1>1, <2>3 DEF Decide, Goto
    <3>2. Target(k) = "COMPLAINED"
      BY <3>1, <1>1, TargetType
    <3>3. dstatus[a] # "NONE"
      BY <1>1 DEF CountInv, NewsOfTheSent
    <3>4. dstatus[a] \in {"BOUNCED", "COMPLAINED", "FAILED"}
      BY <1>1, <3>1, <3>2, <3>3 DEF CanTransition, Statuses, Settled, Outcomes
    <3>5. QED
      BY <2>3, <3>1, <3>4 DEF Allowed
  <2>4. CASE Recheck(b) /\ pc'[b] = "complain"
    <3>1. /\ rseen'[b] = rstatus[a] /\ rstatus[a] # "COMPLAINED" /\ seen'[b] = seen[b] /\ pc[b] = "complaint"
      BY <1>1, <2>4 DEF Recheck, Goto
    <3>2. Allowed(b, a)
      BY <1>1, <1>4 DEF CountInv
    <3>3. QED
      BY <2>4, <3>1, <3>2 DEF Allowed
  <2>5. pc'[b] \in {"apply", "complaint", "policy"} \/ ~Decide(b)
    BY <1>1 DEF Decide, Goto
  <2>6. pc'[b] \in {"complain", "policy"} \/ ~Recheck(b)
    BY <1>1 DEF Recheck, Goto
  <2>7. QED
    BY <2>1, <2>2, <2>3, <2>4, <2>5, <2>6
<1>5. /\ EventOf[cur'[b]] \in accepted
      /\ \A d \in Deliveries \ raced' : EventOf[cur'[b]] = d => Allowed(b, d)'
  BY <1>1, <1>2, <1>4
<1>6. QED
  BY <1>2, <1>5, QuietWorkerKeepsCounts

(* An invocation loads, claims, suppresses, ends or dies.                   *)
LEMMA PassingKeepsCounts ==
    ASSUME EventInv, CountInv, Next, NEW b \in Invocations,
           \/ \E e \in Events : Load(b, e)
           \/ ClaimEvent(b) \/ ClaimRefused(b) \/ Suppress(b) \/ Finish(b) \/ Die(b)
           \/ \E retryable \in BOOLEAN : ProcessingFails(b, retryable)
    PROVE  CountInv'
<1>1. /\ pc \in [Invocations -> Phases] /\ seen \in [Invocations -> Statuses]
      /\ rseen \in [Invocations -> RStatuses] /\ cur \in [Invocations -> Events \cup {Null}]
      /\ cur[b] \in Events <=> pc[b] # "idle"
      /\ estatus \in [Events -> EventStates]
  BY DEF EventInv, EventTypeOK, WorkerTypeOK
<1>2. pc[b] # "idle" => EventOf[cur[b]] \in accepted
  BY DEF CountInv, NewsOfTheSent
<1>3. ASSUME UNCHANGED <<dstatus, rstatus, counted, accepted, kind, posting, tracking, raced>>,
             \A e \in Events : estatus'[e] # "NONE" => estatus[e] # "NONE",
             \A w \in Invocations \ {b} :
                 pc'[w] = pc[w] /\ cur'[w] = cur[w] /\ seen'[w] = seen[w] /\ rseen'[w] = rseen[w],
             pc'[b] = "idle" \/ (pc'[b] \in {"loaded", "claimed", "finish"} /\ EventOf[cur'[b]] \in accepted)
      PROVE  CountInv'
  <2>1. pc'[b] # "idle" => \A d \in Deliveries : Allowed(b, d)'
    BY <1>3 DEF Allowed
  <2>2. QED
    BY <1>3, <2>1, QuietWorkerKeepsCounts
<1>4. ASSUME Leave(b)
       PROVE  /\ pc'[b] = "idle" /\ cur' = [cur EXCEPT ![b] = Null]
              /\ \A w \in Invocations \ {b} :
                    pc'[w] = pc[w] /\ cur'[w] = cur[w] /\ seen'[w] = seen[w] /\ rseen'[w] = rseen[w]
  BY <1>1, <1>4 DEF Leave, Goto
<1>5. ASSUME Leave(b), UNCHANGED <<dstatus, rstatus, counted, accepted, kind, posting, tracking, raced>>,
              \A e \in Events : estatus'[e] # "NONE" => estatus[e] # "NONE"
       PROVE  CountInv'
  <2>1. \A w \in Invocations \ {b} :
           pc'[w] = pc[w] /\ cur'[w] = cur[w] /\ seen'[w] = seen[w] /\ rseen'[w] = rseen[w]
    BY <1>4, <1>5
  <2>2. pc'[b] = "idle"
    BY <1>4, <1>5
  <2>3. QED
    BY <1>5, <2>1, <2>2, QuietWorkerKeepsCounts
<1>6. ASSUME NEW e \in Events, Load(b, e) PROVE CountInv'
  <2>1. EventOf[e] \in accepted
    BY <1>6 DEF Load, CountInv, NewsOfTheSent
  <2>2. QED
    BY <1>1, <1>3, <1>6, <2>1 DEF Load, Goto, mail, events, sender
<1>7. CASE ClaimEvent(b)
  BY <1>1, <1>2, <1>3, <1>7 DEF ClaimEvent, EventClaimable, Abandoned, Goto, mail, sender
<1>8. CASE ClaimRefused(b)
  BY <1>8, <1>5 DEF ClaimRefused, mail, events, sender
<1>9. CASE Suppress(b)
  BY <1>1, <1>2, <1>3, <1>9 DEF Suppress, Goto, events, sender
<1>10. ASSUME NEW status, status # "NONE", pc[b] # "idle", CloseEvent(b, status) PROVE CountInv'
  <2>1. Leave(b) /\ UNCHANGED <<dstatus, rstatus, counted, accepted, kind, posting, tracking, raced>>
    BY <1>10 DEF CloseEvent, mail, sender
  <2>2. \A e \in Events : estatus'[e] # "NONE" => estatus[e] # "NONE"
    BY <1>1, <1>10 DEF CloseEvent
  <2>3. QED
    BY <1>5, <2>1, <2>2
<1>11. CASE Finish(b)
  BY <1>10, <1>11 DEF Finish
<1>12. CASE \E retryable \in BOOLEAN : ProcessingFails(b, retryable)
  <2>1. PICK retryable \in BOOLEAN : ProcessingFails(b, retryable)
    BY <1>12
  <2>2. PICK status \in {"RECEIVED", "FAILED"} : CloseEvent(b, status)
    BY <2>1 DEF ProcessingFails
  <2>3. QED
    BY <1>10, <2>1, <2>2 DEF ProcessingFails
<1>13. CASE Die(b)
  BY <1>13, <1>5 DEF Die, mail, events, sender
<1>14. QED
  BY <1>6, <1>7, <1>8, <1>9, <1>11, <1>12, <1>13

(* An invocation writes the delivery.                                       *)
LEMMA ApplyKeepsCounts ==
    ASSUME EventInv, CountInv, Next, NEW b \in Invocations, Apply(b)
    PROVE  CountInv'
<1> DEFINE t == Target(kind[cur[b]])
           a == EventOf[cur[b]]
<1>1. /\ cur[b] \in Events /\ kind[cur[b]] \in EventKinds /\ a \in accepted /\ a \in Deliveries
      /\ t \in Outcomes \cup {"SENT", "FAILED", "NONE"} /\ t # "NONE" /\ CanTransition(seen[b], t)
  BY EventConstantsOK, TargetType DEF EventInv, EventTypeOK, WorkerTypeOK, Apply, CountInv, NewsOfTheSent,
     StatusesMeant, ReadsAllow
<1>2. /\ UNCHANGED <<rstatus, counted, accepted, kind, posting, tracking, estatus, cur, rseen>>
      /\ \A w \in Invocations \ {b} : pc'[w] = pc[w] /\ seen'[w] = seen[w]
      /\ pc[b] = "apply" /\ pc'[b] = "recipient" /\ dstatus'[a] = t
      /\ \A d \in Deliveries \ {a} : dstatus'[d] = dstatus[d]
      /\ raced \subseteq raced' /\ (a \notin raced' => dstatus[a] = seen[b])
  BY <1>1 DEF Apply, Goto, events, sender, Overtakes, EventInv, EventTypeOK, WorkerTypeOK, MailTypeOK
<1>3. UNCHANGED <<qpc, qcur, qseen, qrseen>>
  BY <1>2 DEF tracking
<1>4. ASSUME NEW d \in Deliveries \ raced' PROVE Tally(d)'
  <2>1. Tally(d)
    BY <1>2 DEF CountInv
  <2>2. /\ \A w \in Invocations, m \in Outcomes : Counts(w, d, m)' => Counts(w, d, m)
        /\ \A q \in Requests, m \in Outcomes : OpensCount(q, d, m)' => OpensCount(q, d, m)
    BY <1>2, <1>3 DEF Counts, OpensCount
  <2>3. CASE d # a
    BY <1>2, <2>1, <2>2, <2>3, TallyStays
  <2>4. CASE d = a
    <3>1. CanTransition(dstatus[d], t) /\ dstatus'[d] = t
      BY <1>1, <1>2, <2>4
    <3>2. dstatus'[d] \in InFlight \cup {"NONE"} => rstatus'[d] \notin Outcomes
      BY <1>1, <1>2, <2>1, <3>1 DEF Tally, CanTransition, InFlight, Settled, Outcomes
    <3>3. dstatus'[d] = "DELIVERED" => rstatus'[d] # "COMPLAINED"
      BY <1>1, <1>2, <2>1, <3>1 DEF Tally, CanTransition, InFlight, Settled, Outcomes
    <3>4. QED
      BY <1>2, <2>1, <2>2, <3>2, <3>3, TallyMoves
  <2>5. QED
    BY <2>3, <2>4
<1>5. a \notin raced' => Allowed(b, a)'
  <2>1. a \notin raced' => Allowed(b, a)
    BY <1>1, <1>2 DEF CountInv
  <2>2. QED
    BY <1>2, <2>1 DEF Allowed
<1>6. /\ EventOf[cur'[b]] \in accepted
      /\ \A d \in Deliveries \ raced' : EventOf[cur'[b]] = d => Allowed(b, d)'
  BY <1>1, <1>2, <1>5
<1>7. \A d \in Deliveries : dstatus[d] # "NONE" => dstatus'[d] # "NONE"
  BY <1>1, <1>2
<1>8. QED
  BY <1>2, <1>3, <1>4, <1>6, <1>7, StepKeepsCounts

(* An invocation writes the recipient, and is about to count an outcome.    *)
LEMMA RecipientKeepsCounts ==
    ASSUME EventInv, CountInv, Next, NEW b \in Invocations, ApplyToRecipient(b) \/ Complain(b)
    PROVE  CountInv'
<1> DEFINE t == Target(kind[cur[b]])
           a == EventOf[cur[b]]
<1>1. /\ cur[b] \in Events /\ kind[cur[b]] \in EventKinds /\ a \in accepted /\ a \in Deliveries
      /\ t \in Outcomes \cup {"SENT", "FAILED"} /\ (pc[b] = "complain" => t = "COMPLAINED")
      /\ pc[b] \in {"recipient", "complain"}
  BY EventConstantsOK, TargetType DEF EventInv, EventTypeOK, WorkerTypeOK, ApplyToRecipient, Complain,
     CountInv, NewsOfTheSent, StatusesMeant, Outcomes
<1>2. /\ UNCHANGED <<dstatus, counted, accepted, kind, posting, tracking, estatus, cur>>
      /\ \A w \in Invocations \ {b} : pc'[w] = pc[w] /\ seen'[w] = seen[w] /\ rseen'[w] = rseen[w]
      /\ pc'[b] = (IF t \in {"SENT", "FAILED"} THEN "policy" ELSE "count") /\ rstatus'[a] = t
      /\ \A d \in Deliveries \ {a} : rstatus'[d] = rstatus[d]
      /\ raced \subseteq raced' /\ (a \notin raced' => rstatus[a] = rseen[b])
      /\ a \notin raced' /\ pc[b] = "complain" => dstatus[a] = seen[b]
  <2> USE DEF Goto, events, sender, Overtakes, EventInv, EventTypeOK, WorkerTypeOK, MailTypeOK
  <2>1. CASE ApplyToRecipient(b)
    BY <1>1, <2>1 DEF ApplyToRecipient
  <2>2. CASE Complain(b)
    BY <1>1, <2>2 DEF Complain
  <2>3. QED
    BY <2>1, <2>2
<1>3. UNCHANGED <<qpc, qcur, qseen, qrseen>>
  BY <1>2 DEF tracking
<1>4. ASSUME NEW d \in Deliveries \ raced' PROVE Tally(d)'
  <2>1. Tally(d)
    BY <1>2 DEF CountInv
  <2>2. /\ \A w \in Invocations, m \in Outcomes :
              Counts(w, d, m)' => Counts(w, d, m) \/ (w = b /\ d = a /\ m = t /\ m \in Outcomes)
        /\ \A q \in Requests, m \in Outcomes : OpensCount(q, d, m)' => OpensCount(q, d, m)
    BY <1>2, <1>3 DEF Counts, OpensCount
  <2>3. CASE d # a
    BY <1>2, <2>1, <2>2, <2>3, TallyStays
  <2>4. CASE d = a
    <3>1. Allowed(b, d) /\ rstatus[d] = rseen[b]
      BY <1>1, <1>2, <2>4 DEF CountInv
    <3>2. /\ t # "COMPLAINED" => rstatus[d] \notin Outcomes
          /\ t = "COMPLAINED" => rstatus[d] # "COMPLAINED"
      BY <1>1, <3>1 DEF Allowed
    <3>3. CASE t \in Outcomes
      <4>1. NoneCounted(d, t)
        BY <2>1, <3>2, <3>3 DEF Tally
      <4>2. /\ dstatus'[d] \notin InFlight \cup {"NONE"}
            /\ dstatus'[d] = "DELIVERED" => t # "COMPLAINED"
        BY <1>1, <1>2, <2>4, <3>1, <3>3 DEF Allowed, InFlight, Outcomes
      <4>3. rstatus'[d] = t /\ \A m \in Outcomes : counted'[d][m] = counted[d][m]
        BY <1>2, <2>4
      <4>4. QED
        BY <2>1, <2>2, <3>2, <3>3, <4>1, <4>2, <4>3, TallyBegins
    <3>4. CASE t \notin Outcomes
      <4>1. t \in {"SENT", "FAILED"}
        BY <1>1, <3>4
      <4>2. rstatus[d] \notin Outcomes /\ rstatus'[d] \notin Outcomes /\ rstatus[d] # "COMPLAINED"
        BY <1>1, <1>2, <2>4, <3>2, <4>1 DEF Outcomes
      <4>3. rstatus'[d] # "COMPLAINED"
        BY <4>2 DEF Outcomes
      <4>4. \A w \in Invocations, m \in Outcomes : Counts(w, d, m)' => Counts(w, d, m)
        BY <2>2, <3>4
      <4>5. QED
        BY <1>2, <2>1, <2>2, <4>2, <4>3, <4>4, TallyMoves
    <3>5. QED
      BY <3>3, <3>4
  <2>5. QED
    BY <2>3, <2>4
<1>5. Allowed(b, a)'
  BY <1>2 DEF Allowed
<1>6. /\ EventOf[cur'[b]] \in accepted
      /\ \A d \in Deliveries \ raced' : EventOf[cur'[b]] = d => Allowed(b, d)'
  BY <1>1, <1>2, <1>5
<1>7. \A d \in Deliveries : rstatus[d] \notin {"PENDING", "PROCESSING"} => rstatus'[d] \notin {"PENDING", "PROCESSING"}
  BY <1>1, <1>2 DEF Outcomes
<1>8. QED
  BY <1>2, <1>3, <1>4, <1>6, <1>7, StepKeepsCounts

(* An invocation counts.                                                    *)
LEMMA CountKeepsCounts ==
    ASSUME EventInv, CountInv, Next, NEW b \in Invocations, Count(b)
    PROVE  CountInv'
<1> DEFINE t == Target(kind[cur[b]])
           a == EventOf[cur[b]]
<1>1. /\ a \in accepted /\ a \in Deliveries /\ t \in Outcomes /\ t \in Metrics /\ "SENT" \notin Outcomes
      /\ counted \in [Deliveries -> [Metrics -> Nat]] /\ Outcomes \subseteq Metrics /\ "SENT" \in Metrics
  BY EventConstantsOK, OutcomeTargets DEF EventInv, EventTypeOK, WorkerTypeOK, MailTypeOK, Count,
     CountInv, NewsOfTheSent, StatusesMeant, Outcomes, Metrics
<1>2. /\ UNCHANGED <<dstatus, rstatus, accepted, kind, posting, tracking, estatus, cur, seen, rseen, raced>>
      /\ \A w \in Invocations \ {b} : pc'[w] = pc[w]
      /\ pc[b] = "count" /\ pc'[b] = "policy"
      /\ counted' = [counted EXCEPT ![a][t] = @ + 1]
  BY DEF Count, Goto, Increment, events, sender, EventInv, EventTypeOK, WorkerTypeOK
<1>3. /\ \A d \in Deliveries \ {a} : counted'[d] = counted[d]
      /\ counted'[a][t] = counted[a][t] + 1 /\ counted[a][t] \in Nat
      /\ \A m \in Metrics \ {t} : counted'[a][m] = counted[a][m]
  BY <1>1, <1>2
<1>4. UNCHANGED <<qpc, qcur, qseen, qrseen>>
  BY <1>2 DEF tracking
<1>5. ASSUME NEW d \in Deliveries \ raced' PROVE Tally(d)'
  <2>1. Tally(d)
    BY <1>2 DEF CountInv
  <2>2. /\ \A w \in Invocations, m \in Outcomes : Counts(w, d, m)' => Counts(w, d, m)
        /\ \A q \in Requests, m \in Outcomes : OpensCount(q, d, m)' => OpensCount(q, d, m)
    BY <1>2, <1>4 DEF Counts, OpensCount
  <2>3. CASE d # a
    BY <1>2, <1>3, <2>1, <2>2, <2>3, TallyStays
  <2>4. CASE d = a
    <3>1. Counts(b, d, t) /\ ~Counts(b, d, t)'
      BY <1>2, <2>4 DEF Counts
    <3>2. /\ counted'[d][t] = counted[d][t] + 1 /\ counted[d][t] \in Nat
          /\ \A m \in Outcomes \ {t} : counted'[d][m] = counted[d][m]
      BY <1>1, <1>3, <2>4
    <3>3. QED
      BY <1>1, <1>2, <2>1, <2>2, <3>1, <3>2, TallyCounts
  <2>5. QED
    BY <2>3, <2>4
<1>6. \A d \in Deliveries : counted'[d]["SENT"] = counted[d]["SENT"]
  BY <1>1, <1>3
<1>7. Allowed(b, a)'
  BY <1>2 DEF Allowed
<1>8. /\ EventOf[cur'[b]] \in accepted
      /\ \A d \in Deliveries \ raced' : EventOf[cur'[b]] = d => Allowed(b, d)'
  BY <1>1, <1>2, <1>7
<1>9. QED
  BY <1>2, <1>4, <1>5, <1>6, <1>8, StepKeepsCounts

(* A tracked request reads, writes the two rows, and counts.                *)
LEMMA TrackingKeepsCounts ==
    ASSUME EventInv, CountInv, Next, NEW b \in Requests,
           \/ \E d \in Deliveries : Open(b, d)
           \/ OpenDelivers(b) \/ OpenPromotes(b) \/ OpenCounts(b) \/ OpenDies(b)
    PROVE  CountInv'
<1> DEFINE a == qcur[b]
           Others == \A q \in Requests \ {b} : /\ qpc'[q] = qpc[q] /\ qcur'[q] = qcur[q]
                                               /\ qseen'[q] = qseen[q] /\ qrseen'[q] = qrseen[q]
           Workers == UNCHANGED <<accepted, kind, posting, estatus, pc, cur, seen, rseen>>
<1>1. /\ qpc \in [Requests -> QPhases] /\ qcur \in [Requests -> Deliveries \cup {Null}]
      /\ (a \in Deliveries <=> qpc[b] # "idle")
      /\ qseen \in [Requests -> Statuses] /\ qrseen \in [Requests -> RStatuses]
      /\ dstatus \in [Deliveries -> Statuses] /\ rstatus \in [Deliveries -> RStatuses]
      /\ counted \in [Deliveries -> [Metrics -> Nat]] /\ raced \in SUBSET Deliveries
      /\ Outcomes \subseteq Metrics /\ "SENT" \in Metrics /\ "SENT" \notin Outcomes /\ "DELIVERED" \in Outcomes
  BY DEF EventInv, EventTypeOK, MailTypeOK, TrackingTypeOK, Outcomes, Metrics
<1>2. \A d \in Deliveries \ raced : Tally(d)
  BY DEF CountInv
<1>3. ASSUME Workers, raced \subseteq raced', NEW d \in Deliveries \ raced', NEW m \in Outcomes,
             NEW w \in Invocations, Counts(w, d, m)'
      PROVE  Counts(w, d, m)
  BY <1>3 DEF Counts
<1>4. ASSUME QLeave(b) PROVE Others /\ qpc'[b] = "idle" /\ OpenAllowed(b)'
  BY <1>1, <1>4 DEF QLeave, QGoto, OpenAllowed
<1>5. ASSUME Workers, Others, OpenAllowed(b)', qpc'[b] # "count", UNCHANGED <<dstatus, rstatus, counted, raced>>
      PROVE  CountInv'
  <2>1. ASSUME NEW d \in Deliveries, NEW m \in Outcomes, NEW q \in Requests, OpensCount(q, d, m)'
        PROVE  OpensCount(q, d, m)
    BY <1>5, <2>1 DEF OpensCount
  <2>2. ASSUME NEW d \in Deliveries \ raced' PROVE Tally(d)'
    BY <1>2, <1>3, <1>5, <2>1, TallyStays
  <2>3. QED
    BY <1>5, <2>2, StepKeepsCounts
<1>6. CASE \E d \in Deliveries : Open(b, d)
  <2>1. PICK d \in Deliveries : Open(b, d)
    BY <1>6
  <2>2. dstatus[d] # "NONE"
    BY <2>1 DEF Open, CountInv, NewsOfTheSent
  <2>3. OpenAllowed(b)'
    BY <1>1, <2>1, <2>2 DEF Open, QGoto, OpenAllowed, InFlight
  <2>4. Others /\ Workers /\ qpc'[b] # "count" /\ UNCHANGED <<dstatus, rstatus, counted, raced>>
    BY <1>1, <2>1 DEF Open, QGoto, mail, events, sender, worker
  <2>5. QED
    BY <1>5, <2>3, <2>4
<1>7. CASE OpenDies(b)
  <2>1. Workers /\ QLeave(b) /\ UNCHANGED <<dstatus, rstatus, counted, raced>>
    BY <1>7 DEF OpenDies, mail, events, sender, worker
  <2>2. QED
    BY <1>4, <1>5, <2>1
<1>8. CASE OpenDelivers(b)
  <2>1. /\ Workers /\ UNCHANGED <<rstatus, counted>> /\ raced \subseteq raced' /\ a \in Deliveries
        /\ dstatus'[a] = "DELIVERED" /\ \A d \in Deliveries \ {a} : dstatus'[d] = dstatus[d]
        /\ a \notin raced' => dstatus[a] \in InFlight
    BY <1>1, <1>8 DEF OpenDelivers, events, sender, worker, Overtakes, EventInv, ReadsAllow, InFlight
  <2>2. Others /\ OpenAllowed(b)' /\ qpc'[b] # "count"
    <3>1. CASE qrseen[b] \in {"PENDING", "SENT"}
      BY <1>1, <1>8, <3>1 DEF OpenDelivers, QGoto, OpenAllowed, InFlight
    <3>2. CASE qrseen[b] \notin {"PENDING", "SENT"}
      BY <1>4, <1>8, <3>2 DEF OpenDelivers
    <3>3. QED
      BY <3>1, <3>2
  <2>3. ASSUME NEW d \in Deliveries, NEW m \in Outcomes, NEW q \in Requests, OpensCount(q, d, m)'
        PROVE  OpensCount(q, d, m)
    BY <2>2, <2>3 DEF OpensCount
  <2>4. ASSUME NEW d \in Deliveries \ raced' PROVE Tally(d)'
    <3>1. Tally(d)
      BY <1>2, <2>1
    <3>2. CASE d # a
      BY <1>3, <2>1, <2>3, <3>1, <3>2, TallyStays
    <3>3. CASE d = a
      <4>1. rstatus[d] \notin Outcomes /\ rstatus'[d] \notin Outcomes /\ rstatus'[d] # "COMPLAINED"
        BY <2>1, <3>1, <3>3 DEF Tally, Outcomes
      <4>2. QED
        BY <1>3, <2>1, <2>3, <3>1, <3>3, <4>1, TallyMoves
    <3>4. QED
      BY <3>2, <3>3
  <2>5. QED
    BY <2>1, <2>2, <2>4, StepKeepsCounts
<1>9. CASE OpenPromotes(b)
  <2>1. /\ Workers /\ UNCHANGED <<dstatus, counted>> /\ raced \subseteq raced' /\ a \in Deliveries
        /\ rstatus'[a] = "DELIVERED" /\ \A d \in Deliveries \ {a} : rstatus'[d] = rstatus[d]
        /\ a \notin raced' => rstatus[a] \in {"PENDING", "SENT"} /\ dstatus[a] \notin InFlight \cup {"NONE"}
    BY <1>1, <1>9 DEF OpenPromotes, events, sender, worker, Overtakes, CountInv, OpenAllowed
  <2>2. Others /\ OpenAllowed(b)' /\ qpc'[b] = "count" /\ qcur' = qcur
    BY <1>1, <1>9 DEF OpenPromotes, QGoto, OpenAllowed
  <2>3. ASSUME NEW d \in Deliveries, NEW m \in Outcomes, NEW q \in Requests, OpensCount(q, d, m)'
        PROVE  OpensCount(q, d, m) \/ (q = b /\ m = "DELIVERED" /\ d = a)
    BY <2>2, <2>3 DEF OpensCount
  <2>4. ASSUME NEW d \in Deliveries \ raced' PROVE Tally(d)'
    <3>1. Tally(d)
      BY <1>2, <2>1
    <3>2. CASE d # a
      BY <1>3, <2>1, <2>3, <3>1, <3>2, TallyStays
    <3>3. CASE d = a
      <4>1. rstatus[d] \notin Outcomes /\ dstatus'[d] \notin InFlight \cup {"NONE"} /\ rstatus'[d] = "DELIVERED"
        BY <2>1, <3>3 DEF Outcomes
      <4>2. NoneCounted(d, "DELIVERED")
        BY <1>1, <3>1, <4>1 DEF Tally
      <4>3. QED
        BY <1>3, <2>1, <2>3, <3>1, <4>1, <4>2, TallyOpens
    <3>4. QED
      BY <3>2, <3>3
  <2>5. QED
    BY <2>1, <2>2, <2>4, StepKeepsCounts
<1>10. CASE OpenCounts(b)
  <2>1. /\ Workers /\ UNCHANGED <<dstatus, rstatus, raced>> /\ a \in Deliveries /\ qpc[b] = "count"
        /\ counted' = [counted EXCEPT ![a]["DELIVERED"] = @ + 1]
    BY <1>1, <1>10 DEF OpenCounts, events, sender, worker, Increment
  <2>2. Others /\ OpenAllowed(b)' /\ qpc'[b] = "idle"
    BY <1>4, <1>10 DEF OpenCounts
  <2>3. ASSUME NEW d \in Deliveries, NEW m \in Outcomes, NEW q \in Requests, OpensCount(q, d, m)'
        PROVE  OpensCount(q, d, m)
    BY <2>2, <2>3 DEF OpensCount
  <2>4. /\ \A d \in Deliveries \ {a} : counted'[d] = counted[d]
        /\ counted'[a]["DELIVERED"] = counted[a]["DELIVERED"] + 1 /\ counted[a]["DELIVERED"] \in Nat
        /\ \A m \in Metrics \ {"DELIVERED"} : counted'[a][m] = counted[a][m]
    BY <1>1, <2>1
  <2>5. ASSUME NEW d \in Deliveries \ raced' PROVE Tally(d)'
    <3>1. Tally(d)
      BY <1>2, <2>1
    <3>2. CASE d # a
      BY <1>3, <2>1, <2>3, <2>4, <3>1, <3>2, TallyStays
    <3>3. CASE d = a
      <4>1. OpensCount(b, d, "DELIVERED") /\ ~OpensCount(b, d, "DELIVERED")'
        BY <2>1, <2>2, <3>3 DEF OpensCount
      <4>2. /\ counted'[d]["DELIVERED"] = counted[d]["DELIVERED"] + 1 /\ counted[d]["DELIVERED"] \in Nat
            /\ \A m \in Outcomes \ {"DELIVERED"} : counted'[d][m] = counted[d][m]
        BY <1>1, <2>4, <3>3
      <4>3. QED
        BY <1>1, <1>3, <2>1, <2>3, <3>1, <4>1, <4>2, TallyCounts
    <3>4. QED
      BY <3>2, <3>3
  <2>6. \A d \in Deliveries : counted'[d]["SENT"] = counted[d]["SENT"]
    BY <1>1, <2>4
  <2>7. QED
    BY <2>1, <2>2, <2>5, <2>6, StepKeepsCounts
<1>11. QED
  BY <1>6, <1>7, <1>8, <1>9, <1>10

LEMMA CountsBegin == Init => CountInv
<1> SUFFICES ASSUME Init PROVE CountInv
  OBVIOUS
<1>1. NewsOfTheSent /\ SentIsCounted
  BY DEF Init, NewsOfTheSent, SentIsCounted, Metrics
<1>2. ASSUME NEW d \in Deliveries PROVE Tally(d)
  <2>1. \A m \in Outcomes : NoneCounted(d, m) /\ OneCounted(d, m)
    BY DEF Init, NoneCounted, OneCounted, Counts, OpensCount, Outcomes, Metrics
  <2>2. rstatus[d] = "PENDING"
    BY DEF Init
  <2>3. QED
    BY <2>1, <2>2 DEF Tally, Outcomes
<1>3. \A q \in Requests : OpenAllowed(q)
  BY DEF Init, OpenAllowed
<1>4. \A w \in Invocations : pc[w] = "idle"
  BY DEF Init
<1>5. QED
  BY <1>1, <1>2, <1>3, <1>4 DEF CountInv

LEMMA CountsStep == EventInv /\ CountInv /\ [Next]_vars => CountInv'
<1> SUFFICES ASSUME EventInv, CountInv, [Next]_vars PROVE CountInv'
  OBVIOUS
<1>1. CASE UNCHANGED vars
  <2>1. /\ UNCHANGED <<dstatus, rstatus, counted, accepted, kind, raced, posting, estatus>>
        /\ UNCHANGED <<pc, cur, seen, rseen, qpc, qcur, qseen, qrseen>>
    BY <1>1 DEF vars, mail, events, sender, worker, tracking
  <2>2. NewsOfTheSent' /\ SentIsCounted' /\ \A q \in Requests : OpenAllowed(q)'
    BY <2>1 DEF CountInv, NewsOfTheSent, SentIsCounted, OpenAllowed
  <2>3. ASSUME NEW d \in Deliveries \ raced' PROVE Tally(d)'
    BY <2>1, TallyStays DEF CountInv, Counts, OpensCount
  <2>4. ASSUME NEW w \in Invocations, NEW d \in Deliveries \ raced',
               pc'[w] # "idle", EventOf[cur'[w]] = d
        PROVE  Allowed(w, d)'
    BY <2>1, <2>4 DEF CountInv, Allowed
  <2>5. QED
    BY <2>2, <2>3, <2>4 DEF CountInv
<1>2. CASE Next
  <2>1. ASSUME NEW d \in Deliveries,
               \/ Look(d) \/ RefuseSuppressed(d) \/ Dispatch(d) \/ ClaimLost(d)
               \/ \E retryable \in BOOLEAN : SendFails(d, retryable)
               \/ RecordDelivery(d) \/ RecordRecipient(d) \/ BookkeepingFails(d)
               \/ SenderDies(d) \/ ReconcileRecipient(d) \/ ReconcileDelivery(d)
        PROVE  CountInv'
    BY <1>2, <2>1, SenderKeepsCounts
  <2>2. ASSUME NEW e \in Events, Record(e) \/ Enqueued(e) \/ EnqueueFails(e)
        PROVE  CountInv'
    BY <2>2, PostingKeepsCounts
  <2>3. ASSUME NEW w \in Invocations,
               \/ \E e \in Events : Load(w, e)
               \/ Process(w) \/ Die(w)
               \/ \E retryable \in BOOLEAN : ProcessingFails(w, retryable)
        PROVE  CountInv'
    <3>1. CASE Process(w)
      BY <1>2, <3>1, PassingKeepsCounts, DecideKeepsCounts, ApplyKeepsCounts, RecipientKeepsCounts,
         CountKeepsCounts DEF Process
    <3>2. QED
      BY <1>2, <2>3, <3>1, PassingKeepsCounts
  <2>4. ASSUME NEW q \in Requests,
               \/ \E d \in Deliveries : Open(q, d) \/ Click(q, d)
               \/ OpenDelivers(q) \/ OpenPromotes(q) \/ OpenCounts(q) \/ OpenDies(q)
        PROVE  CountInv'
    BY <1>2, <2>4, TrackingKeepsCounts DEF Click
  <2>5. QED
    BY <1>2, <2>1, <2>2, <2>3, <2>4 DEF Next
<1>3. QED
  BY <1>1, <1>2

LEMMA CountsFollow == EventInv /\ CountInv => CountedOnce
<1> SUFFICES ASSUME EventInv, CountInv, NEW d \in Deliveries \ raced, NEW m \in Metrics
             PROVE  counted[d][m] <= 1
  BY DEF CountedOnce
<1>1. CASE m = "SENT"
  BY <1>1 DEF CountInv, SentIsCounted
<1>2. CASE m \in Outcomes
  BY <1>2 DEF CountInv, Tally, OneCounted
<1>3. QED
  BY <1>1, <1>2 DEF Metrics, Outcomes

(* However often an event is processed again, and however many events and   *)
(* opens say the same, a recipient is counted at most once under a metric.  *)
THEOREM RecipientsAreCountedOnce == EventSpec => []CountedOnce
<1>1. EventInv /\ CountInv /\ [Next]_vars => EventInv' /\ CountInv'
  BY StepHolds, CountsStep
<1>2. Init => EventInv /\ CountInv
  BY InitHolds, CountsBegin
<1>3. QED
  BY <1>1, <1>2, CountsFollow, PTL DEF EventSpec
=============================================================================
