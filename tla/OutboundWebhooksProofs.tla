------------------------ MODULE OutboundWebhooksProofs ------------------------
(***************************************************************************)
(* Proofs about OutboundWebhooks: types, TakenAsRecorded, WaitingIsDue,   *)
(* for any number of rows, runs and retries.                               *)
(***************************************************************************)
EXTENDS OutboundWebhooks, TLAPS

(* Only what is being attempted can grow stale, and nothing is attempted    *)
(* before it exists.                                                        *)
RowsInOrder ==
    /\ \A d \in wstale : wstatus[d] = "PROCESSING"
    /\ \A d \in Hooks : wstatus[d] = "NONE" =>
          wcount[d] = 0 /\ \A a \in Attempters : batch[a][d] = None

(* A row that no second run took on has one run at most, and while it has   *)
(* one it is open.                                                          *)
OneRunEach ==
    \A d \in Hooks \ overlapped : \A a, b \in Attempters :
        /\ Has(a, d) /\ Has(b, d) => a = b
        /\ Has(a, d) => wstatus[d] \in {"PENDING", "PROCESSING"}

(* Where nothing was lost, an event that was taken is on its way to be      *)
(* recorded, or recorded, and then nobody has its row; one that was not is  *)
(* neither.                                                                 *)
TakenIsKnown ==
    \A d \in Hooks \ (lost \cup overlapped) :
        \/ /\ taken[d] = 0 /\ wstatus[d] # "SUCCESS"
           /\ \A a \in Attempters : d \in sent[a] => answer[a] # "ok"
        \/ /\ taken[d] = 1
           /\ \/ \E a \in Attempters : d \in sent[a] /\ answer[a] = "ok"
              \/ wstatus[d] = "SUCCESS" /\ \A a \in Attempters : ~Has(a, d)

WebhookInv == WebhookTypeOK /\ RowsInOrder /\ OneRunEach /\ TakenIsKnown /\ WaitingIsDue

LEMMA InitHolds == WebhookInit => WebhookInv
BY WebhookConstantsOK
   DEF WebhookInit, WebhookInv, WebhookTypeOK, RowsInOrder, OneRunEach, TakenIsKnown,
       WaitingIsDue, DeliveryStatuses, Answers, Nothing, None, Has

-----------------------------------------------------------------------------
(* One lemma for the steps that give rows to a run, one for those that take *)
(* rows from it, one for the clock and the queue's recovery.                *)

LEMMA TakingOn ==
    ASSUME WebhookInv, NEW a \in Attempters, NEW d \in Hooks, NEW D \in SUBSET Hooks,
           Dispatch(a, d) \/ Retry(a, d) \/ Claim(a, D)
    PROVE  WebhookInv'
<1> USE WebhookConstantsOK DEF WebhookInv, None
<1>1. CASE Dispatch(a, d)
  <2> USE <1>1 DEF Dispatch, TakeOn, runs
  <2>1. WebhookTypeOK'
    BY DEF WebhookTypeOK, DeliveryStatuses, Nothing, Answers
  <2>2. RowsInOrder'
    BY DEF WebhookTypeOK, RowsInOrder, Nothing
  <2>3. OneRunEach'
    BY DEF WebhookTypeOK, RowsInOrder, OneRunEach, Has, Nothing
  <2>4. TakenIsKnown'
    BY DEF WebhookTypeOK, RowsInOrder, TakenIsKnown, Has, Nothing
  <2>5. WaitingIsDue'
    BY DEF WebhookTypeOK, WaitingIsDue, RowsInOrder
  <2>6. QED
    BY <2>1, <2>2, <2>3, <2>4, <2>5
<1>2. CASE Retry(a, d)
  <2> USE <1>2 DEF Retry, TakeOn, rows
  <2>1. WebhookTypeOK'
    BY DEF WebhookTypeOK, DeliveryStatuses, Nothing, Answers
  <2>2. RowsInOrder'
    BY DEF WebhookTypeOK, RowsInOrder, Nothing
  <2>3. OneRunEach'
    BY DEF WebhookTypeOK, OneRunEach, Has, Nothing
  <2>4. TakenIsKnown'
    BY DEF WebhookTypeOK, TakenIsKnown, Has, Nothing
  <2>5. WaitingIsDue'
    BY DEF WebhookTypeOK, WaitingIsDue
  <2>6. QED
    BY <2>1, <2>2, <2>3, <2>4, <2>5
<1>3. CASE Claim(a, D)
  <2> USE <1>3 DEF Claim, TakeOn, Due
  <2>1. WebhookTypeOK'
    BY DEF WebhookTypeOK, DeliveryStatuses, Nothing, Answers, Shared
  <2>2. RowsInOrder'
    BY DEF WebhookTypeOK, RowsInOrder, Nothing
  <2>3. OneRunEach'
    BY DEF WebhookTypeOK, OneRunEach, Has, Nothing, Shared
  <2>4. TakenIsKnown'
    BY DEF WebhookTypeOK, TakenIsKnown, Has, Nothing, Shared
  <2>5. WaitingIsDue'
    BY DEF WebhookTypeOK, WaitingIsDue
  <2>6. QED
    BY <2>1, <2>2, <2>3, <2>4, <2>5
<1>4. QED
  BY <1>1, <1>2, <1>3

LEMMA Letting ==
    ASSUME WebhookInv, NEW a \in Attempters, NEW d \in Hooks,
           \/ Attempt(a, d) \/ RecordFails(a, d)
           \/ Release(a) \/ RunDies(a)
    PROVE  WebhookInv'
<1> USE WebhookConstantsOK DEF WebhookInv, None
<1>1. CASE Release(a)
  <2> USE <1>1 DEF Release, history
  <2>1. WebhookTypeOK'
    BY DEF WebhookTypeOK, DeliveryStatuses, Nothing, Answers, Has
  <2>2. RowsInOrder'
    BY DEF WebhookTypeOK, RowsInOrder, Nothing, Has
  <2>3. OneRunEach'
    BY DEF WebhookTypeOK, OneRunEach, Has, Nothing
  <2>4. TakenIsKnown'
    BY DEF WebhookTypeOK, TakenIsKnown, Has, Nothing
  <2>5. WaitingIsDue'
    BY DEF WebhookTypeOK, WaitingIsDue, Has
  <2>6. QED
    BY <2>1, <2>2, <2>3, <2>4, <2>5
<1>2. CASE RunDies(a)
  <2> USE <1>2 DEF RunDies, Fault, rows
  <2>1. WebhookTypeOK'
    BY DEF WebhookTypeOK, DeliveryStatuses, Nothing, Answers
  <2>2. RowsInOrder'
    BY DEF WebhookTypeOK, RowsInOrder, Nothing
  <2>3. OneRunEach'
    BY DEF WebhookTypeOK, OneRunEach, Has, Nothing
  <2>4. TakenIsKnown'
    BY DEF WebhookTypeOK, TakenIsKnown, Has, Nothing
  <2>5. WaitingIsDue'
    BY DEF WebhookTypeOK, WaitingIsDue
  <2>6. QED
    BY <2>1, <2>2, <2>3, <2>4, <2>5
<1>3. CASE RecordFails(a, d)
  <2> USE <1>3 DEF RecordFails, Fault, Drop, rows
  <2>1. WebhookTypeOK'
    BY DEF WebhookTypeOK, DeliveryStatuses, Answers
  <2>2. RowsInOrder'
    BY DEF WebhookTypeOK, RowsInOrder
  <2>3. OneRunEach'
    BY DEF WebhookTypeOK, OneRunEach, Has
  <2>4. TakenIsKnown'
    BY DEF WebhookTypeOK, TakenIsKnown, Has
  <2>5. WaitingIsDue'
    BY DEF WebhookTypeOK, WaitingIsDue
  <2>6. QED
    BY <2>1, <2>2, <2>3, <2>4, <2>5
<1>4. ASSUME NEW counts \in BOOLEAN, Reject(a, d, counts)
      PROVE  WebhookInv'
  <2> USE <1>4 DEF Reject, Drop, history
  <2>1. WebhookTypeOK'
    BY DEF WebhookTypeOK, DeliveryStatuses, Answers, Has
  <2>2. RowsInOrder'
    BY DEF WebhookTypeOK, RowsInOrder
  <2>3. OneRunEach'
    BY DEF WebhookTypeOK, OneRunEach, Has
  <2>4. TakenIsKnown'
    BY DEF WebhookTypeOK, TakenIsKnown, OneRunEach, Has
  <2>5. WaitingIsDue'
    BY DEF WebhookTypeOK, WaitingIsDue, DeliveryStatuses
  <2>6. QED
    BY <2>1, <2>2, <2>3, <2>4, <2>5
<1>5. ASSUME NEW reply \in {"ok", "later", "refused"}, NEW took \in BOOLEAN,
             Post(a, d, reply, took)
      PROVE  WebhookInv'
  <2> USE <1>5 DEF Post, rows
  <2>1. WebhookTypeOK'
    BY DEF WebhookTypeOK, DeliveryStatuses, Answers, Has
  <2>2. RowsInOrder'
    BY DEF WebhookTypeOK, RowsInOrder
  <2>3. OneRunEach'
    BY DEF WebhookTypeOK, OneRunEach, Has
  <2>4. TakenIsKnown'
    BY DEF WebhookTypeOK, TakenIsKnown, OneRunEach, Has
  <2>5. WaitingIsDue'
    BY DEF WebhookTypeOK, WaitingIsDue
  <2>6. QED
    BY <2>1, <2>2, <2>3, <2>4, <2>5
<1>6. CASE Record(a, d)
  <2> USE <1>6 DEF Record, Drop, NextStatus, history
  <2>1. WebhookTypeOK'
    BY DEF WebhookTypeOK, DeliveryStatuses, Answers
  <2>2. RowsInOrder'
    BY DEF WebhookTypeOK, RowsInOrder
  <2>3. OneRunEach'
    BY DEF WebhookTypeOK, OneRunEach, Has
  <2>4. TakenIsKnown'
    BY DEF WebhookTypeOK, TakenIsKnown, OneRunEach, Has
  <2>5. WaitingIsDue'
    BY DEF WebhookTypeOK, WaitingIsDue, DeliveryStatuses
  <2>6. QED
    BY <2>1, <2>2, <2>3, <2>4, <2>5
<1>7. QED
  BY <1>1, <1>2, <1>3, <1>4, <1>5, <1>6 DEF Attempt

LEMMA Recovering ==
    ASSUME WebhookInv, NEW d \in Hooks, LockAges(d) \/ Reclaim
    PROVE  WebhookInv'
<1> USE WebhookConstantsOK DEF WebhookInv, None, LockAges, Reclaim, runs, history
<1>1. WebhookTypeOK'
  BY DEF WebhookTypeOK, DeliveryStatuses, Answers
<1>2. RowsInOrder'
  BY DEF WebhookTypeOK, RowsInOrder
<1>3. OneRunEach'
  BY DEF WebhookTypeOK, OneRunEach, Has
<1>4. TakenIsKnown'
  BY DEF WebhookTypeOK, RowsInOrder, TakenIsKnown, Has
<1>5. WaitingIsDue'
  BY DEF WebhookTypeOK, RowsInOrder, WaitingIsDue
<1>6. QED
  BY <1>1, <1>2, <1>3, <1>4, <1>5

LEMMA StepHolds == WebhookInv /\ [WebhookNext]_wvars => WebhookInv'
<1> SUFFICES ASSUME WebhookInv, [WebhookNext]_wvars PROVE WebhookInv'
  OBVIOUS
<1>1. CASE UNCHANGED wvars
  BY <1>1 DEF WebhookInv, WebhookTypeOK, RowsInOrder, OneRunEach, TakenIsKnown, WaitingIsDue,
              Has, wvars, rows, runs, history
<1>2. ASSUME NEW a \in Attempters, NEW d \in Hooks,
             Dispatch(a, d) \/ Retry(a, d) \/ Attempt(a, d) \/ RecordFails(a, d)
      PROVE  WebhookInv'
  BY <1>2, TakingOn, Letting
<1>3. ASSUME NEW a \in Attempters, Release(a) \/ RunDies(a)
      PROVE  WebhookInv'
  <2>1. PICK d \in Hooks : batch[a][d] # None
    BY <1>3 DEF Release, RunDies, Nothing, WebhookInv, WebhookTypeOK
  <2>2. QED
    BY <1>3, Letting
<1>4. ASSUME NEW a \in Attempters, NEW D \in SUBSET Hooks, Claim(a, D)
      PROVE  WebhookInv'
  BY <1>4, TakingOn DEF Claim
<1>5. ASSUME NEW d \in Hooks, LockAges(d) \/ Reclaim
      PROVE  WebhookInv'
  BY <1>5, Recovering
<1>6. ASSUME Reclaim PROVE WebhookInv'
  <2>1. PICK d \in Hooks : d \in wstale
    BY <1>6 DEF Reclaim, WebhookInv, WebhookTypeOK
  <2>2. QED
    BY <1>5, <1>6
<1>7. QED
  BY <1>1, <1>2, <1>3, <1>4, <1>5, <1>6 DEF WebhookNext, Queue

-----------------------------------------------------------------------------
(* What holds of a row the table has, of who has it, and of its outcome     *)
(* holds in every state.                                                    *)
THEOREM InvariantHolds == WebhookSpec => []WebhookInv
BY InitHolds, StepHolds, PTL DEF WebhookSpec

(* Rows, runs and bounds keep their types; what a run has sent is one row   *)
(* that it has.                                                             *)
THEOREM WebhookTypesHold == WebhookSpec => []WebhookTypeOK
BY InvariantHolds, PTL DEF WebhookInv

(* An endpoint takes an event once, and what the row says in the end is     *)
(* what it did, unless an outcome was lost or two runs had the row.         *)
THEOREM EventsTakenAsRecorded == WebhookSpec => []TakenAsRecorded
<1>1. WebhookInv => TakenAsRecorded
  BY DEF WebhookInv, WebhookTypeOK, OneRunEach, TakenIsKnown, TakenAsRecorded, Has
<1>2. QED
  BY <1>1, InvariantHolds, PTL

(* A row that waits or is served is one the queue would still attempt.      *)
THEOREM WaitingRowsAreDue == WebhookSpec => []WaitingIsDue
BY InvariantHolds, PTL DEF WebhookInv
=============================================================================
