-------------------------- MODULE CampaignsProofs --------------------------
(***************************************************************************)
(* The safety properties of Campaigns for every set of recipients,         *)
(* invocations, sweeps, requests and tokens, every limit of attempts, and  *)
(* whether or not the owner of a stale lock may still be running.          *)
(*                                                                         *)
(* The argument has two layers.  Locks: a recipient is locked exactly      *)
(* while it is PROCESSING, tokens of live invocations differ, and work not *)
(* yet marked is unmarked.  Rows: one recipient at a time, the marker, its *)
(* holder's phase and the delivery agree on whether a provider accepted    *)
(* it, as long as no write by id hit a claim its writer had not seen.      *)
(* Completion rests on the locks alone: what was counted stays settled.    *)
(***************************************************************************)
EXTENDS Campaigns, TLAPS

-----------------------------------------------------------------------------
(* Type correctness.                                                        *)

(* A write that ends a claim, made or not, keeps the columns well typed.    *)
LEMMA LeaveType ==
    ASSUME CampaignTypeOK, NEW d \in Recipients, NEW s \in Active \cup Settled, NEW owned,
           Leave(owned, d, s)
    PROVE  /\ status' \in [Recipients -> {"NONE"} \cup Active \cup Settled]
           /\ lockedBy' \in [Recipients -> Tokens \cup {Null}]
           /\ sending' \in [Recipients -> BOOLEAN]
<1>1. CASE owned
    BY <1>1 DEF Leave, CampaignTypeOK
<1>2. CASE ~owned
    BY <1>2 DEF Leave, CampaignTypeOK
<1>3. QED
    BY <1>1, <1>2

(* The end of an item, and a step on to another phase of it, keep the local *)
(* variables well typed.                                                    *)
LocalType ==
    /\ pc \in [Invocations -> Phases]
    /\ cur \in [Invocations -> Recipients \cup {Null}]
    /\ \A w \in Invocations : cur[w] \in Recipients <=> pc[w] \notin {"idle", "sweeping"}
    /\ tok \in [Invocations -> Tokens \cup {Null}]
    /\ attempt \in [Invocations -> Int]
    /\ batch \in [Invocations -> SUBSET Recipients]

(* The locals keep their types when execution of a recipient ends.          *)
LEMMA EndItemType ==
    ASSUME CampaignTypeOK, NEW w \in Invocations, EndItem(w)
    PROVE  LocalType'
    BY CampaignConstantsOK DEF CampaignTypeOK, EndItem, LocalType, Phases

(* ... and when an invocation goes on to its next phase.                    *)
LEMMA GotoType ==
    ASSUME CampaignTypeOK, NEW w \in Invocations, pc[w] \notin {"idle", "sweeping"},
           NEW p \in Phases \ {"idle", "sweeping"}, Goto(w, p)
    PROVE  LocalType'
    BY DEF CampaignTypeOK, Goto, LocalType

(* An invocation past its claim has a recipient at hand.                    *)
LEMMA AtHand ==
    ASSUME CampaignTypeOK, NEW w \in Invocations, pc[w] \notin {"idle", "sweeping"}
    PROVE  cur[w] \in Recipients
    BY DEF CampaignTypeOK

(* Requests change the campaign and the status of recipients.               *)
LEMMA AdministerType ==
    ASSUME CampaignTypeOK, NEW q \in Requests, Administer(q)
    PROVE  CampaignTypeOK'
<1> USE CampaignConstantsOK
        DEF CampaignTypeOK, CampaignStatuses, Active, Settled, Stages, Goes, NotesPremature,
            recipient, delivery, local, history
<1>1. CASE Begin(q)
    BY <1>1 DEF Begin
<1>2. CASE FreezeAudience(q)
    BY <1>2 DEF FreezeAudience, Freeze
<1>3. CASE Write(q)
    BY <1>3 DEF Write
<1>4. CASE Resume(q)
    BY <1>4 DEF Resume
<1>5. CASE CancelPending(q)
    BY <1>5 DEF CancelPending
<1>6. CASE Trigger(q)
    BY <1>6 DEF Trigger
<1>7. CASE Seeded(q)
    BY <1>7 DEF Seeded
<1>8. CASE RequestDies(q)
    BY <1>8 DEF RequestDies
<1>9. QED
    BY <1>1, <1>2, <1>3, <1>4, <1>5, <1>6, <1>7, <1>8 DEF Administer

(* Executing a claimed recipient changes its row, its delivery, the local   *)
(* variables of the invocation and who is about to complete the campaign.   *)
LEMMA ExecuteType ==
    ASSUME CampaignTypeOK, NEW w \in Invocations, Execute(w) \/ GivesUp(w)
    PROVE  CampaignTypeOK'
<1> DEFINE RowType ==
        /\ status \in [Recipients -> {"NONE"} \cup Active \cup Settled]
        /\ lockedBy \in [Recipients -> Tokens \cup {Null}]
        /\ sending \in [Recipients -> BOOLEAN]
<1> DEFINE DeliveryType ==
        /\ dstatus \in [Recipients -> DeliveryStatuses]
        /\ dlock \in [Recipients -> Tokens \cup {Null}]
<1> DEFINE RestType ==
        /\ campaign \in CampaignStatuses
        /\ attempts \in [Recipients -> Int]
        /\ request \in [Requests -> Stages]
        /\ snap \in [Reconcilers -> SUBSET Snapshots]
        /\ closing \in SUBSET (Invocations \cup Reconcilers)
        /\ accepted \in [Recipients -> Nat]
        /\ overwritten \in SUBSET Recipients
        /\ premature \in BOOLEAN
<1>1. RowType' /\ DeliveryType' /\ LocalType' /\ RestType' => CampaignTypeOK'
    BY DEF CampaignTypeOK, LocalType
<1>2. RowType /\ DeliveryType /\ LocalType /\ RestType
    BY DEF CampaignTypeOK, LocalType
<1> USE CampaignConstantsOK DEF recipient, delivery, local, history
<1>3. CASE Claim(w)
    BY <1>3, AtHand DEF Claim, CampaignTypeOK, Phases, Active
<1>4. CASE ClaimRefused(w) \/ GivesUp(w)
    BY <1>1, <1>2, <1>4, EndItemType DEF ClaimRefused, GivesUp
<1>5. CASE CheckCampaign(w)
  <2>1. \E p \in {"toCancel", "toPend", "toDrop", "checked"} : Goto(w, p)
    BY <1>5 DEF CheckCampaign
  <2>2. LocalType'
    BY <1>5, <2>1, GotoType DEF CheckCampaign, Phases
  <2>3. QED
    BY <1>1, <1>2, <1>5, <2>2 DEF CheckCampaign
<1>6. CASE \/ Withdraw(w) \/ Suppress(w) \/ RecordRecipient(w) \/ BookkeepingFails(w)
           \/ \E retryable \in BOOLEAN : Fails(w, retryable)
  <2>1. pc[w] \notin {"idle", "sweeping"} /\ cur[w] \in Recipients
    BY <1>6, AtHand DEF Withdraw, Suppress, RecordRecipient, BookkeepingFails, Fails
  <2>2. \E s \in Active \cup Settled : Leave(Owned(w), cur[w], s)
    BY <1>6
       DEF Withdraw, Suppress, RecordRecipient, BookkeepingFails, Fails, Active, Settled
  <2>3. RowType'
    BY <2>1, <2>2, LeaveType
  <2>4. \/ EndItem(w)
        \/ \E p \in {"requeueing", "failing", "completing"} : Goto(w, p)
    BY <1>6 DEF Withdraw, Suppress, RecordRecipient, BookkeepingFails, Fails
  <2>5. LocalType'
    BY <2>1, <2>4, EndItemType, GotoType DEF Phases
  <2>6. attempts' \in [Recipients -> Int]
    BY <1>2, <1>6, <2>1
       DEF Withdraw, Suppress, RecordRecipient, BookkeepingFails, Fails
  <2>7. UNCHANGED <<campaign, dstatus, dlock, request, snap, closing, accepted, overwritten, premature>>
    BY <1>6 DEF Withdraw, Suppress, RecordRecipient, BookkeepingFails, Fails
  <2>8. QED
    BY <1>1, <1>2, <2>3, <2>5, <2>6, <2>7
<1>7. CASE FindDelivery(w)
  <2>1. pc[w] \notin {"idle", "sweeping"} /\ \E p \in {"found", "unsent"} : Goto(w, p)
    BY <1>7 DEF FindDelivery
  <2>2. LocalType'
    BY <2>1, GotoType DEF Phases
  <2>3. QED
    BY <1>1, <1>2, <1>7, <2>2 DEF FindDelivery
<1>8. CASE MarkInFlight(w)
  <2>1. cur[w] \in Recipients /\ pc[w] \notin {"idle", "sweeping"}
    BY <1>8, AtHand DEF MarkInFlight
  <2>2. LocalType'
    BY <1>8, <2>1, EndItemType, GotoType DEF MarkInFlight, Phases
  <2>3. RowType'
    BY <1>2, <1>8 DEF MarkInFlight
  <2>4. QED
    BY <1>1, <1>2, <1>8, <2>2, <2>3 DEF MarkInFlight
<1>9. CASE WriteDelivery(w) \/ ProviderAccepts(w) \/ RecordDelivery(w)
  <2>1. cur[w] \in Recipients /\ pc[w] \notin {"idle", "sweeping"}
    BY <1>9, AtHand DEF WriteDelivery, ProviderAccepts, RecordDelivery
  <2>2. LocalType'
    BY <1>9, <2>1, GotoType DEF WriteDelivery, ProviderAccepts, RecordDelivery, Phases
  <2>3. DeliveryType' /\ accepted' \in [Recipients -> Nat]
    BY <1>2, <1>9, <2>1
       DEF WriteDelivery, ProviderAccepts, RecordDelivery, LocalType, DeliveryStatuses
  <2>4. QED
    BY <1>1, <1>2, <1>9, <2>2, <2>3 DEF WriteDelivery, ProviderAccepts, RecordDelivery
<1>10. CASE ReleaseDelivery(w)
  <2>1. pc[w] \notin {"idle", "sweeping"} /\ (EndItem(w) \/ Goto(w, "completing"))
    BY <1>10 DEF ReleaseDelivery
  <2>2. LocalType'
    BY <2>1, EndItemType, GotoType DEF Phases
  <2>3. DeliveryType'
    BY <1>2, <1>10 DEF ReleaseDelivery, DeliveryStatuses
  <2>4. QED
    BY <1>1, <1>2, <1>10, <2>2, <2>3 DEF ReleaseDelivery
<1>11. CASE CountActive(w) \/ Complete(w)
  <2>1. LocalType'
    BY <1>2, <1>11, EndItemType DEF CountActive, Complete, LocalType
  <2>2. closing' \in SUBSET (Invocations \cup Reconcilers) /\ campaign' \in CampaignStatuses
    BY <1>2, <1>11 DEF CountActive, Complete, CampaignStatuses
  <2>3. QED
    BY <1>1, <1>2, <1>11, <2>1, <2>2 DEF CountActive, Complete
<1> HIDE DEF RowType, DeliveryType, RestType
<1>12. QED
    BY <1>3, <1>4, <1>5, <1>6, <1>7, <1>8, <1>9, <1>10, <1>11 DEF Execute

(* Every step writes values of the right type.                              *)
LEMMA CampaignTypeStep == CampaignTypeOK /\ [CampaignNext]_vars => CampaignTypeOK'
<1> SUFFICES ASSUME CampaignTypeOK, [CampaignNext]_vars PROVE CampaignTypeOK'
    OBVIOUS
<1> USE CampaignConstantsOK
        DEF CampaignTypeOK, Active, Settled, Phases, Snapshots, vars, recipient, delivery, local, history
<1>1. ASSUME NEW q \in Requests, Administer(q) PROVE CampaignTypeOK'
    BY <1>1, AdministerType
<1>2. ASSUME NEW w \in Invocations, Execute(w) \/ GivesUp(w) PROVE CampaignTypeOK'
    BY <1>2, ExecuteType
<1>3. ASSUME NEW w \in Invocations, NEW d \in Recipients, Load(w, d) PROVE CampaignTypeOK'
    BY <1>3 DEF Load
<1>4. ASSUME NEW w \in Invocations, NEW B \in SUBSET Recipients, SweepClaim(w, B)
      PROVE  CampaignTypeOK'
    BY <1>4 DEF SweepClaim
<1>5. ASSUME NEW w \in Invocations, NEW d \in Recipients, StartItem(w, d) \/ SkipItem(w, d)
      PROVE  CampaignTypeOK'
  <2>1. CASE StartItem(w, d)
    BY <2>1 DEF StartItem
  <2>2. CASE SkipItem(w, d)
    BY <2>2 DEF SkipItem
  <2>3. QED
    BY <1>5, <2>1, <2>2
<1>6. ASSUME NEW w \in Invocations, Release(w) PROVE CampaignTypeOK'
    BY <1>6 DEF Release
<1>7. ASSUME NEW w \in Invocations, Crash(w) PROVE CampaignTypeOK'
    BY <1>7 DEF Crash
<1>8. ASSUME NEW d \in Recipients, ReconcileDelivery(d) PROVE CampaignTypeOK'
    BY <1>8 DEF ReconcileDelivery, DeliveryStatuses
<1>9. ASSUME NEW d \in Recipients, ReconcileInFlight(d) PROVE CampaignTypeOK'
    BY <1>9, LeaveType DEF ReconcileInFlight
<1>10. ASSUME NEW r \in Reconcilers, ReconcileRead(r) \/ ReconcileStops(r) PROVE CampaignTypeOK'
  <2>1. \A d \in Recipients :
            [id |-> d, lockedBy |-> lockedBy[d], attempts |-> attempts[d],
             cancelled |-> campaign = "CANCELLED"] \in Snapshots
    OBVIOUS
  <2>2. StaleRecipients \subseteq Recipients
    BY DEF StaleRecipients
  <2>3. snap' \in [Reconcilers -> SUBSET Snapshots]
    <3> HIDE DEF Snapshots
    <3>1. CASE ReconcileRead(r)
      <4>1. PICK S \in SUBSET Recipients :
              snap' = [snap EXCEPT ![r] =
                {[id |-> d, lockedBy |-> lockedBy[d], attempts |-> attempts[d],
                  cancelled |-> campaign = "CANCELLED"] : d \in S}]
          BY <2>2, <3>1 DEF ReconcileRead
      <4>2. QED
          BY <2>1, <4>1
    <3>2. CASE ReconcileStops(r)
        BY <3>2 DEF ReconcileStops
    <3>3. QED
        BY <1>10, <3>1, <3>2
  <2>4. QED
    BY <1>10, <2>3 DEF ReconcileRead, ReconcileStops
<1>11. ASSUME NEW r \in Reconcilers, NEW s \in snap[r], ReconcileRecipient(r, s)
       PROVE  CampaignTypeOK'
  <2>1. s.id \in Recipients
    OBVIOUS
  <2>2. \E o \in {"CANCELLED", "FAILED", "PENDING"} : Leave(status[s.id] = "PROCESSING", s.id, o)
    BY <1>11 DEF ReconcileRecipient
  <2>3. /\ status' \in [Recipients -> {"NONE"} \cup Active \cup Settled]
        /\ lockedBy' \in [Recipients -> Tokens \cup {Null}]
        /\ sending' \in [Recipients -> BOOLEAN]
    BY <2>1, <2>2, LeaveType
  <2>4. snap' \in [Reconcilers -> SUBSET Snapshots] /\ overwritten' \in SUBSET Recipients
    BY <1>11, <2>1 DEF ReconcileRecipient
  <2>5. QED
    BY <1>11, <2>3, <2>4 DEF ReconcileRecipient
<1>12. ASSUME NEW r \in Reconcilers, CountActive(r) \/ Complete(r) PROVE CampaignTypeOK'
    BY <1>12 DEF CountActive, Complete, CampaignStatuses
<1>13. CASE UNCHANGED vars
    BY <1>13
<1> HIDE DEF CampaignTypeOK, Active, Settled, Phases, Snapshots, vars, recipient, delivery, local, history
<1>14. QED
    BY <1>1, <1>2, <1>3, <1>4, <1>5, <1>6, <1>7, <1>8, <1>9, <1>10, <1>11, <1>12, <1>13
       DEF CampaignNext, Sweep, ReconcileRow

-----------------------------------------------------------------------------
(* Locks.                                                                   *)

Locks == RecipientLockShape /\ ExecutorShape /\ ExecutorTokensUnique /\ UnsentIsUnmarked

(* What an invocation may still send: the rows it has yet to mark.          *)
Unsent(w, d) == d \in batch[w] \/ (pc[w] \in Unmarked /\ d = cur[w])

(* No invocation gains a token or a row under it.                           *)
Shrinks ==
    \A w \in Invocations :
        /\ tok'[w] \in {tok[w], Null}
        /\ \A d \in Recipients : tok'[w] # Null /\ Unsent(w, d)' => Unsent(w, d)

(* A row is as it was, or it is not locked.                                 *)
Same(d)  == status'[d] = status[d] /\ lockedBy'[d] = lockedBy[d] /\ sending'[d] = sending[d]
Freed(d) == status'[d] # "PROCESSING" /\ lockedBy'[d] = Null /\ ~sending'[d]

(* Steps that give away no token and lock no row keep the locks.            *)
LEMMA LocksKept ==
    ASSUME CampaignTypeOK, Locks, CampaignTypeOK', ExecutorShape', Shrinks,
           \A d \in Recipients : Same(d) \/ Freed(d)
    PROVE  Locks'
<1> USE CampaignConstantsOK DEF Locks, Same, Freed
<1>1. RecipientLockShape'
    BY DEF RecipientLockShape
<1>2. ExecutorTokensUnique'
    BY DEF ExecutorTokensUnique, Shrinks
<1>3. ASSUME NEW w \in Invocations, NEW d \in Recipients, lockedBy'[d] = tok'[w], Unsent(w, d)'
      PROVE  ~sending'[d]
  <2>1. CASE Freed(d)
      BY <2>1
  <2>2. CASE Same(d) /\ tok'[w] = Null
      BY <1>1, <1>3, <2>2 DEF RecipientLockShape
  <2>3. CASE Same(d) /\ tok'[w] # Null
      BY <1>3, <2>3 DEF Shrinks, UnsentIsUnmarked, Unsent
  <2>4. QED
      BY <2>1, <2>2, <2>3
<1>4. UnsentIsUnmarked'
    BY <1>3 DEF UnsentIsUnmarked, Unsent
<1>5. QED
    BY <1>1, <1>2, <1>4

(* What a step does to the local variables of an invocation.                *)
LEMMA EndItemShrinks ==
    ASSUME CampaignTypeOK, NEW w \in Invocations, EndItem(w)
    PROVE  Shrinks
    BY DEF CampaignTypeOK, EndItem, Shrinks, Unsent, Unmarked

(* Going on to a later phase adds no unsent recipient ...                   *)
LEMMA GotoShrinks ==
    ASSUME CampaignTypeOK, NEW w \in Invocations, NEW p, Goto(w, p),
           p \in Unmarked => pc[w] \in Unmarked
    PROVE  Shrinks
    BY DEF CampaignTypeOK, Goto, Shrinks, Unsent

(* ... nor does a step that leaves the locals alone.                        *)
LEMMA StillShrinks ==
    ASSUME CampaignTypeOK, UNCHANGED local
    PROVE  Shrinks
    BY DEF CampaignTypeOK, local, Shrinks, Unsent

(* A write that ends a claim frees its row or leaves every row as it was.   *)
LEMMA LeaveFrees ==
    ASSUME CampaignTypeOK, NEW d \in Recipients, NEW s, s # "PROCESSING", NEW owned,
           Leave(owned, d, s)
    PROVE  /\ \A e \in Recipients : e # d \/ ~owned => Same(e)
           /\ owned => Freed(d) /\ status'[d] = s
<1>1. CASE owned
    BY <1>1 DEF Leave, CampaignTypeOK, Same, Freed
<1>2. CASE ~owned
    BY <1>2 DEF Leave, Same
<1>3. QED
    BY <1>1, <1>2

(* The campaign as it was read decides the phase.                           *)
LEMMA CheckGoes ==
    ASSUME NEW w, CheckCampaign(w)
    PROVE  \E p \in {"toCancel", "toPend", "toDrop", "checked"} : Goto(w, p)
    BY DEF CheckCampaign

(* What an invocation remembers fits its phase.                             *)
LEMMA ExecutorShapeStep ==
    ASSUME CampaignTypeOK, ExecutorShape, CampaignTypeOK', [CampaignNext]_vars
    PROVE  ExecutorShape'
<1> USE CampaignConstantsOK DEF CampaignTypeOK, ExecutorShape, Phases, vars, local
<1>1. ASSUME NEW w \in Invocations, EndItem(w) PROVE ExecutorShape'
    BY <1>1 DEF EndItem
<1>2. ASSUME NEW w \in Invocations, pc[w] \notin {"idle", "loaded"},
             NEW p \in Phases \ {"idle", "loaded"}, Goto(w, p)
      PROVE  ExecutorShape'
    BY <1>2 DEF Goto
<1>3. CASE UNCHANGED local
    BY <1>3
<1>4. ASSUME NEW q \in Requests, Administer(q) PROVE UNCHANGED local
    BY <1>4 DEF Administer, Begin, FreezeAudience, Write, Resume, CancelPending, Trigger, Seeded,
       RequestDies
<1>5. ASSUME NEW w \in Invocations, ClaimRefused(w) \/ GivesUp(w) \/ CountActive(w) \/ Complete(w)
      PROVE  ExecutorShape'
    BY <1>1, <1>3, <1>5 DEF ClaimRefused, GivesUp, CountActive, Complete
<1>6. ASSUME NEW w \in Invocations,
             \/ CheckCampaign(w) \/ Withdraw(w) \/ Suppress(w) \/ FindDelivery(w) \/ MarkInFlight(w)
             \/ WriteDelivery(w) \/ ProviderAccepts(w) \/ RecordDelivery(w) \/ RecordRecipient(w)
             \/ BookkeepingFails(w) \/ ReleaseDelivery(w)
             \/ \E retryable \in BOOLEAN : Fails(w, retryable)
      PROVE  ExecutorShape'
  <2>1. \/ EndItem(w)
        \/ \E p \in Phases \ {"idle", "loaded"} : Goto(w, p)
    BY <1>6, CheckGoes
       DEF Withdraw, Suppress, FindDelivery, MarkInFlight, WriteDelivery, ProviderAccepts,
           RecordDelivery, RecordRecipient, BookkeepingFails, ReleaseDelivery, Fails
  <2>2. pc[w] \notin {"idle", "loaded"}
    BY <1>6
       DEF CheckCampaign, Withdraw, Suppress, FindDelivery, MarkInFlight, WriteDelivery,
           ProviderAccepts, RecordDelivery, RecordRecipient, BookkeepingFails, ReleaseDelivery, Fails
  <2>3. QED
    BY <1>1, <1>2, <2>1, <2>2
<1>7. ASSUME NEW w \in Invocations, NEW d \in Recipients, Load(w, d) PROVE ExecutorShape'
    BY <1>7 DEF Load
<1>8. ASSUME NEW w \in Invocations, Claim(w) PROVE ExecutorShape'
    BY <1>8 DEF Claim
<1>9. ASSUME NEW w \in Invocations, NEW B \in SUBSET Recipients, SweepClaim(w, B)
      PROVE  ExecutorShape'
    BY <1>9 DEF SweepClaim
<1>10. ASSUME NEW w \in Invocations, NEW d \in Recipients, StartItem(w, d) PROVE ExecutorShape'
    BY <1>10 DEF StartItem
<1>11. ASSUME NEW w \in Invocations, NEW d \in Recipients, SkipItem(w, d) PROVE ExecutorShape'
    BY <1>11 DEF SkipItem
<1>12. ASSUME NEW w \in Invocations, Release(w) \/ Crash(w) PROVE ExecutorShape'
  <2>1. CASE Release(w)
    BY <2>1 DEF Release
  <2>2. CASE Crash(w)
    BY <2>2 DEF Crash
  <2>3. QED
    BY <1>12, <2>1, <2>2
<1>13. ASSUME NEW d \in Recipients, ReconcileDelivery(d) \/ ReconcileInFlight(d) PROVE UNCHANGED local
    BY <1>13 DEF ReconcileDelivery, ReconcileInFlight
<1>14. ASSUME NEW r \in Reconcilers,
              \/ ReconcileRead(r) \/ ReconcileRow(r) \/ ReconcileStops(r)
              \/ CountActive(r) \/ Complete(r)
       PROVE  UNCHANGED local
    BY <1>14
       DEF ReconcileRead, ReconcileRow, ReconcileRecipient, ReconcileStops, CountActive, Complete
<1> HIDE DEF CampaignTypeOK, ExecutorShape, Phases, local
<1>15. QED
    BY <1>3, <1>4, <1>5, <1>6, <1>7, <1>8, <1>9, <1>10, <1>11, <1>12, <1>13, <1>14
       DEF CampaignNext, Execute, Sweep

(* Requests free no lock and take none: they write PENDING and CANCELLED    *)
(* over recipients that are not PROCESSING.                                 *)
LEMMA AdministerFrees ==
    ASSUME CampaignTypeOK, Locks, NEW q \in Requests, Administer(q)
    PROVE  /\ UNCHANGED <<local, delivery, accepted, overwritten>>
           /\ \A d \in Recipients :
                 \/ Same(d)
                 \/ Freed(d) /\ status[d] \in {"NONE", "PENDING"} /\ status'[d] \in {"PENDING", "CANCELLED"}
<1> USE DEF recipient, history, Same, Freed, Locks, RecipientLockShape, CampaignTypeOK
<1>1. CASE FreezeAudience(q)
    BY <1>1 DEF FreezeAudience, Freeze
<1>2. CASE CancelPending(q)
    BY <1>2 DEF CancelPending
<1>3. CASE \/ Begin(q) \/ Write(q) \/ Resume(q) \/ Trigger(q) \/ Seeded(q) \/ RequestDies(q)
    BY <1>3 DEF Begin, Write, Resume, Trigger, Seeded, RequestDies
<1>4. QED
    BY <1>1, <1>2, <1>3 DEF Administer

(* Locks, tokens and markers agree after every step.                        *)
LEMMA LocksStep ==
    ASSUME CampaignTypeOK, Locks, CampaignTypeOK', [CampaignNext]_vars
    PROVE  Locks'
<1> ExecutorShape'
    BY ExecutorShapeStep DEF Locks
<1> DEFINE Quiet == Shrinks /\ \A d \in Recipients : Same(d) \/ Freed(d)
<1>1. ASSUME Quiet PROVE Locks'
    BY <1>1, LocksKept
<1>2. ASSUME NEW q \in Requests, Administer(q) PROVE Quiet
    BY <1>2, AdministerFrees, StillShrinks
<1>3. ASSUME NEW w \in Invocations,
             \/ ClaimRefused(w) \/ GivesUp(w) \/ CheckCampaign(w) \/ FindDelivery(w)
             \/ WriteDelivery(w) \/ ProviderAccepts(w) \/ RecordDelivery(w) \/ ReleaseDelivery(w)
             \/ CountActive(w) \/ Complete(w)
      PROVE  Quiet
  <2>1. UNCHANGED recipient
    BY <1>3 DEF ClaimRefused, GivesUp, CheckCampaign, FindDelivery, WriteDelivery, ProviderAccepts,
       RecordDelivery, ReleaseDelivery, CountActive, Complete
  <2>2. \/ EndItem(w) \/ UNCHANGED local
        \/ \E p : Goto(w, p) /\ (p \in Unmarked => pc[w] \in Unmarked)
    BY <1>3, CheckGoes
       DEF ClaimRefused, GivesUp, CheckCampaign, FindDelivery, WriteDelivery, ProviderAccepts,
           RecordDelivery, ReleaseDelivery, CountActive, Complete, Unmarked
  <2>3. QED
    BY <2>1, <2>2, EndItemShrinks, GotoShrinks, StillShrinks DEF recipient, Same
<1>4. ASSUME NEW w \in Invocations,
             \/ Withdraw(w) \/ Suppress(w) \/ RecordRecipient(w) \/ BookkeepingFails(w)
             \/ \E retryable \in BOOLEAN : Fails(w, retryable)
      PROVE  Quiet
  <2>1. cur[w] \in Recipients
    BY <1>4, AtHand DEF Withdraw, Suppress, RecordRecipient, BookkeepingFails, Fails
  <2>2. \E s \in {"CANCELLED", "PENDING", "SUPPRESSED", "SENT", "FAILED"} : Leave(Owned(w), cur[w], s)
    BY <1>4 DEF Withdraw, Suppress, RecordRecipient, BookkeepingFails, Fails
  <2>3. EndItem(w) \/ \E p \in {"requeueing", "failing", "completing"} : Goto(w, p)
    BY <1>4 DEF Withdraw, Suppress, RecordRecipient, BookkeepingFails, Fails
  <2>4. Shrinks
    BY <2>3, EndItemShrinks, GotoShrinks DEF Unmarked
  <2>5. QED
    BY <2>1, <2>2, <2>4, LeaveFrees
<1>5. ASSUME NEW w \in Invocations, Claim(w) PROVE Locks'
    BY <1>5, CampaignConstantsOK
       DEF Claim, InUse, Claimable, CampaignTypeOK, Locks, RecipientLockShape, ExecutorShape,
           ExecutorTokensUnique, UnsentIsUnmarked, Unmarked
<1>6. ASSUME NEW w \in Invocations, MarkInFlight(w) PROVE Locks'
  <2>1. CASE Owned(w)
      BY <1>6, <2>1, CampaignConstantsOK
         DEF MarkInFlight, Owned, Held, Goto, CampaignTypeOK, Locks, RecipientLockShape, ExecutorShape,
             ExecutorTokensUnique, UnsentIsUnmarked, Unmarked
  <2>2. CASE ~Owned(w)
    <3>1. EndItem(w) /\ \A d \in Recipients : Same(d)
        BY <1>6, <2>2 DEF MarkInFlight, Same
    <3>2. QED
        BY <1>1, <3>1, EndItemShrinks
  <2>3. QED
      BY <2>1, <2>2
<1>7. ASSUME NEW w \in Invocations, NEW B \in SUBSET Recipients, SweepClaim(w, B) PROVE Locks'
    BY <1>7, CampaignConstantsOK
       DEF SweepClaim, InUse, CampaignTypeOK, Locks, RecipientLockShape, ExecutorShape,
           ExecutorTokensUnique, UnsentIsUnmarked, Unmarked
<1>8. ASSUME NEW w \in Invocations, NEW d \in Recipients,
             Load(w, d) \/ StartItem(w, d) \/ SkipItem(w, d)
      PROVE  Quiet
  <2>1. UNCHANGED recipient
    BY <1>8 DEF Load, StartItem, SkipItem
  <2>2. Shrinks
    BY <1>8 DEF Load, StartItem, SkipItem, CampaignTypeOK, Shrinks, Unsent, Unmarked
  <2>3. QED
    BY <2>1, <2>2 DEF recipient, Same
<1>9. ASSUME NEW w \in Invocations, Release(w) PROVE Quiet
  <2>1. ASSUME NEW d \in Recipients PROVE Same(d) \/ Freed(d)
    <3>1. CASE d \in batch[w]
      BY <1>9, <3>1 DEF Release, Freed
    <3>2. CASE d \notin batch[w]
      BY <1>9, <3>2 DEF Release, CampaignTypeOK, Same
    <3>3. QED
      BY <3>1, <3>2
  <2>2. Shrinks
    BY <1>9 DEF Release, CampaignTypeOK, Shrinks, Unsent, Unmarked
  <2>3. QED
    BY <2>1, <2>2
<1>10. ASSUME NEW d \in Recipients, ReconcileDelivery(d) PROVE Quiet
    BY <1>10, StillShrinks DEF ReconcileDelivery, recipient, Same
<1>11. ASSUME NEW d \in Recipients, ReconcileInFlight(d) PROVE Quiet
    BY <1>11, StillShrinks, LeaveFrees DEF ReconcileInFlight
<1>12. ASSUME NEW r \in Reconcilers,
              ReconcileRead(r) \/ ReconcileStops(r) \/ CountActive(r) \/ Complete(r)
       PROVE  Quiet
  <2>1. UNCHANGED <<recipient, local>>
    BY <1>12, CampaignConstantsOK DEF ReconcileRead, ReconcileStops, CountActive, Complete
  <2>2. QED
    BY <2>1, StillShrinks DEF recipient, Same
<1>13. ASSUME NEW r \in Reconcilers, NEW s \in snap[r], ReconcileRecipient(r, s) PROVE Quiet
  <2>1. s.id \in Recipients
    BY DEF CampaignTypeOK, Snapshots
  <2>2. \E o \in {"CANCELLED", "FAILED", "PENDING"} : Leave(status[s.id] = "PROCESSING", s.id, o)
    BY <1>13 DEF ReconcileRecipient
  <2>3. UNCHANGED local
    BY <1>13 DEF ReconcileRecipient
  <2>4. QED
    BY <2>1, <2>2, <2>3, StillShrinks, LeaveFrees
<1>14. ASSUME UNCHANGED vars PROVE Quiet
    BY <1>14, StillShrinks DEF vars, recipient, Same
<1>15. ASSUME NEW w \in Invocations, Crash(w) PROVE Quiet
    BY <1>15 DEF Crash, CampaignTypeOK, Shrinks, Unsent, Unmarked, recipient, Same
<1> HIDE DEF Quiet
<1>16. QED
    BY <1>15, <1>1, <1>2, <1>3, <1>4, <1>5, <1>6, <1>7, <1>8, <1>9, <1>10, <1>11, <1>12, <1>13, <1>14
       DEF CampaignNext, Execute, Sweep, ReconcileRow

-----------------------------------------------------------------------------
(* Rows: the second layer, one recipient at a time.                         *)

(* An invocation that depends on whether the recipient was accepted.        *)
Sends(w, d) == cur[w] = d /\ pc[w] \in {"unsent", "marked", "sending", "accepted", "recorded"}

Trace(d) ==
    \/ dstatus[d] = "SENT"
    \/ status[d] = "PROCESSING" /\ sending[d]
    \/ status[d] = "UNKNOWN"

SafeRow(d) ==
    /\ accepted[d] <= 1
    /\ accepted[d] > 0 => Trace(d)
    /\ \A w \in Invocations : cur[w] = d =>
          /\ Marked(w) => Owned(w) \/ status[d] = "UNKNOWN"
          /\ pc[w] = "unsent" /\ Owned(w) => accepted[d] = 0
          /\ pc[w] \in {"marked", "sending"} => accepted[d] = 0
          /\ pc[w] = "recorded" => dstatus[d] = "SENT"
    /\ \A v, w \in Invocations : cur[v] = d /\ cur[w] = d /\ Marked(v) /\ Marked(w) => v = w

Rows == \A d \in Recipients \ overwritten : SafeRow(d)

(* Rows says what the second half of the invariant says.                    *)
LEMMA RowsIsInvariant ==
    ASSUME CampaignTypeOK
    PROVE  Rows <=> /\ SendIsMarked /\ OneSender /\ PhasesKnow
                    /\ RecipientSentOnce /\ AcceptanceLeavesTrace
<1>1. \A w \in Invocations :
        pc[w] \in {"unsent", "marked", "sending", "accepted", "recorded"} => cur[w] \in Recipients
    BY AtHand
<1>2. Rows => SendIsMarked /\ OneSender /\ PhasesKnow
    BY <1>1 DEF Rows, SafeRow, SendIsMarked, OneSender, PhasesKnow, Marked
<1>3. Rows => RecipientSentOnce /\ AcceptanceLeavesTrace
    BY DEF Rows, SafeRow, RecipientSentOnce, AcceptanceLeavesTrace, Trace
<1>4. SendIsMarked /\ OneSender /\ PhasesKnow /\ RecipientSentOnce /\ AcceptanceLeavesTrace => Rows
    BY DEF Rows, SafeRow, Trace, SendIsMarked, OneSender, PhasesKnow, RecipientSentOnce,
           AcceptanceLeavesTrace
<1>5. QED
    BY <1>2, <1>3, <1>4

(* Nobody comes to depend on the acceptance of d; who still does is where   *)
(* he was.                                                                  *)
NoNewSender(d) ==
    \A w \in Invocations : Sends(w, d)' => UNCHANGED <<pc[w], cur[w], tok[w]>>

(* The delivery and the acceptances are as they were.                       *)
Recorded(d) == dstatus'[d] = dstatus[d] /\ accepted'[d] = accepted[d]

(* A row nothing happens to stays safe.                                     *)
LEMMA Bystander ==
    ASSUME NEW d \in Recipients, SafeRow(d), Same(d), Recorded(d), NoNewSender(d)
    PROVE  SafeRow(d)'
    BY DEF SafeRow, Same, Recorded, NoNewSender, Sends, Trace, Marked, Owned, Held

(* Nobody has marked a recipient that is unmarked and not UNKNOWN, and a    *)
(* provider accepted it only if its delivery says so.                       *)
LEMMA UnmarkedRow ==
    ASSUME NEW d \in Recipients, SafeRow(d), ~sending[d], status[d] # "UNKNOWN"
    PROVE  /\ \A w \in Invocations : cur[w] = d => ~Marked(w)
           /\ accepted[d] > 0 => dstatus[d] = "SENT"
    BY DEF SafeRow, Owned, Trace

(* An unmarked recipient may be freed, ...                                  *)
LEMMA FreedRow ==
    ASSUME NEW d \in Recipients, SafeRow(d), ~sending[d], status[d] # "UNKNOWN",
           Freed(d), Recorded(d), NoNewSender(d)
    PROVE  SafeRow(d)'
    BY UnmarkedRow
       DEF SafeRow, Freed, Recorded, NoNewSender, Sends, Trace, Marked, Owned, Held

(* ... and claimed under a token nobody holds.                              *)
LEMMA ClaimedRow ==
    ASSUME NEW d \in Recipients, SafeRow(d), ~sending[d], status[d] # "UNKNOWN",
           status'[d] = "PROCESSING", ~sending'[d], Recorded(d), NoNewSender(d),
           \A w \in Invocations : Sends(w, d) => lockedBy'[d] # tok[w]
    PROVE  SafeRow(d)'
    BY UnmarkedRow
       DEF SafeRow, Recorded, NoNewSender, Sends, Trace, Marked, Owned, Held

(* Its sender may free a recipient whose delivery is recorded, or that no   *)
(* provider accepted.                                                       *)
LEMMA SenderFrees ==
    ASSUME NEW d \in Recipients, SafeRow(d), NEW w \in Invocations, cur[w] = d, Marked(w),
           ~Sends(w, d)', Freed(d), Recorded(d), NoNewSender(d),
           accepted[d] = 0 \/ dstatus[d] = "SENT"
    PROVE  SafeRow(d)'
    BY DEF SafeRow, Freed, Recorded, NoNewSender, Sends, Trace, Marked, Owned, Held

(* Reconciliation may resolve it to SEND_OUTCOME_UNKNOWN at any time.       *)
LEMMA ResolvedRow ==
    ASSUME NEW d \in Recipients, SafeRow(d), Freed(d), status'[d] = "UNKNOWN",
           Recorded(d), NoNewSender(d)
    PROVE  SafeRow(d)'
    BY DEF SafeRow, Freed, Recorded, NoNewSender, Sends, Trace, Marked, Owned, Held

(* The ways an invocation stops depending on an acceptance.                 *)
LEMMA EndItemSenders ==
    ASSUME CampaignTypeOK, NEW w \in Invocations, EndItem(w), NEW d \in Recipients
    PROVE  NoNewSender(d) /\ ~Sends(w, d)'
    BY CampaignConstantsOK DEF CampaignTypeOK, EndItem, NoNewSender, Sends

(* Going on to a phase that does not send makes no sender ...               *)
LEMMA GotoSenders ==
    ASSUME CampaignTypeOK, NEW w \in Invocations, NEW p, Goto(w, p), NEW d \in Recipients,
           \/ p \notin {"unsent", "marked", "sending", "accepted", "recorded"}
           \/ cur[w] # d
    PROVE  NoNewSender(d) /\ ~Sends(w, d)'
    BY DEF CampaignTypeOK, Goto, NoNewSender, Sends

(* ... nor does a step that leaves the locals alone.                        *)
LEMMA StillSenders ==
    ASSUME UNCHANGED local, NEW d \in Recipients
    PROVE  NoNewSender(d)
    BY DEF local, NoNewSender

(* A step that changes no row and starts no sending.                        *)
Aside ==
    /\ UNCHANGED <<recipient, dstatus, accepted, overwritten>>
    /\ \A d \in Recipients : NoNewSender(d)

(* A step beside the rows of the recipients keeps what is known of them.    *)
LEMMA AsideRows ==
    ASSUME Rows, Aside
    PROVE  Rows'
    BY Bystander DEF Rows, Aside, recipient, Same, Recorded

(* Requests touch no recipient that is being sent.                          *)
LEMMA AdministerRows ==
    ASSUME CampaignTypeOK, Locks, Rows, NEW q \in Requests, Administer(q)
    PROVE  Rows'
<1>1. UNCHANGED <<local, dstatus, accepted, overwritten>>
    BY AdministerFrees DEF delivery
<1>2. ASSUME NEW d \in Recipients \ overwritten PROVE SafeRow(d)'
  <2>1. SafeRow(d) /\ Recorded(d) /\ NoNewSender(d)
    BY <1>1, <1>2, StillSenders DEF Rows, Recorded
  <2>2. CASE Same(d)
    BY <2>1, <2>2, Bystander
  <2>3. CASE Freed(d) /\ status[d] \in {"NONE", "PENDING"}
    <3>1. ~sending[d]
      BY <2>3, CampaignConstantsOK DEF Locks, RecipientLockShape
    <3>2. QED
      BY <2>1, <2>3, <3>1, FreedRow
  <2>4. QED
    BY <2>2, <2>3, AdministerFrees
<1>3. QED
    BY <1>1, <1>2 DEF Rows

(* An invocation ends its claim: with a mark only if the provider refused   *)
(* or the delivery is recorded.                                             *)
LEMMA LeavingRows ==
    ASSUME CampaignTypeOK, Rows, NEW w \in Invocations,
           \/ Withdraw(w) \/ Suppress(w) \/ RecordRecipient(w) \/ BookkeepingFails(w)
           \/ \E retryable \in BOOLEAN : Fails(w, retryable)
    PROVE  Rows'
<1>1. cur[w] \in Recipients
    BY AtHand DEF Withdraw, Suppress, RecordRecipient, BookkeepingFails, Fails
<1>2. PICK s \in {"CANCELLED", "PENDING", "SUPPRESSED", "SENT", "FAILED"} : Leave(Owned(w), cur[w], s)
    BY DEF Withdraw, Suppress, RecordRecipient, BookkeepingFails, Fails
<1>3. EndItem(w) \/ \E p \in {"requeueing", "failing", "completing"} : Goto(w, p)
    BY DEF Withdraw, Suppress, RecordRecipient, BookkeepingFails, Fails
<1>4. UNCHANGED <<dstatus, accepted, overwritten>>
    BY DEF Withdraw, Suppress, RecordRecipient, BookkeepingFails, Fails, delivery, history
<1>5. \A d \in Recipients : NoNewSender(d) /\ ~Sends(w, d)' /\ Recorded(d)
    BY <1>3, <1>4, EndItemSenders, GotoSenders DEF Recorded
<1>6. Marked(w) => pc[w] \in {"marked", "sending", "recorded"}
    BY DEF Marked, Withdraw, Suppress, RecordRecipient, BookkeepingFails, Fails
<1>7. ASSUME NEW d \in Recipients \ overwritten PROVE SafeRow(d)'
  <2>1. SafeRow(d)
    BY <1>7 DEF Rows
  <2>2. CASE d # cur[w] \/ ~Owned(w)
    BY <1>1, <1>2, <1>5, <2>1, <2>2, LeaveFrees, Bystander
  <2>3. CASE d = cur[w] /\ Owned(w)
    <3>1. Freed(d)
      BY <1>1, <1>2, <2>3, LeaveFrees
    <3>2. CASE Marked(w)
      <4>1. accepted[d] = 0 \/ dstatus[d] = "SENT"
        BY <1>6, <2>1, <2>3, <3>2 DEF SafeRow
      <4>2. QED
        BY <1>5, <2>1, <2>3, <3>1, <3>2, <4>1, SenderFrees
    <3>3. CASE ~Marked(w)
      <4>1. ~sending[d] /\ status[d] # "UNKNOWN"
        BY <2>3, <3>3 DEF Owned, Held, CampaignTypeOK
      <4>2. QED
        BY <1>5, <2>1, <3>1, <4>1, FreedRow
    <3>4. QED
      BY <3>2, <3>3
  <2>4. QED
    BY <2>2, <2>3
<1>8. QED
    BY <1>4, <1>7 DEF Rows

(* The provider call, from the look for an earlier delivery to its record.  *)
LEMMA SendingRows ==
    ASSUME CampaignTypeOK, Rows, NEW w \in Invocations,
           \/ FindDelivery(w) \/ MarkInFlight(w) \/ WriteDelivery(w) \/ ProviderAccepts(w)
           \/ RecordDelivery(w) \/ ReleaseDelivery(w)
    PROVE  Rows'
<1> USE DEF recipient, delivery, history
<1>1. cur[w] \in Recipients
    BY AtHand
       DEF FindDelivery, MarkInFlight, WriteDelivery, ProviderAccepts, RecordDelivery, ReleaseDelivery
<1>2. UNCHANGED overwritten
    BY DEF FindDelivery, MarkInFlight, WriteDelivery, ProviderAccepts, RecordDelivery, ReleaseDelivery
<1>3. EndItem(w) \/ \E p : Goto(w, p)
    BY DEF FindDelivery, MarkInFlight, WriteDelivery, ProviderAccepts, RecordDelivery, ReleaseDelivery
<1>4. \A v \in Invocations \ {w} : pc'[v] = pc[v] /\ cur'[v] = cur[v] /\ tok'[v] = tok[v]
    BY <1>3 DEF EndItem, Goto, CampaignTypeOK
<1>5. ASSUME NEW d \in Recipients \ overwritten, d # cur[w] PROVE SafeRow(d)'
  <2>1. SafeRow(d)
    BY <1>5 DEF Rows
  <2>2. Same(d) /\ Recorded(d)
    BY <1>5
       DEF FindDelivery, MarkInFlight, WriteDelivery, ProviderAccepts, RecordDelivery, ReleaseDelivery,
           Same, Recorded, CampaignTypeOK
  <2>3. NoNewSender(d)
    BY <1>3, <1>5, EndItemSenders, GotoSenders
  <2>4. QED
    BY <2>1, <2>2, <2>3, Bystander
<1>6. ASSUME NEW d \in Recipients \ overwritten, d = cur[w] PROVE SafeRow(d)'
  <2> SafeRow(d) /\ accepted[d] \in Nat
    BY <1>6 DEF Rows, CampaignTypeOK
  <2> USE DEF CampaignTypeOK
  <2>1. CASE FindDelivery(w)
    <3>1. dstatus[d] # "SENT" /\ Owned(w) => accepted[d] = 0
      BY <1>6, <2>1 DEF FindDelivery, SafeRow, Trace, Owned, Held, Marked
    <3>2. QED
      BY <1>4, <1>6, <2>1, <3>1 DEF FindDelivery, SafeRow, Goto, Trace, Owned, Held, Marked
  <2>2. CASE MarkInFlight(w) /\ Owned(w)
    <3>1. ~sending[d] /\ status[d] = "PROCESSING" /\ accepted[d] = 0
      BY <1>6, <2>2 DEF MarkInFlight, Owned, Held, Marked, SafeRow
    <3>2. \A v \in Invocations : cur[v] = d => ~Marked(v)
      BY <3>1, UnmarkedRow
    <3>3. /\ UNCHANGED <<status, lockedBy, dstatus, accepted, cur, tok>>
          /\ sending'[d] = TRUE /\ pc'[w] = "marked"
      BY <1>6, <2>2 DEF MarkInFlight, Goto
    <3>4. Marked(w)' /\ Owned(w)'
      BY <1>6, <2>2, <3>3 DEF Marked, Owned, Held
    <3>5. \A v \in Invocations \ {w} : cur'[v] = d => ~Marked(v)' /\ ~Owned(v)'
      BY <1>4, <3>2, <3>3 DEF Marked, Owned
    <3>6. QED
      BY <3>1, <3>3, <3>4, <3>5 DEF SafeRow, Trace, Marked
  <2>3. CASE MarkInFlight(w) /\ ~Owned(w)
    <3>1. EndItem(w) /\ Same(d) /\ Recorded(d)
      BY <2>3 DEF MarkInFlight, Same, Recorded
    <3>2. QED
      BY <3>1, EndItemSenders, Bystander
  <2>4. CASE WriteDelivery(w)
    BY <1>4, <1>6, <2>4 DEF WriteDelivery, SafeRow, Goto, Trace, Owned, Held, Marked
  <2>5. CASE ProviderAccepts(w)
    BY <1>4, <1>6, <2>5 DEF ProviderAccepts, SafeRow, Goto, Trace, Owned, Held, Marked
  <2>6. CASE RecordDelivery(w)
    BY <1>4, <1>6, <2>6 DEF RecordDelivery, SafeRow, Goto, Trace, Owned, Held, Marked
  <2>7. CASE ReleaseDelivery(w)
    <3>1. NoNewSender(d)
      BY <2>7, EndItemSenders, GotoSenders DEF ReleaseDelivery
    <3>2. Same(d) /\ accepted'[d] = accepted[d]
      BY <2>7 DEF ReleaseDelivery, Same
    <3>3. dstatus[d] = "SENT" => dstatus'[d] = "SENT"
      BY <2>7 DEF ReleaseDelivery
    <3>4. QED
      BY <3>1, <3>2, <3>3
         DEF SafeRow, Same, NoNewSender, Sends, Trace, Marked, Owned, Held
  <2>8. QED
    BY <2>1, <2>2, <2>3, <2>4, <2>5, <2>6, <2>7
<1>7. QED
    BY <1>2, <1>5, <1>6 DEF Rows

(* A claim takes only unmarked recipients, under a token nobody holds.      *)
LEMMA ClaimRows ==
    ASSUME CampaignTypeOK, Locks, Rows, NEW w \in Invocations,
           Claim(w) \/ \E B \in SUBSET Recipients : SweepClaim(w, B)
    PROVE  Rows'
<1> USE DEF recipient, delivery, history
<1>1. UNCHANGED <<dstatus, accepted, overwritten, cur>>
    BY DEF Claim, SweepClaim
<1>2. pc[w] \in {"idle", "loaded"} /\ pc'[w] \in {"claimed", "sweeping"}
    BY DEF Claim, SweepClaim, CampaignTypeOK
<1>3. \A v \in Invocations \ {w} : pc'[v] = pc[v] /\ tok'[v] = tok[v]
    BY DEF Claim, SweepClaim, CampaignTypeOK
<1>4. \A d \in Recipients :
        \/ Same(d)
        \/ /\ status[d] = "PENDING" \/ (status[d] = "PROCESSING" /\ ~sending[d])
           /\ status'[d] = "PROCESSING" /\ ~sending'[d]
           /\ \A v \in Invocations : lockedBy'[d] # tok[v]
  <2>1. ASSUME Claim(w), NEW d \in Recipients
        PROVE  \/ d # cur[w] /\ Same(d)
               \/ /\ status[d] = "PENDING" \/ (status[d] = "PROCESSING" /\ ~sending[d])
                  /\ status'[d] = "PROCESSING" /\ ~sending'[d]
                  /\ \A v \in Invocations : lockedBy'[d] # tok[v]
    <3>1. CASE d = cur[w]
      BY <2>1, <3>1 DEF Claim, Claimable, InUse, CampaignTypeOK
    <3>2. CASE d # cur[w]
      BY <2>1, <3>2 DEF Claim, Same, CampaignTypeOK
    <3>3. QED
      BY <3>1, <3>2
  <2>2. ASSUME NEW B \in SUBSET Recipients, SweepClaim(w, B), NEW d \in Recipients
        PROVE  \/ d \notin B /\ Same(d)
               \/ /\ status[d] = "PENDING"
                  /\ status'[d] = "PROCESSING" /\ ~sending'[d]
                  /\ \A v \in Invocations : lockedBy'[d] # tok[v]
    <3>1. CASE d \in B
      BY <2>2, <3>1 DEF SweepClaim, InUse
    <3>2. CASE d \notin B
      BY <2>2, <3>2 DEF SweepClaim, Same, CampaignTypeOK
    <3>3. QED
      BY <3>1, <3>2
  <2>3. QED
    BY <2>1, <2>2
<1>5. ASSUME NEW d \in Recipients \ overwritten PROVE SafeRow(d)'
  <2>1. SafeRow(d) /\ Recorded(d) /\ NoNewSender(d)
    BY <1>1, <1>2, <1>3 DEF Rows, Recorded, NoNewSender, Sends
  <2>2. status[d] = "PENDING" => ~sending[d]
    BY CampaignConstantsOK DEF Locks, RecipientLockShape
  <2>3. QED
    BY <1>4, <2>1, <2>2, Bystander, ClaimedRow
<1>6. QED
    BY <1>1, <1>5 DEF Rows

(* The deadline and reconciliation write by id: what they overwrite is      *)
(* known, and the rest was unmarked.                                        *)
LEMMA ReleaseRows ==
    ASSUME CampaignTypeOK, Locks, Rows, NEW w \in Invocations, Release(w)
    PROVE  Rows'
<1> USE DEF delivery, history
<1>1. UNCHANGED <<dstatus, accepted>> /\ overwritten \subseteq overwritten'
    BY DEF Release
<1>2. \A d \in Recipients : NoNewSender(d)
    BY DEF Release, CampaignTypeOK, NoNewSender, Sends
<1>3. ASSUME NEW d \in Recipients \ overwritten' PROVE SafeRow(d)'
  <2>1. SafeRow(d) /\ Recorded(d)
    BY <1>1 DEF Rows, Recorded
  <2>2. CASE d \notin batch[w]
    <3>1. Same(d)
      BY <2>2 DEF Release, Same, CampaignTypeOK
    <3>2. QED
      BY <1>2, <2>1, <3>1, Bystander
  <2>3. CASE d \in batch[w]
    <3>1. Freed(d)
      BY <2>3 DEF Release, Freed
    <3>2. status[d] = "PENDING" \/ lockedBy[d] = tok[w]
      BY <1>3, <2>3 DEF Release
    <3>3. ~sending[d] /\ status[d] # "UNKNOWN"
      <4>1. CASE status[d] = "PENDING"
        BY <4>1 DEF Locks, RecipientLockShape
      <4>2. CASE lockedBy[d] = tok[w]
        <5>1. ~sending[d]
          BY <2>3, <4>2 DEF Locks, UnsentIsUnmarked
        <5>2. tok[w] # Null
          BY <2>3 DEF Locks, ExecutorShape
        <5>3. QED
          BY <4>2, <5>1, <5>2 DEF Locks, RecipientLockShape
      <4>3. QED
        BY <3>2, <4>1, <4>2
    <3>4. QED
      BY <1>2, <2>1, <3>1, <3>3, FreedRow
  <2>4. QED
    BY <2>2, <2>3
<1>4. QED
    BY <1>3 DEF Rows

(* Resolving a stale recipient keeps what is known of the rows.             *)
LEMMA ReconcileRows ==
    ASSUME CampaignTypeOK, Locks, Rows, NEW r \in Reconcilers, ReconcileRow(r)
    PROVE  Rows'
<1>1. PICK s \in snap[r] : ReconcileRecipient(r, s)
    BY DEF ReconcileRow
<1>2. s.id \in Recipients
    BY DEF CampaignTypeOK, Snapshots
<1>3. PICK o \in {"CANCELLED", "FAILED", "PENDING"} : Leave(status[s.id] = "PROCESSING", s.id, o)
    BY <1>1 DEF ReconcileRecipient
<1>4. UNCHANGED <<local, dstatus, accepted>> /\ overwritten \subseteq overwritten'
    BY <1>1 DEF ReconcileRecipient, delivery
<1>5. ASSUME NEW d \in Recipients \ overwritten' PROVE SafeRow(d)'
  <2>1. SafeRow(d) /\ Recorded(d) /\ NoNewSender(d)
    BY <1>4, <1>5, StillSenders DEF Rows, Recorded
  <2>2. CASE d # s.id \/ status[s.id] # "PROCESSING"
    BY <1>2, <1>3, <2>1, <2>2, LeaveFrees, Bystander
  <2>3. CASE d = s.id /\ status[s.id] = "PROCESSING"
    <3>1. Freed(d)
      BY <1>2, <1>3, <2>3, LeaveFrees
    <3>2. ~sending[d]
      BY <1>1, <1>5, <2>3 DEF ReconcileRecipient
    <3>3. QED
      BY <2>1, <2>3, <3>1, <3>2, FreedRow
  <2>4. QED
    BY <2>2, <2>3
<1>6. QED
    BY <1>5 DEF Rows

(* Every step keeps every row safe.                                         *)
LEMMA RowsStep ==
    ASSUME CampaignTypeOK, Locks, Rows, [CampaignNext]_vars
    PROVE  Rows'
<1> USE DEF history
<1>1. ASSUME NEW w \in Invocations,
             ClaimRefused(w) \/ GivesUp(w) \/ CheckCampaign(w) \/ CountActive(w) \/ Complete(w)
      PROVE  Rows'
  <2>1. UNCHANGED <<recipient, dstatus, accepted, overwritten>>
    BY <1>1 DEF ClaimRefused, GivesUp, CheckCampaign, CountActive, Complete, delivery
  <2>2. \/ EndItem(w) \/ UNCHANGED local
        \/ \E p \in {"toCancel", "toPend", "toDrop", "checked"} : Goto(w, p)
    BY <1>1, CheckGoes DEF ClaimRefused, GivesUp, CountActive, Complete
  <2>3. QED
    BY <2>1, <2>2, EndItemSenders, GotoSenders, StillSenders, AsideRows DEF Aside
<1>2. ASSUME NEW w \in Invocations, NEW d \in Recipients,
             Load(w, d) \/ StartItem(w, d) \/ SkipItem(w, d)
      PROVE  Rows'
    BY <1>2, AsideRows
       DEF Load, StartItem, SkipItem, CampaignTypeOK, Aside, NoNewSender, Sends, delivery
<1>3. ASSUME NEW w \in Invocations, Crash(w) PROVE Rows'
    BY <1>3, AsideRows DEF Crash, CampaignTypeOK, Aside, NoNewSender, Sends, delivery
<1>4. ASSUME NEW d \in Recipients, ReconcileDelivery(d) PROVE Rows'
  <2>1. UNCHANGED <<recipient, local, accepted, overwritten>>
    BY <1>4 DEF ReconcileDelivery
  <2>2. \A e \in Recipients : dstatus[e] = "SENT" => dstatus'[e] = "SENT"
    BY <1>4 DEF ReconcileDelivery, CampaignTypeOK
  <2>3. ASSUME NEW e \in Recipients, SafeRow(e) PROVE SafeRow(e)'
    BY <2>1, <2>2, <2>3 DEF SafeRow, Trace, Marked, Owned, Held, recipient, local
  <2>4. QED
    BY <2>1, <2>3 DEF Rows
<1>5. ASSUME NEW d \in Recipients, ReconcileInFlight(d) PROVE Rows'
  <2>1. UNCHANGED <<local, dstatus, accepted, overwritten>> /\ Leave(TRUE, d, "UNKNOWN")
    BY <1>5 DEF ReconcileInFlight, delivery
  <2>2. ASSUME NEW e \in Recipients \ overwritten PROVE SafeRow(e)'
    <3>1. SafeRow(e) /\ Recorded(e) /\ NoNewSender(e)
      BY <2>1, <2>2, StillSenders DEF Rows, Recorded
    <3>2. CASE e # d
      BY <2>1, <3>1, <3>2, LeaveFrees, Bystander
    <3>3. CASE e = d
      BY <2>1, <3>1, <3>3, LeaveFrees, ResolvedRow
    <3>4. QED
      BY <3>2, <3>3
  <2>3. QED
    BY <2>1, <2>2 DEF Rows
<1>6. ASSUME NEW r \in Reconcilers,
             ReconcileRead(r) \/ ReconcileStops(r) \/ CountActive(r) \/ Complete(r)
      PROVE  Rows'
  <2>1. UNCHANGED <<recipient, local, dstatus, accepted, overwritten>>
    BY <1>6, CampaignConstantsOK
       DEF ReconcileRead, ReconcileStops, CountActive, Complete, delivery
  <2>2. QED
    BY <2>1, StillSenders, AsideRows DEF Aside
<1>7. ASSUME UNCHANGED vars PROVE Rows'
    BY <1>7, StillSenders, AsideRows DEF vars, delivery, Aside
<1>8. QED
    BY <1>1, <1>2, <1>3, <1>4, <1>5, <1>6, <1>7, AdministerRows, LeavingRows, SendingRows,
       ClaimRows, ReleaseRows, ReconcileRows
       DEF CampaignNext, Execute, Sweep

-----------------------------------------------------------------------------
(* The invariant, and the properties it implies.                            *)

(* A campaign in draft satisfies the invariant.                             *)
LEMMA CampaignInitInvariant == CampaignInit => CampaignIInv
<1> SUFFICES ASSUME CampaignInit PROVE CampaignIInv
    OBVIOUS
<1> USE CampaignConstantsOK DEF CampaignInit
<1>1. CampaignTypeOK
  <2>1. LocalType
    BY DEF LocalType, Phases
  <2>2. /\ status \in [Recipients -> {"NONE"} \cup Active \cup Settled]
        /\ dstatus \in [Recipients -> DeliveryStatuses]
        /\ campaign \in CampaignStatuses /\ request \in [Requests -> Stages]
    BY DEF DeliveryStatuses, CampaignStatuses, Stages
  <2>3. /\ attempts \in [Recipients -> Int] /\ accepted \in [Recipients -> Nat]
        /\ lockedBy \in [Recipients -> Tokens \cup {Null}]
        /\ dlock \in [Recipients -> Tokens \cup {Null}]
        /\ sending \in [Recipients -> BOOLEAN]
    OBVIOUS
  <2>4. /\ snap \in [Reconcilers -> SUBSET Snapshots]
        /\ closing \in SUBSET (Invocations \cup Reconcilers)
        /\ overwritten \in SUBSET Recipients /\ premature \in BOOLEAN
    OBVIOUS
  <2> HIDE DEF CampaignInit
  <2>5. QED
    BY <2>1, <2>2, <2>3, <2>4 DEF CampaignTypeOK, LocalType
<1>2. RecipientLockShape /\ ExecutorShape /\ ExecutorTokensUnique /\ UnsentIsUnmarked
    BY DEF RecipientLockShape, ExecutorShape, ExecutorTokensUnique, UnsentIsUnmarked, Unmarked
<1>3. SendIsMarked /\ OneSender /\ PhasesKnow
    BY DEF SendIsMarked, OneSender, PhasesKnow, Marked
<1>4. RecipientSentOnce /\ AcceptanceLeavesTrace
    BY DEF RecipientSentOnce, AcceptanceLeavesTrace
<1>5. QED
    BY <1>1, <1>2, <1>3, <1>4 DEF CampaignIInv

(* The two layers make up the invariant.                                    *)
LEMMA InvariantIsRows == CampaignIInv <=> CampaignTypeOK /\ Locks /\ Rows
    BY RowsIsInvariant DEF CampaignIInv, Locks

(* The invariant is inductive: types, locks, rows, each from those before.  *)
LEMMA CampaignStepInvariant == CampaignIInv /\ [CampaignNext]_vars => CampaignIInv'
<1> SUFFICES ASSUME CampaignIInv, [CampaignNext]_vars PROVE CampaignIInv'
    OBVIOUS
<1>1. CampaignTypeOK /\ Locks /\ Rows
    BY InvariantIsRows
<1>2. CampaignTypeOK'
    BY <1>1, CampaignTypeStep
<1>3. Locks' /\ Rows'
    BY <1>1, <1>2, LocksStep, RowsStep
<1>4. QED
    BY <1>2, <1>3, InvariantIsRows, PTL

(* The tables and local variables keep their types.                         *)
THEOREM CampaignTypeCorrect == CampaignSpec => []CampaignTypeOK
<1>1. CampaignInit => CampaignTypeOK
    BY CampaignInitInvariant DEF CampaignIInv
<1>2. QED
    BY <1>1, CampaignTypeStep, PTL DEF CampaignSpec

(* The inductive invariant: locks, tokens, markers, deliveries and          *)
(* acceptances agree in every reachable state.                              *)
THEOREM CampaignInvariantHolds == CampaignSpec => []CampaignIInv
    BY CampaignInitInvariant, CampaignStepInvariant, PTL DEF CampaignSpec

(* No provider accepts a recipient twice, through retries, crashes and      *)
(* repeated bookkeeping, unless a write by id replaced a foreign claim.     *)
THEOREM SentOnce == CampaignSpec => []RecipientSentOnce
<1>1. CampaignIInv => RecipientSentOnce
    BY DEF CampaignIInv
<1>2. QED
    BY <1>1, CampaignInvariantHolds, PTL

(* Every acceptance leaves its trace: a SENT delivery, the marker, or       *)
(* SEND_OUTCOME_UNKNOWN.                                                    *)
THEOREM TraceKept == CampaignSpec => []AcceptanceLeavesTrace
<1>1. CampaignIInv => AcceptanceLeavesTrace
    BY DEF CampaignIInv
<1>2. QED
    BY <1>1, CampaignInvariantHolds, PTL

-----------------------------------------------------------------------------
(* The promise: every step moves every recipient as SendPromise says.       *)

SameRecord(d) ==
    accepted'[d] = accepted[d] /\ (dstatus'[d] = "SENT" <=> dstatus[d] = "SENT")

(* What may happen to a recipient that was not overwritten: its row moves,  *)
(* or a provider accepts it, or its delivery is recorded as SENT.           *)
RowStep(d) ==
    \/ /\ SameRecord(d)
       /\ \/ status'[d] = status[d]
          \/ status[d] \in {"NONE", "PENDING"} /\ status'[d] \in {"PENDING", "CANCELLED"}
          \/ status[d] = "PENDING" /\ status'[d] = "PROCESSING"
          \/ /\ status[d] = "PROCESSING" /\ status'[d] \in {"PENDING"} \cup Settled
             /\ status'[d] = "SENT" => dstatus[d] = "SENT"
    \/ /\ status'[d] = status[d] /\ status[d] \in {"PROCESSING", "UNKNOWN"}
       /\ \/ dstatus[d] # "SENT" /\ dstatus'[d] # "SENT" /\ accepted[d] = 0 /\ accepted'[d] = 1
          \/ dstatus[d] # "SENT" /\ dstatus'[d] = "SENT" /\ accepted[d] = 1 /\ accepted'[d] = 1

TrueRow(d) ==
    /\ dstatus[d] = "SENT" => accepted[d] > 0
    /\ status[d] = "SENT" => dstatus[d] = "SENT"
    /\ \A w \in Invocations : cur[w] = d =>
          /\ pc[w] = "accepted" => accepted[d] > 0
          /\ pc[w] = "found" => dstatus[d] = "SENT"

(* A claim that is ended moves its row, if it was still held.               *)
LEMMA LeaveMoves ==
    ASSUME CampaignTypeOK, NEW e \in Recipients, NEW s \in {"PENDING"} \cup Settled, NEW owned,
           owned => status[e] = "PROCESSING", s = "SENT" => dstatus[e] = "SENT",
           Leave(owned, e, s), UNCHANGED <<dstatus, accepted>>, NEW d \in Recipients
    PROVE  RowStep(d)
    BY DEF Leave, RowStep, SameRecord, CampaignTypeOK

(* The row of a sender is being worked on, or was resolved as UNKNOWN.      *)
LEMMA SenderRow ==
    ASSUME CampaignTypeOK, NEW d \in Recipients, SafeRow(d), NEW w \in Invocations,
           cur[w] = d, Marked(w)
    PROVE  status[d] \in {"PROCESSING", "UNKNOWN"}
    BY DEF SafeRow, Owned, Held

(* What the statements of an invocation and its provider call do to a       *)
(* recipient whose lock no write by id has replaced.                        *)
LEMMA ExecuteMoves ==
    ASSUME CampaignTypeOK, NEW w \in Invocations, Execute(w),
           NEW d \in Recipients, d \notin overwritten, SafeRow(d), TrueRow(d)
    PROVE  RowStep(d)
<1> USE DEF recipient, delivery, history
<1>1. CASE UNCHANGED <<status, dstatus, accepted>>
    BY <1>1 DEF RowStep, SameRecord
<1>2. CASE Claim(w)
    BY <1>2 DEF Claim, Claimable, RowStep, SameRecord, CampaignTypeOK
<1>3. CASE \/ Withdraw(w) \/ Suppress(w) \/ RecordRecipient(w) \/ BookkeepingFails(w)
           \/ \E retryable \in BOOLEAN : Fails(w, retryable)
  <2>1. cur[w] \in Recipients /\ UNCHANGED <<dstatus, accepted>>
      BY <1>3, AtHand DEF Withdraw, Suppress, RecordRecipient, BookkeepingFails, Fails
  <2>2. CASE RecordRecipient(w) /\ cur[w] = d
    <3>1. dstatus[d] = "SENT"
        BY <2>2 DEF RecordRecipient, SafeRow, TrueRow
    <3>2. QED
        BY <2>1, <2>2, <3>1, LeaveMoves DEF RecordRecipient, Owned, Held, Settled
  <2>3. CASE RecordRecipient(w) /\ cur[w] # d
      BY <2>1, <2>3 DEF RecordRecipient, Leave, RowStep, SameRecord, CampaignTypeOK
  <2>4. CASE ~RecordRecipient(w)
    <3>1. PICK s \in {"CANCELLED", "PENDING", "SUPPRESSED", "FAILED"} : Leave(Owned(w), cur[w], s)
        BY <1>3, <2>4 DEF Withdraw, Suppress, BookkeepingFails, Fails
    <3>2. QED
        BY <2>1, <3>1, LeaveMoves DEF Owned, Held, Settled
  <2>5. QED
      BY <2>2, <2>3, <2>4
<1>4. CASE WriteDelivery(w)
  <2>1. cur[w] = d => dstatus[d] # "SENT"
      BY <1>4 DEF WriteDelivery, SafeRow, TrueRow
  <2>2. QED
      BY <1>4, <2>1 DEF WriteDelivery, RowStep, SameRecord, CampaignTypeOK
<1>5. CASE ProviderAccepts(w)
  <2>1. CASE cur[w] = d
    <3>1. accepted[d] = 0 /\ dstatus[d] # "SENT"
        BY <1>5, <2>1 DEF ProviderAccepts, SafeRow, TrueRow
    <3>2. status[d] \in {"PROCESSING", "UNKNOWN"}
        BY <1>5, <2>1, SenderRow DEF ProviderAccepts, Marked
    <3>3. QED
        BY <1>5, <2>1, <3>1, <3>2 DEF ProviderAccepts, RowStep, CampaignTypeOK
  <2>2. CASE cur[w] # d
      BY <1>5, <2>2 DEF ProviderAccepts, RowStep, SameRecord, CampaignTypeOK
  <2>3. QED
      BY <2>1, <2>2
<1>6. CASE RecordDelivery(w)
  <2>1. CASE cur[w] = d
    <3>1. accepted[d] = 1
        BY <1>6, <2>1 DEF RecordDelivery, SafeRow, TrueRow, CampaignTypeOK
    <3>2. status[d] \in {"PROCESSING", "UNKNOWN"}
        BY <1>6, <2>1, SenderRow DEF RecordDelivery, Marked
    <3>3. QED
        BY <1>6, <2>1, <3>1, <3>2 DEF RecordDelivery, RowStep, SameRecord, CampaignTypeOK
  <2>2. CASE cur[w] # d
      BY <1>6, <2>2 DEF RecordDelivery, RowStep, SameRecord, CampaignTypeOK
  <2>3. QED
      BY <2>1, <2>2
<1>7. CASE ReleaseDelivery(w)
    BY <1>7 DEF ReleaseDelivery, RowStep, SameRecord, CampaignTypeOK
<1>8. QED
    BY <1>1, <1>2, <1>3, <1>4, <1>5, <1>6, <1>7
       DEF Execute, ClaimRefused, CheckCampaign, FindDelivery, MarkInFlight, CountActive, Complete

(* ... and what every other step does.                                      *)
LEMMA RowsMove ==
    ASSUME CampaignTypeOK, Locks, [CampaignNext]_vars,
           NEW d \in Recipients, d \notin overwritten, d \notin overwritten', SafeRow(d), TrueRow(d)
    PROVE  RowStep(d)
<1> USE DEF recipient, delivery, history
<1>1. CASE UNCHANGED <<status, dstatus, accepted>>
    BY <1>1 DEF RowStep, SameRecord
<1>2. ASSUME NEW q \in Requests, Administer(q) PROVE RowStep(d)
    BY <1>2, AdministerFrees DEF RowStep, SameRecord, Same
<1>3. ASSUME NEW w \in Invocations, NEW B \in SUBSET Recipients, SweepClaim(w, B) PROVE RowStep(d)
    BY <1>3 DEF SweepClaim, RowStep, SameRecord
<1>4. ASSUME NEW w \in Invocations, Release(w) PROVE RowStep(d)
  <2>1. d \in batch[w] => status[d] = "PENDING" \/ (lockedBy[d] = tok[w] /\ tok[w] # Null)
      BY <1>4 DEF Release, Locks, ExecutorShape
  <2>2. d \in batch[w] => status[d] \in {"PENDING", "PROCESSING"}
      BY <2>1, <1>4 DEF Locks, RecipientLockShape, Release
  <2>3. QED
      BY <1>4, <2>2 DEF Release, RowStep, SameRecord
<1>5. ASSUME NEW e \in Recipients, ReconcileDelivery(e) PROVE RowStep(d)
    BY <1>5 DEF ReconcileDelivery, RowStep, SameRecord, CampaignTypeOK
<1>6. ASSUME NEW e \in Recipients, ReconcileInFlight(e) PROVE RowStep(d)
    BY <1>6, LeaveMoves DEF ReconcileInFlight, Settled
<1>7. ASSUME NEW r \in Reconcilers, NEW s \in snap[r], ReconcileRecipient(r, s) PROVE RowStep(d)
  <2>1. s.id \in Recipients
      BY DEF CampaignTypeOK, Snapshots
  <2>2. QED
      BY <1>7, <2>1, LeaveMoves DEF ReconcileRecipient, Settled
<1>8. QED
    BY <1>1, <1>2, <1>3, <1>4, <1>5, <1>6, <1>7, ExecuteMoves
       DEF CampaignNext, Sweep, ReconcileRow, Load, StartItem, SkipItem, GivesUp, Crash,
           ReconcileRead, ReconcileStops, CountActive, Complete, vars

(* Who has just been accepted, or has just found a SENT delivery, is right. *)
LEMMA PhasesAreTrue ==
    ASSUME CampaignTypeOK, Locks, [CampaignNext]_vars, NEW d \in Recipients, TrueRow(d),
           d \notin overwritten,
           dstatus[d] = "SENT" => dstatus'[d] = "SENT", accepted[d] > 0 => accepted'[d] > 0
    PROVE  \A w \in Invocations : cur'[w] = d =>
              /\ pc'[w] = "accepted" => accepted'[d] > 0
              /\ pc'[w] = "found" => dstatus'[d] = "SENT"
<1> SUFFICES ASSUME NEW w \in Invocations, cur'[w] = d
             PROVE  /\ pc'[w] = "accepted" => accepted'[d] > 0
                    /\ pc'[w] = "found" => dstatus'[d] = "SENT"
    OBVIOUS
<1> DEFINE Known == pc'[w] \in {"accepted", "found"} => pc'[w] = pc[w] /\ cur'[w] = cur[w]
<1>1. CASE Known
    BY <1>1 DEF TrueRow
<1>2. CASE UNCHANGED local
    BY <1>1, <1>2 DEF local
<1>3. ASSUME NEW v \in Invocations, EndItem(v) PROVE Known
    BY <1>3 DEF EndItem, CampaignTypeOK
<1>4. ASSUME NEW v \in Invocations, NEW p, p \notin {"accepted", "found"}, Goto(v, p) PROVE Known
    BY <1>4 DEF Goto, CampaignTypeOK
<1>5. ASSUME NEW v \in Invocations, NEW e \in Recipients,
             Load(v, e) \/ StartItem(v, e) \/ SkipItem(v, e)
      PROVE  Known
    BY <1>5 DEF Load, StartItem, SkipItem, CampaignTypeOK
<1>6. ASSUME NEW v \in Invocations, NEW B \in SUBSET Recipients,
             Claim(v) \/ SweepClaim(v, B) \/ Release(v) \/ Crash(v)
      PROVE  Known
    BY <1>6 DEF Claim, SweepClaim, Release, Crash, CampaignTypeOK
<1>7. ASSUME NEW v \in Invocations, FindDelivery(v)
      PROVE  Known \/ (pc'[w] = "found" /\ dstatus[d] = "SENT")
    BY <1>7 DEF FindDelivery, Goto, CampaignTypeOK
<1>8. ASSUME NEW v \in Invocations, ProviderAccepts(v)
      PROVE  Known \/ (pc'[w] = "accepted" /\ accepted'[d] > 0)
    BY <1>8 DEF ProviderAccepts, Goto, CampaignTypeOK
<1>9. ASSUME NEW v \in Invocations, Execute(v), ~FindDelivery(v), ~ProviderAccepts(v), ~Claim(v)
      PROVE  Known
  <2>1. CASE EndItem(v) \/ UNCHANGED local
      BY <2>1, <1>3 DEF local
  <2>2. CASE \E p \in Phases \ {"accepted", "found"} : Goto(v, p)
      BY <2>2, <1>4
  <2>3. CheckCampaign(v) => \E p \in Phases \ {"accepted", "found"} : Goto(v, p)
      BY CheckGoes DEF Phases
  <2>4. EndItem(v) \/ UNCHANGED local \/ \E p \in Phases \ {"accepted", "found"} : Goto(v, p)
      BY <1>9, <2>3
         DEF Execute, ClaimRefused, Withdraw, Suppress, MarkInFlight, WriteDelivery,
             RecordDelivery, RecordRecipient, BookkeepingFails, Fails, ReleaseDelivery,
             CountActive, Complete, Phases
  <2>5. QED
      BY <2>1, <2>2, <2>4
<1>10. ASSUME NEW x \in Invocations \cup Reconcilers, CountActive(x) \/ Complete(x)
       PROVE  Known \/ UNCHANGED local
    BY <1>10, <1>3 DEF CountActive, Complete
<1>11. ASSUME NEW v \in Invocations, GivesUp(v) PROVE Known
    BY <1>11, <1>3 DEF GivesUp
<1>12. ASSUME NEW q \in Requests, Administer(q) PROVE UNCHANGED local
    BY <1>12, AdministerFrees
<1> HIDE DEF Known
<1>13. QED
    BY <1>1, <1>2, <1>5, <1>6, <1>7, <1>8, <1>9, <1>10, <1>11, <1>12
       DEF CampaignNext, Sweep, ReconcileRow, ReconcileDelivery, ReconcileInFlight,
           ReconcileRead, ReconcileRecipient, ReconcileStops, vars

(* An overwritten recipient stays one.                                      *)
LEMMA OverwrittenStays ==
    ASSUME CampaignTypeOK, Locks, [CampaignNext]_vars
    PROVE  overwritten \subseteq overwritten'
<1>1. ASSUME NEW q \in Requests, Administer(q) PROVE UNCHANGED overwritten
    BY <1>1, AdministerFrees
<1>2. ASSUME NEW w \in Invocations, Execute(w) PROVE UNCHANGED overwritten
    BY <1>2
       DEF Execute, Claim, ClaimRefused, CheckCampaign, Withdraw, Suppress, FindDelivery,
           MarkInFlight, WriteDelivery, ProviderAccepts, RecordDelivery, RecordRecipient,
           BookkeepingFails, Fails, ReleaseDelivery, CountActive, Complete, history
<1>3. ASSUME NEW w \in Invocations, Sweep(w) PROVE UNCHANGED overwritten
    BY <1>3 DEF Sweep, SweepClaim, StartItem, SkipItem, history
<1>4. ASSUME NEW r \in Reconcilers, ReconcileRow(r) PROVE overwritten \subseteq overwritten'
    BY <1>4 DEF ReconcileRow, ReconcileRecipient
<1>5. ASSUME NEW w \in Invocations, Release(w) PROVE overwritten \subseteq overwritten'
    BY <1>5 DEF Release
<1>6. QED
    BY <1>1, <1>2, <1>3, <1>4, <1>5
       DEF CampaignNext, Load, GivesUp, Crash, CountActive, Complete, ReconcileDelivery,
           ReconcileInFlight, ReconcileRead, ReconcileStops, vars, history

(* Records stay true: what is recorded as SENT was accepted.                *)
LEMMA RecordedStep ==
    ASSUME CampaignIInv, CampaignIInv', RecordedIsAccepted, [CampaignNext]_vars
    PROVE  RecordedIsAccepted'
<1>1. CampaignTypeOK /\ Locks /\ Rows /\ overwritten \subseteq overwritten'
    BY InvariantIsRows, OverwrittenStays
<1>2. ASSUME NEW d \in Recipients \ overwritten' PROVE TrueRow(d)'
  <2>1. d \notin overwritten /\ SafeRow(d) /\ TrueRow(d) /\ RowStep(d)
      BY <1>1, <1>2, RowsMove DEF Rows, RecordedIsAccepted, TrueRow
  <2>2. accepted[d] \in Nat /\ accepted'[d] \in Nat
      BY DEF CampaignIInv, CampaignTypeOK
  <2>3. /\ dstatus[d] = "SENT" => dstatus'[d] = "SENT"
        /\ accepted[d] > 0 => accepted'[d] > 0
      BY <2>1, <2>2 DEF RowStep, SameRecord
  <2>4. /\ dstatus'[d] = "SENT" => accepted'[d] > 0
        /\ status'[d] = "SENT" => dstatus'[d] = "SENT"
      BY <2>1, <2>2 DEF RowStep, SameRecord, TrueRow
  <2>5. QED
      BY <1>1, <2>1, <2>3, <2>4, PhasesAreTrue DEF TrueRow
<1>3. QED
    BY <1>2 DEF RecordedIsAccepted, TrueRow

(* The records of a recipient before and after make its step one of the     *)
(* promise.                                                                 *)
LEMMA RowStepIsMailStep ==
    ASSUME CampaignIInv, CampaignIInv', RecordedIsAccepted, RecordedIsAccepted',
           NEW d \in Recipients, d \notin overwritten, d \notin overwritten', RowStep(d)
    PROVE  Promise!MailStep(d)
<1>1. /\ status[d] \in {"NONE"} \cup Active \cup Settled
      /\ status'[d] \in {"NONE"} \cup Active \cup Settled
      /\ accepted[d] \in {0, 1} /\ accepted'[d] \in {0, 1}
  <2>1. accepted[d] \in Nat /\ accepted'[d] \in Nat
      BY DEF CampaignIInv, CampaignTypeOK
  <2>2. accepted[d] <= 1 /\ accepted'[d] <= 1
      BY DEF CampaignIInv, RecipientSentOnce
  <2>3. /\ status[d] \in {"NONE"} \cup Active \cup Settled
        /\ status'[d] \in {"NONE"} \cup Active \cup Settled
      BY DEF CampaignIInv, CampaignTypeOK
  <2>4. QED
      BY <2>1, <2>2, <2>3
<1>2. /\ accepted[d] > 0 => Trace(d)
      /\ dstatus[d] = "SENT" => accepted[d] = 1
      /\ status[d] = "SENT" => dstatus[d] = "SENT"
    BY <1>1 DEF CampaignIInv, AcceptanceLeavesTrace, Trace, RecordedIsAccepted
<1>3. /\ accepted'[d] > 0 => Trace(d)'
      /\ dstatus'[d] = "SENT" => accepted'[d] = 1
      /\ status'[d] = "SENT" => dstatus'[d] = "SENT"
    BY <1>1 DEF CampaignIInv, AcceptanceLeavesTrace, Trace, RecordedIsAccepted
<1> DEFINE Says(s, ds) ==
        CASE ds = "SENT" \/ s = "SENT"           -> "sent"
          [] ds # "SENT" /\ s = "NONE"           -> "none"
          [] ds # "SENT" /\ s = "PENDING"        -> "queued"
          [] ds # "SENT" /\ s = "PROCESSING"     -> "working"
          [] ds # "SENT" /\ s = "UNKNOWN"        -> "unknown"
          [] ds # "SENT" /\ s \in {"FAILED", "CANCELLED", "SUPPRESSED"} -> "failed"
<1>4. Outcome[d] = Says(status[d], dstatus[d]) /\ Outcome'[d] = Says(status'[d], dstatus'[d])
    BY DEF Outcome
<1>5. QED
    BY <1>1, <1>2, <1>3, <1>4
       DEF RowStep, SameRecord, Trace, Active, Settled, Promise!MailStep, Promise!Queue,
           Promise!Start, Promise!PutBack, Promise!Accept, Promise!GiveUp, Promise!LoseSight,
           Promise!Confirm, Promise!Stay, Promise!Goes, Promise!Untaken, Promise!Taken

(* Campaigns implements SendPromise: executors, requests, deadlines and     *)
(* reconciliations, writing recipient and delivery one after the other,     *)
(* together take each recipient to one outcome, and a provider accepts it   *)
(* at most once, but for a write by id over a foreign claim.                *)
THEOREM RecipientsKeepThePromise == CampaignSpec => RecipientsAsPromised
<1>1. CampaignInit => RecordedIsAccepted
    BY DEF CampaignInit, RecordedIsAccepted
<1>2. CampaignSpec => []RecordedIsAccepted
    BY <1>1, RecordedStep, CampaignInvariantHolds, PTL DEF CampaignSpec
<1>3. CampaignInit => Promise!PromiseInit
    BY DEF CampaignInit, Promise!PromiseInit, Outcome
<1>4. CampaignIInv /\ CampaignIInv' /\ RecordedIsAccepted /\ RecordedIsAccepted'
        /\ [CampaignNext]_vars => [Promise!PromiseNext]_(Promise!promiseVars)
  <2> SUFFICES ASSUME CampaignIInv, CampaignIInv', RecordedIsAccepted, RecordedIsAccepted',
                      [CampaignNext]_vars
               PROVE  Promise!PromiseNext
      OBVIOUS
  <2>1. CampaignTypeOK /\ Locks /\ Rows /\ overwritten \subseteq overwritten'
      BY InvariantIsRows, OverwrittenStays
  <2>2. ASSUME NEW d \in Recipients \ overwritten' PROVE Promise!MailStep(d)
    <3>1. d \notin overwritten /\ SafeRow(d) /\ TrueRow(d)
        BY <2>1, <2>2 DEF Rows, RecordedIsAccepted, TrueRow
    <3>2. QED
        BY <2>1, <2>2, <3>1, RowsMove, RowStepIsMailStep
  <2>3. QED
      BY <2>1, <2>2 DEF Promise!PromiseNext
<1>5. QED
    BY <1>2, <1>3, <1>4, CampaignInvariantHolds, PTL
       DEF CampaignSpec, RecipientsAsPromised, Promise!PromiseSpec

-----------------------------------------------------------------------------
(* Completion.                                                              *)

(* No step takes the audience back or makes work where there was none,      *)
(* unless it overwrites a claim.                                            *)
NoNewWork ==
    /\ Frozen => Frozen'
    /\ Frozen /\ NoneActive => NoneActive'

(* Where no recipient changes, no work is added ...                         *)
LEMMA SameWork ==
    ASSUME UNCHANGED status
    PROVE  NoNewWork
    BY DEF NoNewWork, Frozen, NoneActive

(* ... nor where a claim is ended.                                          *)
LEMMA LeaveWork ==
    ASSUME CampaignTypeOK, NEW d \in Recipients, NEW s \in Active \cup Settled, NEW owned,
           owned => status[d] \in Active, Leave(owned, d, s)
    PROVE  NoNewWork
<1>1. CASE owned
    BY <1>1 DEF Leave, CampaignTypeOK, NoNewWork, Frozen, NoneActive, Active, Settled
<1>2. CASE ~owned
    BY <1>2, SameWork DEF Leave
<1>3. QED
    BY <1>1, <1>2

(* Once the audience is frozen and settled, no step adds work.              *)
LEMMA WorkStep ==
    ASSUME CampaignTypeOK, Locks, [CampaignNext]_vars, overwritten' = {}
    PROVE  NoNewWork
<1> USE DEF recipient
<1>1. ASSUME NEW q \in Requests, Administer(q) PROVE NoNewWork
  <2>1. CASE FreezeAudience(q)
    BY <2>1 DEF FreezeAudience, Freeze, NoNewWork, Frozen, NoneActive
  <2>2. CASE CancelPending(q)
    BY <2>2 DEF CancelPending, NoNewWork, Frozen, NoneActive, Active, CampaignTypeOK
  <2>3. CASE UNCHANGED status
    BY <2>3, SameWork
  <2>4. QED
    BY <1>1, <2>1, <2>2, <2>3
       DEF Administer, Begin, Write, Resume, Trigger, Seeded, RequestDies
<1>2. ASSUME NEW w \in Invocations, Claim(w) PROVE NoNewWork
    BY <1>2, AtHand
       DEF Claim, Claimable, CampaignTypeOK, NoNewWork, Frozen, NoneActive, Active
<1>3. ASSUME NEW w \in Invocations, NEW B \in SUBSET Recipients, SweepClaim(w, B) PROVE NoNewWork
    BY <1>3 DEF SweepClaim, CampaignTypeOK, NoNewWork, Frozen, NoneActive, Active
<1>4. ASSUME NEW w \in Invocations,
             \/ Withdraw(w) \/ Suppress(w) \/ RecordRecipient(w) \/ BookkeepingFails(w)
             \/ \E retryable \in BOOLEAN : Fails(w, retryable)
      PROVE  NoNewWork
  <2>1. cur[w] \in Recipients
    BY <1>4, AtHand DEF Withdraw, Suppress, RecordRecipient, BookkeepingFails, Fails
  <2>2. \E s \in {"CANCELLED", "PENDING", "SUPPRESSED", "SENT", "FAILED"} : Leave(Owned(w), cur[w], s)
    BY <1>4 DEF Withdraw, Suppress, RecordRecipient, BookkeepingFails, Fails
  <2>3. QED
    BY <2>1, <2>2, LeaveWork DEF Owned, Held, Active, Settled
<1>5. ASSUME NEW w \in Invocations, Release(w) PROVE NoNewWork
  <2>1. ASSUME NEW d \in batch[w] PROVE d \in Recipients /\ status[d] \in Active
    <3>1. d \in Recipients /\ tok[w] # Null
      BY <1>5, <2>1 DEF CampaignTypeOK, Locks, ExecutorShape, Release
    <3>2. status[d] = "PENDING" \/ lockedBy[d] = tok[w]
      BY <1>5, <2>1, <3>1 DEF Release
    <3>3. QED
      BY <3>1, <3>2 DEF Locks, RecipientLockShape, Active
  <2>2. status' = [d \in Recipients |-> IF d \in batch[w] THEN "PENDING" ELSE status[d]]
    BY <1>5 DEF Release
  <2>3. QED
    BY <2>1, <2>2 DEF NoNewWork, Frozen, NoneActive
<1>6. ASSUME NEW d \in Recipients, ReconcileInFlight(d) PROVE NoNewWork
    BY <1>6, LeaveWork DEF ReconcileInFlight, Active, Settled
<1>7. ASSUME NEW r \in Reconcilers, NEW s \in snap[r], ReconcileRecipient(r, s) PROVE NoNewWork
  <2>1. s.id \in Recipients
    BY DEF CampaignTypeOK, Snapshots
  <2>2. \E o \in {"CANCELLED", "FAILED", "PENDING"} : Leave(status[s.id] = "PROCESSING", s.id, o)
    BY <1>7 DEF ReconcileRecipient
  <2>3. QED
    BY <2>1, <2>2, LeaveWork DEF Active, Settled
<1>8. CASE UNCHANGED status
    BY <1>8, SameWork
<1>9. QED
    BY <1>1, <1>2, <1>3, <1>4, <1>5, <1>6, <1>7, <1>8
       DEF CampaignNext, Execute, Sweep, ReconcileRow, vars, Load, ClaimRefused, CheckCampaign,
           FindDelivery, MarkInFlight, WriteDelivery, ProviderAccepts, RecordDelivery,
           ReleaseDelivery, CountActive, Complete, StartItem, SkipItem, GivesUp, Crash,
           ReconcileDelivery, ReconcileRead, ReconcileStops

(* Who is under way, and who has counted.                                   *)
UnderWay ==
    \/ campaign \in {"RUNNING", "PAUSED", "COMPLETED"}
    \/ \E q \in Requests : request[q] \in {"resumed", "counting", "counted", "triggered", "seeded"}
    \/ \E w \in Invocations : pc[w] # "idle"
    \/ closing # {}

Counted ==
    \/ campaign = "COMPLETED"
    \/ closing # {}
    \/ \E q \in Requests : request[q] = "counted"

(* Nothing gets under way or is counted anew, ...                           *)
Calm ==
    /\ UnderWay' => UnderWay
    /\ Counted' => Counted
    /\ ~premature' => ~premature
    /\ overwritten' = {} => overwritten = {}

(* A step that is calm keeps the completion invariant.                      *)
LEMMA CalmKept ==
    ASSUME CompletionIInv, NoNewWork \/ overwritten' # {}, Calm
    PROVE  CompletionIInv'
<1> SUFFICES ASSUME ~premature', overwritten' = {}
             PROVE  UnderWayIsFrozen' /\ CountedIsSettled'
    BY DEF CompletionIInv
<1>1. UnderWayIsFrozen /\ CountedIsSettled
    BY DEF CompletionIInv, Calm
<1>2. Counted => UnderWay
    BY DEF Counted, UnderWay
<1>3. (UnderWay => Frozen) /\ (Counted => NoneActive)
    BY <1>1 DEF UnderWayIsFrozen, CountedIsSettled, UnderWay, Counted
<1>4. (UnderWay' => Frozen') /\ (Counted' => NoneActive')
    BY <1>2, <1>3 DEF Calm, NoNewWork
<1>5. QED
    BY <1>4 DEF UnderWayIsFrozen, CountedIsSettled, UnderWay, Counted

(* ... but by a request, ...                                                *)
LEMMA AdministerCompletion ==
    ASSUME CampaignTypeOK, CompletionIInv, NoNewWork \/ overwritten' # {},
           NEW q \in Requests, Administer(q)
    PROVE  CompletionIInv'
<1> SUFFICES ASSUME ~premature', overwritten' = {}
             PROVE  UnderWayIsFrozen' /\ CountedIsSettled'
    BY DEF CompletionIInv
<1>1. UNCHANGED <<local, closing, overwritten>> /\ ~premature
  <2>1. UNCHANGED <<local, closing, overwritten>> /\ (NotesPremature \/ UNCHANGED premature)
    BY DEF Administer, Begin, FreezeAudience, Write, Resume, CancelPending, Trigger, Seeded,
           RequestDies, history
  <2>2. NotesPremature => ~premature
    BY DEF NotesPremature
  <2>3. QED
    BY <2>1, <2>2
<1>2. UnderWayIsFrozen /\ CountedIsSettled /\ NoNewWork
    BY <1>1 DEF CompletionIInv
<1>3. \A p \in Requests \ {q} : request'[p] = request[p]
    BY DEF Administer, Begin, FreezeAudience, Write, Resume, CancelPending, Trigger, Seeded,
           RequestDies, Goes, CampaignTypeOK
<1>4. /\ campaign' \in {"RUNNING", "PAUSED", "COMPLETED"}
         \/ request'[q] \in {"resumed", "counting", "counted", "triggered", "seeded"}
         => Frozen
      /\ campaign' = "COMPLETED" \/ request'[q] = "counted" => NoneActive
  <2> USE <1>2 DEF UnderWayIsFrozen, CountedIsSettled, Goes, NotesPremature, CampaignTypeOK
  <2>1. CASE Begin(q) \/ RequestDies(q) \/ CancelPending(q) \/ FreezeAudience(q)
    BY <2>1 DEF Begin, RequestDies, CancelPending, FreezeAudience
  <2>2. CASE Write(q)
    BY <2>2 DEF Write, Frozen
  <2>3. CASE Resume(q)
    BY <2>3 DEF Resume
  <2>4. CASE Trigger(q)
    BY <2>4 DEF Trigger, Frozen
  <2>5. CASE Seeded(q)
    BY <2>5 DEF Seeded, Frozen
  <2>6. QED
    BY <2>1, <2>2, <2>3, <2>4, <2>5 DEF Administer
<1>5. Frozen => Frozen'
    BY <1>2 DEF NoNewWork
<1>6. Frozen /\ NoneActive => NoneActive'
    BY <1>2 DEF NoNewWork
<1>7. UnderWayIsFrozen'
    BY <1>1, <1>2, <1>3, <1>4, <1>5 DEF UnderWayIsFrozen, local
<1>8. CountedIsSettled'
    BY <1>1, <1>2, <1>3, <1>4, <1>6 DEF UnderWayIsFrozen, CountedIsSettled
<1>9. QED
    BY <1>7, <1>8

(* ... by an executor that takes up a recipient, or by a count.             *)
LEMMA CompletionStep ==
    ASSUME CampaignTypeOK, Locks, CompletionIInv, CampaignTypeOK', [CampaignNext]_vars
    PROVE  CompletionIInv'
<1> NoNewWork \/ overwritten' # {}
    BY WorkStep
<1> USE DEF history
<1>1. ASSUME NEW q \in Requests, Administer(q) PROVE CompletionIInv'
    BY <1>1, AdministerCompletion
<1>2. ASSUME NEW w \in Invocations,
             \/ \E d \in Recipients : Load(w, d)
             \/ \E B \in SUBSET Recipients : SweepClaim(w, B)
      PROVE  CompletionIInv'
  <2>1. UNCHANGED <<campaign, request, closing, premature, overwritten>>
    BY <1>2 DEF Load, SweepClaim
  <2>2. Frozen
    BY <1>2 DEF Load, SweepClaim, Frozen, Active
  <2>3. QED
    BY <2>1, <2>2 DEF CompletionIInv, UnderWayIsFrozen, CountedIsSettled, NoNewWork
<1>3. ASSUME NEW x \in Invocations \cup Reconcilers, CountActive(x) PROVE CompletionIInv'
  <2>1. UNCHANGED <<campaign, request, status, premature, overwritten>>
    BY <1>3 DEF CountActive, recipient
  <2>2. UnderWay
    BY <1>3 DEF CountActive, UnderWay
  <2>3. closing' # closing => NoneActive
    BY <1>3 DEF CountActive
  <2>4. CompletionIInv => (~premature /\ overwritten = {} => Frozen)
    BY <2>2 DEF CompletionIInv, UnderWayIsFrozen, UnderWay
  <2>5. QED
    BY <2>1, <2>3, <2>4
       DEF CompletionIInv, UnderWayIsFrozen, CountedIsSettled, Frozen, NoneActive
<1>4. ASSUME NEW x \in Invocations \cup Reconcilers, Complete(x) PROVE CompletionIInv'
  <2>1. UNCHANGED <<request, premature, overwritten>> /\ closing # {}
    BY <1>4 DEF Complete
  <2>2. (UnderWay' => UnderWay) /\ (Counted' => Counted)
    BY <1>4, <2>1 DEF Complete, UnderWay, Counted
  <2>3. QED
    BY <2>1, <2>2, CalmKept DEF Calm
<1>5. ASSUME NEW w \in Invocations,
             \/ Claim(w) \/ ClaimRefused(w) \/ CheckCampaign(w) \/ Withdraw(w) \/ Suppress(w)
             \/ FindDelivery(w) \/ MarkInFlight(w) \/ WriteDelivery(w) \/ ProviderAccepts(w)
             \/ RecordDelivery(w) \/ RecordRecipient(w) \/ BookkeepingFails(w)
             \/ \E retryable \in BOOLEAN : Fails(w, retryable)
             \/ ReleaseDelivery(w) \/ GivesUp(w) \/ Crash(w) \/ Release(w)
             \/ \E d \in Recipients : StartItem(w, d) \/ SkipItem(w, d)
      PROVE  CompletionIInv'
  <2>1. UNCHANGED <<campaign, request, premature>> /\ closing' \subseteq closing
    BY <1>5
       DEF Claim, ClaimRefused, CheckCampaign, Withdraw, Suppress, FindDelivery, MarkInFlight,
           WriteDelivery, ProviderAccepts, RecordDelivery, RecordRecipient, BookkeepingFails, Fails,
           ReleaseDelivery, GivesUp, Crash, Release, StartItem, SkipItem
  <2>2. overwritten \subseteq overwritten'
    BY <1>5
       DEF Claim, ClaimRefused, CheckCampaign, Withdraw, Suppress, FindDelivery, MarkInFlight,
           WriteDelivery, ProviderAccepts, RecordDelivery, RecordRecipient, BookkeepingFails, Fails,
           ReleaseDelivery, GivesUp, Crash, Release, StartItem, SkipItem
  <2>3. pc[w] # "idle"
    BY <1>5
       DEF Claim, ClaimRefused, CheckCampaign, Withdraw, Suppress, FindDelivery, MarkInFlight,
           WriteDelivery, ProviderAccepts, RecordDelivery, RecordRecipient, BookkeepingFails, Fails,
           ReleaseDelivery, GivesUp, Crash, Release, StartItem, SkipItem
  <2>4. UnderWay /\ (Counted' => Counted)
    BY <2>1, <2>3 DEF UnderWay, Counted
  <2>5. QED
    BY <2>1, <2>2, <2>4, CalmKept DEF Calm
<1>6. ASSUME \/ \E d \in Recipients : ReconcileDelivery(d) \/ ReconcileInFlight(d)
             \/ \E r \in Reconcilers : ReconcileRead(r) \/ ReconcileRow(r) \/ ReconcileStops(r)
             \/ UNCHANGED vars
      PROVE  CompletionIInv'
  <2>1. UNCHANGED <<campaign, request, premature, pc>> /\ closing' \subseteq closing
    BY <1>6
       DEF ReconcileDelivery, ReconcileInFlight, ReconcileRead, ReconcileRow, ReconcileRecipient,
           ReconcileStops, vars, local
  <2>2. overwritten \subseteq overwritten'
    BY <1>6
       DEF ReconcileDelivery, ReconcileInFlight, ReconcileRead, ReconcileRow, ReconcileRecipient,
           ReconcileStops, vars
  <2>3. (UnderWay' => UnderWay) /\ (Counted' => Counted)
    BY <2>1 DEF UnderWay, Counted
  <2>4. QED
    BY <2>1, <2>2, <2>3, CalmKept DEF Calm
<1>7. QED
    BY <1>1, <1>2, <1>3, <1>4, <1>5, <1>6
       DEF CampaignNext, Execute, Sweep

(* A COMPLETED campaign has nobody left to serve, unless it was under way   *)
(* before its audience was frozen or a claim was overwritten.               *)
THEOREM CompletedSettled == CampaignSpec => []CompletedMeansSettled
<1>1. CampaignInit => CompletionIInv
    BY DEF CampaignInit, CompletionIInv, UnderWayIsFrozen, CountedIsSettled
<1>2. CampaignIInv /\ CampaignIInv' /\ CompletionIInv /\ [CampaignNext]_vars => CompletionIInv'
    BY CompletionStep DEF CampaignIInv, Locks
<1>3. CompletionIInv => CompletedMeansSettled
    BY DEF CompletionIInv, CountedIsSettled, NoneActive, CompletedMeansSettled
<1>4. QED
    BY <1>1, <1>2, <1>3, CampaignInvariantHolds, PTL DEF CampaignSpec
=============================================================================
