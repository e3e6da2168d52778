------------------------ MODULE EmailPipelineProofs ------------------------
(***************************************************************************)
(* Deliveries, and deliveries together with their jobs, for every set of   *)
(* deliveries, invocations, reconciliation sweeps and tokens, every limit, *)
(* and whether or not the owner of a stale lock may still be running.      *)
(*                                                                         *)
(* Deliveries alone.  The argument has two layers.  Ownership: a row is    *)
(* locked exactly while it is PROCESSING, tokens of live invocations       *)
(* differ, and the marker is set only by the holder of the lock.  Calls:   *)
(* as long as no blind write has replaced a foreign lock, a provider call  *)
(* is covered by its marker from before it starts until its outcome is     *)
(* recorded, and a marked row can be neither claimed nor requeued.         *)
(*                                                                         *)
(* Deliveries and jobs together keep what each promises alone: every step  *)
(* of EmailPipeline is a step of EmailDelivery or leaves its variables     *)
(* alone, and likewise for BackgroundJobs.  The properties of the two      *)
(* modules then hold of the pipeline.  What only the two together give     *)
(* needs that invocations are killed before their locks are stale: a lock  *)
(* that was read or is stale then belongs to nobody alive, so a permanent  *)
(* error is final, and while each job runs alone the attempts it counts    *)
(* pay for every call.                                                     *)
(***************************************************************************)
EXTENDS EmailPipeline, FiniteSetTheorems, TLAPS

Ownership == LockShape /\ LocalShape /\ TokensUnique /\ UnsentUnmarked
CallState == CallMarked /\ OneCaller /\ AcceptanceMarked

-----------------------------------------------------------------------------
(* Type correctness.                                                        *)

(* A guarded write that ends a claim keeps the row well typed.              *)
LEMMA UnlockIfType ==
    ASSUME TypeOK, NEW d \in Deliveries, NEW s \in Statuses, NEW owned, UnlockIf(owned, d, s)
    PROVE  /\ status' \in [Deliveries -> Statuses]
           /\ attempts' \in [Deliveries -> Int]
           /\ lockedBy' \in [Deliveries -> Tokens \cup {Null}]
           /\ sending' \in [Deliveries -> BOOLEAN]
           /\ stale' \in [Deliveries -> BOOLEAN]
<1>1. CASE owned
  <2>1. Unlock(d, s) /\ UNCHANGED attempts
    BY <1>1 DEF UnlockIf
  <2>2. status' \in [Deliveries -> Statuses] /\ lockedBy' \in [Deliveries -> Tokens \cup {Null}]
    BY <2>1 DEF Unlock, TypeOK
  <2>3. sending' \in [Deliveries -> BOOLEAN] /\ stale' \in [Deliveries -> BOOLEAN]
    BY <2>1 DEF Unlock, TypeOK
  <2>4. QED
    BY <2>1, <2>2, <2>3 DEF TypeOK
<1>2. CASE ~owned
    BY <1>2 DEF UnlockIf, TypeOK
<1>3. QED
    BY <1>1, <1>2

(* Every step, of an invocation or a sweep, writes values of the right type. *)
LEMMA TypeStep == TypeOK /\ [Next]_vars => TypeOK'
<1> SUFFICES ASSUME TypeOK, [Next]_vars PROVE TypeOK'
    OBVIOUS
<1> USE ConstantsOK DEF TypeOK, Statuses, Terminal, Phases, Snapshots, vars, row, local, history, doubt
<1>1. ASSUME NEW d \in Deliveries, Enqueue(d) \/ Post(d) \/ PostEnds(d) PROVE TypeOK'
    BY <1>1 DEF Enqueue, Post, PostEnds
<1>2. ASSUME NEW d \in Deliveries, PostFails(d) PROVE TypeOK'
    BY <1>2 DEF PostFails
<1>3. ASSUME NEW d \in Deliveries, LockExpires(d) PROVE TypeOK'
    BY <1>3 DEF LockExpires
<1>4. ASSUME NEW w \in Invocations, NEW d \in Deliveries, Load(w, d) PROVE TypeOK'
    BY <1>4 DEF Load
<1>5. ASSUME NEW w \in Invocations, Claim(w) PROVE TypeOK'
  <2>1. cur[w] \in Deliveries
    BY <1>5 DEF Claim
  <2>2. QED
    BY <1>5, <2>1 DEF Claim
<1>6. ASSUME NEW w \in Invocations, ClaimRefused(w) PROVE TypeOK'
    BY <1>6 DEF ClaimRefused
<1>7. ASSUME NEW w \in Invocations, ReportRefusal(w) PROVE TypeOK'
    BY <1>7 DEF ReportRefusal, EndItem
<1>8. ASSUME NEW w \in Invocations, Reject(w) PROVE TypeOK'
  <2>1. cur[w] \in Deliveries
    BY <1>8 DEF Reject
  <2>2. QED
    BY <1>8, <2>1, UnlockIfType DEF Reject, EndItem
<1>9. ASSUME NEW w \in Invocations, MarkInFlight(w) PROVE TypeOK'
  <2>1. cur[w] \in Deliveries
    BY <1>9 DEF MarkInFlight
  <2>2. QED
    BY <1>9, <2>1 DEF MarkInFlight
<1>10. ASSUME NEW w \in Invocations, ClaimLost(w) PROVE TypeOK'
    BY <1>10 DEF ClaimLost, EndItem
<1>11. ASSUME NEW w \in Invocations, ProviderAccepts(w) PROVE TypeOK'
  <2>1. cur[w] \in Deliveries
    BY <1>11 DEF ProviderAccepts
  <2>2. QED
    BY <1>11, <2>1 DEF ProviderAccepts
<1>12. ASSUME NEW w \in Invocations, NEW x \in BOOLEAN, NEW took \in BOOLEAN, SendFails(w, x, took) PROVE TypeOK'
  <2>1. cur[w] \in Deliveries
    BY <1>12 DEF SendFails
  <2>2. QED
    BY <1>12, <2>1, UnlockIfType DEF SendFails, EndItem
<1>13. ASSUME NEW w \in Invocations, RecordSent(w) PROVE TypeOK'
  <2>1. cur[w] \in Deliveries
    BY <1>13 DEF RecordSent
  <2>2. QED
    BY <1>13, <2>1, UnlockIfType DEF RecordSent, EndItem
<1>14. ASSUME NEW w \in Invocations, NEW B \in SUBSET Transactional, SweepClaim(w, B) PROVE TypeOK'
    BY <1>14, ConstantsOK DEF SweepClaim
<1>15. ASSUME NEW w \in Invocations, NEW d \in Deliveries, StartItem(w, d) PROVE TypeOK'
    BY <1>15 DEF StartItem
<1>16. ASSUME NEW w \in Invocations, NEW d \in Deliveries, SkipItem(w, d) PROVE TypeOK'
    BY <1>16 DEF SkipItem
<1>17. ASSUME NEW w \in Invocations, Release(w) PROVE TypeOK'
    BY <1>17 DEF Release
<1>18. ASSUME NEW w \in Invocations, DatabaseError(w) PROVE TypeOK'
    BY <1>18 DEF DatabaseError, EndItem
<1>19. ASSUME NEW w \in Invocations, Crash(w) PROVE TypeOK'
    BY <1>19 DEF Crash
<1>20. ASSUME NEW r \in Reconcilers, ReconcileRead(r) PROVE TypeOK'
    BY <1>20 DEF ReconcileRead, StaleRows
<1>21. ASSUME NEW r \in Reconcilers, NEW s \in snap[r], ReconcileInFlight(r, s) PROVE TypeOK'
  <2>1. s.id \in Deliveries
    BY <1>21 DEF ReconcileInFlight
  <2>2. QED
    BY <1>21, <2>1, UnlockIfType DEF ReconcileInFlight
<1>22. ASSUME NEW r \in Reconcilers, NEW s \in snap[r], ReconcileAbandoned(r, s) PROVE TypeOK'
  <2>1. s.id \in Deliveries
    OBVIOUS
  <2>2. (IF s.attempts >= MaxAttempts THEN "FAILED" ELSE "QUEUED") \in Statuses
    OBVIOUS
  <2>3. UnlockIf(status[s.id] = "PROCESSING", s.id,
                 IF s.attempts >= MaxAttempts THEN "FAILED" ELSE "QUEUED")
    BY <1>22 DEF ReconcileAbandoned
  <2>4. /\ status' \in [Deliveries -> Statuses]
        /\ attempts' \in [Deliveries -> Int]
        /\ lockedBy' \in [Deliveries -> Tokens \cup {Null}]
        /\ sending' \in [Deliveries -> BOOLEAN]
        /\ stale' \in [Deliveries -> BOOLEAN]
    BY <2>1, <2>2, <2>3, UnlockIfType
  <2>5. overwritten' \in SUBSET Deliveries
    BY <1>22, <2>1 DEF ReconcileAbandoned
  <2>6. snap' \in [Reconcilers -> SUBSET Snapshots]
    BY <1>22 DEF ReconcileAbandoned
  <2>7. QED
    BY <1>22, <2>4, <2>5, <2>6 DEF ReconcileAbandoned
<1>23. ASSUME NEW r \in Reconcilers, ReconcileStops(r) PROVE TypeOK'
    BY <1>23 DEF ReconcileStops
<1>24. CASE UNCHANGED vars
    BY <1>24
<1> HIDE DEF TypeOK, Statuses, Terminal, Phases, Snapshots, vars, row, local, history, doubt
<1>25. QED
    BY <1>1, <1>3, <1>4, <1>5, <1>6, <1>7, <1>8, <1>9, <1>10, <1>11, <1>12, <1>13, <1>14,
       <1>15, <1>16, <1>17, <1>18, <1>19, <1>20, <1>21, <1>22, <1>23, <1>24, <1>2
       DEF Next, Execute, Sweep, ReconcileRow

-----------------------------------------------------------------------------
(* The end of execute, the row left as it is.                               *)
LEMMA LeaveOwnership ==
    ASSUME TypeOK, Ownership, TypeOK', NEW w \in Invocations, EndItem(w),
           UNCHANGED <<row, overwritten>>
    PROVE  Ownership'
<1> USE ConstantsOK DEF TypeOK, LockShape, LocalShape, TokensUnique, UnsentUnmarked, row, Phases
<1>1. LockShape'
    BY DEF Ownership
<1>2. LocalShape'
    BY DEF Ownership, EndItem
<1>3. TokensUnique'
    BY DEF Ownership, EndItem
<1>4. UnsentUnmarked'
    BY DEF Ownership, EndItem
<1>5. QED
    BY <1>1, <1>2, <1>3, <1>4 DEF Ownership

(* The end of execute, with the row queued again or closed.                 *)
LEMMA UnlockOwnership ==
    ASSUME TypeOK, Ownership, TypeOK', NEW w \in Invocations, EndItem(w), cur[w] \in Deliveries,
           NEW s \in Terminal \cup {"QUEUED"}, Unlock(cur[w], s), UNCHANGED overwritten
    PROVE  Ownership'
<1> USE ConstantsOK DEF TypeOK, LockShape, LocalShape, TokensUnique, UnsentUnmarked, Phases, Terminal
<1>1. LockShape'
    BY DEF Ownership, Unlock
<1>2. LocalShape'
    BY DEF Ownership, EndItem
<1>3. TokensUnique'
    BY DEF Ownership, EndItem
<1>4. UnsentUnmarked'
    BY DEF Ownership, EndItem, Unlock
<1>5. QED
    BY <1>1, <1>2, <1>3, <1>4 DEF Ownership

(* Locks, tokens and markers: every step leaves a row locked under a live   *)
(* token exactly while it is PROCESSING, and unsent work unmarked.          *)
LEMMA OwnershipStep == TypeOK /\ Ownership /\ TypeOK' /\ [Next]_vars => Ownership'
<1> SUFFICES ASSUME TypeOK, Ownership, TypeOK', [Next]_vars PROVE Ownership'
    OBVIOUS
<1> USE ConstantsOK DEF Ownership, LockShape, LocalShape, TokensUnique, UnsentUnmarked,
       TypeOK, Statuses, Terminal, Phases, Snapshots, Owned, OwnedByUs, OwnedInFlight,
       vars, row, local, history, doubt
<1>1. ASSUME NEW d \in Deliveries, Enqueue(d) \/ Post(d) \/ PostEnds(d) PROVE Ownership'
    BY <1>1 DEF Enqueue, Post, PostEnds
<1>2. ASSUME NEW d \in Deliveries, PostFails(d) PROVE Ownership'
    BY <1>2 DEF PostFails
<1>3. ASSUME NEW d \in Deliveries, LockExpires(d) PROVE Ownership'
    BY <1>3 DEF LockExpires
<1>4. ASSUME NEW w \in Invocations, NEW d \in Deliveries, Load(w, d) PROVE Ownership'
    BY <1>4 DEF Load
<1>5. ASSUME NEW w \in Invocations, Claim(w) PROVE Ownership'
    BY <1>5 DEF Claim, InUse, Claimable
<1>6. ASSUME NEW w \in Invocations, ClaimRefused(w) PROVE Ownership'
    BY <1>6 DEF ClaimRefused
<1>7. ASSUME NEW w \in Invocations, ReportRefusal(w) PROVE Ownership'
    BY <1>7, LeaveOwnership DEF ReportRefusal
<1>8. ASSUME NEW w \in Invocations, Reject(w) PROVE Ownership'
  <2>1. EndItem(w) /\ cur[w] \in Deliveries /\ UNCHANGED overwritten
      BY <1>8 DEF Reject
  <2>2. ASSUME OwnedByUs(w) PROVE Ownership'
      BY <1>8, <2>1, <2>2, UnlockOwnership DEF Reject, UnlockIf
  <2>3. ASSUME ~OwnedByUs(w) PROVE Ownership'
    <3>1. UNCHANGED row
        BY <1>8, <2>3 DEF Reject, UnlockIf
    <3>2. QED
        BY <2>1, <3>1, LeaveOwnership
  <2>4. QED
      BY <2>2, <2>3
<1>9. ASSUME NEW w \in Invocations, MarkInFlight(w) PROVE Ownership'
    BY <1>9 DEF MarkInFlight
<1>10. ASSUME NEW w \in Invocations, ClaimLost(w) PROVE Ownership'
    BY <1>10, LeaveOwnership DEF ClaimLost
<1>11. ASSUME NEW w \in Invocations, ProviderAccepts(w) PROVE Ownership'
    BY <1>11 DEF ProviderAccepts
<1>12. ASSUME NEW w \in Invocations, NEW x \in BOOLEAN, NEW took \in BOOLEAN, SendFails(w, x, took) PROVE Ownership'
  <2>1. EndItem(w) /\ cur[w] \in Deliveries /\ UNCHANGED overwritten
      BY <1>12 DEF SendFails
  <2>2. ASSUME OwnedInFlight(w) PROVE Ownership'
      BY <1>12, <2>1, <2>2, UnlockOwnership DEF SendFails, UnlockIf
  <2>3. ASSUME ~OwnedInFlight(w) PROVE Ownership'
    <3>1. UNCHANGED row
        BY <1>12, <2>3 DEF SendFails, UnlockIf
    <3>2. QED
        BY <2>1, <3>1, LeaveOwnership
  <2>4. QED
      BY <2>2, <2>3
<1>13. ASSUME NEW w \in Invocations, RecordSent(w) PROVE Ownership'
  <2>1. EndItem(w) /\ cur[w] \in Deliveries /\ UNCHANGED overwritten
      BY <1>13 DEF RecordSent
  <2>2. ASSUME OwnedInFlight(w) PROVE Ownership'
      BY <1>13, <2>1, <2>2, UnlockOwnership DEF RecordSent, UnlockIf
  <2>3. ASSUME ~OwnedInFlight(w) PROVE Ownership'
    <3>1. UNCHANGED row
        BY <1>13, <2>3 DEF RecordSent, UnlockIf
    <3>2. QED
        BY <2>1, <3>1, LeaveOwnership
  <2>4. QED
      BY <2>2, <2>3
<1>14. ASSUME NEW w \in Invocations, NEW B \in SUBSET Transactional, SweepClaim(w, B) PROVE Ownership'
    BY <1>14 DEF SweepClaim, InUse
<1>15. ASSUME NEW w \in Invocations, NEW d \in Deliveries, StartItem(w, d) PROVE Ownership'
    BY <1>15 DEF StartItem
<1>16. ASSUME NEW w \in Invocations, NEW d \in Deliveries, SkipItem(w, d) PROVE Ownership'
    BY <1>16 DEF SkipItem
<1>17. ASSUME NEW w \in Invocations, Release(w) PROVE Ownership'
  <2>1. LockShape'
    <3>1. ASSUME NEW d \in Deliveries, d \in batch[w] PROVE LockShape!(d)'
        BY <3>1, <1>17 DEF Release
    <3>2. ASSUME NEW d \in Deliveries, d \notin batch[w] PROVE LockShape!(d)'
        BY <3>2, <1>17 DEF Release
    <3>3. QED
        BY <3>1, <3>2
  <2>2. (LocalShape /\ TokensUnique /\ UnsentUnmarked)'
      BY <1>17 DEF Release
  <2>3. QED
      BY <2>1, <2>2
<1>18. ASSUME NEW w \in Invocations, DatabaseError(w) PROVE Ownership'
    BY <1>18, LeaveOwnership DEF DatabaseError
<1>19. ASSUME NEW w \in Invocations, Crash(w) PROVE Ownership'
    BY <1>19 DEF Crash
<1>20. ASSUME NEW r \in Reconcilers, ReconcileRead(r) PROVE Ownership'
    BY <1>20 DEF ReconcileRead
<1>21. ASSUME NEW r \in Reconcilers, NEW s \in snap[r], ReconcileInFlight(r, s) PROVE Ownership'
  <2>1. s.id \in Deliveries
      OBVIOUS
  <2>2. CASE status[s.id] = "PROCESSING" /\ lockedBy[s.id] = s.lockedBy /\ sending[s.id]
      BY SMTT(30), <1>21, <2>1, <2>2 DEF ReconcileInFlight, UnlockIf, Unlock
  <2>3. CASE ~(status[s.id] = "PROCESSING" /\ lockedBy[s.id] = s.lockedBy /\ sending[s.id])
      BY <1>21, <2>3 DEF ReconcileInFlight, UnlockIf
  <2>4. QED
      BY <2>2, <2>3
<1>22. ASSUME NEW r \in Reconcilers, NEW s \in snap[r], ReconcileAbandoned(r, s) PROVE Ownership'
    BY SMTT(30), <1>22 DEF ReconcileAbandoned, UnlockIf, Unlock
<1>23. ASSUME NEW r \in Reconcilers, ReconcileStops(r) PROVE Ownership'
    BY <1>23 DEF ReconcileStops
<1>24. CASE UNCHANGED vars
    BY <1>24
<1> HIDE DEF Ownership, LockShape, LocalShape, TokensUnique, UnsentUnmarked, TypeOK, Statuses,
       Terminal, Phases, Snapshots, Owned, OwnedByUs, OwnedInFlight, vars, row, local, history, doubt
<1>25. QED
    BY <1>1, <1>3, <1>4, <1>5, <1>6, <1>7, <1>8, <1>9, <1>10, <1>11, <1>12, <1>13,
       <1>14, <1>15, <1>16, <1>17, <1>18, <1>19, <1>20, <1>21, <1>22, <1>23, <1>24, <1>2
       DEF Next, Execute, Sweep, ReconcileRow

-----------------------------------------------------------------------------
(* The end of execute, the row left as it is.                               *)
LEMMA LeaveCalls ==
    ASSUME TypeOK, CallState, TypeOK', NEW w \in Invocations, EndItem(w), UNCHANGED <<row, history>>
    PROVE  CallState'
<1> USE ConstantsOK DEF TypeOK, Calling, OwnedInFlight, row, history, Phases
<1>1. \A v \in Invocations : v # w => pc'[v] = pc[v] /\ cur'[v] = cur[v] /\ tok'[v] = tok[v]
    BY DEF EndItem
<1>2. pc'[w] \in {"idle", "sweeping"} /\ cur'[w] = Null
    BY DEF EndItem
<1>3. CallMarked'
    BY <1>1, <1>2 DEF CallState, CallMarked
<1>4. OneCaller'
    BY <1>1, <1>2 DEF CallState, OneCaller
<1>5. AcceptanceMarked'
    BY <1>1, <1>2 DEF CallState, AcceptanceMarked
<1>6. QED
    BY <1>3, <1>4, <1>5 DEF CallState

(* The end of execute, with the row queued again or closed: no other call   *)
(* may be under way, and SENT must mean accepted.                           *)
LEMMA UnlockCalls ==
    ASSUME TypeOK, CallState, TypeOK', NEW w \in Invocations, EndItem(w), cur[w] \in Deliveries,
           NEW s \in Terminal \cup {"QUEUED"}, Unlock(cur[w], s), UNCHANGED history,
           \/ cur[w] \in overwritten
           \/ /\ \A v \in Invocations : Calling(v) /\ cur[v] = cur[w] => v = w
              /\ accepted[cur[w]] = IF s = "SENT" THEN 1 ELSE 0
    PROVE  CallState'
<1> USE ConstantsOK DEF TypeOK, Calling, OwnedInFlight, history, Phases, Terminal
<1>1. \A v \in Invocations : v # w => pc'[v] = pc[v] /\ cur'[v] = cur[v] /\ tok'[v] = tok[v]
    BY DEF EndItem
<1>2. pc'[w] \in {"idle", "sweeping"} /\ cur'[w] = Null
    BY DEF EndItem
<1>3. \A d \in Deliveries : d # cur[w] =>
        status'[d] = status[d] /\ lockedBy'[d] = lockedBy[d] /\ sending'[d] = sending[d]
    BY DEF Unlock
<1>4. status'[cur[w]] = s
    BY DEF Unlock
<1>5. ASSUME NEW v \in Invocations, Calling(v)', cur'[v] \notin overwritten'
      PROVE  (OwnedInFlight(v) \/ status[cur[v]] = "UNKNOWN")'
  <2>1. v # w /\ Calling(v) /\ cur[v] \notin overwritten /\ cur[v] \in Deliveries /\ cur[v] # cur[w]
      BY <1>1, <1>2, <1>5
  <2>2. OwnedInFlight(v) \/ status[cur[v]] = "UNKNOWN"
      BY <2>1 DEF CallState, CallMarked
  <2>3. QED
      BY <1>1, <1>3, <2>1, <2>2
<1>6. OneCaller'
    BY <1>1, <1>2 DEF CallState, OneCaller
<1>7. ASSUME NEW d \in Deliveries \ overwritten' PROVE AcceptanceMarked!(d)'
  <2>1. CASE d # cur[w]
    <3>1. AcceptanceMarked!(d)
        BY DEF CallState, AcceptanceMarked
    <3>2. \A v \in Invocations : cur'[v] = d => v # w /\ cur[v] = d /\ pc'[v] = pc[v]
        BY <1>1, <1>2, <2>1
    <3>3. QED
        BY <1>3, <2>1, <3>1, <3>2
  <2>2. CASE d = cur[w]
    <3>1. accepted'[d] = IF s = "SENT" THEN 1 ELSE 0
        BY <2>2
    <3>2. ASSUME NEW v \in Invocations, cur'[v] = d PROVE pc'[v] \notin {"sending", "accepted"}
        BY <1>1, <1>2, <2>2, <3>2
    <3>3. QED
        BY <1>4, <2>2, <3>1, <3>2
  <2>3. QED
      BY <2>1, <2>2
<1>8. QED
    BY <1>5, <1>6, <1>7 DEF CallState, CallMarked, AcceptanceMarked

(* Provider calls and their outcomes: every step keeps a call covered by    *)
(* its marker and an acceptance on its way to SENT or UNKNOWN.              *)
LEMMA CallStep == TypeOK /\ Ownership /\ CallState /\ TypeOK' /\ [Next]_vars => CallState'
<1> SUFFICES ASSUME TypeOK, Ownership, CallState, TypeOK', [Next]_vars PROVE CallState'
    OBVIOUS
<1> USE ConstantsOK DEF CallState, CallMarked, OneCaller, AcceptanceMarked, Calling, Ownership, LockShape, LocalShape, TokensUnique, UnsentUnmarked,
       TypeOK, Statuses, Terminal, Phases, Snapshots, Owned, OwnedByUs, OwnedInFlight,
       vars, row, local, history, doubt
<1>1. ASSUME NEW d \in Deliveries, Enqueue(d) \/ Post(d) \/ PostEnds(d) PROVE CallState'
    BY SMTT(30), <1>1 DEF Enqueue, Post, PostEnds
<1>2. ASSUME NEW d \in Deliveries, PostFails(d) PROVE CallState'
    BY <1>2 DEF PostFails
<1>3. ASSUME NEW d \in Deliveries, LockExpires(d) PROVE CallState'
    BY <1>3 DEF LockExpires
<1>4. ASSUME NEW w \in Invocations, NEW d \in Deliveries, Load(w, d) PROVE CallState'
    BY <1>4 DEF Load
<1>5. ASSUME NEW w \in Invocations, Claim(w) PROVE CallState'
    BY <1>5 DEF Claim, InUse, Claimable
<1>6. ASSUME NEW w \in Invocations, ClaimRefused(w) PROVE CallState'
    BY <1>6 DEF ClaimRefused
<1>7. ASSUME NEW w \in Invocations, ReportRefusal(w) PROVE CallState'
    BY <1>7, LeaveCalls DEF ReportRefusal
<1>8. ASSUME NEW w \in Invocations, Reject(w) PROVE CallState'
  <2>1. EndItem(w) /\ cur[w] \in Deliveries /\ UNCHANGED history
      BY <1>8 DEF Reject
  <2>2. ASSUME OwnedByUs(w) PROVE CallState'
    <3>1. \/ cur[w] \in overwritten
          \/ /\ \A v \in Invocations : Calling(v) /\ cur[v] = cur[w] => v = w
             /\ accepted[cur[w]] = 0
        BY <1>8, <2>1, <2>2 DEF Reject
    <3>2. QED
        BY <1>8, <2>1, <2>2, <3>1, UnlockCalls DEF Reject, UnlockIf
  <2>3. ASSUME ~OwnedByUs(w) PROVE CallState'
    <3>1. UNCHANGED row
        BY <1>8, <2>3 DEF Reject, UnlockIf
    <3>2. QED
        BY <2>1, <3>1, LeaveCalls
  <2>4. QED
      BY <2>2, <2>3
<1>9. ASSUME NEW w \in Invocations, MarkInFlight(w) PROVE CallState'
    BY <1>9 DEF MarkInFlight
<1>10. ASSUME NEW w \in Invocations, ClaimLost(w) PROVE CallState'
    BY <1>10, LeaveCalls DEF ClaimLost
<1>11. ASSUME NEW w \in Invocations, ProviderAccepts(w) PROVE CallState'
    BY <1>11 DEF ProviderAccepts
<1>12. ASSUME NEW w \in Invocations, NEW x \in BOOLEAN, NEW took \in BOOLEAN, SendFails(w, x, took) PROVE CallState'
  <2>1. EndItem(w) /\ cur[w] \in Deliveries /\ UNCHANGED history
      BY <1>12 DEF SendFails
  <2>2. ASSUME OwnedInFlight(w) PROVE CallState'
    <3>1. \/ cur[w] \in overwritten
          \/ /\ \A v \in Invocations : Calling(v) /\ cur[v] = cur[w] => v = w
             /\ accepted[cur[w]] = 0
        BY <1>12, <2>1, <2>2 DEF SendFails
    <3>2. QED
        BY <1>12, <2>1, <2>2, <3>1, UnlockCalls DEF SendFails, UnlockIf
  <2>3. ASSUME ~OwnedInFlight(w) PROVE CallState'
    <3>1. UNCHANGED row
        BY <1>12, <2>3 DEF SendFails, UnlockIf
    <3>2. QED
        BY <2>1, <3>1, LeaveCalls
  <2>4. QED
      BY <2>2, <2>3
<1>13. ASSUME NEW w \in Invocations, RecordSent(w) PROVE CallState'
  <2>1. EndItem(w) /\ cur[w] \in Deliveries /\ UNCHANGED history
      BY <1>13 DEF RecordSent
  <2>2. ASSUME OwnedInFlight(w) PROVE CallState'
    <3>1. \/ cur[w] \in overwritten
          \/ /\ \A v \in Invocations : Calling(v) /\ cur[v] = cur[w] => v = w
             /\ accepted[cur[w]] = 1
        BY <1>13, <2>1, <2>2 DEF RecordSent
    <3>2. QED
        BY <1>13, <2>1, <2>2, <3>1, UnlockCalls DEF RecordSent, UnlockIf
  <2>3. ASSUME ~OwnedInFlight(w) PROVE CallState'
    <3>1. UNCHANGED row
        BY <1>13, <2>3 DEF RecordSent, UnlockIf
    <3>2. QED
        BY <2>1, <3>1, LeaveCalls
  <2>4. QED
      BY <2>2, <2>3
<1>14. ASSUME NEW w \in Invocations, NEW B \in SUBSET Transactional, SweepClaim(w, B) PROVE CallState'
    BY <1>14 DEF SweepClaim, InUse
<1>15. ASSUME NEW w \in Invocations, NEW d \in Deliveries, StartItem(w, d) PROVE CallState'
    BY <1>15 DEF StartItem
<1>16. ASSUME NEW w \in Invocations, NEW d \in Deliveries, SkipItem(w, d) PROVE CallState'
    BY <1>16 DEF SkipItem
<1>17. ASSUME NEW w \in Invocations, Release(w) PROVE CallState'
    BY <1>17 DEF Release
<1>18. ASSUME NEW w \in Invocations, DatabaseError(w) PROVE CallState'
    BY <1>18, LeaveCalls DEF DatabaseError
<1>19. ASSUME NEW w \in Invocations, Crash(w) PROVE CallState'
    BY <1>19 DEF Crash
<1>20. ASSUME NEW r \in Reconcilers, ReconcileRead(r) PROVE CallState'
    BY <1>20 DEF ReconcileRead
<1>21. ASSUME NEW r \in Reconcilers, NEW s \in snap[r], ReconcileInFlight(r, s) PROVE CallState'
  <2>1. s.id \in Deliveries
      OBVIOUS
  <2>2. CASE status[s.id] = "PROCESSING" /\ lockedBy[s.id] = s.lockedBy /\ sending[s.id]
      BY SMTT(30), <1>21, <2>1, <2>2 DEF ReconcileInFlight, UnlockIf, Unlock
  <2>3. CASE ~(status[s.id] = "PROCESSING" /\ lockedBy[s.id] = s.lockedBy /\ sending[s.id])
      BY <1>21, <2>3 DEF ReconcileInFlight, UnlockIf
  <2>4. QED
      BY <2>2, <2>3
<1>22. ASSUME NEW r \in Reconcilers, NEW s \in snap[r], ReconcileAbandoned(r, s) PROVE CallState'
  <2>1. s.id \in Deliveries
      OBVIOUS
  <2>2. CASE status[s.id] # "PROCESSING"
      BY <1>22, <2>2 DEF ReconcileAbandoned, UnlockIf
  <2>3. CASE status[s.id] = "PROCESSING" /\ s.id \in overwritten'
    <3>1. \A d \in Deliveries : d \notin overwritten' =>
            /\ d # s.id /\ d \notin overwritten
            /\ status'[d] = status[d] /\ lockedBy'[d] = lockedBy[d] /\ sending'[d] = sending[d]
        BY <1>22, <2>1, <2>3 DEF ReconcileAbandoned, UnlockIf, Unlock
    <3>2. UNCHANGED <<pc, cur, tok, accepted>>
        BY <1>22 DEF ReconcileAbandoned
    <3>3. CallMarked'
        BY SMTT(30), <3>1, <3>2
    <3>4. OneCaller'
        BY <3>1, <3>2
    <3>5. AcceptanceMarked'
        BY <3>1, <3>2
    <3>6. QED
        BY <3>3, <3>4, <3>5
  <2>4. CASE status[s.id] = "PROCESSING" /\ s.id \notin overwritten'
    <3>1. lockedBy[s.id] = s.lockedBy /\ ~sending[s.id]
        BY <1>22, <2>4 DEF ReconcileAbandoned
    <3>2. QED
        BY SMTT(30), <1>22, <2>1, <2>4, <3>1 DEF ReconcileAbandoned, UnlockIf, Unlock
  <2>5. QED
      BY <2>2, <2>3, <2>4
<1>23. ASSUME NEW r \in Reconcilers, ReconcileStops(r) PROVE CallState'
    BY <1>23 DEF ReconcileStops
<1>24. CASE UNCHANGED vars
    BY <1>24
<1> HIDE DEF CallState, CallMarked, OneCaller, AcceptanceMarked, Calling, Ownership, LockShape,
       LocalShape, TokensUnique, UnsentUnmarked, TypeOK, Statuses, Terminal, Phases, Snapshots,
       Owned, OwnedByUs, OwnedInFlight, vars, row, local, history, doubt
<1>25. QED
    BY <1>1, <1>3, <1>4, <1>5, <1>6, <1>7, <1>8, <1>9, <1>10, <1>11, <1>12, <1>13,
       <1>14, <1>15, <1>16, <1>17, <1>18, <1>19, <1>20, <1>21, <1>22, <1>23, <1>24, <1>2
       DEF Next, Execute, Sweep, ReconcileRow

-----------------------------------------------------------------------------
(* What stays as it is, and acceptances whose answer was lost.              *)

(* A closed row changes only by a blind write.                              *)
LEMMA ClosedStep ==
    ASSUME IInv, [Next]_vars, NEW d \in Deliveries, status[d] \in Terminal, status'[d] # status[d]
    PROVE  d \in overwritten'
<1> USE ConstantsOK DEF IInv, TypeOK, LockShape, LocalShape, Terminal, vars, row, local, history, doubt
<1>1. status[d] # "PROCESSING" /\ ~Claimable(d)
    BY DEF Claimable
<1>2. ASSUME NEW w \in Invocations, Release(w) PROVE d \in overwritten'
    BY <1>1, <1>2 DEF Release
<1>3. ASSUME NEW w \in Invocations, Claim(w) PROVE FALSE
    BY <1>1, <1>3 DEF Claim
<1>4. ASSUME NEW w \in Invocations, NEW B \in SUBSET Transactional, SweepClaim(w, B) PROVE FALSE
    BY <1>4 DEF SweepClaim
<1>5. ASSUME NEW e \in Deliveries, Enqueue(e) \/ Post(e) PROVE FALSE
    BY <1>5 DEF Enqueue, Post
<1>6. ASSUME NEW e \in Deliveries, PostFails(e) PROVE d \in overwritten'
    BY <1>6 DEF PostFails
<1>7. ASSUME NEW w \in Invocations, NEW s \in Statuses, UnlockIf(OwnedByUs(w), cur[w], s),
             pc[w] = "claimed"
      PROVE  FALSE
    BY <1>1, <1>7 DEF UnlockIf, Unlock, OwnedByUs, Owned
<1>8. ASSUME NEW w \in Invocations, NEW s \in Statuses, UnlockIf(OwnedInFlight(w), cur[w], s),
             pc[w] \in {"sending", "accepted"}
      PROVE  FALSE
    BY <1>1, <1>8 DEF UnlockIf, Unlock, OwnedInFlight
<1>9. ASSUME NEW r \in Reconcilers, NEW s \in snap[r], ReconcileInFlight(r, s) PROVE FALSE
    BY <1>1, <1>9 DEF ReconcileInFlight, UnlockIf, Unlock
<1>10. ASSUME NEW r \in Reconcilers, NEW s \in snap[r], ReconcileAbandoned(r, s) PROVE FALSE
    BY <1>10 DEF ReconcileAbandoned, UnlockIf, Unlock
<1>11. CASE UNCHANGED status
    BY <1>11
<1>12. ASSUME NEW w \in Invocations, Reject(w) \/ RecordSent(w) \/ \E x, took \in BOOLEAN : SendFails(w, x, took)
       PROVE  FALSE
    BY <1>7, <1>8, <1>12 DEF Reject, RecordSent, SendFails, Statuses
<1>13. QED
    BY <1>2, <1>3, <1>4, <1>5, <1>9, <1>10, <1>11, <1>12, <1>6
       DEF Next, Execute, Sweep, ReconcileRow, PostEnds, LockExpires, Load, ClaimRefused, ReportRefusal,
           MarkInFlight, ClaimLost, ProviderAccepts, StartItem, SkipItem, DatabaseError, Crash,
           ReconcileRead, ReconcileStops

(* An overwritten row stays one.                                            *)
LEMMA OverwrittenStays == [Next]_vars => overwritten \subseteq overwritten'
    BY DEF Next, Execute, Sweep, ReconcileRow, Enqueue, Post, PostEnds, PostFails, LockExpires, Load,
           Claim, ClaimRefused, ReportRefusal, Reject, MarkInFlight, ClaimLost, ProviderAccepts, SendFails,
           RecordSent, SweepClaim, StartItem, SkipItem, Release, DatabaseError, Crash, ReconcileRead,
           ReconcileInFlight, ReconcileAbandoned, ReconcileStops, vars, history

(* Invocations, sweeps and reconciliations: the steps that call nobody and  *)
(* are told nothing by a provider.                                          *)
Quiet ==
    /\ UNCHANGED <<accepted, hidden>>
    /\ \A w \in Invocations : Calling(w)' => Calling(w) /\ cur'[w] = cur[w]

LEMMA MostStepsAreQuiet ==
    ASSUME TypeOK, [Next]_vars
    PROVE  \/ Quiet
           \/ \E w \in Invocations : MarkInFlight(w) \/ ProviderAccepts(w)
           \/ \E w \in Invocations, x \in BOOLEAN : SendFails(w, x, TRUE)
<1> USE DEF TypeOK, Quiet, Calling, row, local, history, doubt
<1>1. CASE UNCHANGED <<pc, cur, accepted, hidden>>
    BY <1>1
<1>2. ASSUME NEW w \in Invocations, EndItem(w), UNCHANGED <<accepted, hidden>> PROVE Quiet
    BY <1>2 DEF EndItem
<1>3. ASSUME NEW w \in Invocations,
             \/ ReportRefusal(w) \/ Reject(w) \/ ClaimLost(w) \/ RecordSent(w) \/ DatabaseError(w)
             \/ \E x \in BOOLEAN : SendFails(w, x, FALSE)
      PROVE  Quiet
  <2>1. EndItem(w) /\ UNCHANGED <<accepted, hidden>>
    BY <1>3 DEF ReportRefusal, Reject, ClaimLost, RecordSent, DatabaseError, SendFails
  <2>2. QED
    BY <1>2, <2>1
<1>4. ASSUME NEW w \in Invocations, Claim(w) \/ ClaimRefused(w) \/ Release(w) \/ Crash(w) PROVE Quiet
    BY <1>4 DEF Claim, ClaimRefused, Release, Crash
<1>5. ASSUME NEW w \in Invocations, NEW d \in Deliveries, Load(w, d) \/ StartItem(w, d) \/ SkipItem(w, d)
      PROVE  Quiet
    BY <1>5 DEF Load, StartItem, SkipItem
<1>6. ASSUME NEW w \in Invocations, NEW B \in SUBSET Transactional, SweepClaim(w, B) PROVE Quiet
    BY <1>6 DEF SweepClaim
<1>7. ASSUME NEW d \in Deliveries,
             Enqueue(d) \/ Post(d) \/ PostEnds(d) \/ PostFails(d) \/ LockExpires(d)
      PROVE  UNCHANGED <<pc, cur, accepted, hidden>>
    BY <1>7 DEF Enqueue, Post, PostEnds, PostFails, LockExpires
<1>8. ASSUME NEW r \in Reconcilers, ReconcileRead(r) \/ ReconcileRow(r) \/ ReconcileStops(r)
      PROVE  UNCHANGED <<pc, cur, accepted, hidden>>
    BY <1>8 DEF ReconcileRead, ReconcileRow, ReconcileInFlight, ReconcileAbandoned, ReconcileStops
<1>9. UNCHANGED vars => UNCHANGED <<pc, cur, accepted, hidden>>
    BY DEF vars
<1> HIDE DEF TypeOK, Quiet, Calling, row, local, history, doubt
<1>10. QED
    BY <1>1, <1>3, <1>4, <1>5, <1>6, <1>7, <1>8, <1>9 DEF Next, Execute, Sweep

(* A row queued again after a hidden acceptance stays known as one.         *)
LEMMA UnclearStays == [Next]_vars => unclear \subseteq unclear'
    BY DEF Next, Execute, Sweep, ReconcileRow, Enqueue, Post, PostEnds, PostFails, LockExpires, Load,
           Claim, ClaimRefused, ReportRefusal, Reject, MarkInFlight, ClaimLost, ProviderAccepts, SendFails,
           RecordSent, SweepClaim, StartItem, SkipItem, Release, DatabaseError, Crash, ReconcileRead,
           ReconcileInFlight, ReconcileAbandoned, ReconcileStops, vars, doubt

(* Lost answers: a row that was taken behind a failure and is not queued    *)
(* again is closed, so no provider sees it again.                           *)
LEMMA HiddenStep ==
    ASSUME IInv, TypeOK', [Next]_vars
    PROVE  HiddenIsClosed'
<1> SUFFICES ASSUME NEW d \in Deliveries, d \notin overwritten', d \notin unclear'
             PROVE  HiddenIsClosed!(d)'
    BY DEF HiddenIsClosed
<1> USE DEF IInv
<1>1. d \notin overwritten /\ d \notin unclear
    BY OverwrittenStays, UnclearStays
<1>2. HiddenIsClosed!(d)
    BY <1>1 DEF HiddenIsClosed
<1>3. hidden[d] = 1 => status'[d] = status[d]
    BY <1>2, ClosedStep DEF Terminal
<1>4. CASE Quiet
    BY <1>2, <1>3, <1>4 DEF Quiet
<1>5. ASSUME NEW w \in Invocations, MarkInFlight(w) PROVE HiddenIsClosed!(d)'
  <2>1. hidden[d] = 1 => cur[w] # d
    BY <1>2, <1>5 DEF MarkInFlight, OwnedByUs, Owned
  <2>2. \A v \in Invocations : Calling(v)' /\ v # w => Calling(v) /\ cur'[v] = cur[v]
    BY <1>5 DEF MarkInFlight, Calling, TypeOK
  <2>3. QED
    BY <1>2, <1>3, <1>5, <2>1, <2>2 DEF MarkInFlight, doubt
<1>6. ASSUME NEW w \in Invocations, ProviderAccepts(w) PROVE HiddenIsClosed!(d)'
  <2>1. hidden[d] = 1 => cur[w] # d /\ accepted'[d] = accepted[d]
    BY <1>2, <1>6 DEF ProviderAccepts, Calling, TypeOK
  <2>2. \A v \in Invocations : Calling(v)' => Calling(v) /\ cur'[v] = cur[v]
    BY <1>6 DEF ProviderAccepts, Calling, TypeOK
  <2>3. QED
    BY <1>2, <1>3, <1>6, <2>1, <2>2 DEF ProviderAccepts, doubt
<1>7. ASSUME NEW w \in Invocations, NEW x \in BOOLEAN, SendFails(w, x, TRUE)
      PROVE  HiddenIsClosed!(d)'
  <2>1. Calling(w) /\ EndItem(w) /\ UNCHANGED accepted
    BY <1>7 DEF SendFails, Calling, history
  <2>2. \A v \in Invocations : Calling(v)' => v # w /\ Calling(v) /\ cur'[v] = cur[v]
    BY <2>1 DEF EndItem, Calling, TypeOK
  <2>3. CASE cur[w] # d
    <3>1. hidden'[d] = hidden[d]
      BY <1>7, <2>3 DEF SendFails, TypeOK
    <3>2. QED
      BY <1>2, <1>3, <2>1, <2>2, <3>1
  <2>4. CASE cur[w] = d
    <3>1. hidden[d] = 0 /\ hidden'[d] = 1
      BY <1>2, <1>7, <2>1, <2>4 DEF SendFails, TypeOK
    <3>2. accepted'[d] = 0
      BY <1>1, <1>7, <2>1, <2>4 DEF SendFails, AcceptanceMarked
    <3>3. \A v \in Invocations : cur'[v] = d => ~Calling(v)'
      BY <1>1, <2>1, <2>2, <2>4 DEF OneCaller
    <3>4. CASE OwnedInFlight(w)
      <4>1. ~MayTryAgain(w, x)
        BY <1>7, <2>4, <3>4 DEF SendFails
      <4>2. status'[d] = "FAILED"
        BY <1>7, <2>4, <3>4, <4>1 DEF SendFails, UnlockIf, Unlock, TypeOK
      <4>3. QED
        BY <3>1, <3>2, <3>3, <4>2
    <3>5. CASE ~OwnedInFlight(w)
      <4>1. status[d] = "UNKNOWN"
        BY <1>1, <2>1, <2>4, <3>5 DEF CallMarked
      <4>2. status'[d] = status[d]
        BY <1>7, <3>5 DEF SendFails, UnlockIf
      <4>3. QED
        BY <3>1, <3>2, <3>3, <4>1, <4>2
    <3>6. QED
      BY <3>4, <3>5
  <2>5. QED
    BY <2>3, <2>4
<1>8. QED
    BY <1>4, <1>5, <1>6, <1>7, MostStepsAreQuiet

-----------------------------------------------------------------------------
(* The invariant, and the properties it implies.                            *)

(* The empty table satisfies the invariant.                                 *)
LEMMA InitInvariant == Init => IInv
    BY ConstantsOK
       DEF Init, IInv, TypeOK, LockShape, LocalShape, TokensUnique, UnsentUnmarked, CallMarked,
           OneCaller, AcceptanceMarked, HiddenIsClosed, Calling, Statuses, Terminal, Phases, Snapshots

(* The invariant is inductive: its layers, each from those before it.       *)
LEMMA StepInvariant == IInv /\ [Next]_vars => IInv'
    BY TypeStep, OwnershipStep, CallStep, HiddenStep DEF IInv, Ownership, CallState

(* The columns and local variables keep their types.                        *)
THEOREM TypeCorrect == Spec => []TypeOK
<1>1. Init => TypeOK
    BY InitInvariant DEF IInv
<1>2. QED
    BY <1>1, TypeStep, PTL DEF Spec

(* The inductive invariant: locks, tokens, markers and acceptances agree in *)
(* every reachable state.                                                   *)
THEOREM InvariantHolds == Spec => []IInv
    BY InitInvariant, StepInvariant, PTL DEF Spec

(* No provider accepts a delivery twice, answered or not, unless an answer  *)
(* was lost and the send was tried again, or a blind write replaced a lock. *)
THEOREM AtMostOnce == Spec => []AcceptedAtMostOnce
<1>1. IInv => AcceptedAtMostOnce
    BY DEF IInv, AcceptanceMarked, HiddenIsClosed, AcceptedAtMostOnce
<1>2. QED
    BY <1>1, InvariantHolds, PTL

(* A provider call excludes every other call and every claim of its row.    *)
THEOREM CallsExclude == Spec => []CallIsExclusive
<1>1. IInv => CallIsExclusive
  <2> SUFFICES ASSUME IInv, NEW w \in Invocations, Calling(w), cur[w] \notin overwritten
               PROVE  /\ ~Claimable(cur[w])
                      /\ \A v \in Invocations : Calling(v) /\ cur[v] = cur[w] => v = w
      BY DEF CallIsExclusive
  <2>1. cur[w] \in Deliveries /\ tok[w] # Null
      BY DEF IInv, TypeOK, LocalShape, Calling
  <2>2. OwnedInFlight(w) => ~Claimable(cur[w])
      BY <2>1 DEF IInv, LockShape, OwnedInFlight, Claimable
  <2>3. status[cur[w]] = "UNKNOWN" => ~Claimable(cur[w])
      BY DEF Claimable
  <2>4. ~Claimable(cur[w])
      BY <2>2, <2>3 DEF IInv, CallMarked
  <2>5. QED
      BY <2>4 DEF IInv, OneCaller
<1>2. QED
    BY <1>1, InvariantHolds, PTL

(* SENT and FAILED are final unless a blind write ignored a claim.          *)
THEOREM Closed == Spec => ClosedStaysClosed
<1>1. IInv /\ [Next]_vars =>
        [\A d \in Deliveries : status[d] \in Terminal /\ status'[d] # status[d]
                                  => d \in overwritten']_vars
    BY ClosedStep
<1>2. QED
    BY <1>1, InvariantHolds, PTL DEF Spec, ClosedStaysClosed

-----------------------------------------------------------------------------
(* The promise: every step moves every row as SendPromise says.             *)

RowMoves(d, from, to) ==
    status[d] \in from /\ status'[d] \in to /\ accepted'[d] = accepted[d]

RowStep(d) ==
    \/ status'[d] = status[d] /\ accepted'[d] = accepted[d]
    \/ RowMoves(d, {"NONE"}, {"QUEUED", "FAILED"})
    \/ RowMoves(d, {"QUEUED"}, {"PROCESSING", "FAILED"})
    \/ RowMoves(d, {"PROCESSING"}, {"QUEUED"} \cup Terminal)
    \/ /\ status[d] \in {"PROCESSING", "UNKNOWN"} /\ status'[d] = status[d]
       /\ accepted[d] = 0 /\ accepted'[d] = 1

(* A guarded write closes or requeues a row that is being worked on.        *)
LEMMA UnlockMoves ==
    ASSUME TypeOK, NEW e \in Deliveries, NEW s \in {"QUEUED"} \cup Terminal, NEW owned,
           owned => status[e] = "PROCESSING", UnlockIf(owned, e, s), UNCHANGED accepted,
           NEW d \in Deliveries
    PROVE  RowStep(d)
    BY DEF UnlockIf, Unlock, RowStep, RowMoves, TypeOK

(* What each statement and each provider call does to a row whose lock no   *)
(* blind write has replaced.                                                *)
LEMMA RowsMove ==
    ASSUME IInv, [Next]_vars, NEW d \in Deliveries, d \notin overwritten'
    PROVE  RowStep(d)
<1> USE ConstantsOK DEF IInv, TypeOK, history
<1>1. CASE UNCHANGED <<status, accepted>>
    BY <1>1 DEF RowStep
<1>2. ASSUME NEW e \in Deliveries, Enqueue(e) \/ Post(e) \/ PostFails(e) PROVE RowStep(d)
    BY <1>2 DEF Enqueue, Post, PostFails, RowStep, RowMoves
<1>3. ASSUME NEW w \in Invocations, Claim(w) PROVE RowStep(d)
    BY <1>3 DEF Claim, Claimable, RowStep, RowMoves
<1>4. ASSUME NEW w \in Invocations, NEW B \in SUBSET Transactional, SweepClaim(w, B)
      PROVE  RowStep(d)
    BY <1>4 DEF SweepClaim, RowStep, RowMoves
<1>5. ASSUME NEW w \in Invocations, Release(w) PROVE RowStep(d)
  <2>1. d \in batch[w] => status[d] = "QUEUED" \/ lockedBy[d] = tok[w]
      BY <1>5 DEF Release
  <2>2. d \in batch[w] => tok[w] # Null
      BY DEF LocalShape
  <2>3. d \in batch[w] => status[d] \in {"QUEUED", "PROCESSING"}
      BY <2>1, <2>2, <1>5 DEF LockShape, Release
  <2>4. QED
      BY <2>3, <1>5 DEF Release, RowStep, RowMoves
<1>6. ASSUME NEW w \in Invocations,
             Reject(w) \/ RecordSent(w) \/ \E x, took \in BOOLEAN : SendFails(w, x, took)
      PROVE  RowStep(d)
  <2>1. cur[w] \in Deliveries /\ UNCHANGED accepted
      BY <1>6 DEF Reject, RecordSent, SendFails
  <2>2. PICK s \in {"QUEUED"} \cup Terminal, owned \in {OwnedByUs(w), OwnedInFlight(w)} :
            UnlockIf(owned, cur[w], s)
      BY <1>6 DEF Reject, RecordSent, SendFails, Terminal
  <2>3. owned => status[cur[w]] = "PROCESSING"
      BY DEF OwnedByUs, Owned, OwnedInFlight
  <2>4. QED
      BY <2>1, <2>2, <2>3, UnlockMoves
<1>7. ASSUME NEW w \in Invocations, ProviderAccepts(w) PROVE RowStep(d)
  <2>1. CASE cur[w] = d
    <3>1. accepted[d] = 0
        BY <2>1, <1>7 DEF ProviderAccepts, AcceptanceMarked
    <3>2. status[d] \in {"PROCESSING", "UNKNOWN"}
        BY <2>1, <1>7 DEF ProviderAccepts, CallMarked, Calling, OwnedInFlight
    <3>3. QED
        BY <2>1, <3>1, <3>2, <1>7 DEF ProviderAccepts, RowStep, row
  <2>2. CASE cur[w] # d
      BY <2>2, <1>7 DEF ProviderAccepts, RowStep, row
  <2>3. QED
      BY <2>1, <2>2
<1>8. ASSUME NEW r \in Reconcilers, NEW s \in snap[r],
             ReconcileInFlight(r, s) \/ ReconcileAbandoned(r, s)
      PROVE  RowStep(d)
  <2>1. s \in Snapshots
      OBVIOUS
  <2>2. s.id \in Deliveries
      BY <2>1 DEF Snapshots
  <2>3. CASE ReconcileInFlight(r, s)
      BY <2>2, <2>3, UnlockMoves DEF ReconcileInFlight, Terminal
  <2>4. CASE ReconcileAbandoned(r, s)
      BY <2>2, <2>4, UnlockMoves DEF ReconcileAbandoned, Terminal
  <2>5. QED
      BY <1>8, <2>3, <2>4
<1>9. QED
    BY <1>1, <1>2, <1>3, <1>4, <1>5, <1>6, <1>7, <1>8
       DEF Next, Execute, Sweep, ReconcileRow, PostEnds, LockExpires, Load, ClaimRefused,
           ReportRefusal, MarkInFlight, ClaimLost, StartItem, SkipItem, DatabaseError, Crash,
           ReconcileRead, ReconcileStops, vars, row

(* What the records say of a row before and after a step makes its step one *)
(* of the promise.                                                          *)
LEMMA RowStepIsMailStep ==
    ASSUME IInv, IInv', NEW d \in Deliveries \ overwritten', d \notin overwritten, RowStep(d)
    PROVE  Promise!MailStep(d)
<1>1. /\ status[d] \in Statuses /\ status'[d] \in Statuses
      /\ accepted[d] \in {0, 1} /\ accepted'[d] \in {0, 1}
    BY DEF IInv, TypeOK, AcceptanceMarked
<1>2. /\ status[d] \in {"NONE", "QUEUED", "FAILED"} => accepted[d] = 0
      /\ status'[d] \in {"NONE", "QUEUED", "FAILED"} => accepted'[d] = 0
      /\ status'[d] = "SENT" => accepted'[d] = 1
    BY <1>1 DEF IInv, LockShape, AcceptanceMarked
<1> DEFINE Says(s) == CASE s = "NONE"       -> "none"
                        [] s = "QUEUED"     -> "queued"
                        [] s = "PROCESSING" -> "working"
                        [] s = "SENT"       -> "sent"
                        [] s = "FAILED"     -> "failed"
                        [] s = "UNKNOWN"    -> "unknown"
<1>3. Outcome[d] = Says(status[d]) /\ Outcome'[d] = Says(status'[d])
    BY DEF Outcome
<1>4. QED
    BY <1>1, <1>2, <1>3
       DEF RowStep, RowMoves, Promise!MailStep, Promise!Queue, Promise!Start, Promise!PutBack,
           Promise!Accept, Promise!GiveUp, Promise!LoseSight, Promise!Confirm, Promise!Stay,
           Promise!Goes, Promise!Untaken, Promise!Taken, Statuses, Terminal

(* Every step of invocations, sweeps, requests and reconciliations is a     *)
(* step of the promise.                                                     *)
LEMMA StepIsPromised ==
    IInv /\ IInv' /\ [Next]_vars => [Promise!PromiseNext]_(Promise!promiseVars)
<1> SUFFICES ASSUME IInv, IInv', [Next]_vars PROVE Promise!PromiseNext
    OBVIOUS
<1>1. overwritten \subseteq overwritten'
    BY OverwrittenStays
<1>2. ASSUME NEW d \in Deliveries \ overwritten' PROVE Promise!MailStep(d)
    BY <1>1, <1>2, RowsMove, RowStepIsMailStep
<1>3. QED
    BY <1>1, <1>2 DEF Promise!PromiseNext

(* EmailDelivery implements SendPromise: whatever dies, stalls or is swept, *)
(* a row goes from queued to sent, failed or unknown and is accepted at     *)
(* most once, but for a blind write.                                        *)
THEOREM SendsKeepThePromise == Spec => SendsAsPromised
<1>1. Init => Promise!PromiseInit
    BY DEF Init, Promise!PromiseInit, Outcome
<1>2. QED
    BY <1>1, StepIsPromised, InvariantHolds, PTL DEF Spec, SendsAsPromised, Promise!PromiseSpec

(* Whoever relies on the promise may believe the records: queued and failed *)
(* mails were not accepted, sent ones were, once.                           *)
THEOREM PromiseMeansTruth == SendsAsPromised => []Promise!RecordsAreTrue
<1> USE DEF Promise!RecordsAreTrue
<1>1. Promise!PromiseInit => Promise!RecordsAreTrue
    BY DEF Promise!PromiseInit
<1>2. Promise!RecordsAreTrue /\ [Promise!PromiseNext]_(Promise!promiseVars)
        => Promise!RecordsAreTrue'
    BY DEF Promise!PromiseNext, Promise!promiseVars, Promise!MailStep, Promise!Queue,
           Promise!Start, Promise!PutBack, Promise!Accept, Promise!GiveUp, Promise!LoseSight,
           Promise!Confirm, Promise!Stay, Promise!Goes, Promise!Untaken, Promise!Taken
<1>3. QED
    BY <1>1, <1>2, PTL DEF SendsAsPromised, Promise!PromiseSpec

-----------------------------------------------------------------------------
(* Attempts pay for calls.                                                  *)

(* Per row: pending claims only leave; or one comes with an attempt of its  *)
(* own; or one leaves and takes back its attempt or turns it into a call.   *)
Settled(d) ==
    /\ Pending(d)' \subseteq Pending(d)
    /\ calls'[d] = calls[d] /\ attempts'[d] = attempts[d]
Claimed(w, d) ==
    /\ Pending(d)' \subseteq Pending(d) \cup {w}
    /\ calls'[d] = calls[d] /\ attempts'[d] = attempts[d] + 1
Spent(w, d) ==
    /\ w \in Pending(d)
    /\ Pending(d)' \subseteq Pending(d) \ {w}
    /\ \/ calls'[d] = calls[d] + 1 /\ attempts'[d] = attempts[d]
       \/ calls'[d] = calls[d] /\ attempts'[d] = attempts[d] - 1

LEMMA CoverKept ==
    ASSUME IsFiniteSet(Invocations), TypeOK, TypeOK', AttemptsCover,
           \A d \in Deliveries :
              Settled(d) \/ \E w \in Invocations : Claimed(w, d) \/ Spent(w, d)
    PROVE  AttemptsCover'
<1> SUFFICES ASSUME NEW d \in Deliveries
             PROVE  calls'[d] + Cardinality(Pending(d)') <= attempts'[d]
    BY DEF AttemptsCover
<1>1. /\ IsFiniteSet(Pending(d)) /\ Cardinality(Pending(d)) \in Nat
      /\ IsFiniteSet(Pending(d)') /\ Cardinality(Pending(d)') \in Nat
  <2>1. Pending(d) \subseteq Invocations /\ Pending(d)' \subseteq Invocations
    BY DEF Pending
  <2>2. QED
    BY <2>1, FS_Subset, FS_CardinalityType
<1>2. /\ calls[d] \in Nat /\ calls'[d] \in Nat /\ attempts[d] \in Int /\ attempts'[d] \in Int
      /\ calls[d] + Cardinality(Pending(d)) <= attempts[d]
    BY DEF TypeOK, AttemptsCover
<1>3. CASE Settled(d)
  <2>1. Cardinality(Pending(d)') <= Cardinality(Pending(d))
    BY <1>1, <1>3, FS_Subset DEF Settled
  <2>2. QED
    BY <1>1, <1>2, <1>3, <2>1 DEF Settled
<1>4. ASSUME NEW w \in Invocations, Claimed(w, d)
      PROVE  calls'[d] + Cardinality(Pending(d)') <= attempts'[d]
  <2>1. /\ IsFiniteSet(Pending(d) \cup {w})
        /\ Cardinality(Pending(d) \cup {w}) \in {Cardinality(Pending(d)), Cardinality(Pending(d)) + 1}
    BY <1>1, FS_AddElement
  <2>2. Cardinality(Pending(d)') <= Cardinality(Pending(d) \cup {w})
    BY <1>4, <2>1, FS_Subset DEF Claimed
  <2>3. QED
    BY <1>1, <1>2, <1>4, <2>1, <2>2 DEF Claimed
<1>5. ASSUME NEW w \in Invocations, Spent(w, d)
      PROVE  calls'[d] + Cardinality(Pending(d)') <= attempts'[d]
  <2>1. /\ IsFiniteSet(Pending(d) \ {w})
        /\ Cardinality(Pending(d) \ {w}) = Cardinality(Pending(d)) - 1
    BY <1>1, <1>5, FS_RemoveElement DEF Spent
  <2>2. Cardinality(Pending(d)') <= Cardinality(Pending(d) \ {w})
    BY <1>5, <2>1, FS_Subset DEF Spent
  <2>3. QED
    BY <1>1, <1>2, <1>5, <2>1, <2>2 DEF Spent
<1>6. QED
    BY <1>3, <1>4, <1>5

(* Every step spends, takes or settles the claims of each row.              *)
LEMMA CoverStep ==
    ASSUME IsFiniteSet(Invocations), TypeOK, TypeOK', LocalShape, AttemptsCover, [Next]_vars
    PROVE  AttemptsCover'
<1> USE DEF TypeOK, LocalShape, Pending, Settled, Claimed, Spent, vars, row, local, history, doubt
<1> DEFINE Fine == \A d \in Deliveries :
              Settled(d) \/ \E w \in Invocations : Claimed(w, d) \/ Spent(w, d)
<1>1. ASSUME NEW d \in Deliveries,
             Enqueue(d) \/ Post(d) \/ PostEnds(d) \/ PostFails(d) \/ LockExpires(d)
      PROVE  Fine
    BY <1>1 DEF Enqueue, Post, PostEnds, PostFails, LockExpires
<1>2. ASSUME NEW w \in Invocations, NEW d \in Deliveries, Load(w, d) PROVE Fine
    BY <1>2 DEF Load
<1>3. ASSUME NEW w \in Invocations, Claim(w) PROVE Fine
  <2>1. ASSUME NEW d \in Deliveries PROVE IF d = cur[w] THEN Claimed(w, d) ELSE Settled(d)
    BY <1>3 DEF Claim
  <2>2. QED
    BY <2>1
<1>4. ASSUME NEW w \in Invocations, ClaimRefused(w) PROVE Fine
    BY <1>4 DEF ClaimRefused
<1>5. ASSUME NEW w \in Invocations, EndItem(w), UNCHANGED <<attempts, calls>> PROVE Fine
    BY <1>5 DEF EndItem
<1>6. ASSUME NEW w \in Invocations,
             \/ ReportRefusal(w) \/ Reject(w) \/ ClaimLost(w) \/ RecordSent(w)
             \/ DatabaseError(w) \/ \E x, took \in BOOLEAN : SendFails(w, x, took)
      PROVE  Fine
  <2>1. EndItem(w) /\ UNCHANGED <<attempts, calls>>
    BY <1>6 DEF ReportRefusal, Reject, ClaimLost, RecordSent, DatabaseError, SendFails, UnlockIf
  <2>2. QED
    BY <1>5, <2>1
<1>7. ASSUME NEW w \in Invocations, MarkInFlight(w) PROVE Fine
  <2>1. cur[w] \notin batch[w]
    OBVIOUS
  <2>2. ASSUME NEW d \in Deliveries PROVE IF d = cur[w] THEN Spent(w, d) ELSE Settled(d)
    BY <1>7, <2>1 DEF MarkInFlight
  <2>3. QED
    BY <2>2
<1>8. ASSUME NEW w \in Invocations, ProviderAccepts(w) \/ Crash(w) PROVE Fine
  <2>1. UNCHANGED <<calls, attempts>>
    BY <1>8 DEF ProviderAccepts, Crash
  <2>2. \A d \in Deliveries : Pending(d)' \subseteq Pending(d)
    BY <1>8 DEF ProviderAccepts, Crash
  <2>3. QED
    BY <2>1, <2>2
<1>9. ASSUME NEW w \in Invocations, NEW B \in SUBSET Transactional, SweepClaim(w, B) PROVE Fine
  <2>1. ASSUME NEW d \in Deliveries PROVE IF d \in B THEN Claimed(w, d) ELSE Settled(d)
    BY <1>9 DEF SweepClaim
  <2>2. QED
    BY <2>1
<1>10. ASSUME NEW w \in Invocations, NEW d \in Deliveries, StartItem(w, d) \/ SkipItem(w, d)
       PROVE  Fine
    BY <1>10 DEF StartItem, SkipItem
<1>11. ASSUME NEW w \in Invocations, Release(w) PROVE Fine
  <2>1. ASSUME NEW d \in Deliveries PROVE IF d \in batch[w] THEN Spent(w, d) ELSE Settled(d)
    BY <1>11 DEF Release
  <2>2. QED
    BY <2>1
<1>12. ASSUME NEW r \in Reconcilers, ReconcileRead(r) \/ ReconcileRow(r) \/ ReconcileStops(r)
       PROVE  Fine
    BY <1>12 DEF ReconcileRead, ReconcileRow, ReconcileInFlight, ReconcileAbandoned, ReconcileStops,
       UnlockIf
<1>13. ASSUME UNCHANGED vars PROVE Fine
    BY <1>13
<1> HIDE DEF Fine, TypeOK, LocalShape, Pending, Settled, Claimed, Spent, vars, row, local, history, doubt
<1>14. Fine
    BY <1>1, <1>2, <1>3, <1>4, <1>6, <1>7, <1>8, <1>9, <1>10, <1>11, <1>12, <1>13
       DEF Next, Execute, Sweep
<1>15. QED
    BY <1>14, CoverKept DEF Fine

(* No call without an attempt: the releases at the deadline give back only  *)
(* attempts that were not spent (serverless-job-processor.ts:413-421),      *)
(* overwritten locks included.                                              *)
THEOREM CallsPaid ==
    ASSUME IsFiniteSet(Invocations)
    PROVE  Spec => []CallsWithinAttempts
<1>1. Init => AttemptsCover
  <2>1. ASSUME Init, NEW d \in Deliveries PROVE Pending(d) = {}
    BY <2>1 DEF Init, Pending
  <2>2. Cardinality({}) = 0
    BY FS_EmptySet
  <2>3. Init => \A d \in Deliveries : calls[d] = 0 /\ attempts[d] = 0
    BY DEF Init
  <2>4. QED
    BY <2>1, <2>2, <2>3 DEF AttemptsCover
<1>2. IInv /\ IInv' /\ AttemptsCover /\ [Next]_vars => AttemptsCover'
    BY CoverStep DEF IInv
<1>3. IInv /\ AttemptsCover => CallsWithinAttempts
  <2> SUFFICES ASSUME IInv, AttemptsCover, NEW d \in Deliveries PROVE calls[d] <= attempts[d]
    BY DEF CallsWithinAttempts
  <2>1. Cardinality(Pending(d)) \in Nat
    BY FS_Subset, FS_CardinalityType DEF Pending
  <2>2. QED
    BY <2>1 DEF IInv, TypeOK, AttemptsCover
<1>4. QED
    BY <1>1, <1>2, <1>3, InvariantHolds, PTL DEF Spec

-----------------------------------------------------------------------------
(* The job queue of the pipeline.                                           *)
JP == INSTANCE BackgroundJobsProofs WITH Jobs <- Deliveries, Tokens <- JobTokens

(* The constants of the instance satisfy its assumption.                    *)
LEMMA InstanceConstantsOK == JP!JobConstantsOK
    BY ConstantsOK, PipelineConstantsOK DEF JP!JobConstantsOK

-----------------------------------------------------------------------------
(* The jobs of the pipeline are jobs of BackgroundJobs.                     *)

(* Both tables start empty.                                                 *)
LEMMA InitIsJobInit == PipelineInit => JP!JobInit
    BY DEF PipelineInit, J!JobInit, JP!JobInit

(* What the pipeline does to a job is a step of the job queue.              *)
LEMMA JobActions ==
    /\ \A d \in Deliveries : J!AddJob(d) \/ J!JobLockExpires(d) => JP!JobStep
    /\ \A w \in Invocations : \A B \in SUBSET Deliveries : J!ClaimJobs(w, B) => JP!JobStep
    /\ \A w \in Invocations, d \in Deliveries : J!StartJob(w, d) => JP!JobStep
    /\ \A w \in Invocations, result \in {"done", "yield", "retry", "permanent"} :
          J!Return(w, result) => JP!JobStep
    /\ \A w \in Invocations :
          J!ReleaseJobs(w) \/ J!Record(w) \/ J!RecordingFails(w) \/ J!JobCrash(w) => JP!JobStep
    /\ \A r \in Reconcilers :
          /\ J!ReconcileReadJobs(r) \/ J!ReconcileJobsStop(r) => JP!JobStep
          /\ \A s \in jsnap[r] : J!ReconcileJob(r, s) => JP!JobStep
<1> USE DEF JP!JobStep
<1>1. \A d \in Deliveries : J!AddJob(d) \/ J!JobLockExpires(d) => JP!JobStep
    BY DEF J!AddJob, JP!AddJob, J!JobLockExpires, JP!JobLockExpires, J!jlocal, JP!jlocal,
       J!jhistory, JP!jhistory
<1>2. \A w \in Invocations : \A B \in SUBSET Deliveries : J!ClaimJobs(w, B) => JP!JobStep
  <2>1. ASSUME NEW w \in Invocations, NEW B \in SUBSET Deliveries, J!ClaimJobs(w, B)
        PROVE  JP!ClaimJobs(w, B)
    <3>1. \A d \in B : JP!Ready(d)
      BY <2>1 DEF J!ClaimJobs, J!Ready, JP!Ready
    <3>2. \A t \in JobTokens : J!JobTokenInUse(t) <=> JP!JobTokenInUse(t)
      BY DEF J!JobTokenInUse, JP!JobTokenInUse
    <3> HIDE DEF JP!JobStep
    <3>3. QED
      BY <2>1, <3>1, <3>2 DEF J!ClaimJobs, JP!ClaimJobs, J!jhistory, JP!jhistory
  <2>2. QED
    BY <2>1
<1>3. \A w \in Invocations, d \in Deliveries : J!StartJob(w, d) => JP!JobStep
    BY DEF J!StartJob, JP!StartJob, J!jrow, JP!jrow, J!jhistory, JP!jhistory
<1>4. \A w \in Invocations, result \in {"done", "yield", "retry", "permanent"} :
          J!Return(w, result) => JP!JobStep
    BY DEF J!Return, JP!Return, J!jrow, JP!jrow, JP!Results
<1>5. \A w \in Invocations :
          J!ReleaseJobs(w) \/ J!RecordingFails(w) \/ J!JobCrash(w) => JP!JobStep
    BY DEF J!ReleaseJobs, JP!ReleaseJobs, J!RecordingFails, JP!RecordingFails, J!JobCrash,
       JP!JobCrash, J!jrow, JP!jrow, J!jhistory, JP!jhistory
<1>6. \A w \in Invocations : J!Record(w) => JP!JobStep
    BY DEF J!Record, JP!Record, J!RecordYield, JP!RecordYield, J!RecordDone, JP!RecordDone,
       J!RecordError, JP!RecordError, J!OwnsJob, JP!OwnsJob, J!ReachesMax, JP!ReachesMax,
       J!GiveUp, JP!GiveUp, J!NextJob, JP!NextJob, J!jrow, JP!jrow, J!jhistory, JP!jhistory
<1>7. \A r \in Reconcilers :
          /\ J!ReconcileReadJobs(r) \/ J!ReconcileJobsStop(r) => JP!JobStep
          /\ \A s \in jsnap[r] : J!ReconcileJob(r, s) => JP!JobStep
    BY DEF J!ReconcileReadJobs, JP!ReconcileReadJobs, J!StaleJobs, JP!StaleJobs,
       J!ReconcileJobsStop, JP!ReconcileJobsStop, J!ReconcileJob, JP!ReconcileJob,
       J!GiveUp, JP!GiveUp, J!ReachesMax, JP!ReachesMax, J!Relies, JP!Relies,
       J!jrow, JP!jrow, J!jlocal, JP!jlocal, J!jhistory, JP!jhistory
<1> HIDE DEF JP!JobStep
<1>8. QED
    BY <1>1, <1>2, <1>3, <1>4, <1>5, <1>6, <1>7

(* Every step of the pipeline is a step of the job queue or none.           *)
LEMMA StepIsJobStep == [PipelineNext]_pipelineVars => [JP!JobStep]_(JP!jvars)
<1> SUFFICES ASSUME [PipelineNext]_pipelineVars PROVE [JP!JobStep]_(JP!jvars)
    OBVIOUS
<1>1. UNCHANGED jobVars => UNCHANGED JP!jvars
    BY DEF jobVars, JP!jvars, JP!jrow, JP!jlocal, JP!jhistory
<1>2. ASSUME NEW d \in Deliveries,
             \/ Dispatch(d) \/ PostDelivery(d) \/ PostJob(d) \/ PostKilled(d) \/ PostRefused(d)
             \/ ClockStep(d)
      PROVE  [JP!JobStep]_(JP!jvars)
    BY <1>1, <1>2, JobActions DEF Dispatch, PostDelivery, PostJob, PostKilled, PostRefused, ClockStep
<1>3. ASSUME NEW w \in Invocations, NEW B \in SUBSET Deliveries, ClaimPending(w, B)
      PROVE  [JP!JobStep]_(JP!jvars)
    BY <1>3, JobActions DEF ClaimPending
<1>4. ASSUME NEW w \in Invocations, NEW d \in Deliveries, BeginJob(w, d)
      PROVE  [JP!JobStep]_(JP!jvars)
    BY <1>4, JobActions DEF BeginJob
<1>5. ASSUME NEW w \in Invocations, LoadForJob(w) \/ EndUnclaimed(w)
      PROVE  [JP!JobStep]_(JP!jvars)
    BY <1>1, <1>5, JobActions DEF LoadForJob, EndUnclaimed
<1>6. ASSUME NEW w \in Invocations, ExecuteStep(w) PROVE [JP!JobStep]_(JP!jvars)
  <2>1. \A result \in {"done", "yield", "retry", "permanent"} :
           EndsWith(w, result) => [JP!JobStep]_(JP!jvars)
    BY <1>1, JobActions DEF EndsWith
  <2>2. RefusalResult(w) \in {"done", "yield"}
    BY DEF RefusalResult
  <2>3. \A retryable \in BOOLEAN : FailureResult(w, retryable) \in {"retry", "permanent"}
    BY DEF FailureResult
  <2>4. UNCHANGED jobVars \/ \E result \in {"done", "yield", "retry", "permanent"} :
                               EndsWith(w, result)
    BY <1>6, <2>2, <2>3 DEF ExecuteStep
  <2>5. QED
    BY <1>1, <2>1, <2>4
<1>7. ASSUME NEW w \in Invocations, FinishJob(w) \/ SweepStep(w) \/ CrashStep(w)
      PROVE  [JP!JobStep]_(JP!jvars)
    BY <1>1, <1>7, JobActions DEF FinishJob, SweepStep, CrashStep
<1>8. ASSUME NEW r \in Reconcilers, DeliverySide(r) \/ JobSide(r) PROVE [JP!JobStep]_(JP!jvars)
    BY <1>1, <1>8, JobActions DEF DeliverySide, JobSide
<1>9. CASE UNCHANGED pipelineVars
    BY <1>1, <1>9 DEF pipelineVars
<1>10. QED
    BY <1>2, <1>3, <1>4, <1>5, <1>6, <1>7, <1>8, <1>9 DEF PipelineNext

(* The pipeline implements the job queue.                                   *)
THEOREM PipelineIsJobQueue == PipelineSpec => JP!JobSpec
<1>1. [PipelineNext]_pipelineVars => [JP!JobNext]_(JP!jvars)
    BY StepIsJobStep DEF JP!JobNext
<1>2. QED
    BY <1>1, InitIsJobInit, PTL DEF PipelineSpec, JP!JobSpec

(* What is proved of the job queue holds of the pipeline's jobs.            *)
THEOREM PipelineJobsTyped == PipelineSpec => []JP!JobTypeOK
    BY PipelineIsJobQueue, JP!JobTypeCorrect, InstanceConstantsOK, PTL

-----------------------------------------------------------------------------
(* The deliveries of the pipeline are deliveries of EmailDelivery.          *)

(* Every step of the pipeline is a step of the delivery table or none.      *)
LEMMA StepIsDeliveryStep == JP!JobTypeOK /\ [PipelineNext]_pipelineVars => [Next]_vars
<1> SUFFICES ASSUME JP!JobTypeOK, [PipelineNext]_pipelineVars PROVE [Next]_vars
    OBVIOUS
<1>1. UNCHANGED deliveryVars => UNCHANGED vars
    BY DEF deliveryVars
<1>2. ASSUME NEW d \in Deliveries,
             \/ Dispatch(d) \/ PostDelivery(d) \/ PostJob(d) \/ PostKilled(d) \/ PostRefused(d)
             \/ ClockStep(d)
      PROVE  [Next]_vars
    BY <1>1, <1>2 DEF Dispatch, PostDelivery, PostJob, PostKilled, PostRefused, ClockStep, Next
<1>3. ASSUME NEW w \in Invocations,
             \/ \E B \in SUBSET Deliveries : ClaimPending(w, B)
             \/ \E d \in Deliveries : BeginJob(w, d)
             \/ EndUnclaimed(w) \/ FinishJob(w)
      PROVE  [Next]_vars
    BY <1>1, <1>3 DEF ClaimPending, BeginJob, EndUnclaimed, FinishJob
<1>4. ASSUME NEW w \in Invocations, LoadForJob(w) PROVE [Next]_vars
  <2>1. jcur[w] \in Deliveries
    BY <1>4 DEF LoadForJob, Waiting, InJob, JP!JobTypeOK
  <2>2. QED
    BY <1>4, <2>1 DEF LoadForJob, Next
<1>5. ASSUME NEW w \in Invocations, ExecuteStep(w) PROVE [Next]_vars
    BY <1>5 DEF ExecuteStep, Next, Execute
<1>6. ASSUME NEW w \in Invocations, SweepStep(w) \/ CrashStep(w) PROVE [Next]_vars
    BY <1>1, <1>6 DEF SweepStep, CrashStep, Next
<1>7. ASSUME NEW r \in Reconcilers, DeliverySide(r) \/ JobSide(r) PROVE [Next]_vars
    BY <1>1, <1>7 DEF DeliverySide, JobSide, Next
<1>8. CASE UNCHANGED pipelineVars
    BY <1>1, <1>8 DEF pipelineVars
<1>9. QED
    BY <1>2, <1>3, <1>4, <1>5, <1>6, <1>7, <1>8 DEF PipelineNext

(* The pipeline implements the delivery table: jobs only restrict who loads *)
(* a delivery and when.                                                     *)
THEOREM PipelineIsDelivery == PipelineSpec => Spec
<1>1. PipelineInit => Init
    BY DEF PipelineInit
<1>2. QED
    BY <1>1, StepIsDeliveryStep, PipelineJobsTyped, PTL DEF PipelineSpec, Spec

-----------------------------------------------------------------------------
(* The properties of both modules, of the whole.                            *)

(* No provider accepts a delivery twice, whichever of jobs, sweep and       *)
(* reconciliation hold it in turn, unless its lock was overwritten.         *)
THEOREM PipelineSendsOnce == PipelineSpec => []AcceptedAtMostOnce
    BY PipelineIsDelivery, AtMostOnce, PTL

(* The promise of SendPromise holds of the whole pipeline: deliveries with  *)
(* their jobs, sweeps, reconciliations and requests together.               *)
THEOREM PipelineKeepsThePromise == PipelineSpec => SendsAsPromised
    BY PipelineIsDelivery, SendsKeepThePromise, PTL

(* No two invocations rely on one delivery's job.                           *)
THEOREM PipelineJobsRunAlone == PipelineSpec => []JP!JobsRunAlone
    BY PipelineIsJobQueue, JP!RunAlone, InstanceConstantsOK, PTL

(* A delivery's job is closed only after execute succeeded, failed for good *)
(* or used up its attempts.                                                 *)
THEOREM PipelineJobsClosedWithReason == PipelineSpec => []JP!ClosedForAReason
    BY PipelineIsJobQueue, JP!ClosedWithReason, InstanceConstantsOK, PTL

(* Where invocations die before their locks grow stale and reconciliations  *)
(* do not overlap, no invocation loses a job it relies on.                  *)
THEOREM PipelineHoldersKeepJobs ==
    ASSUME ~OwnersMayStall, \A q, r \in Reconcilers : q = r
    PROVE  PipelineSpec => []JobsKeepTheirHolders
<1>1. JP!JobInit /\ [][JP!JobStep]_(JP!jvars) => [](displaced = {})
    BY JP!HoldersKeepJobs, InstanceConstantsOK
<1>2. displaced = {} => JobsKeepTheirHolders
    BY DEF JobsKeepTheirHolders
<1>3. QED
    BY <1>1, <1>2, InitIsJobInit, StepIsJobStep, PTL DEF PipelineSpec

-----------------------------------------------------------------------------
(* Where invocations are killed before their locks grow stale.              *)

(* A stale lock, and a lock that a reconciliation has read, belong to       *)
(* nobody any more; whoever has a row has its lock.                         *)
Has(w, d) == d \in batch[w] \/ (cur[w] = d /\ pc[w] \in {"claimed", "sending", "accepted"})

LocksKept ==
    /\ \A w \in Invocations, d \in Deliveries : stale[d] => lockedBy[d] # tok[w]
    /\ \A r \in Reconcilers : \A s \in snap[r] :
          s.lockedBy # Null /\ \A w \in Invocations : s.lockedBy # tok[w]
    /\ \A w \in Invocations, d \in Deliveries \ overwritten :
          Has(w, d) => status[d] = "PROCESSING" /\ lockedBy[d] = tok[w]

(* An invocation that leaves a row alone gives up nothing but its own.      *)
LEMMA LeaveLocks ==
    ASSUME IInv, LocksKept, NEW w \in Invocations, UNCHANGED <<row, snap>>, overwritten \subseteq overwritten',
           \A v \in Invocations \ {w} : tok'[v] = tok[v] /\ pc'[v] = pc[v] /\ cur'[v] = cur[v] /\ batch'[v] = batch[v],
           tok'[w] \in {tok[w], Null}, \A d \in Deliveries : Has(w, d)' => Has(w, d) /\ tok'[w] = tok[w]
    PROVE  LocksKept'
    BY DEF IInv, LockShape, LocksKept, Has, row

(* Every step keeps them, where no owner of a stale lock is still running.  *)
LEMMA LocksStep ==
    ASSUME ~OwnersMayStall, IInv, LocksKept, [Next]_vars
    PROVE  LocksKept'
<1> USE ConstantsOK DEF IInv, TypeOK, LockShape, LocalShape, TokensUnique,
       Statuses, Terminal, Phases, Snapshots, vars, row, local, history, doubt
<1>1. ASSUME NEW d \in Deliveries, Enqueue(d) \/ Post(d) \/ PostEnds(d) PROVE LocksKept'
    BY <1>1 DEF LocksKept, Has, Enqueue, Post, PostEnds
<1>2. ASSUME NEW d \in Deliveries, PostFails(d) PROVE LocksKept'
    BY <1>2 DEF LocksKept, Has, PostFails
<1>3. ASSUME NEW d \in Deliveries, LockExpires(d) PROVE LocksKept'
    BY <1>3 DEF LocksKept, Has, LockExpires
<1>4. ASSUME NEW w \in Invocations, NEW d \in Deliveries, Load(w, d) PROVE LocksKept'
    BY <1>4 DEF LocksKept, Has, Load
<1>5. ASSUME NEW w \in Invocations, Claim(w) PROVE LocksKept'
    BY <1>5 DEF LocksKept, Has, Claim, InUse, Claimable
<1>6. ASSUME NEW w \in Invocations, ClaimRefused(w) PROVE LocksKept'
    BY <1>6 DEF LocksKept, Has, ClaimRefused
<1>7. ASSUME NEW w \in Invocations, EndItem(w), pc[w] \notin {"idle", "sweeping"}
      PROVE  /\ \A v \in Invocations \ {w} : tok'[v] = tok[v] /\ pc'[v] = pc[v] /\ cur'[v] = cur[v] /\ batch'[v] = batch[v]
             /\ tok'[w] \in {tok[w], Null}
             /\ \A d \in Deliveries : Has(w, d)' => d \in batch[w] /\ Has(w, d) /\ tok'[w] = tok[w]
    BY <1>7 DEF Has, EndItem
<1>8. ASSUME NEW w \in Invocations, EndItem(w), pc[w] \notin {"idle", "sweeping"}, UNCHANGED <<row, snap, history>>
      PROVE  LocksKept'
    BY <1>7, <1>8, LeaveLocks
<1>9. ASSUME NEW w \in Invocations, EndItem(w), pc[w] \notin {"idle", "sweeping"},
             NEW s \in Statuses, Unlock(cur[w], s), lockedBy[cur[w]] = tok[w], status[cur[w]] = "PROCESSING",
             UNCHANGED <<snap, history>>
      PROVE  LocksKept'
  <2>1. PICK c \in Deliveries : c = cur[w] /\ c \notin batch[w]
    BY <1>9
  <2>2. \A v \in Invocations \ {w} : ~(Has(v, c) /\ c \notin overwritten)
    BY <1>9, <2>1 DEF LocksKept
  <2>3. /\ \A d \in Deliveries \ {c} : status'[d] = status[d] /\ lockedBy'[d] = lockedBy[d] /\ stale'[d] = stale[d]
        /\ stale'[c] = FALSE
    BY <1>9, <2>1 DEF Unlock
  <2>4. \A v \in Invocations, d \in Deliveries : Has(v, d)' => Has(v, d) /\ tok'[v] = tok[v] /\ (v = w => d # c)
    BY <1>7, <1>9, <2>1 DEF Has
  <2>5. \A v \in Invocations, d \in Deliveries : stale'[d] => lockedBy'[d] # tok'[v]
    BY <1>7, <1>9, <2>3 DEF LocksKept
  <2>6. \A r \in Reconcilers : \A x \in snap'[r] :
           x.lockedBy # Null /\ \A v \in Invocations : x.lockedBy # tok'[v]
    BY <1>7, <1>9 DEF LocksKept
  <2>7. ASSUME NEW v \in Invocations, NEW d \in Deliveries \ overwritten', Has(v, d)'
        PROVE  status'[d] = "PROCESSING" /\ lockedBy'[d] = tok'[v]
    <3>1. Has(v, d) /\ tok'[v] = tok[v] /\ d # c
      BY <1>9, <2>2, <2>4, <2>7
    <3>2. QED
      BY <1>9, <2>3, <3>1 DEF LocksKept
  <2>8. QED
    BY <2>5, <2>6, <2>7 DEF LocksKept
<1>10. ASSUME NEW w \in Invocations,
              ReportRefusal(w) \/ ClaimLost(w) \/ DatabaseError(w)
       PROVE  LocksKept'
    BY <1>8, <1>10 DEF ReportRefusal, ClaimLost, DatabaseError
<1>11. ASSUME NEW w \in Invocations, Reject(w) \/ RecordSent(w) \/ \E x, took \in BOOLEAN : SendFails(w, x, took)
       PROVE  LocksKept'
  <2>1. EndItem(w) /\ pc[w] \notin {"idle", "sweeping"} /\ UNCHANGED <<snap, history>>
    BY <1>11 DEF Reject, RecordSent, SendFails
  <2>2. \/ UNCHANGED row
        \/ \E s \in Statuses : Unlock(cur[w], s) /\ lockedBy[cur[w]] = tok[w] /\ status[cur[w]] = "PROCESSING"
    BY <1>11 DEF Reject, RecordSent, SendFails, UnlockIf, OwnedByUs, Owned, OwnedInFlight
  <2>3. QED
    BY <1>8, <1>9, <2>1, <2>2
<1>12. ASSUME NEW w \in Invocations, MarkInFlight(w) PROVE LocksKept'
    BY <1>12 DEF LocksKept, Has, MarkInFlight
<1>13. ASSUME NEW w \in Invocations, ProviderAccepts(w) PROVE LocksKept'
    BY <1>13 DEF LocksKept, Has, ProviderAccepts
<1>14. ASSUME NEW w \in Invocations, NEW B \in SUBSET Transactional, SweepClaim(w, B) PROVE LocksKept'
    BY <1>14 DEF LocksKept, Has, SweepClaim, InUse
<1>15. ASSUME NEW w \in Invocations, NEW d \in Deliveries, StartItem(w, d) PROVE LocksKept'
    BY <1>15 DEF LocksKept, Has, StartItem
<1>16. ASSUME NEW w \in Invocations, NEW d \in Deliveries, SkipItem(w, d) PROVE LocksKept'
    BY <1>16 DEF LocksKept, Has, SkipItem
<1>17. ASSUME NEW w \in Invocations, Release(w) PROVE LocksKept'
    BY <1>17 DEF LocksKept, Has, Release
<1>18. ASSUME NEW w \in Invocations, Crash(w) PROVE LocksKept'
    BY <1>18 DEF LocksKept, Has, Crash
<1>19. ASSUME NEW r \in Reconcilers, ReconcileRead(r) PROVE LocksKept'
    BY <1>19 DEF LocksKept, Has, ReconcileRead, StaleRows
<1>20. ASSUME NEW r \in Reconcilers, NEW s \in snap[r], ReconcileInFlight(r, s) PROVE LocksKept'
    BY <1>20 DEF LocksKept, Has, ReconcileInFlight, UnlockIf, Unlock
<1>21. ASSUME NEW r \in Reconcilers, NEW s \in snap[r], ReconcileAbandoned(r, s) PROVE LocksKept'
    BY <1>21 DEF LocksKept, Has, ReconcileAbandoned, UnlockIf, Unlock
<1>22. ASSUME NEW r \in Reconcilers, ReconcileStops(r) PROVE LocksKept'
    BY <1>22 DEF LocksKept, Has, ReconcileStops
<1>23. CASE UNCHANGED vars
    BY <1>23 DEF LocksKept, Has
<1> HIDE DEF IInv, TypeOK, LockShape, LocalShape, TokensUnique,
       Statuses, Terminal, Phases, Snapshots, vars, row, local, history, doubt
<1>24. QED
    BY <1>1, <1>2, <1>3, <1>4, <1>5, <1>6, <1>10, <1>11, <1>12, <1>13, <1>14, <1>15, <1>16, <1>17,
       <1>18, <1>19, <1>20, <1>21, <1>22, <1>23
       DEF Next, Execute, Sweep, ReconcileRow

(* A delivery is past any retry: closed, or marked by a caller that is gone. *)
Over(d) == status[d] \in Terminal \/ (sending[d] /\ \A w \in Invocations : tok[w] # lockedBy[d])

(* It stays so, unless a blind write ignores a claim.                       *)
LEMMA OverStep ==
    ASSUME IInv, [Next]_vars, NEW d \in Deliveries, Over(d), d \notin overwritten'
    PROVE  Over(d)'
<1> USE ConstantsOK DEF IInv, TypeOK, LockShape, LocalShape, Terminal, vars, row, local, history, doubt
<1>1. CASE status[d] \in Terminal
    BY <1>1, ClosedStep DEF Over
<1>2. overwritten \subseteq overwritten'
    BY OverwrittenStays
<1>3. CASE status[d] \notin Terminal
  <2>1. /\ sending[d] /\ \A w \in Invocations : tok[w] # lockedBy[d]
        /\ lockedBy[d] # Null /\ status[d] = "PROCESSING" /\ d \notin overwritten
    BY <1>2, <1>3 DEF Over
  <2>2. ASSUME NEW w \in Invocations, EndItem(w), UNCHANGED row PROVE Over(d)'
    BY <2>1, <2>2 DEF Over, EndItem
  <2>3. ASSUME NEW w \in Invocations, Reject(w) \/ RecordSent(w) \/ \E x, took \in BOOLEAN : SendFails(w, x, took)
        PROVE  Over(d)'
    <3>1. EndItem(w) /\ (UNCHANGED row \/ \E s \in Statuses : Unlock(cur[w], s) /\ lockedBy[cur[w]] = tok[w])
      BY <2>3 DEF Reject, RecordSent, SendFails, UnlockIf, OwnedByUs, Owned, OwnedInFlight, Statuses
    <3>2. ASSUME NEW s \in Statuses, Unlock(cur[w], s), lockedBy[cur[w]] = tok[w] PROVE Over(d)'
      <4>1. cur[w] # d
        BY <2>1, <3>2
      <4>2. status'[d] = status[d] /\ lockedBy'[d] = lockedBy[d] /\ sending'[d] = sending[d]
        BY <3>2, <4>1 DEF Unlock
      <4>3. QED
        BY <2>1, <3>1, <4>2 DEF Over, EndItem
    <3>3. QED
      BY <2>2, <3>1, <3>2
  <2>4. ASSUME NEW w \in Invocations, Claim(w) PROVE Over(d)'
    BY <2>1, <2>4 DEF Over, Claim, Claimable, InUse
  <2>5. ASSUME NEW w \in Invocations, NEW B \in SUBSET Transactional, SweepClaim(w, B) PROVE Over(d)'
    BY <2>1, <2>5 DEF Over, SweepClaim, InUse
  <2>6. ASSUME NEW w \in Invocations, NEW e \in Deliveries, StartItem(w, e) \/ SkipItem(w, e) PROVE Over(d)'
    BY <2>1, <2>6 DEF Over, StartItem, SkipItem
  <2>7. ASSUME NEW w \in Invocations, Release(w) PROVE Over(d)'
    BY <2>1, <2>7 DEF Over, Release
  <2>8. ASSUME NEW w \in Invocations, MarkInFlight(w) PROVE Over(d)'
    BY <2>1, <2>8 DEF Over, MarkInFlight
  <2>9. ASSUME NEW w \in Invocations, Crash(w) PROVE Over(d)'
    BY <2>1, <2>9 DEF Over, Crash
  <2>10. ASSUME NEW e \in Deliveries, Enqueue(e) \/ Post(e) \/ PostFails(e) PROVE Over(d)'
    BY <2>1, <2>10 DEF Over, Enqueue, Post, PostFails
  <2>11. ASSUME NEW r \in Reconcilers, NEW s \in snap[r], ReconcileInFlight(r, s) PROVE Over(d)'
    BY <2>1, <2>11 DEF Over, ReconcileInFlight, UnlockIf, Unlock, Snapshots
  <2>12. ASSUME NEW r \in Reconcilers, NEW s \in snap[r], ReconcileAbandoned(r, s) PROVE Over(d)'
    BY <2>1, <2>12 DEF Over, ReconcileAbandoned, UnlockIf, Unlock, Snapshots
  <2>13. CASE UNCHANGED <<status, lockedBy, sending, tok>>
    BY <2>1, <2>13 DEF Over
  <2>14. QED
    BY <2>2, <2>3, <2>4, <2>5, <2>6, <2>7, <2>8, <2>9, <2>10, <2>11, <2>12, <2>13
       DEF Next, Execute, Sweep, ReconcileRow, PostEnds, LockExpires, Load, ClaimRefused, ReportRefusal,
           ClaimLost, ProviderAccepts, DatabaseError, ReconcileRead, ReconcileStops
<1>4. QED
    BY <1>1, <1>3

(* The calls of a delivery that only jobs serve stay within its limit.      *)
Budget(d) ==
    /\ calls[d] <= attempts[d] /\ calls[d] <= MaxAttempts
    /\ status[d] \in {"NONE", "QUEUED"} \/ (status[d] = "PROCESSING" /\ ~sending[d]) => calls[d] < MaxAttempts
    /\ status[d] = "PROCESSING" /\ ~sending[d] => calls[d] < attempts[d]
    /\ \A w \in Invocations : cur[w] = d =>
          /\ pc[w] \in {"loaded", "refused"} => attempt[w] = attempts[d] + 1
          /\ pc[w] \in {"claimed", "sending", "accepted"} => attempt[w] = attempts[d]

(* Every step keeps the budget of a delivery that one invocation at a time  *)
(* works on.                                                                *)
LEMMA BudgetStep ==
    ASSUME IInv, [Next]_vars, NEW d \in Deliveries \ Transactional, Budget(d), d \notin overwritten',
           \A w \in Invocations : d \notin batch[w],
           \A v, w \in Invocations : cur[v] = d /\ cur[w] = d => v = w
    PROVE  Budget(d)'
<1> USE ConstantsOK DEF IInv, TypeOK, LockShape, LocalShape, Terminal, Statuses, vars, row, local, history, doubt
<1>1. ASSUME NEW e \in Deliveries, Enqueue(e) \/ Post(e) \/ PostEnds(e) \/ PostFails(e) \/ LockExpires(e)
      PROVE  Budget(d)'
    BY <1>1 DEF Budget, Enqueue, Post, PostEnds, PostFails, LockExpires
<1>2. ASSUME NEW w \in Invocations, NEW e \in Deliveries, Load(w, e) \/ StartItem(w, e) \/ SkipItem(w, e)
      PROVE  Budget(d)'
    BY <1>2 DEF Budget, Load, StartItem, SkipItem
<1>3. ASSUME NEW w \in Invocations, Claim(w) PROVE Budget(d)'
  <2>1. CASE cur[w] = d
      BY <1>3, <2>1 DEF Budget, Claim, Claimable
  <2>2. CASE cur[w] # d
      BY <1>3, <2>2 DEF Budget, Claim
  <2>3. QED
      BY <2>1, <2>2
<1>4. ASSUME NEW w \in Invocations, NEW B \in SUBSET Transactional, SweepClaim(w, B) PROVE Budget(d)'
    BY <1>4 DEF Budget, SweepClaim
<1>5. ASSUME NEW w \in Invocations, Release(w) PROVE Budget(d)'
    BY <1>5 DEF Budget, Release
<1>6. ASSUME NEW w \in Invocations, EndItem(w), UNCHANGED <<row, calls>> PROVE Budget(d)'
    BY <1>6 DEF Budget, EndItem
<1>7. ASSUME NEW w \in Invocations, Reject(w) \/ RecordSent(w) \/ \E x, took \in BOOLEAN : SendFails(w, x, took)
      PROVE  Budget(d)'
  <2>1. EndItem(w) /\ UNCHANGED calls /\ cur[w] \in Deliveries
      BY <1>7 DEF Reject, RecordSent, SendFails
  <2>2. CASE UNCHANGED row
      BY <1>6, <2>1, <2>2
  <2>3. ASSUME NEW s \in {"QUEUED"} \cup Terminal, Unlock(cur[w], s), UNCHANGED attempts,
               s = "QUEUED" => attempt[w] < MaxAttempts /\ pc[w] = "sending"
        PROVE  Budget(d)'
    <3>1. CASE cur[w] = d
        BY <2>1, <2>3, <3>1 DEF Budget, EndItem, Unlock
    <3>2. CASE cur[w] # d
        BY <2>1, <2>3, <3>2 DEF Budget, EndItem, Unlock
    <3>3. QED
        BY <3>1, <3>2
  <2>4. \/ UNCHANGED row
        \/ \E s \in {"QUEUED"} \cup Terminal : /\ Unlock(cur[w], s) /\ UNCHANGED attempts
                                               /\ s = "QUEUED" => attempt[w] < MaxAttempts /\ pc[w] = "sending"
      BY <1>7 DEF Reject, RecordSent, SendFails, MayTryAgain, UnlockIf
  <2>5. QED
      BY <2>2, <2>3, <2>4
<1>8. ASSUME NEW w \in Invocations, MarkInFlight(w) PROVE Budget(d)'
    BY <1>8 DEF Budget, MarkInFlight, OwnedByUs, Owned
<1>9. ASSUME NEW w \in Invocations, ClaimRefused(w) \/ ProviderAccepts(w) \/ Crash(w) PROVE Budget(d)'
    BY <1>9 DEF Budget, ClaimRefused, ProviderAccepts, Crash
<1>10. ASSUME NEW r \in Reconcilers, NEW s \in snap[r], ReconcileInFlight(r, s) \/ ReconcileAbandoned(r, s)
       PROVE  Budget(d)'
    BY <1>10 DEF Budget, ReconcileInFlight, ReconcileAbandoned, UnlockIf, Unlock, Snapshots
<1>11. CASE UNCHANGED <<row, local, calls>>
    BY <1>11 DEF Budget
<1>12. QED
    BY <1>1, <1>2, <1>3, <1>4, <1>5, <1>6, <1>7, <1>8, <1>9, <1>10, <1>11
       DEF Next, Execute, Sweep, ReconcileRow, ReportRefusal, ClaimLost, DatabaseError, ReconcileRead,
           ReconcileStops

-----------------------------------------------------------------------------
(* Who works on what: an invocation that runs a job works on the job's      *)
(* delivery or on none; a sweep works on transactional ones.                *)
InHand(w) ==
    /\ batch[w] \subseteq Transactional
    /\ jpc[w] # "idle" => /\ batch[w] = {} /\ pc[w] # "sweeping"
                          /\ pc[w] # "idle" => InJob(w) /\ cur[w] = jcur[w]
    /\ jpc[w] = "idle" /\ pc[w] # "idle" => cur[w] \in Transactional \cup {Null}

(* Every step of the pipeline keeps to that.                                *)
LEMMA InHandStep ==
    ASSUME IInv, JP!JobTypeOK, \A w \in Invocations : InHand(w), [PipelineNext]_pipelineVars,
           NEW b \in Invocations
    PROVE  InHand(b)'
<1> USE ConstantsOK DEF IInv, TypeOK, LocalShape, Phases, JP!JobTypeOK, InJob, Waiting, row, local, history
<1>1. InHand(b)
    OBVIOUS
<1>2. CASE UNCHANGED <<local, jpc, jcur>>
    BY <1>1, <1>2 DEF InHand
<1>3. ASSUME NEW w \in Invocations, NEW B \in SUBSET Deliveries, ClaimPending(w, B) PROVE InHand(b)'
    BY <1>1, <1>3 DEF InHand, ClaimPending, J!ClaimJobs, deliveryVars, vars
<1>4. ASSUME NEW w \in Invocations, NEW d \in Deliveries, BeginJob(w, d) PROVE InHand(b)'
    BY <1>1, <1>4 DEF InHand, BeginJob, J!StartJob, deliveryVars, vars
<1>5. ASSUME NEW w \in Invocations, LoadForJob(w) PROVE InHand(b)'
    BY <1>1, <1>5 DEF InHand, LoadForJob, Load, jobVars
<1>6. ASSUME NEW w \in Invocations, EndUnclaimed(w) PROVE InHand(b)'
    BY <1>1, <1>6 DEF InHand, EndUnclaimed, J!Return, deliveryVars, vars
<1>7. ASSUME NEW w \in Invocations, Claim(w) \/ ClaimRefused(w) \/ MarkInFlight(w) \/ ProviderAccepts(w),
             UNCHANGED jobVars
      PROVE  InHand(b)'
    BY <1>1, <1>7 DEF InHand, Claim, ClaimRefused, MarkInFlight, ProviderAccepts, jobVars
<1>8. ASSUME NEW w \in Invocations, EndItem(w), pc[w] \notin {"idle", "sweeping"}, NEW result, EndsWith(w, result)
      PROVE  InHand(b)'
  <2>1. CASE InJob(w)
      BY <1>1, <1>8, <2>1 DEF InHand, EndItem, EndsWith, J!Return
  <2>2. CASE ~InJob(w)
      BY <1>1, <1>8, <2>2 DEF InHand, EndItem, EndsWith, jobVars
  <2>3. QED
      BY <2>1, <2>2
<1>9. ASSUME NEW w \in Invocations, ExecuteStep(w) PROVE InHand(b)'
    BY <1>7, <1>8, <1>9 DEF ExecuteStep, ReportRefusal, Reject, ClaimLost, SendFails, RecordSent, DatabaseError
<1>10. ASSUME NEW w \in Invocations, FinishJob(w) PROVE InHand(b)'
  <2>1. UNCHANGED local /\ jpc[w] # "running" /\ jpc[w] # "idle"
      BY <1>10 DEF FinishJob, J!ReleaseJobs, J!Record, J!RecordYield, J!RecordDone, J!RecordError,
         J!RecordingFails, deliveryVars, vars
  <2>2. \A v \in Invocations \ {w} : jpc'[v] = jpc[v] /\ jcur'[v] = jcur[v]
      BY <1>10 DEF FinishJob, J!ReleaseJobs, J!Record, J!RecordYield, J!RecordDone, J!RecordError,
         J!RecordingFails, J!NextJob
  <2>3. InHand(w) /\ pc[w] = "idle"
      BY <2>1 DEF InHand
  <2>4. QED
      BY <1>1, <2>1, <2>2, <2>3 DEF InHand
<1>11. ASSUME NEW w \in Invocations, SweepStep(w) PROVE InHand(b)'
  <2>1. UNCHANGED jobVars /\ jpc[w] = "idle"
      BY <1>11 DEF SweepStep
  <2>2. ASSUME NEW B \in SUBSET Transactional, SweepClaim(w, B) PROVE InHand(b)'
      BY <1>1, <2>1, <2>2 DEF InHand, SweepClaim, jobVars
  <2>3. ASSUME NEW d \in Deliveries, StartItem(w, d) \/ SkipItem(w, d) PROVE InHand(b)'
      BY <1>1, <2>1, <2>3 DEF InHand, StartItem, SkipItem, jobVars
  <2>4. CASE Release(w)
      BY <1>1, <2>1, <2>4 DEF InHand, Release, jobVars
  <2>5. QED
      BY <1>11, <2>2, <2>3, <2>4 DEF SweepStep, Sweep
<1>12. ASSUME NEW w \in Invocations, CrashStep(w) PROVE InHand(b)'
  <2>1. IF pc[w] # "idle" THEN Crash(w) ELSE UNCHANGED vars
      BY <1>12 DEF CrashStep, deliveryVars
  <2>2. IF jpc[w] # "idle" THEN J!JobCrash(w) ELSE UNCHANGED jobVars
      BY <1>12 DEF CrashStep
  <2>3. /\ pc'[w] = "idle" /\ batch'[w] = {} /\ jpc'[w] = "idle"
        /\ \A v \in Invocations \ {w} : /\ pc'[v] = pc[v] /\ batch'[v] = batch[v] /\ cur'[v] = cur[v]
                                        /\ jpc'[v] = jpc[v] /\ jcur'[v] = jcur[v]
      BY <2>1, <2>2 DEF Crash, J!JobCrash, vars, jobVars
  <2>4. QED
      BY <1>1, <2>3 DEF InHand
<1>13. ASSUME NEW d \in Deliveries,
              \/ Dispatch(d) \/ PostDelivery(d) \/ PostJob(d) \/ PostKilled(d) \/ PostRefused(d)
              \/ ClockStep(d)
       PROVE  UNCHANGED <<local, jpc, jcur>>
    BY <1>13 DEF Dispatch, PostDelivery, PostJob, PostKilled, PostRefused, ClockStep, Enqueue, Post, PostEnds,
       PostFails, LockExpires, J!AddJob, J!JobLockExpires, J!jlocal, jobVars, deliveryVars, vars
<1>14. ASSUME NEW r \in Reconcilers, DeliverySide(r) \/ JobSide(r) PROVE UNCHANGED <<local, jpc, jcur>>
    BY <1>14 DEF DeliverySide, JobSide, ReconcileRead, ReconcileRow, ReconcileInFlight, ReconcileAbandoned,
       ReconcileStops, J!ReconcileReadJobs, J!ReconcileJobsStop, J!ReconcileJob, J!jlocal, jobVars,
       deliveryVars, vars
<1>15. UNCHANGED pipelineVars => UNCHANGED <<local, jpc, jcur>>
    BY DEF pipelineVars, deliveryVars, vars, jobVars
<1>16. QED
    BY <1>2, <1>3, <1>4, <1>5, <1>6, <1>9, <1>10, <1>11, <1>12, <1>13, <1>14, <1>15 DEF PipelineNext

(* A body that fails for good leaves its delivery past any retry.           *)
LEMMA DoomStep ==
    ASSUME IInv, LocksKept, \A w \in Invocations : InHand(w), JP!JobTypeOK,
           [PipelineNext]_pipelineVars, NEW d \in Deliveries, d \in doomed', d \notin doomed, d \notin overwritten'
    PROVE  Over(d)'
<1> USE DEF IInv
<1>1. ASSUME NEW w \in Invocations, EndsWith(w, "permanent"), EndItem(w),
             pc[w] \in {"claimed", "sending", "accepted"}, d \notin overwritten
      PROVE  /\ cur[w] = d /\ batch[w] = {} /\ tok[w] # Null /\ tok'[w] = Null
             /\ \A v \in Invocations \ {w} : tok'[v] = tok[v] /\ tok[v] # tok[w]
             /\ status[d] = "PROCESSING" /\ lockedBy[d] = tok[w]
             /\ pc[w] = "claimed" => ~sending[d]
             /\ pc[w] \in {"sending", "accepted"} => sending[d]
  <2>1. InJob(w) /\ jcur[w] = d
      BY <1>1 DEF EndsWith, J!Return, jobVars
  <2>2. cur[w] = d /\ batch[w] = {}
      BY <1>1, <2>1 DEF InHand, InJob
  <2>3. tok[w] # Null
      BY <1>1 DEF LocalShape
  <2>4. status[d] = "PROCESSING" /\ lockedBy[d] = tok[w]
      BY <1>1, <2>2 DEF LocksKept, Has
  <2>5. pc[w] = "claimed" => ~sending[d]
      BY <2>2, <2>4 DEF UnsentUnmarked
  <2>6. pc[w] \in {"sending", "accepted"} => sending[d]
      BY <1>1, <2>2, <2>4 DEF CallMarked, Calling, OwnedInFlight
  <2>7. tok'[w] = Null /\ \A v \in Invocations \ {w} : tok'[v] = tok[v] /\ tok[v] # tok[w]
      BY <1>1, <2>2, <2>3 DEF EndItem, TypeOK, TokensUnique
  <2>8. QED
      BY <2>2, <2>3, <2>4, <2>5, <2>6, <2>7
<1>2. ASSUME NEW w \in Invocations, Reject(w), EndsWith(w, "permanent") PROVE Over(d)'
  <2>1. /\ EndItem(w) /\ pc[w] = "claimed" /\ overwritten' = overwritten
        /\ UnlockIf(OwnedByUs(w), cur[w], "FAILED")
      BY <1>2 DEF Reject, history
  <2>2. cur[w] = d /\ OwnedByUs(w)
      BY <1>1, <1>2, <2>1 DEF OwnedByUs, Owned
  <2>3. status'[d] = "FAILED"
      BY <2>1, <2>2 DEF UnlockIf, Unlock, TypeOK
  <2>4. QED
      BY <2>3 DEF Over, Terminal
<1>3. ASSUME NEW w \in Invocations, NEW retryable \in BOOLEAN, NEW took \in BOOLEAN, SendFails(w, retryable, took),
             EndsWith(w, FailureResult(w, retryable))
      PROVE  Over(d)'
  <2>1. EndItem(w) /\ pc[w] = "sending" /\ overwritten' = overwritten
      BY <1>3 DEF SendFails, history
  <2>2. FailureResult(w, retryable) = "permanent" /\ ~MayTryAgain(w, retryable)
      BY <1>3 DEF FailureResult, EndsWith, J!Return, jobVars
  <2>3. UnlockIf(OwnedInFlight(w), cur[w], "FAILED")
      BY <1>3, <2>2 DEF SendFails
  <2>4. cur[w] = d /\ OwnedInFlight(w)
      BY <1>1, <1>3, <2>1, <2>2 DEF OwnedInFlight
  <2>5. status'[d] = "FAILED"
      BY <2>3, <2>4 DEF UnlockIf, Unlock, TypeOK
  <2>6. QED
      BY <2>5 DEF Over, Terminal
<1>4. ASSUME NEW w \in Invocations, DatabaseError(w), pc[w] = "accepted", EndsWith(w, "permanent") PROVE Over(d)'
  <2>1. EndItem(w) /\ UNCHANGED <<row, overwritten>>
      BY <1>4 DEF DatabaseError, history
  <2>2. sending[d] /\ \A v \in Invocations : tok'[v] # lockedBy[d]
      BY <1>1, <1>4, <2>1
  <2>3. QED
      BY <2>1, <2>2 DEF Over, row
<1>5. ASSUME NEW w \in Invocations, ExecuteStep(w) PROVE Over(d)'
  <2>1. ASSUME NEW result, result # "permanent", EndsWith(w, result) PROVE FALSE
      BY <2>1 DEF EndsWith, J!Return, jobVars
  <2>2. UNCHANGED jobVars => FALSE
      BY DEF jobVars
  <2>3. RefusalResult(w) # "permanent"
      BY DEF RefusalResult
  <2>4. QED
      BY <1>2, <1>3, <1>4, <1>5, <2>1, <2>2, <2>3 DEF ExecuteStep
<1>6. ASSUME NEW e \in Deliveries,
             \/ Dispatch(e) \/ PostDelivery(e) \/ PostJob(e) \/ PostKilled(e) \/ PostRefused(e)
             \/ ClockStep(e)
      PROVE  FALSE
    BY <1>6 DEF Dispatch, PostDelivery, PostJob, PostKilled, PostRefused, ClockStep, J!AddJob,
       J!JobLockExpires, J!jhistory, jobVars
<1>7. ASSUME NEW w \in Invocations,
             \/ \E B \in SUBSET Deliveries : ClaimPending(w, B)
             \/ \E e \in Deliveries : BeginJob(w, e)
             \/ LoadForJob(w) \/ SweepStep(w) \/ CrashStep(w)
      PROVE  FALSE
    BY <1>7 DEF ClaimPending, BeginJob, LoadForJob, SweepStep, CrashStep, J!ClaimJobs, J!StartJob,
       J!JobCrash, J!jhistory, jobVars
<1>8. ASSUME NEW w \in Invocations, EndUnclaimed(w) \/ FinishJob(w) PROVE FALSE
    BY <1>8 DEF EndUnclaimed, FinishJob, J!Return, J!ReleaseJobs, J!Record, J!RecordYield, J!RecordDone,
       J!RecordError, J!RecordingFails, J!jhistory
<1>9. ASSUME NEW r \in Reconcilers, DeliverySide(r) \/ JobSide(r) PROVE FALSE
    BY <1>9 DEF DeliverySide, JobSide, J!ReconcileReadJobs, J!ReconcileJobsStop, J!ReconcileJob, J!jhistory,
       jobVars
<1>10. UNCHANGED pipelineVars => FALSE
    BY DEF pipelineVars, jobVars
<1>11. QED
    BY <1>5, <1>6, <1>7, <1>8, <1>9, <1>10 DEF PipelineNext

-----------------------------------------------------------------------------
(* What PermanentMeansOver rests on, and what both properties rest on.      *)
DoomedIsOver == \A d \in doomed \ overwritten : Over(d)

PipelineInv == IInv /\ JP!JobTypeOK /\ \A w \in Invocations : InHand(w)

(* Types, locks and markers, and who works on what.                         *)
LEMMA PipelineInvHolds == PipelineSpec => []PipelineInv
<1>1. PipelineInit => \A w \in Invocations : InHand(w)
    BY DEF PipelineInit, Init, J!JobInit, InHand
<1>2. (\A w \in Invocations : InHand(w)) /\ IInv /\ JP!JobTypeOK /\ [PipelineNext]_pipelineVars
        => (\A w \in Invocations : InHand(w))'
    BY InHandStep
<1>3. QED
    BY <1>1, <1>2, PipelineIsDelivery, InvariantHolds, PipelineJobsTyped, PTL DEF PipelineSpec, PipelineInv

(* A permanent error closes a job for good; its delivery is past any retry, *)
(* where invocations are killed before their locks grow stale.              *)
THEOREM PermanentErrorsAreFinal ==
    ASSUME ~OwnersMayStall
    PROVE  PipelineSpec => []PermanentMeansOver
<1>1. PipelineInit => LocksKept /\ DoomedIsOver
    BY DEF PipelineInit, Init, J!JobInit, LocksKept, Has, DoomedIsOver
<1>2. PipelineInv /\ PipelineInv' /\ LocksKept /\ DoomedIsOver /\ [PipelineNext]_pipelineVars => LocksKept' /\ DoomedIsOver'
  <2> SUFFICES ASSUME PipelineInv, PipelineInv', LocksKept, DoomedIsOver, [PipelineNext]_pipelineVars
               PROVE  LocksKept' /\ DoomedIsOver'
    OBVIOUS
  <2>1. [Next]_vars /\ overwritten \subseteq overwritten'
    BY StepIsDeliveryStep, OverwrittenStays DEF PipelineInv
  <2>2. LocksKept'
    BY <2>1, LocksStep DEF PipelineInv
  <2>3. doomed' \subseteq Deliveries
    BY StepIsJobStep, JP!JobTypeStep, InstanceConstantsOK DEF PipelineInv, JP!JobTypeOK
  <2>4. ASSUME NEW d \in doomed', d \notin overwritten' PROVE Over(d)'
    <3>1. d \in Deliveries
      BY <2>3, <2>4
    <3>2. CASE d \in doomed
      BY <2>1, <2>4, <3>1, <3>2, OverStep DEF DoomedIsOver, PipelineInv
    <3>3. CASE d \notin doomed
      BY <2>4, <3>1, <3>3, DoomStep DEF PipelineInv
    <3>4. QED
      BY <3>2, <3>3
  <2>5. QED
    BY <2>2, <2>4 DEF DoomedIsOver
<1>3. DoomedIsOver => PermanentMeansOver
    BY DEF DoomedIsOver, PermanentMeansOver, Over
<1>4. QED
    BY <1>1, <1>2, <1>3, PipelineInvHolds, PTL DEF PipelineSpec

(* Jobs alone keep the calls of a promotional delivery within its limit,    *)
(* where no job is taken from an invocation that relies on it.              *)
THEOREM PromotionalCallsWithinLimit ==
    ASSUME ~OwnersMayStall, \A q, r \in Reconcilers : q = r
    PROVE  PipelineSpec => []CallsWithinLimit
<1> DEFINE Budgets == \A d \in Deliveries \ (Transactional \cup overwritten) : Budget(d)
<1>1. PipelineInit => Budgets
    BY ConstantsOK DEF PipelineInit, Init, Budget
<1>2. PipelineInv /\ JP!JobsRunAlone /\ displaced = {} /\ Budgets /\ [PipelineNext]_pipelineVars => Budgets'
  <2> SUFFICES ASSUME PipelineInv, JP!JobsRunAlone, displaced = {}, Budgets, [PipelineNext]_pipelineVars,
                      NEW d \in Deliveries \ Transactional, d \notin overwritten'
               PROVE  Budget(d)'
    OBVIOUS
  <2>1. [Next]_vars /\ d \notin overwritten
    BY StepIsDeliveryStep, OverwrittenStays DEF PipelineInv
  <2>2. \A w \in Invocations : d \notin batch[w]
    BY DEF PipelineInv, InHand
  <2>3. ASSUME NEW v \in Invocations, NEW w \in Invocations, cur[v] = d, cur[w] = d PROVE v = w
    <3>1. \A u \in {v, w} : pc[u] # "idle" /\ d # Null
      BY <2>3, ConstantsOK DEF PipelineInv, IInv, TypeOK
    <3>2. jcur[v] = d /\ jcur[w] = d
      BY <2>3, <3>1 DEF PipelineInv, InHand, InJob
    <3>3. QED
      BY <3>2 DEF JP!JobsRunAlone, JP!Relies
  <2>4. QED
    BY <2>1, <2>2, <2>3, BudgetStep DEF PipelineInv
<1>3. Budgets => CallsWithinLimit
    BY DEF Budget, CallsWithinLimit
<1>4. JobsKeepTheirHolders => displaced = {}
    BY DEF JobsKeepTheirHolders
<1>5. QED
    BY <1>1, <1>2, <1>3, <1>4, PipelineInvHolds, PipelineJobsRunAlone, PipelineHoldersKeepJobs, PTL DEF PipelineSpec
=============================================================================
