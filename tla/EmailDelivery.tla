--------------------------- MODULE EmailDelivery ---------------------------
(***************************************************************************)
(* The EmailDelivery rows of the workerless pipeline and everything that   *)
(* claims, sends, releases and reconciles them:                            *)
(*   EmailDeliveryExecutor.execute, with and without a claim token;        *)
(*   ServerlessJobProcessor.processTransactionalEmails (the table sweep);  *)
(*   ReconciliationExecutor.reconcile, its EmailDelivery part;             *)
(*   EmailDispatchService.enqueueBackground and POST /api/v1/email/send,   *)
(*   which create the rows, with their jobs and before their jobs.         *)
(*                                                                         *)
(* One step is one database statement, one provider call or its answer.    *)
(* An invocation keeps what it read in local variables; between two of its *)
(* steps every other invocation may move, and it may die.                  *)
(*                                                                         *)
(* Time is abstracted to one flag per row: stale[d] says that the row's    *)
(* lockedAt is older than STALE_LOCK_MS.  The owner of a stale lock may be *)
(* dead or merely slow: nothing in the code tells the two apart.  A retry's*)
(* nextAttemptAt is abstracted away: a queued row may be due at any time.  *)
(***************************************************************************)
EXTENDS Integers, FiniteSets

CONSTANTS
    Deliveries,     \* EmailDelivery ids
    Transactional,  \* those of category TRANSACTIONAL: the sweep sees only these
    Invocations,    \* concurrent invocations that execute deliveries
    Reconcilers,    \* concurrent reconciliation sweeps
    Tokens,         \* claim tokens; newClaimToken returns one that is not in use
    Null,           \* SQL NULL, or no row at hand
    MaxAttempts,    \* maxAttempts of execute and of reconcile (both default to 5)
    AttemptCap,     \* bound: no claim raises attemptCount above this
    OwnersMayStall, \* FALSE: an invocation is killed (maxDuration) before its lock is stale
    AnswersMayBeLost    \* FALSE: a provider that accepts a delivery is always heard

ASSUME ConstantsOK ==
    /\ Transactional \subseteq Deliveries
    /\ Null \notin Tokens \cup Deliveries
    /\ MaxAttempts \in Nat \ {0}
    /\ AttemptCap \in Nat \ {0}
    /\ OwnersMayStall \in BOOLEAN
    /\ AnswersMayBeLost \in BOOLEAN

VARIABLES
    \* the EmailDelivery table
    status, attempts, lockedBy, sending, stale,
    \* rows whose /email/send request has yet to add the job
    posting,
    \* the local variables of each invocation
    pc, cur, tok, attempt, batch,
    \* the stale rows a reconciliation has read and not yet handled
    snap,
    \* history: what the properties speak of, read by no guard.  The provider
    \* calls; the acceptances the provider answered, and those behind an answer
    \* that looked like a failure; rows queued again after such an answer; and
    \* rows whose lock was overwritten
    calls, accepted, hidden, unclear, overwritten

row     == <<status, attempts, lockedBy, sending, stale>>
local   == <<pc, cur, tok, attempt, batch>>
history == <<calls, accepted, overwritten>>
doubt   == <<hidden, unclear>>
vars    == <<row, posting, local, snap, history, doubt>>

(* FAILED with errorCode SEND_OUTCOME_UNKNOWN is UNKNOWN here; both are the *)
(* terminal status FAILED in the table.                                     *)
Terminal == {"SENT", "FAILED", "UNKNOWN"}
Statuses == {"NONE", "QUEUED", "PROCESSING"} \cup Terminal
Phases   == {"idle", "loaded", "refused", "sweeping", "claimed", "sending", "accepted"}

Snapshots ==
    [id : Deliveries, lockedBy : Tokens \cup {Null}, sending : BOOLEAN, attempts : Int]

TypeOK ==
    /\ status \in [Deliveries -> Statuses]
    /\ attempts \in [Deliveries -> Int]
    /\ lockedBy \in [Deliveries -> Tokens \cup {Null}]
    /\ sending \in [Deliveries -> BOOLEAN]
    /\ stale \in [Deliveries -> BOOLEAN]
    /\ posting \in SUBSET Deliveries
    /\ pc \in [Invocations -> Phases]
    /\ cur \in [Invocations -> Deliveries \cup {Null}]
    /\ \A w \in Invocations : cur[w] \in Deliveries <=> pc[w] \notin {"idle", "sweeping"}
    /\ tok \in [Invocations -> Tokens \cup {Null}]
    /\ attempt \in [Invocations -> Int]
    /\ batch \in [Invocations -> SUBSET Deliveries]
    /\ snap \in [Reconcilers -> SUBSET Snapshots]
    /\ calls \in [Deliveries -> Nat]
    /\ accepted \in [Deliveries -> Nat]
    /\ hidden \in [Deliveries -> Nat]
    /\ unclear \in SUBSET Deliveries
    /\ overwritten \in SUBSET Deliveries

Init ==
    /\ status = [d \in Deliveries |-> "NONE"]
    /\ attempts = [d \in Deliveries |-> 0]
    /\ lockedBy = [d \in Deliveries |-> Null]
    /\ sending = [d \in Deliveries |-> FALSE]
    /\ stale = [d \in Deliveries |-> FALSE]
    /\ posting = {}
    /\ pc = [w \in Invocations |-> "idle"]
    /\ cur = [w \in Invocations |-> Null]
    /\ tok = [w \in Invocations |-> Null]
    /\ attempt = [w \in Invocations |-> 0]
    /\ batch = [w \in Invocations |-> {}]
    /\ snap = [r \in Reconcilers |-> {}]
    /\ calls = [d \in Deliveries |-> 0]
    /\ accepted = [d \in Deliveries |-> 0]
    /\ hidden = [d \in Deliveries |-> 0]
    /\ unclear = {}
    /\ overwritten = {}

-----------------------------------------------------------------------------
(* Locks.  lockedBy[d] is the token, sending[d] the in-flight suffix.       *)

InUse(t) ==
    \/ \E d \in Deliveries : lockedBy[d] = t
    \/ \E w \in Invocations : tok[w] = t
    \/ \E r \in Reconcilers : \E s \in snap[r] : s.lockedBy = t

Owned(w, d)      == status[d] = "PROCESSING" /\ lockedBy[d] = tok[w] /\ ~sending[d]
OwnedByUs(w)     == Owned(w, cur[w])
OwnedInFlight(w) ==
    status[cur[w]] = "PROCESSING" /\ lockedBy[cur[w]] = tok[w] /\ sending[cur[w]]

(* Mutant: the NOT LIKE '%:sending' condition of the claim is dropped.       *)
ClaimableMarked(d) == status[d] = "QUEUED" \/ (status[d] = "PROCESSING" /\ stale[d])

(* What the executor's conditional update may claim: a queued row, or one   *)
(* whose lock is stale and carries no in-flight marker.                     *)
Claimable(d) ==
    \/ status[d] = "QUEUED"
    \/ status[d] = "PROCESSING" /\ ~sending[d] /\ stale[d]

(* Every write that ends a claim: the status, and the lock cleared.         *)
Unlock(d, s) ==
    /\ status' = [status EXCEPT ![d] = s]
    /\ lockedBy' = [lockedBy EXCEPT ![d] = Null]
    /\ sending' = [sending EXCEPT ![d] = FALSE]
    /\ stale' = [stale EXCEPT ![d] = FALSE]

UnlockIf(owned, d, s) ==
    /\ IF owned THEN Unlock(d, s) ELSE UNCHANGED <<status, lockedBy, sending, stale>>
    /\ UNCHANGED attempts

(* execute returns or throws: a job is over, a sweep goes on to its next row *)
EndItem(w) ==
    /\ pc' = [pc EXCEPT ![w] = IF batch[w] = {} THEN "idle" ELSE "sweeping"]
    /\ tok' = [tok EXCEPT ![w] = IF batch[w] = {} THEN Null ELSE @]
    /\ cur' = [cur EXCEPT ![w] = Null]
    /\ attempt' = [attempt EXCEPT ![w] = 0]
    /\ UNCHANGED batch

-----------------------------------------------------------------------------
(* EmailDispatchService.enqueueBackground: the row and its job, together.   *)

Enqueue(d) ==
    /\ status[d] = "NONE"
    /\ \E s \in {"QUEUED", "FAILED"} :   \* FAILED: the recipient is suppressed
          status' = [status EXCEPT ![d] = s]
    /\ UNCHANGED <<attempts, lockedBy, sending, stale, posting, local, snap, history, doubt>>

(* POST /api/v1/email/send: first the row, then the job.  If adding the job *)
(* fails, the row is closed by its id, whoever has claimed it meanwhile.    *)

Post(d) ==
    /\ status[d] = "NONE"
    /\ status' = [status EXCEPT ![d] = "QUEUED"]
    /\ posting' = posting \cup {d}
    /\ UNCHANGED <<attempts, lockedBy, sending, stale, local, snap, history, doubt>>

(* The job is added, or the request is killed before it.                    *)
PostEnds(d) ==
    /\ d \in posting
    /\ posting' = posting \ {d}
    /\ UNCHANGED <<row, local, snap, history, doubt>>

PostFails(d) ==
    /\ d \in posting
    /\ posting' = posting \ {d}
    /\ status' = [status EXCEPT ![d] = "FAILED"]
    /\ overwritten' = IF status[d] = "QUEUED" THEN overwritten ELSE overwritten \cup {d}
    /\ UNCHANGED <<attempts, lockedBy, sending, stale, local, snap, calls, accepted, doubt>>

-----------------------------------------------------------------------------
(* EmailDeliveryExecutor.execute without a claim token (the job path)       *)

(* Mutant: the attempt under way is not counted.                            *)
LoadUncounted(w, d) ==
    /\ pc[w] = "idle"
    /\ d \notin posting
    /\ status[d] \in {"QUEUED", "PROCESSING"}
    /\ pc' = [pc EXCEPT ![w] = "loaded"]
    /\ cur' = [cur EXCEPT ![w] = d]
    /\ attempt' = [attempt EXCEPT ![w] = attempts[d]]
    /\ UNCHANGED <<row, posting, tok, batch, snap, history, doubt>>

Load(w, d) ==
    /\ pc[w] = "idle"
    /\ d \notin posting
    /\ status[d] \in {"QUEUED", "PROCESSING"}
    /\ pc' = [pc EXCEPT ![w] = "loaded"]
    /\ cur' = [cur EXCEPT ![w] = d]
    /\ attempt' = [attempt EXCEPT ![w] = attempts[d] + 1]
    /\ UNCHANGED <<row, posting, tok, batch, snap, history, doubt>>

(* Mutant: the claim does not count the attempt.                            *)
ClaimUncounted(w) ==
    LET d == cur[w] IN
    /\ pc[w] = "loaded"
    /\ Claimable(d)
    /\ \E t \in Tokens :
          /\ ~InUse(t)
          /\ tok' = [tok EXCEPT ![w] = t]
          /\ lockedBy' = [lockedBy EXCEPT ![d] = t]
    /\ status' = [status EXCEPT ![d] = "PROCESSING"]
    /\ sending' = [sending EXCEPT ![d] = FALSE]
    /\ stale' = [stale EXCEPT ![d] = FALSE]
    /\ pc' = [pc EXCEPT ![w] = "claimed"]
    /\ UNCHANGED <<attempts, cur, attempt, batch, posting, snap, history, doubt>>

Claim(w) ==
    LET d == cur[w] IN
    /\ pc[w] = "loaded"
    /\ Claimable(d)
    /\ attempts[d] < AttemptCap
    /\ \E t \in Tokens :
          /\ ~InUse(t)
          /\ tok' = [tok EXCEPT ![w] = t]
          /\ lockedBy' = [lockedBy EXCEPT ![d] = t]
    /\ status' = [status EXCEPT ![d] = "PROCESSING"]
    /\ attempts' = [attempts EXCEPT ![d] = @ + 1]
    /\ sending' = [sending EXCEPT ![d] = FALSE]
    /\ stale' = [stale EXCEPT ![d] = FALSE]
    /\ pc' = [pc EXCEPT ![w] = "claimed"]
    /\ UNCHANGED <<cur, attempt, batch, posting, snap, history, doubt>>

ClaimRefused(w) ==
    /\ pc[w] = "loaded"
    /\ ~Claimable(cur[w])
    /\ pc' = [pc EXCEPT ![w] = "refused"]
    /\ UNCHANGED <<row, posting, cur, tok, attempt, batch, snap, history, doubt>>

(* The losing claimant reads the row again, only to say why it lost.        *)
ReportRefusal(w) ==
    /\ pc[w] = "refused"
    /\ EndItem(w)
    /\ UNCHANGED <<row, posting, snap, history, doubt>>

-----------------------------------------------------------------------------
(* ServerlessJobProcessor.processTransactionalEmails                        *)

(* One UPDATE claims a batch under one token.                               *)
SweepClaim(w, B) ==
    /\ pc[w] = "idle"
    /\ B # {}
    /\ \A d \in B : status[d] = "QUEUED" /\ attempts[d] < AttemptCap
    /\ \E t \in Tokens :
          /\ ~InUse(t)
          /\ tok' = [tok EXCEPT ![w] = t]
          /\ lockedBy' = [d \in Deliveries |-> IF d \in B THEN t ELSE lockedBy[d]]
    /\ status' = [d \in Deliveries |-> IF d \in B THEN "PROCESSING" ELSE status[d]]
    /\ attempts' = [d \in Deliveries |-> IF d \in B THEN attempts[d] + 1 ELSE attempts[d]]
    /\ sending' = [d \in Deliveries |-> d \notin B /\ sending[d]]
    /\ batch' = [batch EXCEPT ![w] = B]
    /\ pc' = [pc EXCEPT ![w] = "sweeping"]
    /\ UNCHANGED <<stale, cur, attempt, posting, snap, history, doubt>>

(* execute with the claim token: load the row and verify ownership.         *)
StartItem(w, d) ==
    /\ pc[w] = "sweeping"
    /\ d \in batch[w]
    /\ Owned(w, d)
    /\ pc' = [pc EXCEPT ![w] = "claimed"]
    /\ cur' = [cur EXCEPT ![w] = d]
    /\ attempt' = [attempt EXCEPT ![w] = attempts[d]]
    /\ batch' = [batch EXCEPT ![w] = @ \ {d}]
    /\ UNCHANGED <<row, posting, tok, snap, history, doubt>>

SkipItem(w, d) ==
    /\ pc[w] = "sweeping"
    /\ d \in batch[w]
    /\ ~Owned(w, d)
    /\ batch' = [batch EXCEPT ![w] = @ \ {d}]
    /\ pc' = [pc EXCEPT ![w] = IF batch[w] = {d} THEN "idle" ELSE @]
    /\ tok' = [tok EXCEPT ![w] = IF batch[w] = {d} THEN Null ELSE @]
    /\ UNCHANGED <<row, posting, cur, attempt, snap, history, doubt>>

(* The deadline: the rows not started are put back, whoever holds them now. *)
Release(w) ==
    LET B == batch[w] IN
    /\ pc[w] = "sweeping"
    /\ status' = [d \in Deliveries |-> IF d \in B THEN "QUEUED" ELSE status[d]]
    /\ lockedBy' = [d \in Deliveries |-> IF d \in B THEN Null ELSE lockedBy[d]]
    /\ sending' = [d \in Deliveries |-> d \notin B /\ sending[d]]
    /\ stale' = [d \in Deliveries |-> d \notin B /\ stale[d]]
    /\ attempts' = [d \in Deliveries |-> IF d \in B THEN attempts[d] - 1 ELSE attempts[d]]
    /\ pc' = [pc EXCEPT ![w] = "idle"]
    /\ tok' = [tok EXCEPT ![w] = Null]
    /\ batch' = [batch EXCEPT ![w] = {}]
    /\ overwritten' = overwritten \cup
          {d \in B : status[d] # "QUEUED" /\ lockedBy[d] # tok[w]}
    /\ UNCHANGED <<cur, attempt, posting, snap, calls, accepted, doubt>>

-----------------------------------------------------------------------------
(* EmailDeliveryExecutor.execute once the row is claimed                    *)

(* Suppressed, no marketing consent, no provider, or nothing to send.       *)
Reject(w) ==
    /\ pc[w] = "claimed"
    /\ UnlockIf(OwnedByUs(w), cur[w], "FAILED")
    /\ EndItem(w)
    /\ UNCHANGED <<posting, snap, history, doubt>>

(* Mutant: the marker is set by id alone, not under our token.              *)
MarkByIdOnly(w) ==
    LET d == cur[w] IN
    /\ pc[w] = "claimed"
    /\ sending' = [sending EXCEPT ![d] = TRUE]
    /\ pc' = [pc EXCEPT ![w] = "sending"]
    /\ calls' = [calls EXCEPT ![d] = @ + 1]
    /\ UNCHANGED <<status, attempts, lockedBy, stale, cur, tok, attempt, batch, posting, snap,
                   accepted, overwritten, doubt>>

(* The in-flight marker, and the provider call it announces.                *)
MarkInFlight(w) ==
    LET d == cur[w] IN
    /\ pc[w] = "claimed"
    /\ OwnedByUs(w)
    /\ sending' = [sending EXCEPT ![d] = TRUE]
    /\ stale' = [stale EXCEPT ![d] = FALSE]
    /\ pc' = [pc EXCEPT ![w] = "sending"]
    /\ calls' = [calls EXCEPT ![d] = @ + 1]
    /\ UNCHANGED <<status, attempts, lockedBy, cur, tok, attempt, batch, posting, snap,
                   accepted, overwritten, doubt>>

ClaimLost(w) ==
    /\ pc[w] = "claimed"
    /\ ~OwnedByUs(w)
    /\ EndItem(w)
    /\ UNCHANGED <<row, posting, snap, history, doubt>>

ProviderAccepts(w) ==
    /\ pc[w] = "sending"
    /\ pc' = [pc EXCEPT ![w] = "accepted"]
    /\ accepted' = [accepted EXCEPT ![cur[w]] = @ + 1]
    /\ UNCHANGED <<row, posting, cur, tok, attempt, batch, snap, calls, overwritten, doubt>>

(* A retryable failure goes back to the queue while this invocation's own   *)
(* count of attempts allows it.                                             *)
MayTryAgain(w, retryable) == retryable /\ attempt[w] < MaxAttempts

(* The provider reports failure.  A timeout, a broken connection and an     *)
(* answer that cannot be read are retryable failures too, and the provider  *)
(* may have taken the delivery all the same.                                *)
SendFails(w, retryable, took) ==
    LET d == cur[w] IN
    /\ pc[w] = "sending"
    /\ took => retryable /\ AnswersMayBeLost
    /\ hidden' = IF took THEN [hidden EXCEPT ![d] = @ + 1] ELSE hidden
    /\ unclear' = IF took /\ MayTryAgain(w, retryable) /\ OwnedInFlight(w)
                  THEN unclear \cup {d} ELSE unclear
    /\ UnlockIf(OwnedInFlight(w), d, IF MayTryAgain(w, retryable) THEN "QUEUED" ELSE "FAILED")
    /\ EndItem(w)
    /\ UNCHANGED <<posting, snap, history>>

RecordSent(w) ==
    /\ pc[w] = "accepted"
    /\ UnlockIf(OwnedInFlight(w), cur[w], "SENT")
    /\ EndItem(w)
    /\ UNCHANGED <<posting, snap, history, doubt>>

(* A database error inside execute: the row keeps whatever it holds.  One   *)
(* after a lost answer leaves the row as one after an acceptance does.      *)
DatabaseError(w) ==
    /\ pc[w] \in {"loaded", "refused", "claimed", "sending", "accepted"}
    /\ EndItem(w)
    /\ UNCHANGED <<row, posting, snap, history, doubt>>

(* The invocation is killed.                                                *)
Crash(w) ==
    /\ pc[w] # "idle"
    /\ pc' = [pc EXCEPT ![w] = "idle"]
    /\ tok' = [tok EXCEPT ![w] = Null]
    /\ batch' = [batch EXCEPT ![w] = {}]
    /\ cur' = [cur EXCEPT ![w] = Null]
    /\ attempt' = [attempt EXCEPT ![w] = 0]
    /\ UNCHANGED <<row, posting, snap, history, doubt>>

-----------------------------------------------------------------------------
(* Ten minutes pass since a lock was taken or its marker set.               *)
LockExpires(d) ==
    /\ status[d] = "PROCESSING"
    /\ ~stale[d]
    /\ OwnersMayStall \/ \A w \in Invocations : tok[w] # lockedBy[d]
    /\ stale' = [stale EXCEPT ![d] = TRUE]
    /\ UNCHANGED <<status, attempts, lockedBy, sending, local, posting, snap, history, doubt>>

(* Mutant: stale rows with a marker are left for someone else.              *)
UnmarkedStaleRows ==
    {[id |-> d, lockedBy |-> lockedBy[d], sending |-> FALSE, attempts |-> attempts[d]] :
        d \in {e \in Deliveries : status[e] = "PROCESSING" /\ stale[e] /\ ~sending[e]}}

(* ReconciliationExecutor.reconcile: findMany, then one update per row.     *)
StaleRows ==
    {[id |-> d, lockedBy |-> lockedBy[d], sending |-> sending[d], attempts |-> attempts[d]] :
        d \in {e \in Deliveries : status[e] = "PROCESSING" /\ stale[e]}}

ReconcileRead(r) ==
    /\ snap[r] = {}
    /\ StaleRows # {}
    /\ snap' = [snap EXCEPT ![r] = StaleRows]
    /\ UNCHANGED <<row, posting, local, history, doubt>>

(* Mutant: an interrupted send is queued again.                             *)
RequeueInFlight(r, s) ==
    /\ s.sending
    /\ UnlockIf(status[s.id] = "PROCESSING" /\ lockedBy[s.id] = s.lockedBy /\ sending[s.id],
                s.id, "QUEUED")
    /\ snap' = [snap EXCEPT ![r] = @ \ {s}]
    /\ UNCHANGED <<posting, local, history, doubt>>

(* A marker is resolved only under the lock that was read.                  *)
ReconcileInFlight(r, s) ==
    /\ s.sending
    /\ UnlockIf(status[s.id] = "PROCESSING" /\ lockedBy[s.id] = s.lockedBy /\ sending[s.id],
                s.id, "UNKNOWN")
    /\ snap' = [snap EXCEPT ![r] = @ \ {s}]
    /\ UNCHANGED <<posting, local, history, doubt>>

(* Any other row is requeued, or failed at its attempt limit, under any lock. *)
ReconcileAbandoned(r, s) ==
    /\ ~s.sending
    /\ UnlockIf(status[s.id] = "PROCESSING", s.id,
                IF s.attempts >= MaxAttempts THEN "FAILED" ELSE "QUEUED")
    /\ snap' = [snap EXCEPT ![r] = @ \ {s}]
    /\ overwritten' =
          IF status[s.id] = "PROCESSING" /\ (lockedBy[s.id] # s.lockedBy \/ sending[s.id])
          THEN overwritten \cup {s.id}
          ELSE overwritten
    /\ UNCHANGED <<posting, local, calls, accepted, doubt>>

ReconcileStops(r) ==
    /\ snap[r] # {}
    /\ snap' = [snap EXCEPT ![r] = {}]
    /\ UNCHANGED <<row, posting, local, history, doubt>>

-----------------------------------------------------------------------------
Execute(w) ==
    \/ Claim(w) \/ ClaimRefused(w) \/ ReportRefusal(w)
    \/ Reject(w) \/ MarkInFlight(w) \/ ClaimLost(w)
    \/ ProviderAccepts(w)
    \/ \E retryable, took \in BOOLEAN : SendFails(w, retryable, took)
    \/ RecordSent(w)

Sweep(w) ==
    \/ \E B \in SUBSET Transactional : SweepClaim(w, B)
    \/ \E d \in Deliveries : StartItem(w, d) \/ SkipItem(w, d)

ReconcileRow(r) ==
    \E s \in snap[r] : ReconcileInFlight(r, s) \/ ReconcileAbandoned(r, s)

Next ==
    \/ \E d \in Deliveries :
          Enqueue(d) \/ Post(d) \/ PostEnds(d) \/ PostFails(d) \/ LockExpires(d)
    \/ \E w \in Invocations :
          \/ \E d \in Deliveries : Load(w, d)
          \/ Execute(w) \/ Sweep(w) \/ Release(w)
          \/ DatabaseError(w) \/ Crash(w)
    \/ \E r \in Reconcilers : ReconcileRead(r) \/ ReconcileRow(r) \/ ReconcileStops(r)

Spec == Init /\ [][Next]_vars

-----------------------------------------------------------------------------
(* Properties.  overwritten holds the rows on which a blind write (the      *)
(* release of an unstarted batch, the requeue of an abandoned row, the      *)
(* failed enqueue) ignored a claim other than the one its writer had seen.  *)

(* A provider accepts a delivery at most once, whatever crashes, stalls and *)
(* sweeps do: a send interrupted in the provider call is never repeated     *)
(* (claim-lock.ts:7-10, decision D-12-01), nor is one whose answer was lost *)
(* on the last attempt.  The same decision has an earlier lost answer tried *)
(* again, at least once: such a row, in unclear, may have been taken before,*)
(* and is answered as accepted at most once.  Rows whose lock was           *)
(* overwritten are excepted.                                                *)
AcceptedAtMostOnce ==
    \A d \in Deliveries \ overwritten :
        /\ accepted[d] <= 1
        /\ d \notin unclear => accepted[d] + hidden[d] <= 1

(* Two invocations are never inside the provider call for one delivery, and *)
(* none can claim the row during one, unless its lock was overwritten.      *)
Calling(w) == pc[w] \in {"sending", "accepted"}

CallIsExclusive ==
    \A w \in Invocations : Calling(w) /\ cur[w] \notin overwritten =>
        /\ ~Claimable(cur[w])
        /\ \A v \in Invocations : Calling(v) /\ cur[v] = cur[w] => v = w

(* Every provider call is paid for by an attempt: the releases that give    *)
(* attempts back never return one that was spent on a call.                 *)
CallsWithinAttempts == \A d \in Deliveries : calls[d] <= attempts[d]

(* What a caller is promised, as SendPromise says it: invocations, sweeps   *)
(* and reconciliations together take each row from queued to sent, failed   *)
(* or unknown.  A delivery the provider accepted ends as SENT or as         *)
(* SEND_OUTCOME_UNKNOWN, never as an ordinary failure nor back in the       *)
(* queue - unless its lock was overwritten.  Here a delivery counts as      *)
(* accepted when the provider said so.                                      *)
Outcome ==
    [d \in Deliveries |->
        CASE status[d] = "NONE"       -> "none"
          [] status[d] = "QUEUED"     -> "queued"
          [] status[d] = "PROCESSING" -> "working"
          [] status[d] = "SENT"       -> "sent"
          [] status[d] = "FAILED"     -> "failed"
          [] status[d] = "UNKNOWN"    -> "unknown"]

Promise == INSTANCE SendPromise
    WITH Mails <- Deliveries, outcome <- Outcome, times <- accepted, spoiled <- overwritten

SendsAsPromised == Promise!PromiseSpec

(* SENT and FAILED are final (decision D-12-02), unless the lock was        *)
(* overwritten.                                                             *)
ClosedStaysClosed ==
    [][\A d \in Deliveries :
          status[d] \in Terminal /\ status'[d] # status[d] => d \in overwritten']_vars

(* The same promise as the documents make it: no delivery is ever accepted  *)
(* twice (EXECUTIVE_SESSION_AUDIT.md:185).                                  *)
ExactlyOnceInitiation == \A d \in Deliveries : accepted[d] <= 1

-----------------------------------------------------------------------------
(* The inductive invariant behind these properties, in named parts.         *)

(* A row carries a lock exactly while it is PROCESSING, unless a failed     *)
(* enqueue closed it under its holder.                                      *)
LockShape ==
    \A d \in Deliveries :
        /\ status[d] = "PROCESSING" => lockedBy[d] # Null
        /\ status[d] \in {"NONE", "QUEUED"} => lockedBy[d] = Null
        /\ sending[d] \/ stale[d] => lockedBy[d] # Null
        /\ lockedBy[d] # Null => status[d] = "PROCESSING" \/ d \in overwritten

(* What an invocation remembers in each phase.                              *)
LocalShape ==
    \A w \in Invocations :
        /\ tok[w] = Null <=> pc[w] \in {"idle", "loaded", "refused"}
        /\ tok[w] = Null => batch[w] = {}
        /\ cur[w] \notin batch[w]

TokensUnique ==
    \A v, w \in Invocations : tok[v] = tok[w] /\ tok[v] # Null => v = w

(* No row its holder has yet to send carries the holder's in-flight marker. *)
UnsentUnmarked ==
    \A w \in Invocations, d \in Deliveries :
        /\ lockedBy[d] = tok[w]
        /\ d \in batch[w] \/ (pc[w] = "claimed" /\ d = cur[w])
        => ~sending[d]

(* During a provider call the row carries the caller's marker, until        *)
(* reconciliation resolves it to SEND_OUTCOME_UNKNOWN.                      *)
CallMarked ==
    \A w \in Invocations :
        Calling(w) /\ cur[w] \notin overwritten =>
            OwnedInFlight(w) \/ status[cur[w]] = "UNKNOWN"

OneCaller ==
    \A v, w \in Invocations :
        Calling(v) /\ Calling(w) /\ cur[v] = cur[w] /\ cur[w] \notin overwritten => v = w

AcceptanceMarked ==
    \A d \in Deliveries \ overwritten :
        /\ accepted[d] \in {0, 1}
        /\ accepted[d] = 1 => sending[d] \/ status[d] \in {"SENT", "UNKNOWN"}
        /\ status[d] = "SENT" => accepted[d] = 1
        /\ \A w \in Invocations : cur[w] = d =>
              /\ pc[w] = "sending" => accepted[d] = 0
              /\ pc[w] = "accepted" => accepted[d] = 1

(* A row that was taken behind a failure, and not queued again, is closed,  *)
(* and nobody is calling a provider for it.                                 *)
HiddenIsClosed ==
    \A d \in Deliveries \ (overwritten \cup unclear) :
        /\ hidden[d] \in {0, 1}
        /\ hidden[d] = 1 =>
              /\ accepted[d] = 0
              /\ status[d] \in {"FAILED", "UNKNOWN"}
              /\ \A w \in Invocations : cur[w] = d => ~Calling(w)

(* Attempts taken and not yet spent on a call: what Release may give back.  *)
Pending(d) == {w \in Invocations : d \in batch[w] \/ (pc[w] = "claimed" /\ cur[w] = d)}

(* Every call and every pending claim has its attempt, whatever locks were  *)
(* overwritten: a batch may release a row only once.                        *)
AttemptsCover == \A d \in Deliveries : calls[d] + Cardinality(Pending(d)) <= attempts[d]

IInv ==
    /\ TypeOK /\ LockShape /\ LocalShape /\ TokensUnique
    /\ UnsentUnmarked /\ CallMarked /\ OneCaller /\ AcceptanceMarked /\ HiddenIsClosed

-----------------------------------------------------------------------------
(* Fairness.  pg_cron calls the processor every minute and reconciliation   *)
(* every five, so a live invocation takes its next step, a provider call    *)
(* returns, a lock grows old and stale rows are read.  Weak fairness on     *)
(* claims and starts would not do: a row can be claimed and released at the *)
(* deadline for ever, so the sweep needs a turn it completes.               *)
Fairness ==
    /\ \A d \in Deliveries : WF_vars(LockExpires(d))
    /\ \A w \in Invocations : WF_vars(Execute(w)) /\ WF_vars(\E d \in Deliveries : SkipItem(w, d))
    /\ \A w \in Invocations, d \in Deliveries :
          /\ SF_vars(\E B \in SUBSET Transactional : d \in B /\ SweepClaim(w, B))
          /\ SF_vars(StartItem(w, d))
    /\ \A r \in Reconcilers : WF_vars(ReconcileRead(r)) /\ SF_vars(ReconcileRow(r))

FairSpec == Spec /\ Fairness

(* Every transactional delivery that is queued or claimed reaches SENT or   *)
(* FAILED, through crashes, database errors, lost locks and overwrites.     *)
TransactionalResolved ==
    \A d \in Transactional :
        status[d] \in {"QUEUED", "PROCESSING"} ~>
            status[d] \in Terminal \/ attempts[d] = AttemptCap
=============================================================================
