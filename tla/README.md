# Verification of the messaging pipeline

TLA+ models, TLC runs and TLAPS proofs for the email, job-queue, campaign, automation, WhatsApp,
webhook, code, account and audience logic of `promotions` (a Next.js application on PostgreSQL
through Prisma). Paths below are relative to the repository (`src/lib/...`, often shortened to
the file's name); in `PROJECT.json` they carry one more `src/` in front.

The application has no resident worker. Work is kept in tables, and short-lived serverless
invocations (pg_cron every minute for the processor, every five minutes for reconciliation, plus
every API request) claim rows with conditional updates, act on the outside world, and write the
outcome back. Any invocation can be killed at any statement, two can overlap, and nothing is
shared but the database. That is what the models are about.

## 1. Inventory

### Components, their state and operations

| Component | Source | State | Operations |
|---|---|---|---|
| Email delivery execution | `services/executors/email-delivery-executor.ts`, `claim-lock.ts` | `EmailDelivery` rows: status, attemptCount, lockedBy (token, with `:sending` while a provider call is under way), lastAttemptAt | `execute(id)` (job path), `execute(id, claimToken)` (sweep path) |
| Transactional sweep | `services/serverless-job-processor.ts:355-445` | the same rows, a batch in memory | claim a batch, run it, release the rest at the deadline |
| Delivery creation | `services/email-dispatch-service.ts`, `app/api/v1/email/send/route.ts` | creates deliveries and jobs | `enqueueBackground`, `send`, `POST` |
| Background job queue | `services/serverless-job-processor.ts:140-345`, `email/queue/queues.ts` | `BackgroundJob` rows: status, attempts, lockedBy, lockedAt, jobKey | `add`, `remove`, claim, run, yield, complete, retry, fail, release |
| Reconciliation | `services/executors/reconciliation-executor.ts` | none of its own | one read and then one update per stale delivery, recipient, message and job; completes campaigns |
| Processor | `serverless-job-processor.ts` `processAll`, `app/api/internal/process-jobs` | deadlines | eight stages one after the other |
| Campaign recipients | `executors/campaign-recipient-executor.ts`, `serverless-job-processor.ts:506-595` | `EmailCampaignRecipient` and its `EmailDelivery` | `executeRecipient` with and without token, the recipient sweep |
| Campaign lifecycle | `services/email-campaign-service.ts`, `executors/campaign-trigger-service.ts` | `EmailCampaign.status`, trigger jobs, the frozen audience | send now, schedule, trigger, snapshot, pause, resume, cancel, `checkAndCompleteCampaign` |
| Email events, tracking | `services/email-event-service.ts`, `executors/email-event-processor.ts`, `email-tracking-service.ts` | `EmailEvent` rows; the status of delivery and recipient; a campaign's counters | ingest, claim, apply, count, suppress, open and click |
| WhatsApp messages | `services/message-service.ts`, `webhook-service.ts`, `executors/whatsapp-message-executor.ts` | `Message` and `MessageEvent` rows | send, retry, status webhooks |
| Outgoing webhooks | `lib/webhooks/dispatcher.ts` | `WebhookDelivery` rows | dispatch with an immediate attempt, queue, stale release, manual retry |
| Automations | `services/email-automation-service.ts`, `executors/automation-executor.ts` | enrollments, the automation's status and counters, child campaigns, step jobs | enroll, execute a step, time out, sweep, pause, activate |
| OTP | `services/otp-service.ts` | `OtpVerification` rows | request, verify, expire |
| Accounts | `app/api/auth/*`, `app/api/admin/users/route.ts`, `services/auth-token-service.ts` | `User`, `UserSession` and reset tokens | login, logout, change and delete a user, forgot and reset a password |
| Segments | `services/email-segment-service.ts` | stored criteria | validate, translate to a query, judge in memory |
| Audience | `services/email-audience-resolver.ts` | the recipients of a campaign, an advisory lock | walk list and segment, preview, snapshot |
| Consent and suppression | `services/email-suppression-service.ts`, `email-unsubscribe-service.ts`, `email-contact-service.ts` | `EmailContact` consent and status, `EmailSuppression` | unsubscribe, report, suppress, lift, import, update; the checks before each mail |
| Rate limits and quotas | `lib/rate-limit.ts`, `services/email-quota-service.ts` | window counters | check and count |
| Lifecycle, routing | `lib/communication/*` | none | pure functions, dispatch to adapters |

The full list, with what is left out and why, is in `PROJECT.json` under `components`.

### How they interact

Creation writes a delivery and (in the same transaction for `enqueueBackground`, afterwards for
`/email/send`) a job whose key is made from the delivery's id. A processor invocation claims
jobs under a fresh token and runs `EmailDeliveryExecutor.execute(id)`, which makes its own claim
on the delivery row. In a later stage of the same invocation, or in another one, the sweep
claims transactional rows directly and hands its token to `execute`. Reconciliation reads rows
whose lock is older than ten minutes and updates them one by one. Campaign recipients follow the
same protocol with a second row per send. Provider events, tracking pixels and status webhooks
update rows by id. An automation's SEND step makes a campaign of its own for one recipient and
leaves the rest to the campaign's path. A campaign's recipients come from a walk over list and
segment in the resolver; before each mail, consent and suppression are asked again by whoever
sends.

### What is hard

* Interleaving of claims: job path, sweep, stale-lock takeover and reconciliation all write the
  same row.
* Writes that do not check the lock: releases at the deadline
  (`serverless-job-processor.ts:192-200, 413-421`), reconciliation's requeue
  (`reconciliation-executor.ts:96-120, 241`), the failed enqueue of `/email/send`, every write
  of an event, an automation or an administrator.
* A kill between the provider's acceptance and the write of `SENT`, and between any two of the
  writes that an event, a reset or an opt-out is made of.
* Two attempt counters (delivery and job, message and job), one of them read before the claim.
* Reads that are acted on later: reconciliation's snapshots, campaign transitions, event
  application, status order, enrollments, pages of an audience, accounts.

The hazards, each at its line and with the properties that watch it, are in `PROJECT.json` under
`hazards`.

### What makes each component correct

* **Deliveries**: the provider accepts a message at most once, unless its answer was lost and the
  code tries again; one that it answered as accepted is never queued again nor reported as an
  ordinary failure; SENT and FAILED are final; calls stay within the
  attempts; a transactional delivery is eventually resolved.
* **Jobs**: a job is held by one invocation; it is closed only for a reason; the attempt limit
  holds although the claim does not check it; every job settles.
* **Reconciliation**: it takes nothing from a live holder (under the timing of the deployment)
  and leaves nothing waiting for ever.
* **Campaigns**: a recipient is sent at most once; that it was sent is never lost; a COMPLETED
  campaign has nobody left to serve; no campaign stays RUNNING for ever.
* **Events**: an outcome the provider reported stands; each outcome is counted once; a processed
  complaint has suppressed the address; every event settles.
* **WhatsApp**: accepted once, within the limit of calls; what the sender tells of it is one
  thing, and true; no report of Meta is passed on of a message that was told as failed; a waiting
  message has its job; the status never steps back; every message settles.
* **Outgoing webhooks**: the endpoint takes an event once, and the row says in the end whether
  it did; every row is delivered or given up.
* **Automations**: a step sends its email once; the counters agree with the enrollment; an ended
  journey stays ended; every journey ends.
* **Codes and accounts**: a code or token is used once, the newest code wins, guesses are
  limited; an active admin remains; no session outlives its password.
* **Recipients**: the two interpreters of a segment mean the same; a walk finds who qualifies
  and nobody else; recipients are frozen once; a returned opt-out is honoured by every path;
  contact and suppression agree.
* **Rate limits** (not modelled): limits under concurrency.

Several of these hold only with exceptions. Where the code has one, the model records in a
history variable that the exceptional thing happened, and the property names it; no guard reads
such a variable.

## 2. Modules

| Module | Models | Checked by | Proved in |
|---|---|---|---|
| `EmailDelivery` | delivery rows and all that claims, sends, releases and reconciles them | `MCEmailDelivery`, two cfgs | `EmailPipelineProofs` |
| `SendPromise` | nothing of the code: what a caller is promised about each mail | implemented by `EmailDelivery` and `Campaigns`, in their runs | `EmailPipelineProofs`, `CampaignsProofs` |
| `BackgroundJobs` | the job table, with jobs of any kind | `MCBackgroundJobs` | `BackgroundJobsProofs` |
| `EmailPipeline` | both together: jobs whose body is `execute` | `MCEmailPipeline` | `EmailPipelineProofs` |
| `Campaigns` | one campaign: admin requests, the trigger, recipients with their deliveries, completion, reconciliation of all three | `MCCampaigns`, two cfgs | `CampaignsProofs` |
| `EmailEvents` | what becomes of a mail after the provider has it: events, opens, counters, suppression | `MCEmailEvents` | `EmailEventsProofs` |
| `OutboundWebhooks` | the deliveries of outgoing webhooks | `MCOutboundWebhooks` | `OutboundWebhooksProofs` |
| `WhatsAppMessages` | one message from its requests to its last status report | `MCWhatsAppMessages` | `WhatsAppMessagesProofs` |
| `Journeys` | the journey of one contact through one automation | `MCJourneys` | `JourneysProofs` |
| `Otp` | one-time codes of one destination | `MCAccess` | `PeopleProofs` |
| `Accounts` | logins, admin calls, password resets | `MCAccess` | `PeopleProofs` |
| `Segments` | the two interpreters of a segment's criteria | `MCRecipients` | `PeopleProofs` |
| `Audience` | the walk that finds and fixes a campaign's recipients | `MCRecipients` | `PeopleProofs` |
| `Consent` | consent and suppression of one address, and who asks | `MCRecipients` | `PeopleProofs` |

`MCAccess` and `MCRecipients` check modules that share no variable. Each EXTENDS the modules it
checks and adds a variable `part`, which is fixed in the initial state and says what a behaviour
is about; the variables of the other modules rest. So the run checks the very definitions the
theorems are about.

### EmailDelivery and the code

A step is one database statement, one provider call or its answer. What an invocation keeps in
local variables is state of the model, so that any other invocation may act between its
statements.

| State | Code |
|---|---|
| `status`, `attempts` | `EmailDelivery.status`, `attemptCount`. `UNKNOWN` is FAILED with errorCode `SEND_OUTCOME_UNKNOWN` |
| `lockedBy[d]`, `sending[d]` | the token in `lockedBy` and its `:sending` suffix |
| `stale[d]` | `lockedAt`/`lastAttemptAt` older than `STALE_LOCK_MS` (10 min) |
| `posting` | rows created by a `/email/send` request whose job is not yet added |
| `pc`, `cur`, `tok`, `attempt`, `batch` | position and local variables of an invocation |
| `snap[r]` | the rows returned by reconciliation's `findMany` and not yet handled |
| `calls`, `accepted`, `hidden`, `unclear`, `overwritten` | history; no guard reads them: provider calls; acceptances it answered; acceptances behind an answer that looked like a failure; rows queued again after one of these; rows whose lock was overwritten |

| Action | Code |
|---|---|
| `Enqueue`, `Post`, `PostEnds`, `PostFails` | `enqueueBackground`; the `POST` handler up to and around `queue.add` |
| `Load`, `Claim`, `ClaimRefused`, `ReportRefusal` | `execute` up to its conditional `updateMany`, and the re-read after losing it |
| `SweepClaim`, `StartItem`, `SkipItem`, `Release` | `processTransactionalEmails`: one `UPDATE ... FOR UPDATE SKIP LOCKED`, `execute` with the token, the release at the deadline |
| `Reject`, `MarkInFlight`, `ClaimLost` | suppression, consent and content checks; the marker update and its loss |
| `ProviderAccepts`, `SendFails`, `RecordSent` | the provider's answer and the conditional write after it |
| `DatabaseError`, `Crash` | an exception from any statement; the kill of the invocation |
| `LockExpires` | time |
| `ReconcileRead`, `ReconcileInFlight`, `ReconcileAbandoned`, `ReconcileStops` | `reconcile`, delivery part |

Abstractions: a fresh token is one nobody uses (`newClaimToken` joins the time and six random
characters, which the code takes to be unique). `nextAttemptAt` is dropped: a queued row may be
due at any time (the executor's own claim does not look at it).

A timeout, a broken connection and a 200 answer that cannot be read are failures that may be
tried again (`gmail-provider.ts:156-200`), and behind each the provider may have taken the mail:
`SendFails` with `took` (where `AnswersMayBeLost`). The row then goes back to the queue, or to
FAILED on its last attempt. Decision D-12-01 (`documentation/06-decision-register.md:21`) has it
so: a send that was interrupted is never repeated, "ambiguous provider timeouts are still retried
(at-least-once)". `AcceptedAtMostOnce` therefore counts both kinds of acceptance, and excepts
from the sum the rows that were queued again after a hidden one (`unclear`); of these it says
that the provider answers so at most once. Everywhere else, in `SendPromise` and its
refinements, in `PermanentMeansOver` and in `Campaigns`, "accepted" means that the provider said
so: FAILED does not exclude that a lost answer hid an acceptance.

The model lets an invocation load any row on the job path; the jobs that would ask for it are in
`EmailPipeline`. Provider events that move a delivery from SENT to DELIVERED or BOUNCED are in
`EmailEvents`; the delivery rows of campaign recipients are in `Campaigns`.

`OwnersMayStall` chooses between two readings of time. TRUE: the owner of a stale lock may be
alive and slow, which is all the code itself can assume. FALSE: an invocation is killed by the
platform (`maxDuration` 60 s in `api/internal/process-jobs/route.ts:15`) long before its lock is
ten minutes old.

`overwritten` collects the rows on which a write that checks no token hit a claim other than the
one its writer had seen. The safety properties speak of the other rows, because on those rows
they fail; `ExactlyOnceInitiation` is the same promise without the exception, and its run shows
how it breaks.

### SendPromise and its two implementations

`SendPromise` knows neither locks nor invocations. Each mail has an outcome (none, queued,
working, sent, failed, unknown) and a number of times a provider took it; sent is written only
of a mail that was taken once, failed and queued only of one that was not, a mail is taken only
while it is being worked on or its outcome is unknown, and unknown can only become sent. Its
invariant `RecordsAreTrue` is what a caller may conclude.

* `EmailDelivery` implements it with `Outcome` read off the status (`SendsAsPromised`).
* `Campaigns` implements it with two rows per mail: the recipient's status, unless its delivery
  says SENT (`RecipientsAsPromised`). A recipient that goes back to PENDING, or is cancelled,
  after its delivery was recorded is therefore sent. An outcome that reconciliation closed as
  unknown may still become sent, when a sender that was slow records its delivery.

In both, `times` is the history variable `accepted` and `spoiled` is `overwritten`: the promise
says nothing of a mail from the moment a write that checks no token hits a claim its writer had
not seen. `WhatsAppMessages` does not implement it: there FAILED does not mean that Meta did not
take the message (`MessageService.send` writes FAILED when it cannot write SENT).

### BackgroundJobs and the code

`ClaimJobs`, `StartJob`, `Return`, `RecordYield`, `RecordDone`, `RecordError`, `RecordingFails`,
`ReleaseJobs` and `JobCrash` are the statements of `processBackgroundJobs` in order; `AddJob`
and `RemoveJob` are the queue; `ReconcileReadJobs`, `ReconcileJob` and `ReconcileJobsStop` are
reconciliation's last loop. The body of a job is one step with any result: `done`, `yield`
(`EXECUTION_YIELD`, another holder has the item), `retry`, or `permanent`. `jseen` is the
attempt count the claim's `RETURNING` delivered, which the code compares with `maxAttempts` when
the body fails. `displaced` plays the part of `overwritten`: jobs taken from an invocation that
still relied on them. A key that is removed and added again is a new row; the model's row stays
REMOVED.

### EmailPipeline and the code

`EXTENDS EmailDelivery` and instantiates `BackgroundJobs` with one job per delivery. The step
that ends `execute` also ends the body of the job, with what `execute` returned or threw: a
refusal becomes `yield` if the row is PROCESSING when it is read again and `done` otherwise, a
failure becomes `retry` or a permanent error by the executor's own count. The sweep runs only in
an invocation that is not in its job stage, as `processAll` runs its stages in turn. A
reconciliation may hold delivery and job snapshots at once, which allows a little more than its
sequential loops do; the tables it updates are disjoint.

### Campaigns and the code

| State | Code |
|---|---|
| `campaign` | `EmailCampaign.status` |
| `status`, `attempts`, `lockedBy`, `sending` | the recipient row: status, attemptCount, token and `:sending` suffix. `NONE`: not in the audience, or not yet; `UNKNOWN`: FAILED with `SEND_OUTCOME_UNKNOWN` |
| `dstatus`, `dlock` | the `EmailDelivery` found by the recipient's idempotency key; `NONE`: no such row. Its lock always carries the suffix |
| `request[q]` | how far an admin request or a trigger has come |
| `pc`, `cur`, `tok`, `attempt`, `batch` | position and local variables of an invocation that executes recipients |
| `snap[r]` | recipients returned by reconciliation's `findMany` and not yet handled, with the campaign status read along |
| `closing` | who has counted no active recipient and has still to write COMPLETED |
| `accepted`, `overwritten`, `premature` | history; no guard reads them |

| Action | Code |
|---|---|
| `Begin` | the read of the campaign and `validateTransition` of send, schedule, pause, resume, cancel; the read of a trigger |
| `FreezeAudience` | `createRecipientSnapshot`, before RUNNING for send now, after it for a trigger |
| `Write`, `Resume`, `CancelPending` | the writes by id that follow, in the order of each method |
| `Trigger`, `Seeded` | the conditional SCHEDULED to RUNNING; the guard for an empty audience |
| `Load`, `Claim`, `ClaimRefused`; `SweepClaim`, `StartItem`, `SkipItem`, `Release` | the two ways to claim a recipient, as in `EmailDelivery` |
| `CheckCampaign`, `Withdraw`, `Suppress` | the campaign's status is read once; what was read decides |
| `FindDelivery`, `MarkInFlight`, `WriteDelivery`, `ProviderAccepts`, `RecordDelivery`, `RecordRecipient` | the send, statement by statement |
| `BookkeepingFails`, `Fails`, `ReleaseDelivery`, `GivesUp`, `Crash` | the `catch`, by what was sent and recorded so far; the kill |
| `CountActive`, `Complete` | `checkAndCompleteCampaign`: a count, then a conditional update |
| `ReconcileDelivery`, `ReconcileInFlight`, `ReconcileRead`, `ReconcileRecipient`, `ReconcileStops` | `reconcile` |

Abstractions. Staleness is not state here: a lock may be found stale whenever its owner may have
outlived it (`MayBeStale`), since ten minutes may pass before any step that asks. The jobs of
recipients are left out: any invocation may ask for any active recipient at any time, which
includes every order the jobs could ask in. `Freeze` picks any audience. A recipient that is
suppressed is checked for completion twice in a row (once in the handler, once in the `catch` of
the error it throws); the model has one such check. The counters (`sentCount` and others) and
provider events, which write recipients and deliveries by id, are in `EmailEvents`; automation
steps, which make campaigns of their own, are in `Journeys`. Neither is composed with this
module yet.

`overwritten` plays the same part as in `EmailDelivery`. `premature` records that the campaign
was RUNNING or PAUSED while its audience was not frozen: `triggerScheduledCampaign` does it, and
so do pausing and then resuming a SCHEDULED campaign. `CompletedMeansSettled` speaks of the
other campaigns. Of a premature one, reconciliation may find no active recipient between RUNNING
and the snapshot, and complete it before it has sent anything.

### EmailEvents and the code

| State | Code |
|---|---|
| `dstatus`, `known` | `EmailDelivery.status`, and whether its `providerMessageId` is stored |
| `rstatus`, `counted` | the recipient's status, and its share of the campaign's counters |
| `suppressed` | the addresses with an `EmailSuppression` row |
| `kind`, `estatus`, `attempts` | the `EmailEvent` row |
| `spc`, `sends`, `sseen`, `marked`, `accepted` | the executor that sends the mail, from its look at the delivery to its bookkeeping |
| `posting` | events whose webhook request has not added their job yet |
| `pc`, `cur`, `used`, `seen`, `rseen` | a worker: position, event, attempts it read, statuses it read of delivery and recipient |
| `qpc`, `qcur`, `qseen`, `qrseen` | the same of a tracking request |
| `raced` | history: deliveries of which a write by id missed a change, of delivery or recipient, since its writer's read |

| Action | Code |
|---|---|
| `Look`, `RefuseSuppressed`, `Dispatch`, `ClaimLost`, `SendFails`, `RecordDelivery`, `RecordRecipient`, `BookkeepingFails`, `SenderDies` | `executeRecipient` from its read of the delivery on |
| `ReconcileRecipient`, `ReconcileDelivery` | `reconcile` |
| `Record`, `Enqueued`, `EnqueueFails` | `recordAndEnqueueEvent`; when the job cannot be added the event is FAILED, and the provider's retry is deduplicated (`email-event-service.ts:350-367`) |
| `LoadReceived`, `Load`, `ClaimEvent`, `ClaimRefused` | how `processEventFromWorker` and the sweep find and claim an event. One that dies at `MAX_EVENT_ATTEMPTS` stays PROCESSING and cannot be claimed again |
| `Decide`, `Apply`, `ApplyToRecipient`, `Count`, `Recheck`, `Complain`, `SuppressApplied`, `Suppress`, `Finish` | the event applied, statement by statement: the transition is decided on the status that was read and written by id |
| `ProcessingFails`, `Die` | an error, classified as in the `catch`; a kill |
| `Open`, `Click`, `OpenDelivers`, `OpenPromotes`, `OpenCounts`, `OpenDies` | `recordOpen` and `recordClick` as far as they write delivery, recipient and counters |

`CanTransition` is `canTransitionDeliveryStatus` over the whole table of statuses. Claims
between executors are the subject of `Campaigns`; here one executor serves each recipient. A
SUPPRESSED or CANCELLED recipient is FAILED, since no code in this module tells them apart.

### OutboundWebhooks and the code

| State | Code |
|---|---|
| `wstatus`, `wcount`, `wstale` | the `WebhookDelivery` row: status, `attemptCount`, a `lockedAt` older than two minutes |
| `batch[a]`, `sent[a]`, `answer[a]` | a run: the counts it read of the rows it has not finished, the row it has sent, the answer |
| `taken`, `overlapped`, `lost` | history: how often the endpoint took the event; rows two runs had, or that were retried by hand; rows with an outcome that was lost |

`Dispatch` creates a row and attempts it without a claim; `Claim` is the queue's one-statement
claim, `Reclaim` its release of stale rows, `Release` what the deadline leaves over, `Retry` the
administrator's. All of them end in `Post` (or `Reject`, when there is nothing to call) and
`Record`, which writes by id a status computed from the count that was read. The claim does not
count an attempt, and it looks at `min(10, max(1, n))` retries (`dispatcher.ts:322-323`), which
`Due` keeps (`QueueCap`): with more retries configured than that, rows stay PENDING. Signing,
secrets and the length of the backoff are left out.

### WhatsAppMessages and the code

| State | Code |
|---|---|
| `mstatus`, `attempts`, `owner`, `inflight`, `stored` | the `Message` row: status, attemptCount, lockedBy and its suffix, and the call whose id is `providerMessageId` |
| `job`, `jattempts`, `holder` | its `BackgroundJob` |
| `pc`, `read`, `call` | position and local variables of requests and workers |
| `event`, `hook`, `seen` | each status report: its `MessageEvent`, and the invocation that applies it |
| `calls`, `accepted`, `told`, `relayed`, `unclear`, `raced`, `faults`, `lost` | history: calls, those Meta accepted, the outgoing webhooks of the message's sender (its request or its job), those that pass on a report of Meta, whether an accepted call was not answered, whether a report was applied to a message that had changed since it was read; deaths and errors, bounded; whether one of these, or an answer that could not be read, came between an accepted call and its record |

`Look`, `Create`, `CallMeta`, `RecordSent`, `RecordSentFails`, `Schedule`, `ScheduleFails`,
`RecordFailed`, `Tell` and `RequestDies` are `MessageService.send`; `StartJob` to `WorkerDies` are
the processor and `WhatsAppMessageExecutor.execute`; `ReconcileMessage` and `ReconcileJob` are
reconciliation; `Receive`, `Apply`, `TellReport`, `FinishReport` and `ReportFails` are
`handleStatusUpdate`. Every new report on a message that is found goes out as a webhook of its
own, `message.failed` and `message.sent` included, whether it changed the message or not
(`webhook-service.ts:266-282`). So a customer may well hear that a message was sent, and later
that it failed: the second is Meta's word, and the property `ToldTheTruth` does not deny it. It
says that the sender does not contradict itself (`SendersAgree`), that nothing is told of a call
Meta did not accept (`NewsIsOfStored`), that a failure once told by the sender is followed by no
report of success (`FailureIsLast`), and that it is true (`FailedIsUntaken`). Left out: a report
of failure also marks PENDING one-time codes to the number as FAILED
(`webhook-service.ts:244-255`); no property depends on it. A transient error may hide an
acceptance (`unclear`). When the write after an accepted first attempt fails, the code ends the
message as FAILED and says so (`RecordSentFails`); a 2xx answer that is not JSON is taken for a
rejection (`whatsapp/client.ts:82-95`). Both are in `lost`, the exception of `ToldTheTruth`. A
message that reconciliation fails is not told at all. A report that comes before
`providerMessageId` is stored is PROCESSED and has no effect. Abstraction: no invocation lives as
long as a lock takes to be stale (`maxDuration` 60 s against ten minutes), so a lock is stale when
its owner has ended.

### Journeys and the code

| State | Code |
|---|---|
| `status`, `step`, `due` | the enrollment: status, `currentStepId`, `nextActionAt` in the past |
| `active`, `nactive`, `ncompleted`, `nabandoned` | the automation and its counters |
| `campaigns`, `recipients` | the child campaigns of each SEND step, and those with a recipient |
| `job` | the step and timeout jobs, by deduplication key |
| `run[r]` | an invocation: position, step, job, what it read |
| `admin` | between which statements of pausing or activating the administrator is |
| `torn`, `stale`, `blind` | history: a run failed between its two writes; an enrollment was written that had changed since it was read; SEND steps whose campaign a run looked for while another was about to create it |

A run is a call of `processEnrollmentStep` or `executeStepTimeout`, begun by `Enroll`, `Sweep`,
`TakeJob` or an email event (`Notice`, `Match`). `Load` reads the enrollment, and then one
action per statement of each type of step: `FindCampaign`, `CreateCampaign`, `Address`,
`Advance` for SEND_CAMPAIGN (a child campaign per enrollment,
`email-automation-service.ts:1541-1594`); `Branch`; `Delay`, `ScheduleSame`, `ScheduleNext`;
`Wait`, `ScheduleTimeout`, `ReadTimeout`, `Expire`; `Complete`, `ReadAbandon`, `Abandon` and the
counters. `lockedAt` is never written by the code, so nothing keeps two runs apart. A sweep that
comes to a due DELAY executes it again and so delays again; the job it once added carries the
journey on, which is why `JourneyEnds` rests on jobs. `ValidSteps` is what `validateSteps`
accepts.

Left out: recurring automations, enrolment by events, `updateAutomation` or archiving with live
enrollments, re-entry, bulk enrolment, a step's permanent errors, the recursion limit of 50.

### Otp, Accounts and the code

`Otp`: `code`, `made`, `over` are the rows, their order and their expiry; `asking` and `check`
say how far each request and check has come. `Supersede`, `Create`, `Sent`, `SendFails`,
`MarkFailed` are `requestOtp`; `Read`, `Close`, `Count`, `Verify` are `verifyOtp`: the newest
PENDING code is read, what was read decides, the write that verifies is conditional and the one
that counts a wrong guess goes by id. `reached` are the codes that got to the user, the only
ones guessed right; `uses` and `crossed` are history: two requests that both expired the codes
before either created its own. Lucky guesses are left out.

`Accounts`: `ReadUser`, `OpenSession`, `Logout`; `ReadTarget`, then `TakeAdminAway` (the
transaction under an advisory lock, entered only if the target was read as an active admin,
`users/route.ts:45`) or `ChangeUser`, then `PurgeSessions`; `SupersedeTokens`, `CreateToken`,
`MailToken` for a forgotten password; `ReadToken`, `SpendToken`, `SetPassword`, `DropSessions`
for the reset. A reset token is an `OtpVerification` row of purpose `password_reset`. History:
`renewed` (passwords changed with a token), `cut` (calls cut off before they ended sessions),
`raced` (an admin taken away by a call that had read another role). The age of sessions and
email verification tokens are left out.

### Segments, Audience, Consent and the code

`Segments` has both interpreters: what each says of a condition is an operator (`QueryLeaf` for
`translateLeafToPrisma`, with "has metadata" for what it cannot say, and `Judge` for
`evaluateLeafNode`), and one recursive function over the nodes of the trees, `Verdicts`, makes of
it what each says of a criterion (`Query`, `Memory`). A group is decided by the first condition
that ends it (`Decide`), which is how memory stops before a condition that would throw; of
conditions that do not throw it is AND and OR, as in the query (lemma `DecideIsAndOr`). The
constant `Height` gives each node a number above those of its conditions: a criterion is JSON,
hence a finite tree. `RefuseCriteria` and `AcceptCriteria` (`validateCriteria`), `AskQuery`,
`AskMemory` and `JudgeAgain` follow a criterion from its submission to the preview and to a
later check of one contact. Numeric comparisons of custom attributes are left out, and both
interpreters read one clock. `PlainConditionsAgree` says on which conditions they agree; where
they do not is listed below.

`Audience`: a run (`run[r]`) reads a page (`ReadList`, `ReadSegment`) outside its transaction,
drafts what is eligible (`Filter`), and commits under the campaign's advisory lock (`TakeLock`,
`CheckAgain`, `Commit`); `ContactChanges` and `SegmentGoes` happen at any time, also between two
pages. History: `steady` and `ever`, who qualified throughout and at some moment; `slipped`, a
page read behind a row that had dropped out; `wide`, a walk whose segment was gone. A walk that
begins with the list misses a contact that moves from segment to list behind it; a cursor row
that stops matching drops the row after it; one that is deleted ends the walk; a contact deleted
before its draft breaks the transaction. List deletion, invalid stored criteria and fallbacks
used by mocks only are left out.

`Consent`: an operation is the list of statements it still has to make (`op[o]`) and may end
after any of them: `Unsubscribe`, `Report`, `AddSuppression`, `UpdateContact`, `ImportContact`,
`CreateContact`; `LiftSuppression` and `DeleteContact` are one statement. A mail goes through
the looks of its kind: `PostAsks`, `PostAdmits`, `ExecutorLooks`, `ExecutorAsks` for the API;
`PageReads`, `SnapshotAdmits` and `Enroll`, `EnrollAdmits` for campaigns and journeys, then
`RecipientLooks`. History: `lifted`, `out` (an opt-out has returned), `why` (what may have
raised the contact's consent again), and on a mail `late` (its last look came after the
opt-out), `blind` (the suppression could not be read), `misspelt` (the address was given in
another spelling), `excused`. `Segments` judges, `Audience` takes one flag for it. The token's
signature is not modelled; `archiveContact` is called by no route.

## 3. Runs

| Run | Question | Size |
|---|---|---|
| `email_delivery` | Is a send unique, does it move as `SendPromise` says, are its calls paid for, and is every transactional delivery resolved when owners may stall, crash, lose answers and be reconciled? | 165,973 |
| `email_delivery_race` | Is it so without exception, as `documentation/EXECUTIVE_SESSION_AUDIT.md:185` says? **Violated** | |
| `background_jobs` | Do jobs run alone and close for a reason? | |
| `email_pipeline` | Do job and delivery agree on what is over, does anyone lose a job it relies on, do all jobs settle? | 110,365 |
| `campaigns` | Does a recipient move as `SendPromise` says, is its acceptance kept; has a completed campaign nobody left to serve? | 270,764 |
| `campaigns_live` | Does every RUNNING campaign complete, or get stopped? | 78,870 |
| `email_events` | Do outcomes stand, are they counted once, is the address suppressed, do events settle? | 494,683 |
| `webhooks` | Does the endpoint take an event once, as its row says; is every row delivered or given up? | 59,850 |
| `whatsapp` | Is a message accepted once, is what its sender tells true and never contradicted by a report after a failure, is it never without its job, its status never lowered, and does it settle? | 362,454 |
| `journeys` | Does a step send once, do the counters agree, does a journey end? | 272,186 |
| `access` | Are codes and tokens used once and guesses limited, does the newest code win, does an admin remain, do old sessions end? | 548,698 |
| `recipients` | Do the interpreters agree, does a walk find whom it should, are recipients frozen, are opt-outs honoured? | 787,009 |

Sizes are distinct states. All runs but `email_delivery_race` hold. For each property there is a
mutant: a definition marked so in its module, which changes one operation the way a plausible
bug would (listed in `PROJECT.json`); put in the operation's place it makes TLC find the
property violated.

**Bounds.** Rows of a table interact only through a batch (one token, one release), and the
proofs below are for any number of them, so the runs take one row and spend their states on the
actors. Two invocations are needed for every race; a third adds none that a crash followed by a
new call of the same invocation does not.

* `email_delivery`: one delivery, two invocations, one reconciliation, two tokens, `MaxAttempts
  = 2` (the smallest limit with a first retry and a last attempt), `AttemptCap = 3`.
  `AttemptCap` bounds claims: without it a row that is claimed and released at the deadline, or
  requeued after a stall, has no last claim. `AnswersMayBeLost = TRUE`, and the CONSTRAINT
  `OneException` keeps a row from being both overwritten and accepted behind a lost answer:
  `AcceptedAtMostOnce` excepts it then, and to the other properties a lost answer is a failure
  like any other. The race has the same bounds with `OwnersMayStall = FALSE` and
  `AnswersMayBeLost = FALSE`.
* `background_jobs`: one job, two invocations, four tokens (one more than two invocations and
  one abandoned lock use), `MaxJobAttempts = 2`, symmetry of invocations and tokens.
* `email_pipeline`: a transactional and a promotional delivery, one at a time (CONSTRAINT
  `OneAtATime`: they share invocations and tokens, nothing else), `MaxJobAttempts = 3`,
  `OwnersMayStall = FALSE`, `AnswersMayBeLost = FALSE` (a hidden acceptance changes nothing that
  this run's properties read; the proofs are for both values).
* `campaigns`: one recipient, two invocations, one reconciliation, one request at a time, which
  may be followed by any other; `AttemptCap = 2`; symmetry. Two requests at once and several
  recipients are covered by the proofs. `campaigns_live`: one invocation, because what it needs
  another for (a holder that is gone) a crash provides; no symmetry. Both with `OwnersMayStall =
  FALSE`; the proofs are for both values.
* `email_events`: one delivery, two events that carry its id, one worker, one tracking request,
  `MaxEventAttempts = 2`, `MaxSends = 2`. The CONSTRAINT `SecondIsSimple` lets the second event
  join a first that is on record, when no tracking request is under way, the executor has made
  one attempt and the events two between them. Events that must first be correlated, more
  workers and more requests are covered by the proofs.
* `webhooks`: one row, two runs, `MaxRetries = 3`, `QueueCap = 10`, `MaxFaults = 2`, `MaxManual
  = 1`, `RunsMayStall = TRUE`.
* `whatsapp`: two requests, two workers, reports of "read" and "failed", `MaxSends = 3`,
  `MaxFaults = 2`.
* `journeys`: branch, delay, send, wait, end; two runs; up to two each of events, pauses,
  overlaps and failed runs, and two of them together (CONSTRAINT `TwoTroubles`). `MaxFaults` is
  below a job's `maxAttempts`, so jobs do not give up.
* `access`: the variable `part` chooses codes (two requests, two checks, `MaxAttempts = 2`),
  admins (two admin calls and two logins, no passwords), forgot (one call, login and reset at a
  time, no role changes, one change of password) or reset (two resets with one token, no admin
  calls). Users are the first admin and another, `MaxPassword = 2`. The CONSTRAINT
  `OneThingAtATime` says so, and that an admin call changes one thing; symmetry of calls.
* `recipients`: `part` chooses segment (every criterion of one group with the enumerated
  conditions, and some with a group inside, one too deep or empty; `MaxDepth = 1`), walk (three
  contacts, `BatchSize = 2`, two snapshots and a preview, `MaxChanges = 2`) or mails (one mail,
  two operations, two spellings, `MaxOps = 2`).
  CONSTRAINT `FewAtATime`: a preview is looked at by itself and with one change, two snapshots
  with one change; symmetry of snapshots, operations and spellings.

`CHECK_DEADLOCK FALSE` everywhere: once all is done the system rests.

**Fairness.** pg_cron calls the processor and reconciliation again and again, so a live
invocation takes its next step (weak fairness on the steps of a run), a lock grows old, time
passes and stale rows are read. Crashes, errors and releases get no fairness and may always
happen. Claims, starts and sweeps get strong fairness: a row can be claimed and put back at the
deadline for ever, so what is needed is that the processor, called every minute, gets a full
turn infinitely often. Handling a row that reconciliation has read is strongly fair for the same
reason. In the pipeline nothing is asked of the sweep, because a job must settle without it.
`EventFairness`: a worker goes on, a pending event is loaded again and again. `WebhookFairness`:
a row that is due again and again is claimed, and one claimed again and again is attempted.
`MessageFairness`: jobs are started, message and job reconciled. `JourneyFairness`: due
enrollments are swept and available jobs taken, and an administrator finishes what was begun.
Requests, admin calls and events get none. `CampaignCompletes` excepts a recipient at
`AttemptCap`, which bounds the model: in the code the sweep claims it again, whatever its count.

## 4. Proofs

Every theorem is for any number of rows, invocations, requests and so on and any value of the
bounds; each rests on the constant assumptions of its module (`ConstantsOK`, `JobConstantsOK`,
`CampaignConstantsOK`, `EventConstantsOK`, `WebhookConstantsOK`, `WhatsAppConstantsOK`,
`JourneyConstantsOK`: types of the constants and limits that are positive where the code divides
the first attempt from the last). What a theorem assumes beyond that is in its statement, and
named below. The pattern is the same throughout: the inductive invariant is a conjunction of
named parts, a lemma for each action or group of actions shows that it is kept,
`...InvariantHolds` joins them, and the properties follow. The invariants were evaluated by TLC
on small instances before they were proved.

### Deliveries and jobs

**Deliveries alone** (`EmailPipelineProofs`, first part): `TypeCorrect`, `AtMostOnce`,
`CallsExclude`, the action property `Closed`, the refinement `SendsKeepThePromise`, and
`CallsPaid`. The invariant `IInv` is defined in `EmailDelivery`. None of the properties is
inductive: that the provider accepts once needs to know that during a call the row carries the
caller's marker (`CallMarked`), which needs that nobody else holds the caller's token
(`TokensUnique`, with `LockShape` and `LocalShape` for what a lock and a phase imply), that no row
a holder has still to send is already marked (`UnsentUnmarked`), that two calls for a row never
overlap (`OneCaller`), and that an acceptance leaves the marker on the row until SENT or UNKNOWN
replaces it (`AcceptanceMarked`), and that a row with a hidden acceptance, if it was not queued
again, is FAILED or UNKNOWN, was not accepted besides and is in nobody's call (`HiddenIsClosed`).
The snapshots of reconciliation need no part of their own: a marked snapshot is applied under its
token only, and an unmarked one applied to another claim puts the row into `overwritten`.
`CallsPaid` is for a finite set of invocations. Counting is not inductive on the rows alone: a
claim spends an attempt before its call, the deadline release gives an attempt back, and both may
be pending for one row at once. `AttemptsCover` therefore compares `attempts` with the calls made
plus the number of invocations whose claim is spent but whose call is still to come (`Pending`), a
cardinality.

`SendsKeepThePromise` maps the initial state to the initial state and each step to a step of
`SendPromise`: `RowsMove` goes through the actions once and leaves five things that can happen
to a row nobody overwrote, and `RowStepIsMailStep` reads each as a step of its mail, with `IInv`
on both sides for what the row says of the acceptance. `PromiseMeansTruth` is about the abstract
specification: whoever has the promise may believe the records.

**Jobs** (`BackgroundJobsProofs`): `JobTypeCorrect`, `RunAlone`, `ClosedWithReason`,
`WithinLimit`, `JobsClosed`. `JobIInv` adds to the types what the code leaves unsaid: which
fields a status goes with (`JobLockShape`, `JobLocalShape`), that nobody else has a token in use
(`JobTokensUnique`), that an invocation holds the lock of every job it counts on unless it was
displaced (`HoldersLock`), that what reconciliation has read of a job stays true while its lock
is the same (`SnapshotsHonest`), that a job which can be claimed has an attempt left
(`AttemptsLeft`, the reason why the claim need not look), and that a result in hand is backed by
what the body did (`ResultsHonest`). `HoldersKeepJobs` assumes `~OwnersMayStall` and that at
most one reconciliation runs at a time; it speaks of `JobStep`, which is `JobNext` without
`RemoveJob`, because nothing in the pipeline removes a job.

**Both** (`EmailPipelineProofs`, second part). `PipelineIsJobQueue` and `PipelineIsDelivery`
show that the composed specification implements both components (initial states map to initial
states and each step to a step or a stutter); the second needs the job types, hence the order.
`PipelineKeepsThePromise`, `PipelineSendsOnce`, `PipelineJobsRunAlone`,
`PipelineJobsClosedWithReason` and `PipelineHoldersKeepJobs` follow from the components'
theorems without another induction. Two properties relate the counts of job and delivery and do
need one, on top of `PipelineInv` (`IInv`, the job types, and who works on what, `InHand`):

* `PermanentErrorsAreFinal` (`PermanentMeansOver`, assuming `~OwnersMayStall`). A delivery that
  met a permanent error is past any retry: closed, or marked by a caller that is gone (`Over`).
  That it stays so rests on `LocksKept`: a stale lock, and a lock a reconciliation has read,
  belong to nobody any more, and whoever has a row has its lock.
* `PromotionalCallsWithinLimit` (`CallsWithinLimit`, assuming in addition one reconciliation at
  a time). `Budget` says that a promotional delivery that may still be called for has had fewer
  calls than its limit, and that who loaded or claimed it knows its count. It is inductive only
  because its job runs alone (`RunAlone`, and `displaced = {}` by `PipelineHoldersKeepJobs`).
  For a transactional delivery it is false: the sweep may claim, fail and requeue the row
  between the load and the claim of its job, and the count that decides about the retry is then
  one behind the row's.

### Campaigns

`CampaignTypeCorrect`, `SentOnce`, `TraceKept`, `RecipientsKeepThePromise`, `CompletedSettled`.
The invariant is built in layers, each a lemma that cites the one below. *Locks*: which phase
goes with which lock (`RecipientLockShape`, `ExecutorShape`), unique tokens, and that a
recipient its holder has not yet marked carries no marker (`UnsentIsUnmarked`); most steps only
take unsent rows away, which `Shrinks` states once for all of them. *Rows*: from the marker on
the row stays its sender's or is UNKNOWN (`SendIsMarked`), senders are alone (`OneSender`), and
each phase knows what it may rely on (`PhasesKnow`): a recipient that passed `FindDelivery` with
its claim intact was never accepted, because an acceptance leaves its trace. Hence
`AcceptanceLeavesTrace` is part of the induction for `RecipientSentOnce`, and the reverse.
`RecipientsKeepThePromise` needs one more part, `RecordedIsAccepted`: what is recorded as SENT
was accepted, and whoever found the delivery SENT may rely on it. It is kept because no delivery
is written anew once its recipient was accepted. `CompletedMeansSettled` needs a second
invariant, `CompletionIInv`: whoever may complete or serve the campaign came after its audience
was frozen (`UnderWayIsFrozen`), and what was counted as settled stays so (`CountedIsSettled`),
since no step takes a frozen recipient back to work without holding it or overwriting a lock
(`WorkStep`).

### Events

`ProcessedAreSuppressed` and `OutcomesAreKept` follow from `EventInv`: an invocation writes a
status only for an event that means one (`StatusesMeant`), what a write by id was decided on
allows it (`ReadsAllow`), and whoever is done with an event, and every processed event, has
suppressed its address (`FinishedIsSuppressed`, `ProcessedIsSuppressed`).

`RecipientsAreCountedOnce` needs a second invariant, `CountInv`. Delivery, recipient and counter
are three writes, made in this order by whoever applies an outcome. `Tally` says that an outcome
is counted after the recipient has it and the recipient has it after the delivery, with at most
one invocation or request between the last two; `Allowed` and `OpenAllowed`, that what these
have read still lets them write; `SentIsCounted`, that SENT is counted by the write that ends
the claim; `NewsOfTheSent`, that there are events only of what was accepted. Two kinds of stale
read came to light by trying: a complaint that was decided on a FAILED delivery which was put in
flight again meanwhile, and an open between whose read and write the recipient went from one
status to another and back. Both count a metric twice and are in `raced`, as the other writes by
id that missed a change.

### Outgoing webhooks

`WebhookInv` (types; `RowsInOrder`, only what is being attempted grows stale; `OneRunEach`, a
row that no second run took on has one, and while it has it is open; `TakenIsKnown`, where
nothing was lost a taken event is on its way to be recorded or recorded, and another is neither;
`WaitingIsDue`) gives `EventsTakenAsRecorded` and `WaitingRowsAreDue`.

### WhatsApp messages

`MessageInv` has `AttemptsLock` (who is in an attempt has the lock, and the marker from its call
on), `JobInHand` (one invocation has the job, and there is one only after the first attempt),
`StoredIsAccepted`, `AcceptedIsMarked` (an accepted call leaves a marker that only its attempt
or the reconciliation of a dead one removes, and then the message is closed), `AttemptsCounted`,
`CallsLeft` and `ToldLast`. From it: `MessageAcceptedOnce`, `CallsAreLimited`,
and the action property `StatusesStepForward`. `CustomerIsToldTheTruth` needs one part more,
`GivenUpUntaken`: from an accepted call on, unless an answer was lost or not recorded, the
message is with whoever was answered, who alone may close it, or its id is stored; and
`NewsFitsStored`: a report is passed on of a stored call only, and of what was told, or is about
to be told, as failed no call is stored.

`WaitingMessagesHaveJobs` compares the two counters: while a message is open its job has counted
no more attempts than the message, but for one per fault and one that is about to be counted
(`AttemptsKeepUp`). The job may run once more often than the message may be sent, so the first
fault leaves an attempt and the second may not (`WaitingIsServed`); that is the exception the
property makes.

### Journeys

`JourneyInv`: a run that still has what it read writes an enrollment that has not ended
(`FreshIsLive`), a step has one campaign or one run about to create it (`CampaignsFit`), and the
counters agree with the enrollment once what is between two writes is added (`CountersFit`);
with `NoneIsQuiet` and `RunsHaveSteps`. From it `EmailsSentOnce`, `EnrollmentsAreCounted`, and
the action property `EndsAreFinal`.

### People

`PeopleProofs` has a section for each of five modules that share no variable. What a theorem
assumes is the module's operator for its constants, which `MCAccess` and `MCRecipients` check:
checks and users are finite, limits are natural numbers, some spelling exists.

* *Codes* (`CodesAreUsedOnce`, `WrongGuessesAreLimited`, `TheNewestWins`). `OtpInv`: an accepted
  code is closed (`AcceptedIsClosed`); the wrong guesses of a code and the checks about to count
  one stay below the limit plus the number of checks, since each read the code below it
  (`GuessesCovered`, a cardinality); while no two requests crossed, one at most is between its
  two statements, nothing is pending then, and what is pending is the last (`OnePending`).
* *Accounts* (`TokensAreSpentOnce`, `AnAdminRemains`, `SessionsEndWithTheirPassword`).
  `AccountInv`: the two properties are inductive with the types, and `TokensInHand` says that a
  token is pending until one call spends it and only that call ever changes a password.
* *Consent* (`OptOutsAreHonoured`, `SuppressionAndContactAgree`). `ConsentInv`: what is left of
  an operation is the end of a list that the code makes (`StatementsTied`); a returned opt-out
  is barred; a consent beside a suppression has its explanation, also while a mail is under way
  that was looked at before it was lifted (`ConsentExplained`); a mail past its look was
  misspelt (`LooksTrue`).
* *Audiences* (`RecipientsAreFixedOnce`, `WalksFindTheirAudience`). `AudienceInv`: whoever has
  passed the second look at the recipients holds the lock and found none (`LockHeld`); and of
  each walk (`Sound`) that its history is true of the contacts as they are (`Observed`), that
  what it found has qualified (`Justified`), and that whoever has qualified all along and lies
  behind its cursor is in hand (`Covers`). The pages need the least of a set of contacts to
  exist, from well-foundedness.
* *Segments* (`PreviewIsMemory`, `PlainConditionsAlwaysAgree`): for every criterion of any depth
  and every contact on which its conditions are plain, the preview and a later check say the
  same. The condition is looked at kind by kind (`PlainLeavesAgree`): what can be translated
  means the same to both, and what cannot narrows the query only by metadata the contact has.
  That carries over to the tree because the verdict on a group is monotone in those on its
  conditions (`VerdictsAreMonotone`): the query lets pass whatever memory accepts, and nothing
  else where all could be translated. The library's induction theorems cannot be used here, as
  they take an operator for a parameter; the section argues by the lowest node that breaks the
  claim instead (`LowestNode`), also for the existence of what `Verdicts` and `Leaves` define
  (`RecursionOverNodes`, over any set of values, with the rule of the recursion as a function).

### Proved but in no run, and the reverse

Type invariants, `RecipientSentOnce`, `ClosedStaysClosed`, `AttemptsRespectLimit`,
`ClosedJobsStayClosed`, `WaitingIsDue`, the WhatsApp `CallsWithinLimit` and
`EndStands` are proved and left to the proofs. Every invariant and every action property of a
passing run is proved, and so are the refinements; `ExactlyOnceInitiation`, the property of
`email_delivery_race`, is false.

Liveness stays with TLC, because the prover handles neither fairness nor ENABLED:
`TransactionalResolved`, `JobsSettle`, `CampaignCompletes`, `EventsSettle`, `WebhooksSettle`,
`MessageSettles`, `JourneyEnds`.

## Where code and documents differ

A run shows the first; the others came up while modelling, and each is an exception that a
property names or a restriction it states (in brackets).

* `documentation/EXECUTIVE_SESSION_AUDIT.md:185` says "Only winning claimants invoke
  `provider.send()`". Reconciliation requeues a row by id and status from an earlier read
  (`reconciliation-executor.ts:110`); one that was taken over in between is sent twice.
  `ExactlyOnceInitiation`, run `email_delivery_race` [`overwritten`].
* `campaign-trigger-service.ts:9` says that a campaign completes when its recipients are
  settled. A triggered one is RUNNING before it has any, and reconciliation completes it
  [`premature`].
* `documentation/06-decision-register.md:35` says "Promotional email (single and campaign)
  always gets the consent check". A campaign's consent is checked at the snapshot only
  (`campaign-recipient-executor.ts:239` asks for a suppression), and `updateContact` withdraws
  consent without one [`OptOutHonoured` speaks of opt-outs that suppress].
* `docs/unified-communication-architecture.md:10` says that promotional mail is "blocked if
  suppression state cannot be conclusively confirmed". `isSuppressed` answers "not suppressed"
  on every error (`email-suppression-service.ts:104-106`) [`blind`].
* `docs/email-deliverability.md:88-90` says that the address is checked against the
  suppressions. The delivery executor looks it up as it was given
  (`email-delivery-executor.ts:204-208`), while they are kept normalized [`misspelt`].
* `email-contact-service.ts:143` says "& consent if provided". An import without consent writes
  back the one it read (151), over an unsubscribe in between [`why = "torn"`].
* `email-audience-resolver.ts:532` says "Handle union of list and segment". When the segment is
  gone the condition stays at the whole tenant (529): every contact of it is a recipient
  [`wide`].
* `email-segment-service.ts:20` says "Deterministic evaluations both in Prisma and in-memory".
  They disagree: the query of what it cannot say requires metadata (725), typed conditions with
  an operator they do not know hold in memory only (505-562), an absent `consentTimestamp`
  passes in memory (524-531), greater-than on dates includes the bound in the query (1155),
  texts are trimmed and folded by one of the two (1132-1150, 613-627) [`Plain`]. A typed
  condition without a field is accepted, and the preview beside a custom attribute ends in a
  TypeError (590; line 5 promises nested groups). `in_list` and `not_in_list` both exclude a
  member who unsubscribed, and the negated history operators ignore their timeframe,
  `not_opened` excepted.
* `docs/otp.md:21` says that a new OTP "automatically invalidates all previously active pending
  OTPs". Two requests at once leave two (`otp-service.ts:48-76`); the older is dead until the
  newer is used or expires [`crossed`].
* `docs/auth-rbac-test-plan.md:23` says "sole admin cannot be demoted, disabled, or deleted".
  The count under the lock happens only if the target was read as an active admin
  (`users/route.ts:42-76`) [`raced`].
* `docs/unified-communication-architecture.md:74` says that a WAIT_FOR_EVENT advances on the
  event and branches on its timeout. A DELAY leaves the enrollment WAITING; after a SEND step,
  the wait that follows takes itself for its own timeout check
  (`email-automation-service.ts:1393`) and times out at once.
* `email-automation-service.ts:773` says "so they are not permanently stranded". A delayed job
  that comes up while the automation is paused ends without effect (1224-1229), its key is never
  added again (`queues.ts:117-150`), and every sweep executes the delay once more: the
  enrollment delays for ever [`JourneyEnds` excepts journeys that were paused].

## 5. Plan

Modelled, checked and proved so far: sections 2 to 4. What is left, in order of importance:

1. `Journeys` composed with `Campaigns`: a SEND step creates its campaign RUNNING before its one
   recipient (`email-automation-service.ts:1582`, `1606`), so that a reconciliation may complete
   it first.
2. `EmailEvents` composed with `Campaigns`: several executors of one recipient, events and
   counters together.
3. Creation: a promotional `/email/send` that dies between the row and its job leaves a row
   nobody serves (`send/route.ts:270`). `pauseCampaign`, `resumeCampaign` and `cancelCampaign`
   under two requests at once: that a COMPLETED or CANCELLED campaign is never resumed
   (`email-campaign-service.ts:589-601`).
4. WhatsApp: `handleIncomingMessage`, and a report that comes before the id is stored
   (`webhook-service.ts:139`).
5. Recurring and event-triggered automations; editing one with live enrollments.
6. `RateLimit` (window counters under concurrency) and `Lifecycle` (pure mappings against a
   reference definition).

## 6. Not modelled

Rendering, sanitising, MIME, OAuth, DNS checks, analytics and reputation, dashboards, CRUD
routes and the scripts: either stateless or without concurrent writers. Rate limits are one
atomic upsert per request. The synchronous `EmailService.send` records after it has sent, in one
request that nothing else serves. Providers are external and appear as the answers they can
give. Time is abstracted to staleness and to what is due; the length of delays, schedules and
backoff is not modelled. The mapped lines are about a tenth of the repository's: scripts and
user interface are most of the rest.
