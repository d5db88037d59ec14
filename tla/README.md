# ClaimFlow in TLA+

ClaimFlow receives warranty claims by email, extracts their fields in a worker, and lets
operators review, retry and recover them. These modules model the parts of it in which several
processes work on the same rows: the start of processing attempts, the outbox, the SQS worker
with its leases and its dead-letter queue, the Postmark webhook, the review by operators, the
counters and their caches, lists and exports that are read while claims change, sessions and
rate limits, and data retention. TLC checks them on small instances; TLAPS proves every safety
property of the runs that are expected to pass for every value of the constants. Paths below are
relative to the repository.

Run a check with `tlc -config <run>.cfg <module>.tla` and a proof with `tlapm <module>.tla`.
`PROJECT.json` holds the runs, the map from definitions to source lines, the hazards and the
mutants: each property has one, a plausible mistake in the code that breaks it.

## 1. The system

| component | state | operations | who else touches it |
|---|---|---|---|
| **Claim lifecycle** (`packages/db/src/claim-status.ts`, `claim-processing.ts`) | `Claim.status`, `processingAttempt`, `processingLeaseToken`, `processingLeaseClaimedAt`, `latestWorkerFailureRetryable`, `updatedAt`; `ClaimEvent` rows | start the next attempt, recover a stale one | everything below |
| **Attempt starters** (`apps/web/lib/claims/ingest.ts`, `retry.ts`, `processing-recovery.ts`, `apps/worker/src/processing-watchdog.ts`) | none: what they read before their transaction | enqueue, manual retry, manual recovery, watchdog scan | claim row, outbox |
| **Worker** (`apps/worker/src/index.ts`, `queue-handler.ts`, `ingest-job.ts`, `claim-state.ts`, `queue-disposition.ts`) | the messages it handles | claim the lease, extract, persist the outcome, release, mark as error, publish to the DLQ, delete | claim row, SQS, DLQ |
| **Outbox** (`packages/db/src/claim-ingest-queue-outbox.ts`) | `ClaimIngestQueueOutbox` rows with dispatch leases | create, dispatch one, sweep, mark, clear, clean up | every starter, every worker loop |
| **Inbound webhook** (`apps/web/lib/postmark/inbound-webhook.ts`) | `InboundMessage`, `Claim`, `ClaimAttachment` rows, S3 objects | check, create the message, refuse, scan and upload attachments, record them, enqueue, answer | worker (reads attachments), retention |
| **Claim review** (`apps/web/lib/claims/review.ts`) | extracted columns and status of a claim | edit, move between READY and REVIEW_REQUIRED | worker (writes the same columns) |
| **DLQ redrive** (`docs/runbooks/retry-claims-from-dlq.md`) | the dead-letter queue | send a dead message again | worker |
| **Claim counters** (migration `20260404231500`, `scripts/reconcile-claim-organization-summary.mjs`) | `ClaimOrganizationSummary` | triggers, the migration's first count, reconciliation | every writer of a claim |
| **Summary caches** (`dashboard-summary-cache.ts`, `health-snapshot-cache.ts`, `cache-invalidation.ts`) | cached summaries, by window of five seconds | load, store, revalidate | the counters; web writers revalidate, workers do not |
| **Lists** (`dashboard-claims.ts`, `error-claims.ts`, `cursor-pagination.ts`) | a cursor in each link | read a page forward or back | every writer of a claim |
| **Claim export** (`apps/web/lib/claims/export-route.ts`) | a batch, its index, a cursor, a prefetched batch | audit, stream chunks | every writer of a claim |
| **Sessions and roles** (`apps/web/lib/auth`) | `AuthSession` rows; signed tokens in cookies | log in, select an organization, look up, log out | every route; memberships change outside |
| **Rate limits** (`apps/web/lib/security/rate-limit.ts`) | `RateLimitBucket`, or memory | check and count | login, webhook |
| **Retention** (`packages/db/src/data-retention.ts`, `scripts/redact-expired-claim-data.mjs`) | the marks of redacted rows | select what expired, redact it | webhook (writes the rows), worker (reads attachments) |
| **Extraction, Textract, S3** (`apps/worker/src/extraction.ts`, `textract.ts`, `apps/web/lib/storage`) | none | call OpenAI, AWS | worker, webhook |

Processes share nothing but PostgreSQL, SQS and S3. Almost every operation reads a claim, works
(for minutes, in the worker) and then writes it in a short transaction whose `WHERE` clause is
the only protection against whatever happened in between. The behaviours that are hard to test
follow from that:

- *two starters, one claim*: webhook deliveries, operators and the watchdogs of several workers
  read the same row and all want to start its next attempt;
- *stale workers*: an attempt is recovered or retried while its worker still extracts;
- *at-least-once delivery*: the outbox sends twice, SQS delivers twice, a visibility extension
  comes late, a delete fails after the job was done;
- *lost answers and deaths* between any two calls, in the failure handler as well;
- *leases that expire under their holder* (the outbox's) or do not know their holder (the
  processing lease's);
- *operators and workers* who write the same columns from snapshots of different age;
- *readers of moving data*: pages and exports behind a cursor, summaries whose cache key is older
  than their value, a script that counts in one statement and overwrites in another;
- *credentials older than facts*: tokens and rows that outlive a logout, an expiry or a role;
  clocks that were read before the statement that uses them.

What makes each component correct:

- lifecycle: attempts are settled at most once, failures that are not retryable are final, the
  audit log is the path that the status took;
- starters: one of several racing starters wins, and what it checked before its transaction
  still holds in it; attempt, token, event and outbox row appear together;
- worker: a superseded worker changes nothing, two workers do not extract for one attempt, an
  ERROR has its message in the DLQ, a claim in processing lands somewhere;
- outbox: nothing is struck off unsent, nothing is sent again without a cause, every row is sent
  in the end, who lost its lease leaves the row alone;
- webhook: a message starts its claim once, a 200 means that it is started (if a queue is
  configured), attachments are all accounted for and are there when the worker looks;
- review: moves stay between the two results, what an operator chose stands until something
  later takes its place, no edit is undone behind its author's back;
- counters: the triggers keep exact what is exact, drift has known causes and a reconciliation
  removes it; a cached summary was true within the current window and knows of finished changes;
- lists and export: no claim twice, none passed over, back is where one came from, the stream
  is in order and within its limit;
- sessions: who is served has a session that is not over, and acts in a role that is held;
- rate limits: no window admits more than its limit, and who waits as told is let in;
- retention: what expired is redacted in the end, and once.

## 2. Modules

| module | models | how |
|---|---|---|
| `ClaimLifecycle` | the promise about a claim | status, attempt, failure and event log; five actions: begin, retry, recover, succeed, fail |
| `ClaimProcessing` | starters, dispatch, SQS, worker, DLQ | the detailed pipeline; implements `ClaimLifecycle` (`LifeSpec`) |
| `MCClaimProcessing` | | symmetry for the safety runs |
| `DlqRedrive` | the runbook's step, on top of `ClaimProcessing` | one more action |
| `OutboxDelivery` | the promise of the outbox | commit, deliver at least once, strike off |
| `OutboxDispatch` | the dispatcher with leases, batches and runners | implements `OutboxDelivery` (`DeliverySpec`) |
| `InboundWebhook` | overlapping deliveries of a message | each request is a program counter over its calls |
| `Retention` | redaction of what the webhook and the worker stored | extends `InboundWebhook` |
| `ClaimReview` | operators next to workers | extends `ClaimLifecycle`, from which it takes the processing |
| `ClaimSummary` | counters, triggers, migration, reconciliation | counters are compared with a plain count of the claims |
| `SummaryCache` | the caches over them | extends `ClaimSummary` |
| `MCSummaryCache` | | symmetry of claims, statuses and scripts |
| `ClaimTable` | claims as a list sees them: order, filter, cursor | parameterised by the list (`view`) |
| `ClaimPages`, `ClaimExport` | turning pages; the stream | each extends `ClaimTable` |
| `ClaimLists` | both | one of them per behaviour, over the same table |
| `RateLimiter` | one key, either storage | the decisions are kept as history |
| `WebSessions` | sign-in, sessions, roles of one user | extends `RateLimiter`, which sign-in goes through |
| `ClaimLifecycleProofs`, `ClaimProcessingProofs`, `OutboxDispatchProofs`, `RetentionProofs` (with the webhook), `ClaimReviewProofs`, `SummaryCacheProofs` (with the counters), `ClaimListsProofs` (pages and export), `WebSessionsProofs` (with the limiter) | | theorems, section 5 |

How they fit together. `ClaimProcessing` composes starters, outbox, queue and workers, and in it
the whole outbox is one action, `Dispatch`: a row is sent, and then is either struck off or (a
fault) left to be sent again. `OutboxDispatch` opens that action up, and what it proves (nothing
is struck off unsent, everything is sent in the end) is what `Dispatch` and its fairness take
for granted. `ClaimReview` goes the other way: it uses `ClaimLifecycle` in place of the
pipeline, which the refinement justifies. `InboundWebhook` follows a claim to its first attempt
only, and `ClaimProcessing` starts with claims that exist. `Retention` shares the rows of
`InboundWebhook` and the worker's read of attachments. `ClaimSummary` and `ClaimTable` each keep
of a claim what they look at, and let it be written in any way that the schema allows.

### ClaimProcessing

One action is one transaction or one SQS call with the local computation that follows it.

| code | state or action |
|---|---|
| `Claim` row | `claim[c]`: `status`, `attempt`, `token`, `leased` (`processingLeaseClaimedAt` is not null), `failure` (`latestWorkerFailureRetryable`) |
| `updatedAt < staleBefore` | `staleFor[c]`: the actors to whom the row looked stale and who may still rely on it; every write of the row empties it |
| read before a transaction | `requests` (`FromStatus` is the literal `fromStatus` of the caller); `ReadForEnqueue`, `ReadForRetry`, `ReadForRecovery` |
| `startClaimProcessingAttemptIfCurrent`, `recoverStaleProcessingClaimIfCurrent`, with `createClaimIngestQueueOutboxEntry` | `StartAttempt`, or `LoseRace` if no row matched |
| SQS | `queue` (visible), `inFlight` (received), `dlq`; `Receive`, `VisibilityTimeout` |
| `processClaimIngestJob` | `ReadClaim`, `ClaimLease`, `PersistOutcome`, `ExtractionFails` |
| `handleClaimQueueMessage` | `DeleteMessage`, `DeleteMessageFails` |
| `handleQueueProcessingFailure` | `MoveToDlq`, `MarkClaimAsError`, `DropMessage`, `RetryLater`, `DlqPublishFails` |
| a dead process, or an error that escapes the failure handler | `WorkerDies`, `AbandonRequest` |

A `Worker` is one slot of a process: a process that handles several messages at a time is
several of them. Any claim in PROCESSING may look stale to a recovery: the threshold is minutes,
and nothing keeps an extraction below it. Five kinds of faults can be switched on one by one
(`Faults`): `crash`, `db` (a call fails, with or without effect), `sqs` (the same for delete and
publish), `visibility` (a message reappears under its handler) and `resend` (a row is sent and
stays pending, to be sent again: the mark failed, or its dispatcher died or lost the dispatch
lease). The last is on only in `duplicate_wins`, beside the others it makes the other runs too
large; the theorems hold with it, and `OutboxDispatch` models it step by step.

What the code treats as ordinary is an ordinary step and no fault: an extraction that fails, a
message whose claim is already settled, a lost race.

### OutboxDispatch

A row has a status, a lease (who claimed it) and whether the lease looks expired. The creator of
a row dispatches that row; a `Sweeper`, a worker loop, selects a batch and gives it to
`Concurrency` runners (`todo` is what is not yet taken, `jobs` what is being sent). When a claim
throws, its runner ends (`lost`) and `Promise.all` rejects: the loop catches that and comes to its
next sweep, while the other runners of the abandoned one take the rest of its rows and send
them. A `Sweep` is therefore a worker loop and the number of sweeps that it has abandoned so
far; several sweeps of one loop may be busy (`Turn`), and a crash ends them all. Time is abstract: a lease may
expire whenever its holder no longer works on it, and as a fault while it does. That also covers
the clock of a sweep, which is read once for all its rows. `excused` is a history variable:
dispatches that may repeat one that succeeded.

### InboundWebhook

Requests are runs of the handler, each with the claim of its message, what it uploaded and what
failed. Checks that refuse a request write nothing but the rate limit's bucket and are one
action, `Reject`. If no queue is configured, the enqueue returns at once and the delivery is
acknowledged all the same; `ReadForEnqueue` leaves open for each request whether it is
(web processes are configured one by one), and `unqueued`, a history variable, keeps which
requests found none. The attachment policy refuses any subset; what is accepted is uploaded, fails,
or is quarantined. The fallbacks of the persistence of attachments are in: `createMany` throws after having
written, single rows fail, stored attachments end up recorded as FAILED.

### ClaimReview

`Field` stands for the columns that extraction may leave out and an operator may edit (not
`warrantyStatus` and `missingInfo`, which every extraction writes). Requests and extraction jobs
keep what they read. The processing lease is left out: any number of workers may extract for an
attempt, which is more than the code allows. `chosen` is history: what operators chose for a
column, and nothing that may replace it has replaced since.

### ClaimSummary and SummaryCache

`WriteClaim` is a claim write with its trigger, in one transaction; the program only inserts
claims and changes their status, the triggers also handle deletion and a move between
organizations, and so does the model. The migration counts the claims (`CountClaims`) before it
creates the trigger (`CreateTrigger`): what is written in between is the first drift. The script
`Select`s in one statement what differs and `Upsert`s the counts one organization at a time,
over whatever the triggers did since; several scripts may run at once. `checked` is history: the
organizations that a script has looked at, without those whose counters a claim write or
another script has changed after it looked, and those it died before. Organizations without
claims are not in the script's join, so their rows are never repaired, and `RunRepairs` does
not say that they are. The script is run by hand (`ops:reconcile-summaries`), no schedule
repeats it: what can be said is what a run leaves behind, and not that drift goes away.

A reader of `SummaryCache` computes its key (`Miss`), loads (`Load`) and stores (`Store`) in three
steps, between which counters change, the window ends (`NextWindow`) or a web process revalidates
(`Revalidate`). `seen` is a history variable: the values a view has had since it was first asked
for in this window and, if nothing was read by then, since it was last revalidated.

### ClaimTable, ClaimPages, ClaimExport

The order of a list is a key of up to three columns (`SortKey`): receive count, time, id. Times
are the clock of the write, except that a row's `createdAt` may lag its commit. `Fetch` is the
query behind a cursor in either direction; `PageAt` takes one row more than a page, and `PageOf`
cuts and reverses what was found and makes the two links.
What holds depends on whether the column can change: `createdAt` and the age of a failure do not
while a claim stays listed, `updatedAt` moves a claim to the front, and a receive count moves it
anywhere. So only claims that nobody writes are promised to be shown exactly once in every order
(`UntouchedShownOnce`); a claim that fails again may be on two pages of the list by receive count.

The export's reader has the variables of `createExportBatchReader`; a query runs (`QueryEnds`)
while the chunks of the last batch are handed out (`Pull`). A pull that finds its batch used up
takes the answer that waits, or asks itself if no query was started (`TakeBatch`), and hands out
the next chunk in the same step (`HandOut`). A prefetched query that fails before
it is awaited is an error when it is awaited.

### RateLimiter and WebSessions

Time runs in half seconds, because tokens hold whole seconds and rows do not. A request is one
record with the database call that comes next, the clock it has read and what it found; `ended`
and `held` are history: whether its session was over when it began, and which roles the user has
held since. Both storages of the limiter are modelled; the bucket's check reads the clock when
the request begins and runs its upsert later, so that upserts come in any order of clocks.
The clocks of the web processes are assumed to agree. The limiter in memory reads its clock and
appends the attempt without giving up control, so its attempts are in the order of time and the
recent ones, which the code filters, are a tail (`Recent`).

### Retention

Rows expire in any order, up to a batch of each table is selected, and updated if still unmarked
(`Redact`); a run may die between the tables, and two runs may overlap. (The schedule's runs do
not overlap each other, its concurrency group sees to that, but runs by hand may.) Deliveries
take seconds and periods are days, so a behaviour either follows deliveries or starts from what
they have left behind (`aged`).

## 3. Runs

| run | module | expected | question |
|---|---|---|---|
| `pipeline_faults` | `MCClaimProcessing` | pass | Two operators, a worker, three attempts and one fault of any kind but `resend`, with a DLQ: do rows stay consistent, messages fenced, retries justified, attempts settled once and errors traceable, and is every step one of the lifecycle? 575 thousand states |
| `watchdog_liveness` | `ClaimProcessing` | pass | Two workers, a watchdog, a DLQ, a death or a late extension: is extraction exclusive, are superseded and duplicate workers silent, and does a claim in processing land? 177 thousand states |
| `outbox_dispatch` | `OutboxDispatch` | pass | Delivery, duplicates, leases, the limits of sweeps that may overlap, and progress past a row that is never accepted. 124 thousand states |
| `webhook` | `Retention` | pass | Three deliveries, two attachments, a fault; then two runs of retention with batches of one. 401 thousand states |
| `review` | `ClaimReview` | pass | Two operators, two workers. 735 thousand states |
| `summary` | `MCSummaryCache` | pass | Do the counters stay right, does a reconciliation put right what nobody changes under it, and are cached summaries recent? 930 thousand states |
| `lists` | `ClaimLists` | pass | Pages of four lists and the export while claims change: twice, passed over, out of order? 424 thousand states |
| `web_access` | `WebSessions` | pass | Limits at their boundary, sessions that are over, roles that changed. 2.0 million states |
| `duplicate_wins` | `MCClaimProcessing` | violation | see 6.1 |
| `dlq_redrive` | `DlqRedrive` | violation | see 6.2 |
| `webhook_attachments` | `InboundWebhook` | violation | see 6.3 |
| `review_stale_extraction` | `ClaimReview` | violation | see 6.4 |

Bounds, and why they are enough.

- *One claim.* No operation touches two; the workers, operators and queue that claims share only
  delay each other. The theorems hold for any number.
- *Two workers, two attempts* (tokens bound the attempts) are a holder and a duplicate, or a
  current worker and a stale one (`watchdog_liveness`). `pipeline_faults` has a third attempt, so
  that a retry can be read in one, lose to a second and meet a third; its one worker meets
  stale and repeated messages one after the other. What two workers do when the database or SQS
  fails is in the theorems, and in `duplicate_wins`.
- *Two receives* (`MaxReceiveCount`) separate a failure that is tried again from one that goes
  to the DLQ. The count stops at the maximum, where nothing looks at it any more.
- *Faults* are limited to one, anywhere: repeated messages and lost races are ordinary steps, so
  that one fault can hit the step that deals with them.
- *Outbox*: three rows with batches of two leave one row outside a batch, and of two runners one
  can fail while the other goes on, into the next sweep of the loop. One row is refused by SQS
  for ever.
- *Webhook*: a creator, a duplicate that overlaps with it and one that comes after it. Two
  attachments can meet different fates. Two runs of retention with batches of one, over a
  message, its extraction and two attachments, leave rows of one table outside a batch.
- *Counters*: two claims in two organizations, two writes or deaths: one to drift, one to race
  with the repair. Two scripts, to overlap. A view of one organization and one of all.
- *Lists*: five claims and pages of two are three pages, the last one short; batches of three in
  chunks of two leave a chunk short and a prefetch in flight; two writes while someone reads.
- *Access*: a limit of two with four guesses, a window of two ticks in a time of three, so that a
  window ends and is met at its very end; two requests at a time, one session to end.
- *Review*: two columns, each null or not; three requests are two that race and one between.

`CHECK_DEADLOCK FALSE` everywhere: a claim that is READY with no messages left is where the
system rests, and the bounds (tokens, requests, rows) end every behaviour.

What is shared by symmetry: operators in `pipeline_faults`; organizations, requests and sessions
in `web_access`; claims, statuses and scripts in `summary`. These runs check no liveness. Tokens are not symmetric, because `FreshToken`
chooses one.

The type invariants of `ClaimProcessing` and `OutboxDispatch` are checked and proved. Those of
the other modules say what their variables hold; they are proved and not repeated in the runs.

## 4. Fairness

`ClaimProcessing!Fairness` is weak fairness of what loops do on their own: the dispatch of the
outbox, the receive of a free worker, the steps of a worker that handles a message
(`runWorkerLoop` in `apps/worker/src/index.ts` goes round for as long as the process lives, and
a process that died is replaced by its supervisor), the reappearance of a message nobody handles
(SQS), and the scan and the transaction of a watchdog if there is one. Web requests, operators
and faults are under no obligation. Each worker's steps are fair as a whole: the fairness does
not decide between outcome and failure of an extraction, nor between READY and REVIEW_REQUIRED.

`ClaimLands` needs the watchdog. Without it a duplicate delivery that finds the lease claimed
deletes the message; if the holder then dies, nothing is left that would bring the claim on. The
property asks that an attempt can still be started and that nothing else goes wrong meanwhile;
it does not ask that the watchdog waits until the worker is really stuck.

`OutboxDispatch!Fairness` is weak fairness of the sweeps, of the steps of dispatches that began,
and of the expiry of leases that nobody works under (time passes). The request that committed a
row need not survive to dispatch it. `PendingIsDispatched` needs that refused rows do not fill a
batch: a sweep always starts with the oldest rows, and with as many of these as `BatchSize`, or
`maxBatches` batches of them, later rows starve.

`RetentionSpec` has every run of the script take place again and
again (`.github/workflows/retention-redaction.yml`, daily) and go on to its updates or fail.

The other modules assume no fairness. Nothing schedules the reconciliation, and whether a client
reads its export to the end is up to the client.

## 5. Proofs

Proved for all constants, under the assumptions that the modules name. Those that say more than
the types of settings and bounds:

- `TokenAssumption`, `NullAssumption`, `AbsentAssumption`, `SessionAssumption`, `SweeperAssumption`,
  `ViewAssumption`: null is no value, names are distinct;
- `SizeAssumption`, `BatchAssumption`, `PageSizeAssumption`, `ExportAssumption`, `LimitAssumption`:
  sizes, limits and windows are at least one, which the parsers of the settings and the constants
  in the code see to;
- `MessageAssumption`: there is a message to deliver;
- `TableAssumption`, `ClaimAssumption`: a table has finitely many claims (the lists, the export and
  the counters count them), and ids are numbers, for their order.

All other sets (claims of the pipeline, workers, operators, tokens, rows, deliveries, attachments,
users' requests, sessions) may be infinite.

**ClaimLifecycleProofs.** `EventChain` and `SettledOnce` speak about the whole log but each step
appends one event, so the invariant adds `LogIsCurrent`: the log ends with the status and the
attempt of the claim, no event belongs to a later attempt, and while the claim is in PROCESSING
none settles the current one. Each action is reduced to one `Step` lemma first. `FatalIsFinal`
follows from the guards of the actions once types are known.

**ClaimProcessingProofs.**

- `ProcessingTypeOK`, action by action.
- `StepKinds` reduces the pipeline to what its steps do to claims: start an attempt; take, give
  back or settle a current attempt as its worker; or nothing. `JobsStep` says where message
  bodies come from: a step adds at most the one of a new attempt.
- `Fenced == TypeOK /\ RowConsistent /\ JobsFenced /\ RequestsFenced` is inductive. The parts
  need each other: a new token is fresh with regard to rows and messages (`RowConsistent`,
  `JobsFenced`), messages stay behind their claim because attempts only grow, and a request that
  read an ERROR row knows either that the row has not changed or that the attempt is another one
  (`RequestsFenced`), because no step leaves ERROR for the same attempt. `RetryStillAllowed` is
  a consequence of the latter.
- `SupersededNeverWrites` needs types and `TaskKinds`: every write of a worker compares the
  attempt.
- `Evidence` adds `MarkingHasEvidence` (a handler about to mark has published) to
  `ErrorHasDlqEvidence` and `RetryNeedsDlq`. Both are about the order in
  `handleQueueProcessingFailure`: publish, then mark.
- `ProcessingImplementsLife`: under `Fenced`, every step is a step of `ClaimLifecycle` or
  changes nothing there. The invariant is needed for retries (that the failure is still
  retryable) and recoveries (that the status is the one that was compared).
- `ProcessingEventChain`, `ProcessingSettledOnce` and `ProcessingFatalIsFinal` are the theorems
  about `ClaimLifecycle`, carried over by the refinement. An event does not copy the status of its
  row: it says the literal that the caller of `recordClaimStatusTransition` passes (`Advance` and
  `RecordTransition` take it as a parameter), so that `EventChain` needs the guards: each `WHERE`
  clause, or the row that was read, must imply that the literal is the status.
- The lease (`ProcessingOneExtractor`, `ProcessingNoDuplicateWins`) has a hypothesis, `LeaseFaults`:
  processes may die, messages may reappear under their handler and be sent again, but no call of
  the database or of SQS fails. It cannot go: with such a failure a handler that never claimed
  the lease releases it, or ends the attempt, and `duplicate_wins` shows how (section 6.1). The
  invariant is `OwnedOnce`: whoever is between the claim of the lease and the end of a current
  attempt owns it, owns it alone, and the lease is claimed. `OwnKinds` reduces the steps of a
  handler to three: pass ownership on, take a free lease, end the attempt as its owner.

**OutboxDispatchProofs.**

- Limits (`OutboxTypeOK`): `BatchIsBounded` maps each row of a batch to its rank, below
  `BatchSize`; `todo` shrinks, and a job is added only while a runner of that sweep is free,
  those whose claim threw not counting. The limits are of a sweep and not of a worker: its sweeps
  overlap, though only when a claim of the earlier one has thrown, which is part of `TypeOK`.
- Duplicates (`OutboxNoNeedlessDuplicate`): `Budget` says that the messages sent for a row plus
  the dispatches of it that may still send are no more than the excuses plus one permit, which
  is out while the row is leased or struck off. Claiming takes the permit, or an excuse if the
  lease was expired; giving the row back returns it only if its holder did not send.
- `OutboxLoserNeverWrites` from types and the `WHERE` clause of the two final updates.
- `OutboxImplementsDelivery` with `MarkedIsSent`: who is about to strike off has sent.

**RetentionProofs**, for the webhook and for retention on top of it.

- The invariant is `TypeOK`, `AckedIsStarted`, `ClaimCounts` (a NEW claim has had no attempt, one in
  PROCESSING its first) and two parts per request. `Knows`: past the creation its message is
  stored; about to schedule, it has read attempt 0; about to answer, its claim is not NEW unless
  it found no queue configured.
  `Accounts` follows the attachments through the creator's work: before it writes rows each is in
  `stored` or in `failed`, failed rows are written before stored ones, through each of the
  fallbacks, and all of them before it goes on to the claim.
- `OnlyGrows` is what the steps of one request are to the others: messages and rows are never
  removed, and no claim becomes NEW again. `StartedOnce`, `AckedIsStarted` and
  `CreatorAccountsForAll` follow, for the webhook alone and next to retention
  (`RetentionKeepsPromises`).
- `RetentionRedactionStands` from the condition of the update; `RetentionTypes` bounds what a
  run selects, by an injection of a batch into its places.

**ClaimReviewProofs.** Two parts join the types and `LogExplainsStatus` in the invariant.
`MovesHaveResults` is for the log: moves compare nothing in their transaction, so the log is a path
only up to moves between results, and a request that moves a claim read a result, which is never
taken back. `ReadsAreCurrent` is for `ReviewPriorValuesKept`: until a claim has a result, what a
worker has read of its columns is what they are, but for those that operators edited since.
It is not limited to PROCESSING, since an attempt may fail and the next one begin while the
worker of the first lives on. `ReviewEditsStand` needs `ReadsAreCurrent` as well: an extraction
that leaves a column out writes back what it read, which is what the operator chose only
because nothing but a choice that it missed has changed the column since.
`ReviewResultsAreTheOperators` follows from the `WHERE` clause of the worker's update.

**SummaryCacheProofs.** `TriggersKeepExact` is about counting: a claim that is inserted, deleted
or changes its status or organization changes the numbers of claims of two groups by one each
(`Cardinality` of finite sets, with one element in or out), and a sum of counters by what one of
them changes by. `ReconciliationRepairs` adds to the property what a script is still to write:
the counts of `plans` are right for the organizations in `checked`. `CacheShowsRecent` adds to the property, in `CacheInv`, that the history
of a view that somebody waits for goes on until now, and that what a reader whose load is still
for the current window has read is in that history. `CacheImplementsSummary` carries
`WritesKeepExact` and `RunRepairs` over to the composition.

**WebSessionsProofs**, for the limiter and sign-in.

- `LimitHolds` and `RetryAfterHelps` speak about the whole history of checks, each check adds
  one. `BucketInv`: windows do not overlap, the row counts at least the checks its window has
  admitted, and as long as everyone is refused it stays in the window whose end was announced.
  `MemoryInv`: attempts are in the order of time, each check that was admitted within the last
  window is remembered by an attempt of its own (an injection), and as long as everyone is
  refused the oldest attempt is the one whose end was announced.
- `EndedNotServed` and `RolesAreHeld` need `ClosedOver` (rows of sessions that ended are revoked or
  expired) and `Knows`, what a request has found so far: a session that is in the table, revoked
  if it was over when the request began, and a role its user has held since then.

**ClaimListsProofs.** Rows change between two queries, so the proofs are about keys: `AboveIsOrder`
(the order of three columns is total and strict), `FetchAnswers` (a query returns the first rows
behind its cursor, in order, and if it returns fewer than asked there are no more; from
`RankTakesAll`: the ranks of a finite set are an interval).

- Pages (`ListsPages`): what was shown is in order and in front of the link (`ShownInv`,
  `LinkInv`, `PlaceInv`), and each claim that is followed, because nobody wrote it or because its column does
  not change, is shown or behind the link (`CoverInv`). A claim that is written moves in front of
  all links in the lists by update, and keeps its place in the others (`RowStep`), hence the two
  halves of `PagesMeet`.
- `ListsPagesTurnBack` is a fact about two queries on the same rows: behind the first row of the
  next page, backwards, are the rows of the page that was left, and one more exactly if it had a
  page before it.
- Export (`ListsExport`): `Flows` says that what was written, the rest of the batch, the cursor and
  the answer that waits follow one another; `Asks` that the query that runs ahead asks for what
  is owed once the batch is handed out, and is not asked in vain, so that a batch can be taken
  with the size that `ensureBatchLoaded` computes later; `Reached` that a claim that matched all
  the time is written, in the batch, or where the query finds it. They need each other: a short
  answer means that there was no more, but only for the size that was asked for. One lemma for
  each way in which the reader moves (`BatchTaken`, `QueryAnswered`, `ChunkHanded`).

**Only model-checked.** Liveness: `ClaimLands`, `PendingIsDispatched` and
`ExpiredIsRedacted` (fairness and ENABLED are beyond the prover). Every other property of a
passing run is stated by a theorem. The four properties of the runs that are expected to fail
are false, and theirs is no theorem. `RetryNeedsDlq` is the other way round: no run
checks it, the theorem `ProcessingRetryNeedsDlq` holds for every instance.

How the model is written follows from the prover in three places: it does not know `SelectSeq`,
so `Retention!Batch` counts the places of rows, and `RateLimiter!Recent` is a tail; and it does not see
through nested `LET`s, so `ClaimPages!PageOf` is an operator of its own.

## 6. What the runs found

**6.1 A duplicate can win** (`duplicate_wins`; `apps/worker/src/claim-state.ts:50`).
`IMPLEMENTATION_PLAN_V1.md` says that lease tokens "stop stale or duplicate workers from winning
writes". Stale workers, yes: `ProcessingSuperseded`. Duplicates, no: two deliveries of a message
share attempt and token, and `markClaimAsError`, `releaseClaimProcessingLease` and
`persistClaimExtractionOutcome` compare nothing else. A duplicate that fails before it claims
the lease, on its last receive, marks as ERROR the attempt that the holder is extracting, and
the holder's result is dropped. Where only workers die and messages reappear, the
lease does its work (`watchdog_liveness`).

**6.2 The runbook's redrive does nothing** (`dlq_redrive`; `apps/worker/src/ingest-job.ts:188`).
The message in the DLQ belongs to an attempt that `markClaimAsError` ended: sent again, it is
dropped as done, and the claim stays in ERROR. Only a manual retry helps, and it does not need
the message.

**6.3 A second delivery starts the claim too early** (`webhook_attachments`;
`apps/web/lib/postmark/inbound-webhook.ts:567`). It enqueues a claim that is still NEW although
the first delivery is still uploading, or died doing so. The worker then extracts without the
attachments, and in the second case they are lost.

**6.4 An extraction undoes an edit** (`review_stale_extraction`;
`apps/worker/src/claim-state.ts:160`). Columns that were not extracted are written back as they
were when the job began, over what an operator has changed since.

Not in the models, but seen on the way: without a DLQ, a job that keeps failing for a retryable
reason moves `updatedAt` with every try and so never looks stale to the watchdog; edits of a
claim in PROCESSING postpone the watchdog in the same way; retention redacts texts, and hides
attachments, of a claim that may still be retried.

In the models, and no disagreement with what the repository says: without a configured queue the
webhook acknowledges the message with its claim still NEW (`tests/postmark-webhook-route.test.ts`
expects it), and only a repeated delivery starts it, hence the exception in `AckedIsStarted`; a
reconciliation that overlaps a write, or another one, makes counters wrong that were right, until a
later run, hence what `checked` leaves out; after a claim of a sweep has thrown, a worker may have more
sends in flight than its dispatch concurrency.

## 7. Not modelled, and the plan

*Left out on purpose.* Extraction, Textract and S3 are calls whose outcome is nondeterministic
here. Message bodies that do not parse (published to the DLQ and deleted, no claim involved) and
the wording of answers change nothing that the properties are about. Password hashing, signatures
and the parsing of forms and cookies are Booleans or left out; so are filters, which a list sees
as whether a claim matches. Audit events and same-origin checks are single inserts and stateless
comparisons. Rendering, configuration, seed and local tooling have no state that processes share.
Time is abstract in the pipeline, the outbox and retention (staleness, lease expiry and visibility
are things that may happen) and a bounded clock in `WebSessions`.

*What is left*, in order:

1. The lease under failing database and SQS calls: what the code still guarantees there is weaker
   than `OneExtractor` (an attempt is settled once, which `ProcessingSettledOnce` says), and worth an
   exact statement: a second extractor needs a failed call of a handler that never claimed the
   lease.
2. Edits of operators in `ClaimProcessing`, as writes of a claim in PROCESSING that postpone the
   watchdog.
3. A lower bound for retention: a run that does not fail redacts a full batch if there is one.
