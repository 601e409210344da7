# A specification of Planisfy

Planisfy turns uploaded and imported geodata into versioned tilesets and serves
them, lets agents on an operator's own machines build routing graphs and
basemaps, and meters and bills its accounts. This
directory holds TLA+ modules translated from its source, the TLC instances that
check them, and proofs checked by TLAPS. `PROJECT.json` maps every definition
to the lines it models. It also lists the runs, the hazards of the code and the
theorems.

## 1. The system

### Components

| component | state it keeps | operations | talks to |
|---|---|---|---|
| Console API, resources (`apps/api/src/domains/resources`) | rows of `processing_jobs`, `tilesets`, `tileset_versions` | upload, rebuild, retry, cancel, delete, publish; admission under two advisory locks | writes `event_outbox` in the same transaction |
| Event outbox (`worker-geodata/.../outbox-dispatcher.ts`, `api/src/shared/outbox`) | `event_outbox`: status, attempts, processAt | enqueue, claim a batch, complete, fail with back-off; operators re-drive and archive | BullMQ, object storage, database |
| Build queue (BullMQ on Redis) | one entry per job id: state, attempts, stalls, lock | add, remove, deliver, acknowledge, stalled check | dispatcher and worker |
| Build worker (`worker-geodata/.../source-worker.ts`, `job-lifecycle.ts`, `tileset-artifacts.ts`) | where a run is; everything else is in the database and storage | start, tile, store the artifact, finalize, wind down | database, storage, outbox |
| Stale-job reconciler (`packages/database/src/jobs/reconciliation.ts`) | its candidate | scan, ask the queue, fail the job | database, BullMQ |
| Admin app (`apps/admin/features/operations/ops-actions.ts`) | none | retry and cancel jobs, re-drive and archive events, other repairs | database |
| Scheduled operations (`api/.../operations/route.ts`, `worker-operations`) | `operation_schedules` and runs | claim due schedules, queue rebuilds, backups, refreshes | resources, worker |
| Source imports (`api/.../imports`, the dispatcher) | `source_imports`, `datasets`, `dataset_versions`, storage rows | request, scheduled refresh, extract, record and publish a version, cancel, take back, clean up | outbox, storage; queues builds |
| Billing mutations (`api/.../billing/billing-mutations.ts`, `route.ts`) | `billing_mutation_requests` with a ten-minute lease | claim an idempotency key, call the provider, record success, refusal or doubt, replay | provider |
| Billing webhook inbox (`webhook-inbox.ts`, `jobs.ts`, `billing.ts`) | `billing_webhook_events` with a two-minute lease, `subscriptions`, `billing_transactions` | accept, claim a batch under an advisory lock, apply, mark, retry | provider, `worker-billing` |
| Quota notifications (`quota-notifications.ts`, `jobs.ts`) | `quota_notification_deliveries` under a five-minute lease, the month's event | claim, mail, mark, settle the event | mail, `worker-billing` |
| Usage and limits (`api/src/middleware/rate-limit.ts`, `usage-quota.ts`, `usage-queue.ts`) | the month's counter in Redis, buffered entries, `usage_logs` | reserve, release, log, flush, ask for a warning | Redis, BullMQ, database, outbox |
| Root agents (`apps/root-agent`, `api/.../root-agent/route.ts`) | builds, activations, claims with a two-minute lease, upload sessions, installations | poll, claim, report, upload in parts, activate; cancel and activate from the console | API, storage, Martin |
| Supervisors (self-host, runtime) | one record per operation | run and recover an operation | containers |
| Styles, accounts, keys, organizations | their rows | single transactions | |
| Tile serving, static maps, elevation, geocoding, directions | caches only | reads | storage, engines |
| Front ends, schemas, policies, utilities | none of their own | | |

### Interaction

A console request commits a job, a tileset that is `BUILDING`, and a
`tileset.build.requested` row in one transaction. A dispatcher claims the row
(`PENDING` to `PROCESSING`, `attempts + 1`), reads the job again, and adds a
BullMQ entry whose id is the job's id. A worker slot takes the entry and runs
`processSourceJob`: about a dozen separate statements, transactions and storage
calls that end in `finalizeProcessedArtifact`, which makes the version. If the
finalization is refused or fails, the worker asks for the artifact's cleanup
through the outbox. The reconciler looks at jobs nobody has touched for a while
and fails those the queue does not know as live. The user may cancel, retry,
delete and publish at any point, and operators may act without admission.

An import goes through the same outbox, but the dispatcher runs it itself: it
extracts, uploads under a key made of the next version number, records the
version, publishes it, and may queue a build. It shares with the builds the jobs
table, the cancellation endpoint, the reconciler and the cleanup event.

A root agent pulls its work: each poll expires what it can of its node's claims
and hands out a build or an activation with a new claim; every request made
under a claim renews it. The console only writes the request (`queued`,
`canceling`, `activation_requested`) and the agent finds it.

Billing has two halves that meet in the subscriptions: a request of a user calls
the provider, and what comes of it arrives later, by webhook, in the inbox that a
job of `worker-billing` drains.

A public request reads its account's units of the month from the usage log,
reserves its own in Redis above them, and gives back what it did not use; its
entry reaches the log later, through a queue and a buffer. A success at 80 % of the
limit writes one event per month, and another job of `worker-billing` mails the
owners and admins.

### What is hard

- **Interleaving.** A run is not a transaction, and neither is its winding down:
  the tileset is restored by one statement and the job marked by another. A
  retry keeps the job's id, so runs of the old and the new request share the job
  row, the queue entry, the storage key and the ledger row.
- **Failure.** A crash, an error or a lost answer between any two calls: a
  batch abandoned with its rows `PROCESSING`, a committed finalization taken for
  a failed one, a run that outlives its BullMQ lock.
- **Ordering.** Cleanup events, build events and cancellations are handled in no
  fixed order relative to the requests that made them obsolete.
- **Liveness.** A dispatch that finds the previous request's entry still active
  drops its own request; only the reconciler ends such a build.
- **Leases.** A claim, a mutation and a webhook event are each held under a lease
  that may lapse while the holder goes on; what it says then is accepted or
  refused by a condition in one UPDATE, or overwrites by id.
- **Late requests.** An agent that lost an answer moves on while its request is
  still on the way; the API checks the claim when the request arrives and
  writes in a later transaction.
- **A count in two places.** The usage log lags and may lose or repeat entries;
  the counter in Redis is ahead of it, is only ever raised to it, and may vanish.
- **Numbers read early.** The number of a dataset version, and so its storage key,
  is chosen before the transaction that uses it.

### What makes each component correct

- Outbox: a claim is unique, an event is given up only when exhausted, a completed
  event stays so once its dispatchers have let go, a due one is settled.
- Builds: one version per successful build and none otherwise; a cancellation is
  final; one build of a tileset in progress; what succeeded can be served; every
  build, and the status shown for its tileset, comes to an end.
- Source imports: a dataset points to a version that exists and whose data is
  stored, moves only to higher versions, shows `READY` exactly when it has one,
  and an import that was ended leaves nothing behind.
- Billing mutations: a key reaches the provider once and its row tells what
  happened; a new key waits for the requests before it.
- Webhook inbox: a processed event stays processed, and rows end at the newest
  event whatever the order of arrival.
- Usage: concurrent requests stay within the limit, none is refused while there
  is room for it, and the warning is asked for.
- Quota notifications: a delivery that says sent was, nobody is mailed twice, and
  the event ends as its deliveries did.
- Root agents: work in progress is covered by a claim; an end is final; an
  outcome stands until asked for again; an artifact is in storage; every build
  and activation ends.
- Supervisors: one operation at a time, found again after a crash.

## 2. The modules

| module | what it is |
|---|---|
| `EventOutbox` | the `event_outbox` table, its dispatchers and the operator's two actions on a row |
| `TilesetBuilds` | abstract: what the console promises about builds and versions |
| `BuildPipeline` | the whole path of a build; instantiates `EventOutbox`, implements `TilesetBuilds` |
| `MCBuildPipeline` | instances of `BuildPipeline` for TLC (every build is of one tileset) |
| `SourceImports`, `MCSourceImports` | imports of a dataset; instantiates `EventOutbox` |
| `RootAgent`, `MCRootAgent` | claims, builds, uploads and activations of root agents |
| `Billing`, `MCBilling` | billing mutations and the webhook inbox of one account |
| `UsageQuota` | the monthly units of one account: reservations, usage log, warning |
| `QuotaNotices`, `MCQuotaNotices` | the mails that follow; extends `UsageQuota` |
| `EventOutboxProofs` | theorems about the outbox |
| `BuildTypeProofs` | the type invariant of the pipeline |
| `BuildPipelineProofs` | the safety theorems and the two refinements |
| `SourceImportsProofs` | types and safety theorems of the imports, and their use of the outbox |
| `RootAgentProofs` | types and safety theorems of the root agents |
| `BillingProofs` | types and safety theorems of billing mutations and the webhook inbox |
| `UsageQuotaProofs` | facts about sums over the requests, and the invariants of the usage |
| `QuotaNoticesProofs` | the truth of quota notices, and the theorems of usage and notices together |

### EventOutbox

`evStatus` and `evAttempts` are the columns. `claim[d][e]` is the copy of
`attempts` that a dispatcher's `UPDATE ... RETURNING` gave it, and `current[d]`
the event its loop is in. `ClaimDue`, `Begin`, `Complete`, `Fail` are one
`tick()`; `CompleteUnanswered` is a completion whose `UPDATE` is committed and whose
answer is lost, which leaves the dispatcher (now in `unanswered`) in its catch
block, where `Fail` or `Abandon` comes next; `Abandon` is a process that dies, or `failOutboxEvent` throwing out of
the loop; `Redrive` and `Archive` are the admin app's actions. Time is
abstracted: a `PENDING` row may be due at any moment and a `PROCESSING` row may
look stale at any moment (a batch that contains a long import does exceed
`OUTBOX_STALE_MS`).

### BuildPipeline

State and code:

- `jobStatus`, `cancelRequested`, `retryCount`, `stale`: `processing_jobs`
  (`stale` stands for `updatedAt` older than the reconciler's cutoff).
- `tsStatus`, `tsDeleted`, `buildJobId`, `currentVersion`, `versions`:
  `tilesets` and `tileset_versions`; a version is known by the build that made it.
- `object`, `bytes`: the ledger row in `storage_objects` and the key in object
  storage. Both are named by the job, as in `storeProcessedArtifact`.
- `qState`, `qTries`, `qStalls`: the BullMQ entry; `completed` and `failed` are
  one state, `done`, and `waiting` includes `delayed`.
- `dPc`, `wPc`, `wJob`, `wLock`, `rPc`, `rJob`: where `dispatchEvent`, each run
  of `processSourceJob` and the reconciler are between two awaited calls.

Actions, in the order of the module:

- *Console*: `Upload`, `Rebuild`, `Retry` (with `Admissible`, which is
  `lockProcessingJobAdmission`), `CancelPending`, `CancelRunning`,
  `DeleteTileset`, `Publish`. A rebuild queued by a schedule
  (`operations/route.ts`) does what `Rebuild` does.
- *Dispatcher*: `ClaimEvents`, `BeginDispatch`, `ReadJob`, `InspectQueue`,
  `AddToQueue`, `ReplaceInQueue` for a build; `DeleteBytes`, `MarkDeleted` for a
  cleanup; `CompleteEvent`, `CompletionAnswerLost`, `DispatchThrows`,
  `DispatcherCrash`.
- *Worker*: `Pick` to `AckDone`/`AckFailed`, one action per statement,
  transaction, storage call or queue call; `RecordFails`, `FinalizeFails`,
  `CleanupAnswerLost` are calls whose outcome the worker cannot know;
  `WorkerThrows` is any other failing call, in the body or in the catch block;
  `WorkerCrash`, `LoseLock` and BullMQ's `StallCheck`.
- *Reconciler*: `Age`, `Scan`, `CheckLiveness`, `LivenessUnknown`,
  `ReconcileFail`. One reconciler is modelled; each worker process has one, and
  the transaction of `ReconcileFail` repeats the conditions it depends on.
- *Admin app*: `AdminRetry` (no admission), `AdminCancelPending` (the tileset is
  left alone), `RedriveEvent`, `ArchiveEvent`.

Five specifications share these actions. `Spec` has everything. `ConsoleSpec`
leaves out operators and runs that outlive their lock, which is what the
console's promises are made under. `FairSpec` and `OperatedFairSpec` add the same
`Fairness` to one and the other, and `OverlappingFairSpec` to the console with
runs that outlive their lock.

BullMQ is modelled from how the code uses it (an id it already holds is ignored,
a locked entry is not removed, two attempts, one stall), and object storage as a
key that exists or not.

### SourceImports

One dataset, whose first import makes it and whose later ones refresh it.

- `jobStatus`, `cancelRequested`: the import's row of `processing_jobs`;
  `importStatus`: `source_imports.status`, which other code writes than writes
  the job's; `datasetStatus`, `currentVersion`: the row of `datasets`.
- `versions`, `owner`, `number`, `live`: `dataset_versions` and the
  `storage_objects` row made with each; `object[n]`: whose data is under the key
  of number `n`. `uploads` counts the uploads under a key and is read only by
  `CurrentVersionServed`.
- `run[d]`: where `dispatchEvent` of dispatcher `d` is between two awaited calls,
  with the locals `version` and `stored` and the error its catch block holds.

`RequestImport` is the transaction of both requests. `CheckStart` to `QueueTarget`
are the body of `dispatchSourceImportRequested`; `Undo` the catch block inside
`storeDatasetArtifact`; `Disown`, `SettleCanceled`, `SettleFailed` the outer one;
`DeleteBytes` the cleanup event. `RecordFails`, `SucceedFails` are transactions
whose outcome the run cannot know, and `CompletionAnswerLost` is the same for the
completion of the event. `Reconcile` may end a job at any time, since
an import has no entry in BullMQ and is never live to the reconciler. A job of an
import cannot be retried: its input is refused when the retry's event is
dispatched (`parseSourceProcessingJobInput`).

### RootAgent

- `status`, `cancelRequested`, `activationStatus`, `activationNode`: a row of
  `routing_graph_builds` or `basemap_builds` (`kind` tells which); `building`
  stands for the five statuses between `assigned` and `uploading`.
- `claimStatus`, `leased`, `job`: `root_agent_job_claims`; `leased` is "before
  `leaseExpiresAt`", which a request renews and time takes away (`LeaseLapses`).
- `session`, `multipart`: the upload session of a claim and its object;
  `unswept`: claims expired in a transaction whose sessions are still to be
  failed after it.
- `requests`: requests on the way or in the API. `stage` is where the handler is:
  `sent`, `checked` (the claim was looked at), `stored` (storage was called). What
  the handler read at the check is kept in `seen`.
- `agent[n]`: the agent's loop; `installed`, `installations`: what Martin serves
  and what the API has recorded.

Actions: the console's `Cancel` and `Activate`; the poll's `NextRoutingBuild`,
`NextRoutingActivation` and the two for basemaps, and `ExpireClaim`; the agent's
steps; `Check`, the commits and the upload session's steps in `Serve`; lost
answers (`NetworkError`, with the request arriving or not), crashes of API and
agent, failed renewals.

Left out: geocoding activations, registration and heartbeats, the upload whose
parts go through the API, the second artifact of a routing graph, releases and
their promotion, the expiry of a session by time, logs and progress.

### Billing

- `mutation`, `leased`, `recent`, `body`: a row of `billing_mutation_requests`
  (`recent`: within `CHECKOUT_REUSE_MS`); `called[k]` counts what the provider did
  for the key and is read by no action.
- `handler[h]`: a request of a user between two awaited calls.
- `inbox`, `attempts`, `eventLeased`, `processed`: `billing_webhook_events`;
  `row[x]`: the event that last set a subscription or ledger row.
- `lock`, `runner[r]`, `held[r]`, `seen[r]`: the job under its advisory lock, the
  claims its batch returned, what it read of a ledger row. `slipped` records that
  the lock was lost or the answer to a `PROCESSED` update was.

`ClaimAgain`, `ClaimNew`, `Replay` are `beginBillingMutation`; `CheckSubscription`
to `MarkUnknown` the handlers of checkout and plan change; `ClaimBatch` to
`Finish` one run of the job. Left out: rate limits, the portal and a conflicting
fingerprint (they change no state), an incomplete billing configuration, events
without an account, product or id, and the mapping of customers.

### UsageQuota and QuotaNotices

- `pc`, `base`, `used`, `reserved`, `success`, `charge`: a request in
  `rateLimitMiddleware`, with what it read from the log, what its reservation
  said, its `reservationKey`, and what it costs in the end.
- `counter`: the month's key in Redis, 0 when absent. `queue`, `active`, `batch`,
  `flushes`, `flushTimer`, `stored`: the queue `usage-logging`, its one active
  job, the buffer, the inserts under way, the timer, and the rows of `usage_logs`.
- `warning`: the month's `quota.warning.requested` row, which only the
  notifications job takes (the dispatchers do not), without claiming it.
- `delivery`, `tries`: `quota_notification_deliveries`; `mailed` counts the mails
  that arrived and is read by no action; `lock`, `run[n]`: the job.
- `slips` records what went wrong, for the properties only.

`ReadUsage` to `Warn` are one request: the read of the log and the script are two
steps, the scripts themselves one each. `ReserveThrows` falls back to the log
alone, whether or not the script was carried out. `Serve` is the handler and the
entry it queues (`usageLogMiddleware` is the inner one of the two). `TakeEntry` to
`WorkerCrash` are the queue's worker. `Begin` is a run of the job up to its claimed
deliveries, `Skip` to `MarkSentThrows` one delivery, `SettleEvent` its end. Whom a
run may mail, and which deliveries are due, it finds anew: preferences, back-off
and leases may have changed in any way since the last one. Only a row it has just
inserted is not due, because the database dates it after the run's `now`.

Left out: unlimited plans, anonymous requests, the limits per minute and per
operation (counters of a library), the turn of the month. Mail delivery is taken as
configured: `isQuotaEmailDeliveryConfigured()`, which guards the warning
(`rate-limit.ts:341`), asks only for the environment the API was started with, and
where it is false no warning is requested and `WarningRequested` says nothing. The
selection and the claim of a run's deliveries are one step (`Begin`).

## 3. The runs

| run | question | expected |
|---|---|---|
| `outbox` | Are claims fenced, are only exhausted events failed, does a completed event start over only by the failure of a dispatcher still at it, and is a due event settled, with crashes, lost answers and operators? | holds |
| `builds_two` | Two builds of one tileset, one failure anywhere: is there one build in progress, and does the pipeline implement `TilesetBuilds`? | holds |
| `builds_retry` | A build canceled and retried, with a failure and two dispatchers: is the artifact of a version there unless its cleanup was asked for? | holds |
| `builds_overlap` | One failure or lost lock anywhere, two worker slots: one version, no build left on the tileset, no finalization after a cancellation; does the build end, and does an unretried tileset stop showing `BUILDING`? | holds |
| `builds_operated` | Does a build end that operators and its user retry, cancel and re-drive at any moment? | holds |
| `root_agent` | One build and two agents, with a failure anywhere: is work in progress claimed, are ends and outcomes final, is the artifact there, does every build and activation end? | holds |
| `billing` | Two requests and two runs of the webhooks job, with lapsed leases, a lost answer or a lost lock: is the provider asked once per key, do rows tell the truth, do new keys wait, do rows end at the newest event? | holds |
| `usage` | Three requests, one failure anywhere, two runs that mail two users: is the limit kept, a refusal just, the warning asked for, and do deliveries tell what was mailed? | holds |
| `imports` | Two imports on two dispatchers, ended by the reconciler, canceled, run twice or broken off: does the dataset point to what is there, and only move forward? | holds |
| `imports_live` | Does every import end, and what an ended import recorded go away? | holds |
| `builds_cleanup` | Can every version still be served? | violated |
| `builds_stuck` | Does a tileset always stop showing `BUILDING`? | violated |

### Findings

- **A version loses its artifact** (`builds_cleanup`). A run is canceled while it
  finalizes and asks for the cleanup of its artifact. The user retries before
  the cleanup is dispatched; the retry writes the same key and revives the same
  row, succeeds, and then the cleanup deletes both without asking whether a
  version refers to them. `ARCHITECTURE.md:40` calls versioned URLs immutable.
- **A tileset stays BUILDING for ever** (`builds_stuck`), with no failure at all.
  A queued build is canceled; its run restores the tileset; the user retries; the
  run's second statement, `markProcessingJobCanceled`, cancels the retry. The new
  event is dropped as canceled, and the reconciler looks only at active jobs.

Both come from the retry reusing the job's id. `VersionArtifactServed` and
`UnretriedTilesetSettles` say how far the promise does hold.

The behaviours below are not counted as findings. Of one a comment of the code
says otherwise: `rate-limit.ts:190-192` has the next reservation reset the
baseline of the counter, which the script only raises (*Usage*). It is described
and excepted, not refuted by a run of its own. Of the others the documents,
comments and tests we read say nothing. The properties are stated so that they do
not exclude these behaviours, and their comments name them.

*Outbox.* `completeOutboxEvent` is awaited inside the `try` of `dispatchEvent`, and
`failOutboxEvent` updates by id alone. So when the completion commits and its
answer is lost, the catch block makes the `COMPLETED` row `PENDING` again (or
`FAILED` at the last attempt), on its first claim and with no operator involved;
what the event asked for is dispatched again.

*Builds.* A retry dispatched while the previous
entry is still active is dropped as already queued, and the build ends only when
the reconciler fails it. With two crashes even a tileset whose builds nobody
retried can stay `BUILDING`: the reconciler fails the build while a restarted run
is between `markProcessingJobStarted` and `setProcessingStatus`, the run shows
`BUILDING` again, and its second crash exceeds BullMQ's stall limit, so that no
run comes to restore the tileset. Hence the bound of one failure in
`builds_overlap`.

*Imports.* The number of a version is read before the transaction that uses it,
and is used again after a version was taken back. So two runs may upload under
one key; the one whose insert is refused deletes the key of the other, and the
cleanup of a version that was taken back deletes the key its successor uses again
(`CurrentVersionServed` excepts keys that were uploaded twice). When the success
of a run was committed and only its answer was lost, the catch block deletes the
version it has just published, and the dataset goes on pointing to it. The event
of an import that has succeeded, claimed again after a re-drive or a lost answer,
marks the import `CANCELED`. The row
of an import whose job was canceled while `PENDING` stays `PENDING` if its event
is lost.

*Root agents.* A build canceled while it is queued is set to `canceling`
(`operations/route.ts:1435`), which no poll looks for, and stays there. A request
delayed until the same build is activated again settles the new activation.
`succeeded` is accepted from `canceling`. A session that was failed when its claim
expired may still be completed by a finalization that was accepted before.

*Billing.* A key that `FAILED` is claimed again before other keys are looked at
and keeps its old `createdAt`: with three keys TLC finds two requests at the
provider at once and two different checkouts outstanding
(`MutationsDoNotOverlap` is about new keys). The statement that marks lapsed
leases `UNKNOWN` is rolled back with the refusal it leads to, and no code
reconciles such rows. The lost answer of a completed plan change makes it
`UNKNOWN` after `SUCCEEDED`. Without the advisory lock `ProcessedIsFinal` fails.

*Usage.* What inflates the counter stays to the end of the month: a release that
Redis did not carry out, a crash before it, an entry stored twice. The comment in
`releaseMonthlyQuota` (`rate-limit.ts:190-192`) says that the next reservation resets
the baseline, but the script only raises it; `RefusalIsJust` excepts these cases by
name. When Redis fails or loses the key, requests in flight and entries not yet
stored are uncounted (`WithinQuota` excepts that). Entries put back after a failed
insert wait for the next entry or the shutdown, since no timer is set for them.

*Quota notices.* A run that dies during the last attempt of a delivery leaves it
`PROCESSING` with its attempts spent: it is never claimed again and its event stays
`PENDING`. An event that failed and is re-driven fails again, for the attempts of
its deliveries are not reset.

### Bounds, and why they are enough

- One or two builds, one tileset. Builds of different tilesets share only the
  account's limit and the batches; the proofs cover any number of both.
- `builds_two`, the largest run, takes `MaxStalledCount = 0`, `MaxCleanups = 1`
  and `AttemptCap = 1`: a crashed run and a failed dispatch are left to the
  reconciler, and a late run comes from the queue's second attempt.
  `builds_retry` has the larger bounds except `MaxCleanups`:
  `VersionArtifactServed` is about builds without a cleanup.
- Elsewhere `MAX_ATTEMPTS = 2`, `AttemptCap` 2 or 3: an event fails once, is given up once,
  and is re-driven past the limit (`outbox` only). A claim beyond the cap is not
  made; `EventsSettle` excuses that state by name.
- `QueueAttempts = 2` and `MaxStalledCount = 1` are the code's values.
- `MaxRetries` 0 or 1: a second retry meets the same rows as the first one.
- `MaxCleanups`: at the bound `RequestCleanup` is not taken, so a run waits for
  ever, which loses behaviours of a safety run and adds none; the bound is above what the runs' retries and failures can ask for
  in the liveness runs.
- `MaxFaults` 0 or 1: one crash, error, lost answer or lost lock at any point.
  The safety theorems hold for any number.
- Operators and a lost lock do not occur in one run; the safety theorems cover
  both at once.
- `BatchSize` 2 where a build and its cleanup, or two events, may share a batch;
  1 in the liveness runs of builds and for imports, where a batch only delays its later
  events.
- Two dispatchers in `builds_retry` hold the requests of one build before and
  after its retry, so that one finds the queue entry the other replaced running.
  Two that hold one and the same event are in `outbox` and `imports`; the safety
  theorems of the pipeline hold for any number.
- `imports`: two imports meet in every way two can (one ended while it runs and
  the other started); `MaxVersions = 3` is one more than they record without a
  re-drive. `MaxUpsets` bounds failures and operators' acts together: 1 with two
  dispatchers, 2 with one.
- `root_agent`: one build is enough, because builds share only the polls of a
  node; two nodes, because an activation may move. `MaxClaims = 5`: a build given
  up once and two activations, one of them given up, and one more.
- `billing`: `MaxWork` 3 is the number of keys and events in use together, of two
  keys and three events: two keys and an event, or one key and two events of one
  row. The events of the subscription are of the same second, so that their
  order depends on precedence and id.
- `usage`: requests of 2 units and a limit of 5, so that two fit, a third does not,
  and two reach exactly 80 %; `BATCH_SIZE = 2`, so that an entry may wait, fill the
  buffer, or find failed entries in it; `MAX_DELIVERY_ATTEMPTS = 2`, one retry. By
  the time the first run of the job begins the requests have ended and their
  entries are stored or lost (`MonthOver`): a run reads nothing of them, and
  another request for the event changes nothing.
- Deadlock is not checked. A system in which every build has ended and the
  bounds are spent really stops; that it does not stop earlier is what
  `BuildsSettle` and `EventsSettle` say.
- `Symmetry` permutes builds, slots, dispatchers, keys, handlers, runners, requests
  and users, in safety runs only.

### Fairness

- Dispatchers: `setInterval` keeps calling `tick()`, a crashed process is
  restarted, and every awaited call returns or throws. Weak fairness of a claim
  and of the steps of an event.
- Workers: BullMQ's worker takes waiting entries while it has a free slot, and a
  run goes on.
- `StallCheck` and `Age`: BullMQ's timer and the clock.
- `Scan(j)`: strong fairness, because a pass of the reconciler takes every stale
  job in turn, so that a job that is stale at every pass is not passed over for
  ever by others (up to the 50 rows that a pass reads).
- Imports: the dispatchers as above, and `Reconcile(i)`, which every pass of the
  reconciler does to a job that is still active and has grown stale.
- Root agents: every node polls again, its agent goes on (its loop catches every
  error and its process is restarted), the API serves a request or drops it, and
  a lease that is not renewed runs out. That every node comes back is what
  `ActivationsSettle` rests on: a claim is expired only by a poll of its own node.
- Billing has no liveness property: a row left `PROCESSING` or `UNKNOWN` blocks its
  account for ever by design, and an event may fail for good.
- Usage and notices have none either: an event may stay `PENDING` (above).
- Users, operators, failures and lost locks owe nothing.

## 4. The proofs

All are for any value of the constants, any number of failures, retries, worker
slots, dispatchers and tilesets. They assume `OutboxAssumption` and
`PipelineAssumption` (bounds are natural numbers, there are finitely many jobs,
`NoJob` and `NoEvent` are not one, the active limit is positive), or
`AgentAssumption` (a build has a node, `NoNode` and `NoJob` are none, bounds are
natural numbers), or `ImportAssumption` and `ImportEventsAssumption` (`NoImport` is
none, the constants of the outbox are as `EventOutbox` wants them), or
`BillingAssumption` (an event is of a subscription or of the
ledger and has a status of that table, its id is its own, bounds are natural
numbers), or `UsageAssumption` (costs, limit and batch are positive, and the account
makes finitely many requests in the month) with `NoticesAssumption` (`NoRun` and
`NoUser` are none, there is at least one attempt), which TLC evaluates on each run.

| theorem | module | says |
|---|---|---|
| `OutboxTypeCorrect`, `OutboxInvariant` | `EventOutboxProofs` | types; the inductive invariant |
| `ClaimsFenced`, `FailedExhausted`, `CompletedReopens` | `EventOutboxProofs` | the outbox's two invariants and its action property |
| `TypeCorrect` | `BuildTypeProofs` | types of the whole pipeline |
| `BuildInvariant` | `BuildPipelineProofs` | the inductive invariant of the pipeline |
| `VersionsCorrect`, `BuildJobReleased` | `BuildPipelineProofs` | one version per build; no build left behind |
| `CancellationFinal` | `BuildPipelineProofs` | no version after a cancellation unless retried |
| `AdmissionCorrect` | `BuildPipelineProofs` | one active build per tileset, the account within its limit |
| `Implementation` | `BuildPipelineProofs` | `ConsoleSpec` implements `TilesetBuilds` |
| `OutboxUse` | `BuildPipelineProofs` | the pipeline uses the outbox only through `EventOutbox` |
| `ArtifactsServed` | `BuildPipelineProofs` | the artifact of a version is there until its cleanup is asked for |
| `RootTypes`, `WorkCovered` | `RootAgentProofs` | types; work in progress has an active claim |
| `EndIsFinal`, `OutcomeIsKept` | `RootAgentProofs` | the two action properties |
| `UploadsAreFit`, `ArtifactsStored`, `InstallationsReal` | `RootAgentProofs` | what is known of uploads and activations; artifacts are stored, installations real |
| `ImportInvariant`, `ImportTypeCorrect` | `SourceImportsProofs` | the inductive invariant of imports; types |
| `CurrentServed`, `DatasetStatusIsTrue`, `OutcomesShown` | `SourceImportsProofs` | the current version has its rows and data; what dataset and import show is true |
| `VersionsOnlyAdvance` | `SourceImportsProofs` | a dataset moves to higher versions only |
| `ImportOutboxUse` | `SourceImportsProofs` | imports use the outbox only through `EventOutbox` |
| `BillingTypes` | `BillingProofs` | types of requests, inbox and runs |
| `OutcomesTrue`, `NoOverlap` | `BillingProofs` | the provider is asked once per key and the row tells the truth; new keys wait |
| `RowsLatest`, `ProcessedFinal` | `BillingProofs` | rows end at the newest event; processed events stay so |
| `UsageInvariant` | `UsageQuotaProofs` | the two invariants of the usage, whatever happens to the warning besides |
| `LimitIsKept`, `WarningIsRequested` | `QuotaNoticesProofs` | requests stay within the limit; the warning is asked for at 80 % |
| `RefusalsAreJust` | `QuotaNoticesProofs` | nobody is refused while there is room (action property) |
| `NoticesAreTrue`, `NoticesTypeCorrect` | `QuotaNoticesProofs` | deliveries and the event tell what was mailed, to nobody twice; types |

**Outbox.** `ClaimsAreFenced` is inductive once it is known that a dispatcher runs
only what it holds (`CurrentIsHeld`): a claim takes a value of `attempts` above
every earlier one. `FailedIsExhausted` needs the fence, because the decision uses
the held copy and the row is never behind it. `CompletedReopensOnlyIfHeld` needs
`FirstCompletionIsKnown`: when a row completed after one claim is still held, its
holder is the dispatcher that completed it and got no answer.

**Pipeline.** `OneVersionPerBuild` is not inductive alone. A finalization may
append only because a build whose tileset still names it cannot have succeeded
(`NoBuildJobLeftBehind`), and `CancellationIsFinal` needs that a job on which a
cancellation is requested has not succeeded already (`CancellationAsked`).
The conjunction is `BuildInv`. Rather than one case per action and conjunct,
lemma `Move` classifies every step: it is a request (`Requests`), a commit
(`Commits`), or it only winds builds down (`WindsDown`). Preservation, the action
property, admission and the refinement are each argued from these three cases.

**Artifacts of versions.** `VersionArtifactServed` is proved of `ConsoleSpec`, where
no run outlives its lock. `ServedInv` adds three facts to it. An active entry has
one run, which holds its lock (`RunsApart`). Bytes are deleted only for a cleanup
that was asked for (`CleanupsAreAsked`, by the outbox's own invariant). And a run
that may still finalize has stored what it has passed, unless a cleanup of its
build was asked for (`RunsStore`). With `LoseLock` the last one fails: when a second
run of the build cannot record its artifact it deletes the bytes of the first.

**Types.** `TypeCorrect` has one step per conjunct of `TypeOK` and one per action
that touches it; the outbox part reuses the outbox's own theorem through
`OutboxStep`, which is also what `OutboxUse` rests on.

**Refinement.** The mapping sends a job's status to a phase and keeps `versions`
and `currentVersion`. `Requests` maps to `Start` (admission is `MayStart`, by the
equality of the two counts), `Commits` to `Succeed`, a winding-down step to
`Stop`, to `Publish` or to nothing.

**Root agents.** The inductive invariant `IInv` is the types together with `Fits`:
an agent at work holds a claim on its own node and of the phase it is in; a
request is of its claim's phase, and one that has been checked would still apply
to the status its handler read; an agent waits for one request. It has one lemma
per action (`Inductive`). `WorkHasClaim` follows by the same cases: whoever puts
work in progress creates the claim in the same step, and a commit that moves on
from a status compares it again. The action properties follow from `Fits` and
from that comparison.

A second layer, `UploadsFit`, follows an upload: one request at most opens the
session of a claim, and only while there is none (`OpeningFits`), so what is stored
is never opened again; a finalization past the storage call has its object
(`StoredFits`); a completed session has recorded its artifact (`SessionsFit`). An
agent reports a success only of a build with an artifact (`SuccessFits`) and an
activation only where it has installed the build (`InstallsFit`). None of these
facts is disturbed by the requests of other claims, which is what makes
`ArtifactIsStored` and `InstallationsAreReal` hold.

**Imports.** The difficulty is that a number is read long before it is used, so two
runs may share a key. What is invariant is who has uploaded: whoever may still write
or delete under the number of a version that is not its own has counted an upload
there too (`KeysAreShared`), hence a key that was uploaded to once holds the data of
its version (`KeysHoldData`). Of the lost answer of `Record` this needs that the key
the run then deletes is of a version nobody has acknowledged. `VersionsAdvance` rests
on `OneActive`, one job at a time, and `RunsAreAhead`: a run whose job still goes on
has read its number after the import before it had ended. `OutcomeShown` needs that
the publisher of an import is the only holder of its event (`PublisherIsAlone`),
which is the outbox's fence: the event was claimed once.

**Billing.** Requests and the webhook inbox write disjoint variables
(`TwoHalves`), so each half has an inductive invariant of its own.
`OutcomeIsTrue` needs to know where each request is: before its call the
provider has done nothing for its key, after it exactly one thing (`CallsFit`),
and no second request of the key is under way (`OneFlight`). The last two facts
rest on `FlightsFit`: the row of a request in flight is `PROCESSING` or
`UNKNOWN`, also after its lease has lapsed, so that neither its own key nor a new
one can be claimed, which is also `MutationsDoNotOverlap`. For the inbox,
`Newer` is a strict order (`NewerIsAnOrder`: time, then precedence, then id), so a
row set by the newer of two events stays ahead of every event applied before
(`RowTakes`). The ledger is read and written in two steps; while no lock has
slipped the run at work is alone (`Alone`), what it read is still there
(`SeenFits`), and what it holds is `PROCESSING` (`HeldFits`), which is why a late
failure reopens nothing (`ProcessedIsFinal`). Once the lock has slipped only the
rows of subscriptions, set in one statement, are promised.

**Quota notices.** That a delivery which says `SENT` was mailed is inductive with
`RunsFit`, whatever goes wrong. The rest holds while no run was disturbed: then the
run at work holds the lock (`Alone`), so that it is the only one, what it still
has to mail is `PROCESSING` (`WorkIsClaimed`), and a mail that arrived is recorded
or about to be (`MailIsKnown`); a later run finds it `SENT`. The requests enter only
through `UsageAsks`: all they do to the event is ask for it.

**Usage.** The properties are about sums over the requests. The community modules
define `SumFunction` by recursion over an arbitrary element, so `UsageQuotaProofs`
begins with what is needed of it: that the recursion has a solution on every finite
set, that a sum is a natural number, that it grows with its terms, and that it moves
by what one term moves (`SumInNat`, `SumGrows`, `SumChanges`, `SumOfZeros`). Each is
proved by a smallest counterexample, a subset of the requests that has none below it.

All steps but one request's leave the requests alone (`RequestsApart`), and a step of
the notices or of the operator is a `UsageAside`: it changes nothing but the warning
and never takes it back (`NoticesAside`). Three invariants follow one another.

- `LimitInv`: unless Redis failed, every request being served has its reservation and
  the counter holds at least what all of them hold. A reservation raises both by the
  same cost and stays within the limit, a release lowers the counter by no more than
  the units given up; `WithinQuota` follows, for nobody uses more than it holds.
- `WarningInv`: the requests have reserved in some order, and each found at least what
  those before it hold (`OrderedAs`, with the order under a quantifier: it is in no
  variable). Of the successes, in whatever order they end, the last to reserve found
  what all the others were charged; so if together they reach 80 % of the limit it
  warned, or is still to end. `PercentReached` is the rounding.
- `RefusalInv`: while none of the four failures that `RefusalIsJust` names has
  happened, the counter holds no more than the requests do, and the log counts for a
  request no more than its charge. The latter needs `OnePlace`: unless it is delivered
  again, an entry is in one of queue, buffer and flushes, and stored at most once,
  after all of them.

`WithinActiveLimit` is proved (`AdmissionCorrect`) and in no run: with two builds
of one tileset `OneActiveBuild` is the stronger of the two.

**Only model-checked.** `BuildsSettle`, `UnretriedTilesetSettles`, `EventsSettle`,
`ActivationsSettle`, `ImportsSettle`, `EndedImportLeavesNothing`: liveness under
fairness is beyond the prover, as are `ENABLED`, operators declared `RECURSIVE` and
the library's rules of induction, which take an operator as a parameter. Every
invariant and every action property of a passing run is proved.

## 5. What is abstracted

- A database transaction is one step, including what a handler reads just before
  it and does not read again inside it. A delete racing an admission between
  those two reads is therefore not explored.
- Within `CheckStored`, the progress update and the cancellation check that
  follows are one step.
- `Work` stands for download, validation and tiling, with its three outcomes and
  its checks for cancellation; the commands it runs are not modelled.
- Log and audit inserts change no state; a log insert that fails is
  `WorkerThrows`. Rows of `uploads` follow their job and are left out.
- BullMQ's eviction of old finished entries is left out: a removed entry and a
  finished one differ only in which of `AddToQueue` and `ReplaceInQueue` runs.
- `tileset.version.published` is written to the outbox by a finalization; no
  dispatcher consumes it.
- An import's command runs or is killed in one step (`Extract`) with its three
  outcomes; storage puts are atomic. The build an import queues is admitted as
  `BuildPipeline`'s are, and here only succeeds, is refused, or fails to log.
- A schedule's refresh is one action; the claim of the schedule is not modelled.

Components with status `not_modelled` in `PROJECT.json` are either planned
(below) or keep no state whose order matters: front ends, tile serving and
rendering, single-transaction CRUD, supervisors that drive shell commands.

## 6. Plan

In this order, each with its own proofs module where it has safety worth proving:

1. Schedules: claims of due schedules and the rebuilds and refreshes they queue,
   composed with `BuildPipeline` and `SourceImports`.
2. The supervisors' operation record; drafts and published versions of styles.

Proofs still worth writing: how far `VersionArtifactServed` holds with runs that
outlive their lock, and the safety part of `EndedImportLeavesNothing` (what an ended
import still has is asked to be cleaned up, or its run goes on).
