---------------------------- MODULE BuildPipeline ----------------------------
(***************************************************************************)
(* The life of a tileset build, from the console request to the published  *)
(* version: the API handlers (apps/api/src/domains/resources), the outbox  *)
(* and its dispatcher, the BullMQ queue, the worker                        *)
(* (apps/worker-geodata/src/domains), the stale-job reconciler             *)
(* (packages/database/src/jobs/reconciliation.ts) and the operator actions *)
(* of the admin app (apps/admin/features/operations/ops-actions.ts).       *)
(*                                                                         *)
(* Every database statement or transaction is one step, so are a queue     *)
(* call and a storage call; between two of them anything may happen.       *)
(* BullMQ, PostgreSQL and object storage are modelled from how the code    *)
(* uses them.                                                              *)
(***************************************************************************)
EXTENDS Naturals, Sequences, FiniteSets

CONSTANTS
  Jobs,            \* rows of processing_jobs
  Tilesets,
  Target,          \* Target[j]: input.tilesetId of job j
  Workers,         \* slots of the BullMQ workers (their concurrency)
  Dispatchers,
  NoJob, NoEvent,
  ActiveJobLimit,  \* PROCESSING_ACTIVE_JOB_LIMIT
  MAX_ATTEMPTS,    \* of an outbox event
  BatchSize,
  QueueAttempts,   \* attempts of a queue entry, 2 in the code
  MaxStalledCount, \* BullMQ's default, 1
  MaxRetries,      \* bound of the model: retries of one job
  MaxCleanups,     \* bound of the model: cleanup events of one job
  AttemptCap,      \* bound of the model: claims of one event
  MaxFaults        \* bound of the model: crashes, errors and lost locks

ASSUME PipelineAssumption ==
  /\ Target \in [Jobs -> Tilesets]
  /\ NoJob \notin Jobs
  /\ MaxRetries \in Nat /\ MaxCleanups \in Nat /\ MaxFaults \in Nat
  /\ QueueAttempts \in Nat /\ MaxStalledCount \in Nat
  /\ IsFiniteSet(Jobs) /\ ActiveJobLimit \in Nat \ {0}

(* tileset.build.requested: one event per admission, and                    *)
(* artifact.cleanup.requested: one per refused finalization.                *)
BuildEvent(j, n) == [kind |-> "build", job |-> j, n |-> n]
CleanupEvent(j, n) == [kind |-> "cleanup", job |-> j, n |-> n]
Events ==
  [kind : {"build"}, job : Jobs, n : 0..MaxRetries]
    \cup [kind : {"cleanup"}, job : Jobs, n : 1..MaxCleanups]

VARIABLES
  evStatus, evAttempts, claim, current, unanswered,  \* see EventOutbox
  jobStatus,        \* processing_jobs.status, "NONE" before the insert
  cancelRequested,  \* cancelRequestedAt is set
  retryCount,
  stale,            \* updatedAt is older than the reconciler's cutoff
  tsStatus, tsDeleted, buildJobId, currentVersion,  \* tilesets
  versions,         \* versions[t][n]: buildJobId of version n of tileset t
  object,           \* storage_objects row of the job's artifact
  bytes,            \* the object storage holds the artifact's key
  qState, qTries, qStalls,  \* the BullMQ entry whose jobId is the job's id
  dPc,              \* where dispatchEvent of a dispatcher is
  wPc, wJob,        \* where processSourceJob of a worker slot is
  wLock,            \* the slot holds BullMQ's lock of its entry
  rPc, rJob,        \* the reconciler and its candidate
  faults

outboxVars == <<evStatus, evAttempts, claim, current, unanswered>>
jobVars == <<jobStatus, cancelRequested, retryCount, stale>>
tilesetVars == <<tsStatus, tsDeleted, buildJobId, currentVersion, versions>>
artifactVars == <<object, bytes>>
queueVars == <<qState, qTries, qStalls>>
workerVars == <<wPc, wJob, wLock>>
reconcilerVars == <<rPc, rJob>>
vars == <<outboxVars, jobVars, tilesetVars, artifactVars, queueVars, dPc,
          workerVars, reconcilerVars, faults>>

Outbox == INSTANCE EventOutbox

ASSUME EventsAssumption == Outbox!OutboxAssumption

-----------------------------------------------------------------------------
JobStatus == {"NONE", "PENDING", "PROCESSING", "SUCCEEDED", "FAILED", "CANCELED"}
TilesetStatus == {"DRAFT", "BUILDING", "READY", "ERROR", "ARCHIVED"}
QueueState == {"none", "waiting", "active", "done"}
DispatchPc ==
  {"none", "read", "inspect", "add", "replace", "delete", "mark", "done", "throw"}
WorkerPc ==
  {"idle", "check", "start", "setBuilding", "work", "upload", "ledger",
   "checkStored", "finalize", "cleanupCanceled", "cleanupError",
   "setCanceled", "markCanceled", "setError", "markFailed", "ackDone", "ackFailed"}

JobsTypeOK ==
  /\ jobStatus \in [Jobs -> JobStatus]
  /\ cancelRequested \in [Jobs -> BOOLEAN]
  /\ retryCount \in [Jobs -> 0..MaxRetries]
  /\ stale \in [Jobs -> BOOLEAN]

TilesetsTypeOK ==
  /\ tsStatus \in [Tilesets -> TilesetStatus]
  /\ tsDeleted \in [Tilesets -> BOOLEAN]
  /\ buildJobId \in [Tilesets -> Jobs \cup {NoJob}]
  /\ currentVersion \in [Tilesets -> Nat]
  /\ versions \in [Tilesets -> Seq(Jobs)]

ArtifactsTypeOK ==
  /\ object \in [Jobs -> {"none", "live", "deleted"}]
  /\ bytes \in [Jobs -> BOOLEAN]

QueueTypeOK ==
  /\ qState \in [Jobs -> QueueState]
  /\ qTries \in [Jobs -> Nat]
  /\ qStalls \in [Jobs -> Nat]

(* A slot that runs has a job. *)
WorkersTypeOK ==
  /\ wPc \in [Workers -> WorkerPc]
  /\ wJob \in [Workers -> Jobs \cup {NoJob}]
  /\ wLock \in [Workers -> BOOLEAN]
  /\ \A w \in Workers : wPc[w] # "idle" => wJob[w] \in Jobs

ReconcilerTypeOK ==
  /\ rPc \in {"idle", "liveness", "fail"}
  /\ rJob \in Jobs \cup {NoJob}

TypeOK ==
  /\ Outbox!OutboxTypeOK
  /\ JobsTypeOK
  /\ TilesetsTypeOK
  /\ ArtifactsTypeOK
  /\ QueueTypeOK
  /\ dPc \in [Dispatchers -> DispatchPc]
  /\ WorkersTypeOK
  /\ ReconcilerTypeOK
  /\ faults \in 0..MaxFaults

Init ==
  /\ Outbox!OutboxInit
  /\ jobStatus = [j \in Jobs |-> "NONE"]
  /\ cancelRequested = [j \in Jobs |-> FALSE]
  /\ retryCount = [j \in Jobs |-> 0]
  /\ stale = [j \in Jobs |-> FALSE]
  /\ tsStatus = [t \in Tilesets |-> "DRAFT"]
  /\ tsDeleted = [t \in Tilesets |-> FALSE]
  /\ buildJobId = [t \in Tilesets |-> NoJob]
  /\ currentVersion = [t \in Tilesets |-> 0]
  /\ versions = [t \in Tilesets |-> <<>>]
  /\ object = [j \in Jobs |-> "none"]
  /\ bytes = [j \in Jobs |-> FALSE]
  /\ qState = [j \in Jobs |-> "none"]
  /\ qTries = [j \in Jobs |-> 0]
  /\ qStalls = [j \in Jobs |-> 0]
  /\ dPc = [d \in Dispatchers |-> "none"]
  /\ wPc = [w \in Workers |-> "idle"]
  /\ wJob = [w \in Workers |-> NoJob]
  /\ wLock = [w \in Workers |-> FALSE]
  /\ rPc = "idle" /\ rJob = NoJob
  /\ faults = 0

ActiveJob(j) == jobStatus[j] \in {"PENDING", "PROCESSING"}

(* Mutant: only the status is looked at. *)
Continuing_Uncanceled(j) == ActiveJob(j)

(* throwIfCancellationRequested passes; also the WHERE of activeProcessingJob *)
Continuing(j) == ActiveJob(j) /\ ~cancelRequested[j]

(* activeTilesetBuild: the tileset row still names this job.                *)
OwnsTileset(j) == buildJobId[Target[j]] = j

(* Mutant: the status of the upload is written to the tileset. *)
RestoredStatus_Upload(t) == IF currentVersion[t] = 0 THEN "UPLOADED" ELSE "READY"

(* canceledTilesetStatusExpression                                          *)
RestoredStatus(t) == IF currentVersion[t] = 0 THEN "DRAFT" ELSE "READY"

Touch(j) == stale' = [stale EXCEPT ![j] = FALSE]

Fault == faults < MaxFaults /\ faults' = faults + 1

-----------------------------------------------------------------------------
(* The console API.                                                         *)

(* Mutant: the tileset's own build is not looked for. *)
Admissible_AnyBuild(j) ==
  /\ Cardinality({k \in Jobs \ {j} : ActiveJob(k)}) < ActiveJobLimit
  /\ ~tsDeleted[Target[j]]

(* lockProcessingJobAdmission, under the account's and the tileset's        *)
(* advisory locks; excludeJobId is j itself when a job is retried.  A stale *)
(* build_job_id it clears is overwritten by every caller.                   *)
Admissible(j) ==
  /\ Cardinality({k \in Jobs \ {j} : ActiveJob(k)}) < ActiveJobLimit
  /\ ~tsDeleted[Target[j]]
  /\ \A k \in Jobs \ {j} : ActiveJob(k) => Target[k] # Target[j] /\ buildJobId[Target[j]] # k

(* What every request for a build writes in its transaction.                *)
RequestBuild(j, n) ==
  /\ jobStatus' = [jobStatus EXCEPT ![j] = "PENDING"]
  /\ cancelRequested' = [cancelRequested EXCEPT ![j] = FALSE]
  /\ retryCount' = [retryCount EXCEPT ![j] = n]
  /\ Touch(j)
  /\ tsStatus' = [tsStatus EXCEPT ![Target[j]] = "BUILDING"]
  /\ buildJobId' = [buildJobId EXCEPT ![Target[j]] = j]
  /\ Outbox!Enqueue(BuildEvent(j, n))
  /\ UNCHANGED <<tsDeleted, currentVersion, versions, artifactVars, queueVars,
                 dPc, workerVars, reconcilerVars, faults>>

Upload(j) ==
  /\ jobStatus[j] = "NONE"
  /\ Admissible(j)
  /\ RequestBuild(j, 0)

(* A rebuild runs a new job over the latest upload of the tileset.          *)
Rebuild(j) ==
  /\ jobStatus[j] = "NONE"
  /\ \E k \in Jobs : Target[k] = Target[j] /\ jobStatus[k] # "NONE"
  /\ Admissible(j)
  /\ RequestBuild(j, 0)

Retryable(j) ==
  jobStatus[j] \in {"FAILED", "CANCELED"} /\ retryCount[j] < MaxRetries

Retry(j) ==
  /\ Retryable(j)
  /\ Admissible(j)
  /\ RequestBuild(j, retryCount[j] + 1)

(* A PENDING job is canceled on the spot and its tileset restored.          *)
CancelPending(j) ==
  /\ jobStatus[j] = "PENDING"
  /\ jobStatus' = [jobStatus EXCEPT ![j] = "CANCELED"]
  /\ cancelRequested' = [cancelRequested EXCEPT ![j] = TRUE]
  /\ Touch(j)
  /\ IF OwnsTileset(j)
     THEN /\ tsStatus' = [tsStatus EXCEPT ![Target[j]] = RestoredStatus(Target[j])]
          /\ buildJobId' = [buildJobId EXCEPT ![Target[j]] = NoJob]
     ELSE UNCHANGED <<tsStatus, buildJobId>>
  /\ UNCHANGED <<outboxVars, retryCount, tsDeleted, currentVersion, versions,
                 artifactVars, queueVars, dPc, workerVars, reconcilerVars, faults>>

(* A PROCESSING job is only asked to stop (asking again changes nothing but *)
(* updatedAt).                                                              *)
CancelRunning(j) ==
  /\ jobStatus[j] = "PROCESSING" /\ ~cancelRequested[j]
  /\ cancelRequested' = [cancelRequested EXCEPT ![j] = TRUE]
  /\ Touch(j)
  /\ UNCHANGED <<outboxVars, jobStatus, retryCount, tilesetVars, artifactVars,
                 queueVars, dPc, workerVars, reconcilerVars, faults>>

DeleteTileset(t) ==
  /\ ~tsDeleted[t]
  /\ tsDeleted' = [tsDeleted EXCEPT ![t] = TRUE]
  /\ tsStatus' = [tsStatus EXCEPT ![t] = "ARCHIVED"]
  /\ UNCHANGED <<outboxVars, jobVars, buildJobId, currentVersion, versions,
                 artifactVars, queueVars, dPc, workerVars, reconcilerVars, faults>>

(* The ledger row must be live, and registerPublishedTileAliases reads the  *)
(* artifact.                                                                *)
Publish(t, v) ==
  /\ v \in 1..Len(versions[t])
  /\ ~tsDeleted[t]
  /\ object[versions[t][v]] = "live" /\ bytes[versions[t][v]]
  /\ currentVersion' = [currentVersion EXCEPT ![t] = v]
  /\ tsStatus' = [tsStatus EXCEPT ![t] = "READY"]
  /\ UNCHANGED <<outboxVars, jobVars, tsDeleted, buildJobId, versions,
                 artifactVars, queueVars, dPc, workerVars, reconcilerVars, faults>>

-----------------------------------------------------------------------------
(* The dispatcher: dispatchEvent over the events it has claimed.            *)

DispatchFrame == UNCHANGED <<jobVars, tilesetVars, workerVars, reconcilerVars>>

SetDPc(d, pc) == dPc' = [dPc EXCEPT ![d] = pc]

EventJob(d) == current[d].job

ClaimEvents(d, S) ==
  /\ Outbox!ClaimDue(d, S)
  /\ UNCHANGED <<artifactVars, queueVars, dPc, faults>> /\ DispatchFrame

BeginDispatch(d, e) ==
  /\ Outbox!Begin(d, e)
  /\ SetDPc(d, IF e.kind = "build" THEN "read" ELSE "delete")
  /\ UNCHANGED <<artifactVars, queueVars, faults>> /\ DispatchFrame

(* dispatchTilesetBuildRequested: a canceled job's request is dropped.      *)
ReadJob(d) ==
  /\ dPc[d] = "read"
  /\ LET j == EventJob(d) IN
       SetDPc(d, IF jobStatus[j] = "CANCELED" \/ cancelRequested[j]
                 THEN "done" ELSE "inspect")
  /\ UNCHANGED <<outboxVars, artifactVars, queueVars, faults>> /\ DispatchFrame

(* removeRetryableSourceProcessingJob: a runnable entry is kept.            *)
InspectQueue(d) ==
  /\ dPc[d] = "inspect"
  /\ SetDPc(d, CASE qState[EventJob(d)] = "none" -> "add"
                 [] qState[EventJob(d)] = "done" -> "replace"
                 [] OTHER -> "done")
  /\ UNCHANGED <<outboxVars, artifactVars, queueVars, faults>> /\ DispatchFrame

PutInQueue(j) ==
  /\ qState' = [qState EXCEPT ![j] = "waiting"]
  /\ qTries' = [qTries EXCEPT ![j] = 0]
  /\ qStalls' = [qStalls EXCEPT ![j] = 0]

(* queue.add: BullMQ ignores an id it already holds.                        *)
AddToQueue(d) ==
  /\ dPc[d] = "add"
  /\ IF qState[EventJob(d)] = "none"
     THEN PutInQueue(EventJob(d)) ELSE UNCHANGED queueVars
  /\ SetDPc(d, "done")
  /\ UNCHANGED <<outboxVars, artifactVars, faults>> /\ DispatchFrame

(* existing.remove() then queue.add: BullMQ refuses to remove a locked      *)
(* (active) entry.                                                          *)
ReplaceInQueue(d) ==
  /\ dPc[d] = "replace"
  /\ IF qState[EventJob(d)] = "active"
     THEN UNCHANGED queueVars /\ SetDPc(d, "throw")
     ELSE PutInQueue(EventJob(d)) /\ SetDPc(d, "done")
  /\ UNCHANGED <<outboxVars, artifactVars, faults>> /\ DispatchFrame

(* dispatchArtifactCleanupRequested: first the storage, then the ledger.    *)
DeleteBytes(d) ==
  /\ dPc[d] = "delete"
  /\ bytes' = [bytes EXCEPT ![EventJob(d)] = FALSE]
  /\ SetDPc(d, "mark")
  /\ UNCHANGED <<outboxVars, object, queueVars, faults>> /\ DispatchFrame

MarkDeleted(d) ==
  /\ dPc[d] = "mark"
  /\ object' = [object EXCEPT ![EventJob(d)] = "deleted"]
  /\ SetDPc(d, "done")
  /\ UNCHANGED <<outboxVars, bytes, queueVars, faults>> /\ DispatchFrame

CompleteEvent(d) ==
  /\ dPc[d] = "done"
  /\ Outbox!Complete(d)
  /\ SetDPc(d, "none")
  /\ UNCHANGED <<artifactVars, queueVars, faults>> /\ DispatchFrame

(* The event is COMPLETED and completeOutboxEvent throws: its answer was    *)
(* lost, and the catch block is next.                                       *)
CompletionAnswerLost(d) ==
  /\ dPc[d] = "done" /\ Fault
  /\ Outbox!CompleteUnanswered(d)
  /\ SetDPc(d, "throw")
  /\ UNCHANGED <<artifactVars, queueVars>> /\ DispatchFrame

FailEvent(d) ==
  /\ Outbox!Fail(d)
  /\ SetDPc(d, "none")
  /\ UNCHANGED <<artifactVars, queueVars>> /\ DispatchFrame

(* Any awaited call of dispatchEvent may also throw by itself.              *)
DispatchThrows(d) ==
  /\ dPc[d] # "none"
  /\ IF dPc[d] = "throw" THEN UNCHANGED faults ELSE Fault
  /\ FailEvent(d)

DispatcherCrash(d) ==
  /\ Fault
  /\ Outbox!Abandon(d)
  /\ SetDPc(d, "none")
  /\ UNCHANGED <<artifactVars, queueVars>> /\ DispatchFrame

-----------------------------------------------------------------------------
(* The worker: processSourceJob, from BullMQ's delivery to its              *)
(* acknowledgement.                                                         *)

WorkerFrame == UNCHANGED <<dPc, reconcilerVars>>

Goto(w, pc) == wPc' = [wPc EXCEPT ![w] = pc] /\ UNCHANGED <<wJob, wLock>>

SetTileset(t, status, job) ==
  /\ tsStatus' = [tsStatus EXCEPT ![t] = status]
  /\ buildJobId' = [buildJobId EXCEPT ![t] = job]

SetJob(j, status) ==
  /\ jobStatus' = [jobStatus EXCEPT ![j] = status]
  /\ Touch(j)
  /\ UNCHANGED <<cancelRequested, retryCount>>

(* updateProgress *)
Progress(j) ==
  /\ IF Continuing(j) THEN Touch(j) ELSE UNCHANGED stale
  /\ UNCHANGED <<jobStatus, cancelRequested, retryCount>>

Pick(w, j) ==
  /\ wPc[w] = "idle"
  /\ qState[j] = "waiting"
  /\ qState' = [qState EXCEPT ![j] = "active"]
  /\ wPc' = [wPc EXCEPT ![w] = "check"]
  /\ wJob' = [wJob EXCEPT ![w] = j]
  /\ wLock' = [wLock EXCEPT ![w] = TRUE]
  /\ UNCHANGED <<outboxVars, jobVars, tilesetVars, artifactVars, qTries, qStalls, faults>>
  /\ WorkerFrame

CheckStart(w) ==
  /\ wPc[w] = "check"
  /\ Goto(w, IF Continuing(wJob[w]) THEN "start" ELSE "setCanceled")
  /\ UNCHANGED <<outboxVars, jobVars, tilesetVars, artifactVars, queueVars, faults>>
  /\ WorkerFrame

(* markProcessingJobStarted goes on even when its UPDATE matches no row.    *)
MarkStarted(w) ==
  /\ wPc[w] = "start"
  /\ IF Continuing(wJob[w]) THEN SetJob(wJob[w], "PROCESSING") ELSE UNCHANGED jobVars
  /\ Goto(w, "setBuilding")
  /\ UNCHANGED <<outboxVars, tilesetVars, artifactVars, queueVars, faults>>
  /\ WorkerFrame

SetProcessing(w) ==
  /\ wPc[w] = "setBuilding"
  /\ LET t == Target[wJob[w]] IN
       IF OwnsTileset(wJob[w])
       THEN SetTileset(t, "BUILDING", buildJobId[t])
       ELSE UNCHANGED <<tsStatus, buildJobId>>
  /\ Goto(w, "work")
  /\ UNCHANGED <<outboxVars, jobVars, tsDeleted, currentVersion, versions,
                 artifactVars, queueVars, faults>>
  /\ WorkerFrame

(* Mutant: the upload is skipped. *)
Work_NoUpload(w) ==
  /\ wPc[w] = "work"
  /\ \/ Continuing(wJob[w]) /\ Progress(wJob[w]) /\ Goto(w, "ledger")
     \/ ~Continuing(wJob[w]) /\ UNCHANGED jobVars /\ Goto(w, "setCanceled")
     \/ UNCHANGED jobVars /\ Goto(w, "setError")
  /\ UNCHANGED <<outboxVars, tilesetVars, artifactVars, queueVars, faults>>
  /\ WorkerFrame

(* Download, validation and tiling.  They succeed, fail, or find the job    *)
(* canceled at one of the checks between and during them.                   *)
Work(w) ==
  /\ wPc[w] = "work"
  /\ \/ Continuing(wJob[w]) /\ Progress(wJob[w]) /\ Goto(w, "upload")
     \/ ~Continuing(wJob[w]) /\ UNCHANGED jobVars /\ Goto(w, "setCanceled")
     \/ UNCHANGED jobVars /\ Goto(w, "setError")
  /\ UNCHANGED <<outboxVars, tilesetVars, artifactVars, queueVars, faults>>
  /\ WorkerFrame

(* storeProcessedArtifact: the key and the ledger row are the job's own, so *)
(* every run of the job writes the same ones.                               *)
UploadBytes(w) ==
  /\ wPc[w] = "upload"
  /\ bytes' = [bytes EXCEPT ![wJob[w]] = TRUE]
  /\ Goto(w, "ledger")
  /\ UNCHANGED <<outboxVars, jobVars, tilesetVars, object, queueVars, faults>>
  /\ WorkerFrame

RecordArtifact(w) ==
  /\ wPc[w] = "ledger"
  /\ object' = [object EXCEPT ![wJob[w]] = "live"]
  /\ Goto(w, "checkStored")
  /\ UNCHANGED <<outboxVars, jobVars, tilesetVars, bytes, queueVars, faults>>
  /\ WorkerFrame

(* Its transaction fails, or commits and its answer is lost: the upload is   *)
(* deleted again, if storage answers.                                       *)
RecordFails(w) ==
  /\ wPc[w] = "ledger"
  /\ Fault
  /\ object' \in {object, [object EXCEPT ![wJob[w]] = "live"]}
  /\ \E kept \in BOOLEAN : bytes' = [bytes EXCEPT ![wJob[w]] = kept /\ @]
  /\ Goto(w, "setError")
  /\ UNCHANGED <<outboxVars, jobVars, tilesetVars, queueVars>>
  /\ WorkerFrame

CheckStored(w) ==
  /\ wPc[w] = "checkStored"
  /\ Progress(wJob[w])
  /\ Goto(w, IF Continuing(wJob[w]) THEN "finalize" ELSE "setCanceled")
  /\ UNCHANGED <<outboxVars, tilesetVars, artifactVars, queueVars, faults>>
  /\ WorkerFrame

(* finalizeProcessedArtifact: one transaction under the tileset's lock.     *)
MayFinalize(j) == Continuing(j) /\ ~tsDeleted[Target[j]] /\ OwnsTileset(j)

(* Mutant: the tileset keeps naming the build. *)
CommitVersion_KeepsJob(j) ==
  /\ versions' = [versions EXCEPT ![Target[j]] = Append(@, j)]
  /\ SetTileset(Target[j], "READY", j)
  /\ SetJob(j, "SUCCEEDED")
  /\ UNCHANGED <<tsDeleted, currentVersion>>

CommitVersion(j) ==
  /\ versions' = [versions EXCEPT ![Target[j]] = Append(@, j)]
  /\ SetTileset(Target[j], "READY", NoJob)
  /\ SetJob(j, "SUCCEEDED")
  /\ UNCHANGED <<tsDeleted, currentVersion>>

Finalize(w) ==
  /\ wPc[w] = "finalize"
  /\ MayFinalize(wJob[w])
  /\ object[wJob[w]] = "live"
  /\ CommitVersion(wJob[w])
  /\ Goto(w, "ackDone")
  /\ UNCHANGED <<outboxVars, artifactVars, queueVars, faults>>
  /\ WorkerFrame

FinalizeRefused(w) ==
  /\ wPc[w] = "finalize"
  /\ \/ ~MayFinalize(wJob[w]) /\ Goto(w, "cleanupCanceled")
     \/ MayFinalize(wJob[w]) /\ object[wJob[w]] # "live" /\ Goto(w, "cleanupError")
  /\ UNCHANGED <<outboxVars, jobVars, tilesetVars, artifactVars, queueVars, faults>>
  /\ WorkerFrame

(* The transaction fails, or it commits and its answer is lost: the worker  *)
(* cannot tell the two apart.                                               *)
FinalizeFails(w) ==
  /\ wPc[w] = "finalize"
  /\ Fault
  /\ \/ UNCHANGED <<jobVars, tilesetVars>>
     \/ /\ MayFinalize(wJob[w])
        /\ object[wJob[w]] = "live"
        /\ CommitVersion(wJob[w])
  /\ Goto(w, "cleanupError")
  /\ UNCHANGED <<outboxVars, artifactVars, queueVars>>
  /\ WorkerFrame

CleanupRequests(j) ==
  {n \in 1..MaxCleanups : evStatus[CleanupEvent(j, n)] # "NONE"}

(* requestArtifactCleanup *)
MarkForCleanup(j) ==
  /\ object' = [object EXCEPT ![j] = "deleted"]
  /\ LET n == Cardinality(CleanupRequests(j)) + 1 IN
       n <= MaxCleanups /\ Outbox!Enqueue(CleanupEvent(j, n))

RequestCleanup(w) ==
  /\ wPc[w] \in {"cleanupCanceled", "cleanupError"}
  /\ MarkForCleanup(wJob[w])
  /\ Goto(w, IF wPc[w] = "cleanupCanceled" THEN "setCanceled" ELSE "setError")
  /\ UNCHANGED <<jobVars, tilesetVars, bytes, queueVars, faults>>
  /\ WorkerFrame

(* It commits and its answer is lost: the error replaces the cancellation   *)
(* that finalizeProcessedArtifact was about to throw.                       *)
CleanupAnswerLost(w) ==
  /\ wPc[w] = "cleanupCanceled"
  /\ Fault
  /\ MarkForCleanup(wJob[w])
  /\ Goto(w, "setError")
  /\ UNCHANGED <<jobVars, tilesetVars, bytes, queueVars>>
  /\ WorkerFrame

(* Mutant: the tileset is released but not restored. *)
SetCanceled_Unrestored(w) ==
  /\ wPc[w] = "setCanceled"
  /\ IF OwnsTileset(wJob[w])
     THEN SetTileset(Target[wJob[w]], tsStatus[Target[wJob[w]]], NoJob)
     ELSE UNCHANGED <<tsStatus, buildJobId>>
  /\ Goto(w, "markCanceled")
  /\ UNCHANGED <<outboxVars, jobVars, tsDeleted, currentVersion, versions,
                 artifactVars, queueVars, faults>>
  /\ WorkerFrame

SetCanceled(w) ==
  /\ wPc[w] = "setCanceled"
  /\ LET t == Target[wJob[w]] IN
       IF OwnsTileset(wJob[w])
       THEN SetTileset(t, RestoredStatus(t), NoJob)
       ELSE UNCHANGED <<tsStatus, buildJobId>>
  /\ Goto(w, "markCanceled")
  /\ UNCHANGED <<outboxVars, jobVars, tsDeleted, currentVersion, versions,
                 artifactVars, queueVars, faults>>
  /\ WorkerFrame

(* Mutant: the UPDATE goes by the job's id only. *)
MarkCanceled_Blind(w) ==
  /\ wPc[w] = "markCanceled"
  /\ SetJob(wJob[w], "CANCELED")
  /\ Goto(w, "ackDone")
  /\ UNCHANGED <<outboxVars, tilesetVars, artifactVars, queueVars, faults>>
  /\ WorkerFrame

(* markProcessingJobCanceled does not ask whether cancellation is requested. *)
MarkCanceled(w) ==
  /\ wPc[w] = "markCanceled"
  /\ IF jobStatus[wJob[w]] \in {"PENDING", "PROCESSING", "CANCELED"}
     THEN SetJob(wJob[w], "CANCELED") ELSE UNCHANGED jobVars
  /\ Goto(w, "ackDone")
  /\ UNCHANGED <<outboxVars, tilesetVars, artifactVars, queueVars, faults>>
  /\ WorkerFrame

SetError(w) ==
  /\ wPc[w] = "setError"
  /\ IF OwnsTileset(wJob[w])
     THEN SetTileset(Target[wJob[w]], "ERROR", NoJob)
     ELSE UNCHANGED <<tsStatus, buildJobId>>
  /\ Goto(w, "markFailed")
  /\ UNCHANGED <<outboxVars, jobVars, tsDeleted, currentVersion, versions,
                 artifactVars, queueVars, faults>>
  /\ WorkerFrame

(* Mutant: the UPDATE goes by the job's id only. *)
MarkFailed_Blind(w) ==
  /\ wPc[w] = "markFailed"
  /\ SetJob(wJob[w], "FAILED")
  /\ Goto(w, "ackFailed")
  /\ UNCHANGED <<outboxVars, tilesetVars, artifactVars, queueVars, faults>>
  /\ WorkerFrame

MarkFailed(w) ==
  /\ wPc[w] = "markFailed"
  /\ IF Continuing(wJob[w]) THEN SetJob(wJob[w], "FAILED") ELSE UNCHANGED jobVars
  /\ Goto(w, "ackFailed")
  /\ UNCHANGED <<outboxVars, tilesetVars, artifactVars, queueVars, faults>>
  /\ WorkerFrame

(* The run ends and BullMQ settles the entry, if the slot still holds its   *)
(* lock; a run that lost the lock settles nothing.  The counters of a done  *)
(* entry are never read again.                                              *)
Acknowledge(w, state, tries) ==
  /\ IF wLock[w]
     THEN /\ qState' = [qState EXCEPT ![wJob[w]] = state]
          /\ qTries' = [qTries EXCEPT ![wJob[w]] = IF state = "done" THEN 0 ELSE tries]
          /\ qStalls' = [qStalls EXCEPT ![wJob[w]] = IF state = "done" THEN 0 ELSE @]
     ELSE UNCHANGED queueVars
  /\ wPc' = [wPc EXCEPT ![w] = "idle"]
  /\ wJob' = [wJob EXCEPT ![w] = NoJob]
  /\ wLock' = [wLock EXCEPT ![w] = FALSE]
  /\ UNCHANGED <<outboxVars, jobVars, tilesetVars, artifactVars, faults>>
  /\ WorkerFrame

AckDone(w) ==
  /\ wPc[w] = "ackDone"
  /\ Acknowledge(w, "done", 0)

AckFailed(w) ==
  /\ wPc[w] = "ackFailed"
  /\ LET tries == qTries[wJob[w]] + 1 IN
       Acknowledge(w, IF tries < QueueAttempts THEN "waiting" ELSE "done", tries)

(* An awaited call throws: in the body of processSourceJob, in              *)
(* requestArtifactCleanup, in the catch block itself (at "ackDone" its last *)
(* log insert), or in BullMQ's acknowledgement.                             *)
BodyPc == {"check", "start", "setBuilding", "upload", "checkStored",
           "cleanupCanceled", "cleanupError"}
CatchPc == {"setCanceled", "markCanceled", "setError", "markFailed", "ackDone"}

WorkerThrows(w) ==
  /\ wPc[w] \in BodyPc \cup CatchPc
  /\ Fault
  /\ Goto(w, IF wPc[w] \in BodyPc THEN "setError" ELSE "ackFailed")
  /\ UNCHANGED <<outboxVars, jobVars, tilesetVars, artifactVars, queueVars>>
  /\ WorkerFrame

WorkerCrash(w) ==
  /\ wPc[w] # "idle"
  /\ Fault
  /\ wPc' = [wPc EXCEPT ![w] = "idle"]
  /\ wJob' = [wJob EXCEPT ![w] = NoJob]
  /\ wLock' = [wLock EXCEPT ![w] = FALSE]
  /\ UNCHANGED <<outboxVars, jobVars, tilesetVars, artifactVars, queueVars>>
  /\ WorkerFrame

(* The event loop or Redis stalls past lockDuration: the run goes on while  *)
(* BullMQ may hand its entry to another slot.                               *)
LoseLock(w) ==
  /\ wLock[w]
  /\ Fault
  /\ wLock' = [wLock EXCEPT ![w] = FALSE]
  /\ UNCHANGED <<outboxVars, jobVars, tilesetVars, artifactVars, queueVars, wPc, wJob>>
  /\ WorkerFrame

(* BullMQ's stalled check: an active entry nobody holds the lock of.        *)
StallCheck(j) ==
  /\ qState[j] = "active"
  /\ \A w \in Workers : ~(wJob[w] = j /\ wLock[w])
  /\ IF qStalls[j] < MaxStalledCount
     THEN /\ qState' = [qState EXCEPT ![j] = "waiting"]
          /\ qStalls' = [qStalls EXCEPT ![j] = @ + 1]
          /\ UNCHANGED qTries
     ELSE /\ qState' = [qState EXCEPT ![j] = "done"]
          /\ qStalls' = [qStalls EXCEPT ![j] = 0]
          /\ qTries' = [qTries EXCEPT ![j] = 0]
  /\ UNCHANGED <<outboxVars, jobVars, tilesetVars, artifactVars, workerVars, faults>>
  /\ WorkerFrame

-----------------------------------------------------------------------------
(* reconcileStaleProcessingJobs, one candidate at a time.                   *)

ReconcilerFrame == UNCHANGED <<outboxVars, artifactVars, queueVars, dPc, workerVars>>

(* Time passes.  The cutoff is fixed when the scan starts, so the candidate *)
(* in hand does not become stale again.                                     *)
Age(j) ==
  /\ ActiveJob(j) /\ ~stale[j] /\ rJob # j
  /\ stale' = [stale EXCEPT ![j] = TRUE]
  /\ UNCHANGED <<jobStatus, cancelRequested, retryCount, tilesetVars,
                 reconcilerVars, faults>>
  /\ ReconcilerFrame

Scan(j) ==
  /\ rPc = "idle"
  /\ ActiveJob(j) /\ stale[j]
  /\ rPc' = "liveness" /\ rJob' = j
  /\ UNCHANGED <<jobVars, tilesetVars, faults>>
  /\ ReconcilerFrame

(* Mutants: an entry that is done, or no entry at all, counts as live. *)
CheckLiveness_DoneIsLive ==
  /\ rPc = "liveness"
  /\ IF qState[rJob] \in {"waiting", "active", "done"}
     THEN rPc' = "idle" /\ rJob' = NoJob
     ELSE rPc' = "fail" /\ UNCHANGED rJob
  /\ UNCHANGED <<jobVars, tilesetVars, faults>>
  /\ ReconcilerFrame

CheckLiveness_MissingIsLive ==
  /\ rPc = "liveness"
  /\ IF qState[rJob] \in {"none", "waiting", "active"}
     THEN rPc' = "idle" /\ rJob' = NoJob
     ELSE rPc' = "fail" /\ UNCHANGED rJob
  /\ UNCHANGED <<jobVars, tilesetVars, faults>>
  /\ ReconcilerFrame

(* queueLiveness: isQueueStateActive holds of a waiting or active entry.    *)
CheckLiveness ==
  /\ rPc = "liveness"
  /\ IF qState[rJob] \in {"waiting", "active"}
     THEN rPc' = "idle" /\ rJob' = NoJob
     ELSE rPc' = "fail" /\ UNCHANGED rJob
  /\ UNCHANGED <<jobVars, tilesetVars, faults>>
  /\ ReconcilerFrame

(* Redis does not answer, or no worker heartbeat is fresh.                  *)
LivenessUnknown ==
  /\ rPc = "liveness"
  /\ Fault
  /\ rPc' = "fail"
  /\ UNCHANGED <<rJob, jobVars, tilesetVars>>
  /\ ReconcilerFrame

(* The transaction repeats both conditions on the job, and then marks the   *)
(* tileset of its input, whichever build that tileset waits for.            *)
ReconcileFail ==
  /\ rPc = "fail"
  /\ IF ActiveJob(rJob) /\ stale[rJob]
     THEN /\ SetJob(rJob, "FAILED")
          /\ tsStatus' = [tsStatus EXCEPT ![Target[rJob]] = "ERROR"]
     ELSE UNCHANGED <<jobVars, tsStatus>>
  /\ rPc' = "idle" /\ rJob' = NoJob
  /\ UNCHANGED <<tsDeleted, buildJobId, currentVersion, versions, faults>>
  /\ ReconcilerFrame

-----------------------------------------------------------------------------
(* The admin app.                                                           *)

(* retryProcessingJobAction: no admission.                                  *)
AdminRetry(j) ==
  /\ Retryable(j)
  /\ RequestBuild(j, retryCount[j] + 1)

(* cancelProcessingJobAction on a PENDING job: the tileset is left alone.   *)
(* On a PROCESSING one it does what CancelRunning does.                     *)
AdminCancelPending(j) ==
  /\ jobStatus[j] = "PENDING"
  /\ jobStatus' = [jobStatus EXCEPT ![j] = "CANCELED"]
  /\ cancelRequested' = [cancelRequested EXCEPT ![j] = TRUE]
  /\ Touch(j)
  /\ UNCHANGED <<outboxVars, retryCount, tilesetVars, artifactVars, queueVars,
                 dPc, workerVars, reconcilerVars, faults>>

RedriveEvent(e) ==
  /\ Outbox!Redrive(e)
  /\ UNCHANGED <<artifactVars, queueVars, dPc, faults>> /\ DispatchFrame

ArchiveEvent(e) ==
  /\ Outbox!Archive(e)
  /\ UNCHANGED <<artifactVars, queueVars, dPc, faults>> /\ DispatchFrame

-----------------------------------------------------------------------------
Console(j) ==
  \/ Upload(j) \/ Rebuild(j) \/ Retry(j) \/ CancelPending(j) \/ CancelRunning(j)

DispatcherStep(d) ==
  \/ \E e \in Events : BeginDispatch(d, e)
  \/ ReadJob(d) \/ InspectQueue(d) \/ AddToQueue(d) \/ ReplaceInQueue(d)
  \/ DeleteBytes(d) \/ MarkDeleted(d) \/ CompleteEvent(d)
  \/ dPc[d] = "throw" /\ DispatchThrows(d)

WorkerStep(w) ==
  \/ CheckStart(w) \/ MarkStarted(w) \/ SetProcessing(w) \/ Work(w)
  \/ UploadBytes(w) \/ RecordArtifact(w) \/ CheckStored(w) \/ Finalize(w)
  \/ FinalizeRefused(w) \/ RequestCleanup(w) \/ SetCanceled(w)
  \/ MarkCanceled(w) \/ SetError(w) \/ MarkFailed(w) \/ AckDone(w) \/ AckFailed(w)

ReconcilerStep == (\E j \in Jobs : Scan(j)) \/ CheckLiveness \/ ReconcileFail

Failure ==
  \/ \E d \in Dispatchers :
       DispatchThrows(d) \/ CompletionAnswerLost(d) \/ DispatcherCrash(d)
  \/ \E w \in Workers :
       \/ RecordFails(w) \/ FinalizeFails(w) \/ CleanupAnswerLost(w)
       \/ WorkerThrows(w) \/ WorkerCrash(w)
  \/ LivenessUnknown

ConsoleNext ==
  \/ \E j \in Jobs : Console(j) \/ StallCheck(j) \/ Age(j)
  \/ \E t \in Tilesets : DeleteTileset(t)
  \/ \E t \in Tilesets : \E v \in 1..Len(versions[t]) : Publish(t, v)
  \/ \E d \in Dispatchers, S \in SUBSET Outbox!Due : ClaimEvents(d, S)
  \/ \E d \in Dispatchers : DispatcherStep(d)
  \/ \E w \in Workers, j \in Jobs : Pick(w, j)
  \/ \E w \in Workers : WorkerStep(w)
  \/ ReconcilerStep
  \/ Failure

Next ==
  \/ ConsoleNext
  \/ \E w \in Workers : LoseLock(w)
  \/ \E j \in Jobs : AdminRetry(j) \/ AdminCancelPending(j)
  \/ \E e \in Events : RedriveEvent(e) \/ ArchiveEvent(e)

Spec == Init /\ [][Next]_vars

(* No operator acts, and a run never outlives its BullMQ lock.              *)
ConsoleSpec == Init /\ [][ConsoleNext]_vars

(* Timers keep firing, processes restart, awaited calls return or throw.    *)
(* A pass of the reconciler takes every stale job, hence the strong         *)
(* fairness of Scan(j).  Users, operators and failures owe nothing.         *)
Fairness ==
  /\ \A d \in Dispatchers :
       /\ WF_vars(\E S \in SUBSET Outbox!Due : ClaimEvents(d, S))
       /\ WF_vars(DispatcherStep(d))
  /\ \A w \in Workers :
       /\ WF_vars(\E j \in Jobs : Pick(w, j))
       /\ WF_vars(WorkerStep(w))
  /\ \A j \in Jobs :
       WF_vars(StallCheck(j)) /\ WF_vars(Age(j)) /\ SF_vars(Scan(j))
  /\ WF_vars(CheckLiveness) /\ WF_vars(ReconcileFail)

FairSpec == ConsoleSpec /\ Fairness

OperatedFairSpec == Spec /\ Fairness

(* No operator acts, but a run may outlive its lock and meet the next one.  *)
OverlappingFairSpec ==
  /\ Init /\ [][ConsoleNext \/ \E w \in Workers : LoseLock(w)]_vars
  /\ Fairness

-----------------------------------------------------------------------------
(* Properties.                                                              *)

(* A build leaves exactly one version when it succeeds and none otherwise,  *)
(* and on its own tileset: finalizeProcessedArtifact runs again after a     *)
(* crash, a stall, a queue retry or a user's retry, and concurrently when a *)
(* run outlives its lock.                                                   *)
OneVersionPerBuild ==
  /\ \A t \in Tilesets : \A m, n \in DOMAIN versions[t] :
       versions[t][m] = versions[t][n] => m = n
  /\ \A t \in Tilesets : \A n \in DOMAIN versions[t] :
       /\ Target[versions[t][n]] = t
       /\ jobStatus[versions[t][n]] = "SUCCEEDED"
  /\ \A j \in Jobs : jobStatus[j] = "SUCCEEDED" =>
       \E n \in DOMAIN versions[Target[j]] : versions[Target[j]][n] = j

(* tilesets.build_job_id is cleared by the transaction that ends the build: *)
(* a late run, cancellation or reconciliation never leaves it on a build    *)
(* that has succeeded, nor on a build of another tileset.                   *)
NoBuildJobLeftBehind ==
  \A t \in Tilesets : buildJobId[t] # NoJob =>
    Target[buildJobId[t]] = t /\ jobStatus[buildJobId[t]] # "SUCCEEDED"

(* A cancellation the user was told of is never overtaken by the build it   *)
(* cancels: from the request on the build makes no version, unless it is    *)
(* retried first.                                                           *)
CancellationIsFinal ==
  [][\A j \in Jobs : cancelRequested[j] =>
       jobStatus'[j] # "SUCCEEDED"
         /\ (ActiveJob(j)' => cancelRequested'[j] \/ retryCount'[j] > retryCount[j])]_vars

(* Admission: with no operator acting, one tileset has one build in         *)
(* progress and the account stays within its limit, although a build is     *)
(* revived by Retry while runs of it and of other builds still wind down.   *)
OneActiveBuild ==
  \A j, k \in Jobs : ActiveJob(j) /\ ActiveJob(k) /\ Target[j] = Target[k] => j = k

WithinActiveLimit == Cardinality({j \in Jobs : ActiveJob(j)}) <= ActiveJobLimit

(* The artifact of a version is there to serve: the ledger row is live and  *)
(* storage holds the key, unless some run of the build had its finalization *)
(* refused or fail and asked for the artifact's cleanup.  A run that merely *)
(* crashed, stalled or was retried never takes the artifact away.           *)
VersionArtifactServed ==
  \A j \in Jobs : jobStatus[j] = "SUCCEEDED" /\ CleanupRequests(j) = {} =>
    object[j] = "live" /\ bytes[j]

(* "When the previous version remains immutable and available": every       *)
(* version a build has made can still be served (the code breaks this: a    *)
(* retry writes the same key and ledger row that a cleanup requested by the *)
(* canceled run is about to delete).                                        *)
VersionsStayAvailable ==
  \A j \in Jobs : jobStatus[j] = "SUCCEEDED" => object[j] = "live" /\ bytes[j]

(* Every build a user asked for comes to an end, whatever the failures: by  *)
(* its worker, or by the reconciler when the request, the entry or the      *)
(* worker was lost.                                                         *)
BuildsSettle == \A j \in Jobs : ActiveJob(j) ~> ~ActiveJob(j)

(* A tileset does not show BUILDING for ever: whichever of worker, queue    *)
(* retry and reconciler writes its status last, one of them leaves it DRAFT,*)
(* READY or ERROR (the code breaks this: a run that winds down after its    *)
(* build was retried cancels the retry and leaves its tileset).             *)
TilesetSettles ==
  \A t \in Tilesets :
    tsStatus[t] = "BUILDING" ~> tsStatus[t] # "BUILDING" \/ tsDeleted[t]

(* So it is as long as no build of the tileset was retried, and with one    *)
(* failure at most.                                                         *)
UnretriedTilesetSettles ==
  \A t \in Tilesets :
    tsStatus[t] = "BUILDING" ~>
      \/ tsStatus[t] # "BUILDING" \/ tsDeleted[t]
      \/ \E j \in Jobs : Target[j] = t /\ retryCount[j] > 0

(* What BuildPipeline promises at the level of TilesetBuilds.               *)
PhaseOf(status) ==
  CASE status = "NONE" -> "none"
    [] status = "FAILED" -> "failed"
    [] status = "CANCELED" -> "canceled"
    [] status = "SUCCEEDED" -> "succeeded"
    [] OTHER -> "active"

Builds == INSTANCE TilesetBuilds WITH phase <- [j \in Jobs |-> PhaseOf(jobStatus[j])]

(* With no operator acting, every step of the pipeline starts, ends or      *)
(* publishes a build as TilesetBuilds allows, or is invisible there.        *)
ImplementsTilesetBuilds == Builds!Spec

(* The pipeline touches the outbox only through the actions of EventOutbox, *)
(* so what is true of every EventOutbox is true here.                       *)
UsesEventOutbox == Outbox!OutboxSpec
=============================================================================
