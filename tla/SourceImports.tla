---------------------------- MODULE SourceImports ----------------------------
(***************************************************************************)
(* Imports of one dataset from an outside source, Overture: the request    *)
(* (apps/api/src/domains/imports/route.ts) or a schedule's refresh of the  *)
(* dataset (apps/api/src/domains/operations/route.ts), and the run, which  *)
(* the outbox dispatcher makes itself                                      *)
(* (apps/worker-geodata/src/domains/outbox/outbox-dispatcher.ts).          *)
(*                                                                         *)
(* A run extracts the data, reads the number of the next version, uploads  *)
(* under a key made of that number, records the version, and publishes it. *)
(* It may be canceled, fail, crash or lose an answer anywhere; an event    *)
(* that is tried again or re-driven is a second run of the same import,    *)
(* and the stale-job reconciler ends a job whose run goes on.              *)
(***************************************************************************)
EXTENDS Naturals, FiniteSets

CONSTANTS
  Imports,       \* rows of source_imports, each with its processing job
  Dispatchers,
  NoEvent,
  MAX_ATTEMPTS,  \* of an outbox event
  BatchSize,
  AttemptCap,    \* bound of the model: claims of one event
  MaxVersions,   \* bound of the model: dataset versions recorded
  MaxUpsets      \* bound of the model: crashes, errors, lost answers and acts
                 \* of an operator on an event, together

(* The owner of a version that was never made, the data of an empty key.    *)
NoImport == "none"

ASSUME ImportAssumption ==
  MaxVersions \in Nat /\ MaxUpsets \in Nat /\ NoImport \notin Imports

(* Ids of the versions, and of the storage_objects rows made with them.     *)
Versions == 1..MaxVersions
NoVersion == 0

(* Version numbers; the storage key is made of the number.                  *)
Numbers == 1..MaxVersions + 1

ImportEvent(i) == [kind |-> "import", import |-> i]
CleanupEvent(v) == [kind |-> "cleanup", version |-> v]
Events == [kind : {"import"}, import : Imports] \cup [kind : {"cleanup"}, version : Versions]

VARIABLES
  evStatus, evAttempts, claim, current, unanswered,  \* see EventOutbox
  jobStatus, cancelRequested,  \* processing_jobs
  importStatus,    \* source_imports.status
  datasetStatus, currentVersion,  \* datasets
  versions,        \* the rows of dataset_versions that exist, by id
  owner, number,   \* of a version: the import that made it, its number
  live,            \* the storage_objects rows that are not deleted
  object,          \* object[n]: the import whose data the key of number n holds
  uploads,         \* uploads[n]: uploads under that key so far
  run,             \* run[d]: where dispatchEvent is, and its local variables
  faults,          \* crashes, errors and lost answers so far
  acts             \* acts of an operator on an event so far

outboxVars == <<evStatus, evAttempts, claim, current, unanswered>>
jobVars == <<jobStatus, cancelRequested>>
datasetVars == <<datasetStatus, currentVersion>>
versionVars == <<versions, owner, number, live>>
storageVars == <<object, uploads>>
vars == <<outboxVars, jobVars, importStatus, datasetVars, versionVars, storageVars, run, faults,
          acts>>

Outbox == INSTANCE EventOutbox

ASSUME ImportEventsAssumption == Outbox!OutboxAssumption

JobStatus == {"NONE", "PENDING", "PROCESSING", "SUCCEEDED", "FAILED", "CANCELED"}
RunPc == {"none", "check", "start", "extract", "number", "upload", "record", "undo",
          "confirm", "succeed", "target", "disown", "settle", "delete", "done"}

(* number: the version it is to make; stored: the version it has recorded;  *)
(* error: what the catch block was entered with.                            *)
AtRest == [pc |-> "none", number |-> 0, stored |-> NoVersion, error |-> "none"]

Init ==
  /\ Outbox!OutboxInit
  /\ jobStatus = [i \in Imports |-> "NONE"]
  /\ cancelRequested = [i \in Imports |-> FALSE]
  /\ importStatus = [i \in Imports |-> "NONE"]
  /\ datasetStatus = "NONE" /\ currentVersion = NoVersion
  /\ versions = {} /\ live = {}
  /\ owner = [v \in Versions |-> NoImport]
  /\ number = [v \in Versions |-> 0]
  /\ object = [n \in Numbers |-> NoImport]
  /\ uploads = [n \in Numbers |-> 0]
  /\ run = [d \in Dispatchers |-> AtRest]
  /\ faults = 0 /\ acts = 0

ActiveJob(i) == jobStatus[i] \in {"PENDING", "PROCESSING"}

(* throwIfSourceImportCanceled passes; also the WHERE of activeProcessingJob *)
Continuing(i) == ActiveJob(i) /\ ~cancelRequested[i]

Fault == faults + acts < MaxUpsets /\ faults' = faults + 1 /\ UNCHANGED acts

SetJob(i, status) == jobStatus' = [jobStatus EXCEPT ![i] = status]
SetImport(i, status) == importStatus' = [importStatus EXCEPT ![i] = status]

-----------------------------------------------------------------------------
(* The console, the schedules and the reconciler.                           *)

RequestImport(i) ==
  /\ jobStatus[i] = "NONE"
  /\ SetJob(i, "PENDING") /\ SetImport(i, "PENDING")
  /\ Outbox!Enqueue(ImportEvent(i))
  /\ UNCHANGED <<cancelRequested, currentVersion, versionVars, storageVars, run, faults, acts>>

(* POST /source-imports/overture makes the dataset.                         *)
Create(i) ==
  /\ datasetStatus = "NONE" /\ datasetStatus' = "DRAFT"
  /\ RequestImport(i)

(* queueScheduledSourceImport, under the dataset's advisory lock.           *)
Refresh(i) ==
  /\ datasetStatus # "NONE" /\ \A k \in Imports : ~ActiveJob(k)
  /\ UNCHANGED datasetStatus
  /\ RequestImport(i)

(* By the user or an operator.  The import's own row is left to its run.    *)
Cancel(i) ==
  /\ ActiveJob(i) /\ ~cancelRequested[i]
  /\ SetJob(i, IF jobStatus[i] = "PENDING" THEN "CANCELED" ELSE jobStatus[i])
  /\ cancelRequested' = [cancelRequested EXCEPT ![i] = TRUE]
  /\ UNCHANGED <<outboxVars, importStatus, datasetVars, versionVars, storageVars, run, faults, acts>>

(* Mutant: the reconciler passes over an import. *)
Reconcile_Canceled(i) ==
  /\ Continuing(i)
  /\ SetJob(i, "FAILED") /\ SetImport(i, "FAILED")
  /\ UNCHANGED <<outboxVars, cancelRequested, datasetVars, versionVars, storageVars, run, faults, acts>>

(* reconcileStaleProcessingJobs: an import has no queue entry and so is     *)
(* never live; its job may look stale at any moment, its run going on.      *)
Reconcile(i) ==
  /\ ActiveJob(i)
  /\ SetJob(i, "FAILED") /\ SetImport(i, "FAILED")
  /\ UNCHANGED <<outboxVars, cancelRequested, datasetVars, versionVars, storageVars, run, faults, acts>>

-----------------------------------------------------------------------------
(* The dispatcher: dispatchSourceImportRequested, one step per statement,   *)
(* transaction or storage call.                                             *)

Import(d) == current[d].import
At(d, pc) == run[d].pc = pc

Goto(d, pc) == run' = [run EXCEPT ![d].pc = pc]

(* The catch block of the run, which first disowns what it has stored.      *)
Catch(d, error) ==
  run' = [run EXCEPT ![d].error = error,
                     ![d].pc = IF run[d].stored # NoVersion
                               THEN "disown" ELSE "settle"]

runOnly == <<outboxVars, jobVars, importStatus, datasetVars, versionVars, storageVars, faults, acts>>

ClaimEvents(d, S) ==
  /\ Outbox!ClaimDue(d, S)
  /\ UNCHANGED <<jobVars, importStatus, datasetVars, versionVars, storageVars, run, faults, acts>>

BeginDispatch(d, e) ==
  /\ Outbox!Begin(d, e)
  /\ Goto(d, IF e.kind = "import" THEN "check" ELSE "delete")
  /\ UNCHANGED <<jobVars, importStatus, datasetVars, versionVars, storageVars, faults, acts>>

CheckStart(d) ==
  /\ At(d, "check")
  /\ IF Continuing(Import(d)) THEN Goto(d, "start") ELSE Catch(d, "canceled")
  /\ UNCHANGED runOnly

(* markSourceImportProcessing                                               *)
MarkProcessing(d) ==
  /\ At(d, "start")
  /\ IF Continuing(Import(d))
     THEN /\ SetJob(Import(d), "PROCESSING") /\ SetImport(Import(d), "PROCESSING")
          /\ Goto(d, "extract")
     ELSE UNCHANGED <<jobStatus, importStatus>> /\ Catch(d, "canceled")
  /\ UNCHANGED <<outboxVars, cancelRequested, datasetVars, versionVars, storageVars, faults, acts>>

(* runOvertureImport.  The command ends, fails, or is killed: by its        *)
(* timeout or by a poll that finds the job canceled, whichever is first.    *)
Extract(d) ==
  /\ At(d, "extract")
  /\ \/ Continuing(Import(d)) /\ Goto(d, "number")
     \/ ~Continuing(Import(d)) /\ Catch(d, "canceled")
     \/ Catch(d, "failed")
  /\ UNCHANGED runOnly

(* nextDatasetVersion, outside the transaction that uses it.                *)
ReadNumber(d) ==
  /\ At(d, "number")
  /\ \E n \in Numbers :
       /\ \A v \in versions : number[v] < n
       /\ n = 1 \/ \E v \in versions : number[v] = n - 1
       /\ run' = [run EXCEPT ![d].pc = "upload", ![d].number = n]
  /\ UNCHANGED runOnly

(* Mutant: nobody waits for the storage. *)
Upload_Unawaited(d) == At(d, "upload") /\ Goto(d, "record") /\ UNCHANGED runOnly

Upload(d) ==
  /\ At(d, "upload")
  /\ object' = [object EXCEPT ![run[d].number] = Import(d)]
  /\ uploads' = [uploads EXCEPT ![run[d].number] = @ + 1]
  /\ Goto(d, "record")
  /\ UNCHANGED <<outboxVars, jobVars, importStatus, datasetVars, versionVars, faults, acts>>

(* storage_objects_processing_job_unique, storage_objects_key_unique and    *)
(* dataset_versions_dataset_version_unique.                                 *)
Conflict(i, n) ==
  \/ \E v \in live : owner[v] = i \/ number[v] = n
  \/ \E v \in versions : number[v] = n

Used == {v \in Versions : owner[v] # NoImport}

CommitVersion(d, v) ==
  /\ v \notin Used /\ \A w \in 1..v - 1 : w \in Used
  /\ versions' = versions \cup {v} /\ live' = live \cup {v}
  /\ owner' = [owner EXCEPT ![v] = Import(d)]
  /\ number' = [number EXCEPT ![v] = run[d].number]

(* storeDatasetArtifact: the transaction.                                   *)
Record(d) ==
  /\ At(d, "record")
  /\ IF Conflict(Import(d), run[d].number)
     THEN UNCHANGED versionVars /\ Goto(d, "undo")
     ELSE \E v \in Versions :
            CommitVersion(d, v) /\ run' = [run EXCEPT ![d].pc = "confirm", ![d].stored = v]
  /\ UNCHANGED <<outboxVars, jobVars, importStatus, datasetVars, storageVars, faults, acts>>

(* It fails, or commits and its answer is lost.                             *)
RecordFails(d) ==
  /\ At(d, "record") /\ Fault
  /\ \/ UNCHANGED versionVars
     \/ /\ ~Conflict(Import(d), run[d].number)
        /\ \E v \in Versions : CommitVersion(d, v)
  /\ Goto(d, "undo")
  /\ UNCHANGED <<outboxVars, jobVars, importStatus, datasetVars, storageVars>>

DeleteObject(n) == object' = [object EXCEPT ![n] = NoImport]

(* The uploaded key is deleted again, whoever wrote it last; an error of    *)
(* the storage is ignored.                                                  *)
Undo(d) ==
  /\ At(d, "undo")
  /\ \/ DeleteObject(run[d].number) /\ UNCHANGED <<faults, acts>>
     \/ Fault /\ UNCHANGED object
  /\ Catch(d, "failed")
  /\ UNCHANGED <<outboxVars, jobVars, importStatus, datasetVars, versionVars, uploads>>

Confirm(d) ==
  /\ At(d, "confirm")
  /\ IF Continuing(Import(d)) THEN Goto(d, "succeed") ELSE Catch(d, "canceled")
  /\ UNCHANGED runOnly

Publish(d) ==
  /\ datasetStatus' = "READY" /\ currentVersion' = run[d].stored
  /\ SetJob(Import(d), "SUCCEEDED") /\ SetImport(Import(d), "SUCCEEDED")

(* Mutant: the job is not looked at again. *)
Succeed_Unchecked(d) ==
  /\ At(d, "succeed")
  /\ Publish(d) /\ Goto(d, "target")
  /\ UNCHANGED <<outboxVars, cancelRequested, versionVars, storageVars, faults, acts>>

(* markSourceImportSucceeded                                                *)
Succeed(d) ==
  /\ At(d, "succeed")
  /\ IF Continuing(Import(d))
     THEN Publish(d) /\ Goto(d, "target")
     ELSE UNCHANGED <<jobStatus, importStatus, datasetVars>> /\ Catch(d, "canceled")
  /\ UNCHANGED <<outboxVars, cancelRequested, versionVars, storageVars, faults, acts>>

SucceedFails(d) ==
  /\ At(d, "succeed") /\ Fault
  /\ \/ UNCHANGED <<jobStatus, importStatus, datasetVars>>
     \/ Continuing(Import(d)) /\ Publish(d)
  /\ Catch(d, "failed")
  /\ UNCHANGED <<outboxVars, cancelRequested, versionVars, storageVars>>

(* Mutant: a refusal is not caught. *)
QueueTarget_Thrown(d) ==
  /\ At(d, "target")
  /\ Goto(d, "done") \/ Catch(d, "failed")
  /\ UNCHANGED runOnly

(* queueTargetTilesetBuildFromImport: a build is queued, or refused by its  *)
(* admission and a line logged.  When the log fails too, the run takes the  *)
(* published import for a failed one.                                       *)
QueueTarget(d) ==
  /\ At(d, "target")
  /\ \/ Goto(d, "done") /\ UNCHANGED <<faults, acts>>
     \/ Fault /\ Catch(d, "failed")
  /\ UNCHANGED <<outboxVars, jobVars, importStatus, datasetVars, versionVars, storageVars>>

-----------------------------------------------------------------------------
(* The catch block, and a cleanup event.                                    *)

(* Mutant: the version's row is kept. *)
Disown_Kept(d) ==
  /\ At(d, "disown")
  /\ live' = live \ {run[d].stored}
  /\ Outbox!Enqueue(CleanupEvent(run[d].stored))
  /\ Goto(d, "settle")
  /\ UNCHANGED <<jobVars, importStatus, datasetVars, versions, owner, number, storageVars, faults, acts>>

(* Mutant: its storage row is kept. *)
Disown_Live(d) ==
  /\ At(d, "disown")
  /\ versions' = versions \ {run[d].stored}
  /\ Outbox!Enqueue(CleanupEvent(run[d].stored))
  /\ Goto(d, "settle")
  /\ UNCHANGED <<jobVars, importStatus, datasetVars, live, owner, number, storageVars, faults, acts>>

(* requestDatasetArtifactCleanup                                            *)
Disown(d) ==
  /\ At(d, "disown")
  /\ versions' = versions \ {run[d].stored} /\ live' = live \ {run[d].stored}
  /\ Outbox!Enqueue(CleanupEvent(run[d].stored))
  /\ Goto(d, "settle")
  /\ UNCHANGED <<jobVars, importStatus, datasetVars, owner, number, storageVars, faults, acts>>

(* markSourceImportCanceled: the import's row goes by its id only.          *)
SettleCanceled(d) ==
  LET i == Import(d) IN
  /\ At(d, "settle") /\ run[d].error = "canceled"
  /\ SetImport(i, "CANCELED")
  /\ SetJob(i, IF jobStatus[i] \in {"PENDING", "PROCESSING", "CANCELED"}
               THEN "CANCELED" ELSE jobStatus[i])
  /\ Goto(d, "done")
  /\ UNCHANGED <<outboxVars, cancelRequested, datasetVars, versionVars, storageVars, faults, acts>>

(* Mutant: the dataset is marked whatever it has. *)
SettleFailed_Any(d) ==
  LET i == Import(d) IN
  /\ At(d, "settle") /\ run[d].error = "failed"
  /\ datasetStatus' = "ERROR"
  /\ SetImport(i, "FAILED")
  /\ SetJob(i, IF Continuing(i) THEN "FAILED" ELSE jobStatus[i])
  /\ Goto(d, "done")
  /\ UNCHANGED <<outboxVars, cancelRequested, currentVersion, versionVars, storageVars, faults, acts>>

(* markSourceImportFailed: likewise; the dataset only if it has no version. *)
SettleFailed(d) ==
  LET i == Import(d) IN
  /\ At(d, "settle") /\ run[d].error = "failed"
  /\ datasetStatus' = IF currentVersion = NoVersion THEN "ERROR" ELSE datasetStatus
  /\ SetImport(i, "FAILED")
  /\ SetJob(i, IF Continuing(i) THEN "FAILED" ELSE jobStatus[i])
  /\ Goto(d, "done")
  /\ UNCHANGED <<outboxVars, cancelRequested, currentVersion, versionVars, storageVars, faults, acts>>

(* dispatchArtifactCleanupRequested: the key of the row, whose deletedAt is *)
(* set already.                                                             *)
DeleteBytes(d) ==
  /\ At(d, "delete")
  /\ DeleteObject(number[current[d].version])
  /\ Goto(d, "done")
  /\ UNCHANGED <<outboxVars, jobVars, importStatus, datasetVars, versionVars, uploads, faults, acts>>

Leave(d) == run' = [run EXCEPT ![d] = AtRest]

CompleteEvent(d) ==
  /\ At(d, "done") /\ Outbox!Complete(d) /\ Leave(d)
  /\ UNCHANGED <<jobVars, importStatus, datasetVars, versionVars, storageVars, faults, acts>>

(* completeOutboxEvent commits and its answer is lost: the catch block is   *)
(* next, where the event fails.                                             *)
CompletionAnswerLost(d) ==
  /\ At(d, "done") /\ Fault /\ Outbox!CompleteUnanswered(d)
  /\ UNCHANGED <<jobVars, importStatus, datasetVars, versionVars, storageVars, run>>

(* Any awaited call throws: in the body of the run, or before it, in its    *)
(* catch block, in a cleanup or in completeOutboxEvent: the event fails.    *)
RunThrows(d) ==
  /\ run[d].pc \in {"check", "start", "number", "upload", "confirm"} /\ Fault
  /\ Catch(d, "failed")
  /\ UNCHANGED <<outboxVars, jobVars, importStatus, datasetVars, versionVars, storageVars>>

EventThrows(d) ==
  /\ run[d].pc \in {"check", "disown", "settle", "delete", "done"}
  /\ IF d \in unanswered THEN UNCHANGED <<faults, acts>> ELSE Fault
  /\ Outbox!Fail(d) /\ Leave(d)
  /\ UNCHANGED <<jobVars, importStatus, datasetVars, versionVars, storageVars>>

DispatcherCrash(d) ==
  /\ Fault /\ Outbox!Abandon(d) /\ Leave(d)
  /\ UNCHANGED <<jobVars, importStatus, datasetVars, versionVars, storageVars>>

(* The admin app on one event.                                              *)
Operate(e) ==
  /\ faults + acts < MaxUpsets /\ acts' = acts + 1
  /\ Outbox!Redrive(e) \/ Outbox!Archive(e)
  /\ UNCHANGED <<jobVars, importStatus, datasetVars, versionVars, storageVars, run, faults>>

-----------------------------------------------------------------------------
DispatcherStep(d) ==
  \/ \E e \in Events : BeginDispatch(d, e)
  \/ CheckStart(d) \/ MarkProcessing(d) \/ Extract(d) \/ ReadNumber(d) \/ Upload(d)
  \/ Record(d) \/ Undo(d) \/ Confirm(d) \/ Succeed(d) \/ QueueTarget(d)
  \/ Disown(d) \/ SettleCanceled(d) \/ SettleFailed(d) \/ DeleteBytes(d) \/ CompleteEvent(d)
  \/ d \in unanswered /\ EventThrows(d)

Next ==
  \/ \E i \in Imports : Create(i) \/ Refresh(i) \/ Cancel(i) \/ Reconcile(i)
  \/ \E d \in Dispatchers :
       \/ \E S \in SUBSET Outbox!Due : ClaimEvents(d, S)
       \/ DispatcherStep(d)
       \/ RecordFails(d) \/ SucceedFails(d) \/ RunThrows(d) \/ EventThrows(d)
       \/ CompletionAnswerLost(d) \/ DispatcherCrash(d)
  \/ \E e \in Events : Operate(e)

Spec == Init /\ [][Next]_vars

(* Timers keep firing, processes restart, awaited calls return or throw.    *)
FairSpec ==
  /\ Spec
  /\ \A d \in Dispatchers :
       /\ WF_vars(\E S \in SUBSET Outbox!Due : ClaimEvents(d, S))
       /\ WF_vars(DispatcherStep(d))
  /\ \A i \in Imports : WF_vars(Reconcile(i))

-----------------------------------------------------------------------------
ImportTypeOK ==
  /\ Outbox!OutboxTypeOK
  /\ jobStatus \in [Imports -> JobStatus] /\ cancelRequested \in [Imports -> BOOLEAN]
  /\ importStatus \in [Imports -> JobStatus]
  /\ datasetStatus \in {"NONE", "DRAFT", "READY", "ERROR"}
  /\ currentVersion \in Versions \cup {NoVersion}
  /\ versions \subseteq Versions /\ live \subseteq versions
  /\ owner \in [Versions -> Imports \cup {NoImport}]
  /\ number \in [Versions -> Numbers \cup {0}]
  /\ object \in [Numbers -> Imports \cup {NoImport}]
  /\ uploads \in [Numbers -> Nat]
  /\ run \in [Dispatchers ->
       [pc : RunPc, number : Numbers \cup {0}, stored : Versions \cup {NoVersion},
        error : {"none", "canceled", "failed"}]]
  /\ faults \in Nat /\ acts \in Nat /\ faults + acts <= MaxUpsets

(* Nobody asked for the cleanup of the current version.                     *)
CurrentKept ==
  currentVersion # NoVersion /\ evStatus[CleanupEvent(currentVersion)] = "NONE"

(* What a dataset points to exists, and its key holds the data of the       *)
(* import that made it, unless another upload went under the same number:   *)
(* numbers are read outside the transaction and used again after a cleanup, *)
(* and whoever fails to record a version deletes the key.                   *)
CurrentVersionServed ==
  CurrentKept =>
    /\ currentVersion \in versions \cap live
    /\ \/ object[number[currentVersion]] = owner[currentVersion]
       \/ uploads[number[currentVersion]] > 1

(* A dataset shows READY exactly when it has a version: an import that      *)
(* fails late, after another has published, does not show as its error.     *)
DatasetStatusTrue == datasetStatus = "READY" <=> currentVersion # NoVersion

(* An import that published shows it, unless its event was claimed again or *)
(* a call failed: then its run may wind the published import down, since    *)
(* the row is marked canceled or failed by its id.                          *)
OutcomeShown ==
  \A i \in Imports : jobStatus[i] = "SUCCEEDED" =>
    \/ importStatus[i] = "SUCCEEDED"
    \/ evAttempts[ImportEvent(i)] > 1 \/ faults > 0

(* A dataset only moves on to higher versions, although runs of imports     *)
(* that were ended by the reconciler still read, upload and record.         *)
VersionsAdvance ==
  [][CurrentKept /\ currentVersion' # currentVersion =>
       number'[currentVersion'] > number[currentVersion]]_vars

(* A job ends, by its run or by the reconciler; a canceled one too whose    *)
(* command failed before the cancellation was seen.  The import's own row   *)
(* ends with it, but that of a job canceled before it ran needs its event.  *)
EventLost(e) ==
  \/ evStatus[e] \in {"FAILED", "ARCHIVED"}
  \/ evStatus[e] = "PROCESSING" /\ Outbox!Holders(e) = {}
  \/ evAttempts[e] = AttemptCap
ImportsSettle ==
  \A i \in Imports :
    /\ ActiveJob(i) ~> ~ActiveJob(i)
    /\ importStatus[i] \in {"PENDING", "PROCESSING"} ~>
         \/ importStatus[i] \in {"SUCCEEDED", "FAILED", "CANCELED"}
         \/ jobStatus[i] = "CANCELED" /\ EventLost(ImportEvent(i))

(* A version whose import ended otherwise is taken back, unless a call      *)
(* failed: the run that recorded it finds the job ended and disowns it.     *)
EndedImportLeavesNothing ==
  \A v \in Versions :
    v \in versions /\ jobStatus[owner[v]] \in {"FAILED", "CANCELED"} ~>
      v \notin versions \/ faults > 0
=============================================================================
