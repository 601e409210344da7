------------------------- MODULE BuildPipelineProofs -------------------------
(***************************************************************************)
(* Proofs about BuildPipeline: for any builds, tilesets, worker slots and  *)
(* dispatchers, any number of failures and any number of retries.          *)
(***************************************************************************)
EXTENDS BuildTypeProofs

(***************************************************************************)
(* How a step can move a build: a request revives it, a finalization makes *)
(* its version, and everything else can only wind builds down.             *)
(***************************************************************************)
Requests(j) ==
  \E n \in 0..MaxRetries :
    /\ RequestBuild(j, n)
    /\ \/ jobStatus[j] = "NONE"
       \/ jobStatus[j] \in {"FAILED", "CANCELED"} /\ n = retryCount[j] + 1

Commits(j) == MayFinalize(j) /\ CommitVersion(j)

WindsDown ==
  /\ UNCHANGED <<versions, retryCount>>
  /\ \A t \in Tilesets : buildJobId'[t] \in {buildJobId[t], NoJob}
  /\ \A j \in Jobs :
       /\ cancelRequested[j] => cancelRequested'[j]
       /\ cancelRequested'[j] => cancelRequested[j] \/ ActiveJob(j)
  /\ \/ UNCHANGED jobStatus
     \/ \E j \in Jobs, s \in {"PROCESSING", "FAILED", "CANCELED"} :
          ActiveJob(j) /\ jobStatus' = [jobStatus EXCEPT ![j] = s]
  /\ \/ UNCHANGED currentVersion
     \/ /\ UNCHANGED jobStatus
        /\ \E t \in Tilesets : \E v \in 1..Len(versions[t]) :
             currentVersion' = [currentVersion EXCEPT ![t] = v]

(* A step of the console, its worker, dispatcher or reconciler.             *)
LEMMA ConsoleMove ==
  ASSUME TypeOK, ConsoleNext
  PROVE  \/ \E j \in Jobs : Admissible(j) /\ Requests(j)
         \/ \E j \in Jobs : Commits(j)
         \/ WindsDown
<1>a. JobsTypeOK /\ TilesetsTypeOK /\ WorkersTypeOK /\ ReconcilerTypeOK
  BY DEF TypeOK
<1>b. UNCHANGED jobVars /\ UNCHANGED tilesetVars => WindsDown
  BY DEF WindsDown, jobVars, tilesetVars
(* What a run does to its own job and tileset. *)
<1>c. ASSUME NEW j \in Jobs, ActiveJob(j), NEW s \in {"PROCESSING", "FAILED", "CANCELED"},
             SetJob(j, s), UNCHANGED tilesetVars
      PROVE  WindsDown
  BY <1>c, <1>a DEF WindsDown, SetJob, tilesetVars
<1>d. ASSUME NEW j \in Jobs, UNCHANGED jobVars, OwnsTileset(j), NEW s,
             NEW b \in {j, NoJob}, SetTileset(Target[j], s, b),
             UNCHANGED <<versions, currentVersion>>
      PROVE  WindsDown
  BY <1>d, <1>a, PipelineAssumption
  DEF WindsDown, SetTileset, OwnsTileset, jobVars, TilesetsTypeOK
<1>e. ASSUME NEW j \in Jobs, Progress(j), UNCHANGED tilesetVars PROVE WindsDown
  BY <1>e DEF WindsDown, Progress, tilesetVars
<1>1. ASSUME NEW j \in Jobs, Console(j)
      PROVE  (Admissible(j) /\ Requests(j)) \/ WindsDown
  <2>1. CASE Upload(j) \/ Rebuild(j)
    <3>1. 0 \in 0..MaxRetries
      BY PipelineAssumption
    <3> QED
      BY <2>1, <3>1 DEF Upload, Rebuild, Requests
  <2>2. CASE Retry(j)
    <3>1. retryCount[j] + 1 \in 0..MaxRetries
      BY <2>2, <1>a, PipelineAssumption DEF Retry, Retryable, JobsTypeOK
    <3> QED
      BY <2>2, <3>1 DEF Retry, Retryable, Requests
  <2>3. CASE CancelPending(j)
    <3>1. jobStatus' = [jobStatus EXCEPT ![j] = "CANCELED"] /\ ActiveJob(j)
      BY <2>3 DEF CancelPending, ActiveJob
    <3>2. cancelRequested' = [cancelRequested EXCEPT ![j] = TRUE]
      BY <2>3 DEF CancelPending
    <3>3. \A t \in Tilesets : buildJobId'[t] \in {buildJobId[t], NoJob}
      BY <2>3, <1>a DEF CancelPending, TilesetsTypeOK
    <3>4. UNCHANGED <<versions, retryCount, currentVersion>>
      BY <2>3 DEF CancelPending
    <3> QED
      BY <3>1, <3>2, <3>3, <3>4, <1>a DEF WindsDown, JobsTypeOK
  <2>4. CASE CancelRunning(j)
    BY <2>4, <1>a DEF CancelRunning, ActiveJob, WindsDown, JobsTypeOK, tilesetVars
  <2> QED
    BY <1>1, <2>1, <2>2, <2>3, <2>4 DEF Console
<1>2. ASSUME NEW j \in Jobs, StallCheck(j) \/ Age(j) \/ Scan(j) PROVE WindsDown
  BY <1>2, <1>b DEF StallCheck, Age, Scan, WindsDown, jobVars, tilesetVars
<1>3. ASSUME NEW t \in Tilesets,
             DeleteTileset(t) \/ \E v \in 1..Len(versions[t]) : Publish(t, v)
      PROVE  WindsDown
  BY <1>3 DEF DeleteTileset, Publish, WindsDown, jobVars
<1>4. ASSUME NEW d \in Dispatchers,
             DispatcherStep(d) \/ DispatchThrows(d) \/ CompletionAnswerLost(d)
               \/ DispatcherCrash(d) \/ \E S \in SUBSET Outbox!Due : ClaimEvents(d, S)
      PROVE  WindsDown
  BY <1>4, <1>b
  DEF DispatcherStep, BeginDispatch, ReadJob, InspectQueue, AddToQueue, ReplaceInQueue,
      DeleteBytes, MarkDeleted, CompleteEvent, CompletionAnswerLost, DispatchThrows,
      FailEvent, DispatcherCrash, ClaimEvents, DispatchFrame
<1>5. ASSUME NEW w \in Workers, wPc[w] # "idle"
      PROVE  wJob[w] \in Jobs
  BY <1>5, <1>a DEF WorkersTypeOK
<1>6. ASSUME NEW w \in Workers, WorkerStep(w) \/ FinalizeFails(w)
      PROVE  WindsDown \/ \E j \in Jobs : Commits(j)
  <2>1. ASSUME Finalize(w) \/ FinalizeFails(w)
        PROVE  WindsDown \/ \E j \in Jobs : Commits(j)
    BY <2>1, <1>5, <1>b DEF Finalize, FinalizeFails, Commits
  <2>2. ASSUME MarkStarted(w) \/ MarkCanceled(w) \/ MarkFailed(w) PROVE WindsDown
    <3>1. wJob[w] \in Jobs
      BY <2>2, <1>5 DEF MarkStarted, MarkCanceled, MarkFailed
    <3>2. CASE UNCHANGED jobVars
      BY <2>2, <3>2, <1>b DEF MarkStarted, MarkCanceled, MarkFailed
    <3>3. CASE jobStatus[wJob[w]] = "CANCELED" /\ SetJob(wJob[w], "CANCELED")
      BY <2>2, <3>1, <3>3, <1>a
      DEF MarkStarted, MarkCanceled, MarkFailed, SetJob, JobsTypeOK, WindsDown, tilesetVars
    <3>4. CASE ActiveJob(wJob[w])
      BY <2>2, <3>1, <3>2, <3>4, <1>c DEF MarkStarted, MarkCanceled, MarkFailed
    <3> QED
      BY <2>2, <3>2, <3>3, <3>4 DEF MarkStarted, MarkCanceled, MarkFailed, Continuing, ActiveJob
  <2>3. ASSUME SetProcessing(w) \/ SetCanceled(w) \/ SetError(w) PROVE WindsDown
    <3>1. wJob[w] \in Jobs
      BY <2>3, <1>5 DEF SetProcessing, SetCanceled, SetError
    <3>2. CASE OwnsTileset(wJob[w])
      BY <2>3, <3>1, <3>2, <1>d DEF SetProcessing, SetCanceled, SetError, OwnsTileset
    <3>3. CASE ~OwnsTileset(wJob[w])
      BY <2>3, <3>3, <1>b DEF SetProcessing, SetCanceled, SetError, tilesetVars
    <3> QED
      BY <3>2, <3>3
  <2>4. ASSUME Work(w) \/ CheckStored(w) PROVE WindsDown
    BY <2>4, <1>5, <1>b, <1>e DEF Work, CheckStored
  <2>5. ASSUME \/ CheckStart(w) \/ UploadBytes(w) \/ RecordArtifact(w)
               \/ FinalizeRefused(w) \/ RequestCleanup(w) \/ AckDone(w) \/ AckFailed(w)
        PROVE  WindsDown
    BY <2>5, <1>b
    DEF CheckStart, UploadBytes, RecordArtifact, FinalizeRefused, RequestCleanup,
        AckDone, AckFailed, Acknowledge
  <2> QED
    BY <1>6, <2>1, <2>2, <2>3, <2>4, <2>5 DEF WorkerStep
<1>7. ASSUME NEW w \in Workers,
             RecordFails(w) \/ CleanupAnswerLost(w) \/ WorkerThrows(w) \/ WorkerCrash(w)
               \/ \E j \in Jobs : Pick(w, j)
      PROVE  WindsDown
  BY <1>7, <1>b DEF RecordFails, CleanupAnswerLost, WorkerThrows, WorkerCrash, Pick
<1>8. ASSUME CheckLiveness \/ LivenessUnknown \/ ReconcileFail PROVE WindsDown
  <2>1. CASE CheckLiveness \/ LivenessUnknown
    BY <2>1, <1>b DEF CheckLiveness, LivenessUnknown
  <2>2. CASE ReconcileFail /\ UNCHANGED jobVars
    BY <2>2 DEF ReconcileFail, WindsDown, jobVars
  <2>3. CASE ReconcileFail /\ ActiveJob(rJob) /\ SetJob(rJob, "FAILED")
    <3>1. CASE rJob \in Jobs
      BY <2>3, <3>1 DEF ReconcileFail, WindsDown, SetJob
    <3>2. CASE rJob \notin Jobs
      BY <2>3, <3>2, <1>a DEF ReconcileFail, WindsDown, SetJob, JobsTypeOK
    <3> QED
      BY <3>1, <3>2
  <2> QED
    BY <1>8, <2>1, <2>2, <2>3 DEF ReconcileFail
<1> QED
  BY <1>1, <1>2, <1>3, <1>4, <1>6, <1>7, <1>8 DEF ConsoleNext, Failure, ReconcilerStep

(* A step of the whole system: an operator's retry asks no admission.       *)
LEMMA Move ==
  ASSUME TypeOK, [Next]_vars
  PROVE  \/ \E j \in Jobs : Requests(j)
         \/ \E j \in Jobs : Commits(j)
         \/ WindsDown
<1>1. CASE UNCHANGED vars
  BY <1>1 DEF vars, WindsDown, jobVars, tilesetVars
<1>2. CASE ConsoleNext
  BY <1>2, ConsoleMove
<1>3. ASSUME NEW j \in Jobs, AdminRetry(j) PROVE Requests(j)
  <2>1. retryCount[j] + 1 \in 0..MaxRetries
    BY <1>3, PipelineAssumption DEF AdminRetry, Retryable, TypeOK, JobsTypeOK
  <2> QED
    BY <1>3, <2>1 DEF AdminRetry, Retryable, Requests
<1>4. ASSUME NEW j \in Jobs, AdminCancelPending(j) PROVE WindsDown
  BY <1>4 DEF AdminCancelPending, WindsDown, tilesetVars, ActiveJob, TypeOK, JobsTypeOK
<1>5. ASSUME NEW w \in Workers, LoseLock(w) PROVE WindsDown
  BY <1>5 DEF LoseLock, WindsDown, jobVars, tilesetVars
<1>6. ASSUME NEW e \in Events, RedriveEvent(e) \/ ArchiveEvent(e) PROVE WindsDown
  BY <1>6 DEF RedriveEvent, ArchiveEvent, DispatchFrame, WindsDown, jobVars, tilesetVars
<1> QED
  BY <1>1, <1>2, <1>3, <1>4, <1>5, <1>6 DEF Next

-----------------------------------------------------------------------------
(* A build that was not asked for, or has succeeded, carries no request for *)
(* cancellation: CancelRunning and the admin's cancellation look at the     *)
(* status, and finalizeProcessedArtifact at the request.                    *)
CancellationAsked ==
  \A j \in Jobs : jobStatus[j] \in {"NONE", "SUCCEEDED"} => ~cancelRequested[j]

BuildInv == OneVersionPerBuild /\ NoBuildJobLeftBehind /\ CancellationAsked

(* An empty deployment satisfies the invariant.                             *)
LEMMA BuildInvInit == Init => BuildInv
  BY DEF Init, BuildInv, OneVersionPerBuild, NoBuildJobLeftBehind, CancellationAsked

(* The invariant is inductive: see Requests, Commits and WindsDown above.   *)
LEMMA BuildInvStep ==
  ASSUME TypeOK, BuildInv, [Next]_vars
  PROVE  BuildInv'
<1>a. /\ \A t \in Tilesets : versions[t] \in Seq(Jobs)
      /\ versions \in [Tilesets -> Seq(Jobs)]
      /\ jobStatus \in [Jobs -> JobStatus]
      /\ cancelRequested \in [Jobs -> BOOLEAN]
      /\ buildJobId \in [Tilesets -> Jobs \cup {NoJob}]
  BY DEF TypeOK, JobsTypeOK, TilesetsTypeOK
<1>b. OneVersionPerBuild /\ NoBuildJobLeftBehind /\ CancellationAsked
  BY DEF BuildInv
<1>1. ASSUME NEW j \in Jobs, Requests(j) PROVE BuildInv'
  <2>1. /\ jobStatus[j] # "SUCCEEDED"
        /\ jobStatus' = [jobStatus EXCEPT ![j] = "PENDING"]
        /\ cancelRequested' = [cancelRequested EXCEPT ![j] = FALSE]
        /\ buildJobId' = [buildJobId EXCEPT ![Target[j]] = j]
        /\ versions' = versions
    BY <1>1 DEF Requests, RequestBuild
  <2>2. OneVersionPerBuild'
    BY <2>1, <1>a, <1>b DEF OneVersionPerBuild
  <2>3. NoBuildJobLeftBehind'
    BY <2>1, <1>a, <1>b DEF NoBuildJobLeftBehind
  <2>4. CancellationAsked'
    BY <2>1, <1>a, <1>b DEF CancellationAsked
  <2> QED
    BY <2>2, <2>3, <2>4 DEF BuildInv
<1>2. ASSUME NEW j \in Jobs, Commits(j) PROVE BuildInv'
  <2> DEFINE tt == Target[j]
  <2>0. tt \in Tilesets
    BY PipelineAssumption
  <2>1. /\ ActiveJob(j) /\ ~cancelRequested[j]
        /\ jobStatus' = [jobStatus EXCEPT ![j] = "SUCCEEDED"]
        /\ cancelRequested' = cancelRequested
        /\ buildJobId' = [buildJobId EXCEPT ![tt] = NoJob]
        /\ versions' = [versions EXCEPT ![tt] = Append(versions[tt], j)]
    BY <1>2 DEF Commits, MayFinalize, Continuing, CommitVersion, SetTileset, SetJob
  <2> HIDE DEF tt
  <2>2. \A t \in Tilesets : t # tt => versions'[t] = versions[t]
    BY <2>1, <1>a
  <2>3. /\ DOMAIN versions'[tt] = DOMAIN versions[tt] \cup {Len(versions[tt]) + 1}
        /\ Len(versions[tt]) + 1 \notin DOMAIN versions[tt]
        /\ \A n \in DOMAIN versions[tt] : versions'[tt][n] = versions[tt][n]
        /\ versions'[tt][Len(versions[tt]) + 1] = j
    <3>1. versions'[tt] = Append(versions[tt], j) /\ versions[tt] \in Seq(Jobs)
      BY <2>0, <2>1, <1>a
    <3> QED
      BY <3>1
  <2>4. \A t \in Tilesets : \A n \in DOMAIN versions[t] : versions[t][n] # j
    BY <2>1, <1>b DEF OneVersionPerBuild, ActiveJob
  <2>5. \A k \in Jobs : jobStatus'[k] = IF k = j THEN "SUCCEEDED" ELSE jobStatus[k]
    BY <2>1, <1>a
  <2>6. \A t \in Tilesets : \A m, n \in DOMAIN versions'[t] :
          versions'[t][m] = versions'[t][n] => m = n
    BY <2>2, <2>3, <2>4, <1>b DEF OneVersionPerBuild
  <2>7. \A t \in Tilesets : \A n \in DOMAIN versions'[t] :
          Target[versions'[t][n]] = t /\ jobStatus'[versions'[t][n]] = "SUCCEEDED"
    <3> SUFFICES ASSUME NEW t \in Tilesets, NEW n \in DOMAIN versions'[t]
                 PROVE  /\ Target[versions'[t][n]] = t
                        /\ jobStatus'[versions'[t][n]] = "SUCCEEDED"
      OBVIOUS
    <3>1. CASE versions'[t][n] = j
      <4>1. t = tt
        BY <2>2, <2>4, <3>1
      <4> QED
        BY <2>5, <3>1, <4>1 DEF tt
    <3>2. CASE versions'[t][n] # j
      <4>1. n \in DOMAIN versions[t] /\ versions'[t][n] = versions[t][n]
        BY <2>2, <2>3, <3>2
      <4>2. versions[t][n] \in Jobs
        BY <4>1, <1>a
      <4> QED
        BY <2>5, <3>2, <4>1, <4>2, <1>b DEF OneVersionPerBuild
    <3> QED
      BY <3>1, <3>2
  <2>8. \A k \in Jobs : jobStatus'[k] = "SUCCEEDED" =>
          \E n \in DOMAIN versions'[Target[k]] : versions'[Target[k]][n] = k
    <3> SUFFICES ASSUME NEW k \in Jobs, jobStatus'[k] = "SUCCEEDED"
                 PROVE  \E n \in DOMAIN versions'[Target[k]] : versions'[Target[k]][n] = k
      OBVIOUS
    <3>1. CASE k = j
      BY <2>3, <3>1 DEF tt
    <3>2. CASE k # j
      <4>1. PICK n \in DOMAIN versions[Target[k]] : versions[Target[k]][n] = k
        BY <2>5, <3>2, <1>b DEF OneVersionPerBuild
      <4>2. Target[k] \in Tilesets
        BY PipelineAssumption
      <4>3. n \in DOMAIN versions'[Target[k]] /\ versions'[Target[k]][n] = k
        BY <2>2, <2>3, <4>1, <4>2
      <4> QED
        BY <4>3
    <3> QED
      BY <3>1, <3>2
  <2>9. OneVersionPerBuild'
    BY <2>6, <2>7, <2>8 DEF OneVersionPerBuild
  <2>10. NoBuildJobLeftBehind'
    BY <2>1, <2>5, <1>a, <1>b, PipelineAssumption DEF NoBuildJobLeftBehind, tt
  <2>11. CancellationAsked'
    BY <2>1, <2>5, <1>b DEF CancellationAsked
  <2> QED
    BY <2>9, <2>10, <2>11 DEF BuildInv
<1>3. CASE WindsDown
  <2>1. \A j \in Jobs : /\ jobStatus[j] = "SUCCEEDED" <=> jobStatus'[j] = "SUCCEEDED"
                        /\ jobStatus'[j] = "NONE" => jobStatus[j] = "NONE"
    BY <1>3, <1>a DEF WindsDown, ActiveJob
  <2>2. versions' = versions
    BY <1>3 DEF WindsDown
  <2>3. \A t \in Tilesets : \A n \in DOMAIN versions[t] : versions[t][n] \in Jobs
    BY <1>a
  <2>4. OneVersionPerBuild'
    BY <2>1, <2>2, <2>3, <1>b DEF OneVersionPerBuild
  <2>5. NoBuildJobLeftBehind'
    BY <1>3, <2>1, <1>a, <1>b DEF WindsDown, NoBuildJobLeftBehind
  <2>6. CancellationAsked'
    BY <1>3, <2>1, <1>b DEF WindsDown, CancellationAsked, ActiveJob
  <2> QED
    BY <2>4, <2>5, <2>6 DEF BuildInv
<1> QED
  BY <1>1, <1>2, <1>3, Move

(* The inductive invariant the safety theorems below follow from.           *)
THEOREM BuildInvariant == Spec => [](TypeOK /\ BuildInv)
  BY TypeInit, TypeStep, BuildInvInit, BuildInvStep, PTL DEF Spec

(* A build leaves exactly one version when it succeeds, on its own tileset, *)
(* and none otherwise, whatever crashes, stalls, queue retries and runs     *)
(* that outlive their lock make of processSourceJob.                        *)
THEOREM VersionsCorrect == Spec => []OneVersionPerBuild
<1>1. BuildInv => OneVersionPerBuild
  BY DEF BuildInv
<1> QED
  BY <1>1, BuildInvariant, PTL

(* No tileset is left on a build that has succeeded or is another's.        *)
THEOREM BuildJobReleased == Spec => []NoBuildJobLeftBehind
<1>1. BuildInv => NoBuildJobLeftBehind
  BY DEF BuildInv
<1> QED
  BY <1>1, BuildInvariant, PTL

(* A build whose cancellation was asked for makes no version unless it is   *)
(* retried first, although neither the worker's status updates nor the      *)
(* reconciler's take the job's lock.                                        *)
THEOREM CancellationFinal == Spec => CancellationIsFinal
<1> DEFINE Final ==
      \A j \in Jobs : cancelRequested[j] =>
        jobStatus'[j] # "SUCCEEDED"
          /\ (ActiveJob(j)' => cancelRequested'[j] \/ retryCount'[j] > retryCount[j])
<1>1. ASSUME TypeOK, BuildInv, [Next]_vars PROVE Final
  <2> SUFFICES ASSUME NEW k \in Jobs, cancelRequested[k]
               PROVE  /\ jobStatus'[k] # "SUCCEEDED"
                      /\ ActiveJob(k)' =>
                           cancelRequested'[k] \/ retryCount'[k] > retryCount[k]
    OBVIOUS
  <2>a. /\ jobStatus \in [Jobs -> JobStatus]
        /\ retryCount \in [Jobs -> 0..MaxRetries]
        /\ cancelRequested \in [Jobs -> BOOLEAN]
        /\ jobStatus[k] \notin {"NONE", "SUCCEEDED"}
    BY <1>1 DEF TypeOK, JobsTypeOK, BuildInv, CancellationAsked
  <2>1. ASSUME NEW j \in Jobs, Requests(j)
        PROVE  /\ jobStatus'[k] # "SUCCEEDED"
               /\ cancelRequested'[k] \/ retryCount'[k] > retryCount[k]
    <3>1. PICK n \in 0..MaxRetries :
            /\ jobStatus' = [jobStatus EXCEPT ![j] = "PENDING"]
            /\ cancelRequested' = [cancelRequested EXCEPT ![j] = FALSE]
            /\ retryCount' = [retryCount EXCEPT ![j] = n]
            /\ jobStatus[j] = "NONE" \/ n = retryCount[j] + 1
      BY <2>1 DEF Requests, RequestBuild
    <3>2. CASE j = k
      <4>1. retryCount[k] \in Nat /\ retryCount'[k] = retryCount[k] + 1
        BY <2>a, <3>1, <3>2, PipelineAssumption
      <4> QED
        BY <2>a, <3>1, <3>2, <4>1
    <3>3. CASE j # k
      BY <2>a, <3>1, <3>3
    <3> QED
      BY <3>2, <3>3
  <2>2. ASSUME NEW j \in Jobs, Commits(j)
        PROVE  jobStatus'[k] # "SUCCEEDED" /\ cancelRequested'[k]
    BY <2>2, <2>a DEF Commits, MayFinalize, Continuing, CommitVersion, SetJob
  <2>3. ASSUME WindsDown PROVE jobStatus'[k] # "SUCCEEDED" /\ cancelRequested'[k]
    BY <2>3, <2>a DEF WindsDown
  <2> QED
    BY <1>1, <2>1, <2>2, <2>3, Move
<1>2. Final => [Final]_vars
  OBVIOUS
<1> QED
  BY <1>1, <1>2, BuildInvariant, PTL DEF Spec, CancellationIsFinal

-----------------------------------------------------------------------------
(* Admission.                                                               *)
(* A behaviour without operators is a behaviour of the system.              *)
LEMMA ConsoleIsSpec == ConsoleSpec => Spec
<1>1. [ConsoleNext]_vars => [Next]_vars
  BY DEF Next
<1> QED
  BY <1>1, PTL DEF ConsoleSpec, Spec

Active == {j \in Jobs : ActiveJob(j)}

(* Only admission makes a build active, and it counts the active ones first. *)
LEMMA AdmissionStep ==
  ASSUME TypeOK, OneActiveBuild, WithinActiveLimit, [ConsoleNext]_vars
  PROVE  OneActiveBuild' /\ WithinActiveLimit'
<1>a. jobStatus \in [Jobs -> JobStatus] /\ IsFiniteSet(Jobs)
  BY PipelineAssumption DEF TypeOK, JobsTypeOK
<1>b. WithinActiveLimit <=> Cardinality(Active) <= ActiveJobLimit
  BY DEF WithinActiveLimit, Active
<1>c. WithinActiveLimit' <=> Cardinality(Active') <= ActiveJobLimit
  BY DEF WithinActiveLimit, Active
<1>1. ASSUME NEW j \in Jobs, Admissible(j), Requests(j)
      PROVE  OneActiveBuild' /\ WithinActiveLimit'
  <2>1. jobStatus' = [jobStatus EXCEPT ![j] = "PENDING"]
    BY <1>1 DEF Requests, RequestBuild
  <2>2. OneActiveBuild'
    BY <1>1, <1>a, <2>1 DEF OneActiveBuild, Admissible, ActiveJob
  <2> DEFINE Others == {k \in Jobs \ {j} : ActiveJob(k)}
  <2>3. Active' = Others \cup {j}
    BY <1>a, <2>1 DEF Active, ActiveJob
  <2>4. IsFiniteSet(Others) /\ j \notin Others
    BY <1>a, FS_Subset
  <2>5. Cardinality(Others) < ActiveJobLimit
    BY <1>1 DEF Admissible
  <2>6. Cardinality(Others) \in Nat /\ Cardinality(Others \cup {j}) = Cardinality(Others) + 1
    BY <2>4, FS_AddElement, FS_CardinalityType
  <2> QED
    BY <1>c, <2>2, <2>3, <2>5, <2>6, PipelineAssumption
<1>2. ASSUME Active' \subseteq Active PROVE OneActiveBuild' /\ WithinActiveLimit'
  <2>1. OneActiveBuild'
    BY <1>2 DEF Active, OneActiveBuild
  <2>2. IsFiniteSet(Active)
    BY <1>a, FS_Subset DEF Active
  <2>3. /\ Cardinality(Active') <= Cardinality(Active)
        /\ Cardinality(Active) \in Nat /\ Cardinality(Active') \in Nat
    BY <1>2, <2>2, FS_Subset, FS_CardinalityType
  <2> QED
    BY <1>b, <1>c, <2>1, <2>3, PipelineAssumption
<1>3. ASSUME NEW j \in Jobs, Commits(j) PROVE Active' \subseteq Active
  BY <1>3, <1>a DEF Commits, CommitVersion, SetJob, Active, ActiveJob
<1>4. ASSUME WindsDown PROVE Active' \subseteq Active
  BY <1>4, <1>a DEF WindsDown, Active, ActiveJob
<1>5. ASSUME UNCHANGED vars PROVE Active' \subseteq Active
  BY <1>5 DEF vars, jobVars, Active, ActiveJob
<1> QED
  BY <1>1, <1>2, <1>3, <1>4, <1>5, ConsoleMove

(* With no operator acting, admission keeps the builds of the account       *)
(* within its limit and to one per tileset, for ever: no worker, dispatcher *)
(* or reconciler revives a build that was wound down.                       *)
THEOREM AdmissionCorrect == ConsoleSpec => [](OneActiveBuild /\ WithinActiveLimit)
<1>1. Init => OneActiveBuild /\ WithinActiveLimit
  <2> SUFFICES ASSUME Init PROVE OneActiveBuild /\ WithinActiveLimit
    OBVIOUS
  <2>1. {j \in Jobs : ActiveJob(j)} = {}
    BY DEF Init, ActiveJob
  <2>2. Cardinality({}) = 0
    BY FS_EmptySet
  <2> QED
    BY <2>1, <2>2, PipelineAssumption DEF OneActiveBuild, WithinActiveLimit
<1>2. TypeOK /\ OneActiveBuild /\ WithinActiveLimit /\ [ConsoleNext]_vars
        => OneActiveBuild' /\ WithinActiveLimit'
  BY AdmissionStep
<1> QED
  BY <1>1, <1>2, ConsoleIsSpec, TypeCorrect, PTL DEF ConsoleSpec

-----------------------------------------------------------------------------
(* Implementation.                                                          *)
(* An empty deployment maps to an empty TilesetBuilds.                      *)
LEMMA BuildsInit == Init => Builds!Init
<1>1. Init => [j \in Jobs |-> PhaseOf(jobStatus[j])] = [j \in Jobs |-> "none"]
  BY DEF Init, PhaseOf
<1> QED
  BY <1>1 DEF Init, Builds!Init

(* A step of the console maps to a step of TilesetBuilds or to none.        *)
LEMMA BuildsStep ==
  ASSUME TypeOK, [ConsoleNext]_vars
  PROVE  [Builds!Next]_(Builds!buildVars)
<1> DEFINE ph == [j \in Jobs |-> PhaseOf(jobStatus[j])]
<1>a. jobStatus \in [Jobs -> JobStatus]
  BY DEF TypeOK, JobsTypeOK
<1>b. \A j \in Jobs : ActiveJob(j) <=> ph[j] = "active"
  BY <1>a DEF ActiveJob, PhaseOf, JobStatus
(* A change of one job's status is a change of one job's phase. *)
<1>c. ASSUME NEW j \in Jobs, NEW s \in JobStatus, jobStatus' = [jobStatus EXCEPT ![j] = s]
      PROVE  ph' = [ph EXCEPT ![j] = PhaseOf(s)]
  <2>1. \A k \in Jobs : jobStatus'[k] = IF k = j THEN s ELSE jobStatus[k]
    BY <1>a, <1>c
  <2> QED
    BY <2>1
<1>1. ASSUME NEW j \in Jobs, Admissible(j), Requests(j)
      PROVE  Builds!Start(j) \/ UNCHANGED Builds!buildVars
  <2>1. /\ jobStatus' = [jobStatus EXCEPT ![j] = "PENDING"]
        /\ UNCHANGED <<versions, currentVersion>>
        /\ jobStatus[j] \in {"NONE", "FAILED", "CANCELED"}
    BY <1>1 DEF Requests, RequestBuild
  <2>2. ph' = [ph EXCEPT ![j] = "active"]
    BY <1>c, <2>1 DEF PhaseOf, JobStatus
  <2>3. ph[j] \in {"none", "failed", "canceled"}
    BY <2>1 DEF PhaseOf
  <2>4. {k \in Jobs \ {j} : ph[k] = "active"} = {k \in Jobs \ {j} : ActiveJob(k)}
    BY <1>b
  <2>5. Builds!MayStart(j)
    BY <1>1, <1>b, <2>4 DEF Builds!MayStart, Admissible, Builds!Cardinality, Cardinality
  <2> QED
    BY <2>1, <2>2, <2>3, <2>5 DEF Builds!Start
<1>2. ASSUME NEW j \in Jobs, Commits(j) PROVE Builds!Succeed(j)
  <2>1. /\ ActiveJob(j)
        /\ jobStatus' = [jobStatus EXCEPT ![j] = "SUCCEEDED"]
        /\ versions' = [versions EXCEPT ![Target[j]] = Append(@, j)]
        /\ UNCHANGED currentVersion
    BY <1>2 DEF Commits, MayFinalize, Continuing, CommitVersion, SetJob
  <2>2. ph' = [ph EXCEPT ![j] = "succeeded"]
    BY <1>c, <2>1 DEF PhaseOf, JobStatus
  <2> QED
    BY <1>b, <2>1, <2>2 DEF Builds!Succeed
<1>3. ASSUME WindsDown PROVE [Builds!Next]_(Builds!buildVars)
  <2>1. CASE UNCHANGED <<jobStatus, currentVersion>>
    BY <1>3, <2>1 DEF WindsDown, Builds!buildVars
  <2>2. CASE UNCHANGED jobStatus /\ ~UNCHANGED currentVersion
    <3>1. PICK t \in Tilesets : \E v \in 1..Len(versions[t]) :
            currentVersion' = [currentVersion EXCEPT ![t] = v]
      BY <1>3, <2>2 DEF WindsDown
    <3>2. PICK v \in 1..Len(versions[t]) : currentVersion' = [currentVersion EXCEPT ![t] = v]
      BY <3>1
    <3>3. Builds!Publish(t, v)
      BY <1>3, <2>2, <3>2 DEF WindsDown, Builds!Publish
    <3> QED
      BY <3>3 DEF Builds!Next
  <2>3. CASE ~UNCHANGED jobStatus
    <3>1. PICK j \in Jobs, s \in {"PROCESSING", "FAILED", "CANCELED"} :
            ActiveJob(j) /\ jobStatus' = [jobStatus EXCEPT ![j] = s]
      BY <1>3, <2>3 DEF WindsDown
    <3>2. UNCHANGED <<versions, currentVersion>>
      BY <1>3, <2>3 DEF WindsDown
    <3>3. ph' = [ph EXCEPT ![j] = PhaseOf(s)]
      <4>1. s \in JobStatus
        BY DEF JobStatus
      <4> HIDE DEF ph
      <4> QED
        BY <1>c, <3>1, <4>1
    <3>4. ph[j] = "active"
      BY <1>b, <3>1
    <3>5. CASE s = "PROCESSING"
      <4>1. ph' = ph
        BY <3>3, <3>4, <3>5 DEF PhaseOf
      <4> QED
        BY <3>2, <4>1 DEF Builds!buildVars
    <3>6. CASE s \in {"FAILED", "CANCELED"}
      <4>1. PhaseOf(s) \in {"failed", "canceled"}
        BY <3>6 DEF PhaseOf
      <4>2. Builds!Stop(j)
        BY <3>2, <3>3, <3>4, <4>1 DEF Builds!Stop
      <4> QED
        BY <4>2 DEF Builds!Next
    <3> QED
      BY <3>5, <3>6
  <2> QED
    BY <2>1, <2>2, <2>3
<1>4. ASSUME UNCHANGED vars PROVE UNCHANGED Builds!buildVars
  BY <1>4 DEF vars, jobVars, tilesetVars, Builds!buildVars
<1> QED
  BY <1>1, <1>2, <1>3, <1>4, ConsoleMove DEF Builds!Next

(* With no operator acting, the pipeline implements TilesetBuilds: seen     *)
(* from the console a build starts, succeeds with a version, or stops.      *)
THEOREM Implementation == ConsoleSpec => ImplementsTilesetBuilds
  BY BuildsInit, BuildsStep, ConsoleIsSpec, TypeCorrect, PTL
  DEF ConsoleSpec, ImplementsTilesetBuilds, Builds!Spec

(* The handlers, the dispatcher and the worker use the outbox only as       *)
(* EventOutbox allows.                                                      *)
THEOREM OutboxUse == Spec => UsesEventOutbox
<1>1. Init => Outbox!OutboxInit
  BY DEF Init
<1> QED
  BY <1>1, OutboxStep, TypeCorrect, PTL
  DEF Spec, UsesEventOutbox, Outbox!OutboxSpec, outboxVars, Outbox!outboxVars

-----------------------------------------------------------------------------
(* The artifacts of versions.                                               *)
(* With no run outliving its lock, an entry that is active has one run.     *)
RunsHoldLocks ==
  \A w \in Workers : wPc[w] # "idle" => wLock[w] /\ qState[wJob[w]] = "active"
OneRunPerBuild ==
  \A v, w \in Workers :
    wPc[v] # "idle" /\ wPc[w] # "idle" /\ wJob[v] = wJob[w] => v = w
RunsApart == RunsHoldLocks /\ OneRunPerBuild

(* The storage and the ledger are cleaned up only for a request that was    *)
(* made.                                                                    *)
CleanersFit ==
  \A d \in Dispatchers : dPc[d] \in {"delete", "mark"} =>
    current[d] \in Events /\ current[d].kind = "cleanup" /\ evStatus[current[d]] # "NONE"
CleanupsAreAsked ==
  OutboxFacts!OutboxInv /\ OutboxFacts!HeldAreInserted /\ CleanersFit

(* A run that may still finalize has stored what it has passed, unless a    *)
(* cleanup of the build was asked for, and its build has not succeeded.     *)
Building == {"start", "setBuilding", "work", "upload", "ledger", "checkStored", "finalize"}
RunStores(w, j) ==
  /\ wPc[w] \in Building => jobStatus[j] # "SUCCEEDED"
  /\ CleanupRequests(j) = {} =>
       /\ wPc[w] = "ledger" => bytes[j]
       /\ wPc[w] \in {"checkStored", "finalize"} => bytes[j] /\ object[j] = "live"
RunsStore == \A w \in Workers, j \in Jobs : wJob[w] = j => RunStores(w, j)

ServedInv == RunsApart /\ CleanupsAreAsked /\ RunsStore /\ VersionArtifactServed

(* The steps of the console that leave the queue and the workers alone.     *)
LEMMA OutsideRuns ==
  ASSUME [ConsoleNext]_vars
  PROVE  \/ UNCHANGED <<queueVars, workerVars>>
         \/ \E j \in Jobs : StallCheck(j)
         \/ \E d \in Dispatchers : AddToQueue(d) \/ ReplaceInQueue(d)
         \/ \E w \in Workers, j \in Jobs : Pick(w, j)
         \/ \E w \in Workers :
              \/ WorkerStep(w) \/ RecordFails(w) \/ FinalizeFails(w) \/ CleanupAnswerLost(w)
              \/ WorkerThrows(w) \/ WorkerCrash(w)
<1> DEFINE Same == UNCHANGED <<queueVars, workerVars>>
<1>1. ASSUME NEW j \in Jobs, Console(j) \/ Age(j) \/ Scan(j) PROVE Same
  BY <1>1, PipelineAssumption
  DEF Console, Upload, Rebuild, Retry, RequestBuild, CancelPending, CancelRunning, Age, Scan,
      ReconcilerFrame
<1>2. ASSUME NEW t \in Tilesets,
             DeleteTileset(t) \/ \E v \in 1..Len(versions[t]) : Publish(t, v)
      PROVE  Same
  BY <1>2 DEF DeleteTileset, Publish
<1>3. ASSUME NEW d \in Dispatchers, NEW S, ClaimEvents(d, S) PROVE Same
  BY <1>3 DEF ClaimEvents, DispatchFrame
<1>4. ASSUME NEW d \in Dispatchers,
             \/ DispatcherStep(d) \/ DispatchThrows(d) \/ CompletionAnswerLost(d)
             \/ DispatcherCrash(d),
             ~AddToQueue(d), ~ReplaceInQueue(d)
      PROVE  Same
  BY <1>4 DEF DispatcherStep, BeginDispatch, ReadJob, InspectQueue, DeleteBytes, MarkDeleted,
              CompleteEvent, CompletionAnswerLost, DispatchThrows, FailEvent,
              DispatcherCrash, DispatchFrame
<1>5. ASSUME CheckLiveness \/ LivenessUnknown \/ ReconcileFail PROVE Same
  BY <1>5 DEF CheckLiveness, LivenessUnknown, ReconcileFail, ReconcilerFrame
<1>6. ASSUME UNCHANGED vars PROVE Same
  BY <1>6 DEF vars
<1> QED
  BY <1>1, <1>2, <1>3, <1>4, <1>5, <1>6 DEF ConsoleNext, Failure, ReconcilerStep

(* No two runs of a build: an entry is handed out while it waits, and waits *)
(* again or is replaced only when nobody holds its lock.                    *)
LEMMA RunsApartStep ==
  ASSUME TypeOK, RunsApart, [ConsoleNext]_vars
  PROVE  RunsApart'
<1>a. /\ wPc \in [Workers -> WorkerPc] /\ wJob \in [Workers -> Jobs \cup {NoJob}]
      /\ wLock \in [Workers -> BOOLEAN] /\ qState \in [Jobs -> QueueState]
      /\ \A w \in Workers : wPc[w] # "idle" => wJob[w] \in Jobs
  BY DEF TypeOK, WorkersTypeOK, QueueTypeOK
<1>b. RunsHoldLocks /\ OneRunPerBuild
  BY DEF RunsApart
<1>1. CASE UNCHANGED <<queueVars, workerVars>>
  BY <1>1, <1>b DEF RunsApart, RunsHoldLocks, OneRunPerBuild, queueVars, workerVars
<1>2. ASSUME UNCHANGED workerVars, \A w \in Workers : wPc[w] # "idle" => qState'[wJob[w]] = "active"
      PROVE  RunsApart'
  BY <1>2, <1>b DEF RunsApart, RunsHoldLocks, OneRunPerBuild, workerVars
<1>3. ASSUME NEW j \in Jobs, StallCheck(j) PROVE RunsApart'
  <2>1. \A w \in Workers : wPc[w] # "idle" => wJob[w] # j
    BY <1>3, <1>b DEF StallCheck, RunsHoldLocks
  <2>2. \A k \in Jobs : k # j => qState'[k] = qState[k]
    BY <1>3, <1>a DEF StallCheck
  <2> QED
    BY <1>2, <1>3, <1>a, <1>b, <2>1, <2>2 DEF StallCheck, RunsHoldLocks
<1>4. ASSUME NEW d \in Dispatchers, AddToQueue(d) \/ ReplaceInQueue(d) PROVE RunsApart'
  <2>1. \A k \in Jobs : qState[k] = "active" => qState'[k] = "active"
    BY <1>4, <1>a DEF AddToQueue, ReplaceInQueue, PutInQueue, queueVars
  <2> QED
    BY <1>2, <1>4, <1>a, <1>b, <2>1 DEF AddToQueue, ReplaceInQueue, DispatchFrame, RunsHoldLocks
<1>5. ASSUME NEW w \in Workers, NEW j \in Jobs, Pick(w, j) PROVE RunsApart'
  <2>1. \A v \in Workers : wPc[v] # "idle" => wJob[v] # j /\ v # w
    BY <1>5, <1>b DEF Pick, RunsHoldLocks
  <2>2. /\ \A v \in Workers : v # w => wPc'[v] = wPc[v] /\ wJob'[v] = wJob[v] /\ wLock'[v] = wLock[v]
        /\ wJob'[w] = j /\ wLock'[w] /\ qState'[j] = "active"
        /\ \A k \in Jobs : k # j => qState'[k] = qState[k]
    BY <1>5, <1>a DEF Pick
  <2> QED
    BY <1>a, <1>b, <2>1, <2>2 DEF RunsApart, RunsHoldLocks, OneRunPerBuild
(* A run that ends leaves the others alone. *)
<1>6. ASSUME NEW w \in Workers, wPc[w] # "idle", wPc' = [wPc EXCEPT ![w] = "idle"],
             wJob' = [wJob EXCEPT ![w] = NoJob], wLock' = [wLock EXCEPT ![w] = FALSE],
             \A k \in Jobs : k # wJob[w] => qState'[k] = qState[k]
      PROVE  RunsApart'
  <2>1. /\ wPc'[w] = "idle"
        /\ \A v \in Workers : v # w => wPc'[v] = wPc[v] /\ wJob'[v] = wJob[v] /\ wLock'[v] = wLock[v]
    BY <1>6, <1>a
  <2>2. \A v \in Workers : v # w /\ wPc[v] # "idle" => wJob[v] # wJob[w]
    BY <1>6, <1>b DEF OneRunPerBuild
  <2> QED
    BY <1>6, <1>a, <1>b, <2>1, <2>2 DEF RunsApart, RunsHoldLocks, OneRunPerBuild
<1>7. ASSUME NEW w \in Workers, AckDone(w) \/ AckFailed(w) \/ WorkerCrash(w) PROVE RunsApart'
  BY <1>6, <1>7, <1>a DEF AckDone, AckFailed, Acknowledge, WorkerCrash, queueVars
(* A run that goes on keeps its entry and its lock. *)
<1>8. ASSUME NEW w \in Workers, wPc[w] # "idle", NEW pc, Goto(w, pc), UNCHANGED queueVars
      PROVE  RunsApart'
  <2>1. /\ \A v \in Workers : wPc'[v] # "idle" => wPc[v] # "idle"
        /\ wJob' = wJob /\ wLock' = wLock /\ qState' = qState
    BY <1>8, <1>a DEF Goto, queueVars
  <2> QED
    BY <1>b, <2>1 DEF RunsApart, RunsHoldLocks, OneRunPerBuild
<1>9. ASSUME NEW w \in Workers,
             \/ WorkerStep(w) \/ RecordFails(w) \/ FinalizeFails(w) \/ CleanupAnswerLost(w)
             \/ WorkerThrows(w),
             ~AckDone(w), ~AckFailed(w)
      PROVE  RunsApart'
  BY <1>8, <1>9
  DEF WorkerStep, CheckStart, MarkStarted, SetProcessing, Work, UploadBytes, RecordArtifact,
      CheckStored, Finalize, FinalizeRefused, RequestCleanup, SetCanceled, MarkCanceled,
      SetError, MarkFailed, RecordFails, FinalizeFails, CleanupAnswerLost, WorkerThrows,
      BodyPc, CatchPc
<1> QED
  BY <1>1, <1>3, <1>4, <1>5, <1>7, <1>9, OutsideRuns

(* The outbox's own invariants hold here, and rows remain.                  *)
LEMMA OutboxKept ==
  ASSUME TypeOK, OutboxFacts!OutboxInv, OutboxFacts!HeldAreInserted, [Next]_vars
  PROVE  /\ OutboxFacts!OutboxInv' /\ OutboxFacts!HeldAreInserted'
         /\ \A e \in Events : evStatus[e] # "NONE" => evStatus'[e] # "NONE"
<1>1. OutboxFacts!OutboxAssumption
  BY EventsAssumption DEF Outbox!OutboxAssumption, OutboxFacts!OutboxAssumption
<1>2. [OutboxFacts!OutboxNext]_(OutboxFacts!outboxVars)
  BY OutboxStep, SameOutbox DEF OutboxFacts!outboxVars, outboxVars
<1>3. OutboxFacts!OutboxTypeOK /\ OutboxFacts!CurrentIsHeld
  BY DEF OutboxFacts!OutboxInv
<1>4. OutboxFacts!OutboxInv'
  BY <1>1, <1>2, OutboxFacts!OutboxInvStep
<1>5. OutboxFacts!HeldAreInserted'
  BY <1>1, <1>2, <1>3, OutboxFacts!HeldStep
<1>6. \A e \in Events : evStatus[e] # "NONE" => evStatus'[e] # "NONE"
  BY <1>1, <1>2, <1>3, OutboxFacts!RowsRemain
<1> QED
  BY <1>4, <1>5, <1>6

(* A cleanup that was asked for stays asked for.                            *)
LEMMA CleanupsRemain ==
  ASSUME TypeOK, CleanupsAreAsked, [Next]_vars, NEW j \in Jobs, CleanupRequests(j)' = {}
  PROVE  CleanupRequests(j) = {}
<1>1. \A n \in 1..MaxCleanups : CleanupEvent(j, n) \in Events
  BY CleanupEventInEvents
<1>2. \A e \in Events : evStatus[e] # "NONE" => evStatus'[e] # "NONE"
  BY OutboxKept DEF CleanupsAreAsked
<1> QED
  BY <1>1, <1>2 DEF CleanupRequests

(* Where a dispatcher can come to a cleanup.                                *)
LEMMA CleanerChange ==
  ASSUME TypeOK, [ConsoleNext]_vars, NEW c \in Dispatchers, dPc'[c] \in {"delete", "mark"}
  PROVE  \/ dPc[c] \in {"delete", "mark"} /\ current'[c] = current[c]
         \/ \E e \in Events : BeginDispatch(c, e) /\ e.kind # "build"
<1> DEFINE Goal == \/ dPc[c] \in {"delete", "mark"} /\ current'[c] = current[c]
                   \/ \E e \in Events : BeginDispatch(c, e) /\ e.kind # "build"
<1> SUFFICES Goal
  OBVIOUS
<1>a. dPc \in [Dispatchers -> DispatchPc] /\ Outbox!OutboxTypeOK
  BY DEF TypeOK
<1>b. current \in [Dispatchers -> Events \cup {NoEvent}]
  BY <1>a DEF Outbox!OutboxTypeOK
<1>1. ASSUME UNCHANGED dPc, UNCHANGED current PROVE Goal
  BY <1>1
<1>2. ASSUME NEW e, Outbox!Enqueue(e), UNCHANGED dPc PROVE Goal
  BY <1>1, <1>2 DEF Outbox!Enqueue
<1>3. ASSUME NEW j \in Jobs, Console(j) \/ StallCheck(j) \/ Age(j) \/ Scan(j) PROVE Goal
  <2>1. UNCHANGED dPc /\ (UNCHANGED current \/ \E e : Outbox!Enqueue(e))
    BY <1>3 DEF Console, Upload, Rebuild, Retry, RequestBuild, CancelPending, CancelRunning,
                StallCheck, Age, Scan, ReconcilerFrame, WorkerFrame, outboxVars
  <2> QED
    BY <1>1, <1>2, <2>1
<1>4. ASSUME NEW t \in Tilesets,
             DeleteTileset(t) \/ \E v \in 1..Len(versions[t]) : Publish(t, v)
      PROVE  Goal
  BY <1>1, <1>4 DEF DeleteTileset, Publish, outboxVars
<1>5. ASSUME NEW d \in Dispatchers, NEW S, ClaimEvents(d, S) PROVE Goal
  BY <1>1, <1>5 DEF ClaimEvents, Outbox!ClaimDue
<1>6. ASSUME NEW d \in Dispatchers, NEW e \in Events, BeginDispatch(d, e) PROVE Goal
  <2>1. CASE c = d
    BY <1>6, <1>a, <2>1 DEF BeginDispatch, SetDPc
  <2>2. CASE c # d
    BY <1>6, <1>a, <1>b, <2>2 DEF BeginDispatch, SetDPc, Outbox!Begin
  <2> QED
    BY <2>1, <2>2
<1>7. ASSUME NEW d \in Dispatchers, NEW pc, pc \notin {"delete", "mark"}, SetDPc(d, pc),
             \A f \in Dispatchers : f # d => current'[f] = current[f]
      PROVE  Goal
  BY <1>7, <1>a DEF SetDPc
<1>8. ASSUME NEW d \in Dispatchers,
             \/ ReadJob(d) \/ InspectQueue(d) \/ AddToQueue(d) \/ ReplaceInQueue(d)
             \/ MarkDeleted(d) \/ CompletionAnswerLost(d)
      PROVE  Goal
  BY <1>7, <1>8 DEF ReadJob, InspectQueue, AddToQueue, ReplaceInQueue, MarkDeleted,
     CompletionAnswerLost, Outbox!CompleteUnanswered, outboxVars
<1>9. ASSUME NEW d \in Dispatchers, DeleteBytes(d) PROVE Goal
  BY <1>9, <1>a DEF DeleteBytes, SetDPc, outboxVars
<1>10. ASSUME NEW d \in Dispatchers, CompleteEvent(d) \/ DispatchThrows(d) \/ DispatcherCrash(d)
       PROVE  Goal
  <2>1. /\ SetDPc(d, "none")
        /\ \A f \in Dispatchers : f # d => current'[f] = current[f]
    BY <1>10, <1>b
    DEF CompleteEvent, DispatchThrows, FailEvent, DispatcherCrash, Outbox!Complete, Outbox!Fail,
        Outbox!Release, Outbox!Abandon
  <2> QED
    BY <1>7, <2>1
<1>11. ASSUME NEW w \in Workers,
              \/ WorkerStep(w) \/ RecordFails(w) \/ FinalizeFails(w) \/ CleanupAnswerLost(w)
              \/ WorkerThrows(w) \/ WorkerCrash(w) \/ \E j \in Jobs : Pick(w, j)
       PROVE  Goal
  <2>1. UNCHANGED dPc /\ (UNCHANGED current \/ \E e : Outbox!Enqueue(e))
    BY <1>11
    DEF WorkerStep, CheckStart, MarkStarted, SetProcessing, Work, UploadBytes, RecordArtifact,
        CheckStored, Finalize, FinalizeRefused, RequestCleanup, SetCanceled, MarkCanceled,
        SetError, MarkFailed, AckDone, AckFailed, Acknowledge, RecordFails, FinalizeFails,
        CleanupAnswerLost, WorkerThrows, WorkerCrash, Pick, MarkForCleanup, WorkerFrame,
        outboxVars
  <2> QED
    BY <1>1, <1>2, <2>1
<1>12. ASSUME CheckLiveness \/ LivenessUnknown \/ ReconcileFail PROVE Goal
  BY <1>1, <1>12 DEF CheckLiveness, LivenessUnknown, ReconcileFail, ReconcilerFrame, outboxVars
<1>13. CASE UNCHANGED vars
  BY <1>1, <1>13 DEF vars, outboxVars
<1> HIDE DEF Goal
<1> QED
  BY <1>3, <1>4, <1>5, <1>6, <1>8, <1>9, <1>10, <1>11, <1>12, <1>13
  DEF ConsoleNext, Failure, ReconcilerStep, DispatcherStep

(* Every step keeps it that a cleanup under way was asked for.              *)
LEMMA CleanupsStep ==
  ASSUME TypeOK, CleanupsAreAsked, [ConsoleNext]_vars
  PROVE  CleanupsAreAsked'
<1>0. [Next]_vars
  BY DEF Next
<1>1. /\ OutboxFacts!OutboxInv' /\ OutboxFacts!HeldAreInserted'
      /\ \A e \in Events : evStatus[e] # "NONE" => evStatus'[e] # "NONE"
  BY <1>0, OutboxKept DEF CleanupsAreAsked
<1>2. ASSUME NEW c \in Dispatchers, dPc'[c] \in {"delete", "mark"}
      PROVE  /\ current'[c] \in Events /\ current'[c].kind = "cleanup"
             /\ evStatus'[current'[c]] # "NONE"
  <2>1. CASE dPc[c] \in {"delete", "mark"} /\ current'[c] = current[c]
    BY <1>1, <2>1 DEF CleanupsAreAsked, CleanersFit
  <2>2. ASSUME NEW e \in Events, BeginDispatch(c, e), e.kind # "build"
        PROVE  /\ current'[c] \in Events /\ current'[c].kind = "cleanup"
               /\ evStatus'[current'[c]] # "NONE"
    <3>1. current'[c] = e /\ e \in Outbox!Batch(c)
      BY <2>2 DEF BeginDispatch, Outbox!Begin, TypeOK, Outbox!OutboxTypeOK
    <3>2. evStatus[e] # "NONE"
      BY <3>1 DEF Outbox!Batch, CleanupsAreAsked, OutboxFacts!HeldAreInserted
    <3>3. e.kind = "cleanup"
      BY <2>2 DEF Events
    <3> QED
      BY <1>1, <3>1, <3>2, <3>3
  <2> QED
    BY <1>2, <2>1, <2>2, CleanerChange
<1> QED
  BY <1>1, <1>2 DEF CleanupsAreAsked, CleanersFit

(* The ledger row of a build goes only where its cleanup is asked for.      *)
LEMMA ObjectsRemain ==
  ASSUME TypeOK, CleanupsAreAsked, [ConsoleNext]_vars, NEW j \in Jobs,
         CleanupRequests(j)' = {}
  PROVE  object'[j] \in {object[j], "live"}
<1> DEFINE Goal == object'[j] \in {object[j], "live"}
<1> SUFFICES Goal
  OBVIOUS
<1>a. object \in [Jobs -> {"none", "live", "deleted"}]
  BY DEF TypeOK, ArtifactsTypeOK
<1>0. [Next]_vars
  BY DEF Next
<1>b. \A n \in 1..MaxCleanups : evStatus[CleanupEvent(j, n)] = "NONE" /\ evStatus'[CleanupEvent(j, n)] = "NONE"
  BY <1>0, CleanupsRemain DEF CleanupRequests
<1>1. ASSUME UNCHANGED object PROVE Goal
  BY <1>1
<1>2. ASSUME NEW k \in Jobs, Console(k) \/ StallCheck(k) \/ Age(k) \/ Scan(k) PROVE Goal
  BY <1>1, <1>2
  DEF Console, Upload, Rebuild, Retry, RequestBuild, CancelPending, CancelRunning, StallCheck,
      Age, Scan, ReconcilerFrame, artifactVars
<1>3. ASSUME NEW t \in Tilesets,
             DeleteTileset(t) \/ \E v \in 1..Len(versions[t]) : Publish(t, v)
      PROVE  Goal
  BY <1>1, <1>3 DEF DeleteTileset, Publish, artifactVars
<1>4. ASSUME NEW d \in Dispatchers,
             \/ DispatcherStep(d) \/ DispatchThrows(d) \/ CompletionAnswerLost(d)
             \/ DispatcherCrash(d) \/ (\E S : ClaimEvents(d, S)),
             ~MarkDeleted(d)
      PROVE  Goal
  BY <1>1, <1>4
  DEF DispatcherStep, BeginDispatch, ReadJob, InspectQueue, AddToQueue, ReplaceInQueue,
      DeleteBytes, CompleteEvent, CompletionAnswerLost, DispatchThrows, FailEvent,
      DispatcherCrash, ClaimEvents, artifactVars
<1>5. ASSUME NEW d \in Dispatchers, MarkDeleted(d) PROVE Goal
  <2>1. EventJob(d) # j
    <3>1. current[d] \in Events /\ current[d].kind = "cleanup" /\ evStatus[current[d]] # "NONE"
      BY <1>5 DEF MarkDeleted, CleanupsAreAsked, CleanersFit
    <3>2. ASSUME current[d].job = j PROVE FALSE
      <4>1. PICK n \in 1..MaxCleanups : current[d] = CleanupEvent(j, n)
        BY <3>1, <3>2 DEF Events, CleanupEvent
      <4> QED
        BY <1>b, <3>1, <4>1
    <3> QED
      BY <3>2 DEF EventJob
  <2> QED
    BY <1>5, <1>a, <2>1 DEF MarkDeleted
<1>6. ASSUME NEW w \in Workers,
             \/ WorkerStep(w) \/ RecordFails(w) \/ FinalizeFails(w) \/ CleanupAnswerLost(w)
             \/ WorkerThrows(w) \/ WorkerCrash(w) \/ \E k \in Jobs : Pick(w, k),
             ~RequestCleanup(w), ~CleanupAnswerLost(w)
      PROVE  Goal
  <2>1. \/ UNCHANGED object
        \/ object' \in {object, [object EXCEPT ![wJob[w]] = "live"]}
    BY <1>6
    DEF WorkerStep, CheckStart, MarkStarted, SetProcessing, Work, UploadBytes, RecordArtifact,
        CheckStored, Finalize, FinalizeRefused, SetCanceled, MarkCanceled, SetError, MarkFailed,
        AckDone, AckFailed, Acknowledge, RecordFails, FinalizeFails, WorkerThrows, WorkerCrash,
        Pick, artifactVars
  <2> QED
    BY <1>a, <2>1
<1>7. ASSUME NEW w \in Workers, RequestCleanup(w) \/ CleanupAnswerLost(w) PROVE Goal
  <2>1. wJob[w] \in Jobs
    BY <1>7 DEF RequestCleanup, CleanupAnswerLost, TypeOK, WorkersTypeOK
  <2> DEFINE n == Cardinality(CleanupRequests(wJob[w])) + 1
  <2>2. n \in 1..MaxCleanups
    BY <1>7, <2>1, CleanupCount, PipelineAssumption
    DEF RequestCleanup, CleanupAnswerLost, MarkForCleanup
  <2>3. Outbox!Enqueue(CleanupEvent(wJob[w], n)) /\ object' = [object EXCEPT ![wJob[w]] = "deleted"]
    BY <1>7 DEF RequestCleanup, CleanupAnswerLost, MarkForCleanup
  <2> HIDE DEF n
  <2>4. evStatus'[CleanupEvent(wJob[w], n)] # "NONE"
    BY <2>1, <2>2, <2>3, CleanupEventInEvents DEF Outbox!Enqueue, TypeOK, Outbox!OutboxTypeOK
  <2>5. wJob[w] # j
    BY <1>b, <2>2, <2>4
  <2> QED
    BY <1>a, <2>3, <2>5
<1>8. ASSUME CheckLiveness \/ LivenessUnknown \/ ReconcileFail PROVE Goal
  BY <1>1, <1>8 DEF CheckLiveness, LivenessUnknown, ReconcileFail, ReconcilerFrame, artifactVars
<1>9. CASE UNCHANGED vars
  BY <1>1, <1>9 DEF vars, artifactVars
<1> HIDE DEF Goal
<1> QED
  BY <1>2, <1>3, <1>4, <1>5, <1>6, <1>7, <1>8, <1>9 DEF ConsoleNext, Failure, ReconcilerStep

(* The key of a build goes only where its cleanup is asked for, or where a  *)
(* run of the build could not record what it uploaded.                      *)
LEMMA BytesRemain ==
  ASSUME TypeOK, CleanupsAreAsked, [ConsoleNext]_vars, NEW j \in Jobs,
         CleanupRequests(j)' = {}
  PROVE  \/ bytes'[j] \in {bytes[j], TRUE}
         \/ \E w \in Workers : RecordFails(w) /\ wJob[w] = j
<1> DEFINE Goal == \/ bytes'[j] \in {bytes[j], TRUE}
                   \/ \E w \in Workers : RecordFails(w) /\ wJob[w] = j
<1> SUFFICES Goal
  OBVIOUS
<1>a. bytes \in [Jobs -> BOOLEAN]
  BY DEF TypeOK, ArtifactsTypeOK
<1>0. [Next]_vars
  BY DEF Next
<1>b. \A n \in 1..MaxCleanups : evStatus[CleanupEvent(j, n)] = "NONE"
  BY <1>0, CleanupsRemain DEF CleanupRequests
<1>1. ASSUME UNCHANGED bytes PROVE Goal
  BY <1>1
<1>2. ASSUME NEW k \in Jobs, Console(k) \/ StallCheck(k) \/ Age(k) \/ Scan(k) PROVE Goal
  BY <1>1, <1>2
  DEF Console, Upload, Rebuild, Retry, RequestBuild, CancelPending, CancelRunning, StallCheck,
      Age, Scan, ReconcilerFrame, artifactVars
<1>3. ASSUME NEW t \in Tilesets,
             DeleteTileset(t) \/ \E v \in 1..Len(versions[t]) : Publish(t, v)
      PROVE  Goal
  BY <1>1, <1>3 DEF DeleteTileset, Publish, artifactVars
<1>4. ASSUME NEW d \in Dispatchers,
             \/ DispatcherStep(d) \/ DispatchThrows(d) \/ CompletionAnswerLost(d)
             \/ DispatcherCrash(d) \/ (\E S : ClaimEvents(d, S)),
             ~DeleteBytes(d)
      PROVE  Goal
  BY <1>1, <1>4
  DEF DispatcherStep, BeginDispatch, ReadJob, InspectQueue, AddToQueue, ReplaceInQueue,
      MarkDeleted, CompleteEvent, CompletionAnswerLost, DispatchThrows, FailEvent,
      DispatcherCrash, ClaimEvents, artifactVars
<1>5. ASSUME NEW d \in Dispatchers, DeleteBytes(d) PROVE Goal
  <2>1. EventJob(d) # j
    <3>1. current[d] \in Events /\ current[d].kind = "cleanup" /\ evStatus[current[d]] # "NONE"
      BY <1>5 DEF DeleteBytes, CleanupsAreAsked, CleanersFit
    <3>2. ASSUME current[d].job = j PROVE FALSE
      <4>1. PICK n \in 1..MaxCleanups : current[d] = CleanupEvent(j, n)
        BY <3>1, <3>2 DEF Events, CleanupEvent
      <4> QED
        BY <1>b, <3>1, <4>1
    <3> QED
      BY <3>2 DEF EventJob
  <2>2. bytes'[j] = bytes[j]
    BY <1>5, <1>a, <2>1 DEF DeleteBytes
  <2> QED
    BY <2>2
<1>6. ASSUME NEW w \in Workers,
             \/ WorkerStep(w) \/ FinalizeFails(w) \/ CleanupAnswerLost(w)
             \/ WorkerThrows(w) \/ WorkerCrash(w) \/ \E k \in Jobs : Pick(w, k),
             ~UploadBytes(w)
      PROVE  Goal
  BY <1>1, <1>6
  DEF WorkerStep, CheckStart, MarkStarted, SetProcessing, Work, RecordArtifact,
      CheckStored, Finalize, FinalizeRefused, RequestCleanup, SetCanceled, MarkCanceled, SetError,
      MarkFailed, AckDone, AckFailed, Acknowledge, FinalizeFails, CleanupAnswerLost, WorkerThrows,
      WorkerCrash, Pick, artifactVars
<1>7. ASSUME NEW w \in Workers, UploadBytes(w) PROVE Goal
  BY <1>7, <1>a DEF UploadBytes
<1>8. ASSUME NEW w \in Workers, RecordFails(w) PROVE Goal
  <2>1. CASE wJob[w] = j
    BY <1>8, <2>1
  <2>2. CASE wJob[w] # j
    <3>1. bytes'[j] = bytes[j]
      BY <1>8, <1>a, <2>2 DEF RecordFails
    <3> QED
      BY <3>1
  <2> QED
    BY <2>1, <2>2
<1>9. ASSUME CheckLiveness \/ LivenessUnknown \/ ReconcileFail PROVE Goal
  BY <1>1, <1>9 DEF CheckLiveness, LivenessUnknown, ReconcileFail, ReconcilerFrame, artifactVars
<1>10. CASE UNCHANGED vars
  BY <1>1, <1>10 DEF vars, artifactVars
<1> HIDE DEF Goal
<1> QED
  BY <1>2, <1>3, <1>4, <1>5, <1>6, <1>7, <1>8, <1>9, <1>10 DEF ConsoleNext, Failure, ReconcilerStep

(* How a run comes where it may still finalize.                             *)
LEMMA RunChange ==
  ASSUME TypeOK, [ConsoleNext]_vars, NEW w \in Workers, wPc'[w] \in Building
  PROVE  /\ wJob'[w] = wJob[w] /\ wPc[w] # "idle"
         /\ \/ wPc'[w] = wPc[w]
            \/ wPc[w] = "check" /\ Continuing(wJob[w]) /\ UNCHANGED jobStatus /\ wPc'[w] = "start"
            \/ wPc[w] \in Building /\ wPc'[w] \in {"start", "setBuilding", "work", "upload"}
            \/ UploadBytes(w) \/ RecordArtifact(w)
            \/ CheckStored(w) /\ wPc'[w] = "finalize"
<1> DEFINE Goal ==
      /\ wJob'[w] = wJob[w] /\ wPc[w] # "idle"
      /\ \/ wPc'[w] = wPc[w]
         \/ wPc[w] = "check" /\ Continuing(wJob[w]) /\ UNCHANGED jobStatus /\ wPc'[w] = "start"
         \/ wPc[w] \in Building /\ wPc'[w] \in {"start", "setBuilding", "work", "upload"}
         \/ UploadBytes(w) \/ RecordArtifact(w)
         \/ CheckStored(w) /\ wPc'[w] = "finalize"
<1> SUFFICES Goal
  OBVIOUS
<1>a. wPc \in [Workers -> WorkerPc] /\ wJob \in [Workers -> Jobs \cup {NoJob}]
  BY DEF TypeOK, WorkersTypeOK
<1>1. ASSUME UNCHANGED workerVars PROVE Goal
  BY <1>1 DEF workerVars, Building
<1>2. ASSUME wPc'[w] = wPc[w], wJob'[w] = wJob[w] PROVE Goal
  BY <1>2 DEF Building
<1>3. ASSUME NEW j \in Jobs, StallCheck(j) PROVE Goal
  BY <1>1, <1>3 DEF StallCheck
<1>4. ASSUME NEW d \in Dispatchers, AddToQueue(d) \/ ReplaceInQueue(d) PROVE Goal
  BY <1>1, <1>4 DEF AddToQueue, ReplaceInQueue, DispatchFrame
<1>5. ASSUME NEW v \in Workers, NEW j \in Jobs, Pick(v, j) PROVE Goal
  <2>1. v # w
    BY <1>5, <1>a DEF Pick, Building
  <2>2. wPc'[w] = wPc[w] /\ wJob'[w] = wJob[w]
    BY <1>5, <1>a, <2>1 DEF Pick
  <2> QED
    BY <1>2, <2>2
<1>6. ASSUME NEW v \in Workers,
             \/ WorkerStep(v) \/ RecordFails(v) \/ FinalizeFails(v) \/ CleanupAnswerLost(v)
             \/ WorkerThrows(v) \/ WorkerCrash(v)
      PROVE  Goal
  <2>1. v # w => wPc'[w] = wPc[w] /\ wJob'[w] = wJob[w]
    BY <1>6, <1>a
    DEF WorkerStep, CheckStart, MarkStarted, SetProcessing, Work, UploadBytes, RecordArtifact,
        CheckStored, Finalize, FinalizeRefused, RequestCleanup, SetCanceled, MarkCanceled,
        SetError, MarkFailed, AckDone, AckFailed, Acknowledge, RecordFails, FinalizeFails,
        CleanupAnswerLost, WorkerThrows, WorkerCrash, Goto
  <2>2. CASE v # w
    BY <1>2, <2>1, <2>2
  <2>3. CASE v = w /\ CheckStart(v)
    BY <2>3, <1>a DEF CheckStart, Goto, Building, jobVars
  <2>4. CASE v = w /\ (MarkStarted(v) \/ SetProcessing(v) \/ Work(v))
    BY <2>4, <1>a DEF MarkStarted, SetProcessing, Work, Goto, Building
  <2>5. CASE v = w /\ (UploadBytes(v) \/ RecordArtifact(v) \/ CheckStored(v))
    BY <2>5, <1>a DEF UploadBytes, RecordArtifact, CheckStored, Goto, Building
  <2>6. CASE /\ v = w
             /\ \/ Finalize(v) \/ FinalizeRefused(v) \/ RequestCleanup(v) \/ SetCanceled(v)
                \/ MarkCanceled(v) \/ SetError(v) \/ MarkFailed(v) \/ AckDone(v) \/ AckFailed(v)
                \/ RecordFails(v) \/ FinalizeFails(v) \/ CleanupAnswerLost(v)
                \/ WorkerThrows(v) \/ WorkerCrash(v)
    <3>1. wPc'[w] \notin Building
      BY <2>6, <1>a
      DEF Finalize, FinalizeRefused, RequestCleanup, SetCanceled, MarkCanceled, SetError,
          MarkFailed, AckDone, AckFailed, Acknowledge, RecordFails, FinalizeFails,
          CleanupAnswerLost, WorkerThrows, WorkerCrash, Goto, Building
    <3> QED
      BY <3>1
  <2> HIDE DEF Goal
  <2> QED
    BY <1>6, <2>2, <2>3, <2>4, <2>5, <2>6 DEF WorkerStep
<1> HIDE DEF Goal
<1> QED
  BY <1>1, <1>3, <1>4, <1>5, <1>6, OutsideRuns

(* A build succeeds only by a run that finalizes it, and that is past it.   *)
LEMMA SuccessChange ==
  ASSUME TypeOK, [ConsoleNext]_vars, NEW j \in Jobs,
         jobStatus[j] # "SUCCEEDED", jobStatus'[j] = "SUCCEEDED"
  PROVE  \E w \in Workers :
           /\ wPc[w] = "finalize" /\ wJob[w] = j /\ wPc'[w] \notin Building
           /\ UNCHANGED artifactVars
<1> DEFINE Goal ==
      \E w \in Workers :
        /\ wPc[w] = "finalize" /\ wJob[w] = j /\ wPc'[w] \notin Building
        /\ UNCHANGED artifactVars
<1> SUFFICES Goal
  OBVIOUS
<1>a. /\ jobStatus \in [Jobs -> JobStatus] /\ wPc \in [Workers -> WorkerPc]
      /\ \A w \in Workers : wPc[w] # "idle" => wJob[w] \in Jobs
  BY DEF TypeOK, JobsTypeOK, WorkersTypeOK
<1>1. ASSUME UNCHANGED jobStatus PROVE Goal
  BY <1>1
<1>2. ASSUME NEW k, NEW s, s # "SUCCEEDED", jobStatus' = [jobStatus EXCEPT ![k] = s]
      PROVE  Goal
  BY <1>2, <1>a
<1>3. ASSUME NEW w \in Workers, Finalize(w) \/ FinalizeFails(w), ~UNCHANGED jobStatus PROVE Goal
  <2>1. /\ wPc[w] = "finalize" /\ UNCHANGED artifactVars /\ wPc'[w] \in {"ackDone", "cleanupError"}
        /\ jobStatus' = [jobStatus EXCEPT ![wJob[w]] = "SUCCEEDED"]
    BY <1>3, <1>a DEF Finalize, FinalizeFails, CommitVersion, SetJob, Goto, jobVars
  <2>2. wJob[w] = j
    BY <1>a, <2>1
  <2> QED
    BY <2>1, <2>2 DEF Building
<1>4. ASSUME NEW k \in Jobs, Console(k) \/ StallCheck(k) \/ Age(k) \/ Scan(k) PROVE Goal
  <2>1. UNCHANGED jobStatus \/ \E s \in {"PENDING", "CANCELED"} :
                                 jobStatus' = [jobStatus EXCEPT ![k] = s]
    BY <1>4
    DEF Console, Upload, Rebuild, Retry, RequestBuild, CancelPending, CancelRunning, StallCheck,
        Age, Scan, jobVars
  <2> QED
    BY <1>1, <1>2, <2>1
<1>5. ASSUME NEW t \in Tilesets,
             DeleteTileset(t) \/ \E v \in 1..Len(versions[t]) : Publish(t, v)
      PROVE  Goal
  BY <1>1, <1>5 DEF DeleteTileset, Publish, jobVars
<1>6. ASSUME NEW d \in Dispatchers,
             \/ DispatcherStep(d) \/ DispatchThrows(d) \/ CompletionAnswerLost(d)
             \/ DispatcherCrash(d) \/ (\E S : ClaimEvents(d, S))
      PROVE  Goal
  BY <1>1, <1>6
  DEF DispatcherStep, BeginDispatch, ReadJob, InspectQueue, AddToQueue, ReplaceInQueue,
      DeleteBytes, MarkDeleted, CompleteEvent, CompletionAnswerLost, DispatchThrows, FailEvent,
      DispatcherCrash, ClaimEvents, DispatchFrame, jobVars
<1>7. ASSUME NEW w \in Workers,
             \/ WorkerStep(w) \/ RecordFails(w) \/ CleanupAnswerLost(w)
             \/ WorkerThrows(w) \/ WorkerCrash(w) \/ \E k \in Jobs : Pick(w, k),
             ~Finalize(w)
      PROVE  Goal
  <2>1. UNCHANGED jobStatus \/ \E s \in {"PROCESSING", "CANCELED", "FAILED"} :
                                 jobStatus' = [jobStatus EXCEPT ![wJob[w]] = s]
    BY <1>7
    DEF WorkerStep, CheckStart, MarkStarted, SetProcessing, Work, UploadBytes, RecordArtifact,
        CheckStored, FinalizeRefused, RequestCleanup, SetCanceled, MarkCanceled,
        SetError, MarkFailed, AckDone, AckFailed, Acknowledge, RecordFails,
        CleanupAnswerLost, WorkerThrows, WorkerCrash, Pick, SetJob, Progress, jobVars
  <2> QED
    BY <1>1, <1>2, <2>1
<1>8. ASSUME CheckLiveness \/ LivenessUnknown \/ ReconcileFail PROVE Goal
  <2>1. UNCHANGED jobStatus \/ jobStatus' = [jobStatus EXCEPT ![rJob] = "FAILED"]
    BY <1>8 DEF CheckLiveness, LivenessUnknown, ReconcileFail, SetJob, jobVars
  <2> QED
    BY <1>1, <1>2, <2>1
<1>9. CASE UNCHANGED vars
  BY <1>1, <1>9 DEF vars, jobVars
<1> HIDE DEF Goal
<1> QED
  BY <1>1, <1>3, <1>4, <1>5, <1>6, <1>7, <1>8, <1>9 DEF ConsoleNext, Failure, ReconcilerStep

(* What a run has stored stays while it goes on: nobody else runs its build. *)
LEMMA RunsStoreStep ==
  ASSUME TypeOK, RunsApart, CleanupsAreAsked, RunsStore, [ConsoleNext]_vars
  PROVE  RunsStore'
<1> SUFFICES ASSUME NEW w \in Workers, NEW j \in Jobs, wJob'[w] = j, wPc'[w] \in Building
             PROVE  RunStores(w, j)'
  BY DEF RunsStore, RunStores, Building
<1>0. [Next]_vars
  BY DEF Next
<1>a. /\ object \in [Jobs -> {"none", "live", "deleted"}] /\ bytes \in [Jobs -> BOOLEAN]
      /\ wPc \in [Workers -> WorkerPc]
  BY DEF TypeOK, ArtifactsTypeOK, WorkersTypeOK
<1>1. /\ wJob[w] = j /\ wPc[w] # "idle"
      /\ \/ wPc'[w] = wPc[w]
         \/ wPc[w] = "check" /\ Continuing(j) /\ UNCHANGED jobStatus /\ wPc'[w] = "start"
         \/ wPc[w] \in Building /\ wPc'[w] \in {"start", "setBuilding", "work", "upload"}
         \/ UploadBytes(w) \/ RecordArtifact(w)
         \/ CheckStored(w) /\ wPc'[w] = "finalize"
  BY RunChange
<1>2. RunStores(w, j)
  BY <1>1 DEF RunsStore
<1>3. \A v \in Workers : wPc[v] # "idle" /\ wJob[v] = j => v = w
  BY <1>1 DEF RunsApart, OneRunPerBuild
<1>4. jobStatus'[j] # "SUCCEEDED"
  <2>1. jobStatus[j] # "SUCCEEDED"
    BY <1>1, <1>2 DEF RunStores, Continuing, ActiveJob, UploadBytes, RecordArtifact,
                      CheckStored, Building
  <2>2. ASSUME jobStatus'[j] = "SUCCEEDED" PROVE FALSE
    BY <1>3, <2>1, <2>2, SuccessChange
  <2> QED
    BY <2>2
<1>5. ASSUME CleanupRequests(j)' = {}
      PROVE  /\ wPc'[w] = "ledger" => bytes'[j]
             /\ wPc'[w] \in {"checkStored", "finalize"} => bytes'[j] /\ object'[j] = "live"
  <2>1. CleanupRequests(j) = {}
    BY <1>0, <1>5, CleanupsRemain
  <2>2. /\ wPc[w] = "ledger" => bytes[j]
        /\ wPc[w] \in {"checkStored", "finalize"} => bytes[j] /\ object[j] = "live"
    BY <1>2, <2>1 DEF RunStores
  <2>3. object[j] = "live" => object'[j] = "live"
    BY <1>5, ObjectsRemain
  <2>4. bytes[j] => bytes'[j]
    <3>1. ASSUME NEW v \in Workers, RecordFails(v), wJob[v] = j PROVE FALSE
      <4>1. v = w
        BY <1>3, <3>1 DEF RecordFails
      <4> QED
        BY <1>a, <3>1, <4>1 DEF RecordFails, Goto, Building
    <3> QED
      BY <1>5, <3>1, BytesRemain
  <2>5. UploadBytes(w) => wPc'[w] = "ledger" /\ bytes'[j]
    BY <1>1, <1>a DEF UploadBytes, Goto
  <2>6. RecordArtifact(w) => wPc[w] = "ledger" /\ wPc'[w] = "checkStored" /\ object'[j] = "live"
    BY <1>1, <1>a DEF RecordArtifact, Goto
  <2>7. CheckStored(w) => wPc[w] = "checkStored"
    BY DEF CheckStored
  <2> QED
    BY <1>1, <2>2, <2>3, <2>4, <2>5, <2>6, <2>7
<1> QED
  BY <1>4, <1>5 DEF RunStores

(* A version is made of what its run has stored, and nothing takes it away. *)
LEMMA ServedStep ==
  ASSUME TypeOK, CleanupsAreAsked, RunsStore, VersionArtifactServed, [ConsoleNext]_vars
  PROVE  VersionArtifactServed'
<1> SUFFICES ASSUME NEW j \in Jobs, jobStatus'[j] = "SUCCEEDED", CleanupRequests(j)' = {}
             PROVE  object'[j] = "live" /\ bytes'[j]
  BY DEF VersionArtifactServed
<1>0. [Next]_vars
  BY DEF Next
<1>1. CleanupRequests(j) = {}
  BY <1>0, CleanupsRemain
<1>2. CASE jobStatus[j] = "SUCCEEDED"
  <2>1. object[j] = "live" /\ bytes[j]
    BY <1>1, <1>2 DEF VersionArtifactServed
  <2>2. object'[j] = "live"
    BY <2>1, ObjectsRemain
  <2>3. ASSUME NEW w \in Workers, RecordFails(w), wJob[w] = j PROVE FALSE
    BY <1>2, <2>3 DEF RecordFails, RunsStore, RunStores, Building
  <2> QED
    BY <2>1, <2>2, <2>3, BytesRemain
<1>3. CASE jobStatus[j] # "SUCCEEDED"
  <2>1. PICK w \in Workers :
          wPc[w] = "finalize" /\ wJob[w] = j /\ UNCHANGED artifactVars
    BY <1>3, SuccessChange
  <2>2. object[j] = "live" /\ bytes[j]
    BY <1>1, <2>1 DEF RunsStore, RunStores
  <2> QED
    BY <2>1, <2>2 DEF artifactVars
<1> QED
  BY <1>2, <1>3

(* An empty deployment has nothing to serve.                                *)
LEMMA ServedInit == Init => ServedInv
<1> SUFFICES ASSUME Init PROVE ServedInv
  OBVIOUS
<1>1. OutboxFacts!OutboxInit
  BY DEF Init, Outbox!OutboxInit, OutboxFacts!OutboxInit
<1>2. OutboxFacts!OutboxAssumption
  BY EventsAssumption DEF Outbox!OutboxAssumption, OutboxFacts!OutboxAssumption
<1>3. OutboxFacts!OutboxInv
  BY <1>1, <1>2, OutboxFacts!OutboxInvInit
<1>4. OutboxFacts!HeldAreInserted
  BY <1>1 DEF OutboxFacts!OutboxInit, OutboxFacts!HeldAreInserted
<1>5. RunsApart /\ CleanersFit /\ RunsStore /\ VersionArtifactServed
  BY DEF Init, RunsApart, RunsHoldLocks, OneRunPerBuild, CleanersFit, RunsStore, RunStores,
         Building, VersionArtifactServed
<1> QED
  BY <1>3, <1>4, <1>5 DEF ServedInv, CleanupsAreAsked

(* Whatever crashes, stalls, queue retries and retries of the user make of  *)
(* processSourceJob and of the dispatcher, the artifact of a version is in  *)
(* the ledger and in storage unless a run of its build asked for its        *)
(* cleanup, as long as no run outlives its lock.                            *)
THEOREM ArtifactsServed == ConsoleSpec => []VersionArtifactServed
<1>1. ServedInv => VersionArtifactServed
  BY DEF ServedInv
<1>2. TypeOK /\ ServedInv /\ [ConsoleNext]_vars => ServedInv'
  BY RunsApartStep, CleanupsStep, RunsStoreStep, ServedStep DEF ServedInv
<1> QED
  BY <1>1, <1>2, ServedInit, ConsoleIsSpec, TypeCorrect, PTL DEF ConsoleSpec
=============================================================================
