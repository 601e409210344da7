--------------------------- MODULE BuildTypeProofs ---------------------------
(***************************************************************************)
(* The type invariant of BuildPipeline, and its use of EventOutbox: for    *)
(* any builds, tilesets, worker slots and dispatchers, and whatever the    *)
(* bounds of the model.                                                    *)
(***************************************************************************)
EXTENDS BuildPipeline, FiniteSetTheorems, TLAPS

OutboxFacts == INSTANCE EventOutboxProofs

(* The event of a build is one of the outbox's events.                      *)
LEMMA BuildEventInEvents ==
  ASSUME NEW j \in Jobs, NEW n \in 0..MaxRetries
  PROVE  BuildEvent(j, n) \in Events
  BY DEF BuildEvent, Events

(* So is the event of a cleanup.                                            *)
LEMMA CleanupEventInEvents ==
  ASSUME NEW j \in Jobs, NEW n \in 1..MaxCleanups
  PROVE  CleanupEvent(j, n) \in Events
  BY DEF CleanupEvent, Events

(* The cleanups requested for a build can be counted.                       *)
LEMMA CleanupCount ==
  ASSUME NEW j \in Jobs
  PROVE  Cardinality(CleanupRequests(j)) \in Nat
<1>1. MaxCleanups \in Int /\ 1 \in Int
  BY PipelineAssumption
<1>2. IsFiniteSet(1..MaxCleanups)
  BY <1>1, FS_Interval
<1>3. CleanupRequests(j) \in SUBSET (1..MaxCleanups)
  BY DEF CleanupRequests
<1> QED
  BY <1>2, <1>3, FS_Subset, FS_CardinalityType

(* What the pipeline does to the outbox, an EventOutbox can do.            *)
LEMMA OutboxStep ==
  ASSUME TypeOK, [Next]_vars
  PROVE  [Outbox!OutboxNext]_outboxVars
<1>1. ASSUME NEW e \in Events, Outbox!Enqueue(e) PROVE Outbox!OutboxNext
  BY <1>1 DEF Outbox!OutboxNext, Outbox!DispatcherNext
<1>2. ASSUME NEW j \in Jobs, NEW n \in 0..MaxRetries, RequestBuild(j, n)
      PROVE Outbox!OutboxNext
  BY <1>1, <1>2, BuildEventInEvents DEF RequestBuild
<1>3. ASSUME NEW j \in Jobs, Retryable(j) PROVE retryCount[j] + 1 \in 0..MaxRetries
  BY <1>3, PipelineAssumption DEF Retryable, TypeOK, JobsTypeOK
<1>4. ASSUME NEW j \in Jobs, Console(j) \/ StallCheck(j) \/ Age(j)
      PROVE  [Outbox!OutboxNext]_outboxVars
  <2>1. 0 \in 0..MaxRetries
    BY PipelineAssumption
  <2> QED
    BY <1>2, <1>3, <1>4, <2>1
    DEF Console, Upload, Rebuild, Retry, CancelPending, CancelRunning, StallCheck, Age,
        ReconcilerFrame
<1>5. ASSUME NEW t \in Tilesets, DeleteTileset(t) \/ \E v \in 1..Len(versions[t]) : Publish(t, v)
      PROVE  UNCHANGED outboxVars
  BY <1>5 DEF DeleteTileset, Publish
<1>6. ASSUME NEW d \in Dispatchers, NEW S \in SUBSET Outbox!Due, ClaimEvents(d, S)
      PROVE  Outbox!OutboxNext
  BY <1>6 DEF ClaimEvents, Outbox!OutboxNext, Outbox!DispatcherNext
<1>7. ASSUME NEW d \in Dispatchers,
             DispatchThrows(d) \/ CompletionAnswerLost(d) \/ DispatcherCrash(d)
      PROVE  Outbox!OutboxNext
  BY <1>7 DEF DispatchThrows, FailEvent, CompletionAnswerLost, DispatcherCrash,
     Outbox!OutboxNext, Outbox!DispatcherNext
<1>8. ASSUME NEW d \in Dispatchers, DispatcherStep(d)
      PROVE  [Outbox!OutboxNext]_outboxVars
  <2>1. ASSUME NEW e \in Events, BeginDispatch(d, e) PROVE Outbox!OutboxNext
    BY <2>1 DEF BeginDispatch, Outbox!OutboxNext, Outbox!DispatcherNext
  <2>2. CompleteEvent(d) => Outbox!OutboxNext
    BY DEF CompleteEvent, Outbox!OutboxNext, Outbox!DispatcherNext
  <2>3. ReadJob(d) \/ InspectQueue(d) \/ AddToQueue(d) \/ ReplaceInQueue(d)
          \/ DeleteBytes(d) \/ MarkDeleted(d) => UNCHANGED outboxVars
    BY DEF ReadJob, InspectQueue, AddToQueue, ReplaceInQueue, DeleteBytes, MarkDeleted
  <2> QED
    BY <1>7, <1>8, <2>1, <2>2, <2>3 DEF DispatcherStep
<1>9. ASSUME NEW w \in Workers, RequestCleanup(w) \/ CleanupAnswerLost(w)
      PROVE  Outbox!OutboxNext
  <2>1. wJob[w] \in Jobs
    BY <1>9 DEF RequestCleanup, CleanupAnswerLost, TypeOK, WorkersTypeOK
  <2> DEFINE n == Cardinality(CleanupRequests(wJob[w])) + 1
  <2>2. n \in 1..MaxCleanups
    BY <1>9, <2>1, CleanupCount, PipelineAssumption
    DEF RequestCleanup, CleanupAnswerLost, MarkForCleanup
  <2>3. Outbox!Enqueue(CleanupEvent(wJob[w], n))
    BY <1>9 DEF RequestCleanup, CleanupAnswerLost, MarkForCleanup
  <2> HIDE DEF n
  <2> QED
    BY <1>1, <2>1, <2>2, <2>3, CleanupEventInEvents
<1>10. ASSUME NEW w \in Workers,
              WorkerStep(w) \/ RecordFails(w) \/ FinalizeFails(w) \/ CleanupAnswerLost(w)
                \/ WorkerThrows(w) \/ WorkerCrash(w) \/ LoseLock(w) \/ \E j \in Jobs : Pick(w, j)
       PROVE  [Outbox!OutboxNext]_outboxVars
  BY <1>9, <1>10
  DEF WorkerStep, RecordFails, FinalizeFails, WorkerThrows, WorkerCrash, LoseLock, Pick,
      CheckStart, MarkStarted, SetProcessing, Work, UploadBytes, RecordArtifact,
      CheckStored, Finalize, FinalizeRefused, SetCanceled, MarkCanceled, SetError,
      MarkFailed, AckDone, AckFailed, Acknowledge
<1>11. ReconcilerStep \/ LivenessUnknown => UNCHANGED outboxVars
  BY DEF ReconcilerStep, Scan, CheckLiveness, ReconcileFail, LivenessUnknown,
     ReconcilerFrame
<1>12. ASSUME NEW j \in Jobs, AdminRetry(j) \/ AdminCancelPending(j)
       PROVE  [Outbox!OutboxNext]_outboxVars
  BY <1>2, <1>3, <1>12 DEF AdminRetry, AdminCancelPending
<1>13. ASSUME NEW e \in Events, RedriveEvent(e) \/ ArchiveEvent(e)
       PROVE  Outbox!OutboxNext
  BY <1>13 DEF RedriveEvent, ArchiveEvent, Outbox!OutboxNext
<1>14. UNCHANGED vars => UNCHANGED outboxVars
  BY DEF vars
<1>15. ConsoleNext => [Outbox!OutboxNext]_outboxVars
  BY <1>4, <1>5, <1>6, <1>7, <1>8, <1>10, <1>11 DEF ConsoleNext, Failure
<1> QED
  BY <1>10, <1>12, <1>13, <1>14, <1>15 DEF Next

-----------------------------------------------------------------------------
(* An empty deployment is well typed.                                       *)
LEMMA TypeInit == Init => TypeOK
<1> SUFFICES ASSUME Init PROVE TypeOK
  OBVIOUS
<1>1. Outbox!OutboxTypeOK
  BY EventsAssumption
  DEF Init, Outbox!OutboxInit, Outbox!OutboxTypeOK, Outbox!EventStatus,
      Outbox!OutboxAssumption
<1>2. [t \in Tilesets |-> <<>>] \in [Tilesets -> Seq(Jobs)]
  OBVIOUS
<1> QED
  BY <1>1, <1>2, PipelineAssumption
  DEF Init, TypeOK, JobsTypeOK, TilesetsTypeOK, ArtifactsTypeOK, QueueTypeOK,
      WorkersTypeOK, ReconcilerTypeOK, JobStatus, TilesetStatus, QueueState, DispatchPc,
      WorkerPc

(* OutboxFacts speaks of the same outbox under another name. *)
LEMMA SameOutbox ==
  /\ OutboxFacts!outboxVars = outboxVars
  /\ OutboxFacts!OutboxTypeOK <=> Outbox!OutboxTypeOK
  /\ OutboxFacts!OutboxTypeOK' <=> Outbox!OutboxTypeOK'
  /\ OutboxFacts!OutboxNext <=> Outbox!OutboxNext
<1>1. OutboxFacts!outboxVars = outboxVars
  BY DEF OutboxFacts!outboxVars, outboxVars
<1>2. OutboxFacts!OutboxTypeOK <=> Outbox!OutboxTypeOK
  BY DEF OutboxFacts!OutboxTypeOK, Outbox!OutboxTypeOK, OutboxFacts!EventStatus, Outbox!EventStatus
<1>3. OutboxFacts!OutboxTypeOK' <=> Outbox!OutboxTypeOK'
  BY DEF OutboxFacts!OutboxTypeOK, Outbox!OutboxTypeOK, OutboxFacts!EventStatus, Outbox!EventStatus
<1>4. OutboxFacts!Due = Outbox!Due
  BY DEF OutboxFacts!Due, Outbox!Due
<1>5. \A e \in Events :
        /\ OutboxFacts!Enqueue(e) <=> Outbox!Enqueue(e)
        /\ OutboxFacts!Redrive(e) <=> Outbox!Redrive(e)
        /\ OutboxFacts!Archive(e) <=> Outbox!Archive(e)
  BY DEF OutboxFacts!Enqueue, Outbox!Enqueue, OutboxFacts!Redrive, Outbox!Redrive,
     OutboxFacts!Archive, Outbox!Archive
<1>6. ASSUME NEW d \in Dispatchers
      PROVE  /\ \A S : OutboxFacts!ClaimDue(d, S) <=> Outbox!ClaimDue(d, S)
             /\ \A e : OutboxFacts!Begin(d, e) <=> Outbox!Begin(d, e)
  <2>1. OutboxFacts!Batch(d) = Outbox!Batch(d)
    BY DEF OutboxFacts!Batch, Outbox!Batch
  <2>2. ASSUME NEW S PROVE OutboxFacts!ClaimDue(d, S) <=> Outbox!ClaimDue(d, S)
    BY <1>4, <2>1 DEF OutboxFacts!ClaimDue, Outbox!ClaimDue, OutboxFacts!Cardinality,
       Outbox!Cardinality
  <2>3. ASSUME NEW e PROVE OutboxFacts!Begin(d, e) <=> Outbox!Begin(d, e)
    BY <2>1 DEF OutboxFacts!Begin, Outbox!Begin
  <2> QED
    BY <2>2, <2>3
<1>7. ASSUME NEW d \in Dispatchers
      PROVE  /\ OutboxFacts!Complete(d) <=> Outbox!Complete(d)
             /\ OutboxFacts!CompleteUnanswered(d) <=> Outbox!CompleteUnanswered(d)
  BY DEF OutboxFacts!Complete, Outbox!Complete, OutboxFacts!Release, Outbox!Release,
     OutboxFacts!CompleteUnanswered, Outbox!CompleteUnanswered,
     OutboxFacts!MarkCompleted, Outbox!MarkCompleted
<1>8. ASSUME NEW d \in Dispatchers
      PROVE  OutboxFacts!Fail(d) <=> Outbox!Fail(d)
  BY DEF OutboxFacts!Fail, Outbox!Fail, OutboxFacts!Release, Outbox!Release,
     OutboxFacts!StatusAfterFailure, Outbox!StatusAfterFailure
<1>9. ASSUME NEW d \in Dispatchers
      PROVE  OutboxFacts!Abandon(d) <=> Outbox!Abandon(d)
  BY DEF OutboxFacts!Abandon, Outbox!Abandon, OutboxFacts!Batch, Outbox!Batch
<1>10. OutboxFacts!OutboxNext <=> Outbox!OutboxNext
  BY <1>4, <1>5, <1>6, <1>7, <1>8, <1>9
  DEF OutboxFacts!OutboxNext, Outbox!OutboxNext, OutboxFacts!DispatcherNext,
      Outbox!DispatcherNext
<1> QED
  BY <1>1, <1>2, <1>3, <1>10

(* The version of a build that has a job is well typed. *)
LEMMA CommitTypes ==
  ASSUME JobsTypeOK, TilesetsTypeOK, NEW j \in Jobs, CommitVersion(j)
  PROVE  JobsTypeOK' /\ TilesetsTypeOK'
<1>1. JobsTypeOK'
  BY DEF CommitVersion, JobsTypeOK, JobStatus, Touch, SetJob
<1>2. Target[j] \in Tilesets
  BY PipelineAssumption
<1>3. Append(versions[Target[j]], j) \in Seq(Jobs)
  BY <1>2 DEF TilesetsTypeOK
<1>4. versions' \in [Tilesets -> Seq(Jobs)]
  BY <1>3 DEF CommitVersion, TilesetsTypeOK
<1>5. TilesetsTypeOK'
  BY <1>4 DEF CommitVersion, TilesetsTypeOK, TilesetStatus, SetTileset
<1> QED
  BY <1>1, <1>5

(* One conjunct of TypeOK at a time; an action keeps those it leaves alone. *)
LEMMA TypeStep ==
  ASSUME TypeOK, [Next]_vars PROVE TypeOK'
<1> DEFINE DispatchOK == dPc \in [Dispatchers -> DispatchPc]
           FaultsOK == faults \in 0..MaxFaults
<1>o. Outbox!OutboxTypeOK'
  <2>1. OutboxFacts!OutboxAssumption
    BY EventsAssumption DEF Outbox!OutboxAssumption, OutboxFacts!OutboxAssumption
  <2>2. OutboxFacts!OutboxTypeOK /\ [OutboxFacts!OutboxNext]_(OutboxFacts!outboxVars)
          => OutboxFacts!OutboxTypeOK'
    BY <2>1, OutboxFacts!OutboxTypeStep
  <2> QED
    BY <2>2, OutboxStep, SameOutbox DEF TypeOK, OutboxFacts!outboxVars, outboxVars
<1>t. /\ JobsTypeOK /\ TilesetsTypeOK /\ ArtifactsTypeOK /\ QueueTypeOK
      /\ DispatchOK /\ WorkersTypeOK /\ ReconcilerTypeOK /\ FaultsOK
  BY DEF TypeOK
<1>u. /\ UNCHANGED jobVars => JobsTypeOK'
      /\ UNCHANGED tilesetVars => TilesetsTypeOK'
      /\ UNCHANGED artifactVars => ArtifactsTypeOK'
      /\ UNCHANGED queueVars => QueueTypeOK'
      /\ UNCHANGED dPc => DispatchOK'
      /\ UNCHANGED workerVars => WorkersTypeOK'
      /\ UNCHANGED reconcilerVars => ReconcilerTypeOK'
      /\ UNCHANGED faults => FaultsOK'
  BY <1>t
  DEF jobVars, tilesetVars, artifactVars, queueVars, workerVars, reconcilerVars,
      JobsTypeOK, TilesetsTypeOK, ArtifactsTypeOK, QueueTypeOK, WorkersTypeOK,
      ReconcilerTypeOK
<1> DEFINE Kept == JobsTypeOK /\ TilesetsTypeOK /\ ArtifactsTypeOK /\ QueueTypeOK
             /\ DispatchOK /\ WorkersTypeOK /\ ReconcilerTypeOK /\ FaultsOK
<1>1. ASSUME NEW j \in Jobs, NEW n \in 0..MaxRetries, RequestBuild(j, n) PROVE Kept'
  <2>1. JobsTypeOK'
    BY <1>1, <1>t DEF RequestBuild, JobsTypeOK, JobStatus, Touch, SetJob
  <2>2. TilesetsTypeOK'
    BY <1>1, <1>t DEF RequestBuild, TilesetsTypeOK, TilesetStatus, RestoredStatus,
       SetTileset, tilesetVars
  <2> QED
    BY <1>1, <1>u, <2>1, <2>2 DEF RequestBuild, DispatchFrame, WorkerFrame,
       ReconcilerFrame, Goto
<1>2. ASSUME NEW j \in Jobs, CancelPending(j) PROVE Kept'
  <2>1. JobsTypeOK'
    BY <1>2, <1>t DEF CancelPending, JobsTypeOK, JobStatus, Touch, SetJob
  <2>2. TilesetsTypeOK'
    BY <1>2, <1>t DEF CancelPending, TilesetsTypeOK, TilesetStatus, RestoredStatus,
       SetTileset, tilesetVars
  <2> QED
    BY <1>2, <1>u, <2>1, <2>2 DEF CancelPending, DispatchFrame, WorkerFrame,
       ReconcilerFrame, Goto
<1>3. ASSUME NEW j \in Jobs, CancelRunning(j) PROVE Kept'
  <2>1. JobsTypeOK'
    BY <1>3, <1>t DEF CancelRunning, JobsTypeOK, JobStatus, Touch, SetJob
  <2> QED
    BY <1>3, <1>u, <2>1 DEF CancelRunning, DispatchFrame, WorkerFrame, ReconcilerFrame,
       Goto
<1>4. ASSUME NEW t \in Tilesets, DeleteTileset(t) PROVE Kept'
  <2>1. TilesetsTypeOK'
    BY <1>4, <1>t DEF DeleteTileset, TilesetsTypeOK, TilesetStatus, RestoredStatus,
       SetTileset, tilesetVars
  <2> QED
    BY <1>4, <1>u, <2>1 DEF DeleteTileset, DispatchFrame, WorkerFrame, ReconcilerFrame,
       Goto
<1>5. ASSUME NEW t \in Tilesets, NEW v \in 1..Len(versions[t]), Publish(t, v) PROVE Kept'
  <2>1. TilesetsTypeOK'
    BY <1>5, <1>t DEF Publish, TilesetsTypeOK, TilesetStatus, RestoredStatus, SetTileset,
       tilesetVars
  <2> QED
    BY <1>5, <1>u, <2>1 DEF Publish, DispatchFrame, WorkerFrame, ReconcilerFrame, Goto
<1>6. ASSUME NEW d \in Dispatchers, NEW S \in SUBSET Outbox!Due, ClaimEvents(d, S) PROVE Kept'
  BY <1>6, <1>u DEF ClaimEvents, DispatchFrame, WorkerFrame, ReconcilerFrame
<1>7. ASSUME NEW d \in Dispatchers, NEW e \in Events, BeginDispatch(d, e) PROVE Kept'
  <2>1. DispatchOK'
    BY <1>7, <1>t DEF BeginDispatch, DispatchPc, SetDPc
  <2> QED
    BY <1>7, <1>u, <2>1 DEF BeginDispatch, DispatchFrame, WorkerFrame, ReconcilerFrame,
       Goto
<1>8. ASSUME NEW d \in Dispatchers, ReadJob(d) PROVE Kept'
  <2>1. DispatchOK'
    BY <1>8, <1>t DEF ReadJob, DispatchPc, SetDPc
  <2> QED
    BY <1>8, <1>u, <2>1 DEF ReadJob, DispatchFrame, WorkerFrame, ReconcilerFrame, Goto
<1>9. ASSUME NEW d \in Dispatchers, InspectQueue(d) PROVE Kept'
  <2>1. DispatchOK'
    BY <1>9, <1>t DEF InspectQueue, DispatchPc, SetDPc
  <2> QED
    BY <1>9, <1>u, <2>1 DEF InspectQueue, DispatchFrame, WorkerFrame, ReconcilerFrame,
       Goto
<1>10. ASSUME NEW d \in Dispatchers, AddToQueue(d) PROVE Kept'
  <2>1. QueueTypeOK'
    BY <1>10, <1>t DEF AddToQueue, QueueTypeOK, QueueState, PutInQueue, queueVars
  <2>2. DispatchOK'
    BY <1>10, <1>t DEF AddToQueue, DispatchPc, SetDPc
  <2> QED
    BY <1>10, <1>u, <2>1, <2>2 DEF AddToQueue, DispatchFrame, WorkerFrame,
       ReconcilerFrame, Goto
<1>11. ASSUME NEW d \in Dispatchers, ReplaceInQueue(d) PROVE Kept'
  <2>1. QueueTypeOK'
    BY <1>11, <1>t DEF ReplaceInQueue, QueueTypeOK, QueueState, PutInQueue, queueVars
  <2>2. DispatchOK'
    BY <1>11, <1>t DEF ReplaceInQueue, DispatchPc, SetDPc
  <2> QED
    BY <1>11, <1>u, <2>1, <2>2 DEF ReplaceInQueue, DispatchFrame, WorkerFrame,
       ReconcilerFrame, Goto
<1>12. ASSUME NEW d \in Dispatchers, DeleteBytes(d) PROVE Kept'
  <2>1. ArtifactsTypeOK'
    BY <1>12, <1>t DEF DeleteBytes, ArtifactsTypeOK
  <2>2. DispatchOK'
    BY <1>12, <1>t DEF DeleteBytes, DispatchPc, SetDPc
  <2> QED
    BY <1>12, <1>u, <2>1, <2>2 DEF DeleteBytes, DispatchFrame, WorkerFrame,
       ReconcilerFrame, Goto
<1>13. ASSUME NEW d \in Dispatchers, MarkDeleted(d) PROVE Kept'
  <2>1. ArtifactsTypeOK'
    BY <1>13, <1>t DEF MarkDeleted, ArtifactsTypeOK
  <2>2. DispatchOK'
    BY <1>13, <1>t DEF MarkDeleted, DispatchPc, SetDPc
  <2> QED
    BY <1>13, <1>u, <2>1, <2>2 DEF MarkDeleted, DispatchFrame, WorkerFrame,
       ReconcilerFrame, Goto
<1>14. ASSUME NEW d \in Dispatchers, CompleteEvent(d) PROVE Kept'
  <2>1. DispatchOK'
    BY <1>14, <1>t DEF CompleteEvent, DispatchPc, SetDPc
  <2> QED
    BY <1>14, <1>u, <2>1 DEF CompleteEvent, DispatchFrame, WorkerFrame, ReconcilerFrame,
       Goto
<1>15. ASSUME NEW d \in Dispatchers, DispatchThrows(d) PROVE Kept'
  <2>1. DispatchOK'
    BY <1>15, <1>t DEF DispatchThrows, FailEvent, DispatchPc, SetDPc
  <2>2. FaultsOK'
    BY <1>15, <1>t, PipelineAssumption DEF DispatchThrows, FailEvent, Fault
  <2> QED
    BY <1>15, <1>u, <2>1, <2>2 DEF DispatchThrows, FailEvent, DispatchFrame, WorkerFrame,
       ReconcilerFrame, Goto
<1>15a. ASSUME NEW d \in Dispatchers, CompletionAnswerLost(d) PROVE Kept'
  <2>1. DispatchOK'
    BY <1>15a, <1>t DEF CompletionAnswerLost, DispatchPc, SetDPc
  <2>2. FaultsOK'
    BY <1>15a, <1>t, PipelineAssumption DEF CompletionAnswerLost, Fault
  <2> QED
    BY <1>15a, <1>u, <2>1, <2>2 DEF CompletionAnswerLost, DispatchFrame, WorkerFrame,
       ReconcilerFrame, Goto
<1>16. ASSUME NEW d \in Dispatchers, DispatcherCrash(d) PROVE Kept'
  <2>1. DispatchOK'
    BY <1>16, <1>t DEF DispatcherCrash, DispatchPc, SetDPc
  <2>2. FaultsOK'
    BY <1>16, <1>t, PipelineAssumption DEF DispatcherCrash, Fault
  <2> QED
    BY <1>16, <1>u, <2>1, <2>2 DEF DispatcherCrash, DispatchFrame, WorkerFrame,
       ReconcilerFrame, Goto
<1>17. ASSUME NEW w \in Workers, NEW j \in Jobs, Pick(w, j) PROVE Kept'
  <2>1. QueueTypeOK'
    BY <1>17, <1>t DEF Pick, QueueTypeOK, QueueState, PutInQueue, queueVars
  <2>2. WorkersTypeOK'
    BY <1>17, <1>t DEF Pick, WorkersTypeOK, WorkerPc, Goto
  <2> QED
    BY <1>17, <1>u, <2>1, <2>2 DEF Pick, DispatchFrame, WorkerFrame, ReconcilerFrame, Goto
<1>18. ASSUME NEW w \in Workers, CheckStart(w) PROVE Kept'
  <2>1. WorkersTypeOK'
    BY <1>18, <1>t DEF CheckStart, WorkersTypeOK, WorkerPc, Goto
  <2> QED
    BY <1>18, <1>u, <2>1 DEF CheckStart, DispatchFrame, WorkerFrame, ReconcilerFrame, Goto
<1>19. ASSUME NEW w \in Workers, MarkStarted(w) PROVE Kept'
  <2>1. JobsTypeOK'
    BY <1>19, <1>t DEF MarkStarted, jobVars, JobsTypeOK, JobStatus, Touch, SetJob
  <2>2. WorkersTypeOK'
    BY <1>19, <1>t DEF MarkStarted, jobVars, WorkersTypeOK, WorkerPc, Goto
  <2> QED
    BY <1>19, <1>u, <2>1, <2>2 DEF MarkStarted, jobVars, DispatchFrame, WorkerFrame,
       ReconcilerFrame, Goto
<1>20. ASSUME NEW w \in Workers, SetProcessing(w) PROVE Kept'
  <2>1. TilesetsTypeOK'
    BY <1>20, <1>t DEF SetProcessing, TilesetsTypeOK, TilesetStatus, RestoredStatus,
       SetTileset, tilesetVars
  <2>2. WorkersTypeOK'
    BY <1>20, <1>t DEF SetProcessing, WorkersTypeOK, WorkerPc, Goto
  <2> QED
    BY <1>20, <1>u, <2>1, <2>2 DEF SetProcessing, DispatchFrame, WorkerFrame,
       ReconcilerFrame, Goto
<1>21. ASSUME NEW w \in Workers, Work(w) PROVE Kept'
  <2>1. JobsTypeOK'
    BY <1>21, <1>t DEF Work, jobVars, Progress, JobsTypeOK, JobStatus, Touch, SetJob
  <2>2. WorkersTypeOK'
    BY <1>21, <1>t DEF Work, jobVars, Progress, WorkersTypeOK, WorkerPc, Goto
  <2> QED
    BY <1>21, <1>u, <2>1, <2>2 DEF Work, jobVars, Progress, DispatchFrame, WorkerFrame,
       ReconcilerFrame, Goto
<1>22. ASSUME NEW w \in Workers, UploadBytes(w) PROVE Kept'
  <2>1. ArtifactsTypeOK'
    BY <1>22, <1>t DEF UploadBytes, ArtifactsTypeOK
  <2>2. WorkersTypeOK'
    BY <1>22, <1>t DEF UploadBytes, WorkersTypeOK, WorkerPc, Goto
  <2> QED
    BY <1>22, <1>u, <2>1, <2>2 DEF UploadBytes, DispatchFrame, WorkerFrame,
       ReconcilerFrame, Goto
<1>23. ASSUME NEW w \in Workers, RecordArtifact(w) PROVE Kept'
  <2>1. ArtifactsTypeOK'
    BY <1>23, <1>t DEF RecordArtifact, ArtifactsTypeOK
  <2>2. WorkersTypeOK'
    BY <1>23, <1>t DEF RecordArtifact, WorkersTypeOK, WorkerPc, Goto
  <2> QED
    BY <1>23, <1>u, <2>1, <2>2 DEF RecordArtifact, DispatchFrame, WorkerFrame,
       ReconcilerFrame, Goto
<1>24. ASSUME NEW w \in Workers, RecordFails(w) PROVE Kept'
  <2>1. ArtifactsTypeOK'
    BY <1>24, <1>t DEF RecordFails, ArtifactsTypeOK
  <2>2. WorkersTypeOK'
    BY <1>24, <1>t DEF RecordFails, WorkersTypeOK, WorkerPc, Goto
  <2>3. FaultsOK'
    BY <1>24, <1>t, PipelineAssumption DEF RecordFails, Fault
  <2> QED
    BY <1>24, <1>u, <2>1, <2>2, <2>3 DEF RecordFails, DispatchFrame, WorkerFrame,
       ReconcilerFrame, Goto
<1>25. ASSUME NEW w \in Workers, CheckStored(w) PROVE Kept'
  <2>1. JobsTypeOK'
    BY <1>25, <1>t DEF CheckStored, Progress, JobsTypeOK, JobStatus, Touch, SetJob
  <2>2. WorkersTypeOK'
    BY <1>25, <1>t DEF CheckStored, Progress, WorkersTypeOK, WorkerPc, Goto
  <2> QED
    BY <1>25, <1>u, <2>1, <2>2 DEF CheckStored, Progress, DispatchFrame, WorkerFrame,
       ReconcilerFrame, Goto
<1>26. ASSUME NEW w \in Workers, Finalize(w) PROVE Kept'
  <2>1. wJob[w] \in Jobs
    BY <1>26, <1>t DEF Finalize, WorkersTypeOK
  <2>2. JobsTypeOK' /\ TilesetsTypeOK'
    BY <1>26, <1>t, <2>1, CommitTypes DEF Finalize
  <2>3. WorkersTypeOK'
    BY <1>26, <1>t DEF Finalize, WorkersTypeOK, WorkerPc, Goto
  <2> QED
    BY <1>26, <1>u, <2>2, <2>3 DEF Finalize, WorkerFrame
<1>27. ASSUME NEW w \in Workers, FinalizeRefused(w) PROVE Kept'
  <2>1. WorkersTypeOK'
    BY <1>27, <1>t DEF FinalizeRefused, WorkersTypeOK, WorkerPc, Goto
  <2> QED
    BY <1>27, <1>u, <2>1 DEF FinalizeRefused, DispatchFrame, WorkerFrame, ReconcilerFrame,
       Goto
<1>28. ASSUME NEW w \in Workers, FinalizeFails(w) PROVE Kept'
  <2>1. wJob[w] \in Jobs
    BY <1>28, <1>t DEF FinalizeFails, WorkersTypeOK
  <2>2. JobsTypeOK' /\ TilesetsTypeOK'
    BY <1>28, <1>t, <1>u, <2>1, CommitTypes DEF FinalizeFails
  <2>3. WorkersTypeOK'
    BY <1>28, <1>t DEF FinalizeFails, WorkersTypeOK, WorkerPc, Goto
  <2>4. FaultsOK'
    BY <1>28, <1>t, PipelineAssumption DEF FinalizeFails, Fault
  <2> QED
    BY <1>28, <1>u, <2>2, <2>3, <2>4 DEF FinalizeFails, WorkerFrame
<1>29. ASSUME NEW w \in Workers, RequestCleanup(w) PROVE Kept'
  <2>1. ArtifactsTypeOK'
    BY <1>29, <1>t DEF RequestCleanup, MarkForCleanup, ArtifactsTypeOK
  <2>2. WorkersTypeOK'
    BY <1>29, <1>t DEF RequestCleanup, WorkersTypeOK, WorkerPc, Goto
  <2> QED
    BY <1>29, <1>u, <2>1, <2>2 DEF RequestCleanup, DispatchFrame, WorkerFrame,
       ReconcilerFrame, Goto
<1>29a. ASSUME NEW w \in Workers, CleanupAnswerLost(w) PROVE Kept'
  <2>1. ArtifactsTypeOK'
    BY <1>29a, <1>t DEF CleanupAnswerLost, MarkForCleanup, ArtifactsTypeOK
  <2>2. WorkersTypeOK'
    BY <1>29a, <1>t DEF CleanupAnswerLost, WorkersTypeOK, WorkerPc, Goto
  <2>3. FaultsOK'
    BY <1>29a, <1>t, PipelineAssumption DEF CleanupAnswerLost, Fault
  <2> QED
    BY <1>29a, <1>u, <2>1, <2>2, <2>3 DEF CleanupAnswerLost, DispatchFrame, WorkerFrame,
       ReconcilerFrame, Goto
<1>30. ASSUME NEW w \in Workers, SetCanceled(w) PROVE Kept'
  <2>1. TilesetsTypeOK'
    BY <1>30, <1>t DEF SetCanceled, TilesetsTypeOK, TilesetStatus, RestoredStatus,
       SetTileset, tilesetVars
  <2>2. WorkersTypeOK'
    BY <1>30, <1>t DEF SetCanceled, WorkersTypeOK, WorkerPc, Goto
  <2> QED
    BY <1>30, <1>u, <2>1, <2>2 DEF SetCanceled, DispatchFrame, WorkerFrame,
       ReconcilerFrame, Goto
<1>31. ASSUME NEW w \in Workers, MarkCanceled(w) PROVE Kept'
  <2>1. JobsTypeOK'
    BY <1>31, <1>t DEF MarkCanceled, jobVars, JobsTypeOK, JobStatus, Touch, SetJob
  <2>2. WorkersTypeOK'
    BY <1>31, <1>t DEF MarkCanceled, jobVars, WorkersTypeOK, WorkerPc, Goto
  <2> QED
    BY <1>31, <1>u, <2>1, <2>2 DEF MarkCanceled, jobVars, DispatchFrame, WorkerFrame,
       ReconcilerFrame, Goto
<1>32. ASSUME NEW w \in Workers, SetError(w) PROVE Kept'
  <2>1. TilesetsTypeOK'
    BY <1>32, <1>t DEF SetError, TilesetsTypeOK, TilesetStatus, RestoredStatus,
       SetTileset, tilesetVars
  <2>2. WorkersTypeOK'
    BY <1>32, <1>t DEF SetError, WorkersTypeOK, WorkerPc, Goto
  <2> QED
    BY <1>32, <1>u, <2>1, <2>2 DEF SetError, DispatchFrame, WorkerFrame, ReconcilerFrame,
       Goto
<1>33. ASSUME NEW w \in Workers, MarkFailed(w) PROVE Kept'
  <2>1. JobsTypeOK'
    BY <1>33, <1>t DEF MarkFailed, jobVars, JobsTypeOK, JobStatus, Touch, SetJob
  <2>2. WorkersTypeOK'
    BY <1>33, <1>t DEF MarkFailed, jobVars, WorkersTypeOK, WorkerPc, Goto
  <2> QED
    BY <1>33, <1>u, <2>1, <2>2 DEF MarkFailed, jobVars, DispatchFrame, WorkerFrame,
       ReconcilerFrame, Goto
<1>34. ASSUME NEW w \in Workers, AckDone(w) PROVE Kept'
  <2>1. QueueTypeOK'
    BY <1>34, <1>t DEF AckDone, Acknowledge, QueueTypeOK, QueueState, PutInQueue,
       queueVars
  <2>2. WorkersTypeOK'
    BY <1>34, <1>t DEF AckDone, Acknowledge, WorkersTypeOK, WorkerPc, Goto
  <2> QED
    BY <1>34, <1>u, <2>1, <2>2 DEF AckDone, Acknowledge, DispatchFrame, WorkerFrame,
       ReconcilerFrame, Goto
<1>35. ASSUME NEW w \in Workers, AckFailed(w) PROVE Kept'
  <2>1. QueueTypeOK'
    BY <1>35, <1>t DEF AckFailed, Acknowledge, QueueTypeOK, QueueState, PutInQueue,
       queueVars
  <2>2. WorkersTypeOK'
    BY <1>35, <1>t DEF AckFailed, Acknowledge, WorkersTypeOK, WorkerPc, Goto
  <2> QED
    BY <1>35, <1>u, <2>1, <2>2 DEF AckFailed, Acknowledge, DispatchFrame, WorkerFrame,
       ReconcilerFrame, Goto
<1>36. ASSUME NEW w \in Workers, WorkerThrows(w) PROVE Kept'
  <2>1. WorkersTypeOK'
    BY <1>36, <1>t DEF WorkerThrows, BodyPc, CatchPc, WorkersTypeOK, WorkerPc, Goto
  <2>2. FaultsOK'
    BY <1>36, <1>t, PipelineAssumption DEF WorkerThrows, BodyPc, CatchPc, Fault
  <2> QED
    BY <1>36, <1>u, <2>1, <2>2 DEF WorkerThrows, BodyPc, CatchPc, DispatchFrame,
       WorkerFrame, ReconcilerFrame, Goto
<1>37. ASSUME NEW w \in Workers, WorkerCrash(w) PROVE Kept'
  <2>1. WorkersTypeOK'
    BY <1>37, <1>t DEF WorkerCrash, WorkersTypeOK, WorkerPc, Goto
  <2>2. FaultsOK'
    BY <1>37, <1>t, PipelineAssumption DEF WorkerCrash, Fault
  <2> QED
    BY <1>37, <1>u, <2>1, <2>2 DEF WorkerCrash, DispatchFrame, WorkerFrame,
       ReconcilerFrame, Goto
<1>38. ASSUME NEW w \in Workers, LoseLock(w) PROVE Kept'
  <2>1. WorkersTypeOK'
    BY <1>38, <1>t DEF LoseLock, WorkersTypeOK, WorkerPc, Goto
  <2>2. FaultsOK'
    BY <1>38, <1>t, PipelineAssumption DEF LoseLock, Fault
  <2> QED
    BY <1>38, <1>u, <2>1, <2>2 DEF LoseLock, DispatchFrame, WorkerFrame, ReconcilerFrame,
       Goto
<1>39. ASSUME NEW j \in Jobs, StallCheck(j) PROVE Kept'
  <2>1. QueueTypeOK'
    BY <1>39, <1>t DEF StallCheck, QueueTypeOK, QueueState, PutInQueue, queueVars
  <2> QED
    BY <1>39, <1>u, <2>1 DEF StallCheck, DispatchFrame, WorkerFrame, ReconcilerFrame, Goto
<1>40. ASSUME NEW j \in Jobs, Age(j) PROVE Kept'
  <2>1. JobsTypeOK'
    BY <1>40, <1>t DEF Age, JobsTypeOK, JobStatus, Touch, SetJob
  <2> QED
    BY <1>40, <1>u, <2>1 DEF Age, DispatchFrame, WorkerFrame, ReconcilerFrame, Goto
<1>41. ASSUME NEW j \in Jobs, Scan(j) PROVE Kept'
  <2>1. ReconcilerTypeOK'
    BY <1>41, <1>t DEF Scan, ReconcilerTypeOK
  <2> QED
    BY <1>41, <1>u, <2>1 DEF Scan, DispatchFrame, WorkerFrame, ReconcilerFrame, Goto
<1>42. ASSUME CheckLiveness PROVE Kept'
  <2>1. ReconcilerTypeOK'
    BY <1>42, <1>t DEF CheckLiveness, ReconcilerTypeOK
  <2> QED
    BY <1>42, <1>u, <2>1 DEF CheckLiveness, DispatchFrame, WorkerFrame, ReconcilerFrame,
       Goto
<1>43. ASSUME LivenessUnknown PROVE Kept'
  <2>1. ReconcilerTypeOK'
    BY <1>43, <1>t DEF LivenessUnknown, ReconcilerTypeOK
  <2>2. FaultsOK'
    BY <1>43, <1>t, PipelineAssumption DEF LivenessUnknown, Fault
  <2> QED
    BY <1>43, <1>u, <2>1, <2>2 DEF LivenessUnknown, DispatchFrame, WorkerFrame,
       ReconcilerFrame, Goto
<1>44. ASSUME ReconcileFail PROVE Kept'
  <2>1. JobsTypeOK'
    BY <1>44, <1>t DEF ReconcileFail, jobVars, tilesetVars, JobsTypeOK, JobStatus, Touch,
       SetJob
  <2>2. TilesetsTypeOK'
    BY <1>44, <1>t DEF ReconcileFail, jobVars, tilesetVars, TilesetsTypeOK, TilesetStatus,
       RestoredStatus, SetTileset
  <2>3. ReconcilerTypeOK'
    BY <1>44, <1>t DEF ReconcileFail, jobVars, tilesetVars, ReconcilerTypeOK
  <2> QED
    BY <1>44, <1>u, <2>1, <2>2, <2>3 DEF ReconcileFail, jobVars, tilesetVars,
       DispatchFrame, WorkerFrame, ReconcilerFrame, Goto
<1>45. ASSUME NEW j \in Jobs, AdminCancelPending(j) PROVE Kept'
  <2>1. JobsTypeOK'
    BY <1>45, <1>t DEF AdminCancelPending, JobsTypeOK, JobStatus, Touch, SetJob
  <2> QED
    BY <1>45, <1>u, <2>1 DEF AdminCancelPending, DispatchFrame, WorkerFrame,
       ReconcilerFrame, Goto
<1>46. ASSUME NEW e \in Events, RedriveEvent(e) \/ ArchiveEvent(e) PROVE Kept'
  BY <1>46, <1>u DEF RedriveEvent, ArchiveEvent, DispatchFrame, WorkerFrame,
     ReconcilerFrame
<1>47. ASSUME UNCHANGED vars PROVE Kept'
  BY <1>47, <1>u DEF vars
<1> HIDE DEF Kept
<1>48. ASSUME NEW j \in Jobs, Console(j) \/ AdminRetry(j) PROVE Kept'
  <2>1. 0 \in 0..MaxRetries /\ (Retryable(j) => retryCount[j] + 1 \in 0..MaxRetries)
    BY <1>t, PipelineAssumption DEF Retryable, JobsTypeOK
  <2> QED
    BY <1>48, <1>1, <1>2, <1>3, <2>1
    DEF Console, Upload, Rebuild, Retry, AdminRetry
<1>49. ASSUME NEW d \in Dispatchers, DispatcherStep(d) PROVE Kept'
  BY <1>49, <1>7, <1>8, <1>9, <1>10, <1>11, <1>12,
     <1>13, <1>14, <1>15 DEF DispatcherStep
<1>50. ASSUME NEW w \in Workers, WorkerStep(w) PROVE Kept'
  BY <1>50, <1>18, <1>19, <1>20, <1>21, <1>22, <1>23, <1>25,
     <1>26, <1>27, <1>29, <1>30, <1>31, <1>32, <1>33,
     <1>34, <1>35 DEF WorkerStep
<1>51. ASSUME Failure PROVE Kept'
  BY <1>51, <1>15, <1>15a, <1>16, <1>24, <1>28, <1>29a, <1>36, <1>37,
     <1>43 DEF Failure
<1>52. ASSUME ConsoleNext PROVE Kept'
  BY <1>52, <1>48, <1>49, <1>50, <1>51, <1>39, <1>40, <1>4, <1>5, <1>6, <1>17,
     <1>41, <1>42, <1>44 DEF ConsoleNext, ReconcilerStep
<1>53. Kept'
  BY <1>52, <1>48, <1>46, <1>47, <1>38, <1>45 DEF Next
<1> QED
  BY <1>53, <1>o DEF Kept, TypeOK

(* The types of the whole pipeline.  They say more than they seem to: a     *)
(* worker slot that runs has a job, and Append is only ever given one.      *)
THEOREM TypeCorrect == Spec => []TypeOK
  BY TypeInit, TypeStep, PTL DEF Spec
=============================================================================
