------------------------- MODULE SourceImportsProofs -------------------------
(***************************************************************************)
(* Proofs about SourceImports: for any imports and any number of           *)
(* dispatchers, with runs of ended imports going on, and with crashes,     *)
(* lost answers and operators wherever the model allows them.              *)
(***************************************************************************)
EXTENDS SourceImports, TLAPS

OutboxFacts == INSTANCE EventOutboxProofs

Runs == [pc : RunPc, number : Numbers \cup {0}, stored : Versions \cup {NoVersion},
         error : {"none", "canceled", "failed"}]

(* The rows that an import and a cleanup are asked for with are different   *)
(* rows of the outbox, and there are no others.                             *)
LEMMA EventKinds ==
  /\ \A i \in Imports :
       /\ ImportEvent(i) \in Events
       /\ ImportEvent(i).kind = "import" /\ ImportEvent(i).import = i
  /\ \A v \in Versions :
       /\ CleanupEvent(v) \in Events
       /\ CleanupEvent(v).kind = "cleanup" /\ CleanupEvent(v).version = v
  /\ \A e \in Events :
       \/ e.kind = "import" /\ e.import \in Imports /\ e = ImportEvent(e.import)
       \/ e.kind = "cleanup" /\ e.version \in Versions /\ e = CleanupEvent(e.version)
BY DEF ImportEvent, CleanupEvent, Events

-----------------------------------------------------------------------------
(* Where a step leaves the run of a dispatcher.                             *)

(* d's run goes on at pc; nobody else's moves. *)
Moved(d, pc, n, v, error) ==
  /\ run' \in [Dispatchers -> Runs]
  /\ run'[d].pc = pc /\ run'[d].number = n /\ run'[d].stored = v /\ run'[d].error = error
  /\ \A c \in Dispatchers : c # d => run'[c] = run[c]

(* A step of the run's body.                                                *)
LEMMA GotoMoves ==
  ASSUME ImportTypeOK, NEW d \in Dispatchers, NEW pc \in RunPc, Goto(d, pc)
  PROVE  Moved(d, pc, run[d].number, run[d].stored, run[d].error)
BY DEF ImportTypeOK, Goto, Moved, Runs

(* The run enters its catch block.                                          *)
LEMMA CatchMoves ==
  ASSUME ImportTypeOK, NEW d \in Dispatchers, NEW error \in {"canceled", "failed"},
         Catch(d, error)
  PROVE  Moved(d, IF run[d].stored # NoVersion THEN "disown" ELSE "settle",
               run[d].number, run[d].stored, error)
BY DEF ImportTypeOK, Catch, Moved, Runs, RunPc

(* The dispatcher turns to the next event.                                  *)
LEMMA LeaveMoves ==
  ASSUME ImportTypeOK, NEW d \in Dispatchers, Leave(d)
  PROVE  Moved(d, "none", 0, NoVersion, "none")
BY DEF ImportTypeOK, Leave, Moved, Runs, RunPc, AtRest, NoVersion

-----------------------------------------------------------------------------
(* The inductive invariant.                                                 *)

(* The run follows the event that its dispatcher has taken up, and has      *)
(* recorded a version exactly from the transaction to the catch block.      *)
FollowsEvent(d) ==
  /\ current[d] = NoEvent <=> run[d].pc = "none"
  /\ run[d].pc \notin {"none", "delete", "done"} => current[d].kind = "import"
  /\ run[d].pc = "delete" => current[d].kind = "cleanup"
  /\ run[d].pc \in {"upload", "record", "undo", "confirm", "succeed", "target", "disown"} =>
       run[d].number \in Numbers
  /\ run[d].pc \in {"confirm", "succeed", "target", "disown"} => run[d].stored # NoVersion
  /\ run[d].pc \notin {"confirm", "succeed", "target", "disown", "settle", "done"} =>
       run[d].stored = NoVersion
RunsFollowEvents == \A d \in Dispatchers : FollowsEvent(d)

(* What a run has stored is its import's, under the number it has read.     *)
StoredIsOwn(d) ==
  run[d].stored # NoVersion =>
    /\ current[d] # NoEvent /\ current[d].kind = "import"
    /\ owner[run[d].stored] = Import(d) /\ number[run[d].stored] = run[d].number
StoredAreOwn == \A d \in Dispatchers : StoredIsOwn(d)

(* A version that was recorded has its rows until its cleanup is asked for. *)
VersionRows ==
  /\ live = versions /\ versions \subseteq Used
  /\ currentVersion # NoVersion => currentVersion \in Used
  /\ \A v \in Versions :
       evStatus[CleanupEvent(v)] = "NONE" <=> v \in versions \/ v \notin Used
  /\ \A v \in Used : number[v] \in Numbers /\ uploads[number[v]] > 0

(* A run with its bytes under a key that it may yet delete; a version that  *)
(* a run knows it has recorded; a key that was uploaded to more than once.  *)
HoldsKey(d) == run[d].pc \in {"record", "undo"}
Acknowledged(v) == v = currentVersion \/ \E d \in Dispatchers : run[d].stored = v
Shared(n) == uploads[n] > 1

(* Whoever may write or delete under another's number has uploaded there    *)
(* itself.  A run whose transaction committed and whose answer was lost     *)
(* deletes the key of its own version, which nobody acknowledged.           *)
KeysAreShared ==
  /\ \A d \in Dispatchers : HoldsKey(d) => uploads[run[d].number] > 0
  /\ \A c, d \in Dispatchers :
       c # d /\ HoldsKey(c) /\ HoldsKey(d) /\ run[c].number = run[d].number =>
         Shared(run[d].number)
  /\ \A v, w \in Used : v # w /\ number[v] = number[w] => Shared(number[v])
  /\ \A d \in Dispatchers, v \in Used :
       HoldsKey(d) /\ run[d].number = number[v] /\ (run[d].pc = "record" \/ Acknowledged(v)) =>
         Shared(number[v])

(* A key that one run uploaded to holds that run's data when it is recorded *)
(* and as long as its version is kept.                                      *)
KeysHoldData ==
  /\ \A d \in Dispatchers : run[d].pc = "record" =>
       object[run[d].number] = Import(d) \/ Shared(run[d].number)
  /\ \A v \in versions : Acknowledged(v) =>
       object[number[v]] = owner[v] \/ Shared(number[v])

(* A dataset has one import under way at a time.                            *)
OneActive ==
  /\ \A i, k \in Imports : ActiveJob(i) /\ ActiveJob(k) => i = k
  /\ datasetStatus = "NONE" => \A i \in Imports : jobStatus[i] = "NONE"

(* While its job goes on a run is ahead of what is published: it has read   *)
(* its number after the import before it had ended.                         *)
RunsAreAhead ==
  \A d \in Dispatchers :
    run[d].pc \in {"upload", "record", "undo", "confirm", "succeed"} =>
      (Continuing(Import(d)) /\ CurrentKept => run[d].number > number[currentVersion])

(* Nobody but the run that published an import holds its event, if it was   *)
(* claimed once and nothing failed.                                         *)
PublisherIsAlone ==
  \A i \in Imports : jobStatus[i] = "SUCCEEDED" =>
    /\ evAttempts[ImportEvent(i)] > 0
    /\ \/ evAttempts[ImportEvent(i)] > 1 \/ faults > 0
       \/ \A d \in Dispatchers : claim[d][ImportEvent(i)] > 0 =>
            current[d] = ImportEvent(i) /\ run[d].pc \in {"target", "done"}

RunInv ==
  /\ ImportTypeOK /\ OutboxFacts!OutboxInv /\ OutboxFacts!HeldAreInserted
  /\ RunsFollowEvents /\ StoredAreOwn
IInv ==
  /\ RunInv
  /\ VersionRows /\ KeysAreShared /\ KeysHoldData
  /\ OneActive /\ RunsAreAhead
  /\ DatasetStatusTrue /\ PublisherIsAlone /\ OutcomeShown

-----------------------------------------------------------------------------
(* The outbox under the imports.                                            *)

(* What the imports do to the outbox, an EventOutbox can do.                *)
LEMMA OutboxStep ==
  ASSUME ImportTypeOK, RunsFollowEvents, [Next]_vars
  PROVE  [Outbox!OutboxNext]_outboxVars
<1> USE DEF Outbox!OutboxNext, Outbox!DispatcherNext
<1>1. ASSUME NEW i \in Imports, Create(i) \/ Refresh(i) PROVE Outbox!OutboxNext
  BY <1>1, EventKinds DEF Create, Refresh, RequestImport
<1>2. ASSUME NEW i \in Imports, Cancel(i) \/ Reconcile(i) PROVE UNCHANGED outboxVars
  BY <1>2 DEF Cancel, Reconcile
<1>3. ASSUME NEW d \in Dispatchers, NEW S \in SUBSET Outbox!Due, ClaimEvents(d, S)
      PROVE  Outbox!OutboxNext
  BY <1>3 DEF ClaimEvents
<1>4. ASSUME NEW d \in Dispatchers, NEW e \in Events, BeginDispatch(d, e)
      PROVE  Outbox!OutboxNext
  BY <1>4 DEF BeginDispatch
<1>5. ASSUME NEW d \in Dispatchers, Disown(d) PROVE Outbox!OutboxNext
  <2>1. run[d].stored \in Versions
    BY <1>5 DEF Disown, At, RunsFollowEvents, FollowsEvent, ImportTypeOK
  <2> QED
    BY <1>5, <2>1, EventKinds DEF Disown
<1>6. ASSUME NEW d \in Dispatchers,
             CompleteEvent(d) \/ CompletionAnswerLost(d) \/ EventThrows(d) \/ DispatcherCrash(d)
      PROVE  Outbox!OutboxNext
  BY <1>6 DEF CompleteEvent, CompletionAnswerLost, EventThrows, DispatcherCrash
<1>7. ASSUME NEW d \in Dispatchers,
             \/ CheckStart(d) \/ MarkProcessing(d) \/ Extract(d) \/ ReadNumber(d) \/ Upload(d)
             \/ Record(d) \/ Undo(d) \/ Confirm(d) \/ Succeed(d) \/ QueueTarget(d)
             \/ SettleCanceled(d) \/ SettleFailed(d) \/ DeleteBytes(d)
             \/ RecordFails(d) \/ SucceedFails(d) \/ RunThrows(d)
      PROVE  UNCHANGED outboxVars
  BY <1>7
  DEF CheckStart, MarkProcessing, Extract, ReadNumber, Upload, Record, Undo, Confirm, Succeed,
      QueueTarget, SettleCanceled, SettleFailed, DeleteBytes, RecordFails, SucceedFails,
      RunThrows, runOnly
<1>8. ASSUME NEW e \in Events, Operate(e) PROVE Outbox!OutboxNext
  BY <1>8 DEF Operate
<1>9. UNCHANGED vars => UNCHANGED outboxVars
  BY DEF vars
<1> QED
  BY <1>1, <1>2, <1>3, <1>4, <1>5, <1>6, <1>7, <1>8, <1>9 DEF Next, DispatcherStep

(* OutboxFacts speaks of the same outbox under another name. *)
LEMMA SameOutbox ==
  /\ OutboxFacts!outboxVars = outboxVars
  /\ OutboxFacts!OutboxTypeOK <=> Outbox!OutboxTypeOK
  /\ OutboxFacts!OutboxTypeOK' <=> Outbox!OutboxTypeOK'
  /\ OutboxFacts!OutboxNext <=> Outbox!OutboxNext
<1>1. OutboxFacts!outboxVars = outboxVars
  BY DEF OutboxFacts!outboxVars, outboxVars
<1>2. OutboxFacts!OutboxTypeOK <=> Outbox!OutboxTypeOK
  BY DEF OutboxFacts!OutboxTypeOK, Outbox!OutboxTypeOK, OutboxFacts!EventStatus, Outbox!EventStatus
<1>3. OutboxFacts!OutboxTypeOK' <=> Outbox!OutboxTypeOK'
  BY DEF OutboxFacts!OutboxTypeOK, Outbox!OutboxTypeOK, OutboxFacts!EventStatus, Outbox!EventStatus
<1>4. OutboxFacts!Due = Outbox!Due
  BY DEF OutboxFacts!Due, Outbox!Due
<1>5. \A e \in Events :
        /\ OutboxFacts!Enqueue(e) <=> Outbox!Enqueue(e)
        /\ OutboxFacts!Redrive(e) <=> Outbox!Redrive(e)
        /\ OutboxFacts!Archive(e) <=> Outbox!Archive(e)
  BY DEF OutboxFacts!Enqueue, Outbox!Enqueue, OutboxFacts!Redrive, Outbox!Redrive,
     OutboxFacts!Archive, Outbox!Archive
<1>6. ASSUME NEW d \in Dispatchers
      PROVE  /\ \A S : OutboxFacts!ClaimDue(d, S) <=> Outbox!ClaimDue(d, S)
             /\ \A e : OutboxFacts!Begin(d, e) <=> Outbox!Begin(d, e)
  <2>1. OutboxFacts!Batch(d) = Outbox!Batch(d)
    BY DEF OutboxFacts!Batch, Outbox!Batch
  <2>2. ASSUME NEW S PROVE OutboxFacts!ClaimDue(d, S) <=> Outbox!ClaimDue(d, S)
    BY <1>4, <2>1 DEF OutboxFacts!ClaimDue, Outbox!ClaimDue, OutboxFacts!Cardinality,
       Outbox!Cardinality
  <2>3. ASSUME NEW e PROVE OutboxFacts!Begin(d, e) <=> Outbox!Begin(d, e)
    BY <2>1 DEF OutboxFacts!Begin, Outbox!Begin
  <2> QED
    BY <2>2, <2>3
<1>7. ASSUME NEW d \in Dispatchers
      PROVE  /\ OutboxFacts!Complete(d) <=> Outbox!Complete(d)
             /\ OutboxFacts!CompleteUnanswered(d) <=> Outbox!CompleteUnanswered(d)
  BY DEF OutboxFacts!Complete, Outbox!Complete, OutboxFacts!Release, Outbox!Release,
     OutboxFacts!CompleteUnanswered, Outbox!CompleteUnanswered,
     OutboxFacts!MarkCompleted, Outbox!MarkCompleted
<1>8. ASSUME NEW d \in Dispatchers
      PROVE  OutboxFacts!Fail(d) <=> Outbox!Fail(d)
  BY DEF OutboxFacts!Fail, Outbox!Fail, OutboxFacts!Release, Outbox!Release,
     OutboxFacts!StatusAfterFailure, Outbox!StatusAfterFailure
<1>9. ASSUME NEW d \in Dispatchers
      PROVE  OutboxFacts!Abandon(d) <=> Outbox!Abandon(d)
  BY DEF OutboxFacts!Abandon, Outbox!Abandon, OutboxFacts!Batch, Outbox!Batch
<1>10. OutboxFacts!OutboxNext <=> Outbox!OutboxNext
  BY <1>4, <1>5, <1>6, <1>7, <1>8, <1>9
  DEF OutboxFacts!OutboxNext, Outbox!OutboxNext, OutboxFacts!DispatcherNext,
      Outbox!DispatcherNext
<1> QED
  BY <1>1, <1>2, <1>3, <1>10

(* So what is proved of the outbox holds of the one the imports use.        *)
LEMMA OutboxKept ==
  ASSUME RunInv, [Next]_vars
  PROVE  /\ Outbox!OutboxTypeOK'
         /\ OutboxFacts!OutboxInv' /\ OutboxFacts!HeldAreInserted'
         /\ \A e \in Events : evStatus[e] # "NONE" => evStatus'[e] # "NONE"
<1>1. OutboxFacts!OutboxAssumption
  BY ImportEventsAssumption DEF Outbox!OutboxAssumption, OutboxFacts!OutboxAssumption
<1>2. [OutboxFacts!OutboxNext]_(OutboxFacts!outboxVars)
  BY OutboxStep, SameOutbox DEF RunInv, OutboxFacts!outboxVars, outboxVars
<1>3. OutboxFacts!OutboxTypeOK /\ OutboxFacts!CurrentIsHeld
  BY DEF RunInv, OutboxFacts!OutboxInv
<1>4. OutboxFacts!OutboxInv'
  BY <1>1, <1>2, OutboxFacts!OutboxInvStep DEF RunInv
<1>5. OutboxFacts!HeldAreInserted'
  BY <1>1, <1>2, <1>3, OutboxFacts!HeldStep DEF RunInv
<1>6. Outbox!OutboxTypeOK'
  BY <1>4, SameOutbox DEF OutboxFacts!OutboxInv
<1>7. \A e \in Events : evStatus[e] # "NONE" => evStatus'[e] # "NONE"
  BY <1>1, <1>2, <1>3, OutboxFacts!RowsRemain
<1> QED
  BY <1>4, <1>5, <1>6, <1>7

-----------------------------------------------------------------------------
(* The runs.                                                                *)

(* From where it reads the number of its version to where it publishes it. *)
AfterRead == {"upload", "record", "undo", "confirm", "succeed"}

BodyStep(d) ==
  \/ CheckStart(d) \/ MarkProcessing(d) \/ Extract(d) \/ ReadNumber(d) \/ Upload(d)
  \/ Record(d) \/ Undo(d) \/ Confirm(d) \/ Succeed(d) \/ QueueTarget(d)
  \/ Disown(d) \/ SettleCanceled(d) \/ SettleFailed(d) \/ DeleteBytes(d)
  \/ RecordFails(d) \/ SucceedFails(d) \/ RunThrows(d)

(* The import of a run in its body is one of the imports.                   *)
LEMMA ImportOfRun ==
  ASSUME ImportTypeOK, NEW d \in Dispatchers, FollowsEvent(d),
         run[d].pc \notin {"none", "delete", "done"}
  PROVE  current[d] \in Events /\ Import(d) \in Imports /\ current[d] = ImportEvent(Import(d))
BY EventKinds DEF ImportTypeOK, Outbox!OutboxTypeOK, FollowsEvent, Import

(* The statements of a run in order: each step of its body moves d alone,   *)
(* from one pc to one that may follow it, and keeps the number it has read  *)
(* and the version it has stored.                                           *)
LEMMA BodyMoves ==
  ASSUME ImportTypeOK, NEW d \in Dispatchers, FollowsEvent(d), BodyStep(d)
  PROVE  /\ run' \in [Dispatchers -> Runs]
         /\ \A c \in Dispatchers : c # d => run'[c] = run[c]
         /\ UNCHANGED <<claim, current, evAttempts>>
         /\ run[d].pc # "none" /\ FollowsEvent(d)'
         /\ run'[d].number # run[d].number => run[d].pc = "number" /\ run'[d].pc = "upload"
         /\ run'[d].stored # run[d].stored => Record(d)
         /\ run'[d].pc = "record" => Upload(d)
         /\ run'[d].pc = "undo" => run[d].pc = "record"
         /\ run'[d].pc \in AfterRead => run[d].pc \in AfterRead \/ ReadNumber(d)
         /\ run[d].pc # "done"
         /\ run[d].pc = "target" => run'[d].pc = "done" \/ faults' = faults + 1
<1> USE DEF AfterRead, At, FollowsEvent, Moved, RunPc, ImportTypeOK, Runs
<1>1. CASE CheckStart(d) \/ Confirm(d)
  BY <1>1, GotoMoves, CatchMoves DEF CheckStart, Confirm, runOnly, outboxVars
<1>2. CASE MarkProcessing(d)
  BY <1>2, GotoMoves, CatchMoves DEF MarkProcessing, outboxVars
<1>3. CASE Extract(d)
  BY <1>3, GotoMoves, CatchMoves DEF Extract, runOnly, outboxVars
<1>4. CASE ReadNumber(d)
  <2>1. PICK n \in Numbers : run' = [run EXCEPT ![d].pc = "upload", ![d].number = n]
    BY <1>4 DEF ReadNumber
  <2>2. Moved(d, "upload", n, run[d].stored, run[d].error)
    BY <2>1
  <2> QED
    BY <1>4, <2>2 DEF ReadNumber, runOnly, outboxVars
<1>5. CASE Upload(d)
  BY <1>5, GotoMoves DEF Upload, outboxVars
<1>6. CASE Record(d)
  <2>1. CASE Goto(d, "undo")
    BY <1>6, <2>1, GotoMoves DEF Record, outboxVars
  <2>2. CASE ~Goto(d, "undo")
    <3>1. PICK v \in Versions :
            run' = [run EXCEPT ![d].pc = "confirm", ![d].stored = v]
      BY <1>6, <2>2 DEF Record
    <3>2. Moved(d, "confirm", run[d].number, v, run[d].error)
      BY <3>1
    <3>3. v # NoVersion
      BY DEF Versions, NoVersion
    <3> QED
      BY <1>6, <3>2, <3>3 DEF Record, outboxVars
  <2> QED
    BY <2>1, <2>2
<1>7. CASE RecordFails(d)
  BY <1>7, GotoMoves DEF RecordFails, outboxVars
<1>8. CASE Undo(d)
  BY <1>8, CatchMoves DEF Undo, outboxVars
<1>9. CASE Succeed(d)
  BY <1>9, GotoMoves, CatchMoves DEF Succeed, outboxVars
<1>10. CASE SucceedFails(d)
  BY <1>10, CatchMoves DEF SucceedFails, outboxVars
<1>11. CASE QueueTarget(d)
  BY <1>11, GotoMoves, CatchMoves DEF QueueTarget, Fault, outboxVars
<1>12. CASE Disown(d)
  BY <1>12, GotoMoves DEF Disown, Outbox!Enqueue
<1>13. CASE SettleCanceled(d) \/ SettleFailed(d)
  BY <1>13, GotoMoves DEF SettleCanceled, SettleFailed, outboxVars
<1>14. CASE DeleteBytes(d)
  BY <1>14, GotoMoves DEF DeleteBytes, outboxVars
<1>15. CASE RunThrows(d)
  BY <1>15, CatchMoves DEF RunThrows, outboxVars
<1> QED
  BY <1>1, <1>2, <1>3, <1>4, <1>5, <1>6, <1>7, <1>8, <1>9, <1>10, <1>11, <1>12, <1>13, <1>14,
     <1>15 DEF BodyStep

(* A dispatcher between two events takes one up, and puts it down.          *)
LeaveStep(d) == CompleteEvent(d) \/ EventThrows(d) \/ DispatcherCrash(d)

LEMMA BeginMoves ==
  ASSUME ImportTypeOK, NEW d \in Dispatchers, FollowsEvent(d), NEW e \in Events,
         BeginDispatch(d, e)
  PROVE  /\ run' \in [Dispatchers -> Runs]
         /\ \A c \in Dispatchers : c # d => run'[c] = run[c] /\ current'[c] = current[c]
         /\ current[d] = NoEvent /\ claim[d][e] > 0 /\ current'[d] = e
         /\ run'[d].pc = (IF e.kind = "import" THEN "check" ELSE "delete")
         /\ run'[d].number = run[d].number
         /\ run[d].stored = NoVersion /\ run'[d].stored = NoVersion
         /\ UNCHANGED <<claim, evAttempts, evStatus>>
         /\ FollowsEvent(d)'
<1>1. Moved(d, IF e.kind = "import" THEN "check" ELSE "delete", run[d].number, run[d].stored,
            run[d].error)
  BY GotoMoves DEF BeginDispatch, RunPc
<1>2. current'[d] = e /\ \A c \in Dispatchers : c # d => current'[c] = current[c]
  BY DEF BeginDispatch, Outbox!Begin, ImportTypeOK, Outbox!OutboxTypeOK
<1>3. current[d] = NoEvent /\ claim[d][e] > 0 /\ UNCHANGED <<claim, evAttempts, evStatus>>
  BY DEF BeginDispatch, Outbox!Begin, Outbox!Batch
<1>4. e # NoEvent
  BY ImportEventsAssumption DEF Outbox!OutboxAssumption
<1>5. run[d].pc = "none" /\ run[d].stored = NoVersion
  BY <1>3 DEF FollowsEvent
<1>6. FollowsEvent(d)'
  BY <1>1, <1>2, <1>4, <1>5, EventKinds DEF Moved, FollowsEvent
<1> QED
  BY <1>1, <1>2, <1>3, <1>5, <1>6 DEF Moved

LEMMA LeaveStepMoves ==
  ASSUME ImportTypeOK, NEW d \in Dispatchers, LeaveStep(d)
  PROVE  /\ run' \in [Dispatchers -> Runs]
         /\ \A c \in Dispatchers :
              c # d => run'[c] = run[c] /\ current'[c] = current[c] /\ claim'[c] = claim[c]
         /\ \A e \in Events : claim'[d][e] > 0 => claim'[d][e] = claim[d][e] /\ e # current[d]
         /\ evAttempts' = evAttempts
         /\ current'[d] = NoEvent /\ run'[d].pc = "none" /\ run'[d].stored = NoVersion
         /\ FollowsEvent(d)'
<1>1. Moved(d, "none", 0, NoVersion, "none")
  BY LeaveMoves DEF LeaveStep, CompleteEvent, EventThrows, DispatcherCrash
<1>2. Outbox!Release(d) \/ Outbox!Abandon(d)
  BY DEF LeaveStep, CompleteEvent, EventThrows, DispatcherCrash, Outbox!Complete, Outbox!Fail
<1>3. /\ current'[d] = NoEvent
      /\ \A c \in Dispatchers : c # d => current'[c] = current[c] /\ claim'[c] = claim[c]
      /\ \A e \in Events : claim'[d][e] > 0 => claim'[d][e] = claim[d][e] /\ e # current[d]
  BY <1>2 DEF Outbox!Release, Outbox!Abandon, ImportTypeOK, Outbox!OutboxTypeOK
<1>4. evAttempts' = evAttempts
  BY DEF LeaveStep, CompleteEvent, EventThrows, DispatcherCrash, Outbox!Complete, Outbox!Fail,
     Outbox!Abandon
<1> QED
  BY <1>1, <1>3, <1>4 DEF Moved, FollowsEvent


(* A version, once made, keeps its import and its number.                   *)
LEMMA CommitKeeps ==
  ASSUME ImportTypeOK, NEW d \in Dispatchers, NEW v \in Versions, CommitVersion(d, v),
         Import(d) \in Imports
  PROVE  /\ owner' \in [Versions -> Imports \cup {NoImport}]
         /\ number' \in [Versions -> Numbers \cup {0}]
         /\ owner'[v] = Import(d) /\ number'[v] = run[d].number /\ v \notin Used
         /\ \A w \in Versions : w # v => owner'[w] = owner[w] /\ number'[w] = number[w]
         /\ Used' = Used \cup {v}
<1>1. run[d].number \in Numbers \cup {0}
  BY DEF ImportTypeOK
<1>2. /\ owner' = [owner EXCEPT ![v] = Import(d)]
      /\ number' = [number EXCEPT ![v] = run[d].number] /\ v \notin Used
  BY DEF CommitVersion
<1>3. \A w \in Versions : owner'[w] = (IF w = v THEN Import(d) ELSE owner[w])
  BY <1>2 DEF ImportTypeOK
<1>4. Used' = Used \cup {v}
  BY <1>3, ImportAssumption DEF Used
<1> QED
  BY <1>1, <1>2, <1>3, <1>4 DEF ImportTypeOK

(* The transaction of a run, committed. *)
Commits(d) == At(d, "record") /\ \E v \in Versions : CommitVersion(d, v)

(* The steps that touch the rows of versions or the storage.                *)
LEMMA StorageMoves ==
  ASSUME [Next]_vars
  PROVE  \/ UNCHANGED <<versionVars, storageVars>>
         \/ \E d \in Dispatchers :
              \/ (Record(d) \/ RecordFails(d)) /\ Commits(d)
              \/ Upload(d) \/ Undo(d) \/ Disown(d) \/ DeleteBytes(d)
<1> DEFINE Same == UNCHANGED <<versionVars, storageVars>>
<1>1. ASSUME NEW i \in Imports, Create(i) \/ Refresh(i) \/ Cancel(i) \/ Reconcile(i)
      PROVE  Same
  BY <1>1 DEF Create, Refresh, RequestImport, Cancel, Reconcile
<1>2. ASSUME NEW d \in Dispatchers, NEW S \in SUBSET Outbox!Due, ClaimEvents(d, S)
      PROVE  Same
  BY <1>2 DEF ClaimEvents
<1>3. ASSUME NEW d \in Dispatchers,
             LeaveStep(d) \/ CompletionAnswerLost(d) \/ \E e \in Events : BeginDispatch(d, e)
      PROVE  Same
  BY <1>3 DEF LeaveStep, CompleteEvent, EventThrows, DispatcherCrash, CompletionAnswerLost,
     BeginDispatch
<1>4. ASSUME NEW d \in Dispatchers, BodyStep(d), ~Record(d), ~RecordFails(d)
      PROVE  Same \/ Upload(d) \/ Undo(d) \/ Disown(d) \/ DeleteBytes(d)
  BY <1>4
  DEF BodyStep, CheckStart, MarkProcessing, Extract, ReadNumber, Confirm, Succeed,
      QueueTarget, SettleCanceled, SettleFailed, SucceedFails, RunThrows, runOnly
<1>5. ASSUME NEW d \in Dispatchers, Record(d) \/ RecordFails(d)
      PROVE  Same \/ Commits(d)
  BY <1>5 DEF Record, RecordFails, Commits
<1>6. ASSUME NEW e \in Events, Operate(e) PROVE Same
  BY <1>6 DEF Operate
<1>7. UNCHANGED vars => Same
  BY DEF vars
<1> QED
  BY <1>1, <1>2, <1>3, <1>4, <1>5, <1>6, <1>7 DEF Next, DispatcherStep, LeaveStep, BodyStep

(* Rows once made are never changed, only deleted.                          *)
LEMMA VersionsAreFinal ==
  ASSUME ImportTypeOK, RunsFollowEvents, [Next]_vars
  PROVE  /\ owner' \in [Versions -> Imports \cup {NoImport}]
         /\ number' \in [Versions -> Numbers \cup {0}]
         /\ \A v \in Used : v \in Used' /\ owner'[v] = owner[v] /\ number'[v] = number[v]
<1>1. CASE UNCHANGED <<owner, number>>
  BY <1>1 DEF ImportTypeOK, Used
<1>2. ASSUME NEW d \in Dispatchers, Commits(d)
      PROVE  /\ owner' \in [Versions -> Imports \cup {NoImport}]
             /\ number' \in [Versions -> Numbers \cup {0}]
             /\ \A v \in Used : v \in Used' /\ owner'[v] = owner[v] /\ number'[v] = number[v]
  <2>1. Import(d) \in Imports
    BY <1>2, ImportOfRun DEF Commits, At, RunsFollowEvents
  <2>2. PICK v \in Versions : CommitVersion(d, v)
    BY <1>2 DEF Commits
  <2> QED
    BY <2>1, <2>2, CommitKeeps DEF Used
<1>3. ASSUME NEW d \in Dispatchers, Upload(d) \/ Undo(d) \/ Disown(d) \/ DeleteBytes(d)
      PROVE  UNCHANGED <<owner, number>>
  BY <1>3 DEF Upload, Undo, Disown, DeleteBytes, versionVars
<1> QED
  BY <1>1, <1>2, <1>3, StorageMoves DEF versionVars

(* Nobody but the dispatcher that moves has its run, its event or its       *)
(* claims changed.                                                          *)
LEMMA OthersStay ==
  ASSUME ImportTypeOK, RunsFollowEvents, [Next]_vars
  PROVE  /\ run' \in [Dispatchers -> Runs]
         /\ \/ UNCHANGED <<run, current>>
            \/ \E d \in Dispatchers :
                 /\ \A c \in Dispatchers : c # d => run'[c] = run[c] /\ current'[c] = current[c]
                 /\ \/ BodyStep(d) /\ current' = current
                    \/ LeaveStep(d)
                    \/ \E e \in Events : BeginDispatch(d, e)
<1>0. run \in [Dispatchers -> Runs]
  BY DEF ImportTypeOK, Runs
<1>1. ASSUME NEW i \in Imports, Create(i) \/ Refresh(i) \/ Cancel(i) \/ Reconcile(i)
      PROVE  UNCHANGED <<run, current>>
  BY <1>1 DEF Create, Refresh, RequestImport, Cancel, Reconcile, outboxVars, Outbox!Enqueue
<1>2. ASSUME NEW d \in Dispatchers, NEW S \in SUBSET Outbox!Due, ClaimEvents(d, S)
      PROVE  UNCHANGED <<run, current>>
  BY <1>2 DEF ClaimEvents, Outbox!ClaimDue
<1>3. ASSUME NEW e \in Events, Operate(e) PROVE UNCHANGED <<run, current>>
  BY <1>3 DEF Operate, Outbox!Redrive, Outbox!Archive
<1>4. /\ UNCHANGED vars => UNCHANGED <<run, current>>
      /\ \A d \in Dispatchers : CompletionAnswerLost(d) => UNCHANGED <<run, current>>
  BY DEF vars, outboxVars, CompletionAnswerLost, Outbox!CompleteUnanswered
<1>5. ASSUME NEW d \in Dispatchers, BodyStep(d)
      PROVE  /\ run' \in [Dispatchers -> Runs] /\ current' = current
             /\ \A c \in Dispatchers : c # d => run'[c] = run[c]
  BY <1>5, BodyMoves DEF RunsFollowEvents
<1>6. ASSUME NEW d \in Dispatchers, LeaveStep(d)
      PROVE  /\ run' \in [Dispatchers -> Runs]
             /\ \A c \in Dispatchers : c # d => run'[c] = run[c] /\ current'[c] = current[c]
  BY <1>6, LeaveStepMoves
<1>7. ASSUME NEW d \in Dispatchers, NEW e \in Events, BeginDispatch(d, e)
      PROVE  /\ run' \in [Dispatchers -> Runs]
             /\ \A c \in Dispatchers : c # d => run'[c] = run[c] /\ current'[c] = current[c]
  BY <1>7, BeginMoves DEF RunsFollowEvents
<1>8. \/ UNCHANGED <<run, current>>
      \/ \E d \in Dispatchers : BodyStep(d) \/ LeaveStep(d) \/ \E e \in Events : BeginDispatch(d, e)
  BY <1>1, <1>2, <1>3, <1>4 DEF Next, DispatcherStep, LeaveStep, BodyStep
<1> QED
  BY <1>0, <1>5, <1>6, <1>7, <1>8

(* A run keeps to its event, whoever moves.                                 *)
LEMMA RunsFollowStep ==
  ASSUME ImportTypeOK, RunsFollowEvents, [Next]_vars
  PROVE  RunsFollowEvents'
<1>1. ASSUME NEW c \in Dispatchers, run'[c] = run[c], current'[c] = current[c]
      PROVE  FollowsEvent(c)'
  BY <1>1 DEF RunsFollowEvents, FollowsEvent
<1>2. UNCHANGED <<run, current>> => RunsFollowEvents'
  BY <1>1 DEF RunsFollowEvents
<1>3. ASSUME NEW d \in Dispatchers, BodyStep(d) \/ LeaveStep(d) \/ \E e \in Events : BeginDispatch(d, e)
      PROVE  FollowsEvent(d)'
  BY <1>3, BodyMoves, LeaveStepMoves, BeginMoves DEF RunsFollowEvents
<1> QED
  BY <1>1, <1>2, <1>3, OthersStay DEF RunsFollowEvents

(* A stored version was made.                                               *)
LEMMA StoredIsUsed ==
  ASSUME ImportTypeOK, StoredAreOwn, NEW c \in Dispatchers, run[c].stored # NoVersion
  PROVE  run[c].stored \in Used /\ Import(c) \in Imports
<1>1. owner[run[c].stored] = Import(c) /\ current[c] \in Events /\ current[c].kind = "import"
  BY DEF StoredAreOwn, StoredIsOwn, ImportTypeOK, Outbox!OutboxTypeOK
<1>2. Import(c) \in Imports
  BY <1>1, EventKinds DEF Import
<1> QED
  BY <1>1, <1>2, ImportAssumption DEF Used, ImportTypeOK

(* What a run has stored stays its own: a version's rows are made once.     *)
LEMMA StoredStep ==
  ASSUME RunInv, [Next]_vars
  PROVE  StoredAreOwn'
<1>0. ImportTypeOK /\ RunsFollowEvents /\ StoredAreOwn
  BY DEF RunInv
<1>2. ASSUME NEW c \in Dispatchers, run'[c].stored = run[c].stored,
             run'[c].number = run[c].number, current'[c] = current[c]
      PROVE  StoredIsOwn(c)'
  BY <1>0, <1>2, StoredIsUsed, VersionsAreFinal DEF StoredAreOwn, StoredIsOwn, Import
<1>3. ASSUME NEW d \in Dispatchers, BodyStep(d), ~Record(d) PROVE StoredIsOwn(d)'
  <2>1. /\ current' = current /\ run'[d].stored = run[d].stored
        /\ run'[d].number # run[d].number => run'[d].pc = "upload" /\ FollowsEvent(d)'
    BY <1>0, <1>3, BodyMoves DEF RunsFollowEvents
  <2> QED
    BY <1>2, <2>1 DEF StoredIsOwn, FollowsEvent
<1>4. ASSUME NEW d \in Dispatchers, Record(d) PROVE StoredIsOwn(d)'
  <2>0. /\ Import(d) \in Imports /\ current[d] = ImportEvent(Import(d))
        /\ run[d].stored = NoVersion /\ current' = current
        /\ run'[d].number = run[d].number /\ current[d] \in Events
    BY <1>0, <1>4, ImportOfRun, BodyMoves
    DEF Record, At, RunsFollowEvents, FollowsEvent, BodyStep
  <2>1. CASE run'[d].stored = NoVersion
    BY <2>1 DEF StoredIsOwn
  <2>2. CASE run'[d].stored # NoVersion
    <3>1. PICK v \in Versions :
            CommitVersion(d, v) /\ run' = [run EXCEPT ![d].pc = "confirm", ![d].stored = v]
      BY <1>0, <1>4, <2>0, <2>2, GotoMoves DEF Record, Moved, RunPc
    <3>2. run'[d].stored = v
      BY <1>0, <3>1 DEF ImportTypeOK
    <3>3. owner'[v] = Import(d) /\ number'[v] = run[d].number
      BY <1>0, <2>0, <3>1, CommitKeeps
    <3> QED
      BY <2>0, <3>2, <3>3, EventKinds, ImportEventsAssumption
      DEF StoredIsOwn, Import, Outbox!OutboxAssumption
  <2> QED
    BY <2>1, <2>2
<1>5. ASSUME NEW d \in Dispatchers, LeaveStep(d) \/ \E e \in Events : BeginDispatch(d, e)
      PROVE  StoredIsOwn(d)'
  BY <1>0, <1>5, LeaveStepMoves, BeginMoves DEF RunsFollowEvents, StoredIsOwn
<1> QED
  BY <1>0, <1>2, <1>3, <1>4, <1>5, OthersStay DEF StoredAreOwn


(* The parts of the type invariant that neither the outbox, the runs nor    *)
(* the recording of versions touch.                                         *)
RestTypeOK ==
  /\ jobStatus \in [Imports -> JobStatus] /\ cancelRequested \in [Imports -> BOOLEAN]
  /\ importStatus \in [Imports -> JobStatus]
  /\ datasetStatus \in {"NONE", "DRAFT", "READY", "ERROR"}
  /\ currentVersion \in Versions \cup {NoVersion}
  /\ versions \subseteq Versions /\ live \subseteq versions
  /\ object \in [Numbers -> Imports \cup {NoImport}]
  /\ uploads \in [Numbers -> Nat]
  /\ faults \in Nat /\ acts \in Nat /\ faults + acts <= MaxUpsets

LEMMA RestStep ==
  ASSUME ImportTypeOK, RunsFollowEvents, [Next]_vars
  PROVE  RestTypeOK'
<1>0. RestTypeOK /\ MaxUpsets \in Nat
  BY ImportAssumption DEF ImportTypeOK, RestTypeOK
<1> USE DEF RestTypeOK, JobStatus
<1>1. ASSUME NEW i \in Imports, Create(i) \/ Refresh(i) \/ Cancel(i) \/ Reconcile(i)
      PROVE  RestTypeOK'
  BY <1>0, <1>1
  DEF Create, Refresh, RequestImport, Cancel, Reconcile, SetJob, SetImport, versionVars,
      storageVars, datasetVars
<1>2. ASSUME NEW d \in Dispatchers, NEW S \in SUBSET Outbox!Due, ClaimEvents(d, S)
      PROVE  RestTypeOK'
  BY <1>0, <1>2 DEF ClaimEvents, jobVars, versionVars, storageVars, datasetVars
<1>3. ASSUME NEW d \in Dispatchers,
             LeaveStep(d) \/ CompletionAnswerLost(d) \/ \E e \in Events : BeginDispatch(d, e)
      PROVE  RestTypeOK'
  BY <1>0, <1>3
  DEF LeaveStep, CompleteEvent, EventThrows, DispatcherCrash, CompletionAnswerLost,
      BeginDispatch, Fault, jobVars, versionVars, storageVars, datasetVars
<1>4. ASSUME NEW e \in Events, Operate(e) PROVE RestTypeOK'
  BY <1>0, <1>4 DEF Operate, jobVars, versionVars, storageVars, datasetVars
<1>5. UNCHANGED vars => RestTypeOK'
  BY <1>0 DEF vars, jobVars, versionVars, storageVars, datasetVars
<1>6. ASSUME NEW d \in Dispatchers, BodyStep(d) PROVE RestTypeOK'
  <2>0. run[d].stored \in Versions \cup {NoVersion}
    BY DEF ImportTypeOK
  <2>1. CASE CheckStart(d) \/ Extract(d) \/ ReadNumber(d) \/ Confirm(d)
    BY <1>0, <2>1
    DEF CheckStart, Extract, ReadNumber, Confirm, runOnly, jobVars, versionVars, storageVars,
        datasetVars
  <2>2. CASE MarkProcessing(d) \/ SettleCanceled(d) \/ SettleFailed(d)
    BY <1>0, <2>2
    DEF MarkProcessing, SettleCanceled, SettleFailed, SetJob, SetImport, versionVars,
        storageVars, datasetVars
  <2>3. CASE Upload(d)
    <3>1. Import(d) \in Imports
      BY <2>3, ImportOfRun DEF Upload, At, RunsFollowEvents
    <3>2. uploads' \in [Numbers -> Nat]
      <4>1. uploads' = [uploads EXCEPT ![run[d].number] = uploads[run[d].number] + 1]
        BY <2>3 DEF Upload
      <4>2. \A n \in Numbers : uploads'[n] \in Nat
        BY <1>0, <4>1
      <4> QED
        BY <1>0, <4>1, <4>2
    <3>3. object' \in [Numbers -> Imports \cup {NoImport}]
      BY <1>0, <2>3, <3>1 DEF Upload
    <3> QED
      BY <1>0, <2>3, <3>2, <3>3 DEF Upload, jobVars, versionVars, datasetVars
  <2>4. CASE Record(d) \/ RecordFails(d)
    BY <1>0, <2>4
    DEF Record, RecordFails, CommitVersion, Fault, jobVars, versionVars, storageVars, datasetVars
  <2>5. CASE Undo(d) \/ DeleteBytes(d)
    BY <1>0, <2>5
    DEF Undo, DeleteBytes, DeleteObject, Fault, jobVars, versionVars, datasetVars
  <2>6. CASE Succeed(d) \/ SucceedFails(d)
    BY <1>0, <2>0, <2>6
    DEF Succeed, SucceedFails, Publish, SetJob, SetImport, Fault, jobVars, versionVars,
        storageVars, datasetVars
  <2>7. CASE QueueTarget(d) \/ RunThrows(d)
    BY <1>0, <2>7
    DEF QueueTarget, RunThrows, Fault, jobVars, versionVars, storageVars, datasetVars
  <2>8. CASE Disown(d)
    BY <1>0, <2>8 DEF Disown, jobVars, storageVars, datasetVars
  <2> QED
    BY <1>6, <2>1, <2>2, <2>3, <2>4, <2>5, <2>6, <2>7, <2>8 DEF BodyStep
<1> QED
  BY <1>1, <1>2, <1>3, <1>4, <1>5, <1>6 DEF Next, DispatcherStep, LeaveStep, BodyStep

(* Every step keeps the types.                                              *)
LEMMA TypeStep ==
  ASSUME RunInv, [Next]_vars
  PROVE  ImportTypeOK'
<1>1. run' \in [Dispatchers -> Runs]
  BY OthersStay DEF RunInv
<1> QED
  BY <1>1, OutboxKept, VersionsAreFinal, RestStep DEF RunInv, ImportTypeOK, RestTypeOK, Runs


-----------------------------------------------------------------------------
(* The rows of versions.                                                    *)

(* Only a run that takes its version back asks for the cleanup of it.       *)
LEMMA CleanupsAreAsked ==
  ASSUME RunInv, [Next]_vars, NEW v \in Versions, evStatus[CleanupEvent(v)] = "NONE",
         evStatus'[CleanupEvent(v)] # "NONE"
  PROVE  \E d \in Dispatchers : Disown(d) /\ run[d].stored = v
<1>0. /\ ImportTypeOK /\ RunsFollowEvents /\ OutboxFacts!CurrentIsHeld
      /\ OutboxFacts!HeldAreInserted /\ evStatus \in [Events -> Outbox!EventStatus]
      /\ CleanupEvent(v) \in Events
  BY EventKinds DEF RunInv, OutboxFacts!OutboxInv, ImportTypeOK, Outbox!OutboxTypeOK
<1>1. ASSUME NEW i \in Imports, Create(i) \/ Refresh(i) \/ Cancel(i) \/ Reconcile(i)
      PROVE  FALSE
  <2>1. CleanupEvent(v) # ImportEvent(i)
    BY EventKinds
  <2> QED
    BY <1>0, <1>1, <2>1
    DEF Create, Refresh, RequestImport, Cancel, Reconcile, Outbox!Enqueue, outboxVars
<1>2. ASSUME NEW d \in Dispatchers, NEW S \in SUBSET Outbox!Due, ClaimEvents(d, S)
      PROVE  FALSE
  BY <1>0, <1>2 DEF ClaimEvents, Outbox!ClaimDue, Outbox!Due
<1>3. ASSUME NEW d \in Dispatchers, LeaveStep(d) \/ CompletionAnswerLost(d) PROVE FALSE
  <2>1. CASE current[d] = NoEvent
    BY <1>3, <2>1
    DEF LeaveStep, CompleteEvent, EventThrows, DispatcherCrash, CompletionAnswerLost,
        Outbox!Complete, Outbox!CompleteUnanswered, Outbox!MarkCompleted, Outbox!Fail,
        Outbox!Abandon
  <2>2. CASE current[d] # NoEvent
    <3>1. current[d] \in Events /\ evStatus[current[d]] # "NONE"
      BY <1>0, <2>2
      DEF ImportTypeOK, Outbox!OutboxTypeOK, OutboxFacts!CurrentIsHeld,
          OutboxFacts!HeldAreInserted
    <3> QED
      BY <1>0, <1>3, <3>1
      DEF LeaveStep, CompleteEvent, EventThrows, DispatcherCrash, CompletionAnswerLost,
          Outbox!Complete, Outbox!CompleteUnanswered, Outbox!MarkCompleted, Outbox!Fail,
          Outbox!Abandon
  <2> QED
    BY <2>1, <2>2
<1>4. ASSUME NEW d \in Dispatchers, NEW e \in Events, BeginDispatch(d, e) PROVE FALSE
  BY <1>4 DEF BeginDispatch, Outbox!Begin
<1>5. ASSUME NEW d \in Dispatchers, BodyStep(d)
      PROVE  Disown(d) /\ run[d].stored = v
  <2>1. Disown(d)
    BY <1>5
    DEF BodyStep, CheckStart, MarkProcessing, Extract, ReadNumber, Upload, Record, Undo,
        Confirm, Succeed, QueueTarget, SettleCanceled, SettleFailed, DeleteBytes,
        RecordFails, SucceedFails, RunThrows, runOnly, outboxVars
  <2>2. run[d].stored \in Versions
    BY <1>0, <2>1 DEF Disown, At, RunsFollowEvents, FollowsEvent, ImportTypeOK
  <2>3. evStatus' = [evStatus EXCEPT ![CleanupEvent(run[d].stored)] = "PENDING"]
    BY <2>1 DEF Disown, Outbox!Enqueue
  <2>4. CleanupEvent(run[d].stored) = CleanupEvent(v)
    BY <1>0, <2>3
  <2> QED
    BY <2>1, <2>2, <2>4, EventKinds
<1>6. ASSUME NEW e \in Events, Operate(e) PROVE FALSE
  BY <1>0, <1>6 DEF Operate, Outbox!Redrive, Outbox!Archive
<1>7. UNCHANGED vars => FALSE
  BY DEF vars, outboxVars
<1> QED
  BY <1>1, <1>2, <1>3, <1>4, <1>5, <1>6, <1>7 DEF Next, DispatcherStep, LeaveStep, BodyStep

(* The dataset's row is made with its first import, and then changed by a   *)
(* run that publishes or that ends as failed.                               *)
LEMMA DatasetMoves ==
  ASSUME [Next]_vars
  PROVE  \/ UNCHANGED datasetVars
         \/ \E i \in Imports : Create(i)
         \/ \E d \in Dispatchers :
              \/ (Succeed(d) \/ SucceedFails(d)) /\ Continuing(Import(d)) /\ Publish(d)
              \/ SettleFailed(d)
<1>1. ASSUME NEW i \in Imports, Create(i) \/ Refresh(i) \/ Cancel(i) \/ Reconcile(i)
      PROVE  UNCHANGED datasetVars \/ Create(i)
  BY <1>1 DEF Refresh, RequestImport, Cancel, Reconcile, datasetVars
<1>2. ASSUME NEW d \in Dispatchers, NEW S \in SUBSET Outbox!Due, ClaimEvents(d, S)
      PROVE  UNCHANGED datasetVars
  BY <1>2 DEF ClaimEvents
<1>3. ASSUME NEW d \in Dispatchers,
             LeaveStep(d) \/ CompletionAnswerLost(d) \/ \E e \in Events : BeginDispatch(d, e)
      PROVE  UNCHANGED datasetVars
  BY <1>3 DEF LeaveStep, CompleteEvent, EventThrows, DispatcherCrash, CompletionAnswerLost,
     BeginDispatch
<1>4. ASSUME NEW d \in Dispatchers, BodyStep(d)
      PROVE  \/ UNCHANGED datasetVars
             \/ (Succeed(d) \/ SucceedFails(d)) /\ Continuing(Import(d)) /\ Publish(d)
             \/ SettleFailed(d)
  BY <1>4
  DEF BodyStep, CheckStart, MarkProcessing, Extract, ReadNumber, Upload, Record, Undo, Confirm,
      Succeed, QueueTarget, Disown, SettleCanceled, DeleteBytes, RecordFails, SucceedFails,
      RunThrows, runOnly
<1>5. ASSUME NEW e \in Events, Operate(e) PROVE UNCHANGED datasetVars
  BY <1>5 DEF Operate
<1>6. UNCHANGED vars => UNCHANGED datasetVars
  BY DEF vars
<1> QED
  BY <1>1, <1>2, <1>3, <1>4, <1>5, <1>6 DEF Next, DispatcherStep, LeaveStep, BodyStep

(* What a dataset points to changes to what a run has stored.               *)
LEMMA CurrentMoves ==
  ASSUME [Next]_vars, currentVersion' # currentVersion
  PROVE  \E d \in Dispatchers :
           (Succeed(d) \/ SucceedFails(d)) /\ Continuing(Import(d)) /\ Publish(d)
BY DatasetMoves DEF Create, RequestImport, SettleFailed, datasetVars

(* Uploads are only counted up.                                             *)
LEMMA UploadsGrow ==
  ASSUME ImportTypeOK, [Next]_vars, NEW n \in Numbers
  PROVE  uploads[n] \in Nat /\ uploads'[n] \in Nat /\ uploads'[n] >= uploads[n]
<1>1. uploads \in [Numbers -> Nat]
  BY DEF ImportTypeOK
<1>2. ASSUME NEW d \in Dispatchers, Upload(d)
      PROVE  uploads'[n] \in Nat /\ uploads'[n] >= uploads[n]
  <2>1. uploads' = [uploads EXCEPT ![run[d].number] = uploads[run[d].number] + 1]
    BY <1>2 DEF Upload
  <2> QED
    BY <1>1, <2>1
<1>3. ASSUME NEW d \in Dispatchers,
             Record(d) \/ RecordFails(d) \/ Undo(d) \/ Disown(d) \/ DeleteBytes(d)
      PROVE  uploads' = uploads
  BY <1>3 DEF Record, RecordFails, Undo, Disown, DeleteBytes, storageVars
<1> QED
  BY <1>1, <1>2, <1>3, StorageMoves DEF storageVars

(* The rows of a version come and go with its number in use and its cleanup *)
(* not asked for.                                                           *)
LEMMA VersionRowsStep ==
  ASSUME IInv, [Next]_vars, ImportTypeOK'
  PROVE  VersionRows'
<1>0. /\ RunInv /\ VersionRows /\ KeysAreShared /\ ImportTypeOK /\ RunsFollowEvents
      /\ StoredAreOwn
  BY DEF IInv, RunInv
<1> DEFINE Rows == /\ live = versions /\ versions \subseteq Used
                   /\ \A v \in Versions : evStatus[CleanupEvent(v)] = "NONE" <=>
                                            v \in versions \/ v \notin Used
           Numbered == \A v \in Used : number[v] \in Numbers /\ uploads[number[v]] > 0
<1>a. Rows /\ Numbered
  BY <1>0 DEF VersionRows
<1>1. currentVersion' # NoVersion => currentVersion' \in Used'
  <2>1. CASE currentVersion' = currentVersion
    BY <1>0, <2>1, VersionsAreFinal DEF VersionRows
  <2>2. CASE currentVersion' # currentVersion
    <3>1. PICK d \in Dispatchers : (Succeed(d) \/ SucceedFails(d)) /\ Publish(d)
      BY <2>2, CurrentMoves
    <3>2. run[d].stored # NoVersion
      BY <1>0, <3>1 DEF Succeed, SucceedFails, At, RunsFollowEvents, FollowsEvent
    <3> QED
      BY <1>0, <3>1, <3>2, StoredIsUsed, VersionsAreFinal DEF Publish
  <2> QED
    BY <2>1, <2>2
<1>2. \A v \in Used : number'[v] \in Numbers /\ uploads'[number'[v]] > 0
  BY <1>0, <1>a, VersionsAreFinal, UploadsGrow
<1>3. CASE UNCHANGED <<versions, live, owner>> /\ ~\E d \in Dispatchers : Disown(d)
  <2>1. Used' = Used
    BY <1>3 DEF Used
  <2>2. \A v \in Versions :
          evStatus'[CleanupEvent(v)] = "NONE" <=> evStatus[CleanupEvent(v)] = "NONE"
    BY <1>0, <1>3, CleanupsAreAsked, OutboxKept, EventKinds
  <2>3. Rows'
    BY <1>3, <1>a, <2>1, <2>2
  <2> QED
    BY <1>1, <1>2, <2>1, <2>3 DEF VersionRows
<1>4. ASSUME NEW d \in Dispatchers, Record(d) \/ RecordFails(d), Commits(d) PROVE VersionRows'
  <2>1. PICK v \in Versions : CommitVersion(d, v)
    BY <1>4 DEF Commits
  <2>2. At(d, "record") /\ Import(d) \in Imports
    BY <1>0, <1>4, ImportOfRun DEF Commits, At, RunsFollowEvents
  <2>3. /\ number'[v] = run[d].number /\ v \notin Used /\ Used' = Used \cup {v}
    BY <1>0, <2>1, <2>2, CommitKeeps
  <2>4. number'[v] \in Numbers /\ uploads'[number'[v]] > 0
    <3>1. run[d].number \in Numbers /\ uploads[run[d].number] > 0
      BY <1>0, <2>2 DEF At, RunsFollowEvents, FollowsEvent, KeysAreShared, HoldsKey
    <3> QED
      BY <1>0, <2>3, <3>1, UploadsGrow
  <2>5. versions' = versions \cup {v} /\ live' = live \cup {v}
    BY <2>1 DEF CommitVersion
  <2>6. UNCHANGED evStatus
    BY <1>4 DEF Record, RecordFails, outboxVars
  <2>7. Rows'
    BY <1>a, <2>3, <2>5, <2>6
  <2> QED
    BY <1>1, <1>2, <2>3, <2>4, <2>7 DEF VersionRows
<1>5. ASSUME NEW d \in Dispatchers, Disown(d) PROVE VersionRows'
  <2>1. UNCHANGED <<owner, number, uploads>> /\ Used' = Used
    BY <1>5 DEF Disown, storageVars, Used
  <2>2. run[d].stored \in Used
    BY <1>0, <1>5, StoredIsUsed DEF Disown, At, RunsFollowEvents, FollowsEvent
  <2>3. /\ versions' = versions \ {run[d].stored} /\ live' = live \ {run[d].stored}
        /\ evStatus' = [evStatus EXCEPT ![CleanupEvent(run[d].stored)] = "PENDING"]
    BY <1>5 DEF Disown, Outbox!Enqueue
  <2>4. /\ evStatus \in [Events -> Outbox!EventStatus]
        /\ Used \subseteq Versions
    BY <1>0 DEF ImportTypeOK, Outbox!OutboxTypeOK, Used
  <2>5. \A v \in Versions :
          evStatus'[CleanupEvent(v)] =
            IF v = run[d].stored THEN "PENDING" ELSE evStatus[CleanupEvent(v)]
    BY <2>2, <2>3, <2>4, EventKinds
  <2>6. Rows'
    BY <1>a, <2>1, <2>2, <2>3, <2>4, <2>5
  <2> QED
    BY <1>1, <1>2, <2>1, <2>6 DEF VersionRows
<1>6. ASSUME NEW d \in Dispatchers, Upload(d) \/ Undo(d) \/ DeleteBytes(d)
      PROVE  UNCHANGED <<versions, live, owner>> /\ UNCHANGED evStatus
  BY <1>6 DEF Upload, Undo, DeleteBytes, versionVars, outboxVars
<1> QED
  BY <1>3, <1>4, <1>5, <1>6, StorageMoves DEF versionVars


-----------------------------------------------------------------------------
(* Keys and the uploads to them.                                            *)

(* Only an upload brings a run to where it holds a key.                     *)
LEMMA KeyHoldersStay ==
  ASSUME ImportTypeOK, RunsFollowEvents, [Next]_vars, NEW c \in Dispatchers,
         HoldsKey(c)', ~Upload(c)
  PROVE  /\ HoldsKey(c) /\ run'[c].number = run[c].number /\ current'[c] = current[c]
         /\ run'[c].pc = "record" => run[c].pc = "record"
<1>1. CASE run'[c] = run[c] /\ current'[c] = current[c]
  BY <1>1 DEF HoldsKey
<1>2. CASE BodyStep(c)
  BY <1>2, BodyMoves DEF HoldsKey, RunsFollowEvents
<1>3. CASE LeaveStep(c)
  BY <1>3, LeaveStepMoves DEF HoldsKey
<1>4. CASE \E e \in Events : BeginDispatch(c, e)
  BY <1>4, BeginMoves DEF HoldsKey, RunsFollowEvents
<1> QED
  BY <1>1, <1>2, <1>3, <1>4, OthersStay

(* A run acknowledges a version when it records it, and is the first to.    *)
LEMMA AcknowledgedAtRecord ==
  ASSUME ImportTypeOK, RunsFollowEvents, [Next]_vars, NEW v \in Versions, Acknowledged(v)',
         ~Acknowledged(v)
  PROVE  \E d \in Dispatchers :
           /\ Record(d) /\ CommitVersion(d, v) /\ run'[d].pc = "confirm"
           /\ \A c \in Dispatchers : c # d => run'[c] = run[c]
<1>0. v # NoVersion
  BY DEF Versions, NoVersion
<1>1. currentVersion' # v
  <2>1. CASE currentVersion' = currentVersion
    BY <2>1 DEF Acknowledged
  <2>2. CASE currentVersion' # currentVersion
    BY <2>2, CurrentMoves DEF Acknowledged, Publish
  <2> QED
    BY <2>1, <2>2
<1>2. PICK d \in Dispatchers : run'[d].stored = v
  BY <1>1 DEF Acknowledged
<1>3. run[d].stored # v
  BY DEF Acknowledged
<1>4. BodyStep(d)
  BY <1>0, <1>2, <1>3, OthersStay, LeaveStepMoves, BeginMoves DEF RunsFollowEvents
<1>5. Record(d) /\ \A c \in Dispatchers : c # d => run'[c] = run[c]
  BY <1>2, <1>3, <1>4, BodyMoves DEF RunsFollowEvents
<1>6. ~Goto(d, "undo")
  BY <1>2, <1>3, GotoMoves DEF Moved, RunPc
<1>7. PICK w \in Versions :
        CommitVersion(d, w) /\ run' = [run EXCEPT ![d].pc = "confirm", ![d].stored = w]
  BY <1>5, <1>6 DEF Record
<1>8. run'[d].stored = w /\ run'[d].pc = "confirm"
  BY <1>7 DEF ImportTypeOK
<1> QED
  BY <1>2, <1>5, <1>7, <1>8

(* A run that deletes or shares another's key has uploaded to it too.       *)
LEMMA KeysAreSharedStep ==
  ASSUME IInv, [Next]_vars
  PROVE  KeysAreShared'
<1>0. /\ ImportTypeOK /\ RunsFollowEvents /\ StoredAreOwn /\ VersionRows
      /\ uploads \in [Numbers -> Nat] /\ Used \subseteq Versions
  BY DEF IInv, RunInv, ImportTypeOK, Used
<1>a. /\ \A d \in Dispatchers : HoldsKey(d) => run[d].number \in Numbers
      /\ \A v \in Used : number[v] \in Numbers /\ uploads[number[v]] > 0
  BY <1>0 DEF RunsFollowEvents, FollowsEvent, HoldsKey, VersionRows
<1> DEFINE Keys == \A d \in Dispatchers : HoldsKey(d) => uploads[run[d].number] > 0
           Pairs == \A c, d \in Dispatchers :
             c # d /\ HoldsKey(c) /\ HoldsKey(d) /\ run[c].number = run[d].number =>
               Shared(run[d].number)
           Twins == \A v, w \in Used : v # w /\ number[v] = number[w] => Shared(number[v])
           Others == \A d \in Dispatchers, v \in Used :
             HoldsKey(d) /\ run[d].number = number[v]
               /\ (run[d].pc = "record" \/ Acknowledged(v)) => Shared(number[v])
<1>b. Keys /\ Pairs /\ Twins /\ Others
  BY DEF IInv, KeysAreShared
<1>c. \A n \in Numbers : Shared(n) => uploads'[n] > 1
  BY <1>0, UploadsGrow DEF Shared
<1>1. ASSUME UNCHANGED <<owner, number, uploads>>, ~\E d \in Dispatchers : Upload(d),
             \A v \in Used : Acknowledged(v)' => Acknowledged(v)
      PROVE  KeysAreShared'
  <2>1. Used' = Used /\ \A n \in Numbers : Shared(n) <=> uploads'[n] > 1
    BY <1>1 DEF Used, Shared
  <2>2. \A c \in Dispatchers : HoldsKey(c)' =>
          /\ HoldsKey(c) /\ run'[c].number = run[c].number
          /\ run'[c].pc = "record" => run[c].pc = "record"
    BY <1>0, <1>1, KeyHoldersStay
  <2>3. Keys' /\ Pairs'
    BY <1>1, <1>a, <1>b, <2>1, <2>2 DEF Shared
  <2>4. Twins' /\ Others'
    BY <1>1, <1>a, <1>b, <2>1, <2>2 DEF Shared
  <2> QED
    BY <2>3, <2>4 DEF KeysAreShared
<1>2. ASSUME NEW d \in Dispatchers, Upload(d) PROVE KeysAreShared'
  <2>0. /\ UNCHANGED <<owner, number, currentVersion>> /\ Used' = Used
        /\ run[d].number \in Numbers
        /\ uploads' = [uploads EXCEPT ![run[d].number] = uploads[run[d].number] + 1]
    BY <1>0, <1>2
    DEF Upload, At, RunsFollowEvents, FollowsEvent, versionVars, datasetVars, Used
  <2>1. /\ Moved(d, "record", run[d].number, run[d].stored, run[d].error)
        /\ \A c \in Dispatchers : run'[c].number = run[c].number /\ run'[c].stored = run[c].stored
        /\ \A c \in Dispatchers : c # d => run'[c] = run[c]
    BY <1>0, <1>2, GotoMoves DEF Upload, Moved, RunPc
  <2>2. \A v : Acknowledged(v)' <=> Acknowledged(v)
    BY <2>0, <2>1 DEF Acknowledged
  <2>3. \A n \in Numbers :
          uploads'[n] = IF n = run[d].number THEN uploads[n] + 1 ELSE uploads[n]
    BY <1>0, <2>0
  <2>4. /\ uploads'[run[d].number] > 0
        /\ uploads[run[d].number] > 0 => uploads'[run[d].number] > 1
    BY <1>0, <2>0, <2>3
  <2>5. Keys'
    BY <1>0, <1>a, <1>b, <2>1, <2>3, <2>4 DEF HoldsKey
  <2>6. Pairs'
    <3> SUFFICES ASSUME NEW b \in Dispatchers, NEW c \in Dispatchers, b # c,
                        HoldsKey(b)', HoldsKey(c)', run'[b].number = run'[c].number
                 PROVE  uploads'[run'[c].number] > 1
      BY DEF Shared
    <3>1. CASE b # d /\ c # d
      BY <1>a, <1>b, <1>c, <2>1, <3>1 DEF HoldsKey
    <3>2. CASE b = d
      BY <1>b, <2>1, <2>4, <3>2 DEF HoldsKey
    <3>3. CASE c = d
      BY <1>b, <2>1, <2>4, <3>3 DEF HoldsKey
    <3> QED
      BY <3>1, <3>2, <3>3
  <2>7. Twins'
    BY <1>a, <1>b, <1>c, <2>0 DEF Shared
  <2>8. Others'
    <3> SUFFICES ASSUME NEW c \in Dispatchers, NEW v \in Used, HoldsKey(c)',
                        run'[c].number = number[v], run'[c].pc = "record" \/ Acknowledged(v)'
                 PROVE  uploads'[number[v]] > 1
      BY <2>0 DEF Shared
    <3>1. CASE c # d
      BY <1>a, <1>b, <1>c, <2>1, <2>2, <3>1 DEF HoldsKey
    <3>2. CASE c = d
      BY <1>a, <2>1, <2>4, <3>2
    <3> QED
      BY <3>1, <3>2
  <2> QED
    BY <2>5, <2>6, <2>7, <2>8 DEF KeysAreShared
<1>3. ASSUME NEW d \in Dispatchers, Record(d) \/ RecordFails(d), Commits(d)
      PROVE  KeysAreShared'
  <2>1. /\ run[d].pc = "record" /\ HoldsKey(d) /\ Import(d) \in Imports
        /\ UNCHANGED <<uploads, currentVersion>>
    BY <1>0, <1>3, ImportOfRun
    DEF Commits, At, RunsFollowEvents, HoldsKey, Record, RecordFails, storageVars, datasetVars
  <2>2. PICK v \in Versions : CommitVersion(d, v)
    BY <1>3 DEF Commits
  <2>3. /\ number'[v] = run[d].number /\ v \notin Used /\ Used' = Used \cup {v}
        /\ \A w \in Used : number'[w] = number[w]
    BY <1>0, <2>1, <2>2, CommitKeeps
  <2>4. run'[d].pc # "record" /\ \A c \in Dispatchers : ~Upload(c)
    BY <1>0, <1>3, BodyMoves
    DEF RunsFollowEvents, Upload, At, Record, RecordFails, BodyStep, Commits
  <2>5. \A c \in Dispatchers : HoldsKey(c)' =>
          /\ HoldsKey(c) /\ run'[c].number = run[c].number
          /\ run'[c].pc = "record" => run[c].pc = "record"
    BY <1>0, <2>4, KeyHoldersStay
  <2>6. \A n : Shared(n) <=> uploads'[n] > 1
    BY <2>1 DEF Shared
  <2>7. Keys' /\ Pairs'
    BY <1>b, <2>1, <2>5, <2>6 DEF Shared
  <2>8. Twins'
    BY <1>b, <2>1, <2>3, <2>6 DEF Shared
  <2>9. ASSUME NEW w \in Used, Acknowledged(w)' PROVE Acknowledged(w)
    <3>1. ASSUME NEW c \in Dispatchers, CommitVersion(c, w) PROVE FALSE
      BY <3>1 DEF CommitVersion
    <3> QED
      BY <1>0, <2>9, <3>1, AcknowledgedAtRecord
  <2>10. ASSUME NEW c \in Dispatchers, HoldsKey(c)', run'[c].number = number'[v],
                run'[c].pc = "record" \/ Acknowledged(v)'
         PROVE  Shared(number'[v])
    <3>1. HoldsKey(c) /\ run[c].number = run[d].number
      BY <2>3, <2>5, <2>10
    <3>2. CASE c # d
      BY <1>b, <2>1, <2>3, <3>1, <3>2
    <3>3. CASE c = d
      <4>1. Acknowledged(v)' /\ run'[d].pc = "undo"
        BY <2>4, <2>10, <3>3 DEF HoldsKey
      <4>2. Acknowledged(v)
        <5>1. ASSUME NEW b \in Dispatchers, CommitVersion(b, v), Record(b),
                     \A a \in Dispatchers : a # b => run'[a] = run[a], run'[b].pc = "confirm"
              PROVE  FALSE
          BY <2>1, <4>1, <5>1
        <5> QED
          BY <1>0, <4>1, <5>1, AcknowledgedAtRecord
      <4>3. v = currentVersion => v \in Used
        BY <1>0 DEF VersionRows, NoVersion, Versions
      <4>4. \A b \in Dispatchers : run[b].stored = v => v \in Used
        BY <1>0, StoredIsUsed DEF NoVersion, Versions
      <4> QED
        BY <2>3, <4>2, <4>3, <4>4 DEF Acknowledged
    <3> QED
      BY <3>2, <3>3
  <2>11. Others'
    <3> SUFFICES ASSUME NEW c \in Dispatchers, NEW w \in Used', HoldsKey(c)',
                        run'[c].number = number'[w], run'[c].pc = "record" \/ Acknowledged(w)'
                 PROVE  uploads'[number'[w]] > 1
      BY DEF Shared
    <3>1. CASE w = v
      BY <2>6, <2>10, <3>1
    <3>2. CASE w # v
      BY <1>b, <2>3, <2>5, <2>6, <2>9, <3>2
    <3> QED
      BY <3>1, <3>2
  <2> QED
    BY <2>7, <2>8, <2>11 DEF KeysAreShared
<1>4. ASSUME NEW d \in Dispatchers, Undo(d) \/ Disown(d) \/ DeleteBytes(d)
      PROVE  UNCHANGED <<owner, number, uploads>>
  BY <1>4 DEF Undo, Disown, DeleteBytes, versionVars, storageVars
<1>5. ASSUME ~\E d \in Dispatchers : (Record(d) \/ RecordFails(d)) /\ Commits(d)
      PROVE  \A v \in Used : Acknowledged(v)' => Acknowledged(v)
  <2>1. ASSUME NEW d \in Dispatchers, NEW v \in Used, Record(d), CommitVersion(d, v)
        PROVE  FALSE
    BY <2>1 DEF CommitVersion
  <2> QED
    BY <1>0, <2>1, AcknowledgedAtRecord
<1> QED
  BY <1>1, <1>2, <1>3, <1>4, <1>5, StorageMoves DEF versionVars, storageVars


(* A version that a run or the dataset acknowledges was made.               *)
LEMMA AcknowledgedIsUsed ==
  ASSUME ImportTypeOK, StoredAreOwn, VersionRows, NEW v \in Versions, Acknowledged(v)
  PROVE  v \in Used
<1>1. v # NoVersion
  BY DEF Versions, NoVersion
<1> QED
  BY <1>1, StoredIsUsed DEF Acknowledged, VersionRows

(* The key of an acknowledged version loses its data only to a run that has *)
(* uploaded there: the cleanup of an earlier version of the same number, or *)
(* a run that undoes its own upload.                                        *)
LEMMA KeysHoldDataStep ==
  ASSUME IInv, [Next]_vars
  PROVE  KeysHoldData'
<1>0. /\ RunInv /\ ImportTypeOK /\ RunsFollowEvents /\ StoredAreOwn /\ VersionRows
      /\ KeysAreShared /\ KeysHoldData
      /\ uploads \in [Numbers -> Nat] /\ object \in [Numbers -> Imports \cup {NoImport}]
      /\ Used \subseteq Versions /\ versions \subseteq Used
      /\ \A v \in Used : number[v] \in Numbers
      /\ \A c \in Dispatchers : HoldsKey(c) => run[c].number \in Numbers
  BY DEF IInv, RunInv, ImportTypeOK, Used, VersionRows, RunsFollowEvents, FollowsEvent, HoldsKey
<1>a. \A n \in Numbers : Shared(n) => uploads'[n] > 1
  BY <1>0, UploadsGrow DEF Shared
<1>b. \A v \in Used : owner'[v] = owner[v] /\ number'[v] = number[v]
  BY <1>0, VersionsAreFinal
<1>c. \A c \in Dispatchers : run[c].pc = "record" =>
        run[c].number \in Numbers /\ (object[run[c].number] = Import(c) \/ Shared(run[c].number))
  BY <1>0 DEF KeysHoldData, HoldsKey
<1>d. \A v \in versions : Acknowledged(v) => object[number[v]] = owner[v] \/ Shared(number[v])
  BY <1>0 DEF KeysHoldData
(* Whoever overwrites or deletes another's data has uploaded there as well. *)
<1> DEFINE Intact(n) == object'[n] = object[n] \/ uploads'[n] > 1
<1>1. /\ \A c \in Dispatchers : run[c].pc = "record" => Intact(run[c].number)
      /\ \A v \in versions : Acknowledged(v) => Intact(number[v])
  <2>1. CASE UNCHANGED storageVars
    BY <2>1 DEF storageVars
  <2>2. ASSUME NEW d \in Dispatchers, Record(d) \/ RecordFails(d) \/ Disown(d)
        PROVE  UNCHANGED storageVars
    BY <2>2 DEF Record, RecordFails, Disown
  <2>3. ASSUME NEW d \in Dispatchers, Upload(d), NEW n \in Numbers, uploads[n] > 0
        PROVE  Intact(n)
    <3>1. /\ object' = [object EXCEPT ![run[d].number] = Import(d)]
          /\ uploads' = [uploads EXCEPT ![run[d].number] = uploads[run[d].number] + 1]
      BY <2>3 DEF Upload
    <3> QED
      BY <1>0, <2>3, <3>1
  <2>4. ASSUME NEW d \in Dispatchers, Upload(d)
        PROVE  /\ \A c \in Dispatchers : run[c].pc = "record" => Intact(run[c].number)
               /\ \A v \in versions : Acknowledged(v) => Intact(number[v])
    <3> HIDE DEF Intact
    <3>1. \A c \in Dispatchers : run[c].pc = "record" => uploads[run[c].number] > 0
      BY <1>0 DEF KeysAreShared, HoldsKey
    <3>2. \A v \in versions : uploads[number[v]] > 0
      BY <1>0 DEF VersionRows
    <3> QED
      BY <1>0, <1>c, <2>3, <2>4, <3>1, <3>2
  <2>5. ASSUME NEW d \in Dispatchers, Undo(d)
        PROVE  /\ \A c \in Dispatchers : run[c].pc = "record" => Intact(run[c].number)
               /\ \A v \in versions : Acknowledged(v) => Intact(number[v])
    <3>1. /\ run[d].pc = "undo" /\ HoldsKey(d)
          /\ \A n \in Numbers : n # run[d].number => object'[n] = object[n]
      BY <1>0, <2>5 DEF Undo, At, HoldsKey, DeleteObject
    <3>2. \A c \in Dispatchers : run[c].pc = "record" /\ run[c].number = run[d].number =>
            Shared(run[c].number)
      BY <1>0, <3>1 DEF KeysAreShared, HoldsKey
    <3>3. \A v \in versions : Acknowledged(v) /\ number[v] = run[d].number => Shared(number[v])
      BY <1>0, <3>1 DEF KeysAreShared
    <3> QED
      BY <1>0, <1>a, <1>c, <3>1, <3>2, <3>3
  <2>6. ASSUME NEW d \in Dispatchers, DeleteBytes(d)
        PROVE  /\ \A c \in Dispatchers : run[c].pc = "record" => Intact(run[c].number)
               /\ \A v \in versions : Acknowledged(v) => Intact(number[v])
    <3>1. current[d] \in Events /\ current[d].kind = "cleanup" /\ claim[d][current[d]] > 0
      BY <1>0, <2>6
      DEF DeleteBytes, At, RunsFollowEvents, FollowsEvent, RunInv, OutboxFacts!OutboxInv,
          OutboxFacts!CurrentIsHeld, ImportTypeOK, Outbox!OutboxTypeOK
    <3>2. PICK w \in Versions : w = current[d].version /\ current[d] = CleanupEvent(w)
      BY <3>1, EventKinds
    <3>3. evStatus[CleanupEvent(w)] # "NONE"
      BY <1>0, <3>1, <3>2 DEF RunInv, OutboxFacts!HeldAreInserted
    <3>4. w \in Used /\ w \notin versions
      BY <1>0, <3>3 DEF VersionRows
    <3>5. \A n \in Numbers : n # number[w] => object'[n] = object[n]
      BY <1>0, <2>6, <3>2 DEF DeleteBytes, DeleteObject
    <3>6. \A c \in Dispatchers : run[c].pc = "record" /\ run[c].number = number[w] =>
            Shared(run[c].number)
      BY <1>0, <3>4 DEF KeysAreShared, HoldsKey
    <3>7. \A v \in versions : number[v] = number[w] => Shared(number[v])
      BY <1>0, <3>4 DEF KeysAreShared
    <3> QED
      BY <1>0, <1>a, <1>c, <3>5, <3>6, <3>7
  <2> HIDE DEF Intact
  <2> QED
    BY <2>1, <2>2, <2>4, <2>5, <2>6, StorageMoves
<1>2. \A v \in versions' : v \in Versions /\ (v \in versions \/ v \notin Used)
  <2>1. ASSUME NEW d \in Dispatchers, Commits(d), NEW v \in versions'
        PROVE  v \in Versions /\ (v \in versions \/ v \notin Used)
    BY <1>0, <2>1 DEF Commits, CommitVersion
  <2>2. ASSUME NEW d \in Dispatchers, Upload(d) \/ Undo(d) \/ Disown(d) \/ DeleteBytes(d)
        PROVE  versions' \subseteq versions
    BY <2>2 DEF Upload, Undo, Disown, DeleteBytes, versionVars
  <2> QED
    BY <1>0, <2>1, <2>2, StorageMoves DEF versionVars
<1>3. ASSUME NEW c \in Dispatchers, run'[c].pc = "record"
      PROVE  object'[run'[c].number] = Import(c)' \/ uploads'[run'[c].number] > 1
  <2>1. CASE Upload(c)
    <3>1. /\ run[c].number \in Numbers /\ run'[c].number = run[c].number /\ current' = current
          /\ object' = [object EXCEPT ![run[c].number] = Import(c)]
      BY <1>0, <2>1, BodyMoves DEF Upload, At, RunsFollowEvents, FollowsEvent, BodyStep
    <3> QED
      BY <1>0, <3>1 DEF Import
  <2>2. CASE ~Upload(c)
    <3>1. run[c].pc = "record" /\ run'[c].number = run[c].number /\ current'[c] = current[c]
      BY <1>0, <1>3, <2>2, KeyHoldersStay DEF HoldsKey
    <3> QED
      BY <1>1, <1>a, <1>c, <3>1 DEF Import
  <2> QED
    BY <2>1, <2>2
<1>4. ASSUME NEW v \in versions', Acknowledged(v)'
      PROVE  object'[number'[v]] = owner'[v] \/ uploads'[number'[v]] > 1
  <2>1. CASE Acknowledged(v)
    <3>1. v \in versions
      BY <1>0, <1>2, <2>1, AcknowledgedIsUsed
    <3> QED
      BY <1>0, <1>1, <1>a, <1>b, <1>d, <2>1, <3>1
  <2>2. CASE ~Acknowledged(v)
    <3>1. PICK d \in Dispatchers : Record(d) /\ CommitVersion(d, v)
      BY <1>0, <1>2, <1>4, <2>2, AcknowledgedAtRecord
    <3>2. run[d].pc = "record" /\ Import(d) \in Imports
      BY <1>0, <3>1, ImportOfRun DEF Record, At, RunsFollowEvents
    <3>3. number'[v] = run[d].number /\ owner'[v] = Import(d)
      BY <1>0, <1>2, <3>1, <3>2, CommitKeeps
    <3> QED
      BY <1>1, <1>a, <1>c, <3>2, <3>3
  <2> QED
    BY <2>1, <2>2
<1> QED
  BY <1>3, <1>4 DEF KeysHoldData, Shared


-----------------------------------------------------------------------------
(* Jobs and the dataset.                                                    *)

(* A dataset shows READY exactly when it points to a version.               *)
LEMMA DatasetStep ==
  ASSUME ImportTypeOK, RunsFollowEvents, DatasetStatusTrue, [Next]_vars
  PROVE  /\ DatasetStatusTrue'
         /\ datasetStatus' = "NONE" => datasetStatus = "NONE"
<1> USE DEF DatasetStatusTrue
<1>1. CASE UNCHANGED datasetVars
  BY <1>1 DEF datasetVars
<1>2. ASSUME NEW i \in Imports, Create(i)
      PROVE  DatasetStatusTrue' /\ datasetStatus' # "NONE"
  BY <1>2 DEF Create, RequestImport
<1>3. ASSUME NEW d \in Dispatchers, Succeed(d) \/ SucceedFails(d), Publish(d)
      PROVE  DatasetStatusTrue' /\ datasetStatus' # "NONE"
  <2>1. run[d].stored # NoVersion
    BY <1>3 DEF Succeed, SucceedFails, At, RunsFollowEvents, FollowsEvent
  <2> QED
    BY <1>3, <2>1 DEF Publish
<1>4. ASSUME NEW d \in Dispatchers, SettleFailed(d)
      PROVE  DatasetStatusTrue' /\ (datasetStatus' = "NONE" => datasetStatus = "NONE")
  BY <1>4 DEF SettleFailed
<1> QED
  BY <1>1, <1>2, <1>3, <1>4, DatasetMoves

(* A job changes while it is active, or when it is requested; a request to  *)
(* cancel it is never taken back; and only its own run makes it succeed.    *)
LEMMA JobMoves ==
  ASSUME ImportTypeOK, RunsFollowEvents, [Next]_vars, NEW i \in Imports
  PROVE  /\ jobStatus'[i] # jobStatus[i] =>
              ActiveJob(i) \/ (jobStatus[i] = "NONE" /\ (Create(i) \/ Refresh(i)))
         /\ cancelRequested[i] => cancelRequested'[i]
         /\ jobStatus'[i] = "SUCCEEDED" /\ jobStatus[i] # "SUCCEEDED" =>
              \E d \in Dispatchers : (Succeed(d) \/ SucceedFails(d)) /\ Publish(d) /\ Import(d) = i
         /\ importStatus'[i] # importStatus[i] =>
              \/ jobStatus[i] # "SUCCEEDED"
              \/ \E d \in Dispatchers :
                   (SettleCanceled(d) \/ SettleFailed(d)) /\ Import(d) = i
<1>0. /\ jobStatus \in [Imports -> JobStatus] /\ cancelRequested \in [Imports -> BOOLEAN]
      /\ importStatus \in [Imports -> JobStatus]
  BY DEF ImportTypeOK
<1> DEFINE Moves ==
  /\ jobStatus'[i] # jobStatus[i] =>
       ActiveJob(i) \/ (jobStatus[i] = "NONE" /\ (Create(i) \/ Refresh(i)))
  /\ cancelRequested[i] => cancelRequested'[i]
  /\ jobStatus'[i] = "SUCCEEDED" /\ jobStatus[i] # "SUCCEEDED" =>
       \E d \in Dispatchers : (Succeed(d) \/ SucceedFails(d)) /\ Publish(d) /\ Import(d) = i
  /\ importStatus'[i] # importStatus[i] =>
       \/ jobStatus[i] # "SUCCEEDED"
       \/ \E d \in Dispatchers : (SettleCanceled(d) \/ SettleFailed(d)) /\ Import(d) = i
<1>1. ASSUME NEW k \in Imports, Create(k) \/ Refresh(k) PROVE Moves
  BY <1>0, <1>1 DEF Create, Refresh, RequestImport, SetJob, SetImport
<1>2. ASSUME NEW k \in Imports, Cancel(k) PROVE Moves
  BY <1>0, <1>2 DEF Cancel, SetJob, ActiveJob
<1>3. ASSUME NEW k \in Imports, Reconcile(k) PROVE Moves
  BY <1>0, <1>3 DEF Reconcile, SetJob, SetImport, ActiveJob
<1>4. UNCHANGED <<jobVars, importStatus>> => Moves
  BY DEF jobVars
<1>5. ASSUME NEW d \in Dispatchers, NEW S \in SUBSET Outbox!Due, ClaimEvents(d, S)
      PROVE  UNCHANGED <<jobVars, importStatus>>
  BY <1>5 DEF ClaimEvents
<1>6. ASSUME NEW d \in Dispatchers,
             LeaveStep(d) \/ CompletionAnswerLost(d) \/ \E e \in Events : BeginDispatch(d, e)
      PROVE  UNCHANGED <<jobVars, importStatus>>
  BY <1>6 DEF LeaveStep, CompleteEvent, EventThrows, DispatcherCrash, CompletionAnswerLost,
     BeginDispatch
<1>7. ASSUME NEW d \in Dispatchers, BodyStep(d) PROVE Moves
  <2>1. CASE MarkProcessing(d)
    BY <1>0, <2>1 DEF MarkProcessing, SetJob, SetImport, Continuing, ActiveJob
  <2>2. CASE Succeed(d) \/ SucceedFails(d)
    BY <1>0, <2>2 DEF Succeed, SucceedFails, Publish, SetJob, SetImport, Continuing, ActiveJob
  <2>3. CASE SettleCanceled(d)
    BY <1>0, <2>3 DEF SettleCanceled, SetJob, SetImport, ActiveJob
  <2>4. CASE SettleFailed(d)
    BY <1>0, <2>4 DEF SettleFailed, SetJob, SetImport, Continuing, ActiveJob
  <2>5. CASE ~MarkProcessing(d) /\ ~Succeed(d) /\ ~SucceedFails(d) /\ ~SettleCanceled(d)
               /\ ~SettleFailed(d)
    <3>1. UNCHANGED <<jobVars, importStatus>>
      BY <1>7, <2>5
      DEF BodyStep, CheckStart, Extract, ReadNumber, Upload, Record, Undo, Confirm, QueueTarget,
          Disown, DeleteBytes, RecordFails, RunThrows, runOnly
    <3> QED
      BY <1>4, <3>1
  <2> QED
    BY <2>1, <2>2, <2>3, <2>4, <2>5
<1>8. ASSUME NEW e \in Events, Operate(e) PROVE UNCHANGED <<jobVars, importStatus>>
  BY <1>8 DEF Operate
<1>9. UNCHANGED vars => UNCHANGED <<jobVars, importStatus>>
  BY DEF vars
<1> HIDE DEF Moves
<1>10. Moves
  BY <1>1, <1>2, <1>3, <1>4, <1>5, <1>6, <1>7, <1>8, <1>9
  DEF Next, DispatcherStep, LeaveStep, BodyStep
<1> QED
  BY <1>10 DEF Moves

(* A request waits until no job of the dataset is active.                   *)
LEMMA OneActiveStep ==
  ASSUME IInv, [Next]_vars
  PROVE  OneActive'
<1>0. ImportTypeOK /\ RunsFollowEvents /\ DatasetStatusTrue /\ OneActive
  BY DEF IInv, RunInv
<1>1. ASSUME NEW i \in Imports, Create(i) \/ Refresh(i)
      PROVE  /\ \A k \in Imports : ~ActiveJob(k) /\ (k # i => jobStatus'[k] = jobStatus[k])
             /\ datasetStatus' # "NONE"
  BY <1>0, <1>1
  DEF Create, Refresh, RequestImport, SetJob, OneActive, ActiveJob, ImportTypeOK
<1>2. ASSUME NEW i \in Imports, NEW k \in Imports, ActiveJob(i)', ActiveJob(k)', i # k
      PROVE  FALSE
  <2>1. CASE ~\E j \in Imports : Create(j) \/ Refresh(j)
    BY <1>0, <1>2, <2>1, JobMoves DEF OneActive, ActiveJob
  <2>2. ASSUME NEW j \in Imports, Create(j) \/ Refresh(j) PROVE FALSE
    BY <1>1, <1>2, <2>2 DEF ActiveJob
  <2> QED
    BY <2>1, <2>2
<1>3. ASSUME datasetStatus' = "NONE", NEW i \in Imports PROVE jobStatus'[i] = "NONE"
  <2>1. jobStatus[i] = "NONE"
    BY <1>0, <1>3, DatasetStep DEF OneActive
  <2> QED
    BY <1>0, <1>1, <1>3, <2>1, JobMoves DEF ActiveJob
<1> QED
  BY <1>2, <1>3 DEF OneActive


-----------------------------------------------------------------------------
(* Numbers.                                                                 *)

(* A run that has read its number keeps it.                                 *)
LEMMA ReadersStay ==
  ASSUME ImportTypeOK, RunsFollowEvents, [Next]_vars, NEW c \in Dispatchers,
         run'[c].pc \in AfterRead, ~ReadNumber(c)
  PROVE  run[c].pc \in AfterRead /\ run'[c].number = run[c].number /\ current'[c] = current[c]
<1>1. CASE run'[c] = run[c] /\ current'[c] = current[c]
  BY <1>1
<1>2. CASE BodyStep(c)
  BY <1>2, BodyMoves DEF AfterRead, RunsFollowEvents
<1>3. CASE LeaveStep(c)
  BY <1>3, LeaveStepMoves DEF AfterRead
<1>4. CASE \E e \in Events : BeginDispatch(c, e)
  BY <1>4, BeginMoves DEF AfterRead, RunsFollowEvents
<1> QED
  BY <1>1, <1>2, <1>3, <1>4, OthersStay

(* The job of a run does not start under it: its event would be inserted    *)
(* twice.                                                                   *)
LEMMA RunsAreOfRequests ==
  ASSUME RunInv, [Next]_vars, NEW c \in Dispatchers, run[c].pc \in AfterRead,
         Continuing(Import(c))', current'[c] = current[c]
  PROVE  Continuing(Import(c)) /\ Import(c) \in Imports /\ Import(c)' = Import(c)
<1>0. /\ ImportTypeOK /\ RunsFollowEvents /\ OutboxFacts!CurrentIsHeld
      /\ OutboxFacts!HeldAreInserted
  BY DEF RunInv, OutboxFacts!OutboxInv
<1>1. /\ current[c] \in Events /\ Import(c) \in Imports /\ current[c] = ImportEvent(Import(c))
  BY <1>0, ImportOfRun DEF AfterRead, RunsFollowEvents
<1>2. evStatus[ImportEvent(Import(c))] # "NONE"
  BY <1>0, <1>1, ImportEventsAssumption
  DEF OutboxFacts!CurrentIsHeld, OutboxFacts!HeldAreInserted, Outbox!OutboxAssumption
<1>3. ~Create(Import(c)) /\ ~Refresh(Import(c))
  BY <1>2 DEF Create, Refresh, RequestImport, Outbox!Enqueue
<1>4. Import(c)' = Import(c)
  BY DEF Import
<1>5. ActiveJob(Import(c)) /\ ~cancelRequested[Import(c)]
  BY <1>0, <1>1, <1>3, <1>4, JobMoves DEF Continuing, ActiveJob
<1> QED
  BY <1>1, <1>4, <1>5 DEF Continuing

(* The next version's number is read after the import before has ended, so  *)
(* a run that goes on is ahead of it.                                       *)
LEMMA RunsAreAheadStep ==
  ASSUME IInv, [Next]_vars
  PROVE  RunsAreAhead'
<1>0. /\ RunInv /\ ImportTypeOK /\ RunsFollowEvents /\ VersionRows /\ OneActive /\ RunsAreAhead
  BY DEF IInv, RunInv
<1> SUFFICES ASSUME NEW c \in Dispatchers, run'[c].pc \in AfterRead,
                    Continuing(Import(c))', CurrentKept'
             PROVE  run'[c].number > number'[currentVersion']
  BY DEF RunsAreAhead, AfterRead
<1>1. CASE currentVersion' = currentVersion
  <2>1. currentVersion \in Used /\ CurrentKept /\ currentVersion \in Versions
    BY <1>0, <1>1, OutboxKept, EventKinds DEF CurrentKept, VersionRows, Used
  <2>2. number'[currentVersion'] = number[currentVersion]
    BY <1>0, <1>1, <2>1, VersionsAreFinal
  <2>3. CASE ReadNumber(c)
    <3>1. currentVersion \in versions
      BY <1>0, <2>1 DEF VersionRows, CurrentKept
    <3>2. PICK n \in Numbers : /\ \A v \in versions : number[v] < n
                               /\ run' = [run EXCEPT ![c].pc = "upload", ![c].number = n]
      BY <2>3 DEF ReadNumber
    <3>3. run'[c].number = n
      BY <1>0, <3>2 DEF ImportTypeOK
    <3>4. number[currentVersion] \in Numbers /\ Numbers \subseteq Nat
      BY <1>0, <2>1 DEF VersionRows, Numbers
    <3> QED
      BY <2>2, <3>1, <3>2, <3>3, <3>4
  <2>4. CASE ~ReadNumber(c)
    BY <1>0, <2>1, <2>2, <2>4, ReadersStay, RunsAreOfRequests DEF RunsAreAhead, AfterRead
  <2> QED
    BY <2>3, <2>4
<1>2. CASE currentVersion' # currentVersion
  <2>1. PICK d \in Dispatchers :
          (Succeed(d) \/ SucceedFails(d)) /\ Continuing(Import(d)) /\ Publish(d)
    BY <1>2, CurrentMoves
  <2>2. Import(d) \in Imports /\ current' = current
    BY <1>0, <2>1, ImportOfRun
    DEF Succeed, SucceedFails, At, RunsFollowEvents, outboxVars
  <2>3. ~ReadNumber(c)
    BY <1>2 DEF ReadNumber, runOnly, datasetVars
  <2>4. Continuing(Import(c)) /\ Import(c) \in Imports /\ Import(c)' = Import(c)
    BY <1>0, <2>3, ReadersStay, RunsAreOfRequests
  <2>5. Import(c) = Import(d)
    BY <1>0, <2>1, <2>2, <2>4 DEF OneActive, Continuing
  <2>6. jobStatus'[Import(d)] = "SUCCEEDED"
    BY <1>0, <2>1, <2>2 DEF Publish, SetJob, ImportTypeOK
  <2> QED
    BY <2>4, <2>5, <2>6 DEF Continuing, ActiveJob
<1> QED
  BY <1>1, <1>2

(* A run that publishes publishes a higher version.                         *)
LEMMA PublishAdvances ==
  ASSUME IInv, [Next]_vars, CurrentKept, currentVersion' # currentVersion
  PROVE  number'[currentVersion'] > number[currentVersion]
<1>0. /\ ImportTypeOK /\ RunsFollowEvents /\ StoredAreOwn /\ RunsAreAhead
  BY DEF IInv, RunInv
<1>1. PICK d \in Dispatchers :
        (Succeed(d) \/ SucceedFails(d)) /\ Continuing(Import(d)) /\ Publish(d)
  BY CurrentMoves
<1>2. run[d].pc = "succeed" /\ run[d].stored # NoVersion
  BY <1>0, <1>1 DEF Succeed, SucceedFails, At, RunsFollowEvents, FollowsEvent
<1>3. run[d].stored \in Used /\ number[run[d].stored] = run[d].number
  BY <1>0, <1>2, StoredIsUsed DEF StoredAreOwn, StoredIsOwn
<1>4. number'[run[d].stored] = run[d].number
  BY <1>0, <1>3, VersionsAreFinal
<1>5. run[d].number > number[currentVersion]
  BY <1>0, <1>1, <1>2 DEF RunsAreAhead
<1> QED
  BY <1>1, <1>4, <1>5 DEF Publish


-----------------------------------------------------------------------------
(* Outcomes.                                                                *)

(* Faults and claims are only counted up.                                   *)
LEMMA CountsGrow ==
  ASSUME ImportTypeOK, RunsFollowEvents, [Next]_vars
  PROVE  /\ faults \in Nat /\ faults' \in Nat /\ faults' >= faults
         /\ \A e \in Events : evAttempts[e] \in Nat /\ evAttempts'[e] >= evAttempts[e]
<1>0. /\ faults \in Nat /\ evAttempts \in [Events -> Nat]
  BY DEF ImportTypeOK, Outbox!OutboxTypeOK
<1>1. faults' \in Nat /\ faults' >= faults
  <2>1. faults' = faults \/ faults' = faults + 1
    BY DEF Next, DispatcherStep, Create, Refresh, RequestImport, Cancel, Reconcile, ClaimEvents,
       BeginDispatch, CheckStart, MarkProcessing, Extract, ReadNumber, Upload, Record, Undo,
       Confirm, Succeed, QueueTarget, Disown, SettleCanceled, SettleFailed, DeleteBytes,
       CompleteEvent, CompletionAnswerLost, RecordFails, SucceedFails, RunThrows, EventThrows,
       DispatcherCrash, Operate, Fault, runOnly, vars
  <2> QED
    BY <1>0, <2>1
<1>2. \A e \in Events : evAttempts'[e] >= evAttempts[e]
  <2>1. ASSUME NEW d \in Dispatchers, NEW S \in SUBSET Outbox!Due, Outbox!ClaimDue(d, S)
        PROVE  \A e \in Events : evAttempts'[e] >= evAttempts[e]
    BY <1>0, <2>1 DEF Outbox!ClaimDue
  <2>2. evAttempts' = evAttempts => \A e \in Events : evAttempts'[e] >= evAttempts[e]
    BY <1>0
  <2> QED
    BY <2>1, <2>2, OutboxStep
    DEF Outbox!OutboxNext, Outbox!DispatcherNext, Outbox!Enqueue, Outbox!Begin,
        Outbox!Complete, Outbox!CompleteUnanswered, Outbox!Fail, Outbox!Abandon,
        Outbox!Redrive, Outbox!Archive, outboxVars
<1> QED
  BY <1>0, <1>1, <1>2

(* Only a claim gives an event to a dispatcher.                             *)
LEMMA HoldersMove ==
  ASSUME ImportTypeOK, RunsFollowEvents, [Next]_vars, NEW c \in Dispatchers, NEW e \in Events,
         claim'[c][e] > 0
  PROVE  claim'[c][e] = claim[c][e] \/ evAttempts'[e] = evAttempts[e] + 1
<1>0. /\ claim \in [Dispatchers -> [Events -> Nat]]
      /\ evAttempts \in [Events -> Nat] /\ current \in [Dispatchers -> Events \cup {NoEvent}]
  BY DEF ImportTypeOK, Outbox!OutboxTypeOK
<1>1. ASSUME NEW d \in Dispatchers, NEW S \in SUBSET Outbox!Due, Outbox!ClaimDue(d, S)
      PROVE  claim'[c][e] = claim[c][e] \/ evAttempts'[e] = evAttempts[e] + 1
  <2>1. CASE e \in S
    BY <1>0, <1>1, <2>1 DEF Outbox!ClaimDue
  <2>2. CASE e \notin S
    <3>1. c # d
      BY <1>0, <1>1, <2>2 DEF Outbox!ClaimDue
    <3> QED
      BY <1>0, <1>1, <3>1 DEF Outbox!ClaimDue
  <2> QED
    BY <2>1, <2>2
<1>2. ASSUME NEW d \in Dispatchers,
             Outbox!Complete(d) \/ Outbox!Fail(d) \/ Outbox!Abandon(d)
      PROVE  claim'[c][e] = claim[c][e]
  BY <1>0, <1>2 DEF Outbox!Complete, Outbox!Fail, Outbox!Abandon, Outbox!Release
<1>3. claim' = claim => claim'[c][e] = claim[c][e]
  OBVIOUS
<1> QED
  BY <1>1, <1>2, <1>3, OutboxStep
  DEF Outbox!OutboxNext, Outbox!DispatcherNext, Outbox!Enqueue, Outbox!Begin,
      Outbox!CompleteUnanswered, Outbox!Redrive, Outbox!Archive, outboxVars

(* The run that published an import stays the only holder of its event:     *)
(* nobody claims the event again before it is completed, and then it is not *)
(* due.                                                                     *)
LEMMA PublisherStep ==
  ASSUME IInv, [Next]_vars
  PROVE  PublisherIsAlone'
<1>0. /\ RunInv /\ ImportTypeOK /\ RunsFollowEvents /\ PublisherIsAlone
      /\ OutboxFacts!CurrentIsHeld /\ OutboxFacts!ClaimsAreFenced
      /\ claim \in [Dispatchers -> [Events -> Nat]] /\ evAttempts \in [Events -> Nat]
  BY DEF IInv, RunInv, OutboxFacts!OutboxInv, ImportTypeOK, Outbox!OutboxTypeOK
<1> SUFFICES ASSUME NEW i \in Imports, jobStatus'[i] = "SUCCEEDED"
             PROVE  /\ evAttempts'[ImportEvent(i)] > 0
                    /\ \/ evAttempts'[ImportEvent(i)] > 1 \/ faults' > 0
                       \/ \A d \in Dispatchers : claim'[d][ImportEvent(i)] > 0 =>
                            current'[d] = ImportEvent(i) /\ run'[d].pc \in {"target", "done"}
  BY DEF PublisherIsAlone
<1> DEFINE e == ImportEvent(i)
<1>1. e \in Events /\ e # NoEvent
  BY EventKinds, ImportEventsAssumption DEF Outbox!OutboxAssumption
<1> HIDE DEF e
<1>2. CASE jobStatus[i] = "SUCCEEDED"
  <2>0. /\ evAttempts[e] \in Nat /\ evAttempts'[e] \in Nat /\ evAttempts'[e] >= evAttempts[e]
        /\ faults \in Nat /\ faults' \in Nat /\ faults' >= faults
    <3>1. evAttempts'[e] \in Nat
      BY <1>0, <1>1, OutboxKept DEF Outbox!OutboxTypeOK
    <3> QED
      BY <1>0, <1>1, <3>1, CountsGrow
  <2>1. evAttempts[e] > 0 /\ evAttempts'[e] > 0
    <3>1. evAttempts[e] > 0
      BY <1>0, <1>2 DEF PublisherIsAlone, e
    <3> QED
      BY <2>0, <3>1
  <2>2. ASSUME evAttempts'[e] <= 1, faults' = 0, NEW c \in Dispatchers, claim'[c][e] > 0
        PROVE  current'[c] = e /\ run'[c].pc \in {"target", "done"}
    <3>1. evAttempts[e] = 1 /\ evAttempts'[e] = 1 /\ faults = 0 /\ faults' = 0
      BY <2>0, <2>1, <2>2
    <3>2. claim'[c][e] = claim[c][e]
      BY <1>0, <1>1, <2>2, <3>1, HoldersMove
    <3>3. current[c] = e /\ run[c].pc \in {"target", "done"}
      BY <1>0, <1>2, <2>2, <3>1, <3>2 DEF PublisherIsAlone, e
    <3>4. CASE run'[c] = run[c] /\ current'[c] = current[c]
      BY <3>3, <3>4
    <3>5. CASE BodyStep(c)
      BY <1>0, <3>1, <3>3, <3>5, BodyMoves DEF RunsFollowEvents
    <3>6. CASE LeaveStep(c)
      BY <1>0, <1>1, <2>2, <3>3, <3>6, LeaveStepMoves
    <3>7. CASE \E f \in Events : BeginDispatch(c, f)
      BY <1>0, <1>1, <3>3, <3>7, BeginMoves DEF RunsFollowEvents
    <3> QED
      BY <1>0, <3>4, <3>5, <3>6, <3>7, OthersStay
  <2> QED
    BY <2>0, <2>1, <2>2 DEF e
<1>3. CASE jobStatus[i] # "SUCCEEDED"
  <2>1. PICK d \in Dispatchers :
          (Succeed(d) \/ SucceedFails(d)) /\ Publish(d) /\ Import(d) = i
    BY <1>0, <1>3, JobMoves
  <2>2. /\ current[d] = e /\ UNCHANGED outboxVars
    BY <1>0, <2>1, ImportOfRun DEF Succeed, SucceedFails, At, RunsFollowEvents, e
  <2>3. claim[d][e] > 0 /\ claim[d][e] \in Nat /\ claim[d][e] <= evAttempts[e]
    BY <1>0, <1>1, <2>2 DEF OutboxFacts!CurrentIsHeld, OutboxFacts!ClaimsAreFenced
  <2>4. SucceedFails(d) => faults' > 0
    BY <1>0 DEF SucceedFails, Fault, ImportTypeOK
  <2>5. ASSUME Succeed(d), evAttempts[e] <= 1, NEW c \in Dispatchers, claim[c][e] > 0
        PROVE  current[c] = e /\ run'[c].pc \in {"target", "done"}
    <3>1. claim[c][e] <= evAttempts[e] /\ claim[c][e] \in Nat /\ evAttempts[e] \in Nat
      BY <1>0, <1>1 DEF OutboxFacts!ClaimsAreFenced
    <3>2. claim[c][e] = 1 /\ claim[d][e] = 1
      BY <2>3, <2>5, <3>1
    <3>3. c = d
      BY <1>0, <1>1, <3>2 DEF OutboxFacts!ClaimsAreFenced
    <3>4. run'[d].pc = "target"
      <4>1. Goto(d, "target")
        <5>1. jobStatus'[i] # jobStatus[i]
          BY <1>3
        <5> QED
          BY <2>1, <2>5, <5>1 DEF Succeed
      <4> QED
        BY <1>0, <4>1, GotoMoves DEF Moved, RunPc
    <3> QED
      BY <2>2, <3>3, <3>4
  <2>6. evAttempts'[e] = evAttempts[e] /\ claim' = claim /\ current' = current
    BY <2>2 DEF outboxVars
  <2>7. evAttempts[e] \in Nat
    BY <1>0, <1>1
  <2> QED
    BY <2>1, <2>3, <2>4, <2>5, <2>6, <2>7 DEF e
<1> QED
  BY <1>2, <1>3

(* So nobody is left to wind down what it published.                        *)
LEMMA OutcomeStep ==
  ASSUME IInv, [Next]_vars
  PROVE  OutcomeShown'
<1>0. /\ ImportTypeOK /\ RunsFollowEvents /\ PublisherIsAlone /\ OutcomeShown
      /\ OutboxFacts!CurrentIsHeld
  BY DEF IInv, RunInv, OutboxFacts!OutboxInv
<1> SUFFICES ASSUME NEW i \in Imports, jobStatus'[i] = "SUCCEEDED"
             PROVE  \/ importStatus'[i] = "SUCCEEDED"
                    \/ evAttempts'[ImportEvent(i)] > 1 \/ faults' > 0
  BY DEF OutcomeShown
<1>1. ImportEvent(i) \in Events /\ ImportEvent(i) # NoEvent
  BY EventKinds, ImportEventsAssumption DEF Outbox!OutboxAssumption
<1>2. evAttempts[ImportEvent(i)] > 1 \/ faults > 0 =>
        evAttempts'[ImportEvent(i)] > 1 \/ faults' > 0
  <2>1. /\ evAttempts[ImportEvent(i)] \in Nat
        /\ evAttempts'[ImportEvent(i)] >= evAttempts[ImportEvent(i)]
        /\ faults \in Nat /\ faults' \in Nat /\ faults' >= faults
    BY <1>0, <1>1, CountsGrow
  <2>2. evAttempts'[ImportEvent(i)] \in Nat
    BY <1>1, OutboxKept DEF Outbox!OutboxTypeOK, IInv
  <2> QED
    BY <2>1, <2>2
<1>3. CASE jobStatus[i] # "SUCCEEDED"
  <2>1. PICK d \in Dispatchers : Publish(d) /\ Import(d) = i
    BY <1>0, <1>3, JobMoves
  <2> QED
    BY <1>0, <2>1 DEF Publish, SetImport, ImportTypeOK
<1>4. CASE jobStatus[i] = "SUCCEEDED" /\ importStatus'[i] = importStatus[i]
  BY <1>0, <1>2, <1>4 DEF OutcomeShown
<1>5. CASE jobStatus[i] = "SUCCEEDED" /\ importStatus'[i] # importStatus[i]
  <2>1. PICK d \in Dispatchers : (SettleCanceled(d) \/ SettleFailed(d)) /\ Import(d) = i
    BY <1>0, <1>5, JobMoves
  <2>2. current[d] = ImportEvent(i) /\ run[d].pc = "settle"
    BY <1>0, <2>1, ImportOfRun DEF SettleCanceled, SettleFailed, At, RunsFollowEvents
  <2>3. claim[d][ImportEvent(i)] > 0
    BY <1>0, <1>1, <2>2 DEF OutboxFacts!CurrentIsHeld
  <2> QED
    BY <1>0, <1>2, <1>5, <2>2, <2>3 DEF PublisherIsAlone
<1> QED
  BY <1>3, <1>4, <1>5

-----------------------------------------------------------------------------
(* An empty deployment satisfies the invariant.                             *)
LEMMA InvInit == Init => IInv
<1> SUFFICES ASSUME Init PROVE IInv
  OBVIOUS
<1>1. Outbox!OutboxInit
  BY DEF Init
<1>2. OutboxFacts!OutboxInit
  BY <1>1 DEF Outbox!OutboxInit, OutboxFacts!OutboxInit
<1>3. OutboxFacts!OutboxInv
  BY <1>2, OutboxFacts!OutboxInvInit, ImportEventsAssumption
  DEF Outbox!OutboxAssumption, OutboxFacts!OutboxAssumption
<1>4. Outbox!OutboxTypeOK
  BY <1>3, SameOutbox DEF OutboxFacts!OutboxInv
<1>5. /\ \A d \in Dispatchers : run[d] = AtRest /\ current[d] = NoEvent
      /\ \A d \in Dispatchers, e \in Events : claim[d][e] = 0
      /\ \A e \in Events : evStatus[e] = "NONE"
  BY <1>1 DEF Init, Outbox!OutboxInit
<1>6. AtRest \in Runs
  BY DEF AtRest, Runs, RunPc, NoVersion
<1>7. ImportTypeOK
  BY <1>4, <1>6, ImportAssumption DEF Init, ImportTypeOK, Runs, JobStatus, NoVersion
<1>8. RunsFollowEvents /\ StoredAreOwn
  BY <1>5 DEF RunsFollowEvents, FollowsEvent, StoredAreOwn, StoredIsOwn, AtRest, NoVersion
<1>9. OutboxFacts!HeldAreInserted
  BY <1>5 DEF OutboxFacts!HeldAreInserted
<1>10. Used = {} /\ versions = {} /\ live = {} /\ currentVersion = NoVersion
  BY DEF Init, Used
<1>11. VersionRows
  BY <1>5, <1>10, EventKinds DEF VersionRows
<1>12. \A d \in Dispatchers : ~HoldsKey(d) /\ run[d].pc = "none"
  BY <1>5 DEF HoldsKey, AtRest
<1>13. KeysAreShared /\ KeysHoldData
  BY <1>10, <1>12 DEF KeysAreShared, KeysHoldData
<1>14. OneActive /\ DatasetStatusTrue /\ PublisherIsAlone /\ OutcomeShown
  BY DEF Init, OneActive, ActiveJob, DatasetStatusTrue, PublisherIsAlone, OutcomeShown
<1>15. RunsAreAhead
  BY <1>12 DEF RunsAreAhead
<1> QED
  BY <1>3, <1>7, <1>8, <1>9, <1>11, <1>13, <1>14, <1>15 DEF IInv, RunInv

(* Every step keeps it.                                                     *)
LEMMA InvStep == IInv /\ [Next]_vars => IInv'
<1> SUFFICES ASSUME IInv, [Next]_vars PROVE IInv'
  OBVIOUS
<1>1. RunInv
  BY DEF IInv
<1>2. RunInv'
  BY <1>1, OutboxKept, TypeStep, StoredStep, RunsFollowStep DEF RunInv
<1>3. VersionRows'
  BY <1>2, VersionRowsStep DEF RunInv
<1>4. DatasetStatusTrue'
  BY <1>1, DatasetStep DEF IInv, RunInv
<1> QED
  BY <1>2, <1>3, <1>4, KeysAreSharedStep, KeysHoldDataStep, OneActiveStep, RunsAreAheadStep,
     PublisherStep, OutcomeStep DEF IInv

(* The inductive invariant the theorems below follow from.                  *)
THEOREM ImportInvariant == Spec => []IInv
  BY InvInit, InvStep, PTL DEF Spec

(* The type invariant of the imports, their runs and the outbox.            *)
THEOREM ImportTypeCorrect == Spec => []ImportTypeOK
<1>1. IInv => ImportTypeOK
  BY DEF IInv, RunInv
<1> QED
  BY <1>1, ImportInvariant, PTL

(* The version a dataset points to has its rows, until its cleanup is asked *)
(* for, and its key the data of its own import, unless some other run has   *)
(* uploaded under the same number.                                          *)
THEOREM CurrentServed == Spec => []CurrentVersionServed
<1>1. IInv => CurrentVersionServed
  <2> SUFFICES ASSUME IInv, CurrentKept
               PROVE  /\ currentVersion \in versions \cap live
                      /\ \/ object[number[currentVersion]] = owner[currentVersion]
                         \/ uploads[number[currentVersion]] > 1
    BY DEF CurrentVersionServed
  <2>1. VersionRows /\ KeysHoldData
    BY DEF IInv
  <2>2. currentVersion \in Used /\ currentVersion \in Versions
    BY <2>1 DEF VersionRows, CurrentKept, Used
  <2>3. currentVersion \in versions \cap live
    BY <2>1, <2>2 DEF VersionRows, CurrentKept
  <2> QED
    BY <2>1, <2>3 DEF KeysHoldData, Acknowledged, Shared
<1> QED
  BY <1>1, ImportInvariant, PTL

(* READY says that there is a version, whatever fails late.                 *)
THEOREM DatasetStatusIsTrue == Spec => []DatasetStatusTrue
<1>1. IInv => DatasetStatusTrue
  BY DEF IInv
<1> QED
  BY <1>1, ImportInvariant, PTL

(* An import that published shows it, unless its event was claimed twice or *)
(* a call failed.                                                           *)
THEOREM OutcomesShown == Spec => []OutcomeShown
<1>1. IInv => OutcomeShown
  BY DEF IInv
<1> QED
  BY <1>1, ImportInvariant, PTL

(* A dataset only moves on to higher numbers, whatever runs of ended        *)
(* imports still read, upload and record.                                   *)
THEOREM VersionsOnlyAdvance == Spec => VersionsAdvance
<1>1. IInv /\ [Next]_vars =>
        [CurrentKept /\ currentVersion' # currentVersion =>
           number'[currentVersion'] > number[currentVersion]]_vars
  BY PublishAdvances
<1> QED
  BY <1>1, ImportInvariant, PTL DEF Spec, VersionsAdvance

(* Requests, runs, cleanups and operators use the outbox only as            *)
(* EventOutbox allows: what is proved of every outbox holds of this one.    *)
THEOREM ImportOutboxUse == Spec => Outbox!OutboxSpec
<1>1. Init => Outbox!OutboxInit
  BY DEF Init
<1>2. IInv /\ [Next]_vars => [Outbox!OutboxNext]_outboxVars
  BY OutboxStep DEF IInv, RunInv
<1> QED
  BY <1>1, <1>2, ImportInvariant, PTL
  DEF Spec, Outbox!OutboxSpec, outboxVars, Outbox!outboxVars
=============================================================================
