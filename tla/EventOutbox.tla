----------------------------- MODULE EventOutbox -----------------------------
(***************************************************************************)
(* The event_outbox table and the dispatchers that drain it                *)
(* (apps/worker-geodata/src/domains/outbox/outbox-dispatcher.ts), with the *)
(* two operator actions of the admin app on a single event                 *)
(* (apps/admin/features/operations/ops-actions.ts).                        *)
(*                                                                         *)
(* What an event asks for is left to the modules that instantiate this     *)
(* one.  Time is abstracted: a PENDING event may be due at any moment      *)
(* (processAt), a PROCESSING one may look stale at any moment (updatedAt   *)
(* older than OUTBOX_STALE_MS, 15 minutes, which a batch that holds a long *)
(* source import exceeds).                                                 *)
(***************************************************************************)
EXTENDS Naturals, FiniteSets

CONSTANTS
  Events,        \* the rows that may be inserted into event_outbox
  Dispatchers,   \* the worker processes, each running one dispatcher
  NoEvent,       \* value of current[d] between two events of a batch
  MAX_ATTEMPTS,  \* 5 in the code
  BatchSize,     \* GEODATA_OUTBOX_BATCH_SIZE
  AttemptCap     \* bound of the model: claims of one event

ASSUME OutboxAssumption ==
  /\ NoEvent \notin Events
  /\ MAX_ATTEMPTS \in Nat \ {0}
  /\ BatchSize \in Nat \ {0}
  /\ AttemptCap \in Nat

VARIABLES
  evStatus,    \* event_outbox.status, "NONE" before the row is inserted
  evAttempts,  \* event_outbox.attempts
  claim,       \* claim[d][e]: attempts of the row that d's claim returned, 0
               \* when e is not in the batch d is working through
  current,     \* the event dispatchEvent of d is running, or NoEvent
  unanswered   \* the dispatchers whose completeOutboxEvent has thrown although
               \* its UPDATE was committed; they are in their catch block

outboxVars == <<evStatus, evAttempts, claim, current, unanswered>>

EventStatus ==
  {"NONE", "PENDING", "PROCESSING", "COMPLETED", "FAILED", "ARCHIVED"}

OutboxTypeOK ==
  /\ evStatus \in [Events -> EventStatus]
  /\ evAttempts \in [Events -> Nat]
  /\ claim \in [Dispatchers -> [Events -> Nat]]
  /\ current \in [Dispatchers -> Events \cup {NoEvent}]
  /\ unanswered \subseteq Dispatchers

OutboxInit ==
  /\ evStatus = [e \in Events |-> "NONE"]
  /\ evAttempts = [e \in Events |-> 0]
  /\ claim = [d \in Dispatchers |-> [e \in Events |-> 0]]
  /\ current = [d \in Dispatchers |-> NoEvent]
  /\ unanswered = {}

Batch(d) == {e \in Events : claim[d][e] > 0}

Due == {e \in Events : evStatus[e] = "PENDING" /\ evAttempts[e] < AttemptCap}

-----------------------------------------------------------------------------
(* enqueueOutboxEvent, or the insert a transaction makes itself. *)
Enqueue(e) ==
  /\ evStatus[e] = "NONE"
  /\ evStatus' = [evStatus EXCEPT ![e] = "PENDING"]
  /\ UNCHANGED <<evAttempts, claim, current, unanswered>>

(* Mutant: the claim does not count itself. *)
ClaimDue_Uncounted(d, S) ==
  /\ Batch(d) = {}
  /\ S # {} /\ S \subseteq Due
  /\ Cardinality(S) <= BatchSize
  /\ evStatus' = [e \in Events |-> IF e \in S THEN "PROCESSING" ELSE evStatus[e]]
  /\ claim' = [claim EXCEPT ![d] =
       [e \in Events |-> IF e \in S THEN evAttempts[e] + 1 ELSE 0]]
  /\ UNCHANGED <<evAttempts, current, unanswered>>

(* One tick claims up to BatchSize due events.  The SELECT of due rows and  *)
(* the UPDATE are two statements, but the UPDATE repeats status = PENDING,  *)
(* so only rows still PENDING then are returned.  `running` keeps a         *)
(* dispatcher from claiming again before its batch is done.                 *)
ClaimDue(d, S) ==
  /\ Batch(d) = {}
  /\ S # {} /\ S \subseteq Due
  /\ Cardinality(S) <= BatchSize
  /\ evStatus' = [e \in Events |-> IF e \in S THEN "PROCESSING" ELSE evStatus[e]]
  /\ evAttempts' =
       [e \in Events |-> IF e \in S THEN evAttempts[e] + 1 ELSE evAttempts[e]]
  /\ claim' = [claim EXCEPT ![d] =
       [e \in Events |-> IF e \in S THEN evAttempts[e] + 1 ELSE 0]]
  /\ UNCHANGED <<current, unanswered>>

(* The loop of tick() takes the next claimed event; UPDATE ... RETURNING    *)
(* promises no order.                                                       *)
Begin(d, e) ==
  /\ current[d] = NoEvent
  /\ e \in Batch(d)
  /\ current' = [current EXCEPT ![d] = e]
  /\ UNCHANGED <<evStatus, evAttempts, claim, unanswered>>

(* Mutant: the loop does not advance. *)
Release_Stuck(d) ==
  /\ claim' = [claim EXCEPT ![d][current[d]] = 0]
  /\ unanswered' = unanswered \ {d}
  /\ UNCHANGED current

Release(d) ==
  /\ claim' = [claim EXCEPT ![d][current[d]] = 0]
  /\ current' = [current EXCEPT ![d] = NoEvent]
  /\ unanswered' = unanswered \ {d}

(* completeOutboxEvent: by id only, whatever the status has become.         *)
MarkCompleted(d) ==
  /\ current[d] # NoEvent /\ d \notin unanswered
  /\ evStatus' = [evStatus EXCEPT ![current[d]] = "COMPLETED"]

Complete(d) ==
  /\ MarkCompleted(d)
  /\ Release(d)
  /\ UNCHANGED evAttempts

(* completeOutboxEvent is awaited inside the try of dispatchEvent: when its *)
(* answer is lost the row is COMPLETED and the dispatcher in its catch      *)
(* block, so that Fail (or Abandon) comes next.                             *)
CompleteUnanswered(d) ==
  /\ MarkCompleted(d)
  /\ unanswered' = unanswered \cup {d}
  /\ UNCHANGED <<evAttempts, claim, current>>

(* Mutants: given up one attempt early; a status that does not exist. *)
StatusAfterFailure_Early(attempts) ==
  IF attempts + 1 >= MAX_ATTEMPTS THEN "FAILED" ELSE "PENDING"
StatusAfterFailure_Unknown(attempts) ==
  IF attempts >= MAX_ATTEMPTS THEN "ERROR" ELSE "PENDING"

(* failOutboxEvent: by id only, and from the attempts of the claimed row.   *)
StatusAfterFailure(attempts) ==
  IF attempts >= MAX_ATTEMPTS THEN "FAILED" ELSE "PENDING"

Fail(d) ==
  /\ current[d] # NoEvent
  /\ evStatus' = [evStatus EXCEPT
       ![current[d]] = StatusAfterFailure(claim[d][current[d]])]
  /\ Release(d)
  /\ UNCHANGED evAttempts

(* The process dies, or failOutboxEvent itself throws and leaves the loop   *)
(* of tick(): the whole batch is abandoned with its rows PROCESSING.        *)
Abandon(d) ==
  /\ Batch(d) # {}
  /\ claim' = [claim EXCEPT ![d] = [e \in Events |-> 0]]
  /\ current' = [current EXCEPT ![d] = NoEvent]
  /\ unanswered' = unanswered \ {d}
  /\ UNCHANGED <<evStatus, evAttempts>>

(* retryOutboxEventAction: FAILED, or PROCESSING for too long.  attempts    *)
(* keeps its value.                                                         *)
Redrive(e) ==
  /\ evStatus[e] \in {"FAILED", "PROCESSING"}
  /\ evStatus' = [evStatus EXCEPT ![e] = "PENDING"]
  /\ UNCHANGED <<evAttempts, claim, current, unanswered>>

(* archiveOutboxEventAction: anything but a PROCESSING row that is fresh.   *)
Archive(e) ==
  /\ evStatus[e] \notin {"NONE", "ARCHIVED"}
  /\ evStatus' = [evStatus EXCEPT ![e] = "ARCHIVED"]
  /\ UNCHANGED <<evAttempts, claim, current, unanswered>>

-----------------------------------------------------------------------------
DispatcherNext ==
  \/ \E e \in Events : Enqueue(e)
  \/ \E d \in Dispatchers, S \in SUBSET Due : ClaimDue(d, S)
  \/ \E d \in Dispatchers, e \in Events : Begin(d, e)
  \/ \E d \in Dispatchers : Complete(d)
  \/ \E d \in Dispatchers : Fail(d)

OutboxNext ==
  \/ DispatcherNext
  \/ \E d \in Dispatchers : CompleteUnanswered(d) \/ Abandon(d)
  \/ \E e \in Events : Redrive(e)
  \/ \E e \in Events : Archive(e)

OutboxSpec == OutboxInit /\ [][OutboxNext]_outboxVars

(* setInterval keeps ticking and every awaited call of dispatchEvent        *)
(* returns or throws; crashes, lost answers and operators owe nothing.      *)
FairOutboxSpec ==
  /\ OutboxSpec
  /\ \A d \in Dispatchers :
       /\ WF_outboxVars(\E S \in SUBSET Due : ClaimDue(d, S))
       /\ WF_outboxVars(\E e \in Events : Begin(d, e))
       /\ WF_outboxVars(Complete(d) \/ Fail(d))

-----------------------------------------------------------------------------
(* Properties.                                                              *)

Holders(e) == {d \in Dispatchers : claim[d][e] > 0}

(* attempts is a fencing token: whatever is re-driven or abandoned, the     *)
(* copies that two dispatchers hold of one event differ, and none is ahead  *)
(* of the row.  failOutboxEvent decides from that copy.                     *)
ClaimsAreFenced ==
  /\ \A d \in Dispatchers, e \in Events : claim[d][e] <= evAttempts[e]
  /\ \A c, d \in Dispatchers, e \in Events :
       claim[c][e] > 0 /\ claim[c][e] = claim[d][e] => c = d

(* An event is given up only after MAX_ATTEMPTS claims, although the        *)
(* decision uses the attempts of an old claim and an operator may have      *)
(* re-driven the row since.                                                 *)
FailedIsExhausted ==
  \A e \in Events : evStatus[e] = "FAILED" => evAttempts[e] >= MAX_ATTEMPTS

(* A COMPLETED event starts over only when a dispatcher that is still at it *)
(* fails: the one that completed it and whose answer was lost, or, when the *)
(* event was claimed more than once, one that another claim overlapped.     *)
(* Once its dispatchers have let go it stays COMPLETED until it is archived.*)
CompletedReopensOnlyIfHeld ==
  [][\A e \in Events : evStatus[e] = "COMPLETED" /\ evStatus'[e] # "COMPLETED" =>
       \/ evStatus'[e] = "ARCHIVED"
       \/ \E d \in Dispatchers :
            /\ current[d] = e /\ current'[d] = NoEvent
            /\ d \in unanswered \/ evAttempts[e] > 1]_outboxVars

(* An event that is due is settled, unless an operator archives it or its   *)
(* batch is abandoned: nothing in the code takes up a PROCESSING row again, *)
(* only an operator does.  (At AttemptCap the model claims it no more.)     *)
EventsSettle ==
  \A e \in Events : evStatus[e] = "PENDING" ~>
    \/ evStatus[e] \in {"COMPLETED", "FAILED", "ARCHIVED"}
    \/ evStatus[e] = "PROCESSING" /\ Holders(e) = {}
    \/ evAttempts[e] = AttemptCap
=============================================================================
