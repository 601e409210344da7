------------------------------- MODULE Billing -------------------------------
(***************************************************************************)
(* The billing of one account (apps/api/src/domains/billing): checkouts    *)
(* and plan changes under idempotency keys (billing-mutations.ts,          *)
(* route.ts), and the inbox of the provider's events with the job that     *)
(* drains it (webhook-inbox.ts, jobs.ts, billing.ts,                       *)
(* billing-transactions.ts).                                               *)
(*                                                                         *)
(* A request claims a row for its key, calls the provider and records the  *)
(* outcome, each in a statement of its own, and may stop or lose an answer *)
(* in between.  The provider's events arrive in any order and repeatedly;  *)
(* their job runs under an advisory lock, since worker-billing gives up on *)
(* a job after five minutes and starts the next while the first goes on.   *)
(***************************************************************************)
EXTENDS Naturals, FiniteSets

CONSTANTS
  Keys,           \* idempotency keys
  Plans,          \* what a request asks for, as its fingerprint tells it apart
  Handlers,       \* requests in progress
  Subscriptions,  \* rows of subscriptions
  Ledger,         \* rows of billing_transactions
  Events,         \* the provider's events: [row, at, status, id]
  Runners,        \* runs of the webhooks job
  NoKey, NoEvent, NoRunner,
  MAX_ATTEMPTS,   \* WEBHOOK_RETRY_DELAYS_MS.length
  MaxWork,        \* bound of the model: keys and events in use, together
  MaxFaults       \* bound of the model: crashes, errors and lost answers

Operations == {"checkout", "change-plan"}
Body == [operation : Operations, plan : Plans]

(* subscriptionEventPrecedence, billingTransactionStatusPrecedence.         *)
Precedence == [ACTIVE |-> 1, INACTIVE |-> 2, PAST_DUE |-> 3, CANCELED |-> 4]
LedgerPrecedence == [CREATED |-> 1, CHECKOUT_CREATED |-> 2, PENDING |-> 3, PAID |-> 4,
                     FAILED |-> 5, CANCELED |-> 6, REFUNDED |-> 7]

ASSUME BillingAssumption ==
  /\ Subscriptions \cap Ledger = {}
  /\ \A e \in Events :
       /\ e.at \in Nat /\ e.id \in Nat
       /\ \/ e.row \in Subscriptions /\ e.status \in DOMAIN Precedence
          \/ e.row \in Ledger /\ e.status \in DOMAIN LedgerPrecedence
  /\ \A e, f \in Events : e.id = f.id => e = f
  /\ NoEvent \notin Events /\ NoKey \notin Keys /\ NoRunner \notin Runners
  /\ MAX_ATTEMPTS \in Nat \ {0} /\ MaxWork \in Nat /\ MaxFaults \in Nat

MutationStatus == {"NONE", "PROCESSING", "UNKNOWN", "SUCCEEDED", "FAILED"}
InboxStatus == {"NONE", "PENDING", "PROCESSING", "PROCESSED", "FAILED"}
HandlerPc == {"idle", "check", "call", "record", "complete", "refuse", "unknown"}
RunnerPc == {"idle", "loop", "write", "mark", "fail"}

VARIABLES
  body,         \* body[k]: the operation and fingerprint key k is used for
  mutation,     \* status of k's row of billing_mutation_requests
  leased,       \* before the row's leaseUntil
  recent,       \* createdAt of the row within CHECKOUT_REUSE_MS
  called,       \* times the provider carried out k's request
  handler,      \* handler[h]: where the request is, and its key
  inbox,        \* status of an event's row of billing_webhook_events
  attempts, eventLeased,
  processed,    \* events with processedAt
  row,          \* row[x]: the event a subscription or ledger row was last set by
  lock,         \* holder of the job's advisory lock
  runner,       \* runner[r]: where the run is and the event it is at
  held,         \* held[r][e]: attempts as r's claim returned them, 0 if not claimed
  seen,         \* seen[r]: what r read of the ledger row
  slipped,      \* the lock was lost or the answer to a PROCESSED update was
  faults

mutationVars == <<body, mutation, leased, recent, called>>
inboxVars == <<inbox, attempts, eventLeased, processed>>
runnerVars == <<lock, runner, held, seen>>
jobVars == <<inboxVars, row, runnerVars, slipped>>
vars == <<mutationVars, handler, jobVars, faults>>

Idle == [pc |-> "idle", key |-> NoKey]
AtRest == [pc |-> "idle", event |-> NoEvent]
NoBatch == [e \in Events |-> 0]

Init ==
  /\ body \in [Keys -> Body]
  /\ mutation = [k \in Keys |-> "NONE"]
  /\ leased = [k \in Keys |-> FALSE]
  /\ recent = [k \in Keys |-> FALSE]
  /\ called = [k \in Keys |-> 0]
  /\ handler = [h \in Handlers |-> Idle]
  /\ inbox = [e \in Events |-> "NONE"]
  /\ attempts = [e \in Events |-> 0]
  /\ eventLeased = [e \in Events |-> FALSE]
  /\ processed = {}
  /\ row = [x \in Subscriptions \cup Ledger |-> NoEvent]
  /\ lock = NoRunner
  /\ runner = [r \in Runners |-> AtRest]
  /\ held = [r \in Runners |-> NoBatch]
  /\ seen = [r \in Runners |-> NoEvent]
  /\ slipped = FALSE
  /\ faults = 0

Fault == faults < MaxFaults /\ faults' = faults + 1

InBounds ==
  Cardinality({k \in Keys : mutation[k] # "NONE"})
    + Cardinality({e \in Events : inbox[e] # "NONE"}) < MaxWork

-----------------------------------------------------------------------------
(* Checkouts and plan changes.                                              *)

HandlerAt(h, pc) ==
  handler' = [handler EXCEPT ![h] = IF pc = "idle" THEN Idle ELSE [@ EXCEPT !.pc = pc]]
Lapsed(k) == mutation[k] = "PROCESSING" /\ ~leased[k]

(* beginBillingMutation, under the account's lock, first marks the rows     *)
(* whose lease has lapsed; a refusal rolls that back with the rest.         *)
Marked == [k \in Keys |-> IF Lapsed(k) THEN "UNKNOWN" ELSE mutation[k]]

(* Mutant: a row whose outcome is unknown blocks nobody. *)
Blocked_Processing == \E l \in Keys : Marked[l] = "PROCESSING"

Blocked == \E l \in Keys : Marked[l] \in {"PROCESSING", "UNKNOWN"}

Outstanding(k) ==
  body[k].operation = "checkout" /\ mutation[k] = "SUCCEEDED" /\ recent[k]

Claim(h, k) ==
  /\ mutation' = [Marked EXCEPT ![k] = "PROCESSING"]
  /\ leased' = [leased EXCEPT ![k] = TRUE]
  /\ handler' = [handler EXCEPT ![h] = [pc |-> "check", key |-> k]]
  /\ UNCHANGED <<body, called, jobVars, faults>>

(* A key that failed is claimed again at once.                              *)
ClaimAgain(h, k) ==
  /\ handler[h].pc = "idle" /\ mutation[k] = "FAILED"
  /\ Claim(h, k) /\ UNCHANGED recent

ClaimNew(h, k) ==
  /\ handler[h].pc = "idle" /\ mutation[k] = "NONE" /\ ~Blocked /\ InBounds
  /\ body[k].operation = "checkout" => \A l \in Keys : ~Outstanding(l)
  /\ recent' = [recent EXCEPT ![k] = TRUE]
  /\ Claim(h, k)

(* The stored answer, of this key or of the same checkout, is given again.  *)
Replay(k) ==
  /\ \/ mutation[k] = "SUCCEEDED"
     \/ /\ mutation[k] = "NONE" /\ ~Blocked
        /\ \E l \in Keys : Outstanding(l) /\ body[l] = body[k]
  /\ mutation' = Marked
  /\ UNCHANGED <<body, leased, recent, called, handler, jobVars, faults>>

(* getActivePaidSubscription: an active one whose period is over counts as  *)
(* none; it may not allow the change of plan that is asked for.             *)
ActivePaid == \E s \in Subscriptions : row[s] # NoEvent /\ row[s].status = "ACTIVE"

CheckSubscription(h) ==
  LET operation == body[handler[h].key].operation IN
  /\ handler[h].pc = "check"
  /\ \/ operation = "checkout" /\ HandlerAt(h, "call")
     \/ operation = "checkout" /\ ActivePaid /\ HandlerAt(h, "refuse")
     \/ operation = "change-plan" /\ ActivePaid /\ HandlerAt(h, "call")
     \/ operation = "change-plan" /\ HandlerAt(h, "refuse")
  /\ UNCHANGED <<mutationVars, jobVars, faults>>

(* The provider may have done what it is asked although the call fails.     *)
CallProvider(h, done, answered) ==
  LET k == handler[h].key IN
  /\ handler[h].pc = "call" /\ (answered => done)
  /\ called' = [called EXCEPT ![k] = IF done THEN @ + 1 ELSE @]
  /\ HandlerAt(h, IF ~answered THEN "unknown"
                  ELSE IF body[k].operation = "checkout" THEN "record" ELSE "complete")
  /\ UNCHANGED <<body, mutation, leased, recent, jobVars, faults>>

(* CHECKOUT_CREATED in the ledger: a row no webhook has set yet.            *)
RecordCheckout(h) ==
  /\ handler[h].pc = "record"
  /\ HandlerAt(h, "complete")
  /\ UNCHANGED <<mutationVars, jobVars, faults>>

Settle(h, status) ==
  /\ mutation' = [mutation EXCEPT ![handler[h].key] = status]
  /\ leased' = [leased EXCEPT ![handler[h].key] = FALSE]
  /\ UNCHANGED <<body, recent, called, jobVars>>

Complete(h) ==
  /\ handler[h].pc = "complete" /\ Settle(h, "SUCCEEDED")
  /\ HandlerAt(h, "idle") /\ UNCHANGED faults

Refuse(h) ==
  /\ handler[h].pc = "refuse" /\ Settle(h, "FAILED")
  /\ HandlerAt(h, "idle") /\ UNCHANGED faults

(* Mutant: an error of the provider is taken for a refusal. *)
MarkUnknown_Failed(h) ==
  /\ handler[h].pc = "unknown" /\ Settle(h, "FAILED")
  /\ HandlerAt(h, "idle") /\ UNCHANGED faults

MarkUnknown(h) ==
  /\ handler[h].pc = "unknown" /\ Settle(h, "UNKNOWN")
  /\ HandlerAt(h, "idle") /\ UNCHANGED faults

(* The answer to the last update is lost.  A plan change makes the update   *)
(* in the block whose errors are recorded; a checkout makes it outside.     *)
AnswerLost(h) ==
  /\ handler[h].pc \in {"complete", "refuse"} /\ Fault
  /\ Settle(h, IF handler[h].pc = "complete" THEN "SUCCEEDED" ELSE "FAILED")
  /\ HandlerAt(h, IF body[handler[h].key].operation = "change-plan" THEN "unknown" ELSE "idle")

(* Any statement fails.                                                     *)
HandlerThrows(h) ==
  LET caught == \/ body[handler[h].key].operation = "change-plan" /\ handler[h].pc # "unknown"
                \/ handler[h].pc = "record"
  IN
  /\ handler[h].pc \notin {"idle", "call"} /\ Fault
  /\ HandlerAt(h, IF caught THEN "unknown" ELSE "idle")
  /\ UNCHANGED <<mutationVars, jobVars>>

HandlerCrash(h) ==
  /\ handler[h].pc # "idle" /\ Fault
  /\ HandlerAt(h, "idle")
  /\ UNCHANGED <<mutationVars, jobVars>>

LeaseLapses(k) ==
  /\ mutation[k] = "PROCESSING" /\ leased[k]
  /\ leased' = [leased EXCEPT ![k] = FALSE]
  /\ UNCHANGED <<body, mutation, recent, called, handler, jobVars, faults>>

(* Only the age of a success is looked at.                                  *)
ReuseEnds(k) ==
  /\ Outstanding(k) /\ recent' = [recent EXCEPT ![k] = FALSE]
  /\ UNCHANGED <<body, mutation, leased, called, handler, jobVars, faults>>

-----------------------------------------------------------------------------
(* The provider's events.                                                   *)

(* Whether e is newer than what a row was last set by.                      *)
Rank(e) == IF e.row \in Subscriptions THEN Precedence[e.status] ELSE LedgerPrecedence[e.status]

(* Mutant: of two events of the same second the later arrival wins. *)
Newer_Arrival(e, f) == f = NoEvent \/ f.at <= e.at

Newer(e, f) ==
  \/ f = NoEvent
  \/ f.at < e.at
  \/ f.at = e.at /\ Rank(f) < Rank(e)
  \/ f.at = e.at /\ Rank(f) = Rank(e) /\ f.id < e.id

(* acceptDodoWebhookEvent.  The provider has something to tell once a       *)
(* checkout was handed out; it repeats what was not acknowledged.           *)
Accept(e) ==
  /\ inbox[e] = "NONE" /\ InBounds /\ \E k \in Keys : mutation[k] = "SUCCEEDED"
  /\ inbox' = [inbox EXCEPT ![e] = "PENDING"]
  /\ UNCHANGED <<mutationVars, handler, attempts, eventLeased, processed, row, runnerVars,
                 slipped, faults>>

AcceptAgain(e) ==
  /\ inbox[e] = "FAILED" /\ e \notin processed
  /\ inbox' = [inbox EXCEPT ![e] = "PENDING"]
  /\ attempts' = [attempts EXCEPT ![e] = 0]
  /\ eventLeased' = [eventLeased EXCEPT ![e] = FALSE]
  /\ UNCHANGED <<mutationVars, handler, processed, row, runnerVars, slipped, faults>>

Due == {e \in Events : \/ inbox[e] = "PENDING"
                       \/ inbox[e] = "PROCESSING" /\ ~eventLeased[e]}

EventLeaseLapses(e) ==
  /\ inbox[e] = "PROCESSING" /\ eventLeased[e]
  /\ eventLeased' = [eventLeased EXCEPT ![e] = FALSE]
  /\ UNCHANGED <<mutationVars, handler, inbox, attempts, processed, row, runnerVars, slipped,
                 faults>>

-----------------------------------------------------------------------------
(* The job: runBillingJob with processDueDodoWebhookEvents.                 *)
runnerOnly == <<mutationVars, handler, faults>>

RunnerAt(r, pc, e) == runner' = [runner EXCEPT ![r] = [pc |-> pc, event |-> e]]
Drop(r, e) == held' = [held EXCEPT ![r][e] = 0]

(* Mutant: the job takes no lock. *)
LockFree_Always == TRUE

LockFree == lock = NoRunner

ClaimBatch(r, S) ==
  /\ runner[r].pc = "idle" /\ LockFree /\ S # {} /\ S \subseteq Due
  /\ lock' = r
  /\ inbox' = [e \in Events |-> IF e \in S THEN "PROCESSING" ELSE inbox[e]]
  /\ attempts' = [e \in Events |-> IF e \in S THEN attempts[e] + 1 ELSE attempts[e]]
  /\ eventLeased' = [e \in Events |-> e \in S \/ eventLeased[e]]
  /\ held' = [held EXCEPT ![r] = [e \in Events |-> IF e \in S THEN attempts[e] + 1 ELSE 0]]
  /\ RunnerAt(r, "loop", NoEvent)
  /\ UNCHANGED <<processed, row, seen, slipped, runnerOnly>>

(* A subscription is set by one statement that looks at its last event.     *)
ApplyToSubscription(r, e) ==
  /\ runner[r].pc = "loop" /\ held[r][e] # 0 /\ e.row \in Subscriptions
  /\ row' = [row EXCEPT ![e.row] = IF Newer(e, @) THEN e ELSE @]
  /\ RunnerAt(r, "mark", e)
  /\ UNCHANGED <<inboxVars, lock, held, seen, slipped, runnerOnly>>

(* A ledger row is read, then written by its id.                            *)
ReadLedger(r, e) ==
  /\ runner[r].pc = "loop" /\ held[r][e] # 0 /\ e.row \in Ledger
  /\ seen' = [seen EXCEPT ![r] = row[e.row]]
  /\ RunnerAt(r, "write", e)
  /\ UNCHANGED <<inboxVars, row, lock, held, slipped, runnerOnly>>

WriteLedger(r) ==
  LET e == runner[r].event IN
  /\ runner[r].pc = "write"
  /\ row' = [row EXCEPT ![e.row] = IF Newer(e, seen[r]) THEN e ELSE @]
  /\ seen' = [seen EXCEPT ![r] = NoEvent]
  /\ RunnerAt(r, "mark", e)
  /\ UNCHANGED <<inboxVars, lock, held, slipped, runnerOnly>>

ApplyFails(r, e) ==
  /\ \/ runner[r].pc = "loop" /\ held[r][e] # 0
     \/ runner[r].pc = "write" /\ e = runner[r].event
  /\ seen' = [seen EXCEPT ![r] = NoEvent]
  /\ RunnerAt(r, "fail", e)
  /\ UNCHANGED <<inboxVars, row, lock, held, slipped, runnerOnly>>

SetProcessed(r) ==
  LET e == runner[r].event IN
  /\ runner[r].pc = "mark"
  /\ inbox' = [inbox EXCEPT ![e] = IF @ = "PROCESSING" THEN "PROCESSED" ELSE @]
  /\ processed' = IF inbox[e] = "PROCESSING" THEN processed \cup {e} ELSE processed
  /\ eventLeased' = [eventLeased EXCEPT ![e] = IF inbox[e] = "PROCESSING" THEN FALSE ELSE @]
  /\ UNCHANGED <<mutationVars, handler, attempts, row, lock, seen>>

MarkProcessed(r) ==
  /\ SetProcessed(r)
  /\ RunnerAt(r, "loop", NoEvent) /\ Drop(r, runner[r].event)
  /\ UNCHANGED <<slipped, faults>>

(* The update fails, or is made and its answer is lost.                     *)
MarkThrows(r) ==
  /\ runner[r].pc = "mark" /\ Fault
  /\ RunnerAt(r, "fail", runner[r].event)
  /\ UNCHANGED <<mutationVars, handler, inboxVars, row, lock, held, seen, slipped>>

MarkAnswerLost(r) ==
  /\ Fault /\ SetProcessed(r)
  /\ RunnerAt(r, "fail", runner[r].event)
  /\ slipped' = TRUE
  /\ UNCHANGED held

(* Mutant: the status is not one of the inbox's. *)
AfterFailure_Exhausted(n) == IF n >= MAX_ATTEMPTS THEN "EXHAUSTED" ELSE "PENDING"

(* dodoWebhookFailureTransition.                                            *)
AfterFailure(n) == IF n >= MAX_ATTEMPTS THEN "FAILED" ELSE "PENDING"

FailEvent(r) ==
  LET e == runner[r].event IN
  /\ runner[r].pc = "fail"
  /\ inbox' = [inbox EXCEPT ![e] = AfterFailure(held[r][e])]
  /\ eventLeased' = [eventLeased EXCEPT ![e] = FALSE]
  /\ RunnerAt(r, "loop", NoEvent) /\ Drop(r, e)
  /\ UNCHANGED <<attempts, processed, row, lock, seen, slipped, runnerOnly>>

Stop(r) ==
  /\ RunnerAt(r, "idle", NoEvent)
  /\ held' = [held EXCEPT ![r] = NoBatch]
  /\ seen' = [seen EXCEPT ![r] = NoEvent]
  /\ lock' = IF lock = r THEN NoRunner ELSE lock
  /\ UNCHANGED <<mutationVars, handler, inboxVars, row, slipped>>

Finish(r) ==
  /\ runner[r].pc = "loop" /\ held[r] = NoBatch
  /\ Stop(r) /\ UNCHANGED faults

(* The process dies, or recording a failure throws.                         *)
RunnerCrash(r) == runner[r].pc # "idle" /\ Fault /\ Stop(r)

(* The connection that holds the lock breaks; the run itself goes on.       *)
LoseLock(r) ==
  /\ lock = r /\ Fault
  /\ lock' = NoRunner /\ slipped' = TRUE
  /\ UNCHANGED <<mutationVars, handler, inboxVars, row, runner, held, seen>>

RunnerStep(r) ==
  \/ \E e \in Events : ApplyToSubscription(r, e) \/ ReadLedger(r, e) \/ ApplyFails(r, e)
  \/ WriteLedger(r) \/ MarkProcessed(r) \/ FailEvent(r) \/ Finish(r)

-----------------------------------------------------------------------------
Request(h) ==
  \/ \E k \in Keys : ClaimAgain(h, k) \/ ClaimNew(h, k)
  \/ CheckSubscription(h) \/ RecordCheckout(h)
  \/ \E done, answered \in BOOLEAN : CallProvider(h, done, answered)
  \/ Complete(h) \/ Refuse(h) \/ MarkUnknown(h)
  \/ AnswerLost(h) \/ HandlerThrows(h) \/ HandlerCrash(h)

Next ==
  \/ \E h \in Handlers : Request(h)
  \/ \E k \in Keys : Replay(k) \/ LeaseLapses(k) \/ ReuseEnds(k)
  \/ \E e \in Events : Accept(e) \/ AcceptAgain(e) \/ EventLeaseLapses(e)
  \/ \E r \in Runners :
       \/ \E S \in SUBSET Events : ClaimBatch(r, S)
       \/ RunnerStep(r) \/ MarkThrows(r) \/ MarkAnswerLost(r)
       \/ RunnerCrash(r) \/ LoseLock(r)

Spec == Init /\ [][Next]_vars

-----------------------------------------------------------------------------
BillingTypeOK ==
  /\ body \in [Keys -> Body]
  /\ mutation \in [Keys -> MutationStatus]
  /\ leased \in [Keys -> BOOLEAN] /\ recent \in [Keys -> BOOLEAN]
  /\ called \in [Keys -> Nat]
  /\ handler \in [Handlers -> [pc : HandlerPc, key : Keys \cup {NoKey}]]
  /\ inbox \in [Events -> InboxStatus]
  /\ attempts \in [Events -> Nat] /\ eventLeased \in [Events -> BOOLEAN]
  /\ processed \subseteq Events
  /\ row \in [Subscriptions \cup Ledger -> Events \cup {NoEvent}]
  /\ lock \in Runners \cup {NoRunner}
  /\ runner \in [Runners -> [pc : RunnerPc, event : Events \cup {NoEvent}]]
  /\ held \in [Runners -> [Events -> Nat]]
  /\ seen \in [Runners -> Events \cup {NoEvent}]
  /\ slipped \in BOOLEAN /\ faults \in 0..MaxFaults

(* A key reaches the provider at most once, and its row tells the truth: a  *)
(* success was carried out, and a failure, which invites the same request   *)
(* again, was not.  Late answers, lapsed leases and lost acknowledgements   *)
(* overwrite the row by its id.                                             *)
OutcomeIsTrue ==
  \A k \in Keys :
    /\ called[k] <= 1
    /\ mutation[k] = "SUCCEEDED" => called[k] = 1
    /\ mutation[k] = "FAILED" => called[k] = 0

(* "Another billing mutation must finish or be reconciled before starting   *)
(* this request": a new key is claimed only when no request of another key  *)
(* is between its claim and its outcome, although leases lapse while        *)
(* requests go on and rows are overwritten late.                            *)
InFlight(h) == handler[h].pc \in {"check", "call", "record", "complete", "refuse"}
MutationsDoNotOverlap ==
  [][\A k \in Keys : mutation[k] = "NONE" /\ mutation'[k] # "NONE" =>
       \A h \in Handlers : ~InFlight(h)]_vars

(* "Rejects delayed events": a row is never older than an event that counts *)
(* as processed for it, in whatever order events arrive, are retried and    *)
(* are repeated.  The ledger, read and then written, owes this to the lock. *)
RowIsLatest ==
  \A e \in Events : e \in processed /\ (e.row \in Subscriptions \/ ~slipped) =>
    ~Newer(e, row[e.row])

(* A failure recorded by its id does not reopen an event that was processed *)
(* meanwhile: only the lock prevents it, not the lease, which covers a      *)
(* whole batch and may lapse.                                               *)
ProcessedIsFinal ==
  [][\A e \in Events : inbox[e] = "PROCESSED" /\ ~slipped' => inbox'[e] = "PROCESSED"]_vars
=============================================================================
