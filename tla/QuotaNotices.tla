---------------------------- MODULE QuotaNotices ----------------------------
(***************************************************************************)
(* What becomes of the month's warning: the job `notifications` of the     *)
(* billing worker mails the owners and admins of the account               *)
(* (quota-notifications.ts, jobs.ts), one delivery for each.  How the      *)
(* month got there is UsageQuota.                                          *)
(*                                                                         *)
(* A run of the job holds an advisory lock, and leases the deliveries it   *)
(* mails for five minutes; a run of many mails may take longer than that.  *)
(* So the clock is free here: a delivery may be due, and a lease may have  *)
(* lapsed, at any time.                                                    *)
(***************************************************************************)
EXTENDS UsageQuota

CONSTANTS
  Users,                  \* owners and admins of the account
  Runs,                   \* runs of the job
  NoRun, NoUser,
  MAX_DELIVERY_ATTEMPTS

ASSUME NoticesAssumption ==
  /\ NoRun \notin Runs /\ NoUser \notin Users
  /\ MAX_DELIVERY_ATTEMPTS \in Nat \ {0}

DeliveryStatus == {"NONE", "PENDING", "PROCESSING", "SENT", "FAILED", "SKIPPED"}

VARIABLES
  delivery,      \* status of a user's row of quota_notification_deliveries
  tries,         \* its attempts
  mailed,        \* mailed[u]: mails that reached u
  lock,          \* the run that holds the job's advisory lock
  run            \* run[n]: where the run is, whom it may mail, what it claimed

deliveryVars == <<delivery, tries>>
noticeVars == <<deliveryVars, mailed, lock, run>>
vars == <<usageVars, noticeVars>>

AtRest == [pc |-> "idle", to |-> {}, work |-> {}, user |-> NoUser]

NoticesInit ==
  /\ delivery = [u \in Users |-> "NONE"]
  /\ tries = [u \in Users |-> 0]
  /\ mailed = [u \in Users |-> 0]
  /\ lock = NoRun
  /\ run = [n \in Runs |-> AtRest]

(* Bound of the model: by the time the first run begins, the requests have  *)
(* ended and their entries have reached the log.  Of the usage, a run sees  *)
(* the event only, and asking for it again changes nothing.                 *)
MonthOver ==
  /\ \A r \in Requests : pc[r] = "done"
  /\ queue = {} /\ batch = {} /\ flushes = {} /\ ~flushTimer

Told == {u \in Users : delivery[u] # "NONE"}

usageOnly == <<requestVars, counter, logVars>>
At(n, state, work, user) ==
  run' = [run EXCEPT ![n] = [pc |-> state, to |-> run[n].to, work |-> work, user |-> user]]

-----------------------------------------------------------------------------
(* Mutant: the job takes no lock. *)
LockFree_Always == TRUE

LockFree == lock = NoRun

(* What claimQuotaDeliveries takes once nextAttemptAt or leaseUntil is past. *)
Claimable ==
  {u \in Told : /\ tries[u] < MAX_DELIVERY_ATTEMPTS
                /\ delivery[u] \in {"PENDING", "FAILED", "PROCESSING"}}

(* A row inserted by the run itself is not due: the database dates it after *)
(* the run's own idea of now.                                               *)
Begin(n, to, due) ==
  /\ run[n].pc = "idle" /\ LockFree /\ warning = "PENDING" /\ MonthOver
  /\ lock' = n
  /\ run' = [run EXCEPT ![n] = [pc |-> "loop", to |-> to, work |-> due, user |-> NoUser]]
  /\ delivery' = [u \in Users |-> CASE u \in due -> "PROCESSING"
                                    [] u \in to \ Told -> "PENDING"
                                    [] OTHER -> delivery[u]]
  /\ tries' = [u \in Users |-> IF u \in due THEN tries[u] + 1 ELSE tries[u]]
  /\ NoSlip /\ UNCHANGED <<usageOnly, warning, mailed>>

(* The row is set by its id and the run turns to its next delivery.         *)
Record(n, u, status) ==
  /\ delivery' = [delivery EXCEPT ![u] = status]
  /\ At(n, "loop", run[n].work \ {u}, NoUser)
  /\ UNCHANGED <<usageOnly, warning, tries, mailed, lock>>

Skip(n, u) ==
  /\ run[n].pc = "loop" /\ u \in run[n].work \ run[n].to
  /\ Record(n, u, "SKIPPED") /\ NoSlip

(* The provider takes the mail or rejects it.                               *)
Mail(n, u, taken) ==
  /\ run[n].pc = "loop" /\ u \in run[n].work \cap run[n].to
  /\ mailed' = [mailed EXCEPT ![u] = IF taken THEN @ + 1 ELSE @]
  /\ At(n, IF taken THEN "sent" ELSE "failed", run[n].work, u)
  /\ NoSlip /\ UNCHANGED <<usageOnly, warning, deliveryVars, lock>>

(* It takes the mail and its answer is lost.                                *)
MailAnswerLost(n, u) ==
  /\ run[n].pc = "loop" /\ u \in run[n].work \cap run[n].to /\ Slip("mail")
  /\ mailed' = [mailed EXCEPT ![u] = @ + 1]
  /\ At(n, "failed", run[n].work, u)
  /\ UNCHANGED <<usageOnly, warning, deliveryVars, lock>>

MarkSent(n) ==
  /\ run[n].pc = "sent" /\ Record(n, run[n].user, "SENT") /\ NoSlip

MarkFailed(n) ==
  /\ run[n].pc = "failed" /\ Record(n, run[n].user, "FAILED") /\ NoSlip

(* Whatever goes wrong with SENT is recorded as a failure.                  *)
MarkSentThrows(n) ==
  /\ run[n].pc = "sent" /\ Slip("mail")
  /\ At(n, "failed", run[n].work, run[n].user)
  /\ UNCHANGED <<usageOnly, warning, deliveryVars, mailed, lock>>

Stop(n) ==
  /\ run' = [run EXCEPT ![n] = AtRest]
  /\ lock' = IF lock = n THEN NoRun ELSE lock

Settled == \A u \in Told : delivery[u] \in {"SENT", "SKIPPED"}
Exhausted == \E u \in Told : delivery[u] = "FAILED" /\ tries[u] >= MAX_DELIVERY_ATTEMPTS

(* The event follows its deliveries; one that is neither is looked at again *)
(* in a minute.                                                             *)
SettleEvent(n) ==
  /\ run[n].pc = "loop" /\ run[n].work = {}
  /\ warning' = IF Settled THEN "COMPLETED" ELSE IF Exhausted THEN "FAILED" ELSE warning
  /\ Stop(n)
  /\ NoSlip /\ UNCHANGED <<usageOnly, deliveryVars, mailed>>

(* The process dies, or recording a failure throws.                         *)
RunCrash(n) ==
  /\ run[n].pc # "idle" /\ Slip("mail") /\ Stop(n)
  /\ UNCHANGED <<usageOnly, warning, deliveryVars, mailed>>

(* The connection that holds the lock breaks; the run itself goes on.       *)
LoseLock(n) ==
  /\ lock = n /\ Slip("lock")
  /\ lock' = NoRun
  /\ UNCHANGED <<usageOnly, warning, deliveryVars, mailed, run>>

(* The operator, with retryOutboxEventAction and archiveOutboxEventAction.  *)
Operate ==
  /\ \/ warning = "FAILED" /\ warning' = "PENDING"
     \/ warning # "NONE" /\ MonthOver /\ warning' = "ARCHIVED"
  /\ NoSlip /\ UNCHANGED <<usageOnly, noticeVars>>

-----------------------------------------------------------------------------
RunStep(n) ==
  \/ \E to \in SUBSET Users, due \in SUBSET Claimable : Begin(n, to, due)
  \/ \E u \in Users : Skip(n, u) \/ MailAnswerLost(n, u)
  \/ \E u \in Users, taken \in BOOLEAN : Mail(n, u, taken)
  \/ MarkSent(n) \/ MarkFailed(n) \/ MarkSentThrows(n) \/ SettleEvent(n)
  \/ RunCrash(n) \/ LoseLock(n)

Next ==
  \/ UsageNext /\ UNCHANGED noticeVars
  \/ \E n \in Runs : RunStep(n)
  \/ Operate

Init == UsageInit /\ NoticesInit

Spec == Init /\ [][Next]_vars

-----------------------------------------------------------------------------
NoticesTypeOK ==
  /\ UsageTypeOK
  /\ delivery \in [Users -> DeliveryStatus]
  /\ tries \in [Users -> 0..MAX_DELIVERY_ATTEMPTS]
  /\ mailed \in [Users -> Nat]
  /\ warning \in {"NONE", "PENDING", "COMPLETED", "FAILED", "ARCHIVED"}
  /\ lock \in Runs \cup {NoRun}
  /\ \A n \in Runs :
       /\ run[n].pc \in {"idle", "loop", "sent", "failed"}
       /\ run[n].to \subseteq Users /\ run[n].work \subseteq Users
       /\ run[n].user \in Users \cup {NoUser}

(* A delivery that says SENT was mailed, nobody is mailed twice, and the    *)
(* event is completed only when every delivery is sent or skipped: leases   *)
(* lapse while a run is still mailing, and rows are set by their id.        *)
NoticesTrue ==
  /\ \A u \in Users : delivery[u] = "SENT" => mailed[u] > 0
  /\ "mail" \notin slips /\ "lock" \notin slips =>
       /\ \A u \in Users : mailed[u] <= 1
       /\ warning = "COMPLETED" => Settled
       /\ warning = "FAILED" => Exhausted
=============================================================================
