----------------------------- MODULE UsageQuota -----------------------------
(***************************************************************************)
(* The monthly units of one account, in one month: requests reserve them   *)
(* in Redis against what the usage log in the database says                *)
(* (rate-limit.ts, usage-quota.ts) and give back what they do not use; a   *)
(* queue and a buffer in memory lead their entries to that log             *)
(* (usage-log.ts, usage-queue.ts).  The first success that reaches 80 % of *)
(* the limit asks for a warning.                                           *)
(*                                                                         *)
(* The log lags behind, so what keeps concurrent requests within the limit *)
(* is the counter in Redis, which nothing restores exactly once it is      *)
(* wrong.                                                                  *)
(***************************************************************************)
EXTENDS Integers, FiniteSets, Functions

CONSTANTS
  Requests,      \* requests of the account
  Cost,          \* Cost[r]: the units getRequestCost asks for r
  Limit,         \* planLimits.monthlyUnits
  BATCH_SIZE,
  NoRequest,
  MaxFaults      \* bound of the model: failures, lost answers and crashes

ASSUME UsageAssumption ==
  /\ Cost \in [Requests -> Nat \ {0}] /\ Limit \in Nat \ {0}
  /\ BATCH_SIZE \in Nat \ {0} /\ MaxFaults \in Nat /\ NoRequest \notin Requests
  /\ IsFiniteSet(Requests)

Pc == {"new", "reserve", "serve", "release", "warn", "done"}
Slips == {"redis", "release", "crash", "repeat", "insert", "lost", "warning", "mail", "lock"}

VARIABLES
  pc,            \* pc[r]: where request r is
  base,          \* base[r]: the units r read from the usage log
  used,          \* used[r]: the units in use before r, as its reservation says
  reserved,      \* r has a reservationKey
  success,       \* r was answered with a status below 400
  charge,        \* charge[r]: its finalCost
  counter,       \* the month's key in Redis; 0 when it is absent
  queue,         \* entries in the queue usage-logging
  active,        \* the entry whose queue job awaits its flush
  batch,         \* entries in the buffer
  flushes,       \* flushes in progress, each a set of entries
  flushTimer,
  stored,        \* stored[r]: rows of usage_logs for r
  warning,       \* status of the month's event quota.warning.requested
  slips,         \* what went wrong so far
  faults

requestVars == <<pc, base, used, reserved, success, charge>>
logVars == <<queue, active, batch, flushes, flushTimer, stored>>
usageVars == <<requestVars, counter, logVars, warning, slips, faults>>

UsageInit ==
  /\ pc = [r \in Requests |-> "new"]
  /\ base = [r \in Requests |-> 0]
  /\ used = [r \in Requests |-> 0]
  /\ reserved = [r \in Requests |-> FALSE]
  /\ success = [r \in Requests |-> FALSE]
  /\ charge = [r \in Requests |-> 0]
  /\ counter = 0
  /\ queue = {} /\ active = NoRequest /\ batch = {} /\ flushes = {}
  /\ flushTimer = FALSE
  /\ stored = [r \in Requests |-> 0]
  /\ warning = "NONE"
  /\ slips = {} /\ faults = 0

Slip(kind) == faults < MaxFaults /\ faults' = faults + 1 /\ slips' = slips \cup {kind}
NoSlip == UNCHANGED <<slips, faults>>

Goto(r, to) == pc' = [pc EXCEPT ![r] = to]

-----------------------------------------------------------------------------
(* A request.                                                               *)

(* getMonthlyUsageUnits: rows of answers that failed do not count.          *)
Durable == SumFunction([r \in Requests |-> IF success[r] THEN stored[r] * charge[r] ELSE 0])

ReadUsage(r) ==
  /\ pc[r] = "new"
  /\ base' = [base EXCEPT ![r] = Durable]
  /\ Goto(r, "reserve")
  /\ NoSlip /\ UNCHANGED <<used, reserved, success, charge, counter, logVars, warning>>

(* Mutant: the key is set to what the log says. *)
Current_Durable(r) == base[r]

(* QUOTA_RESERVATION_SCRIPT: the counter is never below what the log said.  *)
Current(r) == IF counter < base[r] THEN base[r] ELSE counter

Fits(r, before) == before + Cost[r] <= Limit

Reserve(r) ==
  /\ pc[r] = "reserve"
  /\ counter' = IF Fits(r, Current(r)) THEN Current(r) + Cost[r] ELSE Current(r)
  /\ used' = [used EXCEPT ![r] = IF Fits(r, Current(r)) THEN Current(r) ELSE 0]
  /\ reserved' = [reserved EXCEPT ![r] = Fits(r, Current(r))]
  /\ base' = [base EXCEPT ![r] = 0]
  /\ Goto(r, IF Fits(r, Current(r)) THEN "serve" ELSE "done")
  /\ NoSlip /\ UNCHANGED <<success, charge, logVars, warning>>

(* Redis does not answer, whether or not it ran the script: the log alone   *)
(* decides (checkMonthlyUsageQuota).                                        *)
ReserveThrows(r, ran) ==
  /\ pc[r] = "reserve" /\ Slip("redis")
  /\ counter' = IF ran /\ Fits(r, Current(r)) THEN Current(r) + Cost[r] ELSE counter
  /\ used' = [used EXCEPT ![r] = IF Fits(r, Durable) THEN Durable ELSE 0]
  /\ base' = [base EXCEPT ![r] = 0]
  /\ Goto(r, IF Fits(r, Durable) THEN "serve" ELSE "done")
  /\ UNCHANGED <<reserved, success, charge, logVars, warning>>

(* The handler: a success costs what was asked; a failure, or a replay,     *)
(* nothing; a batch that fails half way, what it attempted.  The entry of   *)
(* the usage log is queued before the reservation is looked at again.       *)
Serve(r, ok, units) ==
  /\ pc[r] = "serve"
  /\ units \in (IF ok THEN {0, Cost[r]} ELSE 0..Cost[r])
  /\ success' = [success EXCEPT ![r] = ok]
  /\ charge' = [charge EXCEPT ![r] = units]
  /\ queue' = queue \cup {r}
  /\ Goto(r, "release")
  /\ NoSlip
  /\ UNCHANGED <<base, used, reserved, counter, active, batch, flushes, flushTimer, stored,
                 warning>>

(* Mutant: what is given back is not floored. *)
Lowered_Unfloored(units) == counter - units

(* QUOTA_RELEASE_SCRIPT.                                                    *)
Lowered(units) == IF units <= counter THEN counter - units ELSE 0

(* Mutant: what is not used is kept. *)
Unused_Kept(r) == 0

Unused(r) == IF reserved[r] THEN Cost[r] - charge[r] ELSE 0

(* buildQuotaWarningRequest: Math.round of the percentage, at most 100.     *)
Percent(units) ==
  LET rounded == (200 * units + Limit) \div (2 * Limit) IN IF rounded > 100 THEN 100 ELSE rounded

(* Mutant: the threshold itself does not warn. *)
WarningDue_Above(r) ==
  success[r] /\ charge[r] > 0 /\ Percent(used[r] + charge[r]) > 80

WarningDue(r) == success[r] /\ charge[r] > 0 /\ Percent(used[r] + charge[r]) >= 80

Leave(r) == used' = [used EXCEPT ![r] = 0] /\ reserved' = [reserved EXCEPT ![r] = FALSE]

AfterRelease(r) == Goto(r, IF WarningDue(r) THEN "warn" ELSE "done") /\ Leave(r)

Release(r) ==
  /\ pc[r] = "release"
  /\ counter' = Lowered(Unused(r))
  /\ AfterRelease(r)
  /\ NoSlip /\ UNCHANGED <<base, success, charge, logVars, warning>>

ReleaseThrows(r) ==
  /\ pc[r] = "release" /\ Unused(r) > 0 /\ Slip("release")
  /\ AfterRelease(r)
  /\ UNCHANGED <<base, success, charge, counter, logVars, warning>>

(* enqueueOutboxEvent under the month's deduplicationKey.                   *)
Warn(r) ==
  /\ pc[r] = "warn"
  /\ warning' = IF warning = "NONE" THEN "PENDING" ELSE warning
  /\ Goto(r, "done")
  /\ NoSlip /\ UNCHANGED <<base, used, reserved, success, charge, counter, logVars>>

WarnThrows(r) ==
  /\ pc[r] = "warn" /\ Slip("warning")
  /\ Goto(r, "done")
  /\ UNCHANGED <<base, used, reserved, success, charge, counter, logVars, warning>>

(* A process of the API dies with the requests it was at.                   *)
RequestCrash(r) ==
  /\ pc[r] \in {"serve", "release", "warn"} /\ Slip("crash")
  /\ Goto(r, "done") /\ Leave(r)
  /\ UNCHANGED <<base, success, charge, counter, logVars, warning>>

(* The key is evicted, or Redis restarts empty.                             *)
RedisForgets ==
  /\ counter > 0 /\ Slip("redis")
  /\ counter' = 0
  /\ UNCHANGED <<requestVars, logVars, warning>>

-----------------------------------------------------------------------------
(* The worker of the queue.  A job is acknowledged once its entry is in the *)
(* buffer, or, when that fills the buffer, once its flush has ended.        *)
logOnly == <<requestVars, counter, warning>>

TakeEntry(r) ==
  /\ r \in queue /\ active = NoRequest
  /\ queue' = queue \ {r}
  /\ IF Cardinality(batch) + 1 >= BATCH_SIZE
     THEN /\ flushes' = flushes \cup {batch \cup {r}}
          /\ batch' = {} /\ active' = r
          /\ UNCHANGED flushTimer
     ELSE /\ batch' = batch \cup {r}
          /\ flushTimer' = TRUE
          /\ UNCHANGED <<flushes, active>>
  /\ NoSlip /\ UNCHANGED <<logOnly, stored>>

TimerFires ==
  /\ flushTimer
  /\ flushTimer' = FALSE
  /\ flushes' = IF batch = {} THEN flushes ELSE flushes \cup {batch}
  /\ batch' = {}
  /\ NoSlip /\ UNCHANGED <<logOnly, queue, active, stored>>

FlushEnds(F) ==
  /\ F \in flushes
  /\ flushes' = flushes \ {F}
  /\ active' = IF active \in F THEN NoRequest ELSE active
  /\ UNCHANGED <<logOnly, queue, flushTimer>>

Inserted(S) == stored' = [r \in Requests |-> IF r \in S THEN stored[r] + 1 ELSE stored[r]]

Insert(F) == FlushEnds(F) /\ Inserted(F) /\ UNCHANGED batch /\ NoSlip

(* The entries go back into the buffer; no timer is set for them.           *)
InsertThrows(F) ==
  FlushEnds(F) /\ batch' = batch \cup F /\ Slip("insert") /\ UNCHANGED stored

InsertAnswerLost(F) ==
  FlushEnds(F) /\ batch' = batch \cup F /\ Slip("repeat") /\ Inserted(F)

(* The buffer is lost; an unacknowledged job is delivered again, although   *)
(* its flush, or any other, may have been carried out.                      *)
WorkerCrash(done) ==
  /\ Slip(IF active \in UNION done THEN "repeat" ELSE "lost")
  /\ done \subseteq flushes /\ Inserted(UNION done)
  /\ queue' = IF active = NoRequest THEN queue ELSE queue \cup {active}
  /\ active' = NoRequest /\ batch' = {} /\ flushes' = {} /\ flushTimer' = FALSE
  /\ UNCHANGED logOnly

-----------------------------------------------------------------------------
RequestStep(r) ==
  \/ ReadUsage(r) \/ Reserve(r) \/ Release(r) \/ Warn(r)
  \/ \E ok \in BOOLEAN : \E units \in 0..Cost[r] : Serve(r, ok, units)

RequestFails(r) ==
  \/ \E ran \in BOOLEAN : ReserveThrows(r, ran)
  \/ ReleaseThrows(r) \/ WarnThrows(r) \/ RequestCrash(r)

LogStep ==
  \/ \E r \in Requests : TakeEntry(r)
  \/ TimerFires
  \/ \E F \in flushes : Insert(F) \/ InsertThrows(F) \/ InsertAnswerLost(F)
  \/ \E done \in SUBSET flushes : WorkerCrash(done)

UsageNext ==
  \/ \E r \in Requests : RequestStep(r) \/ RequestFails(r)
  \/ RedisForgets
  \/ LogStep

UsageSpec == UsageInit /\ [][UsageNext]_usageVars

-----------------------------------------------------------------------------
UsageTypeOK ==
  /\ pc \in [Requests -> Pc]
  /\ base \in [Requests -> Nat] /\ used \in [Requests -> Nat]
  /\ reserved \in [Requests -> BOOLEAN] /\ success \in [Requests -> BOOLEAN]
  /\ \A r \in Requests : charge[r] \in 0..Cost[r]
  /\ counter \in Nat
  /\ queue \subseteq Requests /\ active \in Requests \cup {NoRequest}
  /\ batch \subseteq Requests /\ flushes \subseteq SUBSET Requests
  /\ flushTimer \in BOOLEAN /\ stored \in [Requests -> Nat]
  /\ faults \in 0..MaxFaults

(* What a request holds of the limit, and what it will have used of it.     *)
Holds(r) == IF pc[r] \in {"serve", "release"} THEN Cost[r] ELSE charge[r]
Uses(r) == IF pc[r] = "serve" THEN Cost[r] ELSE charge[r]

(* Concurrent requests together never pass the limit, although each read of *)
(* the log is stale when it is used: unless Redis failed or lost its key.   *)
WithinQuota ==
  "redis" \notin slips => SumFunction([r \in Requests |-> Uses(r)]) <= Limit

(* "Monthly quota exceeded": a request is refused only when what others     *)
(* hold leaves no room for it.  Whatever inflates the counter, such as a    *)
(* release that Redis missed or an entry stored twice, stays to the end of  *)
(* the month.                                                               *)
RefusalIsJust ==
  [][\A r \in Requests :
       pc[r] = "reserve" /\ pc'[r] = "done" /\ slips \cap {"redis", "release", "crash", "repeat"} = {} =>
         SumFunction([q \in Requests |-> IF q = r THEN Cost[r] ELSE Holds(q)]) > Limit]_usageVars

(* "Requests one threshold-keyed warning after successful billable usage":  *)
(* once successes have used 80 % the warning has been asked for, by         *)
(* whichever of them reserved last, in whatever order they end. Mail        *)
(* delivery is taken as configured (rate-limit.ts:341): where it is not, no *)
(* warning is ever asked for.                                               *)
WarningRequested ==
  slips \cap {"redis", "crash", "warning"} = {} =>
    LET ended == [r \in Requests |-> IF pc[r] = "done" /\ success[r] THEN charge[r] ELSE 0]
    IN  100 * SumFunction(ended) >= 80 * Limit => warning # "NONE"
=============================================================================
