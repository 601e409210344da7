------------------------- MODULE QuotaNoticesProofs -------------------------
(* What the rows of quota notifications say is true, for any number of      *)
(* users, runs and attempts: nothing is needed of the units themselves.     *)
(* And, at the end, what UsageQuotaProofs shows of the units, whatever the  *)
(* notices do besides.                                                      *)
EXTENDS QuotaNotices, UsageQuotaProofs, TLAPS

Undisturbed == "mail" \notin slips /\ "lock" \notin slips

RunState ==
  [pc : {"idle", "loop", "sent", "failed"}, to : SUBSET Users, work : SUBSET Users,
   user : Users \cup {NoUser}]

NoticeTypes ==
  /\ delivery \in [Users -> DeliveryStatus]
  /\ tries \in [Users -> Nat]
  /\ mailed \in [Users -> Nat]
  /\ run \in [Runs -> RunState]

(* A run is at one of the deliveries it claimed; what it is about to record *)
(* as sent has been mailed, as has what was recorded.                       *)
RunsFit ==
  \A n \in Runs :
    /\ run[n].pc = "idle" => run[n].work = {}
    /\ run[n].pc \in {"sent", "failed"} => run[n].user \in run[n].work
    /\ run[n].pc = "sent" => mailed[run[n].user] > 0

SentWasMailed == \A u \in Users : delivery[u] = "SENT" => mailed[u] > 0

(* The run at work holds the lock, and its event is still to be settled.    *)
Alone ==
  \A n \in Runs : run[n].pc # "idle" => lock = n /\ warning \in {"PENDING", "ARCHIVED"}

WorkIsClaimed == \A n \in Runs : \A u \in run[n].work : delivery[u] = "PROCESSING"

(* A mail that arrived is recorded, or about to be.                         *)
MailIsKnown ==
  \A u \in Users :
    \/ mailed[u] = 0
    \/ mailed[u] = 1 /\ delivery[u] = "SENT"
    \/ mailed[u] = 1 /\ \E n \in Runs : run[n].pc = "sent" /\ run[n].user = u

EventFits ==
  /\ warning = "COMPLETED" => Settled
  /\ warning = "FAILED" => Exhausted

IInv ==
  /\ NoticeTypes /\ RunsFit /\ SentWasMailed
  /\ Undisturbed => Alone /\ WorkIsClaimed /\ MailIsKnown /\ EventFits

LEMMA InitHolds == Init => IInv
  BY NoticesAssumption
  DEF Init, UsageInit, NoticesInit, IInv, NoticeTypes, RunState, RunsFit, SentWasMailed,
      Undisturbed, Alone,
      WorkIsClaimed, MailIsKnown, EventFits, AtRest, DeliveryStatus

(* Requests and the usage log only ask for the event.                       *)
LEMMA UsageAsks ==
  ASSUME UsageNext
  PROVE  /\ slips \subseteq slips'
         /\ warning' = warning \/ (warning = "NONE" /\ warning' = "PENDING")
  <1>1. ASSUME NEW r \in Requests, RequestStep(r)
        PROVE  slips' = slips /\ (warning' = warning \/ (warning = "NONE" /\ warning' = "PENDING"))
    BY <1>1 DEF RequestStep, ReadUsage, Reserve, Release, Warn, Serve, NoSlip
  <1>2. ASSUME NEW r \in Requests, RequestFails(r)
        PROVE  slips \subseteq slips' /\ warning' = warning
    BY <1>2 DEF RequestFails, ReserveThrows, ReleaseThrows, WarnThrows, RequestCrash, Slip
  <1>3. ASSUME RedisForgets PROVE slips \subseteq slips' /\ warning' = warning
    BY <1>3 DEF RedisForgets, Slip
  <1>4. ASSUME LogStep PROVE slips \subseteq slips' /\ warning' = warning
    BY <1>4 DEF LogStep, TakeEntry, TimerFires, Insert, InsertThrows, InsertAnswerLost, FlushEnds,
                WorkerCrash, Slip, NoSlip, logOnly
  <1> QED BY <1>1, <1>2, <1>3, <1>4 DEF UsageNext

(* Slips are never forgotten, so an undisturbed step began undisturbed.     *)
LEMMA SlipsStay ==
  ASSUME Next
  PROVE  slips \subseteq slips'
  <1>1. ASSUME NEW n \in Runs, RunStep(n) PROVE slips \subseteq slips'
    BY <1>1 DEF RunStep, Begin, Skip, Mail, MailAnswerLost, MarkSent, MarkFailed, MarkSentThrows,
                SettleEvent, RunCrash, LoseLock, Slip, NoSlip
  <1>2. CASE Operate BY <1>2 DEF Operate, NoSlip
  <1> QED BY <1>1, <1>2, UsageAsks DEF Next

LEMMA BeginHolds ==
  ASSUME IInv, NEW n \in Runs, NEW to \in SUBSET Users, NEW due \in SUBSET Claimable,
         Begin(n, to, due)
  PROVE  IInv'
  <1> USE DEF Begin, NoSlip
  <1>1. \A m \in Runs : run'[m] = IF m = n THEN [pc |-> "loop", to |-> to, work |-> due, user |-> NoUser]
                                  ELSE run[m]
    BY DEF IInv, NoticeTypes, RunState
  <1>2. due \subseteq Told /\ Told \subseteq Users /\ \A u \in due : delivery[u] # "SENT"
    BY DEF Claimable, Told
  <1>3. \A u \in Users : delivery'[u] = IF u \in due THEN "PROCESSING"
                                        ELSE IF u \in to \ Told THEN "PENDING" ELSE delivery[u]
    <2> SUFFICES ASSUME NEW u \in Users
                 PROVE  delivery'[u] = IF u \in due THEN "PROCESSING"
                                       ELSE IF u \in to \ Told THEN "PENDING" ELSE delivery[u]
      OBVIOUS
    <2>1. delivery'[u] = CASE u \in due -> "PROCESSING"
                           [] u \in to \ Told -> "PENDING"
                           [] OTHER -> delivery[u]
      OBVIOUS
    <2>2. CASE u \in due BY <1>2, <2>1, <2>2
    <2>3. CASE u \notin due BY <2>1, <2>3
    <2> QED BY <2>2, <2>3
  <1>4. NoticeTypes'
    BY <1>2, <1>3 DEF IInv, NoticeTypes, RunState, DeliveryStatus
  <1>5. RunsFit'
    BY <1>1 DEF IInv, RunsFit
  <1>6. SentWasMailed'
    BY <1>2 DEF IInv, SentWasMailed
  <1>7. ASSUME Undisturbed' PROVE (Alone /\ WorkIsClaimed /\ MailIsKnown /\ EventFits)'
    <2>1. Undisturbed /\ Alone /\ WorkIsClaimed /\ MailIsKnown
      BY <1>7 DEF IInv, Undisturbed
    <2>2. \A m \in Runs : run[m].pc = "idle"
      BY <2>1, NoticesAssumption DEF LockFree, Alone
    <2>3. Alone' BY <1>1, <2>2 DEF Alone
    <2>4. WorkIsClaimed' BY <1>1, <1>2, <1>3, <2>2 DEF WorkIsClaimed, IInv, RunsFit
    <2>5. MailIsKnown' BY <1>2, <1>3, <2>1, <2>2 DEF MailIsKnown, Told
    <2>6. EventFits' BY DEF EventFits
    <2> QED BY <2>3, <2>4, <2>5, <2>6
  <1> QED BY <1>4, <1>5, <1>6, <1>7 DEF IInv

(* A run at work that leaves its lock alone is the only one, undisturbed.   *)
LEMMA NoOther ==
  ASSUME Undisturbed, Alone, NEW n \in Runs, run[n].pc # "idle"
  PROVE  /\ lock = n /\ warning \in {"PENDING", "ARCHIVED"}
         /\ \A m \in Runs : m # n => run[m].pc = "idle"
  BY DEF Alone

LEMMA RecordHolds ==
  ASSUME IInv, NEW n \in Runs, NEW u \in run[n].work, NEW status \in {"SENT", "FAILED", "SKIPPED"},
         run[n].pc # "idle", Record(n, u, status), NoSlip,
         status = "SENT" <=> run[n].pc = "sent",
         run[n].pc \in {"sent", "failed"} => run[n].user = u
  PROVE  IInv'
  <1> USE DEF Record, NoSlip
  <1>1. u \in Users BY DEF IInv, NoticeTypes, RunState
  <1>2. run[n] \in RunState
    BY DEF IInv, NoticeTypes, RunState
  <1>3. \A m \in Runs :
          run'[m] = IF m = n THEN [pc |-> "loop", to |-> run[n].to, work |-> run[n].work \ {u},
                                   user |-> NoUser]
                    ELSE run[m]
    BY DEF At, IInv, NoticeTypes, RunState
  <1>4. run'[n].pc = "loop" /\ run'[n].work = run[n].work \ {u}
    BY <1>3
  <1>5. \A v \in Users : delivery'[v] = IF v = u THEN status ELSE delivery[v]
    BY DEF IInv, NoticeTypes, RunState
  <1>6. NoticeTypes'
    <2>1. delivery' \in [Users -> DeliveryStatus] BY DEF IInv, NoticeTypes, RunState, DeliveryStatus
    <2>2. run' \in [Runs -> RunState]
      <3>1. \A m \in Runs : run'[m] \in RunState
        BY <1>2, <1>3 DEF IInv, NoticeTypes, RunState
      <3>2. run' = [m \in Runs |-> run'[m]] BY DEF At, IInv, NoticeTypes, RunState
      <3> QED BY <3>1, <3>2
    <2> QED BY <2>1, <2>2 DEF IInv, NoticeTypes, RunState
  <1>7. RunsFit'
    BY <1>3 DEF IInv, RunsFit
  <1>8. SentWasMailed'
    BY <1>5 DEF IInv, SentWasMailed, RunsFit
  <1>9. ASSUME Undisturbed' PROVE (Alone /\ WorkIsClaimed /\ MailIsKnown /\ EventFits)'
    <2>1. Undisturbed /\ Alone /\ WorkIsClaimed /\ MailIsKnown
      BY <1>9 DEF IInv, Undisturbed
    <2>2. /\ lock = n /\ warning \in {"PENDING", "ARCHIVED"}
          /\ \A m \in Runs : m # n => run[m].pc = "idle"
      BY <2>1, NoOther
    <2>3. Alone' BY <1>3, <2>2 DEF Alone
    <2>4. WorkIsClaimed' BY <1>3, <1>5, <2>1, <2>2 DEF WorkIsClaimed, IInv, RunsFit, NoticeTypes, RunState
    <2>5. MailIsKnown'
      <3> SUFFICES ASSUME NEW v \in Users, mailed[v] # 0
                   PROVE  mailed[v] = 1 /\ delivery'[v] = "SENT"
        BY DEF MailIsKnown
      <3>1. delivery[u] = "PROCESSING" BY <2>1 DEF WorkIsClaimed
      <3>2. CASE v = u BY <1>5, <2>1, <2>2, <3>1, <3>2 DEF MailIsKnown
      <3>3. CASE v # u BY <1>5, <2>1, <2>2, <3>3 DEF MailIsKnown
      <3> QED BY <3>2, <3>3
    <2>6. EventFits' BY <2>2 DEF EventFits
    <2> QED BY <2>3, <2>4, <2>5, <2>6
  <1> QED BY <1>6, <1>7, <1>8, <1>9 DEF IInv

(* The run turns to the answer of the provider, whose mail may have arrived. *)
LEMMA MailHolds ==
  ASSUME IInv, NEW n \in Runs, NEW u \in run[n].work, NEW state \in {"sent", "failed"},
         NEW arrived \in BOOLEAN,
         run[n].pc = "loop", state = "sent" => arrived,
         At(n, state, run[n].work, u),
         mailed' = [mailed EXCEPT ![u] = IF arrived THEN @ + 1 ELSE @],
         slips \subseteq slips', arrived /\ state = "failed" => "mail" \in slips',
         UNCHANGED <<warning, deliveryVars, lock>>
  PROVE  IInv'
  <1> USE DEF deliveryVars
  <1>1. u \in Users /\ run[n] \in RunState BY DEF IInv, NoticeTypes, RunState
  <1>2. /\ \A v \in Users : mailed'[v] = IF v = u /\ arrived THEN mailed[v] + 1 ELSE mailed[v]
        /\ \A v \in Users : mailed[v] \in Nat
        /\ mailed' \in [Users -> Nat]
    BY <1>1 DEF IInv, NoticeTypes
  <1>3. \A m \in Runs :
          run'[m] = IF m = n THEN [pc |-> state, to |-> run[n].to, work |-> run[n].work, user |-> u]
                    ELSE run[m]
    BY DEF At, IInv, NoticeTypes
  <1>4. NoticeTypes'
    <2>1. \A m \in Runs : run'[m] \in RunState BY <1>1, <1>3 DEF IInv, NoticeTypes, RunState
    <2>2. run' = [m \in Runs |-> run'[m]] BY DEF At, IInv, NoticeTypes
    <2>3. run' \in [Runs -> RunState] BY <2>1, <2>2
    <2> QED BY <1>2, <2>3 DEF IInv, NoticeTypes
  <1>5. RunsFit'
    <2> SUFFICES ASSUME NEW m \in Runs
                 PROVE  /\ run'[m].pc = "idle" => run'[m].work = {}
                        /\ run'[m].pc \in {"sent", "failed"} => run'[m].user \in run'[m].work
                        /\ run'[m].pc = "sent" => mailed'[run'[m].user] > 0
      BY DEF RunsFit
    <2>1. CASE m = n BY <1>1, <1>2, <1>3, <2>1
    <2>2. CASE m # n
      <3>1. run[m] \in RunState /\ run'[m] = run[m] BY <1>3, <2>2 DEF IInv, NoticeTypes
      <3> QED BY <1>2, <3>1 DEF IInv, RunsFit, RunState
    <2> QED BY <2>1, <2>2
  <1>6. SentWasMailed'
    BY <1>2 DEF IInv, SentWasMailed
  <1>7. ASSUME Undisturbed' PROVE (Alone /\ WorkIsClaimed /\ MailIsKnown /\ EventFits)'
    <2>1. Undisturbed /\ Alone /\ WorkIsClaimed /\ MailIsKnown /\ EventFits
      BY <1>7 DEF IInv, Undisturbed
    <2>2. /\ lock = n /\ warning \in {"PENDING", "ARCHIVED"}
          /\ \A m \in Runs : m # n => run[m].pc = "idle"
      BY <2>1, NoOther
    <2>3. Alone' BY <1>3, <2>2 DEF Alone
    <2>4. WorkIsClaimed' BY <1>3, <2>1 DEF WorkIsClaimed
    <2>5. MailIsKnown'
      <3>1. mailed[u] = 0
        BY <1>1, <2>1, <2>2 DEF MailIsKnown, WorkIsClaimed
      <3>2. arrived => run'[n].pc = "sent" /\ run'[n].user = u
        BY <1>3, <1>7 DEF Undisturbed
      <3>3. \A v \in Users : mailed[v] # 0 => mailed[v] = 1 /\ delivery[v] = "SENT"
        BY <2>1, <2>2 DEF MailIsKnown
      <3> QED BY <1>2, <3>1, <3>2, <3>3 DEF MailIsKnown
    <2>6. EventFits' BY <2>2 DEF EventFits
    <2> QED BY <2>3, <2>4, <2>5, <2>6
  <1> QED BY <1>4, <1>5, <1>6, <1>7 DEF IInv

(* SENT could not be recorded: the run goes on to record a failure.         *)
LEMMA MarkSentThrowsHolds ==
  ASSUME IInv, NEW n \in Runs, MarkSentThrows(n)
  PROVE  IInv'
  <1> USE DEF MarkSentThrows, deliveryVars, Slip
  <1>1. run[n] \in RunState BY DEF IInv, NoticeTypes
  <1>2. \A m \in Runs :
          run'[m] = IF m = n THEN [pc |-> "failed", to |-> run[n].to, work |-> run[n].work,
                                   user |-> run[n].user]
                    ELSE run[m]
    BY DEF At, IInv, NoticeTypes
  <1>3. NoticeTypes'
    <2>1. \A m \in Runs : run'[m] \in RunState BY <1>1, <1>2 DEF IInv, NoticeTypes, RunState
    <2>2. run' = [m \in Runs |-> run'[m]] BY DEF At, IInv, NoticeTypes
    <2>3. run' \in [Runs -> RunState] BY <2>1, <2>2
    <2> QED BY <2>3 DEF IInv, NoticeTypes
  <1>4. RunsFit' BY <1>2 DEF IInv, RunsFit
  <1>5. SentWasMailed' BY DEF IInv, SentWasMailed
  <1>6. ~Undisturbed' BY DEF Undisturbed
  <1> QED BY <1>3, <1>4, <1>5, <1>6 DEF IInv

(* A run ends, having settled its event or not.                             *)
LEMMA StopHolds ==
  ASSUME IInv, NEW n \in Runs, Stop(n), run[n].pc # "idle", slips \subseteq slips',
         Undisturbed' => /\ run[n].pc = "loop"
                         /\ warning' = IF Settled THEN "COMPLETED"
                                       ELSE IF Exhausted THEN "FAILED" ELSE warning,
         UNCHANGED <<deliveryVars, mailed>>
  PROVE  IInv'
  <1> USE DEF Stop, deliveryVars
  <1>1. \A m \in Runs : run'[m] = IF m = n THEN AtRest ELSE run[m]
    BY DEF IInv, NoticeTypes
  <1>2. NoticeTypes'
    <2>1. run' \in [Runs -> RunState] BY DEF IInv, NoticeTypes, RunState, AtRest
    <2> QED BY <2>1 DEF IInv, NoticeTypes
  <1>3. RunsFit' BY <1>1 DEF IInv, RunsFit, AtRest
  <1>4. SentWasMailed' BY DEF IInv, SentWasMailed
  <1>5. ASSUME Undisturbed' PROVE (Alone /\ WorkIsClaimed /\ MailIsKnown /\ EventFits)'
    <2>1. Undisturbed /\ Alone /\ WorkIsClaimed /\ MailIsKnown /\ EventFits
      BY <1>5 DEF IInv, Undisturbed
    <2>2. /\ lock = n /\ warning \in {"PENDING", "ARCHIVED"}
          /\ \A m \in Runs : m # n => run[m].pc = "idle"
      BY <2>1, NoOther
    <2>3. Alone' BY <1>1, <2>2 DEF Alone, AtRest
    <2>4. WorkIsClaimed' BY <1>1, <2>1 DEF WorkIsClaimed, AtRest
    <2>5. MailIsKnown' BY <1>5, <2>1, <2>2 DEF MailIsKnown
    <2>6. Settled' = Settled /\ Exhausted' = Exhausted BY DEF Settled, Exhausted, Told
    <2>7. EventFits' BY <1>5, <2>2, <2>6 DEF EventFits
    <2> QED BY <2>3, <2>4, <2>5, <2>7
  <1> QED BY <1>2, <1>3, <1>4, <1>5 DEF IInv

(* Nothing happens to runs and deliveries, and to the event nothing that    *)
(* claims an outcome.                                                       *)
LEMMA OthersHold ==
  ASSUME IInv, slips \subseteq slips', UNCHANGED <<deliveryVars, mailed, run>>,
         Undisturbed' => lock' = lock,
         \/ warning' \in {warning, "ARCHIVED"}
         \/ warning \in {"NONE", "FAILED"} /\ warning' = "PENDING"
  PROVE  IInv'
  <1> USE DEF deliveryVars
  <1>1. NoticeTypes' /\ RunsFit' /\ SentWasMailed'
    BY DEF IInv, NoticeTypes, RunsFit, SentWasMailed
  <1>2. ASSUME Undisturbed' PROVE (Alone /\ WorkIsClaimed /\ MailIsKnown /\ EventFits)'
    <2>1. Undisturbed /\ Alone /\ WorkIsClaimed /\ MailIsKnown /\ EventFits
      BY <1>2 DEF IInv, Undisturbed
    <2>2. Alone' BY <1>2, <2>1 DEF Alone
    <2>3. WorkIsClaimed' /\ MailIsKnown' BY <2>1 DEF WorkIsClaimed, MailIsKnown
    <2>4. Settled' = Settled /\ Exhausted' = Exhausted BY DEF Settled, Exhausted, Told
    <2>5. EventFits' BY <2>1, <2>4 DEF EventFits
    <2> QED BY <2>2, <2>3, <2>5
  <1> QED BY <1>1, <1>2 DEF IInv

LEMMA RunStepHolds ==
  ASSUME IInv, NEW n \in Runs, RunStep(n)
  PROVE  IInv'
  <1>0. slips \subseteq slips'
    BY DEF RunStep, Begin, Skip, Mail, MailAnswerLost, MarkSent, MarkFailed, MarkSentThrows,
           SettleEvent, RunCrash, LoseLock, Slip, NoSlip
  <1>1. CASE \E to \in SUBSET Users, due \in SUBSET Claimable : Begin(n, to, due)
    BY <1>1, BeginHolds
  <1>2. ASSUME NEW u \in Users, Skip(n, u) PROVE IInv'
    BY <1>2, RecordHolds DEF Skip
  <1>3. ASSUME NEW u \in Users, NEW taken \in BOOLEAN, Mail(n, u, taken) PROVE IInv'
    <2> DEFINE state == IF taken THEN "sent" ELSE "failed"
    <2>1. /\ u \in run[n].work /\ run[n].pc = "loop" /\ At(n, state, run[n].work, u)
          /\ mailed' = [mailed EXCEPT ![u] = IF taken THEN @ + 1 ELSE @]
          /\ UNCHANGED <<warning, deliveryVars, lock>>
      BY <1>3 DEF Mail
    <2>2. state \in {"sent", "failed"} /\ (state = "sent" <=> taken) OBVIOUS
    <2> HIDE DEF state
    <2> QED BY <1>0, <2>1, <2>2, MailHolds
  <1>4. ASSUME NEW u \in Users, MailAnswerLost(n, u) PROVE IInv'
    <2>1. mailed' = [mailed EXCEPT ![u] = IF TRUE THEN @ + 1 ELSE @] BY <1>4 DEF MailAnswerLost
    <2> QED BY <1>0, <1>4, <2>1, MailHolds DEF MailAnswerLost, Slip
  <1>5. CASE MarkSent(n)
    <2>1. run[n].user \in run[n].work BY <1>5 DEF MarkSent, IInv, RunsFit
    <2> QED BY <1>5, <2>1, RecordHolds DEF MarkSent
  <1>6. CASE MarkFailed(n)
    <2>1. run[n].user \in run[n].work BY <1>6 DEF MarkFailed, IInv, RunsFit
    <2> QED BY <1>6, <2>1, RecordHolds DEF MarkFailed
  <1>7. CASE MarkSentThrows(n) BY <1>7, MarkSentThrowsHolds
  <1>8. CASE SettleEvent(n)
    BY <1>0, <1>8, StopHolds DEF SettleEvent
  <1>9. CASE RunCrash(n)
    <2>1. ~Undisturbed' BY <1>9 DEF RunCrash, Slip, Undisturbed
    <2> QED BY <1>0, <1>9, <2>1, StopHolds DEF RunCrash
  <1>10. CASE LoseLock(n)
    <2>1. ~Undisturbed' BY <1>10 DEF LoseLock, Slip, Undisturbed
    <2> QED BY <1>0, <1>10, <2>1, OthersHold DEF LoseLock
  <1> QED BY <1>1, <1>2, <1>3, <1>4, <1>5, <1>6, <1>7, <1>8, <1>9, <1>10 DEF RunStep

LEMMA Inductive ==
  ASSUME IInv, [Next]_vars
  PROVE  IInv'
  <1>1. CASE UsageNext /\ UNCHANGED noticeVars
    BY <1>1, UsageAsks, OthersHold DEF noticeVars
  <1>2. ASSUME NEW n \in Runs, RunStep(n) PROVE IInv'
    BY <1>2, RunStepHolds
  <1>3. CASE Operate
    BY <1>3, OthersHold DEF Operate, NoSlip, noticeVars
  <1>4. CASE UNCHANGED vars
    BY <1>4, OthersHold DEF vars, usageVars, noticeVars
  <1> QED BY <1>1, <1>2, <1>3, <1>4 DEF Next

(* A delivery that says SENT was mailed; while no run was disturbed nobody  *)
(* is mailed twice, and the event ends as its deliveries did.               *)
THEOREM NoticesAreTrue == Spec => []NoticesTrue
  <1>1. IInv => NoticesTrue
    BY DEF IInv, NoticeTypes, SentWasMailed, Undisturbed, MailIsKnown, EventFits, NoticesTrue
  <1> QED BY <1>1, InitHolds, Inductive, PTL DEF Spec

-----------------------------------------------------------------------------
(* The units and the notices together.                                      *)
(* For the requests, a step of the notices is one that changes nothing but  *)
(* the warning, which it never takes back.                                  *)
LEMMA NoticesAside ==
  ASSUME UsageTypes, [Next]_vars
  PROVE  UsageMove
  <1>0. faults \in 0..MaxFaults
    BY DEF UsageTypes, UsageTypeOK
  <1>1. \A kind : Slip(kind) => slips \subseteq slips' /\ faults' \in 0..MaxFaults
    BY <1>0, UsageAssumption DEF Slip
  <1>2. NoSlip => slips \subseteq slips' /\ faults' \in 0..MaxFaults
    BY <1>0 DEF NoSlip
  <1>3. ASSUME NEW n \in Runs, RunStep(n) PROVE UsageAside
    <2>0. NoSlip \/ \E kind : Slip(kind)
      BY <1>3 DEF RunStep, Begin, Skip, Mail, MailAnswerLost, MarkSent, MarkFailed,
                  MarkSentThrows, SettleEvent, RunCrash, LoseLock
    <2>1. slips \subseteq slips' /\ faults' \in 0..MaxFaults
      BY <1>1, <1>2, <2>0
    <2>2. UNCHANGED usageOnly /\ warning' \in {warning, "COMPLETED", "FAILED"}
      <3>1. ASSUME NEW to \in SUBSET Users, NEW due \in SUBSET Claimable, Begin(n, to, due)
            PROVE  UNCHANGED <<usageOnly, warning>>
        BY <3>1 DEF Begin
      <3>2. ASSUME NEW u \in Users, Skip(n, u) \/ MailAnswerLost(n, u)
            PROVE  UNCHANGED <<usageOnly, warning>>
        BY <3>2 DEF Skip, MailAnswerLost, Record
      <3>3. ASSUME NEW u \in Users, NEW taken \in BOOLEAN, Mail(n, u, taken)
            PROVE  UNCHANGED <<usageOnly, warning>>
        BY <3>3 DEF Mail
      <3>4. ASSUME MarkSent(n) \/ MarkFailed(n) \/ MarkSentThrows(n) \/ RunCrash(n) \/ LoseLock(n)
            PROVE  UNCHANGED <<usageOnly, warning>>
        BY <3>4 DEF MarkSent, MarkFailed, MarkSentThrows, RunCrash, LoseLock, Record
      <3>5. ASSUME SettleEvent(n)
            PROVE  UNCHANGED usageOnly /\ warning' \in {warning, "COMPLETED", "FAILED"}
        BY <3>5 DEF SettleEvent
      <3> QED BY <1>3, <3>1, <3>2, <3>3, <3>4, <3>5 DEF RunStep
    <2>3. UNCHANGED <<requestVars, counter, logVars>>
      BY <2>2 DEF usageOnly
    <2>4. warning # "NONE" => warning' # "NONE"
      BY <2>2
    <2> QED BY <2>1, <2>3, <2>4 DEF UsageAside
  <1>4. CASE Operate
    <2>1. UNCHANGED <<requestVars, counter, logVars>>
      BY <1>4 DEF Operate, usageOnly
    <2>2. warning' # "NONE" /\ slips \subseteq slips' /\ faults' \in 0..MaxFaults
      BY <1>2, <1>4 DEF Operate
    <2> QED BY <2>1, <2>2 DEF UsageAside, UsageMove
  <1>5. CASE UNCHANGED vars
    BY <1>0, <1>5 DEF vars, usageVars, UsageAside, UsageMove
  <1> QED BY <1>3, <1>4, <1>5 DEF Next, UsageMove

(* The attempts stay within their number, and the lock with the runs.       *)
NoticeBounds ==
  /\ tries \in [Users -> 0..MAX_DELIVERY_ATTEMPTS]
  /\ warning \in {"NONE", "PENDING", "COMPLETED", "FAILED", "ARCHIVED"}
  /\ lock \in Runs \cup {NoRun}

LEMMA NoticeBoundsStep ==
  ASSUME NoticeBounds, [Next]_vars
  PROVE  NoticeBounds'
  <1> USE DEF NoticeBounds
  <1>1. CASE UsageNext /\ UNCHANGED noticeVars
    BY <1>1, UsageAsks DEF noticeVars, deliveryVars
  <1>2. ASSUME NEW n \in Runs, NEW to \in SUBSET Users, NEW due \in SUBSET Claimable, Begin(n, to, due)
        PROVE  NoticeBounds'
    <2>1. \A u \in due : tries[u] < MAX_DELIVERY_ATTEMPTS
      BY DEF Claimable
    <2>2. tries' = [u \in Users |-> IF u \in due THEN tries[u] + 1 ELSE tries[u]]
      BY <1>2 DEF Begin
    <2>3. MAX_DELIVERY_ATTEMPTS \in Nat
      BY NoticesAssumption
    <2>4. \A u \in Users : tries[u] \in 0..MAX_DELIVERY_ATTEMPTS
      OBVIOUS
    <2>5. tries' \in [Users -> 0..MAX_DELIVERY_ATTEMPTS]
      BY <2>1, <2>2, <2>3, <2>4
    <2> QED BY <1>2, <2>5 DEF Begin
  <1>3. ASSUME NEW n \in Runs, RunStep(n),
               ~ \E to \in SUBSET Users, due \in SUBSET Claimable : Begin(n, to, due)
        PROVE  NoticeBounds'
    <2>1. UNCHANGED tries
      BY <1>3 DEF RunStep, Skip, Mail, MailAnswerLost, MarkSent, MarkFailed, MarkSentThrows,
                  SettleEvent, RunCrash, LoseLock, Record, deliveryVars
    <2>2. warning' \in {warning, "COMPLETED", "FAILED"} /\ lock' \in {lock, NoRun}
      BY <1>3 DEF RunStep, Skip, Mail, MailAnswerLost, MarkSent, MarkFailed, MarkSentThrows,
                  SettleEvent, RunCrash, LoseLock, Record, Stop
    <2> QED BY <2>1, <2>2
  <1>4. CASE Operate
    BY <1>4 DEF Operate, noticeVars, deliveryVars
  <1>5. CASE UNCHANGED vars
    BY <1>5 DEF vars, usageVars, noticeVars, deliveryVars
  <1> QED BY <1>1, <1>2, <1>3, <1>4, <1>5 DEF Next, RunStep

(* All that the usage and its notices keep.                                 *)
NoticesInv == IInv /\ NoticeBounds /\ WarningInv /\ RefusalInv

LEMMA NoticesInvInit == Init => NoticesInv
  <1>1. Init => NoticeBounds
    <2>1. 0 \in 0..MAX_DELIVERY_ATTEMPTS
      BY NoticesAssumption
    <2> QED BY <2>1 DEF Init, UsageInit, NoticesInit, NoticeBounds
  <1> QED BY <1>1, InitHolds, WarningInit, RefusalInit DEF Init, NoticesInv

LEMMA NoticesInvStep ==
  ASSUME NoticesInv, [Next]_vars
  PROVE  NoticesInv'
  <1>1. UsageMove
    BY NoticesAside DEF NoticesInv, WarningInv, LimitInv
  <1> QED BY <1>1, Inductive, NoticeBoundsStep, WarningStep, RefusalStep DEF NoticesInv

(* The state of the usage, its log and its notices has its type: attempts   *)
(* are never more than MAX_DELIVERY_ATTEMPTS, a charge never more than the  *)
(* cost.                                                                    *)
THEOREM NoticesTypeCorrect == Spec => []NoticesTypeOK
  <1>1. NoticesInv => NoticesTypeOK
    <2>1. ASSUME NoticeTypes, NEW n \in Runs
          PROVE  /\ run[n].pc \in {"idle", "loop", "sent", "failed"}
                 /\ run[n].to \subseteq Users /\ run[n].work \subseteq Users
                 /\ run[n].user \in Users \cup {NoUser}
      <3>1. run[n] \in RunState
        BY <2>1 DEF NoticeTypes
      <3> QED BY <3>1 DEF RunState
    <2> QED BY <2>1 DEF NoticesInv, IInv, NoticeTypes, NoticeBounds, NoticesTypeOK, WarningInv,
                        LimitInv, UsageTypes
  <1> QED BY <1>1, NoticesInvInit, NoticesInvStep, PTL DEF Spec

(* Concurrent requests together never pass the limit, unless Redis failed:  *)
(* what all of them hold is in the counter that each of them reserves from. *)
THEOREM LimitIsKept == Spec => []WithinQuota
  <1>1. NoticesInv => WithinQuota
    BY LimitHolds DEF NoticesInv, WarningInv
  <1> QED BY <1>1, NoticesInvInit, NoticesInvStep, PTL DEF Spec

(* Once successes have used 80 % of the limit the warning has been asked    *)
(* for: by the last of them to reserve, which found the others' units in    *)
(* the counter.                                                             *)
THEOREM WarningIsRequested == Spec => []WarningRequested
  <1>1. NoticesInv => WarningRequested
    BY WarningHolds DEF NoticesInv
  <1> QED BY <1>1, NoticesInvInit, NoticesInvStep, PTL DEF Spec

(* A request is refused only when what others hold leaves no room for it,   *)
(* unless something inflated the counter: it never holds more than they do. *)
THEOREM RefusalsAreJust == Spec => RefusalIsJust
  <1>1. ASSUME NoticesInv, [Next]_vars
        PROVE  [\A r \in Requests :
                  pc[r] = "reserve" /\ pc'[r] = "done"
                    /\ slips \cap {"redis", "release", "crash", "repeat"} = {} =>
                    SumFunction([q \in Requests |-> IF q = r THEN Cost[r] ELSE Holds(q)])
                      > Limit]_usageVars
    <2>1. UsageMove
      BY <1>1, NoticesAside DEF NoticesInv, WarningInv, LimitInv
    <2> QED BY <1>1, <2>1, RefusalHolds DEF NoticesInv
  <1> QED BY <1>1, NoticesInvInit, NoticesInvStep, PTL DEF Spec, RefusalIsJust
=============================================================================
