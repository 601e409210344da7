---------------------------- MODULE BillingProofs ----------------------------
(***************************************************************************)
(* Theorems about Billing.  Its two halves share no variable that both     *)
(* write, so each has an inductive invariant of its own: MutationInv for   *)
(* the requests of users, JobInv for the webhook inbox.                    *)
(***************************************************************************)
EXTENDS Billing, TLAPS

-----------------------------------------------------------------------------
(* The requests.                                                            *)

HandlerType == [Handlers -> [pc : HandlerPc, key : Keys \cup {NoKey}]]

MutationTypes ==
  /\ body \in [Keys -> Body]
  /\ mutation \in [Keys -> MutationStatus]
  /\ leased \in [Keys -> BOOLEAN] /\ recent \in [Keys -> BOOLEAN]
  /\ called \in [Keys -> Nat]
  /\ handler \in HandlerType

(* A request is of a key that is in use.                                    *)
KeysFit ==
  \A h \in Handlers : handler[h].pc # "idle" =>
    handler[h].key \in Keys /\ mutation[handler[h].key] # "NONE"

(* Where a request is tells whether the provider has done it.               *)
BeforeCall == {"check", "call", "refuse"}
AfterCall == {"record", "complete"}
CallsFit ==
  \A h \in Handlers :
    /\ handler[h].pc \in BeforeCall => called[handler[h].key] = 0
    /\ handler[h].pc \in AfterCall => called[handler[h].key] = 1

(* The row of a request in flight says so, also when its lease has lapsed.  *)
FlightsFit ==
  \A h \in Handlers : InFlight(h) => mutation[handler[h].key] \in {"PROCESSING", "UNKNOWN"}

OneFlight ==
  \A g, h \in Handlers : InFlight(g) /\ InFlight(h) /\ handler[g].key = handler[h].key => g = h

OutcomesFit ==
  \A k \in Keys :
    /\ called[k] \in {0, 1}
    /\ mutation[k] \in {"NONE", "FAILED"} => called[k] = 0
    /\ mutation[k] = "SUCCEEDED" => called[k] = 1

MutationInv == MutationTypes /\ KeysFit /\ CallsFit /\ FlightsFit /\ OneFlight /\ OutcomesFit

LEMMA FlightIs ==
  ASSUME NEW h \in Handlers
  PROVE  InFlight(h) <=> handler[h].pc \in BeforeCall \cup AfterCall
BY DEF InFlight, BeforeCall, AfterCall

LEMMA HandlerMoves ==
  ASSUME handler \in HandlerType, NEW h \in Handlers, NEW pc \in HandlerPc, HandlerAt(h, pc)
  PROVE  /\ handler' \in HandlerType
         /\ \A g \in Handlers \ {h} : handler'[g] = handler[g]
         /\ handler'[h].pc = pc
         /\ pc # "idle" => handler'[h].key = handler[h].key
<1>1. handler[h] \in [pc : HandlerPc, key : Keys \cup {NoKey}]
  BY DEF HandlerType
<1>2. PICK new : /\ new = IF pc = "idle" THEN Idle ELSE [handler[h] EXCEPT !.pc = pc]
                 /\ handler' = [handler EXCEPT ![h] = new]
  BY DEF HandlerAt
<1>3. /\ new \in [pc : HandlerPc, key : Keys \cup {NoKey}] /\ new.pc = pc
      /\ pc # "idle" => new.key = handler[h].key
  BY <1>1, <1>2 DEF Idle, HandlerPc
<1> QED  BY <1>2, <1>3 DEF HandlerType

(* A request goes on, on the same side of the provider's call, or ends.     *)
LEMMA MoveFits ==
  ASSUME MutationInv, NEW h \in Handlers, NEW pc \in HandlerPc, HandlerAt(h, pc),
         UNCHANGED mutationVars, handler[h].pc # "idle",
         pc \in BeforeCall => handler[h].pc \in BeforeCall,
         pc \in AfterCall => handler[h].pc \in AfterCall
  PROVE  MutationInv'
<1>1. /\ handler' \in HandlerType
      /\ \A g \in Handlers \ {h} : handler'[g] = handler[g]
      /\ handler'[h].pc = pc
      /\ pc # "idle" => handler'[h].key = handler[h].key
  BY HandlerMoves DEF MutationInv, MutationTypes
<1>2. /\ body' = body /\ mutation' = mutation /\ leased' = leased /\ recent' = recent
      /\ called' = called
  BY DEF mutationVars
<1>3. \A g \in Handlers : handler'[g].pc # "idle" =>
        handler[g].pc # "idle" /\ handler'[g].key = handler[g].key
  BY <1>1
<1>4. \A g \in Handlers :
        /\ handler'[g].pc \in BeforeCall => handler[g].pc \in BeforeCall
        /\ handler'[g].pc \in AfterCall => handler[g].pc \in AfterCall
  BY <1>1
<1>5. \A g \in Handlers : InFlight(g)' => InFlight(g) /\ handler'[g].key = handler[g].key
  BY <1>3, <1>4 DEF InFlight, BeforeCall, AfterCall
<1>6. MutationTypes'
  BY <1>1, <1>2 DEF MutationInv, MutationTypes
<1>7. KeysFit'
  BY <1>2, <1>3 DEF MutationInv, KeysFit
<1>8. CallsFit'
  BY <1>2, <1>3, <1>4 DEF MutationInv, CallsFit, BeforeCall, AfterCall
<1>9. FlightsFit'
  BY <1>2, <1>5 DEF MutationInv, FlightsFit
<1>10. OneFlight'
  BY <1>5 DEF MutationInv, OneFlight
<1>11. OutcomesFit'
  BY <1>2 DEF MutationInv, OutcomesFit
<1> QED  BY <1>6, <1>7, <1>8, <1>9, <1>10, <1>11 DEF MutationInv

LEMMA MarkedIs ==
  ASSUME MutationInv
  PROVE  /\ Marked \in [Keys -> MutationStatus]
         /\ \A k \in Keys : \/ Marked[k] = mutation[k]
                            \/ mutation[k] = "PROCESSING" /\ Marked[k] = "UNKNOWN"
BY DEF Marked, Lapsed, MutationInv, MutationTypes, MutationStatus

(* A claim is made of a row whose request was not carried out and nobody    *)
(* goes on with.                                                            *)
LEMMA ClaimFits ==
  ASSUME MutationInv, NEW h \in Handlers, NEW k \in Keys, Claim(h, k),
         handler[h].pc = "idle", mutation[k] \in {"NONE", "FAILED"},
         recent' \in [Keys -> BOOLEAN]
  PROVE  MutationInv'
<1>1. handler' \in HandlerType /\ handler'[h] = [pc |-> "check", key |-> k]
  BY DEF Claim, MutationInv, MutationTypes, HandlerType, HandlerPc
<1>2. \A g \in Handlers \ {h} : handler'[g] = handler[g]
  BY DEF Claim, MutationInv, MutationTypes, HandlerType
<1>3. /\ mutation' \in [Keys -> MutationStatus] /\ mutation'[k] = "PROCESSING"
      /\ \A l \in Keys \ {k} : \/ mutation'[l] = mutation[l]
                               \/ mutation[l] = "PROCESSING" /\ mutation'[l] = "UNKNOWN"
  BY MarkedIs DEF Claim, MutationStatus
<1>4. called' = called /\ body' = body /\ leased' \in [Keys -> BOOLEAN]
  BY DEF Claim, MutationInv, MutationTypes
<1>5. called[k] = 0
  BY DEF MutationInv, OutcomesFit
<1>6. \A g \in Handlers : ~(InFlight(g) /\ handler[g].key = k)
  BY DEF MutationInv, FlightsFit
<1>7. \A g \in Handlers \ {h} : InFlight(g)' <=> InFlight(g)
  BY <1>2 DEF InFlight
<1>8. MutationTypes'
  BY <1>1, <1>3, <1>4 DEF MutationInv, MutationTypes
<1>9. KeysFit'
  BY <1>1, <1>2, <1>3 DEF MutationInv, KeysFit
<1>10. CallsFit'
  BY <1>1, <1>2, <1>4, <1>5 DEF MutationInv, CallsFit, BeforeCall, AfterCall
<1>11. FlightsFit'
  BY <1>1, <1>2, <1>3, <1>7, FlightIs DEF MutationInv, FlightsFit, KeysFit, InFlight
<1>12. OneFlight'
  BY <1>1, <1>2, <1>6, <1>7 DEF MutationInv, OneFlight
<1>13. OutcomesFit'
  BY <1>3, <1>4, <1>5 DEF MutationInv, OutcomesFit
<1> QED  BY <1>8, <1>9, <1>10, <1>11, <1>12, <1>13 DEF MutationInv

LEMMA CallFits ==
  ASSUME MutationInv, NEW h \in Handlers, NEW done \in BOOLEAN, NEW answered \in BOOLEAN,
         CallProvider(h, done, answered)
  PROVE  MutationInv'
<1> DEFINE k == handler[h].key
<1>1. handler[h].pc = "call" /\ k \in Keys /\ InFlight(h) /\ called[k] = 0
  BY DEF CallProvider, MutationInv, KeysFit, CallsFit, InFlight, BeforeCall
<1>2. PICK pc \in {"unknown", "record", "complete"} :
        HandlerAt(h, pc) /\ (pc # "unknown" => done)
  BY DEF CallProvider
<1>3. /\ handler' \in HandlerType
      /\ \A g \in Handlers \ {h} : handler'[g] = handler[g]
      /\ handler'[h].pc = pc /\ handler'[h].key = k
  BY <1>2, HandlerMoves DEF MutationInv, MutationTypes, HandlerPc
<1>4. /\ body' = body /\ mutation' = mutation /\ leased' = leased /\ recent' = recent
      /\ called' = [called EXCEPT ![k] = IF done THEN called[k] + 1 ELSE called[k]]
  BY DEF CallProvider
<1>5. /\ called' \in [Keys -> Nat] /\ called'[k] = IF done THEN 1 ELSE 0
      /\ \A l \in Keys \ {k} : called'[l] = called[l]
  BY <1>1, <1>4 DEF MutationInv, MutationTypes
<1>6. \A g \in Handlers \ {h} : InFlight(g) => handler[g].key # k
  BY <1>1 DEF MutationInv, OneFlight
<1>7. \A g \in Handlers : InFlight(g)' => InFlight(g) /\ handler'[g].key = handler[g].key
  BY <1>1, <1>2, <1>3 DEF InFlight
<1>8. mutation[k] \in {"PROCESSING", "UNKNOWN"}
  BY <1>1 DEF MutationInv, FlightsFit
<1>9. MutationTypes'
  BY <1>3, <1>4, <1>5 DEF MutationInv, MutationTypes
<1>10. KeysFit'
  BY <1>1, <1>3, <1>4 DEF MutationInv, KeysFit
<1>11. CallsFit'
  <2> SUFFICES ASSUME NEW g \in Handlers
               PROVE  /\ handler'[g].pc \in BeforeCall => called'[handler'[g].key] = 0
                      /\ handler'[g].pc \in AfterCall => called'[handler'[g].key] = 1
    BY DEF CallsFit
  <2>1. CASE g = h
    BY <2>1, <1>2, <1>3, <1>5 DEF BeforeCall, AfterCall
  <2>2. CASE g # h
    <3>1. handler'[g] = handler[g]
      BY <2>2, <1>3
    <3>2. handler[g].pc \in BeforeCall \cup AfterCall => handler[g].key \in Keys \ {k}
      BY <2>2, <1>6, FlightIs DEF MutationInv, KeysFit, BeforeCall, AfterCall
    <3> QED  BY <3>1, <3>2, <1>5 DEF MutationInv, CallsFit
  <2> QED  BY <2>1, <2>2
<1>12. FlightsFit'
  BY <1>4, <1>7 DEF MutationInv, FlightsFit
<1>13. OneFlight'
  BY <1>7 DEF MutationInv, OneFlight
<1>14. OutcomesFit'
  BY <1>4, <1>5, <1>8 DEF MutationInv, OutcomesFit
<1> QED  BY <1>9, <1>10, <1>11, <1>12, <1>13, <1>14 DEF MutationInv

(* A row is set by its id, whatever it says by then.                        *)
LEMMA SettleFits ==
  ASSUME MutationInv, NEW h \in Handlers, NEW pc \in {"idle", "unknown"}, NEW status,
         Settle(h, status), HandlerAt(h, pc),
         \/ status = "SUCCEEDED" /\ handler[h].pc = "complete"
         \/ status = "FAILED" /\ handler[h].pc = "refuse"
         \/ status = "UNKNOWN" /\ handler[h].pc = "unknown"
  PROVE  MutationInv'
<1> DEFINE k == handler[h].key
<1>1. /\ handler' \in HandlerType
      /\ \A g \in Handlers \ {h} : handler'[g] = handler[g]
      /\ handler'[h].pc = pc /\ (pc # "idle" => handler'[h].key = k)
  BY HandlerMoves DEF MutationInv, MutationTypes, HandlerPc
<1>2. k \in Keys /\ mutation[k] # "NONE"
  BY DEF MutationInv, KeysFit
<1>3. /\ body' = body /\ recent' = recent /\ called' = called
      /\ leased' \in [Keys -> BOOLEAN] /\ mutation' \in [Keys -> MutationStatus]
      /\ mutation'[k] = status /\ \A l \in Keys \ {k} : mutation'[l] = mutation[l]
  BY <1>2 DEF Settle, MutationInv, MutationTypes, MutationStatus
<1>4. \A g \in Handlers : handler'[g].pc # "idle" =>
        handler[g].pc # "idle" /\ handler'[g].key = handler[g].key
  BY <1>1
<1>5. \A g \in Handlers : InFlight(g)' => g # h /\ InFlight(g) /\ handler'[g] = handler[g]
  BY <1>1 DEF InFlight
<1>6. \A g \in Handlers \ {h} : InFlight(g) /\ handler[g].key = k => status = "UNKNOWN"
  BY DEF InFlight, MutationInv, OneFlight
<1>7. MutationTypes'
  BY <1>1, <1>3 DEF MutationInv, MutationTypes
<1>8. KeysFit'
  BY <1>3, <1>4 DEF MutationInv, KeysFit
<1>9. CallsFit'
  BY <1>1, <1>3, <1>5 DEF MutationInv, CallsFit, BeforeCall, AfterCall
<1>10. FlightsFit'
  <2> SUFFICES ASSUME NEW g \in Handlers, InFlight(g)'
               PROVE  mutation'[handler'[g].key] \in {"PROCESSING", "UNKNOWN"}
    BY DEF FlightsFit
  <2>1. g # h /\ InFlight(g) /\ handler'[g].key = handler[g].key
    BY <1>5
  <2>2. handler[g].key \in Keys /\ mutation[handler[g].key] \in {"PROCESSING", "UNKNOWN"}
    BY <2>1 DEF MutationInv, FlightsFit, KeysFit, InFlight
  <2> QED  BY <2>1, <2>2, <1>3, <1>6
<1>11. OneFlight'
  BY <1>5 DEF MutationInv, OneFlight
<1>12. OutcomesFit'
  <2>1. (status = "FAILED" => called[k] = 0) /\ (status = "SUCCEEDED" => called[k] = 1)
    BY DEF MutationInv, CallsFit, BeforeCall, AfterCall
  <2>2. status # "NONE"
    OBVIOUS
  <2> QED  BY <2>1, <2>2, <1>2, <1>3 DEF MutationInv, OutcomesFit
<1> QED  BY <1>7, <1>8, <1>9, <1>10, <1>11, <1>12 DEF MutationInv

LEMMA MutationInit == Init => MutationInv
BY DEF Init, MutationInv, MutationTypes, HandlerType, HandlerPc, Idle, MutationStatus, KeysFit,
       CallsFit, FlightsFit, OneFlight, OutcomesFit, InFlight, BeforeCall, AfterCall

(* The rows only: no request moves.                                         *)
LEMMA RowsFit ==
  ASSUME MutationInv, UNCHANGED <<body, called, handler>>,
         mutation' \in {mutation, Marked},
         leased' \in [Keys -> BOOLEAN], recent' \in [Keys -> BOOLEAN]
  PROVE  MutationInv'
<1>1. /\ mutation' \in [Keys -> MutationStatus]
      /\ \A k \in Keys : \/ mutation'[k] = mutation[k]
                         \/ mutation[k] = "PROCESSING" /\ mutation'[k] = "UNKNOWN"
  BY MarkedIs DEF MutationInv, MutationTypes
<1>2. \A h \in Handlers : InFlight(h)' <=> InFlight(h)
  BY DEF InFlight
<1>3. MutationTypes'
  BY <1>1 DEF MutationInv, MutationTypes
<1>4. KeysFit'
  BY <1>1 DEF MutationInv, KeysFit
<1>5. CallsFit'
  BY DEF MutationInv, CallsFit
<1>6. FlightsFit'
  BY <1>1, <1>2 DEF MutationInv, FlightsFit, KeysFit, InFlight
<1>7. OneFlight'
  BY <1>2 DEF MutationInv, OneFlight
<1>8. OutcomesFit'
  BY <1>1 DEF MutationInv, OutcomesFit
<1> QED  BY <1>3, <1>4, <1>5, <1>6, <1>7, <1>8 DEF MutationInv

LEMMA RequestFits ==
  ASSUME MutationInv, NEW h \in Handlers, Request(h)
  PROVE  MutationInv'
<1>1. ASSUME NEW k \in Keys, ClaimAgain(h, k) PROVE MutationInv'
  BY <1>1, ClaimFits DEF ClaimAgain, MutationInv, MutationTypes
<1>2. ASSUME NEW k \in Keys, ClaimNew(h, k) PROVE MutationInv'
  BY <1>2, ClaimFits DEF ClaimNew, MutationInv, MutationTypes
<1>3. CASE CheckSubscription(h)
  BY <1>3, MoveFits DEF CheckSubscription, HandlerPc, BeforeCall, AfterCall
<1>4. CASE RecordCheckout(h)
  BY <1>4, MoveFits DEF RecordCheckout, HandlerPc, BeforeCall, AfterCall
<1>5. ASSUME NEW done \in BOOLEAN, NEW answered \in BOOLEAN, CallProvider(h, done, answered)
      PROVE  MutationInv'
  BY <1>5, CallFits
<1>6. CASE Complete(h)
  BY <1>6, SettleFits DEF Complete
<1>7. CASE Refuse(h)
  BY <1>7, SettleFits DEF Refuse
<1>8. CASE MarkUnknown(h)
  BY <1>8, SettleFits DEF MarkUnknown
<1>9. CASE AnswerLost(h)
  <2>1. PICK pc \in {"idle", "unknown"} : HandlerAt(h, pc)
    BY <1>9 DEF AnswerLost
  <2>2. CASE handler[h].pc = "complete"
    BY <1>9, <2>1, <2>2, SettleFits DEF AnswerLost
  <2>3. CASE handler[h].pc = "refuse"
    BY <1>9, <2>1, <2>3, SettleFits DEF AnswerLost
  <2> QED  BY <1>9, <2>2, <2>3 DEF AnswerLost
<1>10. CASE HandlerThrows(h)
  <2>1. PICK pc \in {"idle", "unknown"} : HandlerAt(h, pc)
    BY <1>10 DEF HandlerThrows
  <2> QED  BY <1>10, <2>1, MoveFits DEF HandlerThrows, HandlerPc, BeforeCall, AfterCall
<1>11. CASE HandlerCrash(h)
  BY <1>11, MoveFits DEF HandlerCrash, HandlerPc, BeforeCall, AfterCall
<1> QED  BY <1>1, <1>2, <1>3, <1>4, <1>5, <1>6, <1>7, <1>8, <1>9, <1>10, <1>11 DEF Request

(* The job and the provider's deliveries leave the requests alone.          *)
InboxNext ==
  \/ \E e \in Events : Accept(e) \/ AcceptAgain(e) \/ EventLeaseLapses(e)
  \/ \E r \in Runners :
       \/ \E S \in SUBSET Events : ClaimBatch(r, S)
       \/ RunnerStep(r) \/ MarkThrows(r) \/ MarkAnswerLost(r)
       \/ RunnerCrash(r) \/ LoseLock(r)

RequestNext ==
  \/ \E h \in Handlers : Request(h)
  \/ \E k \in Keys : Replay(k) \/ LeaseLapses(k) \/ ReuseEnds(k)

LEMMA TwoHalves == Next <=> RequestNext \/ InboxNext
BY DEF Next, RequestNext, InboxNext

LEMMA InboxKeepsRequests == InboxNext => UNCHANGED <<mutationVars, handler>>
BY DEF InboxNext, Accept, AcceptAgain, EventLeaseLapses, ClaimBatch, RunnerStep,
       ApplyToSubscription, ReadLedger, ApplyFails, WriteLedger, MarkProcessed, SetProcessed,
       FailEvent, Finish, Stop, MarkThrows, MarkAnswerLost, RunnerCrash, LoseLock, runnerOnly

LEMMA RequestsKeepInbox == RequestNext => UNCHANGED jobVars
BY DEF RequestNext, Request, ClaimAgain, ClaimNew, Claim, CheckSubscription, RecordCheckout,
       CallProvider, Complete, Refuse, MarkUnknown, Settle, AnswerLost, HandlerThrows,
       HandlerCrash, Replay, LeaseLapses, ReuseEnds

LEMMA MutationStep == MutationInv /\ [Next]_vars => MutationInv'
<1> SUFFICES ASSUME MutationInv, [Next]_vars PROVE MutationInv'
  OBVIOUS
<1>1. CASE UNCHANGED <<mutationVars, handler>>
  BY <1>1, RowsFit DEF mutationVars, MutationInv, MutationTypes
<1>2. CASE RequestNext
  <2>1. ASSUME NEW h \in Handlers, Request(h) PROVE MutationInv'
    BY <2>1, RequestFits
  <2>2. ASSUME NEW k \in Keys, Replay(k) PROVE MutationInv'
    BY <2>2, RowsFit DEF Replay, MutationInv, MutationTypes
  <2>3. ASSUME NEW k \in Keys, LeaseLapses(k) PROVE MutationInv'
    BY <2>3, RowsFit DEF LeaseLapses, MutationInv, MutationTypes
  <2>4. ASSUME NEW k \in Keys, ReuseEnds(k) PROVE MutationInv'
    BY <2>4, RowsFit DEF ReuseEnds, MutationInv, MutationTypes
  <2> QED  BY <1>2, <2>1, <2>2, <2>3, <2>4 DEF RequestNext
<1> QED  BY <1>1, <1>2, TwoHalves, InboxKeepsRequests DEF vars

THEOREM MutationInvariant == Spec => []MutationInv
BY MutationInit, MutationStep, PTL DEF Spec

(* For any number of keys and requests, however leases lapse and rows are   *)
(* overwritten by their id: a key reaches the provider at most once, a      *)
(* success was carried out and a failure was not.                           *)
THEOREM OutcomesTrue == Spec => []OutcomeIsTrue
<1>1. MutationInv => OutcomeIsTrue
  BY DEF MutationInv, OutcomesFit, OutcomeIsTrue
<1> QED  BY <1>1, MutationInvariant, PTL

(* A new key is claimed only when no request is under way.                  *)
LEMMA NewKeyWaits ==
  ASSUME MutationInv, [Next]_vars, NEW k \in Keys, mutation[k] = "NONE", mutation'[k] # "NONE",
         NEW h \in Handlers
  PROVE  ~InFlight(h)
<1>1. mutation' # mutation
  OBVIOUS
<1>2. RequestNext
  BY <1>1, TwoHalves, InboxKeepsRequests DEF vars, mutationVars
<1>3. Marked[k] = "NONE"
  BY MarkedIs
<1>4. ASSUME NEW g \in Handlers, NEW status, Settle(g, status), handler[g].pc # "idle" PROVE FALSE
  BY <1>4 DEF Settle, MutationInv, MutationTypes, KeysFit
<1>5. ASSUME NEW g \in Handlers, NEW l \in Keys, ClaimAgain(g, l) PROVE FALSE
  BY <1>3, <1>5, MarkedIs DEF ClaimAgain, Claim
<1>6. ASSUME NEW g \in Handlers, NEW l \in Keys, ClaimNew(g, l) PROVE ~InFlight(h)
  BY <1>6, MarkedIs DEF ClaimNew, Blocked, MutationInv, FlightsFit, KeysFit, InFlight
<1>7. ASSUME NEW l \in Keys, Replay(l) \/ LeaseLapses(l) \/ ReuseEnds(l) PROVE FALSE
  BY <1>1, <1>3, <1>7 DEF Replay, LeaseLapses, ReuseEnds
<1>8. ASSUME NEW g \in Handlers,
             \/ CheckSubscription(g) \/ RecordCheckout(g) \/ HandlerThrows(g) \/ HandlerCrash(g)
             \/ \E done, answered \in BOOLEAN : CallProvider(g, done, answered)
      PROVE  FALSE
  BY <1>1, <1>8 DEF CheckSubscription, RecordCheckout, HandlerThrows, HandlerCrash, CallProvider,
                    mutationVars
<1>9. ASSUME NEW g \in Handlers, Complete(g) \/ Refuse(g) \/ MarkUnknown(g) \/ AnswerLost(g)
      PROVE  FALSE
  BY <1>4, <1>9 DEF Complete, Refuse, MarkUnknown, AnswerLost
<1> QED  BY <1>2, <1>5, <1>6, <1>7, <1>8, <1>9 DEF RequestNext, Request

THEOREM NoOverlap == Spec => MutationsDoNotOverlap
<1>1. MutationInv /\ [Next]_vars =>
        [\A k \in Keys : mutation[k] = "NONE" /\ mutation'[k] # "NONE" =>
           \A h \in Handlers : ~InFlight(h)]_vars
  BY NewKeyWaits
<1> QED  BY <1>1, MutationInvariant, PTL DEF Spec, MutationsDoNotOverlap

-----------------------------------------------------------------------------
(* The webhook inbox and its job.                                           *)

JobTypes ==
  /\ inbox \in [Events -> InboxStatus]
  /\ attempts \in [Events -> Nat] /\ eventLeased \in [Events -> BOOLEAN]
  /\ processed \subseteq Events
  /\ row \in [Subscriptions \cup Ledger -> Events \cup {NoEvent}]
  /\ lock \in Runners \cup {NoRunner}
  /\ runner \in [Runners -> [pc : RunnerPc, event : Events \cup {NoEvent}]]
  /\ held \in [Runners -> [Events -> Nat]]
  /\ seen \in [Runners -> Events \cup {NoEvent}]
  /\ slipped \in BOOLEAN

AtEvent == {"write", "mark", "fail"}

(* A run is at an event its claim returned.                                 *)
RunnersFit ==
  \A r \in Runners :
    /\ runner[r].pc \in AtEvent =>
         runner[r].event \in Events /\ held[r][runner[r].event] # 0
    /\ runner[r].pc = "write" => runner[r].event.row \in Ledger
    /\ runner[r].pc = "idle" => \A e \in Events : held[r][e] = 0

OwnRows == \A x \in Subscriptions \cup Ledger : row[x] # NoEvent => row[x].row = x

(* While nothing has slipped, one run at a time is at work, what it holds   *)
(* is PROCESSING, and what it has read is still so.                         *)
LockFits == \A r \in Runners : ~slipped /\ runner[r].pc # "idle" => lock = r
HeldFits ==
  \A r \in Runners, e \in Events : ~slipped /\ held[r][e] # 0 => inbox[e] = "PROCESSING"
SeenFits ==
  \A r \in Runners : ~slipped /\ runner[r].pc = "write" => seen[r] = row[runner[r].event.row]

(* An event that is applied, or counts as processed, is not ahead of its    *)
(* row.                                                                     *)
Applied(e) == e.row \in Subscriptions \/ ~slipped => ~Newer(e, row[e.row])
MarksFit == \A r \in Runners : runner[r].pc = "mark" => Applied(runner[r].event)
ProcessedFit == \A e \in processed : Applied(e)

JobInv ==
  /\ JobTypes /\ RunnersFit /\ OwnRows /\ LockFits /\ HeldFits /\ SeenFits /\ MarksFit
  /\ ProcessedFit

LEMMA EventsAre ==
  ASSUME NEW e \in Events
  PROVE  /\ e.row \in Subscriptions \cup Ledger /\ e.at \in Nat /\ e.id \in Nat
         /\ Rank(e) \in Nat /\ e # NoEvent
<1>1. /\ e.at \in Nat /\ e.id \in Nat /\ e # NoEvent
      /\ \/ e.row \in Subscriptions /\ e.status \in DOMAIN Precedence
         \/ e.row \in Ledger /\ e.status \in DOMAIN LedgerPrecedence
      /\ Subscriptions \cap Ledger = {}
  BY BillingAssumption
<1>2. \A s \in DOMAIN Precedence : Precedence[s] \in Nat
  BY DEF Precedence
<1>3. \A s \in DOMAIN LedgerPrecedence : LedgerPrecedence[s] \in Nat
  BY DEF LedgerPrecedence
<1> QED  BY <1>1, <1>2, <1>3 DEF Rank

(* Newer is irreflexive, and what it passes over for g it passes over for   *)
(* an event that is newer than g.                                           *)
LEMMA NewerIsAnOrder ==
  ASSUME NEW e \in Events, NEW f \in Events, NEW g \in Events \cup {NoEvent},
         Newer(e, g), ~Newer(f, g)
  PROVE  ~Newer(f, e)
<1>1. g \in Events
  BY DEF Newer
<1>2. /\ e.at \in Nat /\ e.id \in Nat /\ Rank(e) \in Nat /\ e # NoEvent
      /\ f.at \in Nat /\ f.id \in Nat /\ Rank(f) \in Nat /\ f # NoEvent
      /\ g.at \in Nat /\ g.id \in Nat /\ Rank(g) \in Nat /\ g # NoEvent
  BY <1>1, EventsAre
<1> QED  BY <1>2 DEF Newer

LEMMA NewerIsStrict ==
  ASSUME NEW e \in Events
  PROVE  ~Newer(e, e)
BY EventsAre DEF Newer

(* Setting a row by the newer of it and e keeps applied events applied.     *)
LEMMA RowTakes ==
  ASSUME JobTypes, OwnRows, NEW e \in Events, NEW new,
         new = IF Newer(e, row[e.row]) THEN e ELSE row[e.row],
         row' = [row EXCEPT ![e.row] = new]
  PROVE  /\ row' \in [Subscriptions \cup Ledger -> Events \cup {NoEvent}]
         /\ OwnRows'
         /\ ~Newer(e, row'[e.row])
         /\ \A f \in Events : ~Newer(f, row[f.row]) => ~Newer(f, row'[f.row])
<1>1. e.row \in Subscriptions \cup Ledger /\ row[e.row] \in Events \cup {NoEvent}
  BY EventsAre DEF JobTypes
<1>2. row'[e.row] = new /\ \A x \in Subscriptions \cup Ledger : x # e.row => row'[x] = row[x]
  BY <1>1 DEF JobTypes
<1>3. row' \in [Subscriptions \cup Ledger -> Events \cup {NoEvent}]
  BY <1>1 DEF JobTypes
<1>4. OwnRows'
  BY <1>1, <1>2 DEF OwnRows
<1>5. ~Newer(e, row'[e.row])
  BY <1>1, <1>2, NewerIsStrict
<1>6. ASSUME NEW f \in Events, ~Newer(f, row[f.row]) PROVE ~Newer(f, row'[f.row])
  <2>1. CASE f.row = e.row /\ Newer(e, row[e.row])
    BY <1>1, <1>2, <1>6, <2>1, NewerIsAnOrder
  <2>2. CASE f.row # e.row \/ ~Newer(e, row[e.row])
    BY <1>2, <1>6, <2>2, EventsAre
  <2> QED  BY <2>1, <2>2
<1> QED  BY <1>3, <1>4, <1>5, <1>6

LEMMA RunnerMoves ==
  ASSUME JobTypes, NEW r \in Runners, NEW pc \in RunnerPc, NEW e \in Events \cup {NoEvent},
         RunnerAt(r, pc, e)
  PROVE  /\ runner' \in [Runners -> [pc : RunnerPc, event : Events \cup {NoEvent}]]
         /\ runner'[r].pc = pc /\ runner'[r].event = e
         /\ \A q \in Runners \ {r} : runner'[q] = runner[q]
BY DEF RunnerAt, JobTypes

LEMMA DropIs ==
  ASSUME JobTypes, NEW r \in Runners, NEW e \in Events, Drop(r, e)
  PROVE  /\ held' \in [Runners -> [Events -> Nat]]
         /\ held'[r][e] = 0
         /\ \A f \in Events \ {e} : held'[r][f] = held[r][f]
         /\ \A q \in Runners \ {r} : held'[q] = held[q]
BY DEF Drop, JobTypes

(* A run at work goes on with an event it holds.                            *)
LEMMA RunGoesOn ==
  ASSUME JobInv, NEW r \in Runners, NEW pc \in AtEvent, NEW e \in Events, RunnerAt(r, pc, e),
         UNCHANGED <<inboxVars, lock, held, slipped>>,
         runner[r].pc # "idle", held[r][e] # 0, pc = "write" => e.row \in Ledger
  PROVE  /\ runner' \in [Runners -> [pc : RunnerPc, event : Events \cup {NoEvent}]]
         /\ runner'[r].pc = pc /\ runner'[r].event = e
         /\ \A q \in Runners \ {r} : runner'[q] = runner[q]
         /\ RunnersFit' /\ LockFits' /\ HeldFits'
<1>1. /\ runner' \in [Runners -> [pc : RunnerPc, event : Events \cup {NoEvent}]]
      /\ runner'[r].pc = pc /\ runner'[r].event = e
      /\ \A q \in Runners \ {r} : runner'[q] = runner[q]
  BY RunnerMoves DEF JobInv, AtEvent, RunnerPc
<1>2. RunnersFit'
  BY <1>1 DEF JobInv, RunnersFit, AtEvent
<1>3. LockFits'
  BY <1>1 DEF JobInv, LockFits
<1>4. HeldFits'
  BY DEF JobInv, HeldFits, inboxVars
<1> QED  BY <1>1, <1>2, <1>3, <1>4

(* Alone is the run at work while nothing has slipped.                      *)
LEMMA Alone ==
  ASSUME JobInv, ~slipped, NEW r \in Runners, NEW q \in Runners \ {r},
         runner[r].pc # "idle" \/ lock = NoRunner
  PROVE  runner[q].pc = "idle" /\ \A e \in Events : held[q][e] = 0
<1>1. runner[q].pc # "idle" => lock = q
  BY DEF JobInv, LockFits
<1>2. runner[r].pc # "idle" => lock = r
  BY DEF JobInv, LockFits
<1>3. NoRunner # q
  BY BillingAssumption
<1> QED  BY <1>1, <1>2, <1>3 DEF JobInv, RunnersFit

LEMMA JobInit == Init => JobInv
<1> SUFFICES ASSUME Init PROVE JobInv
  OBVIOUS
<1>1. JobTypes
  BY DEF Init, JobTypes, InboxStatus, NoBatch, AtRest, RunnerPc
<1>2. RunnersFit /\ OwnRows /\ LockFits /\ HeldFits /\ SeenFits /\ MarksFit /\ ProcessedFit
  BY DEF Init, RunnersFit, OwnRows, LockFits, HeldFits, SeenFits, MarksFit, ProcessedFit, AtRest,
         NoBatch, AtEvent
<1> QED  BY <1>1, <1>2 DEF JobInv

(* Deliveries and leases touch only rows of the inbox that no run holds, or *)
(* do not change their status.                                              *)
LEMMA InboxFits ==
  ASSUME JobInv, UNCHANGED <<processed, row, runnerVars, slipped>>,
         inbox' \in [Events -> InboxStatus], attempts' \in [Events -> Nat],
         eventLeased' \in [Events -> BOOLEAN],
         \A e \in Events : inbox[e] = "PROCESSING" => inbox'[e] = "PROCESSING"
  PROVE  JobInv'
<1>1. JobTypes' /\ RunnersFit' /\ OwnRows' /\ LockFits' /\ SeenFits'
  BY DEF JobInv, JobTypes, RunnersFit, OwnRows, LockFits, SeenFits, runnerVars
<1>2. HeldFits'
  BY DEF JobInv, HeldFits, runnerVars
<1>3. MarksFit' /\ ProcessedFit'
  BY DEF JobInv, MarksFit, ProcessedFit, Applied, runnerVars
<1> QED  BY <1>1, <1>2, <1>3 DEF JobInv

LEMMA DeliveryFits ==
  ASSUME JobInv, NEW e \in Events, Accept(e) \/ AcceptAgain(e) \/ EventLeaseLapses(e)
  PROVE  JobInv'
<1>1. CASE Accept(e)
  BY <1>1, InboxFits DEF Accept, JobInv, JobTypes, InboxStatus
<1>2. CASE AcceptAgain(e)
  BY <1>2, InboxFits DEF AcceptAgain, JobInv, JobTypes, InboxStatus
<1>3. CASE EventLeaseLapses(e)
  BY <1>3, InboxFits DEF EventLeaseLapses, JobInv, JobTypes, InboxStatus
<1> QED  BY <1>1, <1>2, <1>3

LEMMA ClaimBatchFits ==
  ASSUME JobInv, NEW r \in Runners, NEW S \in SUBSET Events, ClaimBatch(r, S)
  PROVE  JobInv'
<1>1. /\ runner' \in [Runners -> [pc : RunnerPc, event : Events \cup {NoEvent}]]
      /\ runner'[r].pc = "loop"
      /\ \A q \in Runners \ {r} : runner'[q] = runner[q]
  BY RunnerMoves DEF ClaimBatch, JobInv, RunnerPc
<1>2. /\ runner[r].pc = "idle" /\ lock = NoRunner /\ lock' = r
      /\ row' = row /\ processed' = processed /\ seen' = seen /\ slipped' = slipped
  BY DEF ClaimBatch, LockFree
<1>3. /\ inbox' \in [Events -> InboxStatus] /\ attempts' \in [Events -> Nat]
      /\ eventLeased' \in [Events -> BOOLEAN] /\ \A e \in S : inbox'[e] = "PROCESSING"
      /\ \A e \in Events : inbox[e] = "PROCESSING" => inbox'[e] = "PROCESSING"
  BY DEF ClaimBatch, JobInv, JobTypes, InboxStatus
<1>4. /\ held' \in [Runners -> [Events -> Nat]]
      /\ \A q \in Runners \ {r} : held'[q] = held[q]
      /\ \A e \in Events : held'[r][e] # 0 => e \in S
  <2> DEFINE batch == [e \in Events |-> IF e \in S THEN attempts[e] + 1 ELSE 0]
  <2>1. batch \in [Events -> Nat] /\ \A e \in Events : batch[e] # 0 => e \in S
    BY DEF JobInv, JobTypes
  <2>2. held' = [held EXCEPT ![r] = batch]
    BY DEF ClaimBatch
  <2> HIDE DEF batch
  <2> QED  BY <2>1, <2>2 DEF JobInv, JobTypes
<1>5. ~slipped => \A q \in Runners \ {r} : runner[q].pc = "idle"
  BY <1>2, Alone
<1>6. JobTypes'
  BY <1>1, <1>2, <1>3, <1>4 DEF JobInv, JobTypes
<1>7. RunnersFit'
  BY <1>1, <1>4 DEF JobInv, RunnersFit, AtEvent
<1>8. OwnRows' /\ LockFits'
  BY <1>1, <1>2, <1>5 DEF JobInv, OwnRows, LockFits
<1>9. HeldFits'
  BY <1>2, <1>3, <1>4 DEF JobInv, HeldFits
<1>10. SeenFits' /\ MarksFit' /\ ProcessedFit'
  BY <1>1, <1>2 DEF JobInv, SeenFits, MarksFit, ProcessedFit, Applied
<1> QED  BY <1>6, <1>7, <1>8, <1>9, <1>10 DEF JobInv

LEMMA ApplyFits ==
  ASSUME JobInv, NEW r \in Runners, NEW e \in Events, ApplyToSubscription(r, e)
  PROVE  JobInv'
<1>1. /\ runner' \in [Runners -> [pc : RunnerPc, event : Events \cup {NoEvent}]]
      /\ runner'[r].pc = "mark" /\ runner'[r].event = e
      /\ \A q \in Runners \ {r} : runner'[q] = runner[q]
      /\ RunnersFit' /\ LockFits' /\ HeldFits'
  BY RunGoesOn DEF ApplyToSubscription, AtEvent
<1>2. /\ processed' = processed /\ seen' = seen /\ slipped' = slipped /\ lock' = lock
      /\ held' = held /\ inbox' = inbox /\ attempts' = attempts /\ eventLeased' = eventLeased
  BY DEF ApplyToSubscription, inboxVars
<1>3. PICK new : /\ new = IF Newer(e, row[e.row]) THEN e ELSE row[e.row]
                 /\ row' = [row EXCEPT ![e.row] = new]
  BY DEF ApplyToSubscription
<1>4. /\ row' \in [Subscriptions \cup Ledger -> Events \cup {NoEvent}]
      /\ OwnRows' /\ ~Newer(e, row'[e.row])
      /\ \A f \in Events : ~Newer(f, row[f.row]) => ~Newer(f, row'[f.row])
  BY <1>3, RowTakes DEF JobInv
<1>5. JobTypes'
  BY <1>1, <1>2, <1>4 DEF JobInv, JobTypes
<1>6. \A f \in Events : Applied(f) => Applied(f)'
  BY <1>2, <1>4 DEF Applied
<1>7. SeenFits'
  <2> SUFFICES ASSUME NEW q \in Runners, ~slipped, runner'[q].pc = "write"
               PROVE  seen'[q] = row'[runner'[q].event.row]
    BY <1>2 DEF SeenFits
  <2>1. q # r /\ runner[q].pc = "write"
    BY <1>1
  <2>2. runner[q].pc = "idle"
    BY <2>1, Alone DEF ApplyToSubscription
  <2> QED  BY <2>1, <2>2
<1>8. MarksFit'
  BY <1>1, <1>4, <1>6 DEF JobInv, MarksFit, Applied, RunnersFit, AtEvent
<1>9. ProcessedFit'
  BY <1>2, <1>6 DEF JobInv, ProcessedFit, JobTypes
<1> QED  BY <1>1, <1>4, <1>5, <1>7, <1>8, <1>9 DEF JobInv

LEMMA ReadFits ==
  ASSUME JobInv, NEW r \in Runners, NEW e \in Events, ReadLedger(r, e)
  PROVE  JobInv'
<1>1. /\ runner' \in [Runners -> [pc : RunnerPc, event : Events \cup {NoEvent}]]
      /\ runner'[r].pc = "write" /\ runner'[r].event = e
      /\ \A q \in Runners \ {r} : runner'[q] = runner[q]
      /\ RunnersFit' /\ LockFits' /\ HeldFits'
  BY RunGoesOn DEF ReadLedger, AtEvent
<1>2. /\ processed' = processed /\ row' = row /\ slipped' = slipped /\ lock' = lock
      /\ held' = held /\ inbox' = inbox /\ attempts' = attempts /\ eventLeased' = eventLeased
      /\ seen' = [seen EXCEPT ![r] = row[e.row]]
  BY DEF ReadLedger, inboxVars
<1>3. row[e.row] \in Events \cup {NoEvent}
  BY EventsAre DEF JobInv, JobTypes
<1>4. JobTypes'
  BY <1>1, <1>2, <1>3 DEF JobInv, JobTypes
<1>5. SeenFits'
  BY <1>1, <1>2, <1>3 DEF JobInv, SeenFits, JobTypes
<1>6. OwnRows' /\ MarksFit' /\ ProcessedFit'
  BY <1>1, <1>2 DEF JobInv, OwnRows, MarksFit, ProcessedFit, Applied
<1> QED  BY <1>1, <1>4, <1>5, <1>6 DEF JobInv

LEMMA WriteFits ==
  ASSUME JobInv, NEW r \in Runners, WriteLedger(r)
  PROVE  JobInv'
<1> DEFINE e == runner[r].event
<1>1. /\ runner[r].pc = "write" /\ e \in Events /\ held[r][e] # 0 /\ e.row \in Ledger
      /\ e.row \notin Subscriptions
  BY BillingAssumption DEF WriteLedger, JobInv, RunnersFit, AtEvent
<1>2. /\ runner' \in [Runners -> [pc : RunnerPc, event : Events \cup {NoEvent}]]
      /\ runner'[r].pc = "mark" /\ runner'[r].event = e
      /\ \A q \in Runners \ {r} : runner'[q] = runner[q]
      /\ RunnersFit' /\ LockFits' /\ HeldFits'
  BY <1>1, RunGoesOn DEF WriteLedger, AtEvent
<1>3. /\ processed' = processed /\ slipped' = slipped /\ lock' = lock /\ held' = held
      /\ inbox' = inbox /\ attempts' = attempts /\ eventLeased' = eventLeased
      /\ seen' = [seen EXCEPT ![r] = NoEvent]
  BY DEF WriteLedger, inboxVars
<1>4. PICK new : /\ new = IF Newer(e, seen[r]) THEN e ELSE row[e.row]
                 /\ row' = [row EXCEPT ![e.row] = new]
  BY DEF WriteLedger
<1>5. /\ row' \in [Subscriptions \cup Ledger -> Events \cup {NoEvent}] /\ OwnRows'
      /\ \A x \in Subscriptions : row'[x] = row[x]
  <2>1. row[e.row] \in Events \cup {NoEvent} /\ new \in Events \cup {NoEvent}
    BY <1>1, <1>4 DEF JobInv, JobTypes
  <2>2. new # NoEvent => new.row = e.row
    BY <1>1, <1>4 DEF JobInv, OwnRows
  <2> QED  BY <1>1, <1>4, <2>1, <2>2 DEF JobInv, JobTypes, OwnRows
<1>6. ~slipped => /\ ~Newer(e, row'[e.row])
                  /\ \A f \in Events : ~Newer(f, row[f.row]) => ~Newer(f, row'[f.row])
  <2> SUFFICES ASSUME ~slipped
               PROVE  /\ ~Newer(e, row'[e.row])
                      /\ \A f \in Events : ~Newer(f, row[f.row]) => ~Newer(f, row'[f.row])
    OBVIOUS
  <2>1. seen[r] = row[e.row]
    BY <1>1 DEF JobInv, SeenFits
  <2>2. new = IF Newer(e, row[e.row]) THEN e ELSE row[e.row]
    BY <1>4, <2>1
  <2> HIDE DEF e
  <2> QED  BY <1>1, <1>4, <2>2, RowTakes DEF JobInv
<1> HIDE DEF e
<1>7. \A f \in Events : Applied(f) => Applied(f)'
  BY <1>3, <1>5, <1>6 DEF Applied
<1>8. JobTypes'
  BY <1>2, <1>3, <1>5 DEF JobInv, JobTypes
<1>9. SeenFits'
  <2> SUFFICES ASSUME NEW q \in Runners, ~slipped, runner'[q].pc = "write"
               PROVE  seen'[q] = row'[runner'[q].event.row]
    BY <1>3 DEF SeenFits
  <2>1. q # r /\ runner[q].pc = "write"
    BY <1>2
  <2>2. runner[q].pc = "idle"
    BY <1>1, <2>1, Alone
  <2> QED  BY <2>1, <2>2
<1>10. MarksFit'
  BY <1>1, <1>2, <1>3, <1>6, <1>7 DEF JobInv, MarksFit, Applied, RunnersFit, AtEvent
<1>11. ProcessedFit'
  BY <1>3, <1>7 DEF JobInv, ProcessedFit, JobTypes
<1> QED  BY <1>2, <1>5, <1>8, <1>9, <1>10, <1>11 DEF JobInv

(* A run that turns to recording a failure changes nothing but itself.      *)
LEMMA FailingFits ==
  ASSUME JobInv, NEW r \in Runners, NEW e \in Events, RunnerAt(r, "fail", e),
         runner[r].pc # "idle", held[r][e] # 0,
         UNCHANGED <<inboxVars, row, lock, held, slipped>>,
         seen' = seen \/ seen' = [seen EXCEPT ![r] = NoEvent]
  PROVE  JobInv'
<1>1. /\ runner' \in [Runners -> [pc : RunnerPc, event : Events \cup {NoEvent}]]
      /\ runner'[r].pc = "fail"
      /\ \A q \in Runners \ {r} : runner'[q] = runner[q]
      /\ RunnersFit' /\ LockFits' /\ HeldFits'
  BY RunGoesOn DEF AtEvent
<1>2. /\ seen' \in [Runners -> Events \cup {NoEvent}]
      /\ \A q \in Runners \ {r} : seen'[q] = seen[q]
  BY DEF JobInv, JobTypes
<1>3. JobTypes'
  BY <1>1, <1>2 DEF JobInv, JobTypes, inboxVars
<1>4. OwnRows' /\ SeenFits' /\ MarksFit' /\ ProcessedFit'
  BY <1>1, <1>2 DEF JobInv, OwnRows, SeenFits, MarksFit, ProcessedFit, Applied, inboxVars
<1> QED  BY <1>1, <1>3, <1>4 DEF JobInv

LEMMA ApplyFailsFits ==
  ASSUME JobInv, NEW r \in Runners, NEW e \in Events, ApplyFails(r, e)
  PROVE  JobInv'
<1>1. held[r][e] # 0 /\ runner[r].pc # "idle"
  BY DEF ApplyFails, JobInv, RunnersFit, AtEvent
<1> QED  BY <1>1, FailingFits DEF ApplyFails

LEMMA MarkThrowsFits ==
  ASSUME JobInv, NEW r \in Runners, MarkThrows(r)
  PROVE  JobInv'
<1>1. /\ runner[r].event \in Events /\ held[r][runner[r].event] # 0
      /\ runner[r].pc # "idle"
  BY DEF MarkThrows, JobInv, RunnersFit, AtEvent
<1> QED  BY <1>1, FailingFits DEF MarkThrows

(* The row of the run's event is marked if it is PROCESSING, which it is    *)
(* while nothing has slipped.                                               *)
LEMMA SetProcessedIs ==
  ASSUME JobInv, NEW r \in Runners, SetProcessed(r), NEW e, e = runner[r].event
  PROVE  /\ runner[r].pc = "mark" /\ e \in Events /\ held[r][e] # 0
         /\ inbox' \in [Events -> InboxStatus] /\ eventLeased' \in [Events -> BOOLEAN]
         /\ \A f \in Events \ {e} : inbox'[f] = inbox[f]
         /\ processed' \subseteq Events
         /\ \A f \in processed' : Applied(f)
         /\ attempts' = attempts /\ row' = row /\ lock' = lock /\ seen' = seen
<1>1. runner[r].pc = "mark" /\ e \in Events /\ held[r][e] # 0
  BY DEF SetProcessed, JobInv, RunnersFit, AtEvent
<1>2. /\ inbox' \in [Events -> InboxStatus] /\ eventLeased' \in [Events -> BOOLEAN]
      /\ \A f \in Events \ {e} : inbox'[f] = inbox[f]
  <2>1. PICK new \in InboxStatus : inbox' = [inbox EXCEPT ![e] = new]
    BY <1>1 DEF SetProcessed, JobInv, JobTypes, InboxStatus
  <2>2. PICK on \in BOOLEAN : eventLeased' = [eventLeased EXCEPT ![e] = on]
    BY <1>1 DEF SetProcessed, JobInv, JobTypes
  <2> QED  BY <2>1, <2>2 DEF JobInv, JobTypes
<1>3. processed' \subseteq processed \cup {e}
  BY DEF SetProcessed
<1>4. Applied(e)
  BY <1>1 DEF JobInv, MarksFit
<1>5. processed' \subseteq Events /\ \A f \in processed' : Applied(f)
  BY <1>1, <1>3, <1>4 DEF JobInv, JobTypes, ProcessedFit
<1>6. attempts' = attempts /\ row' = row /\ lock' = lock /\ seen' = seen
  BY DEF SetProcessed
<1> QED  BY <1>1, <1>2, <1>5, <1>6

(* A run lets go of the event it is at.                                     *)
LEMMA LetGo ==
  ASSUME JobInv, NEW r \in Runners, NEW e \in Events, runner[r].pc \in AtEvent,
         RunnerAt(r, "loop", NoEvent), Drop(r, e),
         inbox' \in [Events -> InboxStatus], eventLeased' \in [Events -> BOOLEAN],
         \A f \in Events \ {e} : inbox'[f] = inbox[f],
         UNCHANGED <<attempts, row, lock, seen, slipped>>,
         processed' \subseteq Events, \A f \in processed' : Applied(f)
  PROVE  JobInv'
<1>1. /\ runner' \in [Runners -> [pc : RunnerPc, event : Events \cup {NoEvent}]]
      /\ runner'[r].pc = "loop"
      /\ \A q \in Runners \ {r} : runner'[q] = runner[q]
  BY RunnerMoves DEF JobInv, RunnerPc
<1>2. /\ held' \in [Runners -> [Events -> Nat]]
      /\ held'[r][e] = 0
      /\ \A f \in Events \ {e} : held'[r][f] = held[r][f]
      /\ \A q \in Runners \ {r} : held'[q] = held[q]
  BY DropIs DEF JobInv
<1>3. runner[r].pc # "idle"
  BY DEF AtEvent
<1>4. JobTypes'
  BY <1>1, <1>2 DEF JobInv, JobTypes
<1>5. RunnersFit'
  BY <1>1, <1>2 DEF JobInv, RunnersFit, AtEvent
<1>6. LockFits'
  BY <1>1, <1>3 DEF JobInv, LockFits
<1>7. HeldFits'
  <2> SUFFICES ASSUME NEW q \in Runners, NEW f \in Events, ~slipped, held'[q][f] # 0
               PROVE  inbox'[f] = "PROCESSING"
    BY DEF HeldFits
  <2>1. q = r
    BY <1>2, <1>3, Alone
  <2>2. f # e /\ held[r][f] # 0
    BY <1>2, <2>1
  <2> QED  BY <2>2 DEF JobInv, HeldFits
<1>8. OwnRows' /\ SeenFits' /\ MarksFit' /\ ProcessedFit'
  BY <1>1 DEF JobInv, OwnRows, SeenFits, MarksFit, ProcessedFit, Applied
<1> QED  BY <1>4, <1>5, <1>6, <1>7, <1>8 DEF JobInv

LEMMA MarkProcessedFits ==
  ASSUME JobInv, NEW r \in Runners, MarkProcessed(r)
  PROVE  JobInv'
<1> DEFINE e == runner[r].event
<1>1. /\ runner[r].pc = "mark" /\ e \in Events
      /\ inbox' \in [Events -> InboxStatus] /\ eventLeased' \in [Events -> BOOLEAN]
      /\ \A f \in Events \ {e} : inbox'[f] = inbox[f]
      /\ processed' \subseteq Events
      /\ \A f \in processed' : Applied(f)
      /\ attempts' = attempts /\ row' = row /\ lock' = lock /\ seen' = seen
  BY SetProcessedIs DEF MarkProcessed
<1>2. RunnerAt(r, "loop", NoEvent) /\ Drop(r, e) /\ slipped' = slipped
  BY DEF MarkProcessed
<1> HIDE DEF e
<1> QED  BY <1>1, <1>2, LetGo DEF AtEvent

LEMMA FailEventFits ==
  ASSUME JobInv, NEW r \in Runners, FailEvent(r)
  PROVE  JobInv'
<1> DEFINE e == runner[r].event
<1>1. runner[r].pc = "fail" /\ e \in Events
  BY DEF FailEvent, JobInv, RunnersFit, AtEvent
<1>2. /\ inbox' \in [Events -> InboxStatus] /\ eventLeased' \in [Events -> BOOLEAN]
      /\ \A f \in Events \ {e} : inbox'[f] = inbox[f]
  <2>1. PICK new \in InboxStatus : inbox' = [inbox EXCEPT ![e] = new]
    BY <1>1 DEF FailEvent, AfterFailure, InboxStatus
  <2> QED  BY <1>1, <2>1 DEF FailEvent, JobInv, JobTypes
<1>3. /\ RunnerAt(r, "loop", NoEvent) /\ Drop(r, e)
      /\ attempts' = attempts /\ row' = row /\ lock' = lock /\ seen' = seen
      /\ slipped' = slipped /\ processed' = processed
  BY DEF FailEvent
<1>4. processed' \subseteq Events /\ \A f \in processed' : Applied(f)
  BY <1>3 DEF JobInv, JobTypes, ProcessedFit
<1> HIDE DEF e
<1> QED  BY <1>1, <1>2, <1>3, <1>4, LetGo DEF AtEvent

(* Once something has slipped, only the rows of subscriptions are promised. *)
LEMMA MarkAnswerLostFits ==
  ASSUME JobInv, NEW r \in Runners, MarkAnswerLost(r)
  PROVE  JobInv'
<1> DEFINE e == runner[r].event
<1>1. /\ runner[r].pc = "mark" /\ e \in Events /\ held[r][e] # 0
      /\ inbox' \in [Events -> InboxStatus] /\ eventLeased' \in [Events -> BOOLEAN]
      /\ processed' \subseteq Events
      /\ \A f \in processed' : Applied(f)
      /\ attempts' = attempts /\ row' = row /\ lock' = lock /\ seen' = seen
  BY SetProcessedIs DEF MarkAnswerLost
<1>2. RunnerAt(r, "fail", e) /\ slipped' = TRUE /\ held' = held
  BY DEF MarkAnswerLost
<1> HIDE DEF e
<1>3. /\ runner' \in [Runners -> [pc : RunnerPc, event : Events \cup {NoEvent}]]
      /\ runner'[r].pc = "fail" /\ runner'[r].event = e
      /\ \A q \in Runners \ {r} : runner'[q] = runner[q]
  BY <1>1, <1>2, RunnerMoves DEF JobInv, RunnerPc
<1>4. JobTypes'
  BY <1>1, <1>2, <1>3 DEF JobInv, JobTypes
<1>5. RunnersFit'
  BY <1>1, <1>2, <1>3 DEF JobInv, RunnersFit, AtEvent
<1>6. OwnRows' /\ LockFits' /\ HeldFits' /\ SeenFits'
  BY <1>1, <1>2 DEF JobInv, OwnRows, LockFits, HeldFits, SeenFits
<1>7. MarksFit' /\ ProcessedFit'
  BY <1>1, <1>2, <1>3 DEF JobInv, MarksFit, ProcessedFit, Applied
<1> QED  BY <1>4, <1>5, <1>6, <1>7 DEF JobInv

LEMMA StopFits ==
  ASSUME JobInv, NEW r \in Runners, runner[r].pc # "idle", Stop(r)
  PROVE  JobInv'
<1>1. /\ runner' \in [Runners -> [pc : RunnerPc, event : Events \cup {NoEvent}]]
      /\ runner'[r].pc = "idle"
      /\ \A q \in Runners \ {r} : runner'[q] = runner[q]
  BY RunnerMoves DEF Stop, JobInv, RunnerPc
<1>2. /\ held' \in [Runners -> [Events -> Nat]] /\ \A e \in Events : held'[r][e] = 0
      /\ \A q \in Runners \ {r} : held'[q] = held[q]
      /\ seen' \in [Runners -> Events \cup {NoEvent}]
      /\ \A q \in Runners \ {r} : seen'[q] = seen[q]
  BY DEF Stop, NoBatch, JobInv, JobTypes
<1>3. /\ lock' \in Runners \cup {NoRunner} /\ \A q \in Runners \ {r} : lock = q => lock' = q
      /\ row' = row /\ slipped' = slipped /\ processed' = processed
      /\ inbox' = inbox /\ attempts' = attempts /\ eventLeased' = eventLeased
  BY DEF Stop, inboxVars, JobInv, JobTypes
<1>4. JobTypes'
  BY <1>1, <1>2, <1>3 DEF JobInv, JobTypes
<1>5. RunnersFit'
  BY <1>1, <1>2 DEF JobInv, RunnersFit, AtEvent
<1>6. OwnRows' /\ LockFits' /\ HeldFits'
  <2>1. OwnRows'
    BY <1>3 DEF JobInv, OwnRows
  <2>2. LockFits'
    <3> SUFFICES ASSUME NEW q \in Runners, ~slipped, runner'[q].pc # "idle"
                 PROVE  lock' = q
      BY <1>3 DEF LockFits
    <3>1. q \in Runners \ {r} /\ runner[q].pc # "idle"
      BY <1>1
    <3>2. lock = q
      BY <3>1 DEF JobInv, LockFits
    <3> QED  BY <1>3, <3>1, <3>2
  <2>3. HeldFits'
    BY <1>2, <1>3 DEF JobInv, HeldFits
  <2> QED  BY <2>1, <2>2, <2>3
<1>7. SeenFits'
  BY <1>1, <1>2, <1>3 DEF JobInv, SeenFits
<1>8. MarksFit' /\ ProcessedFit'
  BY <1>1, <1>3 DEF JobInv, MarksFit, ProcessedFit, Applied
<1> QED  BY <1>4, <1>5, <1>6, <1>7, <1>8 DEF JobInv

LEMMA LoseLockFits ==
  ASSUME JobInv, NEW r \in Runners, LoseLock(r)
  PROVE  JobInv'
BY DEF LoseLock, inboxVars, JobInv, JobTypes, RunnersFit, OwnRows, LockFits, HeldFits, SeenFits,
       MarksFit, ProcessedFit, Applied

LEMMA JobStep == JobInv /\ [Next]_vars => JobInv'
<1> SUFFICES ASSUME JobInv, [Next]_vars
             PROVE  JobInv'
  OBVIOUS
<1>1. CASE UNCHANGED jobVars
  BY <1>1 DEF jobVars, inboxVars, runnerVars, JobInv, JobTypes, RunnersFit, OwnRows, LockFits,
              HeldFits, SeenFits, MarksFit, ProcessedFit, Applied
<1>2. CASE RequestNext
  BY <1>1, <1>2, RequestsKeepInbox
<1>3. CASE UNCHANGED vars
  BY <1>1, <1>3 DEF vars
<1>4. CASE InboxNext
  <2>1. CASE \E e \in Events : Accept(e) \/ AcceptAgain(e) \/ EventLeaseLapses(e)
    BY <2>1, DeliveryFits
  <2>2. CASE \E r \in Runners, S \in SUBSET Events : ClaimBatch(r, S)
    BY <2>2, ClaimBatchFits
  <2>3. ASSUME NEW r \in Runners, RunnerStep(r)
        PROVE  JobInv'
    <3>1. CASE Finish(r)
      BY <3>1, StopFits DEF Finish
    <3> QED  BY <2>3, <3>1, ApplyFits, ReadFits, ApplyFailsFits, WriteFits, MarkProcessedFits,
                FailEventFits DEF RunnerStep
  <2>4. CASE \E r \in Runners : MarkThrows(r) \/ MarkAnswerLost(r) \/ RunnerCrash(r) \/ LoseLock(r)
    BY <2>4, MarkThrowsFits, MarkAnswerLostFits, StopFits, LoseLockFits DEF RunnerCrash
  <2> QED  BY <1>4, <2>1, <2>2, <2>3, <2>4 DEF InboxNext
<1> QED  BY <1>2, <1>3, <1>4, TwoHalves

(* JobInv is inductive.                                                     *)
THEOREM JobInvariant == Spec => []JobInv
BY JobInit, JobStep, PTL DEF Spec

(* For any events, in whatever order they arrive, are retried and are       *)
(* repeated: the row of a processed event is not older than that event; of  *)
(* the ledger, as long as the lock was not lost under a run.                *)
THEOREM RowsLatest == Spec => []RowIsLatest
<1>1. JobInv => RowIsLatest
  BY DEF JobInv, ProcessedFit, Applied, RowIsLatest
<1> QED  BY <1>1, JobInvariant, PTL

(* No step of a run, of a delivery or of a request leads an event out of    *)
(* PROCESSED: only a run holding it could, and what it holds is PROCESSING. *)
LEMMA ProcessedStays ==
  ASSUME JobInv, [Next]_vars, NEW e \in Events, inbox[e] = "PROCESSED", ~slipped'
  PROVE  inbox'[e] = "PROCESSED"
<1>1. CASE UNCHANGED jobVars
  BY <1>1 DEF jobVars, inboxVars
<1>2. ASSUME NEW f \in Events, Accept(f) \/ AcceptAgain(f) \/ EventLeaseLapses(f)
      PROVE  inbox'[e] = "PROCESSED"
  BY <1>2 DEF Accept, AcceptAgain, EventLeaseLapses, JobInv, JobTypes
<1>3. ASSUME NEW r \in Runners, NEW S \in SUBSET Events, ClaimBatch(r, S)
      PROVE  inbox'[e] = "PROCESSED"
  BY <1>3 DEF ClaimBatch, Due
<1>4. ASSUME NEW r \in Runners, SetProcessed(r)
      PROVE  inbox'[e] = "PROCESSED"
  <2>1. runner[r].event \in Events
    BY <1>4 DEF SetProcessed, JobInv, RunnersFit, AtEvent
  <2> QED  BY <1>4, <2>1 DEF SetProcessed, JobInv, JobTypes
<1>5. ASSUME NEW r \in Runners, FailEvent(r)
      PROVE  inbox'[e] = "PROCESSED"
  <2>1. /\ runner[r].event \in Events /\ held[r][runner[r].event] # 0 /\ ~slipped
        /\ inbox' = [inbox EXCEPT ![runner[r].event] = AfterFailure(held[r][runner[r].event])]
    BY <1>5 DEF FailEvent, JobInv, RunnersFit, AtEvent
  <2>2. runner[r].event # e
    BY <2>1 DEF JobInv, HeldFits
  <2> QED  BY <2>1, <2>2 DEF JobInv, JobTypes
<1>6. ASSUME NEW r \in Runners,
             \/ RunnerStep(r) /\ ~MarkProcessed(r) /\ ~FailEvent(r)
             \/ MarkThrows(r) \/ RunnerCrash(r) \/ LoseLock(r)
      PROVE  inbox' = inbox
  BY <1>6 DEF RunnerStep, ApplyToSubscription, ReadLedger, ApplyFails, WriteLedger, Finish, Stop,
              MarkThrows, RunnerCrash, LoseLock, inboxVars
<1>7. CASE UNCHANGED vars
  BY <1>1, <1>7 DEF vars
<1>8. CASE RequestNext
  BY <1>1, <1>8, RequestsKeepInbox
<1>9. CASE InboxNext
  BY <1>2, <1>3, <1>4, <1>5, <1>6, <1>9 DEF InboxNext, MarkProcessed, MarkAnswerLost
<1> QED  BY <1>7, <1>8, <1>9, TwoHalves

(* A processed event stays processed while nothing has slipped: a failure   *)
(* recorded by its id never reopens it, although leases cover a whole batch *)
(* and may lapse.                                                           *)
THEOREM ProcessedFinal == Spec => ProcessedIsFinal
<1>1. JobInv /\ [Next]_vars =>
        [\A e \in Events : inbox[e] = "PROCESSED" /\ ~slipped' => inbox'[e] = "PROCESSED"]_vars
  BY ProcessedStays
<1> QED  BY <1>1, JobInvariant, PTL DEF Spec, ProcessedIsFinal

-----------------------------------------------------------------------------
FaultsFit == faults \in 0..MaxFaults

LEMMA FaultsStep == FaultsFit /\ [Next]_vars => FaultsFit'
<1> SUFFICES ASSUME FaultsFit, [Next]_vars, faults' # faults
             PROVE  FaultsFit'
  BY DEF FaultsFit
<1>1. Fault
  <2>1. CASE RequestNext
    BY <2>1 DEF RequestNext, Request, ClaimAgain, ClaimNew, Claim, CheckSubscription,
                RecordCheckout, CallProvider, Complete, Refuse, MarkUnknown, AnswerLost,
                HandlerThrows, HandlerCrash, Replay, LeaseLapses, ReuseEnds
  <2>2. CASE InboxNext
    BY <2>2 DEF InboxNext, Accept, AcceptAgain, EventLeaseLapses, ClaimBatch, RunnerStep,
                ApplyToSubscription, ReadLedger, ApplyFails, WriteLedger, MarkProcessed,
                FailEvent, Finish, MarkThrows, MarkAnswerLost, RunnerCrash, LoseLock, runnerOnly
  <2> QED  BY <2>1, <2>2, TwoHalves DEF vars
<1> QED  BY <1>1, BillingAssumption DEF FaultsFit, Fault

(* Every variable keeps its type, whatever the keys, the events and the     *)
(* runs: a row's status is one of those the schema lists.                   *)
THEOREM BillingTypes == Spec => []BillingTypeOK
<1>1. Init => FaultsFit
  BY BillingAssumption DEF Init, FaultsFit
<1>2. MutationInv /\ JobInv /\ FaultsFit => BillingTypeOK
  BY DEF MutationInv, MutationTypes, HandlerType, JobInv, JobTypes, FaultsFit, BillingTypeOK
<1> QED  BY <1>1, <1>2, FaultsStep, MutationInvariant, JobInvariant, PTL DEF Spec
=============================================================================
