-------------------------- MODULE EventOutboxProofs --------------------------
(***************************************************************************)
(* Proofs about EventOutbox: for any events, any number of dispatchers and *)
(* any MAX_ATTEMPTS, with operators acting and dispatchers dying at will.  *)
(***************************************************************************)
EXTENDS EventOutbox, TLAPS

(* Every step of the outbox keeps the types.                               *)
LEMMA OutboxTypeStep == OutboxTypeOK /\ [OutboxNext]_outboxVars => OutboxTypeOK'
<1> SUFFICES ASSUME OutboxTypeOK, [OutboxNext]_outboxVars PROVE OutboxTypeOK'
  OBVIOUS
<1> USE OutboxAssumption DEF OutboxTypeOK, EventStatus
<1>1. ASSUME NEW e \in Events, Enqueue(e) PROVE OutboxTypeOK'
  BY <1>1 DEF Enqueue
<1>2. ASSUME NEW d \in Dispatchers, NEW S \in SUBSET Due, ClaimDue(d, S)
      PROVE OutboxTypeOK'
  BY <1>2 DEF ClaimDue, Due
<1>3. ASSUME NEW d \in Dispatchers, NEW e \in Events, Begin(d, e)
      PROVE OutboxTypeOK'
  BY <1>3 DEF Begin
<1>4. ASSUME NEW d \in Dispatchers, Complete(d) \/ CompleteUnanswered(d)
      PROVE  OutboxTypeOK'
  BY <1>4 DEF Complete, CompleteUnanswered, MarkCompleted, Release
<1>5. ASSUME NEW d \in Dispatchers, Fail(d) PROVE OutboxTypeOK'
  BY <1>5 DEF Fail, Release, StatusAfterFailure
<1>6. ASSUME NEW d \in Dispatchers, Abandon(d) PROVE OutboxTypeOK'
  BY <1>6 DEF Abandon
<1>7. ASSUME NEW e \in Events, Redrive(e) PROVE OutboxTypeOK'
  BY <1>7 DEF Redrive
<1>8. ASSUME NEW e \in Events, Archive(e) PROVE OutboxTypeOK'
  BY <1>8 DEF Archive
<1>9. CASE UNCHANGED outboxVars
  BY <1>9 DEF outboxVars
<1> QED
  BY <1>1, <1>2, <1>3, <1>4, <1>5, <1>6, <1>7, <1>8, <1>9
  DEF OutboxNext, DispatcherNext

(* The type invariant of the outbox: the rows of event_outbox and what the *)
(* dispatchers remember of the batches they claimed.                       *)
THEOREM OutboxTypeCorrect == OutboxSpec => []OutboxTypeOK
<1>1. OutboxInit => OutboxTypeOK
  BY OutboxAssumption DEF OutboxInit, OutboxTypeOK, EventStatus
<1> QED
  BY <1>1, OutboxTypeStep, PTL DEF OutboxSpec

-----------------------------------------------------------------------------
(* A dispatcher runs only what it holds, so Complete and Fail always speak *)
(* of a claimed event.                                                     *)
CurrentIsHeld ==
  \A d \in Dispatchers : current[d] # NoEvent => claim[d][current[d]] > 0

(* A row that is COMPLETED after a single claim was completed by its only  *)
(* holder, which let go of it in the same step unless its answer was lost. *)
FirstCompletionIsKnown ==
  \A e \in Events : evStatus[e] = "COMPLETED" /\ evAttempts[e] <= 1 =>
    \A d \in Holders(e) : d \in unanswered /\ current[d] = e

OutboxInv ==
  OutboxTypeOK /\ CurrentIsHeld /\ ClaimsAreFenced /\ FailedIsExhausted
    /\ FirstCompletionIsKnown

(* An empty outbox satisfies the invariant.                                 *)
LEMMA OutboxInvInit == OutboxInit => OutboxInv
  BY OutboxAssumption
  DEF OutboxInit, OutboxInv, OutboxTypeOK, EventStatus, CurrentIsHeld,
      ClaimsAreFenced, FailedIsExhausted, FirstCompletionIsKnown, Holders

(* The strengthening is inductive: a claim takes a fresh value of attempts, *)
(* and a dispatcher settles an event with the value it holds.               *)
LEMMA OutboxInvStep == OutboxInv /\ [OutboxNext]_outboxVars => OutboxInv'
<1> SUFFICES ASSUME OutboxInv, [OutboxNext]_outboxVars
             PROVE  CurrentIsHeld' /\ ClaimsAreFenced' /\ FailedIsExhausted'
                      /\ FirstCompletionIsKnown'
  BY OutboxTypeStep DEF OutboxInv
<1>0. OutboxTypeOK /\ MAX_ATTEMPTS \in Nat /\ NoEvent \notin Events
  BY OutboxAssumption DEF OutboxInv
<1>a. /\ \A d \in Dispatchers, e \in Events : claim[d][e] \in Nat
      /\ \A e \in Events : evAttempts[e] \in Nat
      /\ \A d \in Dispatchers : current[d] \in Events \cup {NoEvent}
  BY <1>0 DEF OutboxTypeOK
<1>b. CurrentIsHeld /\ ClaimsAreFenced /\ FailedIsExhausted /\ FirstCompletionIsKnown
  BY DEF OutboxInv
(* Who holds a row that was claimed once is its only holder. *)
<1>c. ASSUME NEW b \in Dispatchers, NEW c \in Dispatchers, NEW e \in Events,
             evAttempts[e] <= 1, claim[b][e] > 0, claim[c][e] > 0
      PROVE  b = c
  <2>1. claim[b][e] <= evAttempts[e] /\ claim[c][e] <= evAttempts[e]
    BY <1>b DEF ClaimsAreFenced
  <2>2. claim[b][e] = 1 /\ claim[c][e] = 1
    BY <2>1, <1>a, <1>c
  <2> QED
    BY <2>2, <1>b DEF ClaimsAreFenced
<1>1. ASSUME evAttempts' = evAttempts, claim' = claim, current' = current,
             unanswered' = unanswered,
             \A e \in Events : evStatus'[e] \in {"FAILED", "COMPLETED"} =>
               evStatus'[e] = evStatus[e]
      PROVE  CurrentIsHeld' /\ ClaimsAreFenced' /\ FailedIsExhausted'
               /\ FirstCompletionIsKnown'
  BY <1>1, <1>b DEF CurrentIsHeld, ClaimsAreFenced, FailedIsExhausted,
     FirstCompletionIsKnown, Holders
<1>2. ASSUME NEW d \in Dispatchers, NEW S \in SUBSET Due, ClaimDue(d, S)
      PROVE  CurrentIsHeld' /\ ClaimsAreFenced' /\ FailedIsExhausted'
               /\ FirstCompletionIsKnown'
  <2>1. \A e \in Events : claim[d][e] = 0
    BY <1>2, <1>a DEF ClaimDue, Batch
  <2>2. current[d] = NoEvent
    BY <2>1, <1>a, <1>b DEF CurrentIsHeld
  <2>3. \A e \in Events : evStatus'[e] = (IF e \in S THEN "PROCESSING" ELSE evStatus[e])
    BY <1>2 DEF ClaimDue
  <2>4. \A e \in Events :
          evAttempts'[e] = (IF e \in S THEN evAttempts[e] + 1 ELSE evAttempts[e])
    BY <1>2 DEF ClaimDue
  <2>5. \A c \in Dispatchers, e \in Events :
          claim'[c][e] = IF c = d THEN (IF e \in S THEN evAttempts[e] + 1 ELSE 0)
                                  ELSE claim[c][e]
    BY <1>2, <1>0 DEF ClaimDue, OutboxTypeOK
  <2>6. current' = current /\ unanswered' = unanswered
    BY <1>2 DEF ClaimDue
  <2>7. CurrentIsHeld'
    BY <2>2, <2>5, <2>6, <1>a, <1>b DEF CurrentIsHeld
  <2>8. \A c \in Dispatchers, e \in Events : claim[c][e] <= evAttempts[e]
    BY <1>b DEF ClaimsAreFenced
  <2>9. \A c \in Dispatchers, e \in Events : claim'[c][e] <= evAttempts'[e]
    BY <2>4, <2>5, <2>8, <1>a
  <2>10. ASSUME NEW b \in Dispatchers, NEW c \in Dispatchers, NEW e \in Events,
                claim'[b][e] > 0, claim'[b][e] = claim'[c][e]
         PROVE  b = c
    <3>1. CASE b # d /\ c # d
      BY <2>5, <2>10, <3>1, <1>b DEF ClaimsAreFenced
    <3>2. CASE b = d \/ c = d
      <4>1. b = d => claim'[b][e] = 0 \/ claim'[b][e] = evAttempts[e] + 1
        BY <2>5
      <4>2. c = d => claim'[c][e] = 0 \/ claim'[c][e] = evAttempts[e] + 1
        BY <2>5
      <4>3. b # d => claim'[b][e] <= evAttempts[e]
        BY <2>5, <2>8
      <4>4. c # d => claim'[c][e] <= evAttempts[e]
        BY <2>5, <2>8
      <4>5. evAttempts[e] \in Nat
        BY <1>a
      <4> QED
        BY <2>10, <3>2, <4>1, <4>2, <4>3, <4>4, <4>5
    <3> QED
      BY <3>1, <3>2
  <2>11. ClaimsAreFenced'
    BY <2>9, <2>10 DEF ClaimsAreFenced
  <2>12. FailedIsExhausted'
    BY <2>3, <2>4, <1>a, <1>b DEF FailedIsExhausted
  <2>13. FirstCompletionIsKnown'
    <3> SUFFICES ASSUME NEW e \in Events, evStatus'[e] = "COMPLETED", evAttempts'[e] <= 1,
                        NEW c \in Dispatchers, claim'[c][e] > 0
                 PROVE  c \in unanswered' /\ current'[c] = e
      BY DEF FirstCompletionIsKnown, Holders
    <3>1. e \notin S /\ evStatus[e] = "COMPLETED" /\ evAttempts[e] <= 1
      BY <2>3, <2>4
    <3>2. claim[c][e] > 0
      BY <2>5, <3>1
    <3> QED
      BY <2>6, <3>1, <3>2, <1>b DEF FirstCompletionIsKnown, Holders
  <2> QED
    BY <2>7, <2>11, <2>12, <2>13
<1>3. ASSUME NEW d \in Dispatchers, NEW e \in Events, Begin(d, e)
      PROVE  CurrentIsHeld' /\ ClaimsAreFenced' /\ FailedIsExhausted'
               /\ FirstCompletionIsKnown'
  <2>1. \A c \in Dispatchers : current'[c] = IF c = d THEN e ELSE current[c]
    BY <1>3, <1>0 DEF Begin, OutboxTypeOK
  <2>2. CurrentIsHeld'
    BY <1>3, <1>b, <2>1 DEF Begin, Batch, CurrentIsHeld
  <2>3. FirstCompletionIsKnown'
    <3> SUFFICES ASSUME NEW f \in Events, evStatus[f] = "COMPLETED", evAttempts[f] <= 1,
                        NEW c \in Dispatchers, claim[c][f] > 0
                 PROVE  c \in unanswered /\ current'[c] = f
      BY <1>3 DEF Begin, FirstCompletionIsKnown, Holders
    <3>1. c \in unanswered /\ current[c] = f
      BY <1>b DEF FirstCompletionIsKnown, Holders
    <3> QED
      BY <1>3, <1>0, <2>1, <3>1 DEF Begin
  <2> QED
    BY <1>3, <1>b, <2>2, <2>3 DEF Begin, ClaimsAreFenced, FailedIsExhausted
(* Complete and Fail: the dispatcher lets go of f, and f gets status s. *)
<1>4. ASSUME NEW d \in Dispatchers, current[d] # NoEvent, Release(d),
             NEW s \in {"PENDING", "COMPLETED", "FAILED"},
             evStatus' = [evStatus EXCEPT ![current[d]] = s],
             evAttempts' = evAttempts,
             s = "FAILED" => claim[d][current[d]] >= MAX_ATTEMPTS
      PROVE  CurrentIsHeld' /\ ClaimsAreFenced' /\ FailedIsExhausted'
               /\ FirstCompletionIsKnown'
  <2>1. PICK f \in Events : f = current[d] /\ claim[d][f] > 0
    BY <1>4, <1>a, <1>b DEF CurrentIsHeld
  <2>2. \A e \in Events : evStatus'[e] = IF e = f THEN s ELSE evStatus[e]
    BY <1>4, <2>1, <1>0 DEF OutboxTypeOK
  <2>3. \A c \in Dispatchers, e \in Events :
          claim'[c][e] = IF c = d /\ e = f THEN 0 ELSE claim[c][e]
    BY <1>4, <2>1, <1>0 DEF Release, OutboxTypeOK
  <2>4. \A c \in Dispatchers : current'[c] = IF c = d THEN NoEvent ELSE current[c]
    BY <1>4, <1>0 DEF Release, OutboxTypeOK
  <2>5. CurrentIsHeld'
    BY <2>3, <2>4, <1>a, <1>b DEF CurrentIsHeld
  <2>6. \A c \in Dispatchers, e \in Events : claim'[c][e] <= evAttempts'[e]
    BY <2>3, <1>4, <1>a, <1>b DEF ClaimsAreFenced
  <2>7. ASSUME NEW b \in Dispatchers, NEW c \in Dispatchers, NEW e \in Events,
               claim'[b][e] > 0, claim'[b][e] = claim'[c][e]
        PROVE  b = c
    <3>1. claim'[b][e] = claim[b][e] /\ claim'[c][e] = claim[c][e]
      BY <2>3, <2>7
    <3> QED
      BY <2>7, <3>1, <1>b DEF ClaimsAreFenced
  <2>8. ClaimsAreFenced'
    BY <2>6, <2>7 DEF ClaimsAreFenced
  <2>9. FailedIsExhausted'
    <3>1. s = "FAILED" => evAttempts[f] >= MAX_ATTEMPTS
      BY <1>4, <2>1, <1>0, <1>a, <1>b DEF ClaimsAreFenced
    <3> QED
      BY <1>4, <2>2, <3>1, <1>b DEF FailedIsExhausted
  <2>10. FirstCompletionIsKnown'
    <3> SUFFICES ASSUME NEW e \in Events, evStatus'[e] = "COMPLETED", evAttempts[e] <= 1,
                        NEW c \in Dispatchers, claim'[c][e] > 0
                 PROVE  c \in unanswered' /\ current'[c] = e
      BY <1>4 DEF FirstCompletionIsKnown, Holders
    <3>1. claim[c][e] > 0 /\ (c # d \/ e # f)
      BY <2>3
    <3>2. CASE e = f
      BY <1>c, <2>1, <3>1, <3>2
    <3>3. CASE e # f
      <4>1. evStatus[e] = "COMPLETED"
        BY <2>2, <3>3
      <4>2. c \in unanswered /\ current[c] = e
        BY <4>1, <3>1, <1>b DEF FirstCompletionIsKnown, Holders
      <4>3. c # d
        BY <4>2, <2>1, <3>3
      <4> QED
        BY <1>4, <2>4, <4>2, <4>3 DEF Release
    <3> QED
      BY <3>2, <3>3
  <2> QED
    BY <2>5, <2>8, <2>9, <2>10
<1>5. ASSUME NEW d \in Dispatchers, Complete(d)
      PROVE  CurrentIsHeld' /\ ClaimsAreFenced' /\ FailedIsExhausted'
               /\ FirstCompletionIsKnown'
  BY <1>5, <1>4 DEF Complete, MarkCompleted
<1>6. ASSUME NEW d \in Dispatchers, Fail(d)
      PROVE  CurrentIsHeld' /\ ClaimsAreFenced' /\ FailedIsExhausted'
               /\ FirstCompletionIsKnown'
  BY <1>6, <1>4 DEF Fail, StatusAfterFailure
<1>7. ASSUME NEW d \in Dispatchers, CompleteUnanswered(d)
      PROVE  CurrentIsHeld' /\ ClaimsAreFenced' /\ FailedIsExhausted'
               /\ FirstCompletionIsKnown'
  <2>1. PICK f \in Events : f = current[d] /\ claim[d][f] > 0
    BY <1>7, <1>a, <1>b DEF CompleteUnanswered, MarkCompleted, CurrentIsHeld
  <2>2. \A e \in Events : evStatus'[e] = IF e = f THEN "COMPLETED" ELSE evStatus[e]
    BY <1>7, <2>1, <1>0 DEF CompleteUnanswered, MarkCompleted, OutboxTypeOK
  <2>3. /\ evAttempts' = evAttempts /\ claim' = claim /\ current' = current
        /\ unanswered' = unanswered \cup {d}
    BY <1>7 DEF CompleteUnanswered
  <2>4. FirstCompletionIsKnown'
    <3> SUFFICES ASSUME NEW e \in Events, evStatus'[e] = "COMPLETED", evAttempts[e] <= 1,
                        NEW c \in Dispatchers, claim[c][e] > 0
                 PROVE  c \in unanswered \cup {d} /\ current[c] = e
      BY <2>3 DEF FirstCompletionIsKnown, Holders
    <3>1. CASE e = f
      BY <1>c, <2>1, <3>1
    <3>2. CASE e # f
      BY <2>2, <3>2, <1>b DEF FirstCompletionIsKnown, Holders
    <3> QED
      BY <3>1, <3>2
  <2> QED
    BY <2>2, <2>3, <2>4, <1>b DEF CurrentIsHeld, ClaimsAreFenced, FailedIsExhausted
<1>8. ASSUME NEW d \in Dispatchers, Abandon(d)
      PROVE  CurrentIsHeld' /\ ClaimsAreFenced' /\ FailedIsExhausted'
               /\ FirstCompletionIsKnown'
  <2>1. \A c \in Dispatchers, e \in Events :
          claim'[c][e] = IF c = d THEN 0 ELSE claim[c][e]
    BY <1>8, <1>0 DEF Abandon, OutboxTypeOK
  <2>2. \A c \in Dispatchers : current'[c] = IF c = d THEN NoEvent ELSE current[c]
    BY <1>8, <1>0 DEF Abandon, OutboxTypeOK
  <2>3. evStatus' = evStatus /\ evAttempts' = evAttempts
    BY <1>8 DEF Abandon
  <2>4. CurrentIsHeld'
    BY <2>1, <2>2, <1>a, <1>b DEF CurrentIsHeld
  <2>5. ClaimsAreFenced'
    BY <2>1, <2>3, <1>a, <1>b DEF ClaimsAreFenced
  <2>6. FirstCompletionIsKnown'
    <3> SUFFICES ASSUME NEW e \in Events, evStatus[e] = "COMPLETED", evAttempts[e] <= 1,
                        NEW c \in Dispatchers, claim'[c][e] > 0
                 PROVE  c \in unanswered' /\ current'[c] = e
      BY <2>3 DEF FirstCompletionIsKnown, Holders
    <3>1. c # d /\ claim[c][e] > 0
      BY <2>1
    <3>2. c \in unanswered /\ current[c] = e
      BY <3>1, <1>b DEF FirstCompletionIsKnown, Holders
    <3> QED
      BY <1>8, <2>2, <3>1, <3>2 DEF Abandon
  <2> QED
    BY <2>3, <2>4, <2>5, <2>6, <1>b DEF FailedIsExhausted
<1>9. ASSUME NEW e \in Events, Enqueue(e) \/ Redrive(e) \/ Archive(e)
      PROVE  CurrentIsHeld' /\ ClaimsAreFenced' /\ FailedIsExhausted'
               /\ FirstCompletionIsKnown'
  <2>1. \A f \in Events : evStatus'[f] \in {"FAILED", "COMPLETED"} =>
          evStatus'[f] = evStatus[f]
    BY <1>9, <1>0 DEF Enqueue, Redrive, Archive, OutboxTypeOK
  <2> QED
    BY <1>9, <1>1, <2>1 DEF Enqueue, Redrive, Archive
<1>10. CASE UNCHANGED outboxVars
  BY <1>1, <1>10 DEF outboxVars
<1> QED
  BY <1>2, <1>3, <1>5, <1>6, <1>7, <1>8, <1>9, <1>10
  DEF OutboxNext, DispatcherNext

(* Only rows that were inserted are claimed, and a row is never deleted.    *)
HeldAreInserted ==
  \A d \in Dispatchers, e \in Events : claim[d][e] > 0 => evStatus[e] # "NONE"

(* No step of the outbox takes a row away.                                  *)
LEMMA RowsRemain ==
  ASSUME OutboxTypeOK, [OutboxNext]_outboxVars, NEW e \in Events, evStatus[e] # "NONE"
  PROVE  evStatus'[e] # "NONE"
BY DEF OutboxTypeOK, outboxVars, OutboxNext, DispatcherNext, Enqueue, ClaimDue, Begin,
   Complete, CompleteUnanswered, MarkCompleted, Fail, StatusAfterFailure, Abandon,
   Redrive, Archive

(* A claim is made of rows that are due, so of rows that exist.             *)
LEMMA HeldStep ==
  ASSUME OutboxTypeOK, CurrentIsHeld, HeldAreInserted, [OutboxNext]_outboxVars
  PROVE  HeldAreInserted'
<1> SUFFICES ASSUME NEW c \in Dispatchers, NEW e \in Events, claim'[c][e] > 0
             PROVE  evStatus'[e] # "NONE"
  BY DEF HeldAreInserted
<1>1. claim[c][e] > 0 => evStatus'[e] # "NONE"
  BY RowsRemain DEF HeldAreInserted
<1>2. ASSUME NEW d \in Dispatchers, NEW S \in SUBSET Due, ClaimDue(d, S)
      PROVE  evStatus'[e] # "NONE"
  <2>1. CASE e \in S
    BY <1>2, <2>1 DEF ClaimDue
  <2>2. CASE e \notin S
    <3>1. c # d
      BY <1>2, <2>2 DEF ClaimDue, OutboxTypeOK
    <3>2. claim'[c] = claim[c]
      BY <1>2, <3>1 DEF ClaimDue, OutboxTypeOK
    <3> QED
      BY <1>1, <3>2
  <2> QED
    BY <2>1, <2>2
<1>3. ASSUME NEW d \in Dispatchers, Complete(d) \/ Fail(d) \/ Abandon(d)
      PROVE  evStatus'[e] # "NONE"
  <2>1. claim[c][e] > 0
    BY <1>3 DEF Complete, Fail, Abandon, Release, OutboxTypeOK
  <2> QED
    BY <1>1, <2>1
<1>4. claim' = claim => evStatus'[e] # "NONE"
  BY <1>1
<1> QED
  BY <1>2, <1>3, <1>4
  DEF OutboxNext, DispatcherNext, Enqueue, Begin, CompleteUnanswered, Redrive,
      Archive, outboxVars

(* The inductive invariant the three theorems below follow from.            *)
THEOREM OutboxInvariant == OutboxSpec => []OutboxInv
  BY OutboxInvInit, OutboxInvStep, PTL DEF OutboxSpec

(* The attempts a dispatcher holds identify its claim: no two dispatchers   *)
(* hold the same claim of an event, re-driven or not.                       *)
THEOREM ClaimsFenced == OutboxSpec => []ClaimsAreFenced
<1>1. OutboxInv => ClaimsAreFenced
  BY DEF OutboxInv
<1> QED
  BY <1>1, OutboxInvariant, PTL

(* An event is FAILED only after MAX_ATTEMPTS claims, although              *)
(* failOutboxEvent judges by the attempts of a claim that may be old.       *)
THEOREM FailedExhausted == OutboxSpec => []FailedIsExhausted
<1>1. OutboxInv => FailedIsExhausted
  BY DEF OutboxInv
<1> QED
  BY <1>1, OutboxInvariant, PTL

(* A COMPLETED event is taken up again only after the failure of a          *)
(* dispatcher that was still at it: the one that completed it without being *)
(* told so, or one of two that held it.                                     *)
THEOREM CompletedReopens == OutboxSpec => CompletedReopensOnlyIfHeld
<1> DEFINE Reopens ==
      \A e \in Events : evStatus[e] = "COMPLETED" /\ evStatus'[e] # "COMPLETED" =>
        \/ evStatus'[e] = "ARCHIVED"
        \/ \E d \in Dispatchers :
             /\ current[d] = e /\ current'[d] = NoEvent
             /\ d \in unanswered \/ evAttempts[e] > 1
<1>1. OutboxInv /\ [OutboxNext]_outboxVars => [Reopens]_outboxVars
  <2> SUFFICES ASSUME OutboxInv, OutboxNext, NEW f \in Events,
                      evStatus[f] = "COMPLETED", evStatus'[f] # "COMPLETED",
                      evStatus'[f] # "ARCHIVED"
               PROVE  \E d \in Dispatchers :
                        /\ current[d] = f /\ current'[d] = NoEvent
                        /\ d \in unanswered \/ evAttempts[f] > 1
    OBVIOUS
  <2>0. /\ evAttempts[f] \in Nat
        /\ evAttempts[f] <= 1 => \A d \in Holders(f) : d \in unanswered
        /\ current \in [Dispatchers -> Events \cup {NoEvent}]
        /\ \A d \in Dispatchers : current[d] # NoEvent => claim[d][current[d]] > 0
        /\ evStatus \in [Events -> EventStatus]
    BY DEF OutboxInv, OutboxTypeOK, FirstCompletionIsKnown, CurrentIsHeld
  <2>1. PICK d \in Dispatchers : Fail(d)
    <3>1. ASSUME NEW d \in Dispatchers, NEW S \in SUBSET Due, ClaimDue(d, S) PROVE FALSE
      BY <3>1 DEF ClaimDue, Due
    <3>2. ASSUME NEW d \in Dispatchers, Complete(d) \/ CompleteUnanswered(d) PROVE FALSE
      BY <2>0, <3>2 DEF Complete, CompleteUnanswered, MarkCompleted
    <3>3. ASSUME NEW e \in Events, Enqueue(e) \/ Redrive(e) \/ Archive(e) PROVE FALSE
      BY <2>0, <3>3 DEF Enqueue, Redrive, Archive
    <3> QED
      BY <3>1, <3>2, <3>3 DEF OutboxNext, DispatcherNext, Begin, Abandon
  <2>2. current[d] = f /\ current'[d] = NoEvent
    BY <2>0, <2>1 DEF Fail, Release
  <2>3. d \in Holders(f)
    BY <2>0, <2>1, <2>2 DEF Fail, Holders
  <2> QED
    BY <2>0, <2>2, <2>3
<1> QED
  BY <1>1, OutboxInvariant, PTL DEF OutboxSpec, CompletedReopensOnlyIfHeld
=============================================================================
