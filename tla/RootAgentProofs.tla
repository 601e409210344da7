-------------------------- MODULE RootAgentProofs --------------------------
EXTENDS RootAgent, TLAPS

LEMMA CallingIs ==
  Calling = {"prepare", "package", "open", "finalize", "succeed", "cancel", "fail",
             "activate", "refuse"}
BY DEF Calling, Call

ActivationPc == {"install", "activate", "refuse"}
After == {AfterAnswer, AfterError}

LEMMA AfterCall ==
  ASSUME NEW pc \in Calling, NEW after \in After
  PROVE  /\ after[pc] \in Pc
         /\ after[pc] # "idle" => (after[pc] \in BuildPc <=> pc \in BuildPc)
         /\ after[pc] # "activate"
         /\ after[pc] = "succeed" => pc = "finalize"
BY CallingIs DEF AfterAnswer, AfterError, BuildPc, Pc, After

LEMMA CallOf ==
  ASSUME NEW pc \in Calling
  PROVE  /\ Call[pc].op \in {"state", "outcome", "open", "finalize"}
         /\ Call[pc].arg \in {"building", "uploading", "active", "-"} \cup Terminal
         /\ Call[pc].op = "outcome" <=> pc \notin BuildPc
         /\ Call[pc].op = "outcome" => Call[pc].arg \in {"active", "failed"}
         /\ Call[pc].op = "state" => Call[pc].arg \in {"building", "uploading"} \cup Terminal
         /\ Call[pc].arg = "active" <=> pc = "activate"
         /\ Call[pc].arg = "succeeded" <=> pc = "succeed"
         /\ Call[pc].op = "finalize" <=> pc = "finalize"
BY CallingIs DEF Call, BuildPc, Terminal

LEMMA WorkingIs == Working = {"assigned", "building", "uploading"}
BY DEF Working, Order

-----------------------------------------------------------------------------
(* The inductive invariant: types, and who may be doing what.               *)

JobsFit == \A c \in ClaimIds : claimStatus[c] = "none" <=> job[c] = NoJob

AgentFits(n) ==
  IF agent[n].pc = "idle" THEN agent[n].claim = 0
  ELSE /\ agent[n].claim \in ClaimIds /\ job[agent[n].claim] \in Job
       /\ job[agent[n].claim].node = n
       /\ job[agent[n].claim].phase = "build" <=> agent[n].pc \in BuildPc

(* A request is of its claim's phase; one that has been checked would still *)
(* apply to the status that was read.                                       *)
RequestFits(r) ==
  /\ job[r.claim] \in Job
  /\ r.op = "outcome" <=> job[r.claim].phase = "activation"
  /\ r.op = "outcome" => r.arg \in {"active", "failed"}
  /\ r.op = "state" => r.arg \in {"building", "uploading"} \cup Terminal
  /\ r.op = "state" /\ r.stage # "sent" =>
       r.seen \in BuildStatus \ Terminal /\ CanApply(r.seen, r.arg)

(* The request an agent waits for is the one it is at.                      *)
AwaitedFits(r) ==
  r.awaited => LET a == agent[job[r.claim].node] IN
    a.claim = r.claim /\ a.pc \in Calling /\ r.op = Call[a.pc].op /\ r.arg = Call[a.pc].arg

OneAwaited ==
  \A r, q \in requests :
    r.awaited /\ q.awaited /\ job[r.claim].node = job[q.claim].node => r = q

AgentsFit == \A n \in Nodes : AgentFits(n)
RequestsFit == \A r \in requests : RequestFits(r) /\ AwaitedFits(r)

Fits == JobsFit /\ AgentsFit /\ RequestsFit /\ OneAwaited
IInv == RootTypeOK /\ Fits

AgentType == [Nodes -> [pc : Pc, claim : ClaimIds \cup {0}]]

(* Moving an agent.                                                         *)
LEMMA MoveTyped ==
  ASSUME agent \in AgentType, NEW n \in Nodes, NEW pc \in Pc
  PROVE  At(n, pc) \in AgentType
BY DEF At, AgentType

(* An answer keeps agents and requests in step.                             *)
LEMMA ReplyFits ==
  ASSUME IInv, NEW r \in requests, NEW after \in After, Reply(r, after), job' = job
  PROVE  /\ agent' \in AgentType /\ requests' \subseteq Request
         /\ AgentsFit' /\ RequestsFit' /\ OneAwaited'
<1> DEFINE n == job[r.claim].node
<1>1. requests' = requests \ {r} /\ requests' \subseteq Request
  BY DEF Reply, IInv, RootTypeOK
<1>2. RequestFits(r) /\ AwaitedFits(r) /\ n \in Nodes /\ r \in Request
  BY DEF IInv, Fits, RequestsFit, RequestFits, Job, RootTypeOK
<1>3. OneAwaited'
  BY <1>1 DEF OneAwaited, IInv, Fits
<1>4. \A q \in requests' : RequestFits(q)'
  BY <1>1 DEF RequestFits, CanApply, IInv, Fits, RequestsFit
<1>5. CASE ~r.awaited
  <2>1. agent' = agent
    BY <1>5 DEF Reply
  <2> QED
    BY <1>1, <1>3, <1>4, <2>1
    DEF IInv, Fits, RootTypeOK, AgentType, AgentsFit, AgentFits, RequestsFit, AwaitedFits
<1>6. CASE r.awaited
  <2> DEFINE pc == agent[n].pc
  <2>1. pc \in Calling /\ agent' = At(n, after[pc])
    BY <1>2, <1>6 DEF AwaitedFits, Reply
  <2>2. /\ after[pc] \in Pc
        /\ after[pc] # "idle" => (after[pc] \in BuildPc <=> pc \in BuildPc)
    BY <2>1, AfterCall
  <2>3. agent \in AgentType
    BY DEF IInv, RootTypeOK, AgentType
  <2>4. agent' \in AgentType
    BY <1>2, <2>1, <2>2, <2>3, MoveTyped
  <2>5. \A m \in Nodes : m # n => agent'[m] = agent[m]
    BY <2>1, <2>3 DEF At, AgentType
  <2>6. /\ agent'[n].pc = after[pc]
        /\ agent'[n].claim = IF after[pc] = "idle" THEN 0 ELSE agent[n].claim
    BY <1>2, <2>1, <2>3 DEF At, AgentType
  <2>7. AgentFits(n)'
    <3>1. AgentFits(n) /\ pc # "idle"
      BY <1>2, <2>1, CallingIs DEF IInv, Fits, AgentsFit
    <3> QED  BY <2>2, <2>6, <3>1 DEF AgentFits
  <2>8. AgentsFit'
    BY <2>5, <2>7 DEF AgentsFit, AgentFits, IInv, Fits
  <2>9. \A q \in requests' : AwaitedFits(q)'
    <3> SUFFICES ASSUME NEW q \in requests', q.awaited
                 PROVE  AwaitedFits(q)'
      BY DEF AwaitedFits
    <3>1. q \in requests /\ q # r /\ AwaitedFits(q) /\ RequestFits(q)
      BY <1>1 DEF IInv, Fits, RequestsFit
    <3>2. job[q.claim].node # n /\ job[q.claim].node \in Nodes
      BY <1>6, <3>1 DEF IInv, Fits, OneAwaited, RequestFits, Job
    <3> QED  BY <2>5, <3>1, <3>2 DEF AwaitedFits
  <2> QED  BY <1>1, <1>3, <1>4, <2>4, <2>8, <2>9 DEF RequestsFit
<1> QED  BY <1>5, <1>6

(* So does the next stage of a request.                                     *)
LEMMA ProceedFits ==
  ASSUME IInv, NEW r \in requests, NEW stage \in {"checked", "stored"},
         NEW seen \in BuildStatus \cup {"-"}, Proceed(r, stage, seen), job' = job,
         r.op = "state" => seen \in BuildStatus \ Terminal /\ CanApply(seen, r.arg)
  PROVE  /\ agent' \in AgentType /\ requests' \subseteq Request
         /\ AgentsFit' /\ RequestsFit' /\ OneAwaited'
<1> DEFINE r2 == [r EXCEPT !.stage = stage, !.seen = seen]
<1>1. requests' = (requests \ {r}) \cup {r2} /\ agent' = agent /\ installed' = installed
  BY DEF Proceed, agentVars
<1>2. r \in Request /\ RequestFits(r) /\ AwaitedFits(r)
  BY DEF IInv, RootTypeOK, Fits, RequestsFit
<1>3. /\ r2 \in Request /\ r2.claim = r.claim /\ r2.op = r.op /\ r2.arg = r.arg
      /\ r2.seen = seen /\ r2.stage = stage /\ r2.awaited = r.awaited
  BY <1>2 DEF Request
<1> HIDE DEF r2
<1>4. RequestFits(r2)'
  BY <1>2, <1>3 DEF RequestFits, CanApply
<1>5. AwaitedFits(r2)'
  BY <1>1, <1>2, <1>3 DEF AwaitedFits
<1>6. \A q \in requests : RequestFits(q)' /\ AwaitedFits(q)'
  BY <1>1 DEF RequestFits, AwaitedFits, CanApply, IInv, Fits, RequestsFit
<1>7. OneAwaited'
  <2>1. OneAwaited
    BY DEF IInv, Fits
  <2> QED  BY <1>1, <1>3, <2>1 DEF OneAwaited
<1>8. AgentsFit' /\ agent' \in AgentType
  BY <1>1 DEF AgentsFit, AgentFits, IInv, Fits, RootTypeOK, AgentType
<1>9. requests' \subseteq Request
  BY <1>1, <1>3 DEF IInv, RootTypeOK
<1>10. RequestsFit'
  <2> SUFFICES ASSUME NEW q \in requests' PROVE RequestFits(q)' /\ AwaitedFits(q)'
    BY DEF RequestsFit
  <2>1. CASE q = r2
    BY <1>4, <1>5, <2>1
  <2>2. CASE q \in requests
    BY <1>6, <2>2
  <2> QED  BY <1>1, <2>1, <2>2
<1> QED  BY <1>7, <1>8, <1>9, <1>10

LEMMA FrameFits ==
  ASSUME IInv, job' = job, agent' = agent, requests' = requests, JobsFit'
  PROVE  Fits'
BY DEF IInv, Fits, AgentsFit, AgentFits, RequestsFit, RequestFits, AwaitedFits, OneAwaited,
       CanApply

LEMMA InitFits == Init => IInv
<1> SUFFICES ASSUME Init PROVE IInv
  OBVIOUS
<1> USE AgentAssumption DEF Init
<1>1. RootTypeOK
  BY WorkingIs
  DEF RootTypeOK, BuildStatus, ActivationStatus, ClaimIds, Pc, Terminal
<1>2. Fits
  BY DEF Fits, JobsFit, AgentsFit, AgentFits, RequestsFit, OneAwaited
<1> QED  BY <1>1, <1>2 DEF IInv

(* The console.                                                             *)
LEMMA ConsoleFits ==
  ASSUME IInv, NEW b \in Builds, NEW n \in Nodes, Cancel(b) \/ Activate(b, n)
  PROVE  IInv'
<1>1. CASE Cancel(b)
  <2>1. /\ status' \in [Builds -> BuildStatus]
        /\ cancelRequested' \in [Builds -> BOOLEAN]
    BY <1>1 DEF Cancel, IInv, RootTypeOK, BuildStatus
  <2>3. RootTypeOK'
    BY <1>1, <2>1 DEF Cancel, IInv, RootTypeOK, activationVars, claimVars, uploadVars, agentVars
  <2>2. JobsFit'
    BY <1>1 DEF Cancel, IInv, Fits, JobsFit, claimVars
  <2> QED  BY <1>1, <2>2, <2>3, FrameFits DEF Cancel, claimVars, agentVars, IInv
<1>2. CASE Activate(b, n)
  <2>1. RootTypeOK'
    BY <1>2, AgentAssumption
    DEF Activate, IInv, RootTypeOK, ActivationStatus, buildVars, claimVars, uploadVars, agentVars
  <2>2. JobsFit'
    BY <1>2 DEF Activate, IInv, Fits, JobsFit, claimVars
  <2> QED  BY <1>2, <2>1, <2>2, FrameFits DEF Activate, claimVars, agentVars, IInv
<1> QED  BY <1>1, <1>2

(* A claim is created for a node whose agent is idle.                       *)
LEMMA CreateFits ==
  ASSUME IInv, NEW n \in Nodes, NEW b \in Builds, NEW phase \in Phase,
         NEW pc \in {"prepare", "install"}, pc = "prepare" <=> phase = "build",
         agent[n].pc = "idle", CreateClaim(n, b, phase, pc), requests' = requests
  PROVE  /\ claimStatus' \in [ClaimIds -> {"none", "active", "completed", "expired"}]
         /\ leased' \in [ClaimIds -> BOOLEAN] /\ job' \in [ClaimIds -> Job \cup {NoJob}]
         /\ agent' \in AgentType /\ faults' \in 0..MaxFaults /\ Fits'
<1>1. PICK c \in ClaimIds :
        /\ claimStatus[c] = "none"
        /\ claimStatus' = [claimStatus EXCEPT ![c] = "active"]
        /\ leased' = [leased EXCEPT ![c] = TRUE]
        /\ job' = [job EXCEPT ![c] = [node |-> n, build |-> b, phase |-> phase]]
        /\ \/ /\ agent' = [agent EXCEPT ![n] = [pc |-> pc, claim |-> c]]
              /\ faults' = faults
           \/ /\ faults < MaxFaults /\ faults' = faults + 1
              /\ agent' = agent
  BY DEF CreateClaim
<1> DEFINE j == [node |-> n, build |-> b, phase |-> phase]
<1>2. /\ job[c] = NoJob /\ j \in Job /\ NoJob \notin Job
      /\ \A d \in ClaimIds : job[d] \in Job => d # c /\ job'[d] = job[d]
      /\ job'[c] = j
  BY <1>1, AgentAssumption DEF IInv, Fits, JobsFit, Job, Phase, RootTypeOK
<1>3. /\ claimStatus' \in [ClaimIds -> {"none", "active", "completed", "expired"}]
      /\ leased' \in [ClaimIds -> BOOLEAN] /\ job' \in [ClaimIds -> Job \cup {NoJob}]
      /\ faults' \in 0..MaxFaults
  BY <1>1, <1>2, AgentAssumption DEF IInv, RootTypeOK
<1>4. agent' \in AgentType
  <2>1. agent \in AgentType
    BY DEF IInv, RootTypeOK, AgentType
  <2>2. [pc |-> pc, claim |-> c] \in [pc : Pc, claim : ClaimIds \cup {0}]
    BY CallingIs DEF Pc
  <2> QED  BY <1>1, <2>1, <2>2 DEF AgentType
<1>5. JobsFit'
  BY <1>1, <1>2 DEF JobsFit, IInv, Fits, RootTypeOK
<1>6. AgentsFit'
  <2> SUFFICES ASSUME NEW m \in Nodes PROVE AgentFits(m)'
    BY DEF AgentsFit
  <2>1. AgentFits(m)
    BY DEF IInv, Fits, AgentsFit
  <2>2. CASE agent'[m] = agent[m]
    BY <1>2, <2>1, <2>2 DEF AgentFits
  <2>3. CASE m = n /\ agent' = [agent EXCEPT ![n] = [pc |-> pc, claim |-> c]]
    <3>1. agent'[n].pc = pc /\ agent'[n].claim = c
      BY <2>3 DEF IInv, RootTypeOK
    <3>2. j.node = n /\ j.phase = phase
      OBVIOUS
    <3> QED  BY <1>2, <2>3, <3>1, <3>2 DEF AgentFits, BuildPc, Phase
  <2> QED  BY <1>1, <2>2, <2>3 DEF IInv, RootTypeOK
<1>7. \A r \in requests : r \in Request /\ RequestFits(r) /\ AwaitedFits(r)
  BY DEF IInv, Fits, RequestsFit, RootTypeOK
<1>8. \A r \in requests : job[r.claim] \in Job /\ job'[r.claim] = job[r.claim]
  BY <1>2, <1>7 DEF RequestFits, Request
<1>9. RequestsFit'
  <2> SUFFICES ASSUME NEW r \in requests PROVE RequestFits(r)' /\ AwaitedFits(r)'
    BY DEF RequestsFit
  <2>1. RequestFits(r)'
    BY <1>7, <1>8 DEF RequestFits, CanApply
  <2>2. AwaitedFits(r)'
    <3> SUFFICES ASSUME r.awaited PROVE AwaitedFits(r)'
      BY DEF AwaitedFits
    <3>1. job[r.claim].node # n
      BY <1>7, CallingIs DEF AwaitedFits
    <3>2. agent'[job[r.claim].node] = agent[job[r.claim].node]
      BY <1>1, <1>8, <3>1 DEF IInv, RootTypeOK, Job
    <3> QED  BY <1>7, <1>8, <3>2 DEF AwaitedFits
  <2> QED  BY <2>1, <2>2
<1>10. OneAwaited'
  BY <1>8 DEF OneAwaited, IInv, Fits
<1> QED  BY <1>3, <1>4, <1>5, <1>6, <1>9, <1>10 DEF Fits

LEMMA TakeBuildFits ==
  ASSUME IInv, NEW n \in Nodes, NEW b \in Builds, TakeBuild(n, b)
  PROVE  IInv'
<1>1. agent[n].pc = "idle" /\ CreateClaim(n, b, "build", "prepare") /\ requests' = requests
  BY DEF TakeBuild, Polls
<1>2. /\ claimStatus' \in [ClaimIds -> {"none", "active", "completed", "expired"}]
      /\ leased' \in [ClaimIds -> BOOLEAN] /\ job' \in [ClaimIds -> Job \cup {NoJob}]
      /\ agent' \in AgentType /\ faults' \in 0..MaxFaults /\ Fits'
  BY <1>1, CreateFits DEF Phase
<1>3. status' \in [Builds -> BuildStatus]
  BY WorkingIs DEF TakeBuild, IInv, RootTypeOK, BuildStatus
<1> QED
  BY <1>1, <1>2, <1>3
  DEF TakeBuild, IInv, RootTypeOK, AgentType, activationVars, uploadVars

LEMMA TakeActivationFits ==
  ASSUME IInv, NEW n \in Nodes, NEW b \in Builds, TakeActivation(n, b)
  PROVE  IInv'
<1>1. agent[n].pc = "idle" /\ CreateClaim(n, b, "activation", "install") /\ requests' = requests
  BY DEF TakeActivation, Polls
<1>2. /\ claimStatus' \in [ClaimIds -> {"none", "active", "completed", "expired"}]
      /\ leased' \in [ClaimIds -> BOOLEAN] /\ job' \in [ClaimIds -> Job \cup {NoJob}]
      /\ agent' \in AgentType /\ faults' \in 0..MaxFaults /\ Fits'
  BY <1>1, CreateFits DEF Phase
<1>3. activationStatus' \in [Builds -> ActivationStatus]
  BY DEF TakeActivation, IInv, RootTypeOK, ActivationStatus
<1> QED
  BY <1>1, <1>2, <1>3
  DEF TakeActivation, IInv, RootTypeOK, AgentType, buildVars, uploadVars

LEMMA NextJobFits ==
  ASSUME IInv, NEW n \in Nodes, NEW b \in Builds,
         \/ NextRoutingBuild(n, b) \/ NextRoutingActivation(n, b)
         \/ NextBasemapBuild(n, b) \/ NextBasemapActivation(n, b)
  PROVE  IInv'
BY TakeBuildFits, TakeActivationFits
DEF NextRoutingBuild, NextRoutingActivation, NextBasemapBuild, NextBasemapActivation

LEMMA AfterExpiryTyped ==
  ASSUME IInv, NEW b \in Builds PROVE AfterExpiry(b) \in BuildStatus
BY DEF AfterExpiry, BuildStatus, Terminal, IInv, RootTypeOK

LEMMA ExpireFits ==
  ASSUME IInv, NEW n \in Nodes, NEW c \in ClaimIds, ExpireClaim(n, c)
  PROVE  IInv'
<1>1. job[c] \in Job
  BY DEF ExpireClaim, IInv, RootTypeOK
<1>2. job[c].build \in Builds
  BY <1>1 DEF Job
<1>3. /\ status' \in [Builds -> BuildStatus]
      /\ activationStatus' \in [Builds -> ActivationStatus]
  BY <1>2, AfterExpiryTyped DEF ExpireClaim, IInv, RootTypeOK, ActivationStatus
<1>4. /\ claimStatus' \in [ClaimIds -> {"none", "active", "completed", "expired"}]
      /\ unswept' \subseteq ClaimIds
  BY DEF ExpireClaim, IInv, RootTypeOK
<1>5. RootTypeOK'
  BY <1>3, <1>4 DEF ExpireClaim, IInv, RootTypeOK, agentVars
<1>6. JobsFit'
  BY DEF ExpireClaim, JobsFit, IInv, Fits, RootTypeOK
<1> QED  BY <1>5, <1>6, FrameFits DEF ExpireClaim, IInv, agentVars

LEMMA ClaimStepFits ==
  ASSUME IInv, NEW c \in ClaimIds,
         SweepSessions(c) \/ LeaseLapses(c) \/ RenewalsFail(c) \/ SweepLost(c)
  PROVE  IInv'
<1> USE DEF buildVars, activationVars, claimVars, uploadVars, agentVars
<1>1. RootTypeOK'
  <2>1. CASE SweepSessions(c)
    <3> DEFINE s == session'[c]
               t == multipart'[c]
    <3>1. /\ session' = [session EXCEPT ![c] = s]
          /\ s \in {"none", "creating", "ready", "finalizing", "completed", "failed"}
      BY <2>1 DEF SweepSessions, IInv, RootTypeOK
    <3>2. /\ multipart' = [multipart EXCEPT ![c] = t]
          /\ t \in {"none", "open", "uploaded", "stored", "aborted"}
      BY <2>1 DEF SweepSessions, IInv, RootTypeOK
    <3> HIDE DEF s, t
    <3> QED  BY <2>1, <3>1, <3>2 DEF SweepSessions, IInv, RootTypeOK
  <2>2. CASE LeaseLapses(c)
    BY <2>2 DEF LeaseLapses, IInv, RootTypeOK
  <2>3. CASE RenewalsFail(c)
    BY <2>3, AgentAssumption DEF RenewalsFail, IInv, RootTypeOK
  <2>4. CASE SweepLost(c)
    BY <2>4, AgentAssumption DEF SweepLost, IInv, RootTypeOK
  <2> QED  BY <2>1, <2>2, <2>3, <2>4
<1>2. JobsFit' /\ job' = job /\ agent' = agent /\ requests' = requests
  BY DEF SweepSessions, LeaseLapses, RenewalsFail, SweepLost, IInv, Fits, JobsFit
<1> QED  BY <1>1, <1>2, FrameFits DEF IInv

-----------------------------------------------------------------------------
(* The server's statements.                                                 *)

LEMMA StateFits ==
  ASSUME IInv, NEW r \in requests, CheckState(r) \/ CommitState(r)
  PROVE  IInv'
<1> USE DEF activationVars, claimVars, uploadVars
<1>1. r \in Request /\ RequestFits(r) /\ job[r.claim].build \in Builds
  BY DEF IInv, RootTypeOK, Fits, RequestsFit, RequestFits, Job
<1>2. job' = job /\ AfterAnswer \in After /\ AfterError \in After
  BY DEF CheckState, CommitState, After
<1>3. /\ agent' \in AgentType /\ requests' \subseteq Request
      /\ AgentsFit' /\ RequestsFit' /\ OneAwaited'
      /\ installed' = installed
  <2>1. CASE \E after \in After : Reply(r, after)
    BY <1>2, <2>1, ReplyFits DEF Reply
  <2>2. CASE /\ Proceed(r, "checked", status[job[r.claim].build])
             /\ status[job[r.claim].build] \notin Terminal
             /\ CanApply(status[job[r.claim].build], r.arg)
    <3>1. status[job[r.claim].build] \in BuildStatus \ Terminal
      BY <1>1, <2>2 DEF IInv, RootTypeOK
    <3> QED  BY <1>2, <2>2, <3>1, ProceedFits DEF Proceed, agentVars
  <2> QED  BY <1>2, <2>1, <2>2 DEF CheckState, CommitState
<1>4. /\ status' \in [Builds -> BuildStatus]
      /\ claimStatus' \in [ClaimIds -> {"none", "active", "completed", "expired"}]
  <2>1. CASE CheckState(r)
    BY <2>1 DEF CheckState, buildVars, IInv, RootTypeOK
  <2>2. CASE CommitState(r)
    <3>1. r.arg \in BuildStatus
      BY <1>1, <2>2, WorkingIs DEF CommitState, RequestFits, BuildStatus
    <3>2. status' \in [Builds -> BuildStatus]
      BY <2>2, <3>1 DEF CommitState, IInv, RootTypeOK
    <3>3. claimStatus' = claimStatus \/ CompleteClaim(r.claim)
      BY <2>2 DEF CommitState
    <3> QED  BY <3>2, <3>3 DEF CompleteClaim, IInv, RootTypeOK
  <2> QED  BY <2>1, <2>2
<1>5. RootTypeOK'
  BY <1>3, <1>4 DEF CheckState, CommitState, buildVars, IInv, RootTypeOK, AgentType
<1>6. JobsFit'
  BY <1>1, <1>2 DEF CheckState, CommitState, CompleteClaim, JobsFit, IInv, Fits, RootTypeOK
<1> QED  BY <1>3, <1>5, <1>6 DEF IInv, Fits

LEMMA OutcomeFits ==
  ASSUME IInv, NEW r \in requests, CheckOutcome(r) \/ CommitOutcome(r)
  PROVE  IInv'
<1> USE DEF buildVars, claimVars, uploadVars
<1>1. r \in Request /\ RequestFits(r) /\ job[r.claim] \in Job
  BY DEF IInv, RootTypeOK, Fits, RequestsFit, RequestFits
<1>2. /\ job' = job /\ AfterAnswer \in After /\ AfterError \in After
      /\ r.op # "state"
  BY DEF CheckOutcome, CommitOutcome, After
<1>3. /\ agent' \in AgentType /\ requests' \subseteq Request
      /\ AgentsFit' /\ RequestsFit' /\ OneAwaited'
      /\ installed' = installed
  <2>1. CASE \E after \in After : Reply(r, after)
    BY <1>2, <2>1, ReplyFits DEF Reply
  <2>2. CASE Proceed(r, "checked", "-")
    BY <1>2, <2>2, ProceedFits DEF Proceed, agentVars
  <2> QED  BY <1>2, <2>1, <2>2 DEF CheckOutcome, CommitOutcome
<1>4. /\ activationStatus' \in [Builds -> ActivationStatus]
      /\ installations' \subseteq Nodes \X Builds
      /\ claimStatus' \in [ClaimIds -> {"none", "active", "completed", "expired"}]
  <2>1. CASE CheckOutcome(r)
    BY <2>1 DEF CheckOutcome, activationVars, IInv, RootTypeOK
  <2>2. CASE CommitOutcome(r)
    <3>1. r.arg \in ActivationStatus /\ <<job[r.claim].node, job[r.claim].build>> \in Nodes \X Builds
      BY <1>1, <2>2 DEF CommitOutcome, RequestFits, ActivationStatus, Job
    <3>2. /\ activationStatus' \in [Builds -> ActivationStatus]
          /\ installations' \subseteq Nodes \X Builds
      BY <2>2, <3>1 DEF CommitOutcome, IInv, RootTypeOK
    <3>3. claimStatus' = claimStatus \/ CompleteClaim(r.claim)
      BY <2>2 DEF CommitOutcome
    <3> QED  BY <3>2, <3>3 DEF CompleteClaim, IInv, RootTypeOK
  <2> QED  BY <2>1, <2>2
<1>5. RootTypeOK'
  BY <1>3, <1>4 DEF CheckOutcome, CommitOutcome, activationVars, IInv, RootTypeOK, AgentType
<1>6. JobsFit'
  BY <1>1, <1>2 DEF CheckOutcome, CommitOutcome, CompleteClaim, JobsFit, IInv, Fits, RootTypeOK
<1> QED  BY <1>3, <1>5, <1>6 DEF IInv, Fits

LEMMA UploadFits ==
  ASSUME IInv, NEW r \in requests,
         \/ CheckOpen(r) \/ SessionReady(r) \/ SessionFails(r)
         \/ CheckFinalize(r) \/ CompleteUpload(r) \/ RecordArtifact(r)
  PROVE  IInv'
<1> USE DEF buildVars, activationVars, claimVars
<1>1. r \in Request /\ job[r.claim] \in Job /\ job[r.claim].build \in Builds
  BY DEF IInv, RootTypeOK, Fits, RequestsFit, RequestFits, Job
<1>2. /\ job' = job /\ claimStatus' = claimStatus /\ r.op # "state"
      /\ AfterAnswer \in After /\ AfterError \in After
  BY DEF CheckOpen, SessionReady, SessionFails, CheckFinalize, CompleteUpload, RecordArtifact, After
<1>3. /\ agent' \in AgentType /\ requests' \subseteq Request
      /\ AgentsFit' /\ RequestsFit' /\ OneAwaited'
      /\ installed' = installed
  <2>1. CASE \E after \in After : Reply(r, after)
    BY <1>2, <2>1, ReplyFits DEF Reply
  <2>2. CASE \E stage \in {"checked", "stored"} : Proceed(r, stage, "-")
    BY <1>2, <2>2, ProceedFits DEF Proceed, agentVars
  <2> QED
    BY <1>2, <2>1, <2>2
    DEF CheckOpen, SessionReady, SessionFails, CheckFinalize, CompleteUpload, RecordArtifact
<1>4. /\ session' \in
           [ClaimIds -> {"none", "creating", "ready", "finalizing", "completed", "failed"}]
      /\ multipart' \in [ClaimIds -> {"none", "open", "uploaded", "stored", "aborted"}]
      /\ artifact' \in [Builds -> ClaimIds \cup {0}]
      /\ faults' \in 0..MaxFaults
  <2>1. r.claim \in ClaimIds
    BY <1>1 DEF Request
  <2>2. CASE CheckOpen(r)
    <3>1. session' = session \/ session' = [session EXCEPT ![r.claim] = "creating"]
      BY <2>2 DEF CheckOpen
    <3>2. multipart' = multipart /\ artifact' = artifact /\ faults' = faults
      BY <2>2 DEF CheckOpen
    <3> QED  BY <3>1, <3>2 DEF IInv, RootTypeOK
  <2>6. CASE CheckFinalize(r)
    BY <2>6 DEF CheckFinalize, IInv, RootTypeOK
  <2>3. CASE SessionReady(r)
    BY <2>3 DEF SessionReady, IInv, RootTypeOK
  <2>7. CASE SessionFails(r)
    <3>1. faults \in Nat /\ faults' \in 0..MaxFaults
      BY <2>7, AgentAssumption DEF SessionFails, IInv, RootTypeOK
    <3>2. /\ session' = [session EXCEPT ![r.claim] = "failed"]
          /\ multipart' = multipart /\ artifact' = artifact
      BY <2>7 DEF SessionFails
    <3> QED  BY <3>1, <3>2 DEF IInv, RootTypeOK
  <2>4. CASE CompleteUpload(r)
    BY <2>4 DEF CompleteUpload, IInv, RootTypeOK
  <2>5. CASE RecordArtifact(r)
    BY <1>1, <2>1, <2>5 DEF RecordArtifact, IInv, RootTypeOK
  <2> QED  BY <2>2, <2>3, <2>4, <2>5, <2>6, <2>7
<1>5. RootTypeOK'
  BY <1>3, <1>4
  DEF CheckOpen, SessionReady, SessionFails, CheckFinalize, CompleteUpload, RecordArtifact,
      IInv, RootTypeOK, AgentType
<1>6. JobsFit'
  BY <1>2 DEF JobsFit, IInv, Fits
<1> QED  BY <1>3, <1>5, <1>6 DEF IInv, Fits

-----------------------------------------------------------------------------
(* The agent's steps.                                                       *)

LEMMA SendFits ==
  ASSUME IInv, NEW n \in Nodes, Send(n)
  PROVE  IInv'
<1> USE DEF buildVars, activationVars, claimVars, uploadVars, agentVars, agentOnly
<1> PICK call : call = Call[agent[n].pc]
  OBVIOUS
<1> PICK q : q = [claim |-> agent[n].claim, op |-> call.op, arg |-> call.arg,
                  stage |-> "sent", seen |-> "-", awaited |-> TRUE]
  OBVIOUS
<1>1. /\ agent[n].pc \in Calling /\ ~Awaiting(n) /\ requests' = requests \cup {q}
      /\ agent' = agent /\ job' = job /\ claimStatus' = claimStatus
  BY DEF Send
<1>2. /\ agent[n].claim \in ClaimIds /\ job[agent[n].claim] \in Job
      /\ job[agent[n].claim].node = n
      /\ job[agent[n].claim].phase = "build" <=> agent[n].pc \in BuildPc
  BY <1>1, CallingIs DEF IInv, Fits, AgentsFit, AgentFits
<1>3. /\ call.op \in {"state", "outcome", "open", "finalize"}
      /\ call.arg \in {"building", "uploading", "active", "-"} \cup Terminal
      /\ call.op = "outcome" <=> agent[n].pc \notin BuildPc
      /\ call.op = "outcome" => call.arg \in {"active", "failed"}
      /\ call.op = "state" => call.arg \in {"building", "uploading"} \cup Terminal
  BY <1>1, CallOf
<1>4. /\ q.claim = agent[n].claim /\ q.op = call.op /\ q.arg = call.arg
      /\ q.stage = "sent" /\ q.seen = "-" /\ q.awaited = TRUE
  OBVIOUS
<1>5. q \in Request
  <2>1. call.arg \in BuildStatus \cup ActivationStatus \cup {"-"}
    BY <1>3, WorkingIs DEF BuildStatus, ActivationStatus
  <2> QED  BY <1>2, <1>3, <2>1 DEF Request
<1>6. RequestFits(q)'
  <2>1. job[q.claim].phase = "activation" <=> agent[n].pc \notin BuildPc
    BY <1>2, <1>4 DEF Job, Phase
  <2> QED  BY <1>1, <1>2, <1>3, <1>4, <2>1 DEF RequestFits
<1>7. AwaitedFits(q)'
  BY <1>1, <1>2, <1>4 DEF AwaitedFits
<1>8. \A r \in requests : RequestFits(r)' /\ AwaitedFits(r)'
  BY <1>1 DEF RequestFits, AwaitedFits, CanApply, IInv, Fits, RequestsFit
<1>9. RequestsFit'
  BY <1>1, <1>6, <1>7, <1>8 DEF RequestsFit
<1>10. OneAwaited'
  <2>1. \A r \in requests : r.awaited => job[r.claim].node # n
    BY <1>1 DEF Awaiting
  <2>2. job[q.claim].node = n
    BY <1>2, <1>4
  <2>3. OneAwaited
    BY DEF IInv, Fits
  <2> SUFFICES ASSUME NEW r \in requests', NEW p \in requests', r.awaited, p.awaited,
                      job[r.claim].node = job[p.claim].node
               PROVE  r = p
    BY <1>1 DEF OneAwaited
  <2>4. CASE r \in requests /\ p \in requests
    BY <2>3, <2>4 DEF OneAwaited
  <2>5. CASE r = q \/ p = q
    BY <1>1, <2>1, <2>2, <2>5
  <2> QED  BY <1>1, <2>4, <2>5
<1>11. AgentsFit' /\ JobsFit'
  BY <1>1 DEF AgentsFit, AgentFits, JobsFit, IInv, Fits
<1>12. RootTypeOK'
  <2>1. requests' \subseteq Request
    BY <1>1, <1>5 DEF IInv, RootTypeOK
  <2> QED  BY <2>1 DEF Send, IInv, RootTypeOK
<1> QED  BY <1>9, <1>10, <1>11, <1>12 DEF IInv, Fits

(* An agent that waits for nothing may move within its phase, or be idle.   *)
LEMMA MoveFits ==
  ASSUME IInv, NEW n \in Nodes, ~Awaiting(n), NEW pc \in Pc, agent[n].pc # "idle",
         pc # "idle" => (pc \in BuildPc <=> agent[n].pc \in BuildPc),
         agent' = At(n, pc), requests' = requests, job' = job, claimStatus' = claimStatus
  PROVE  agent' \in AgentType /\ Fits'
<1>1. agent \in AgentType
  BY DEF IInv, RootTypeOK, AgentType
<1>2. agent' \in AgentType
  BY <1>1, MoveTyped
<1>3. /\ agent'[n].pc = pc
      /\ agent'[n].claim = IF pc = "idle" THEN 0 ELSE agent[n].claim
      /\ \A m \in Nodes : m # n => agent'[m] = agent[m]
  BY <1>1 DEF At, AgentType
<1>4. AgentsFit'
  BY <1>3 DEF AgentsFit, AgentFits, IInv, Fits
<1>5. RequestsFit'
  <2> SUFFICES ASSUME NEW r \in requests PROVE RequestFits(r)' /\ AwaitedFits(r)'
    BY DEF RequestsFit
  <2>1. RequestFits(r) /\ AwaitedFits(r)
    BY DEF IInv, Fits, RequestsFit
  <2>2. r.awaited => job[r.claim].node # n /\ job[r.claim].node \in Nodes
    BY <2>1 DEF Awaiting, RequestFits, Job
  <2> QED  BY <1>3, <2>1, <2>2 DEF RequestFits, AwaitedFits, CanApply
<1>6. OneAwaited' /\ JobsFit'
  BY DEF OneAwaited, JobsFit, IInv, Fits
<1> QED  BY <1>2, <1>4, <1>5, <1>6 DEF Fits

LEMMA IdleCall ==
  ASSUME IInv, NEW n \in Nodes, agent[n].pc \notin Calling
  PROVE  ~Awaiting(n)
BY DEF Awaiting, IInv, Fits, RequestsFit, AwaitedFits

LEMMA WorkFits ==
  ASSUME IInv, NEW n \in Nodes,
         UploadParts(n) \/ Install(n) \/ WorkFails(n) \/ AskCancel(n)
  PROVE  IInv'
<1> USE DEF buildVars, activationVars, claimVars, uploadVars, agentOnly
<1> DEFINE a == agent[n]
<1>1. a \in [pc : Pc, claim : ClaimIds \cup {0}] /\ AgentFits(n)
  BY DEF IInv, RootTypeOK, Fits, AgentsFit
<1>2. PICK pc \in Pc :
        /\ agent' = At(n, pc)
        /\ pc # "idle" => (pc \in BuildPc <=> agent[n].pc \in BuildPc)
  <2>1. {"finalize", "catch", "activate", "refuse", "idle", "cancel", "fail"} \subseteq Pc
    BY CallingIs DEF Pc
  <2> QED  BY <2>1 DEF UploadParts, Install, WorkFails, AskCancel, BuildPc
<1>3. ~Awaiting(n) /\ agent[n].pc # "idle"
  BY IdleCall, CallingIs DEF UploadParts, Install, WorkFails, AskCancel
<1>4. requests' = requests /\ job' = job /\ claimStatus' = claimStatus
  BY DEF UploadParts, Install, WorkFails, AskCancel
<1>5. agent' \in AgentType /\ Fits'
  BY <1>2, <1>3, <1>4, MoveFits
<1>6. /\ installed' \subseteq Nodes \X Builds
      /\ multipart' \in [ClaimIds -> {"none", "open", "uploaded", "stored", "aborted"}]
  <2>1. CASE Install(n)
    <3>1. <<n, job[agent[n].claim].build>> \in Nodes \X Builds
      BY <1>1, <2>1 DEF Install, AgentFits, Job
    <3> QED  BY <2>1, <3>1 DEF Install, IInv, RootTypeOK
  <2>2. CASE UploadParts(n)
    BY <2>2 DEF UploadParts, IInv, RootTypeOK
  <2>3. CASE WorkFails(n) \/ AskCancel(n)
    BY <2>3 DEF WorkFails, AskCancel, IInv, RootTypeOK
  <2> QED  BY <2>1, <2>2, <2>3
<1>7. RootTypeOK'
  BY <1>5, <1>6 DEF UploadParts, Install, WorkFails, AskCancel, IInv, RootTypeOK, AgentType
<1> QED  BY <1>5, <1>7 DEF IInv

-----------------------------------------------------------------------------
(* What goes wrong.                                                         *)

LEMMA NetworkErrorFits ==
  ASSUME IInv, NEW r \in requests, NEW arrives \in BOOLEAN, NetworkError(r, arrives)
  PROVE  IInv'
<1> USE DEF buildVars, activationVars, claimVars, uploadVars
<1> DEFINE n == job[r.claim].node
<1>1. r \in Request /\ RequestFits(r) /\ AwaitedFits(r) /\ r.awaited /\ n \in Nodes
  BY DEF NetworkError, IInv, RootTypeOK, Fits, RequestsFit, RequestFits, Job
<1> PICK r2 : r2 = [r EXCEPT !.awaited = FALSE]
  OBVIOUS
<1>2. /\ r2 \in Request /\ r2.claim = r.claim /\ r2.op = r.op /\ r2.arg = r.arg
      /\ r2.seen = r.seen /\ r2.stage = r.stage /\ r2.awaited = FALSE
  BY <1>1 DEF Request
<1>3. /\ requests' \subseteq (requests \ {r}) \cup {r2}
      /\ job' = job /\ claimStatus' = claimStatus
  BY DEF NetworkError
<1>4. OneAwaited'
  <2>1. OneAwaited
    BY DEF IInv, Fits
  <2> QED  BY <1>2, <1>3, <2>1 DEF OneAwaited
<1>5. \A q \in requests' : RequestFits(q)'
  <2>1. RequestFits(r2)'
    BY <1>1, <1>2, <1>3 DEF RequestFits, CanApply
  <2>2. \A q \in requests : RequestFits(q)'
    BY <1>3 DEF RequestFits, CanApply, IInv, Fits, RequestsFit
  <2> QED  BY <1>3, <2>1, <2>2
<1>6. /\ agent' \in AgentType /\ AgentsFit'
      /\ \A m \in Nodes : m # n => agent'[m] = agent[m]
  <2>1. agent \in AgentType /\ AgentsFit
    BY DEF IInv, RootTypeOK, AgentType, Fits
  <2>2. CASE agent' = agent
    BY <1>3, <2>1, <2>2 DEF AgentsFit, AgentFits
  <2>3. CASE agent' = At(n, AfterError[agent[n].pc])
    <3> PICK pc : pc = AfterError[agent[n].pc]
      OBVIOUS
    <3>1. agent[n].pc \in Calling
      BY <1>1 DEF AwaitedFits
    <3>2. pc \in Pc /\ (pc # "idle" => (pc \in BuildPc <=> agent[n].pc \in BuildPc))
      BY <3>1, AfterCall DEF After
    <3>3. agent' \in AgentType
      BY <1>1, <2>1, <2>3, <3>2, MoveTyped
    <3>4. /\ agent'[n].pc = pc
          /\ agent'[n].claim = IF pc = "idle" THEN 0 ELSE agent[n].claim
          /\ \A m \in Nodes : m # n => agent'[m] = agent[m]
      BY <1>1, <2>1, <2>3 DEF At, AgentType
    <3>5. AgentsFit'
      BY <1>3, <2>1, <3>1, <3>2, <3>4, CallingIs DEF AgentsFit, AgentFits
    <3> QED  BY <3>3, <3>4, <3>5
  <2> QED  BY <2>2, <2>3 DEF NetworkError
<1>7. \A q \in requests' : AwaitedFits(q)'
  <2> SUFFICES ASSUME NEW q \in requests', q.awaited
               PROVE  AwaitedFits(q)'
    BY DEF AwaitedFits
  <2>1. q \in requests /\ q # r
    BY <1>2, <1>3
  <2>2. AwaitedFits(q) /\ RequestFits(q)
    BY <2>1 DEF IInv, Fits, RequestsFit
  <2>3. job[q.claim].node # n /\ job[q.claim].node \in Nodes
    BY <1>1, <2>1, <2>2 DEF IInv, Fits, OneAwaited, RequestFits, Job
  <2> QED  BY <1>3, <1>6, <2>2, <2>3 DEF AwaitedFits
<1>8. RootTypeOK'
  <2>1. requests' \subseteq Request
    BY <1>2, <1>3 DEF IInv, RootTypeOK
  <2>2. faults' \in 0..MaxFaults
    BY AgentAssumption DEF NetworkError, IInv, RootTypeOK
  <2> QED  BY <1>6, <2>1, <2>2 DEF NetworkError, IInv, RootTypeOK, AgentType
<1>9. JobsFit'
  BY <1>3 DEF JobsFit, IInv, Fits
<1> QED  BY <1>4, <1>5, <1>6, <1>7, <1>8, <1>9 DEF IInv, Fits, RequestsFit

LEMMA ApiCrashFits ==
  ASSUME IInv, NEW r \in requests, ApiCrash(r)
  PROVE  IInv'
<1> USE DEF buildVars, activationVars, claimVars, uploadVars
<1>1. /\ Reply(r, AfterError) /\ AfterError \in After
      /\ job' = job /\ claimStatus' = claimStatus /\ installed' = installed
  BY DEF ApiCrash, After, Reply
<1>2. /\ agent' \in AgentType /\ requests' \subseteq Request
      /\ AgentsFit' /\ RequestsFit' /\ OneAwaited'
  BY <1>1, ReplyFits
<1>3. faults' \in 0..MaxFaults
  BY AgentAssumption DEF ApiCrash, IInv, RootTypeOK
<1>4. RootTypeOK'
  BY <1>1, <1>2, <1>3 DEF ApiCrash, IInv, RootTypeOK, AgentType
<1>5. JobsFit'
  BY <1>1 DEF JobsFit, IInv, Fits
<1> QED  BY <1>2, <1>4, <1>5 DEF IInv, Fits

LEMMA AgentCrashFits ==
  ASSUME IInv, NEW n \in Nodes, AgentCrash(n)
  PROVE  IInv'
<1> USE DEF buildVars, activationVars, claimVars, uploadVars
<1>1. agent \in AgentType /\ agent' = At(n, "idle") /\ job' = job /\ claimStatus' = claimStatus
  BY DEF AgentCrash, IInv, RootTypeOK, AgentType
<1>2. agent' \in AgentType
  BY <1>1, MoveTyped DEF Pc
<1>3. /\ agent'[n].pc = "idle" /\ agent'[n].claim = 0
      /\ \A m \in Nodes : m # n => agent'[m] = agent[m]
  BY <1>1 DEF At, AgentType
<1>4. AgentsFit'
  BY <1>1, <1>3 DEF AgentsFit, AgentFits, IInv, Fits
(* Every request now on the way is one of before, which n no longer awaits. *)
<1>5. ASSUME NEW q \in requests'
      PROVE  \E r \in requests :
               /\ q \in Request /\ q.claim = r.claim /\ q.op = r.op /\ q.arg = r.arg
               /\ q.seen = r.seen /\ q.stage = r.stage
               /\ q.awaited => job[r.claim].node # n /\ q = r
  <2>1. PICK r \in requests :
          q = IF job[r.claim].node = n THEN [r EXCEPT !.awaited = FALSE] ELSE r
    BY <1>5 DEF AgentCrash
  <2>2. r \in Request
    BY DEF IInv, RootTypeOK
  <2>3. CASE job[r.claim].node = n
    BY <2>1, <2>2, <2>3 DEF Request
  <2>4. CASE job[r.claim].node # n
    BY <2>1, <2>2, <2>4
  <2> QED  BY <2>3, <2>4
<1>6. RequestsFit'
  <2> SUFFICES ASSUME NEW q \in requests' PROVE RequestFits(q)' /\ AwaitedFits(q)'
    BY DEF RequestsFit
  <2>1. PICK r \in requests :
          /\ q \in Request /\ q.claim = r.claim /\ q.op = r.op /\ q.arg = r.arg
          /\ q.seen = r.seen /\ q.stage = r.stage
          /\ q.awaited => job[r.claim].node # n /\ q = r
    BY <1>5
  <2>2. RequestFits(r) /\ AwaitedFits(r)
    BY DEF IInv, Fits, RequestsFit
  <2>3. RequestFits(q)'
    BY <1>1, <2>1, <2>2 DEF RequestFits, CanApply
  <2>4. AwaitedFits(q)'
    <3> SUFFICES ASSUME q.awaited PROVE AwaitedFits(q)'
      BY DEF AwaitedFits
    <3>1. job[r.claim].node \in Nodes
      BY <2>2 DEF RequestFits, Job
    <3> QED  BY <1>1, <1>3, <2>1, <2>2, <3>1 DEF AwaitedFits
  <2> QED  BY <2>3, <2>4
<1>7. OneAwaited'
  <2> SUFFICES ASSUME NEW q \in requests', NEW p \in requests', q.awaited, p.awaited,
                      job[q.claim].node = job[p.claim].node
               PROVE  q = p
    BY <1>1 DEF OneAwaited
  <2>1. q \in requests /\ p \in requests
    BY <1>5
  <2> QED  BY <2>1 DEF OneAwaited, IInv, Fits
<1>8. RootTypeOK'
  <2>1. requests' \subseteq Request
    BY <1>5
  <2>2. faults' \in 0..MaxFaults
    BY AgentAssumption DEF AgentCrash, IInv, RootTypeOK
  <2> QED  BY <1>2, <2>1, <2>2 DEF AgentCrash, IInv, RootTypeOK, AgentType
<1>9. JobsFit'
  BY <1>1 DEF JobsFit, IInv, Fits
<1> QED  BY <1>4, <1>6, <1>7, <1>8, <1>9 DEF IInv, Fits

-----------------------------------------------------------------------------
LEMMA StepFits == IInv /\ [Next]_vars => IInv'
<1> SUFFICES ASSUME IInv, [Next]_vars PROVE IInv'
  OBVIOUS
<1>1. CASE \E b \in Builds : Cancel(b) \/ \E n \in Nodes : Activate(b, n)
  <2>1. Nodes = {} => ~\E b \in Builds : TRUE
    BY AgentAssumption
  <2> QED  BY <1>1, <2>1, ConsoleFits
<1>2. CASE \E n \in Nodes : Poll(n)
  BY <1>2, NextJobFits, ExpireFits DEF Poll
<1>3. CASE \E n \in Nodes : AgentStep(n)
  BY <1>3, SendFits, WorkFits DEF AgentStep
<1>4. CASE \E n \in Nodes : AgentCrash(n)
  BY <1>4, AgentCrashFits
<1>5. CASE \E c \in ClaimIds :
             SweepSessions(c) \/ LeaseLapses(c) \/ RenewalsFail(c) \/ SweepLost(c)
  BY <1>5, ClaimStepFits
<1>6. CASE \E r \in requests : Serve(r) \/ SessionFails(r)
  BY <1>6, StateFits, OutcomeFits, UploadFits DEF Serve
<1>7. CASE \E r \in requests : ApiCrash(r) \/ \E arrives \in BOOLEAN : NetworkError(r, arrives)
  BY <1>7, ApiCrashFits, NetworkErrorFits
<1>8. CASE UNCHANGED vars
  <2>1. RootTypeOK'
    BY <1>8
    DEF IInv, RootTypeOK, vars, buildVars, activationVars, claimVars, uploadVars, agentVars
  <2>2. JobsFit' /\ job' = job /\ agent' = agent /\ requests' = requests
    BY <1>8 DEF IInv, Fits, JobsFit, vars, claimVars, agentVars
  <2> QED  BY <2>1, <2>2, FrameFits DEF IInv
<1> QED  BY <1>1, <1>2, <1>3, <1>4, <1>5, <1>6, <1>7, <1>8 DEF Next

(* Whatever agents, users and the network do, every agent is at a call of   *)
(* the phase of its own claim, waits for at most one request, and a request *)
(* is one its claim's agent could have sent (root-agent/route.ts, index.ts).*)
THEOREM Inductive == Spec => []IInv
BY InitFits, StepFits, PTL DEF Spec

(* Type correctness of the root agents' tables, requests and agents.        *)
THEOREM RootTypes == Spec => []RootTypeOK
BY Inductive, PTL DEF IInv

-----------------------------------------------------------------------------
(* Work in progress has a claim.                                            *)

(* What each step may do to the claims, builds and activations.             *)
LEMMA FrameClaims ==
  ASSUME WorkHasClaim, status' = status, activationStatus' = activationStatus,
         claimStatus' = claimStatus, job' = job
  PROVE  WorkHasClaim'
BY DEF WorkHasClaim, ActiveOn

LEMMA ClaimCreated ==
  ASSUME IInv, NEW n \in Nodes, NEW b \in Builds, NEW phase \in Phase, NEW pc,
         CreateClaim(n, b, phase, pc)
  PROVE  /\ \E c \in ClaimIds : ActiveOn(c, b, phase)'
         /\ \A d \in ClaimIds, e \in Builds, p \in Phase : ActiveOn(d, e, p) => ActiveOn(d, e, p)'
<1>1. PICK c \in ClaimIds :
        /\ claimStatus[c] = "none"
        /\ claimStatus' = [claimStatus EXCEPT ![c] = "active"]
        /\ job' = [job EXCEPT ![c] = [node |-> n, build |-> b, phase |-> phase]]
  BY DEF CreateClaim
<1>2. claimStatus'[c] = "active" /\ job'[c] = [node |-> n, build |-> b, phase |-> phase]
  BY <1>1 DEF IInv, RootTypeOK
<1>3. \A d \in ClaimIds : claimStatus[d] = "active" =>
        claimStatus'[d] = "active" /\ job'[d] = job[d]
  BY <1>1 DEF IInv, RootTypeOK
<1> QED  BY <1>2, <1>3 DEF ActiveOn

LEMMA StepHasClaim == IInv /\ WorkHasClaim /\ [Next]_vars => WorkHasClaim'
<1> SUFFICES ASSUME IInv, WorkHasClaim, [Next]_vars PROVE WorkHasClaim'
  OBVIOUS
<1> USE DEF buildVars, activationVars, claimVars, uploadVars, agentVars
<1> DEFINE Same == /\ status' = status /\ activationStatus' = activationStatus
                   /\ claimStatus' = claimStatus /\ job' = job
<1>1. ASSUME NEW b \in Builds, Cancel(b) PROVE WorkHasClaim'
  <2>1. \A d \in Builds : status'[d] \in Working => status[d] \in Working
    BY <1>1, WorkingIs DEF Cancel, IInv, RootTypeOK
  <2> QED  BY <1>1, <2>1 DEF Cancel, WorkHasClaim, ActiveOn
<1>2. ASSUME NEW b \in Builds, NEW n \in Nodes, Activate(b, n) PROVE WorkHasClaim'
  <2>1. \A d \in Builds : activationStatus'[d] = "activating" => activationStatus[d] = "activating"
    BY <1>2 DEF Activate, IInv, RootTypeOK
  <2> QED  BY <1>2, <2>1 DEF Activate, WorkHasClaim, ActiveOn
<1>3. ASSUME NEW n \in Nodes, NEW b \in Builds, TakeBuild(n, b) PROVE WorkHasClaim'
  <2>1. /\ \E c \in ClaimIds : ActiveOn(c, b, "build")'
        /\ \A d \in ClaimIds, e \in Builds, p \in Phase : ActiveOn(d, e, p) => ActiveOn(d, e, p)'
    BY <1>3, ClaimCreated DEF TakeBuild, Phase
  <2>2. \A d \in Builds : d # b => status'[d] = status[d]
    BY <1>3 DEF TakeBuild, IInv, RootTypeOK
  <2>3. activationStatus' = activationStatus
    BY <1>3 DEF TakeBuild
  <2> QED  BY <2>1, <2>2, <2>3 DEF WorkHasClaim, Phase
<1>4. ASSUME NEW n \in Nodes, NEW b \in Builds, TakeActivation(n, b) PROVE WorkHasClaim'
  <2>1. /\ \E c \in ClaimIds : ActiveOn(c, b, "activation")'
        /\ \A d \in ClaimIds, e \in Builds, p \in Phase : ActiveOn(d, e, p) => ActiveOn(d, e, p)'
    BY <1>4, ClaimCreated DEF TakeActivation, Phase
  <2>2. \A d \in Builds : d # b => activationStatus'[d] = activationStatus[d]
    BY <1>4 DEF TakeActivation, IInv, RootTypeOK
  <2>3. status' = status
    BY <1>4 DEF TakeActivation
  <2> QED  BY <2>1, <2>2, <2>3 DEF WorkHasClaim, Phase
<1>5. ASSUME NEW n \in Nodes, NEW c \in ClaimIds, ExpireClaim(n, c) PROVE WorkHasClaim'
  <2> DEFINE b == job[c].build
  <2>1. /\ job' = job /\ b \in Builds
        /\ \A d \in ClaimIds : d # c => claimStatus'[d] = claimStatus[d]
    BY <1>5 DEF ExpireClaim, IInv, RootTypeOK, Job
  <2>2. CASE job[c].phase = "build" /\ activationStatus' = activationStatus
    <3>1. /\ status'[b] \notin Working
          /\ \A d \in Builds : d # b => status'[d] = status[d]
      <4>1. status' = [status EXCEPT ![b] = AfterExpiry(b)]
        BY <1>5, <2>2 DEF ExpireClaim
      <4> QED  BY <2>1, <4>1, WorkingIs DEF AfterExpiry, IInv, RootTypeOK
    <3> QED  BY <2>1, <2>2, <3>1 DEF WorkHasClaim, ActiveOn
  <2>3. CASE job[c].phase = "activation" /\ status' = status
    <3>1. /\ activationStatus'[b] # "activating"
          /\ \A d \in Builds : d # b => activationStatus'[d] = activationStatus[d]
      BY <1>5, <2>1, <2>3 DEF ExpireClaim, IInv, RootTypeOK
    <3> QED  BY <2>1, <2>3, <3>1 DEF WorkHasClaim, ActiveOn
  <2> QED  BY <1>5, <2>2, <2>3 DEF ExpireClaim
<1>6. ASSUME NEW r \in requests, CommitState(r) PROVE WorkHasClaim'
  <2> DEFINE b == job[r.claim].build
  <2>1. /\ RequestFits(r) /\ b \in Builds /\ r.claim \in ClaimIds
        /\ activationStatus' = activationStatus /\ job' = job
    BY <1>6 DEF CommitState, IInv, RootTypeOK, Request, Fits, RequestsFit, RequestFits, Job
  <2>2. CASE status' = status /\ claimStatus' = claimStatus
    BY <2>1, <2>2, FrameClaims
  <2>3. CASE status[b] = r.seen /\ status' = [status EXCEPT ![b] = r.arg]
    <3>1. job[r.claim].phase # "activation" /\ r.seen \notin Terminal /\ CanApply(r.seen, r.arg)
      BY <1>6, <2>1 DEF CommitState, RequestFits
    <3>2. \A d \in Builds : d # b => status'[d] = status[d]
      BY <2>3 DEF IInv, RootTypeOK
    <3>3. status'[b] = r.arg
      BY <2>1, <2>3 DEF IInv, RootTypeOK
    <3>4. CASE r.arg \in Terminal
      <4>1. \A d \in ClaimIds : d # r.claim => claimStatus'[d] = claimStatus[d]
        BY <1>6, <2>3, <3>4 DEF CommitState, CompleteClaim, IInv, RootTypeOK
      <4>2. status'[b] \notin Working
        BY <3>3, <3>4, WorkingIs DEF Terminal
      <4> QED  BY <2>1, <3>1, <3>2, <4>1, <4>2 DEF WorkHasClaim, ActiveOn
    <3>5. CASE r.arg \notin Terminal
      <4>1. claimStatus' = claimStatus
        BY <1>6, <2>3, <3>5 DEF CommitState
      <4>2. status'[b] \in Working => status[b] \in Working
        BY <2>3, <3>1, <3>3, <3>5 DEF CanApply
      <4> QED  BY <2>1, <3>2, <4>1, <4>2 DEF WorkHasClaim, ActiveOn
    <3> QED  BY <3>4, <3>5
  <2> QED  BY <1>6, <2>2, <2>3 DEF CommitState
<1>7. ASSUME NEW r \in requests, CommitOutcome(r) PROVE WorkHasClaim'
  <2> DEFINE b == job[r.claim].build
  <2>1. /\ RequestFits(r) /\ b \in Builds /\ r.claim \in ClaimIds
        /\ status' = status /\ job' = job /\ job[r.claim].phase = "activation"
        /\ r.arg \in {"active", "failed"}
    BY <1>7 DEF CommitOutcome, IInv, RootTypeOK, Request, Fits, RequestsFit, RequestFits, Job
  <2>2. CASE activationStatus' = activationStatus /\ claimStatus' = claimStatus
    BY <2>1, <2>2, FrameClaims
  <2>3. CASE activationStatus' = [activationStatus EXCEPT ![b] = r.arg] /\ CompleteClaim(r.claim)
    <3>1. /\ activationStatus'[b] # "activating"
          /\ \A d \in Builds : d # b => activationStatus'[d] = activationStatus[d]
      BY <2>1, <2>3 DEF IInv, RootTypeOK
    <3>2. \A d \in ClaimIds : d # r.claim => claimStatus'[d] = claimStatus[d]
      BY <2>3 DEF CompleteClaim, IInv, RootTypeOK
    <3> QED  BY <2>1, <3>1, <3>2 DEF WorkHasClaim, ActiveOn
  <2> QED  BY <1>7, <2>2, <2>3 DEF CommitOutcome
<1>8. CASE Same
  BY <1>8, FrameClaims
<1>9. ASSUME NEW n \in Nodes, AgentStep(n) \/ AgentCrash(n) PROVE Same
  BY <1>9 DEF AgentStep, Send, UploadParts, Install, WorkFails, AskCancel, AgentCrash, agentOnly
<1>10. ASSUME NEW c \in ClaimIds,
              SweepSessions(c) \/ LeaseLapses(c) \/ RenewalsFail(c) \/ SweepLost(c)
       PROVE Same
  BY <1>10 DEF SweepSessions, LeaseLapses, RenewalsFail, SweepLost
<1>11. ASSUME NEW r \in requests, Serve(r), ~CommitState(r), ~CommitOutcome(r) PROVE Same
  BY <1>11 DEF Serve, CheckState, CheckOutcome, CheckOpen, SessionReady, CheckFinalize,
               CompleteUpload, RecordArtifact
<1>12. ASSUME NEW r \in requests, NEW arrives \in BOOLEAN,
              SessionFails(r) \/ ApiCrash(r) \/ NetworkError(r, arrives)
       PROVE Same
  BY <1>12 DEF SessionFails, ApiCrash, NetworkError
<1>13. CASE UNCHANGED vars
  BY <1>13, FrameClaims DEF vars
<1>14. ASSUME NEW n \in Nodes, Poll(n) PROVE WorkHasClaim'
  BY <1>3, <1>4, <1>5, <1>14
  DEF Poll, NextRoutingBuild, NextRoutingActivation, NextBasemapBuild, NextBasemapActivation
<1> HIDE DEF Same
<1> QED
  BY <1>1, <1>2, <1>6, <1>7, <1>8, <1>9, <1>10, <1>11, <1>12, <1>13, <1>14 DEF Next, Serve

(* However late requests of earlier claims arrive, a build in progress or   *)
(* an activation under way is covered by an active claim (expireAgentClaims *)
(* and the state transactions of root-agent/route.ts).                      *)
THEOREM WorkCovered == Spec => []WorkHasClaim
<1>1. Init => WorkHasClaim
  BY WorkingIs DEF Init, WorkHasClaim
<1> QED  BY <1>1, Inductive, StepHasClaim, PTL DEF Spec

-----------------------------------------------------------------------------
(* What has ended stays as it is.                                           *)

LEMMA StepIsFinal ==
  ASSUME IInv, [Next]_vars
  PROVE  \A b \in Builds : status[b] \in Terminal => status'[b] = status[b]
<1> USE DEF buildVars, activationVars, claimVars, uploadVars, agentVars
<1> SUFFICES ASSUME NEW e \in Builds, status[e] \in Terminal PROVE status'[e] = status[e]
  OBVIOUS
<1>1. ASSUME NEW b \in Builds, Cancel(b) PROVE status'[e] = status[e]
  BY <1>1, WorkingIs DEF Cancel, IInv, RootTypeOK, Terminal
<1>2. ASSUME NEW n \in Nodes, NEW b \in Builds, TakeBuild(n, b) PROVE status'[e] = status[e]
  BY <1>2 DEF TakeBuild, IInv, RootTypeOK, Terminal
<1>3. ASSUME NEW n \in Nodes, NEW c \in ClaimIds, ExpireClaim(n, c) PROVE status'[e] = status[e]
  <2>1. CASE status' = status
    BY <2>1
  <2>2. CASE status' = [status EXCEPT ![job[c].build] = AfterExpiry(job[c].build)]
    <3>1. AfterExpiry(e) = status[e]
      BY WorkingIs DEF AfterExpiry, Terminal
    <3> QED  BY <2>2, <3>1 DEF IInv, RootTypeOK
  <2> QED  BY <1>3, <2>1, <2>2 DEF ExpireClaim
<1>4. ASSUME NEW r \in requests, CommitState(r) PROVE status'[e] = status[e]
  <2>1. RequestFits(r)
    BY DEF IInv, Fits, RequestsFit
  <2> QED  BY <1>4, <2>1 DEF CommitState, RequestFits, IInv, RootTypeOK
<1> DEFINE Same == status' = status
<1>5. ASSUME NEW b \in Builds, NEW n \in Nodes, Activate(b, n) \/ TakeActivation(n, b) PROVE Same
  BY <1>5 DEF Activate, TakeActivation
<1>6. ASSUME NEW n \in Nodes, AgentStep(n) \/ AgentCrash(n) PROVE Same
  BY <1>6 DEF AgentStep, Send, UploadParts, Install, WorkFails, AskCancel, AgentCrash, agentOnly
<1>7. ASSUME NEW c \in ClaimIds,
              SweepSessions(c) \/ LeaseLapses(c) \/ RenewalsFail(c) \/ SweepLost(c)
      PROVE Same
  BY <1>7 DEF SweepSessions, LeaseLapses, RenewalsFail, SweepLost
<1>8. ASSUME NEW r \in requests, Serve(r), ~CommitState(r) PROVE Same
  BY <1>8 DEF Serve, CheckState, CheckOutcome, CommitOutcome, CheckOpen, SessionReady,
              CheckFinalize, CompleteUpload, RecordArtifact
<1>9. ASSUME NEW r \in requests, NEW arrives \in BOOLEAN,
             SessionFails(r) \/ ApiCrash(r) \/ NetworkError(r, arrives)
      PROVE Same
  BY <1>9 DEF SessionFails, ApiCrash, NetworkError
<1>10. CASE UNCHANGED vars
  BY <1>10 DEF vars
<1>11. ASSUME NEW n \in Nodes, Poll(n) PROVE status'[e] = status[e]
  BY <1>2, <1>3, <1>5, <1>11
  DEF Poll, NextRoutingBuild, NextRoutingActivation, NextBasemapBuild, NextBasemapActivation
<1> QED  BY <1>1, <1>4, <1>5, <1>6, <1>7, <1>8, <1>9, <1>10, <1>11 DEF Next

(* "Terminal states are monotonic" (protocol.test.ts): no interleaving of   *)
(* requests, expired claims and cancellations reopens or re-ends a build.   *)
THEOREM EndIsFinal == Spec => TerminalIsFinal
<1>1. IInv /\ [Next]_vars =>
        [\A b \in Builds : status[b] \in Terminal => status'[b] = status[b]]_vars
  BY StepIsFinal
<1> QED  BY <1>1, Inductive, PTL DEF Spec, TerminalIsFinal

LEMMA StepKeepsOutcome ==
  ASSUME IInv, [Next]_vars
  PROVE  \A b \in Builds : activationStatus[b] \in {"active", "failed"} =>
           activationStatus'[b] \in {activationStatus[b], "activation_requested"}
<1> USE DEF buildVars, activationVars, claimVars, uploadVars, agentVars
<1> DEFINE Kept(e) == activationStatus'[e] \in {activationStatus[e], "activation_requested"}
<1> SUFFICES ASSUME NEW e \in Builds, activationStatus[e] \in {"active", "failed"} PROVE Kept(e)
  OBVIOUS
<1>1. ASSUME NEW b \in Builds, NEW n \in Nodes, Activate(b, n) PROVE Kept(e)
  BY <1>1 DEF Activate, IInv, RootTypeOK
<1>2. ASSUME NEW n \in Nodes, NEW b \in Builds, TakeActivation(n, b) PROVE Kept(e)
  BY <1>2 DEF TakeActivation, IInv, RootTypeOK
<1>3. ASSUME NEW n \in Nodes, NEW c \in ClaimIds, ExpireClaim(n, c) PROVE Kept(e)
  BY <1>3 DEF ExpireClaim, IInv, RootTypeOK
<1>4. ASSUME NEW r \in requests, CommitOutcome(r) PROVE Kept(e)
  BY <1>4 DEF CommitOutcome, IInv, RootTypeOK
<1> DEFINE Same == activationStatus' = activationStatus
<1>5. ASSUME NEW b \in Builds, NEW n \in Nodes, TakeBuild(n, b) PROVE Same
  BY <1>5 DEF TakeBuild
<1>6. ASSUME NEW n \in Nodes, AgentStep(n) \/ AgentCrash(n) PROVE Same
  BY <1>6 DEF AgentStep, Send, UploadParts, Install, WorkFails, AskCancel, AgentCrash, agentOnly
<1>7. ASSUME NEW c \in ClaimIds,
              SweepSessions(c) \/ LeaseLapses(c) \/ RenewalsFail(c) \/ SweepLost(c)
      PROVE Same
  BY <1>7 DEF SweepSessions, LeaseLapses, RenewalsFail, SweepLost
<1>8. ASSUME NEW r \in requests, Serve(r), ~CommitOutcome(r) PROVE Same
  BY <1>8 DEF Serve, CheckState, CommitState, CheckOutcome, CheckOpen, SessionReady,
              CheckFinalize, CompleteUpload, RecordArtifact
<1>9. ASSUME NEW r \in requests, NEW arrives \in BOOLEAN,
             SessionFails(r) \/ ApiCrash(r) \/ NetworkError(r, arrives)
      PROVE Same
  BY <1>9 DEF SessionFails, ApiCrash, NetworkError
<1>10. ASSUME NEW b \in Builds, Cancel(b) PROVE Same
  BY <1>10 DEF Cancel
<1>11. CASE UNCHANGED vars
  BY <1>11 DEF vars
<1>12. ASSUME NEW n \in Nodes, Poll(n) PROVE Kept(e)
  BY <1>2, <1>3, <1>5, <1>12
  DEF Poll, NextRoutingBuild, NextRoutingActivation, NextBasemapBuild, NextBasemapActivation
<1> QED  BY <1>1, <1>4, <1>6, <1>7, <1>8, <1>9, <1>10, <1>11, <1>12 DEF Next

(* "First-writer-wins" (protocol.test.ts): the outcome of an activation     *)
(* stands until it is asked for again, whatever posts are still on the way. *)
THEOREM OutcomeIsKept == Spec => OutcomeStands
<1>1. IInv /\ [Next]_vars =>
        [\A b \in Builds : activationStatus[b] \in {"active", "failed"} =>
           activationStatus'[b] \in {activationStatus[b], "activation_requested"}]_vars
  BY StepKeepsOutcome
<1> QED  BY <1>1, Inductive, PTL DEF Spec, OutcomeStands

-----------------------------------------------------------------------------
(* Artifacts are stored and installations are real.                         *)

(* An agent reports an activation, or a request for one is on the way, only *)
(* where the build was installed.                                           *)
InstallsFit ==
  /\ \A n \in Nodes : agent[n].pc = "activate" => <<n, job[agent[n].claim].build>> \in installed
  /\ \A r \in requests : r.op = "outcome" /\ r.arg = "active" =>
       <<job[r.claim].node, job[r.claim].build>> \in installed

(* A success is reported only of a build that has an artifact.              *)
SuccessFits ==
  /\ \A n \in Nodes : agent[n].pc = "succeed" => artifact[job[agent[n].claim].build] # 0
  /\ \A r \in requests : r.op = "state" /\ r.arg = "succeeded" =>
       artifact[job[r.claim].build] # 0

(* One request at most opens the upload of a claim, which none has opened.  *)
Opening(r) == r.op = "open" /\ r.stage = "checked"
OpeningFits ==
  \A r \in requests : Opening(r) =>
    /\ session[r.claim] # "none" /\ multipart[r.claim] = "none"
    /\ \A q \in requests : Opening(q) /\ q.claim = r.claim => q = r

SessionsFit ==
  \A c \in ClaimIds :
    /\ session[c] = "none" => multipart[c] = "none"
    /\ session[c] # "none" => job[c] \in Job
    /\ session[c] = "completed" => artifact[job[c].build] # 0

StoredFits ==
  \A r \in requests : r.op = "finalize" /\ r.stage = "stored" => multipart[r.claim] = "stored"

UploadsFit ==
  /\ InstallsFit /\ SuccessFits /\ OpeningFits /\ SessionsFit /\ StoredFits
  /\ InstallationsAreReal /\ ArtifactIsStored

LEMMA NeverSucceeds ==
  ASSUME NEW pc \in Calling PROVE AfterError[pc] # "succeed"
BY CallingIs DEF AfterError

(* The actions that concern neither uploads nor installations.              *)
LEMMA OutsideUploads ==
  ASSUME [Next]_vars
  PROVE  \/ \E r \in requests : Serve(r) \/ SessionFails(r)
         \/ \E c \in ClaimIds : SweepSessions(c)
         \/ \E n \in Nodes : UploadParts(n) \/ Install(n)

         \/ UNCHANGED <<artifact, installations, session, multipart, installed>>
<1> USE DEF buildVars, activationVars, claimVars, uploadVars, agentVars
<1>1. ASSUME NEW b \in Builds, NEW n \in Nodes, Cancel(b) \/ Activate(b, n)
      PROVE  UNCHANGED <<artifact, installations, session, multipart, installed>>
  BY <1>1 DEF Cancel, Activate
<1>2. ASSUME NEW n \in Nodes, Poll(n)
      PROVE  UNCHANGED <<artifact, installations, session, multipart, installed>>
  BY <1>2 DEF Poll, NextRoutingBuild, NextRoutingActivation, NextBasemapBuild,
              NextBasemapActivation, TakeBuild, TakeActivation, ExpireClaim
<1>3. ASSUME NEW n \in Nodes, Send(n) \/ WorkFails(n) \/ AskCancel(n) \/ AgentCrash(n)
      PROVE  UNCHANGED <<artifact, installations, session, multipart, installed>>
  BY <1>3 DEF Send, WorkFails, AskCancel, AgentCrash, agentOnly
<1>4. ASSUME NEW c \in ClaimIds, LeaseLapses(c) \/ RenewalsFail(c) \/ SweepLost(c)
      PROVE  UNCHANGED <<artifact, installations, session, multipart, installed>>
  BY <1>4 DEF LeaseLapses, RenewalsFail, SweepLost
<1>5. ASSUME NEW r \in requests, NEW arrives \in BOOLEAN, ApiCrash(r) \/ NetworkError(r, arrives)
      PROVE  UNCHANGED <<artifact, installations, session, multipart, installed>>
  BY <1>5 DEF ApiCrash, NetworkError, Reply
<1>6. CASE UNCHANGED vars
  BY <1>6 DEF vars
<1>7. ASSUME NEW b \in Builds, Cancel(b)
      PROVE  UNCHANGED <<artifact, installations, session, multipart, installed>>
  BY <1>7 DEF Cancel
<1> QED  BY <1>1, <1>2, <1>3, <1>4, <1>5, <1>6, <1>7 DEF Next, AgentStep

(* A claim's job is never changed.                                          *)
LEMMA JobsStay ==
  ASSUME IInv, [Next]_vars, NEW c \in ClaimIds, job[c] \in Job
  PROVE  job'[c] = job[c]
<1> USE DEF buildVars, activationVars, claimVars, uploadVars, agentVars
<1>1. ASSUME NEW n \in Nodes, NEW b \in Builds, NEW phase \in Phase, NEW pc,
             CreateClaim(n, b, phase, pc)
      PROVE  job'[c] = job[c]
  <2>1. claimStatus[c] # "none"
    BY AgentAssumption DEF IInv, Fits, JobsFit, Job, Phase
  <2> QED  BY <1>1, <2>1 DEF CreateClaim, IInv, RootTypeOK
<1>2. ASSUME NEW n \in Nodes, Poll(n)
      PROVE  job'[c] = job[c]
  BY <1>1, <1>2
  DEF Poll, NextRoutingBuild, NextRoutingActivation, NextBasemapBuild, NextBasemapActivation,
      TakeBuild, TakeActivation, ExpireClaim, Phase
<1>3. CASE job' = job
  BY <1>3
<1>4. ASSUME NEW n \in Nodes, AgentStep(n) \/ AgentCrash(n)
      PROVE  job' = job
  BY <1>4 DEF AgentStep, Send, UploadParts, Install, WorkFails, AskCancel, AgentCrash, agentOnly
<1>5. ASSUME NEW d \in ClaimIds,
             SweepSessions(d) \/ LeaseLapses(d) \/ RenewalsFail(d) \/ SweepLost(d)
      PROVE  job' = job
  BY <1>5 DEF SweepSessions, LeaseLapses, RenewalsFail, SweepLost
<1>6. ASSUME NEW r \in requests, Serve(r)
      PROVE  job' = job
  BY <1>6 DEF Serve, CheckState, CommitState, CheckOutcome, CommitOutcome, CheckOpen,
              SessionReady, CheckFinalize, CompleteUpload, RecordArtifact
<1>7. ASSUME NEW r \in requests, NEW arrives \in BOOLEAN,
             SessionFails(r) \/ ApiCrash(r) \/ NetworkError(r, arrives)
      PROVE  job' = job
  BY <1>7 DEF SessionFails, ApiCrash, NetworkError
<1>8. ASSUME NEW b \in Builds, Cancel(b) \/ \E n \in Nodes : Activate(b, n)
      PROVE  job' = job
  BY <1>8 DEF Cancel, Activate
<1>9. CASE UNCHANGED vars
  BY <1>9 DEF vars
<1> QED  BY <1>2, <1>3, <1>4, <1>5, <1>6, <1>7, <1>8, <1>9 DEF Next

(* What a request in service refers to.                                     *)
LEMMA RequestIs ==
  ASSUME IInv, NEW r \in requests
  PROVE  /\ r \in Request /\ r.claim \in ClaimIds /\ job[r.claim] \in Job
         /\ job[r.claim].build \in Builds /\ job[r.claim].node \in Nodes
BY DEF IInv, RootTypeOK, Fits, RequestsFit, RequestFits, Request, Job

(* A build's artifact is the first stored upload that is recorded for it.   *)
LEMMA ArtifactChange ==
  ASSUME IInv, StoredFits, [Next]_vars, NEW b \in Builds
  PROVE  \/ artifact'[b] = artifact[b]
         \/ artifact[b] = 0 /\ artifact'[b] \in ClaimIds /\ multipart[artifact'[b]] = "stored"
<1>1. ASSUME NEW r \in requests, RecordArtifact(r)
      PROVE  \/ artifact'[b] = artifact[b]
             \/ artifact[b] = 0 /\ artifact'[b] \in ClaimIds /\ multipart[artifact'[b]] = "stored"
  <2>1. multipart[r.claim] = "stored" /\ r.claim \in ClaimIds
    BY <1>1, RequestIs DEF StoredFits, RecordArtifact
  <2> QED  BY <1>1, <2>1 DEF RecordArtifact, IInv, RootTypeOK
<1>2. ASSUME NEW r \in requests, Serve(r) \/ SessionFails(r), ~RecordArtifact(r)
      PROVE  artifact' = artifact
  BY <1>2 DEF Serve, CheckState, CommitState, CheckOutcome, CommitOutcome, CheckOpen,
              SessionReady, SessionFails, CheckFinalize, CompleteUpload, buildVars
<1>3. ASSUME NEW c \in ClaimIds, SweepSessions(c)
      PROVE  artifact' = artifact
  BY <1>3 DEF SweepSessions, buildVars
<1>4. ASSUME NEW n \in Nodes, UploadParts(n) \/ Install(n)
      PROVE  artifact' = artifact
  BY <1>4 DEF UploadParts, Install, agentOnly, buildVars
<1> QED  BY <1>1, <1>2, <1>3, <1>4, OutsideUploads

(* An upload is left alone unless it is open, or is being opened.           *)
LEMMA UploadChange ==
  ASSUME IInv, [Next]_vars, NEW c \in ClaimIds
  PROVE  \/ multipart'[c] = multipart[c]
         \/ multipart[c] \in {"open", "uploaded"}
         \/ \E r \in requests : SessionReady(r) /\ r.claim = c
<1> DEFINE Goal == \/ multipart'[c] = multipart[c]
                   \/ multipart[c] \in {"open", "uploaded"}
                   \/ \E r \in requests : SessionReady(r) /\ r.claim = c
<1>1. ASSUME NEW r \in requests, CompleteUpload(r) \/ SessionReady(r)
      PROVE  Goal
  BY <1>1 DEF CompleteUpload, SessionReady, IInv, RootTypeOK
<1>2. ASSUME NEW r \in requests, Serve(r) \/ SessionFails(r), ~CompleteUpload(r), ~SessionReady(r)
      PROVE  multipart' = multipart
  BY <1>2 DEF Serve, CheckState, CommitState, CheckOutcome, CommitOutcome, CheckOpen,
              SessionFails, CheckFinalize, RecordArtifact, uploadVars
<1>3. ASSUME NEW d \in ClaimIds, SweepSessions(d)
      PROVE  Goal
  BY <1>3 DEF SweepSessions, IInv, RootTypeOK
<1>4. ASSUME NEW n \in Nodes, UploadParts(n) \/ Install(n)
      PROVE  Goal
  BY <1>4 DEF UploadParts, Install, IInv, RootTypeOK
<1> QED  BY <1>1, <1>2, <1>3, <1>4, OutsideUploads

(* A session belongs to a job, and completes with an artifact.              *)
LEMMA SessionChange ==
  ASSUME IInv, SessionsFit, [Next]_vars, NEW c \in ClaimIds
  PROVE  \/ session'[c] = session[c]
         \/ /\ job[c] \in Job /\ session'[c] # "none"
            /\ session'[c] = "completed" => artifact'[job[c].build] # 0
<1> DEFINE Goal == \/ session'[c] = session[c]
                   \/ /\ job[c] \in Job /\ session'[c] # "none"
                      /\ session'[c] = "completed" => artifact'[job[c].build] # 0
<1>1. ASSUME NEW r \in requests,
             CheckOpen(r) \/ SessionReady(r) \/ SessionFails(r) \/ CheckFinalize(r)
      PROVE  Goal
  BY <1>1, RequestIs
  DEF CheckOpen, SessionReady, SessionFails, CheckFinalize, IInv, RootTypeOK
<1>2. ASSUME NEW r \in requests, RecordArtifact(r)
      PROVE  Goal
  <2>1. artifact'[job[r.claim].build] # 0
    BY <1>2, RequestIs DEF RecordArtifact, IInv, RootTypeOK, ClaimIds
  <2> QED  BY <1>2, <2>1, RequestIs DEF RecordArtifact, IInv, RootTypeOK
<1>3. ASSUME NEW r \in requests, Serve(r), ~CheckOpen(r), ~SessionReady(r), ~CheckFinalize(r),
             ~RecordArtifact(r)
      PROVE  session' = session
  BY <1>3 DEF Serve, CheckState, CommitState, CheckOutcome, CommitOutcome, CompleteUpload,
              uploadVars
<1>4. ASSUME NEW d \in ClaimIds, SweepSessions(d)
      PROVE  Goal
  BY <1>4 DEF SweepSessions, SessionsFit, IInv, RootTypeOK
<1>5. ASSUME NEW n \in Nodes, UploadParts(n) \/ Install(n)
      PROVE  session' = session
  BY <1>5 DEF UploadParts, Install, agentOnly
<1> QED  BY <1>1, <1>2, <1>3, <1>4, <1>5, OutsideUploads

(* Installations are recorded of what agents report.                        *)
LEMMA InstallationsChange ==
  ASSUME [Next]_vars, NEW i \in installations', i \notin installations
  PROVE  \E r \in requests : /\ r.op = "outcome" /\ r.arg = "active"
                             /\ i = <<job[r.claim].node, job[r.claim].build>>
<1>1. ASSUME NEW r \in requests, CommitOutcome(r)
      PROVE  /\ r.op = "outcome" /\ r.arg = "active"
             /\ i = <<job[r.claim].node, job[r.claim].build>>
  BY <1>1 DEF CommitOutcome
<1>2. ASSUME NEW r \in requests, Serve(r) \/ SessionFails(r), ~CommitOutcome(r)
      PROVE  installations' = installations
  BY <1>2 DEF Serve, CheckState, CommitState, CheckOutcome, CheckOpen, SessionReady,
              SessionFails, CheckFinalize, CompleteUpload, RecordArtifact, activationVars
<1>3. ASSUME NEW c \in ClaimIds, SweepSessions(c)
      PROVE  installations' = installations
  BY <1>3 DEF SweepSessions, activationVars
<1>4. ASSUME NEW n \in Nodes, UploadParts(n) \/ Install(n)
      PROVE  installations' = installations
  BY <1>4 DEF UploadParts, Install, agentOnly, activationVars
<1> QED  BY <1>1, <1>2, <1>3, <1>4, OutsideUploads

LEMMA InstalledGrows ==
  ASSUME [Next]_vars
  PROVE  installed \subseteq installed'
<1>1. ASSUME NEW n \in Nodes, UploadParts(n) \/ Install(n)
      PROVE  installed \subseteq installed'
  BY <1>1 DEF UploadParts, Install
<1>2. ASSUME NEW r \in requests, Serve(r) \/ SessionFails(r)
      PROVE  installed' = installed
  BY <1>2 DEF Serve, CheckState, CommitState, CheckOutcome, CommitOutcome, CheckOpen,
              SessionReady, SessionFails, CheckFinalize, CompleteUpload, RecordArtifact,
              Reply, Proceed, agentVars
<1>3. ASSUME NEW c \in ClaimIds, SweepSessions(c)
      PROVE  installed' = installed
  BY <1>3 DEF SweepSessions, agentVars
<1> QED  BY <1>1, <1>2, <1>3, OutsideUploads

(* An agent arrives at its report of an activation by installing it, and at *)
(* its report of a success by an answer to its finalization.                *)
AgentMoves(n) ==
  \/ agent'[n] = agent[n]
  \/ agent'[n].pc \notin {"activate", "succeed"}
  \/ Install(n)
  \/ /\ agent'[n].pc = "succeed" /\ agent'[n].claim \in ClaimIds
     /\ job[agent'[n].claim] \in Job /\ artifact'[job[agent'[n].claim].build] # 0

LEMMA AgentGoes ==
  ASSUME IInv, NEW m \in Nodes, NEW n \in Nodes, NEW pc, agent' = At(m, pc),
         pc \notin {"activate", "succeed"}
  PROVE  AgentMoves(n)
BY DEF AgentMoves, At, IInv, RootTypeOK

(* What an answer leads to.                                                 *)
LEMMA ReplyMoves ==
  ASSUME IInv, NEW r \in requests, NEW after \in After, Reply(r, after), NEW n \in Nodes,
         r.op = "finalize" /\ after = AfterAnswer => artifact'[job[r.claim].build] # 0
  PROVE  AgentMoves(n)
<1> DEFINE m == job[r.claim].node
           pc == after[agent[m].pc]
<1>1. CASE ~r.awaited \/ n # m
  BY <1>1 DEF Reply, At, AgentMoves, IInv, RootTypeOK
<1>2. CASE r.awaited /\ n = m
  <2>1. /\ agent[n].claim = r.claim /\ agent[n].pc \in Calling /\ r.op = Call[agent[n].pc].op
        /\ r.claim \in ClaimIds /\ job[r.claim] \in Job
    BY <1>2, RequestIs DEF AwaitedFits, IInv, Fits, RequestsFit
  <2>2. /\ agent'[n].pc = pc
        /\ agent'[n].claim = IF pc = "idle" THEN 0 ELSE agent[n].claim
    BY <1>2 DEF Reply, At, IInv, RootTypeOK
  <2>3. pc # "activate" /\ (pc = "succeed" => agent[n].pc = "finalize")
    BY <1>2, <2>1, AfterCall
  <2>4. pc = "succeed" => after = AfterAnswer /\ r.op = "finalize"
    BY <1>2, <2>1, <2>3, NeverSucceeds, CallOf DEF After
  <2> QED  BY <2>1, <2>2, <2>3, <2>4 DEF AgentMoves
<1> QED  BY <1>1, <1>2

LEMMA AgentChange ==
  ASSUME IInv, SessionsFit, [Next]_vars, NEW n \in Nodes
  PROVE  AgentMoves(n)
<1> USE DEF buildVars, activationVars, claimVars, uploadVars, agentVars
<1>1. AfterAnswer \in After /\ AfterError \in After
  BY DEF After
<1>2. ASSUME agent' = agent PROVE AgentMoves(n)
  BY <1>2 DEF AgentMoves
<1>3. ASSUME NEW m \in Nodes, Poll(m) PROVE AgentMoves(n)
  <2>1. ASSUME NEW b \in Builds, NEW phase, NEW pc \in {"prepare", "install"},
               CreateClaim(m, b, phase, pc)
        PROVE  AgentMoves(n)
    BY <2>1 DEF CreateClaim, AgentMoves, IInv, RootTypeOK
  <2> QED
    BY <1>2, <1>3, <2>1
    DEF Poll, NextRoutingBuild, NextRoutingActivation, NextBasemapBuild, NextBasemapActivation,
        TakeBuild, TakeActivation, ExpireClaim
<1>4. ASSUME NEW m \in Nodes, AgentStep(m) \/ AgentCrash(m) PROVE AgentMoves(n)
  <2>1. CASE Install(m)
    <3>1. CASE n = m
      BY <2>1, <3>1 DEF AgentMoves
    <3>2. CASE n # m
      BY <2>1, <3>2 DEF Install, AgentMoves, At, IInv, RootTypeOK
    <3> QED  BY <3>1, <3>2
  <2>2. CASE Send(m)
    BY <1>2, <2>2 DEF Send
  <2>3. CASE UploadParts(m) \/ WorkFails(m) \/ AskCancel(m) \/ AgentCrash(m)
    BY <2>3, AgentGoes DEF UploadParts, WorkFails, AskCancel, AgentCrash
  <2> QED  BY <1>4, <2>1, <2>2, <2>3 DEF AgentStep
<1>5. ASSUME NEW c \in ClaimIds,
             SweepSessions(c) \/ LeaseLapses(c) \/ RenewalsFail(c) \/ SweepLost(c)
      PROVE  AgentMoves(n)
  BY <1>2, <1>5 DEF SweepSessions, LeaseLapses, RenewalsFail, SweepLost
<1>6. ASSUME NEW r \in requests, RecordArtifact(r) PROVE AgentMoves(n)
  <2>1. artifact'[job[r.claim].build] # 0
    BY <1>6, RequestIs DEF RecordArtifact, IInv, RootTypeOK, ClaimIds
  <2> QED  BY <1>1, <1>6, <2>1, ReplyMoves DEF RecordArtifact
<1>7. ASSUME NEW r \in requests, CheckFinalize(r) PROVE AgentMoves(n)
  <2>1. session[r.claim] = "completed" => artifact'[job[r.claim].build] # 0
    BY <1>7, RequestIs DEF CheckFinalize, SessionsFit
  <2>2. CASE Reply(r, AfterError)
    <3>1. AfterError # AfterAnswer
      BY DEF AfterError, AfterAnswer
    <3> QED  BY <1>1, <2>2, <3>1, ReplyMoves
  <2>3. CASE session[r.claim] = "completed" /\ Reply(r, AfterAnswer)
    BY <1>1, <2>1, <2>3, ReplyMoves
  <2>4. CASE agent' = agent
    BY <1>2, <2>4
  <2> QED  BY <1>7, <2>2, <2>3, <2>4 DEF CheckFinalize, Proceed
<1>8. ASSUME NEW r \in requests, CompleteUpload(r) \/ SessionFails(r) \/ ApiCrash(r)
      PROVE  AgentMoves(n)
  <2>1. AfterError # AfterAnswer
    BY DEF AfterError, AfterAnswer
  <2> QED  BY <1>1, <1>2, <1>8, <2>1, ReplyMoves
           DEF CompleteUpload, SessionFails, ApiCrash, Proceed
<1>9. ASSUME NEW r \in requests,
             \/ CheckState(r) \/ CommitState(r) \/ CheckOutcome(r) \/ CommitOutcome(r)
             \/ CheckOpen(r) \/ SessionReady(r)
      PROVE  AgentMoves(n)
  <2>1. r.op # "finalize"
    BY <1>9 DEF CheckState, CommitState, CheckOutcome, CommitOutcome, CheckOpen, SessionReady
  <2>2. CASE \E after \in After : Reply(r, after)
    BY <2>1, <2>2, ReplyMoves
  <2> QED
    BY <1>1, <1>2, <1>9, <2>2
    DEF CheckState, CommitState, CheckOutcome, CommitOutcome, CheckOpen, SessionReady, Proceed
<1>10. ASSUME NEW r \in requests, NEW arrives \in BOOLEAN, NetworkError(r, arrives)
       PROVE  AgentMoves(n)
  <2>1. /\ job[r.claim].node \in Nodes /\ agent[job[r.claim].node].pc \in Calling
    BY <1>10, RequestIs DEF NetworkError, AwaitedFits, IInv, Fits, RequestsFit
  <2>2. AfterError[agent[job[r.claim].node].pc] \notin {"activate", "succeed"}
    BY <2>1, NeverSucceeds, AfterCall DEF After
  <2> QED  BY <1>2, <1>10, <2>1, <2>2, AgentGoes DEF NetworkError
<1>11. ASSUME NEW b \in Builds, Cancel(b) \/ \E m \in Nodes : Activate(b, m)
       PROVE  AgentMoves(n)
  BY <1>2, <1>11 DEF Cancel, Activate
<1>12. CASE UNCHANGED vars
  BY <1>2, <1>12 DEF vars
<1> QED
  BY <1>3, <1>4, <1>5, <1>6, <1>7, <1>8, <1>9, <1>10, <1>11, <1>12 DEF Next, Serve

(* A build succeeds by a report of its success.                             *)
LEMMA SuccessChange ==
  ASSUME IInv, [Next]_vars, NEW b \in Builds, status'[b] = "succeeded", status[b] # "succeeded"
  PROVE  \E r \in requests : r.op = "state" /\ r.arg = "succeeded" /\ job[r.claim].build = b
<1> USE DEF buildVars, activationVars, claimVars, uploadVars, agentVars
<1>1. ASSUME NEW r \in requests, CommitState(r)
      PROVE  r.op = "state" /\ r.arg = "succeeded" /\ job[r.claim].build = b
  BY <1>1 DEF CommitState, IInv, RootTypeOK
<1>2. ASSUME NEW d \in Builds, Cancel(d) PROVE FALSE
  BY <1>2 DEF Cancel, IInv, RootTypeOK
<1>3. ASSUME NEW n \in Nodes, Poll(n) PROVE FALSE
  BY <1>3
  DEF Poll, NextRoutingBuild, NextRoutingActivation, NextBasemapBuild, NextBasemapActivation,
      TakeBuild, TakeActivation, ExpireClaim, AfterExpiry, IInv, RootTypeOK
<1>4. ASSUME NEW r \in requests, Serve(r), ~CommitState(r) PROVE FALSE
  BY <1>4 DEF Serve, CheckState, CheckOutcome, CommitOutcome, CheckOpen, SessionReady,
              CheckFinalize, CompleteUpload, RecordArtifact
<1>5. ASSUME NEW r \in requests, NEW arrives \in BOOLEAN,
             SessionFails(r) \/ ApiCrash(r) \/ NetworkError(r, arrives)
      PROVE  FALSE
  BY <1>5 DEF SessionFails, ApiCrash, NetworkError
<1>6. ASSUME NEW n \in Nodes, AgentStep(n) \/ AgentCrash(n) PROVE FALSE
  BY <1>6 DEF AgentStep, Send, UploadParts, Install, WorkFails, AskCancel, AgentCrash, agentOnly
<1>7. ASSUME NEW c \in ClaimIds,
             SweepSessions(c) \/ LeaseLapses(c) \/ RenewalsFail(c) \/ SweepLost(c)
      PROVE  FALSE
  BY <1>7 DEF SweepSessions, LeaseLapses, RenewalsFail, SweepLost
<1>8. ASSUME NEW d \in Builds, NEW n \in Nodes, Activate(d, n) PROVE FALSE
  BY <1>8 DEF Activate
<1>9. CASE UNCHANGED vars
  BY <1>9 DEF vars
<1> QED  BY <1>1, <1>2, <1>3, <1>4, <1>5, <1>6, <1>7, <1>8, <1>9 DEF Next

(* Where a request comes from: it was there, an agent sent it, or it went   *)
(* on to the next stage.                                                    *)
Is(q, r) == q.claim = r.claim /\ q.op = r.op /\ q.arg = r.arg
SentBy(n, q) ==
  /\ agent[n].pc \in Calling /\ q.claim = agent[n].claim /\ q.stage = "sent"
  /\ q.op = Call[agent[n].pc].op /\ q.arg = Call[agent[n].pc].arg
Advanced(q, r) ==
  /\ Is(q, r)
  /\ Opening(q) => CheckOpen(r) /\ session[r.claim] = "none" /\ session'[r.claim] # "none"
  /\ q.op = "finalize" /\ q.stage = "stored" => multipart'[r.claim] = "stored"

LEMMA AdvancedTo ==
  ASSUME IInv, NEW r \in requests, NEW stage, NEW seen, Proceed(r, stage, seen), NEW q \in requests'
  PROVE  q \in requests \/ (Is(q, r) /\ q.stage = stage)
<1> DEFINE r2 == [r EXCEPT !.stage = stage, !.seen = seen]
<1>1. q \in requests \/ q = r2
  BY DEF Proceed
<1>2. r \in [claim : ClaimIds, op : {"state", "outcome", "open", "finalize"},
            arg : BuildStatus \cup ActivationStatus \cup {"-"},
            stage : {"sent", "checked", "stored"}, seen : BuildStatus \cup {"-"},
            awaited : BOOLEAN]
  BY RequestIs DEF Request
<1>3. r2.claim = r.claim /\ r2.op = r.op /\ r2.arg = r.arg /\ r2.stage = stage
  BY <1>2
<1> QED  BY <1>1, <1>3 DEF Is

LEMMA RequestChange ==
  ASSUME IInv, [Next]_vars, NEW q \in requests'
  PROVE  \/ \E r \in requests : Is(q, r) /\ q.stage = r.stage
         \/ \E n \in Nodes : SentBy(n, q) /\ Send(n)
         \/ \E r \in requests : Advanced(q, r)
<1> USE DEF buildVars, activationVars, claimVars, uploadVars, agentVars
<1> DEFINE Goal == \/ \E r \in requests : Is(q, r) /\ q.stage = r.stage
                   \/ \E n \in Nodes : SentBy(n, q) /\ Send(n)
                   \/ \E r \in requests : Advanced(q, r)
<1> SUFFICES Goal
  OBVIOUS
<1>1. ASSUME q \in requests PROVE Goal
  BY <1>1 DEF Is
<1>2. ASSUME NEW n \in Nodes, Send(n) PROVE Goal
  BY <1>1, <1>2 DEF Send, SentBy
<1>3. ASSUME NEW n \in Nodes, AgentCrash(n) PROVE Goal
  <2>1. PICK r \in requests :
          q = IF job[r.claim].node = n THEN [r EXCEPT !.awaited = FALSE] ELSE r
    BY <1>3 DEF AgentCrash
  <2> QED  BY <2>1, RequestIs DEF Is, Request
<1>4. ASSUME NEW r \in requests, NEW arrives \in BOOLEAN, NetworkError(r, arrives) PROVE Goal
  <2>1. q \in requests \/ q = [r EXCEPT !.awaited = FALSE]
    BY <1>4 DEF NetworkError
  <2> QED  BY <1>1, <2>1, RequestIs DEF Is, Request
<1>5. ASSUME NEW r \in requests, CheckOpen(r) PROVE Goal
  <2>1. CASE /\ session[r.claim] = "none" /\ Proceed(r, "checked", "-")
             /\ session' = [session EXCEPT ![r.claim] = "creating"]
    <3>1. session'[r.claim] # "none" /\ r.op = "open"
      BY <1>5, <2>1, RequestIs DEF CheckOpen, IInv, RootTypeOK
    <3>2. q \in requests \/ (Is(q, r) /\ q.stage = "checked")
      BY <2>1, AdvancedTo
    <3> QED  BY <1>1, <1>5, <2>1, <3>1, <3>2 DEF Advanced, Is
  <2> QED  BY <1>1, <1>5, <2>1 DEF CheckOpen, Reply
<1>6. ASSUME NEW r \in requests, CheckFinalize(r) \/ CompleteUpload(r) PROVE Goal
  <2>1. /\ r.op = "finalize" /\ r.claim \in ClaimIds
        /\ \/ requests' \subseteq requests
           \/ Proceed(r, "checked", "-")
           \/ Proceed(r, "stored", "-") /\ multipart'[r.claim] = "stored"
    BY <1>6, RequestIs DEF CheckFinalize, CompleteUpload, Reply, IInv, RootTypeOK
  <2>2. CASE Proceed(r, "checked", "-")
    <3>1. q \in requests \/ (Is(q, r) /\ q.stage = "checked")
      BY <2>2, AdvancedTo
    <3> QED  BY <1>1, <2>1, <3>1 DEF Advanced, Is, Opening
  <2>3. CASE Proceed(r, "stored", "-") /\ multipart'[r.claim] = "stored"
    <3>1. q \in requests \/ (Is(q, r) /\ q.stage = "stored")
      BY <2>3, AdvancedTo
    <3> QED  BY <1>1, <2>1, <2>3, <3>1 DEF Advanced, Is, Opening
  <2> QED  BY <1>1, <2>1, <2>2, <2>3
<1>7. ASSUME NEW r \in requests, CheckState(r) \/ CheckOutcome(r) PROVE Goal
  <2>1. /\ r.op \in {"state", "outcome"}
        /\ requests' \subseteq requests \/ \E seen : Proceed(r, "checked", seen)
    BY <1>7 DEF CheckState, CheckOutcome, Reply
  <2>2. ASSUME NEW seen, Proceed(r, "checked", seen) PROVE Goal
    <3>1. q \in requests \/ (Is(q, r) /\ q.stage = "checked")
      BY <2>2, AdvancedTo
    <3> QED  BY <1>1, <2>1, <3>1 DEF Advanced, Is, Opening
  <2> QED  BY <1>1, <2>1, <2>2
<1>8. ASSUME NEW r \in requests,
             \/ CommitState(r) \/ CommitOutcome(r) \/ SessionReady(r) \/ RecordArtifact(r)
             \/ SessionFails(r) \/ ApiCrash(r)
      PROVE  Goal
  BY <1>1, <1>8 DEF CommitState, CommitOutcome, SessionReady, RecordArtifact, SessionFails,
                    ApiCrash, Reply
<1>9. ASSUME NEW n \in Nodes, Poll(n) PROVE Goal
  BY <1>1, <1>9
  DEF Poll, NextRoutingBuild, NextRoutingActivation, NextBasemapBuild, NextBasemapActivation,
      TakeBuild, TakeActivation, ExpireClaim
<1>10. ASSUME NEW n \in Nodes, UploadParts(n) \/ Install(n) \/ WorkFails(n) \/ AskCancel(n)
       PROVE  Goal
  BY <1>1, <1>10 DEF UploadParts, Install, WorkFails, AskCancel
<1>11. ASSUME NEW c \in ClaimIds,
              SweepSessions(c) \/ LeaseLapses(c) \/ RenewalsFail(c) \/ SweepLost(c)
       PROVE  Goal
  BY <1>1, <1>11 DEF SweepSessions, LeaseLapses, RenewalsFail, SweepLost
<1>12. ASSUME NEW b \in Builds, Cancel(b) \/ \E n \in Nodes : Activate(b, n) PROVE Goal
  BY <1>1, <1>12 DEF Cancel, Activate
<1>13. CASE UNCHANGED vars
  BY <1>1, <1>13 DEF vars
<1> HIDE DEF Goal
<1> QED
  BY <1>2, <1>3, <1>4, <1>5, <1>6, <1>7, <1>8, <1>9, <1>10, <1>11, <1>12, <1>13
  DEF Next, Serve, AgentStep

-----------------------------------------------------------------------------
(* The uploads fit after every step.                                        *)

LEMMA ArtifactsRemain ==
  ASSUME IInv, StoredFits, [Next]_vars, NEW c \in ClaimIds, job[c] \in Job,
         artifact[job[c].build] # 0
  PROVE  artifact'[job'[c].build] # 0
<1>1. job[c].build \in Builds /\ job'[c] = job[c]
  BY JobsStay DEF Job
<1> QED  BY <1>1, ArtifactChange

(* The agent at n and its claim, when it is at work.                        *)
LEMMA AtWork ==
  ASSUME IInv, NEW n \in Nodes, agent[n].pc # "idle"
  PROVE  /\ agent[n].claim \in ClaimIds /\ job[agent[n].claim] \in Job
         /\ job[agent[n].claim].node = n
BY DEF IInv, Fits, AgentsFit, AgentFits

LEMMA InstallsStep ==
  ASSUME IInv, SessionsFit, InstallsFit, [Next]_vars
  PROVE  InstallsFit'
<1>2. installed \subseteq installed'
  BY InstalledGrows
<1>3. ASSUME NEW n \in Nodes, agent'[n].pc = "activate"
      PROVE  <<n, job'[agent'[n].claim].build>> \in installed'
  <2>1. CASE agent'[n] = agent[n]
    <3>1. job'[agent[n].claim] = job[agent[n].claim]
      BY <1>3, <2>1, AtWork, JobsStay
    <3> QED  BY <1>2, <1>3, <2>1, <3>1 DEF InstallsFit
  <2>2. CASE Install(n)
    <3>1. agent[n].pc = "install" /\ agent'[n].claim = agent[n].claim /\ job' = job
      BY <2>2 DEF Install, At, agentOnly, claimVars, IInv, RootTypeOK
    <3> QED  BY <2>2, <3>1 DEF Install
  <2>3. AgentMoves(n)
    BY AgentChange
  <2> QED  BY <1>3, <2>1, <2>2, <2>3 DEF AgentMoves
<1>4. ASSUME NEW q \in requests', q.op = "outcome", q.arg = "active"
      PROVE  <<job'[q.claim].node, job'[q.claim].build>> \in installed'
  <2>1. CASE \E r \in requests : Is(q, r)
    <3>1. PICK r \in requests : Is(q, r)
      BY <2>1
    <3>2. job'[r.claim] = job[r.claim]
      BY RequestIs, JobsStay
    <3> QED  BY <1>2, <1>4, <3>1, <3>2 DEF Is, InstallsFit
  <2>2. CASE \E n \in Nodes : SentBy(n, q) /\ Send(n)
    <3>1. PICK n \in Nodes : SentBy(n, q) /\ Send(n)
      BY <2>2
    <3>2. agent[n].pc = "activate" /\ agent[n].pc # "idle"
      BY <1>4, <3>1, CallOf DEF SentBy
    <3>3. job[q.claim].node = n /\ q.claim = agent[n].claim /\ job' = job
      BY <3>1, <3>2, AtWork DEF SentBy, Send, agentOnly, claimVars
    <3> QED  BY <1>2, <3>2, <3>3 DEF InstallsFit
  <2> QED  BY <2>1, <2>2, RequestChange DEF Advanced
<1> QED  BY <1>3, <1>4 DEF InstallsFit

LEMMA SuccessStep ==
  ASSUME IInv, SessionsFit, StoredFits, SuccessFits, [Next]_vars
  PROVE  SuccessFits'
<1>1. ASSUME NEW n \in Nodes, agent'[n].pc = "succeed"
      PROVE  artifact'[job'[agent'[n].claim].build] # 0
  <2>1. CASE agent'[n] = agent[n]
    <3>1. agent[n].pc = "succeed" /\ agent[n].pc # "idle"
      BY <1>1, <2>1
    <3>2. artifact[job[agent[n].claim].build] # 0
      BY <3>1 DEF SuccessFits
    <3> QED  BY <2>1, <3>1, <3>2, AtWork, ArtifactsRemain
  <2>2. CASE Install(n)
    BY <1>1, <2>2 DEF Install, At, IInv, RootTypeOK
  <2>3. CASE /\ agent'[n].claim \in ClaimIds /\ job[agent'[n].claim] \in Job
             /\ artifact'[job[agent'[n].claim].build] # 0
    BY <2>3, JobsStay
  <2>4. AgentMoves(n)
    BY AgentChange
  <2> QED  BY <1>1, <2>1, <2>2, <2>3, <2>4 DEF AgentMoves
<1>2. ASSUME NEW q \in requests', q.op = "state", q.arg = "succeeded"
      PROVE  artifact'[job'[q.claim].build] # 0
  <2>1. CASE \E r \in requests : Is(q, r)
    <3>1. PICK r \in requests : Is(q, r)
      BY <2>1
    <3>2. artifact[job[r.claim].build] # 0
      BY <1>2, <3>1 DEF Is, SuccessFits
    <3> QED  BY <3>1, <3>2, RequestIs, ArtifactsRemain DEF Is
  <2>2. CASE \E n \in Nodes : SentBy(n, q) /\ Send(n)
    <3>1. PICK n \in Nodes : SentBy(n, q) /\ Send(n)
      BY <2>2
    <3>2. agent[n].pc = "succeed" /\ q.claim = agent[n].claim
      BY <1>2, <3>1, CallOf DEF SentBy
    <3>3. artifact[job[q.claim].build] # 0 /\ q.claim \in ClaimIds /\ job[q.claim] \in Job
      BY <3>2, AtWork DEF SuccessFits
    <3> QED  BY <3>3, ArtifactsRemain
  <2> QED  BY <2>1, <2>2, RequestChange DEF Advanced
<1> QED  BY <1>1, <1>2 DEF SuccessFits


LEMMA SessionsStep ==
  ASSUME IInv, SessionsFit, StoredFits, OpeningFits, [Next]_vars
  PROVE  SessionsFit'
<1> SUFFICES ASSUME NEW c \in ClaimIds
             PROVE  /\ session'[c] = "none" => multipart'[c] = "none"
                    /\ session'[c] # "none" => job'[c] \in Job
                    /\ session'[c] = "completed" => artifact'[job'[c].build] # 0
  BY DEF SessionsFit
<1>1. \/ session'[c] = session[c]
      \/ /\ job[c] \in Job /\ session'[c] # "none"
         /\ session'[c] = "completed" => artifact'[job[c].build] # 0
  BY SessionChange
<1>2. session'[c] = "none" => multipart'[c] = "none"
  <2> SUFFICES ASSUME session'[c] = "none" PROVE multipart'[c] = "none"
    OBVIOUS
  <2>1. session[c] = "none" /\ multipart[c] = "none"
    BY <1>1 DEF SessionsFit
  <2>2. ASSUME NEW r \in requests, SessionReady(r), r.claim = c PROVE FALSE
    BY <2>1, <2>2 DEF SessionReady, OpeningFits, Opening
  <2> QED  BY <2>1, <2>2, UploadChange
<1>3. session'[c] # "none" => job[c] \in Job
  BY <1>1 DEF SessionsFit
<1>4. job[c] \in Job => job'[c] = job[c]
  BY JobsStay
<1>5. session[c] = "completed" => artifact'[job'[c].build] # 0
  BY ArtifactsRemain DEF SessionsFit
<1> QED  BY <1>1, <1>2, <1>3, <1>4, <1>5

LEMMA StoredStay ==
  ASSUME IInv, OpeningFits, [Next]_vars, NEW c \in ClaimIds, multipart[c] = "stored"
  PROVE  multipart'[c] = "stored"
<1>1. ASSUME NEW r \in requests, SessionReady(r), r.claim = c PROVE FALSE
  BY <1>1 DEF SessionReady, OpeningFits, Opening
<1> QED  BY <1>1, UploadChange

LEMMA StoredStep ==
  ASSUME IInv, OpeningFits, StoredFits, [Next]_vars
  PROVE  StoredFits'
<1> SUFFICES ASSUME NEW q \in requests', q.op = "finalize", q.stage = "stored"
             PROVE  multipart'[q.claim] = "stored"
  BY DEF StoredFits
<1>1. ASSUME NEW r \in requests, Is(q, r), q.stage = r.stage PROVE multipart'[q.claim] = "stored"
  BY <1>1, RequestIs, StoredStay DEF Is, StoredFits
<1>2. ASSUME NEW r \in requests, Advanced(q, r) PROVE multipart'[q.claim] = "stored"
  BY <1>2 DEF Advanced, Is
<1> QED  BY <1>1, <1>2, RequestChange DEF SentBy

(* Of the requests that open the same upload there is one, whatever becomes *)
(* of the agent that waits for it.                                          *)
LEMMA OpeningsApart ==
  ASSUME IInv, OpeningFits, [Next]_vars,
         NEW q \in requests', Opening(q), NEW p \in requests', Opening(p), p.claim = q.claim,
         \E r \in requests : Is(p, r) /\ Opening(r),
         \E r \in requests : Is(q, r) /\ Opening(r)
  PROVE  p = q
<1>1. PICK r \in requests : Is(q, r) /\ Opening(r)
  OBVIOUS
<1>2. \A s \in requests : Opening(s) /\ s.claim = q.claim => s = r
  BY <1>1 DEF OpeningFits, Is
(* It may have been changed, into q and into p.                             *)
<1>3. ASSUME p \in requests, q \in requests PROVE p = q
  BY <1>2, <1>3
<1>4. ASSUME NEW n \in Nodes, AgentCrash(n) PROVE p = q
  <2>1. PICK s \in requests :
          p = IF job[s.claim].node = n THEN [s EXCEPT !.awaited = FALSE] ELSE s
    BY <1>4 DEF AgentCrash
  <2>2. PICK t \in requests :
          q = IF job[t.claim].node = n THEN [t EXCEPT !.awaited = FALSE] ELSE t
    BY <1>4 DEF AgentCrash
  <2>3. s = r /\ t = r
    <3>1. /\ s.claim = p.claim /\ s.op = p.op /\ s.stage = p.stage
          /\ t.claim = q.claim /\ t.op = q.op /\ t.stage = q.stage
      BY <2>1, <2>2, RequestIs DEF Request
    <3> QED  BY <1>2, <3>1 DEF Opening
  <2> QED  BY <2>1, <2>2, <2>3
<1>5. ASSUME NEW s \in requests, NEW arrives \in BOOLEAN, NetworkError(s, arrives) PROVE p = q
  <2> DEFINE s2 == [s EXCEPT !.awaited = FALSE]
  <2>1. requests' \subseteq (requests \ {s}) \cup {s2}
    BY <1>5 DEF NetworkError
  <2>2. s2.claim = s.claim /\ s2.op = s.op /\ s2.stage = s.stage
    BY RequestIs DEF Request
  <2> HIDE DEF s2
  <2>3. CASE p = s2 /\ q # s2
    BY <1>2, <2>1, <2>2, <2>3 DEF Opening
  <2>4. CASE p # s2 /\ q = s2
    BY <1>2, <2>1, <2>2, <2>4 DEF Opening
  <2> QED  BY <1>3, <2>1, <2>3, <2>4
(* In every other step the two were there.                                  *)
<1>6. ASSUME requests' \subseteq requests PROVE p = q
  BY <1>3, <1>6
<1>7. ASSUME NEW n \in Nodes, Send(n) PROVE p = q
  BY <1>3, <1>7 DEF Send, Opening
<1>8. ASSUME NEW s \in requests, NEW stage, NEW seen, Proceed(s, stage, seen),
             s.op # "open" \/ s.claim # q.claim
      PROVE  p = q
  <2>1. /\ p \in requests \/ (Is(p, s) /\ p.stage = stage)
        /\ q \in requests \/ (Is(q, s) /\ q.stage = stage)
    BY <1>8, AdvancedTo
  <2> QED  BY <1>3, <1>8, <2>1 DEF Is, Opening
<1>9. ASSUME NEW s \in requests, CheckOpen(s) PROVE p = q
  <2>1. CASE session[s.claim] = "none" /\ Proceed(s, "checked", "-")
    <3>1. s.claim # q.claim
      BY <1>1, <2>1 DEF OpeningFits, Is
    <3> QED  BY <1>8, <2>1, <3>1
  <2> QED  BY <1>6, <1>9, <2>1 DEF CheckOpen, Reply
<1>10. ASSUME NEW s \in requests, Serve(s) \/ SessionFails(s) \/ ApiCrash(s), ~CheckOpen(s)
       PROVE  p = q
  <2>1. \/ requests' \subseteq requests
        \/ s.op # "open" /\ \E stage, seen : Proceed(s, stage, seen)
    BY <1>10 DEF Serve, CheckState, CommitState, CheckOutcome, CommitOutcome, SessionReady,
                 SessionFails, ApiCrash, CheckFinalize, CompleteUpload, RecordArtifact, Reply
  <2> QED  BY <1>6, <1>8, <2>1
<1>11. ASSUME NEW n \in Nodes, Poll(n) PROVE p = q
  BY <1>6, <1>11
  DEF Poll, NextRoutingBuild, NextRoutingActivation, NextBasemapBuild, NextBasemapActivation,
      TakeBuild, TakeActivation, ExpireClaim
<1>12. ASSUME NEW n \in Nodes, UploadParts(n) \/ Install(n) \/ WorkFails(n) \/ AskCancel(n)
       PROVE  p = q
  BY <1>6, <1>12 DEF UploadParts, Install, WorkFails, AskCancel
<1>13. ASSUME NEW c \in ClaimIds,
              SweepSessions(c) \/ LeaseLapses(c) \/ RenewalsFail(c) \/ SweepLost(c)
       PROVE  p = q
  BY <1>6, <1>13 DEF SweepSessions, LeaseLapses, RenewalsFail, SweepLost
<1>14. ASSUME NEW b \in Builds, Cancel(b) \/ \E n \in Nodes : Activate(b, n) PROVE p = q
  BY <1>6, <1>14 DEF Cancel, Activate
<1>15. CASE UNCHANGED vars
  BY <1>6, <1>15 DEF vars
<1> QED
  BY <1>4, <1>5, <1>7, <1>9, <1>10, <1>11, <1>12, <1>13, <1>14, <1>15 DEF Next, AgentStep

(* No request opens an upload that is open, and no two open the same.       *)
LEMMA OpeningStep ==
  ASSUME IInv, SessionsFit, OpeningFits, [Next]_vars
  PROVE  OpeningFits'
<1> SUFFICES ASSUME NEW q \in requests', Opening(q)
             PROVE  /\ session'[q.claim] # "none" /\ multipart'[q.claim] = "none"
                    /\ \A p \in requests' : Opening(p) /\ p.claim = q.claim => p = q
  BY DEF OpeningFits, Opening
(* A request that opens an upload did so before, or has just begun to.      *)
<1> DEFINE Was(p) == \E r \in requests : Is(p, r) /\ Opening(r)
           Begins(p) == \E r \in requests : /\ Is(p, r) /\ CheckOpen(r)
                                            /\ session[r.claim] = "none" /\ session'[r.claim] # "none"
<1>1. \A p \in requests' : Opening(p) => Was(p) \/ Begins(p)
  BY RequestChange DEF SentBy, Advanced, Opening, Is
<1>2. q.claim \in ClaimIds
  BY <1>1, RequestIs DEF Is
<1>3. session'[q.claim] # "none"
  <2>1. CASE Was(q)
    BY <2>1, <1>2, SessionChange DEF Is, OpeningFits
  <2>2. CASE Begins(q)
    BY <2>2 DEF Is
  <2> QED  BY <1>1, <2>1, <2>2
(* The uploads just opened are no longer being opened. *)
<1>4. ASSUME NEW r \in requests, SessionReady(r), r.claim = q.claim PROVE FALSE
  <2>1. Opening(r) /\ requests' = requests \ {r}
    BY <1>4 DEF SessionReady, Opening, Reply
  <2>2. q \in requests /\ q # r
    BY <2>1
  <2> QED  BY <1>4, <2>1, <2>2 DEF OpeningFits
<1>5. multipart'[q.claim] = "none"
  <2>1. multipart[q.claim] = "none"
    <3>1. CASE Was(q)
      BY <3>1 DEF Is, OpeningFits
    <3>2. CASE Begins(q)
      BY <1>2, <3>2 DEF Is, SessionsFit
    <3> QED  BY <1>1, <3>1, <3>2
  <2> QED  BY <1>2, <1>4, <2>1, UploadChange
<1>6. ASSUME NEW p \in requests', Opening(p), p.claim = q.claim PROVE p = q
  <2>1. CASE Was(p) /\ Was(q)
    BY <1>6, <2>1, OpeningsApart
  <2>2. CASE ~(Was(p) /\ Was(q))
    <3>1. PICK r \in requests : /\ r.claim = q.claim /\ CheckOpen(r) /\ session[r.claim] = "none"
                                /\ session'[r.claim] # "none"
      BY <1>1, <1>6, <2>2 DEF Is
    <3>2. ~Was(p) /\ ~Was(q)
      BY <1>6, <3>1 DEF Is, OpeningFits
    <3>3. \A s \in requests : Opening(s) => s.claim # q.claim
      BY <3>1 DEF OpeningFits
    <3>4. p \notin requests /\ q \notin requests
      BY <1>6, <3>3
    <3>5. Proceed(r, "checked", "-")
      BY <3>1 DEF CheckOpen
    <3> QED  BY <3>4, <3>5 DEF Proceed
  <2> QED  BY <2>1, <2>2
<1> QED  BY <1>3, <1>5, <1>6

LEMMA ArtifactStep ==
  ASSUME IInv, OpeningFits, StoredFits, SuccessFits, ArtifactIsStored, [Next]_vars
  PROVE  ArtifactIsStored'
<1> SUFFICES ASSUME NEW b \in Builds
             PROVE  /\ status'[b] = "succeeded" => artifact'[b] # 0
                    /\ artifact'[b] # 0 => multipart'[artifact'[b]] = "stored"
  BY DEF ArtifactIsStored
<1>1. \/ artifact'[b] = artifact[b]
      \/ artifact[b] = 0 /\ artifact'[b] \in ClaimIds /\ multipart[artifact'[b]] = "stored"
  BY ArtifactChange
<1>2. artifact[b] \in ClaimIds \cup {0}
  BY DEF IInv, RootTypeOK
<1>3. artifact'[b] # 0 => artifact'[b] \in ClaimIds /\ multipart[artifact'[b]] = "stored"
  BY <1>1, <1>2 DEF ArtifactIsStored
<1>4. artifact'[b] # 0 => multipart'[artifact'[b]] = "stored"
  BY <1>3, StoredStay
<1>5. ASSUME status'[b] = "succeeded" PROVE artifact'[b] # 0
  <2>1. artifact[b] # 0
    <3>1. CASE status[b] = "succeeded"
      BY <3>1 DEF ArtifactIsStored
    <3>2. CASE status[b] # "succeeded"
      BY <1>5, <3>2, SuccessChange DEF SuccessFits
    <3> QED  BY <3>1, <3>2
  <2> QED  BY <1>1, <2>1
<1> QED  BY <1>4, <1>5

LEMMA InstallationsStep ==
  ASSUME IInv, InstallsFit, InstallationsAreReal, [Next]_vars
  PROVE  InstallationsAreReal'
<1>1. installed \subseteq installed'
  BY InstalledGrows
<1>2. ASSUME NEW i \in installations', i \notin installations PROVE i \in installed
  BY <1>2, InstallationsChange DEF InstallsFit
<1> QED  BY <1>1, <1>2 DEF InstallationsAreReal

(* What the agents and the requests on the way know of uploads and          *)
(* installations stays true while other claims' requests are served, claims *)
(* expire and sessions are swept (root-agent/route.ts, index.ts).           *)
THEOREM UploadsAreFit == Spec => []UploadsFit
<1>1. Init => UploadsFit
  BY DEF Init, UploadsFit, InstallsFit, SuccessFits, OpeningFits, SessionsFit, StoredFits,
         InstallationsAreReal, ArtifactIsStored
<1>2. IInv /\ UploadsFit /\ [Next]_vars => UploadsFit'
  BY InstallsStep, SuccessStep, OpeningStep, SessionsStep, StoredStep, InstallationsStep,
     ArtifactStep
  DEF UploadsFit
<1> QED  BY <1>1, <1>2, Inductive, PTL DEF Spec

(* A build that succeeded has an artifact and the artifact its object, when *)
(* the sweep of an expired claim, a late finalization and a repeated one    *)
(* meet in any order (recordBuildArtifact, expireAgentClaims).              *)
THEOREM ArtifactsStored == Spec => []ArtifactIsStored
BY UploadsAreFit, PTL DEF UploadsFit

(* An active installation was made by the agent of its node, whichever of   *)
(* several activations of the build the report belongs to.                  *)
THEOREM InstallationsReal == Spec => []InstallationsAreReal
BY UploadsAreFit, PTL DEF UploadsFit
=============================================================================
