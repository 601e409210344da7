------------------------------ MODULE RootAgent ------------------------------
(***************************************************************************)
(* Root agents: processes on an operator's own machines that poll the API  *)
(* for routing-graph and basemap builds and for activations of their       *)
(* artifacts (apps/root-agent/src/index.ts against                         *)
(* apps/api/src/domains/root-agent/route.ts), and the console's requests   *)
(* about those builds (apps/api/src/domains/operations/route.ts).          *)
(*                                                                         *)
(* A unit of work is handed out with a claim, a row with a two-minute      *)
(* lease which every request made under it renews.  An agent is one loop:  *)
(* poll, do the work, report, poll again.  Between its requests and the    *)
(* server's statements anything may happen: an answer is lost and the      *)
(* agent moves on while its request is still on the way, the agent or the  *)
(* API restarts, the lease runs out, a user cancels or asks again.         *)
(***************************************************************************)
EXTENDS Naturals, FiniteSets

CONSTANTS
  Builds,          \* rows of routing_graph_builds or basemap_builds
  Nodes,           \* rows of worker_nodes, one agent each
  NoNode, NoJob,
  BuildNode,       \* BuildNode[b]: workerNodeId of build b
  MaxClaims,       \* bound of the model: claims handed out
  MaxActivations,  \* bound of the model: activations a user asks for
  MaxFaults        \* bound of the model: crashes and lost answers

ASSUME AgentAssumption ==
  /\ BuildNode \in [Builds -> Nodes]
  /\ NoNode \notin Nodes
  /\ NoJob \notin [node : Nodes, build : Builds, phase : {"build", "activation"}]
  /\ MaxClaims \in Nat /\ MaxActivations \in Nat /\ MaxFaults \in Nat

Kind == {"routing", "basemap"}
Phase == {"build", "activation"}
Job == [node : Nodes, build : Builds, phase : Phase]
ClaimIds == 1..MaxClaims

(* routingOrder and basemapOrder: "building" stands for the statuses from   *)
(* preparing to packaging.                                                  *)
Order == [assigned |-> 1, building |-> 2, uploading |-> 3]
Working == DOMAIN Order
Terminal == {"succeeded", "failed", "canceled"}
BuildStatus == {"queued", "canceling"} \cup Working \cup Terminal
ActivationStatus ==
  {"inactive", "activation_requested", "activating", "active", "failed"}

(* What the agent asks of the API at each step of its work, and where an    *)
(* answer or an error takes it: buildRoutingGraph and buildBasemap, then    *)
(* activateRoutingGraph and activateBasemap.                                *)
Call == [prepare  |-> [op |-> "state", arg |-> "building"],
         package  |-> [op |-> "state", arg |-> "uploading"],
         open     |-> [op |-> "open", arg |-> "-"],
         finalize |-> [op |-> "finalize", arg |-> "-"],
         succeed  |-> [op |-> "state", arg |-> "succeeded"],
         cancel   |-> [op |-> "state", arg |-> "canceled"],
         fail     |-> [op |-> "state", arg |-> "failed"],
         activate |-> [op |-> "outcome", arg |-> "active"],
         refuse   |-> [op |-> "outcome", arg |-> "failed"]]
AfterAnswer == [prepare |-> "package", package |-> "open", open |-> "parts",
                finalize |-> "succeed", succeed |-> "idle", cancel |-> "idle",
                fail |-> "idle", activate |-> "idle", refuse |-> "idle"]
AfterError == [prepare |-> "catch", package |-> "catch", open |-> "catch",
               finalize |-> "catch", succeed |-> "catch", cancel |-> "idle",
               fail |-> "idle", activate |-> "refuse", refuse |-> "idle"]
Calling == DOMAIN Call
Uploading == {"open", "finalize"}  \* calls made through withRetry
Pc == Calling \cup {"idle", "parts", "catch", "install"}
BuildPc == {"prepare", "package", "open", "parts", "finalize", "succeed",
            "catch", "cancel", "fail"}

Request ==
  [claim : ClaimIds, op : {"state", "outcome", "open", "finalize"},
   arg : BuildStatus \cup ActivationStatus \cup {"-"},
   stage : {"sent", "checked", "stored"},
   seen : BuildStatus \cup {"-"},
   awaited : BOOLEAN]

VARIABLES
  kind,                        \* the table a build is a row of
  status, cancelRequested,     \* of a build
  activationStatus, activationNode, activations,  \* of a build; times asked for
  artifact,                    \* claim whose upload is the build's artifact, or 0
  claimStatus, leased, job,    \* root_agent_job_claims; leased: before leaseExpiresAt
  session,                     \* status of the claim's upload session
  multipart,                   \* the session's object in storage
  unswept,                     \* expired claims whose sessions are still to fail
  installed,                   \* <<n, b>>: the agent of n has installed b
  installations,               \* runtime_installations with status active
  agent,                       \* agent[n]: where it is, and its activeClaimId
  requests,                    \* requests on the way to or in the API
  faults

buildVars == <<kind, status, cancelRequested, artifact>>
activationVars == <<activationStatus, activationNode, activations, installations>>
claimVars == <<claimStatus, leased, job>>
uploadVars == <<session, multipart, unswept>>
agentVars == <<installed, agent>>
vars == <<buildVars, activationVars, claimVars, uploadVars, agentVars, requests, faults>>

Init ==
  /\ kind \in [Builds -> Kind]
  /\ status = [b \in Builds |-> "queued"]
  /\ cancelRequested = [b \in Builds |-> FALSE]
  /\ activationStatus = [b \in Builds |-> "inactive"]
  /\ activationNode = [b \in Builds |-> NoNode]
  /\ activations = [b \in Builds |-> 0]
  /\ artifact = [b \in Builds |-> 0]
  /\ claimStatus = [c \in ClaimIds |-> "none"]
  /\ leased = [c \in ClaimIds |-> FALSE]
  /\ job = [c \in ClaimIds |-> NoJob]
  /\ session = [c \in ClaimIds |-> "none"]
  /\ multipart = [c \in ClaimIds |-> "none"]
  /\ unswept = {}
  /\ installed = {} /\ installations = {}
  /\ agent = [n \in Nodes |-> [pc |-> "idle", claim |-> 0]]
  /\ requests = {}
  /\ faults = 0

-----------------------------------------------------------------------------
(* State functions.                                                         *)

(* isTerminalBuildStatus and canApplyBuildTransition.                       *)
CanApply(current, next) ==
  \/ current = next
  \/ current \notin Terminal /\ next \in Terminal
  \/ current \in Working /\ next \in Working /\ Order[next] >= Order[current]

CanApplyActivation(current, next) == current = next \/ current = "activating"

(* requireAgentClaim, without and with allowCompleted.                      *)
Held(c) == claimStatus[c] = "active" /\ leased[c]
HeldOrCompleted(c) == Held(c) \/ claimStatus[c] = "completed"

ActiveOn(c, b, phase) ==
  claimStatus[c] = "active" /\ job[c].build = b /\ job[c].phase = phase

(* Mutant: the index is not restricted to active claims. *)
Claimable_Ever(b, phase) ==
  \A c \in ClaimIds : job[c] # NoJob =>
    ~(job[c].build = b /\ job[c].phase = phase /\ claimStatus[c] # "expired")

(* root_agent_job_claims_active_target_unique refuses a second claim.       *)
Claimable(b, phase) == \A c \in ClaimIds : ~ActiveOn(c, b, phase)

Awaiting(n) == \E r \in requests : r.awaited /\ job[r.claim].node = n
WorksOn(n, c) == agent[n].claim = c

At(n, pc) == [agent EXCEPT ![n] =
               [pc |-> pc, claim |-> IF pc = "idle" THEN 0 ELSE @.claim]]

(* The API answers r, and the agent goes on if it still waits for it.       *)
Reply(r, after) ==
  /\ requests' = requests \ {r}
  /\ agent' = IF r.awaited
              THEN At(job[r.claim].node, after[agent[job[r.claim].node].pc])
              ELSE agent
  /\ UNCHANGED installed

Proceed(r, stage, seen) ==
  /\ requests' = (requests \ {r}) \cup {[r EXCEPT !.stage = stage, !.seen = seen]}
  /\ UNCHANGED agentVars

-----------------------------------------------------------------------------
(* The console.                                                             *)

(* POST /operations/routing-graphs/:id/cancel                               *)
Cancel(b) ==
  /\ status[b] \in {"queued"} \cup Working
  /\ status' = [status EXCEPT ![b] = "canceling"]
  /\ cancelRequested' = [cancelRequested EXCEPT ![b] = TRUE]
  /\ UNCHANGED <<kind, artifact, activationVars, claimVars, uploadVars, agentVars,
                 requests, faults>>

(* POST /operations/routing-graphs/:id/activate                             *)
Activate(b, n) ==
  /\ artifact[b] # 0 /\ activations[b] < MaxActivations
  /\ activationNode' = [activationNode EXCEPT ![b] = n]
  /\ activationStatus' = [activationStatus EXCEPT ![b] = "activation_requested"]
  /\ activations' = [activations EXCEPT ![b] = @ + 1]
  /\ UNCHANGED <<installations, buildVars, claimVars, uploadVars, agentVars, requests, faults>>

-----------------------------------------------------------------------------
(* GET /root-agent/jobs/next, once the lapsed claims of the node have been  *)
(* expired.                                                                 *)
Polls(n) ==
  /\ agent[n].pc = "idle"
  /\ \A c \in ClaimIds :
       claimStatus[c] = "active" /\ job[c].node = n => leased[c]

(* The next claim.  Its answer may be lost: the agent learns nothing of it. *)
CreateClaim(n, b, phase, pc) ==
  \E c \in ClaimIds :
    /\ claimStatus[c] = "none" /\ \A d \in 1..c - 1 : claimStatus[d] # "none"
    /\ claimStatus' = [claimStatus EXCEPT ![c] = "active"]
    /\ leased' = [leased EXCEPT ![c] = TRUE]
    /\ job' = [job EXCEPT ![c] = [node |-> n, build |-> b, phase |-> phase]]
    /\ \/ /\ agent' = [agent EXCEPT ![n] = [pc |-> pc, claim |-> c]]
          /\ UNCHANGED faults
       \/ /\ faults < MaxFaults /\ faults' = faults + 1
          /\ UNCHANGED agent

TakeBuild(n, b) ==
  /\ Polls(n) /\ BuildNode[b] = n /\ status[b] = "queued" /\ Claimable(b, "build")
  /\ status' = [status EXCEPT ![b] = "assigned"]
  /\ CreateClaim(n, b, "build", "prepare")
  /\ UNCHANGED <<kind, cancelRequested, artifact, activationVars, uploadVars, installed,
                 requests>>

TakeActivation(n, b) ==
  /\ Polls(n) /\ activationNode[b] = n /\ status[b] = "succeeded"
  /\ activationStatus[b] = "activation_requested" /\ Claimable(b, "activation")
  /\ activationStatus' = [activationStatus EXCEPT ![b] = "activating"]
  /\ CreateClaim(n, b, "activation", "install")
  /\ UNCHANGED <<activationNode, activations, installations, buildVars, uploadVars,
                 installed, requests>>

(* The poll looks for the four sorts of work in this order, and fails when  *)
(* it cannot claim what it found: nothing behind it is looked at.           *)
NoBuild(n, k) ==
  \A b \in Builds : kind[b] = k /\ BuildNode[b] = n => status[b] # "queued"
NoActivation(n, k) ==
  \A b \in Builds : kind[b] = k /\ activationNode[b] = n /\ status[b] = "succeeded" =>
    activationStatus[b] # "activation_requested"

NextRoutingBuild(n, b) == kind[b] = "routing" /\ TakeBuild(n, b)
NextRoutingActivation(n, b) ==
  kind[b] = "routing" /\ NoBuild(n, "routing") /\ TakeActivation(n, b)
NextBasemapBuild(n, b) ==
  /\ kind[b] = "basemap" /\ NoBuild(n, "routing") /\ NoActivation(n, "routing")
  /\ TakeBuild(n, b)
NextBasemapActivation(n, b) ==
  /\ kind[b] = "basemap" /\ NoBuild(n, "routing") /\ NoActivation(n, "routing")
  /\ NoBuild(n, "basemap") /\ TakeActivation(n, b)

(* Mutants: the status is not one of the enumeration, a build in progress   *)
(* is not given back, a cancellation is not carried out.                    *)
AfterExpiry_Pending(b) == IF status[b] \in Working THEN "pending" ELSE status[b]
AfterExpiry_Kept(b) ==
  IF status[b] = "canceling" /\ cancelRequested[b] THEN "canceled" ELSE status[b]
AfterExpiry_Uncanceled(b) == IF status[b] \in Working THEN "queued" ELSE status[b]

(* expireAgentClaims: what becomes of the claim's target.                   *)
AfterExpiry(b) ==
  IF status[b] \in Working /\ ~cancelRequested[b] THEN "queued"
  ELSE IF status[b] \in Working \cup {"canceling"} /\ cancelRequested[b] THEN "canceled"
  ELSE status[b]

ExpireClaim(n, c) ==
  /\ agent[n].pc = "idle" /\ job[c] # NoJob /\ job[c].node = n
  /\ claimStatus[c] = "active" /\ ~leased[c]
  /\ claimStatus' = [claimStatus EXCEPT ![c] = "expired"]
  /\ LET b == job[c].build IN
     \/ /\ job[c].phase = "build"
        /\ status' = [status EXCEPT ![b] = AfterExpiry(b)]
        /\ UNCHANGED activationStatus
     \/ /\ job[c].phase = "activation"
        /\ activationStatus' = [activationStatus EXCEPT ![b] =
             IF @ = "activating" THEN "activation_requested" ELSE @]
        /\ UNCHANGED status
  /\ unswept' = unswept \cup {c}
  /\ UNCHANGED <<kind, cancelRequested, artifact, activationNode, activations, installations,
                 leased, job, session, multipart, agentVars, requests, faults>>

(* The same poll then fails the claim's sessions and aborts their uploads.  *)
SweepSessions(c) ==
  /\ c \in unswept /\ unswept' = unswept \ {c}
  /\ LET abandoned == session[c] \in {"creating", "ready", "finalizing"} IN
     /\ session' = [session EXCEPT ![c] = IF abandoned THEN "failed" ELSE @]
     /\ multipart' = [multipart EXCEPT ![c] =
          IF abandoned /\ @ \in {"open", "uploaded"} THEN "aborted" ELSE @]
  /\ UNCHANGED <<buildVars, activationVars, claimVars, agentVars, requests, faults>>

-----------------------------------------------------------------------------
(* POST /root-agent/jobs/:id/state: the row is read and the claim checked,  *)
(* then a transaction updates the row if its status is still the one read.  *)
CheckState(r) ==
  LET b == job[r.claim].build IN
  /\ r.op = "state" /\ r.stage = "sent"
  /\ IF ~HeldOrCompleted(r.claim) \/ ~CanApply(status[b], r.arg)
     THEN Reply(r, AfterError)
     ELSE IF status[b] \in Terminal
     THEN Reply(r, AfterAnswer)
     ELSE Proceed(r, "checked", status[b])
  /\ UNCHANGED <<buildVars, activationVars, claimVars, uploadVars, faults>>

CompleteClaim(c) ==
  claimStatus' = [claimStatus EXCEPT ![c] = IF @ = "active" THEN "completed" ELSE @]

(* Mutant: the UPDATE goes by the build's id only. *)
CommitState_Blind(r) ==
  LET b == job[r.claim].build IN
  /\ r.op = "state" /\ r.stage = "checked"
  /\ status' = [status EXCEPT ![b] = r.arg]
  /\ IF r.arg \in Terminal THEN CompleteClaim(r.claim) ELSE UNCHANGED claimStatus
  /\ Reply(r, AfterAnswer)
  /\ UNCHANGED <<kind, cancelRequested, artifact, activationVars, leased, job, uploadVars,
                 faults>>

CommitState(r) ==
  LET b == job[r.claim].build IN
  /\ r.op = "state" /\ r.stage = "checked"
  /\ IF status[b] = r.seen
     THEN /\ status' = [status EXCEPT ![b] = r.arg]
          /\ IF r.arg \in Terminal THEN CompleteClaim(r.claim) ELSE UNCHANGED claimStatus
          /\ Reply(r, AfterAnswer)
     ELSE UNCHANGED <<status, claimStatus>> /\ Reply(r, AfterError)
  /\ UNCHANGED <<kind, cancelRequested, artifact, activationVars, leased, job, uploadVars,
                 faults>>

(* POST /root-agent/activations/:id/state, likewise.                        *)
CheckOutcome(r) ==
  LET b == job[r.claim].build IN
  /\ r.op = "outcome" /\ r.stage = "sent"
  /\ IF \/ ~HeldOrCompleted(r.claim) \/ activationNode[b] # job[r.claim].node
        \/ ~CanApplyActivation(activationStatus[b], r.arg)
     THEN Reply(r, AfterError)
     ELSE IF activationStatus[b] = r.arg
     THEN Reply(r, AfterAnswer)
     ELSE Proceed(r, "checked", "-")
  /\ UNCHANGED <<buildVars, activationVars, claimVars, uploadVars, faults>>

(* Mutants: the UPDATE goes by the build's id only; the installation is     *)
(* recorded for the node the build is to be activated on.                   *)
CommitOutcome_Blind(r) ==
  LET b == job[r.claim].build IN
  /\ r.op = "outcome" /\ r.stage = "checked"
  /\ activationStatus' = [activationStatus EXCEPT ![b] = r.arg]
  /\ CompleteClaim(r.claim) /\ Reply(r, AfterAnswer)
  /\ UNCHANGED <<activationNode, activations, installations, buildVars, leased, job,
                 uploadVars, faults>>
CommitOutcome_BuildNode(r) ==
  LET b == job[r.claim].build IN
  /\ r.op = "outcome" /\ r.stage = "checked"
  /\ IF activationStatus[b] = "activating"
     THEN /\ activationStatus' = [activationStatus EXCEPT ![b] = r.arg]
          /\ installations' = IF r.arg = "active"
               THEN installations \cup {<<activationNode[b], b>>} ELSE installations
          /\ CompleteClaim(r.claim) /\ Reply(r, AfterAnswer)
     ELSE UNCHANGED <<activationStatus, installations, claimStatus>> /\ Reply(r, AfterError)
  /\ UNCHANGED <<activationNode, activations, buildVars, leased, job, uploadVars, faults>>

CommitOutcome(r) ==
  LET b == job[r.claim].build IN
  /\ r.op = "outcome" /\ r.stage = "checked"
  /\ IF activationStatus[b] = "activating"
     THEN /\ activationStatus' = [activationStatus EXCEPT ![b] = r.arg]
          /\ installations' = IF r.arg = "active"
               THEN installations \cup {<<job[r.claim].node, b>>} ELSE installations
          /\ CompleteClaim(r.claim)
          /\ Reply(r, AfterAnswer)
     ELSE UNCHANGED <<activationStatus, installations, claimStatus>> /\ Reply(r, AfterError)
  /\ UNCHANGED <<activationNode, activations, buildVars, leased, job, uploadVars, faults>>

(* POST /root-agent/jobs/:id/artifacts/upload-session                       *)
CheckOpen(r) ==
  LET c == r.claim IN
  /\ r.op = "open" /\ r.stage = "sent"
  /\ IF Held(c) /\ session[c] = "none"
     THEN session' = [session EXCEPT ![c] = "creating"] /\ Proceed(r, "checked", "-")
     ELSE /\ Reply(r, IF Held(c) /\ session[c] \in {"ready", "completed"}
                      THEN AfterAnswer ELSE AfterError)
          /\ UNCHANGED session
  /\ UNCHANGED <<buildVars, activationVars, claimVars, multipart, unswept, faults>>

(* The storage opens a multipart upload, and its URLs are stored by the     *)
(* session's id, whatever became of the claim meanwhile.                    *)
SessionReady(r) ==
  /\ r.op = "open" /\ r.stage = "checked"
  /\ session' = [session EXCEPT ![r.claim] = "ready"]
  /\ multipart' = [multipart EXCEPT ![r.claim] = "open"]
  /\ Reply(r, AfterAnswer)
  /\ UNCHANGED <<buildVars, activationVars, claimVars, unswept, faults>>

SessionFails(r) ==
  /\ r.op = "open" /\ r.stage = "checked" /\ faults < MaxFaults
  /\ session' = [session EXCEPT ![r.claim] = "failed"]
  /\ Reply(r, AfterError)
  /\ faults' = faults + 1
  /\ UNCHANGED <<buildVars, activationVars, claimVars, multipart, unswept>>

(* POST /root-agent/jobs/:id/artifacts/finalize: one request takes a ready  *)
(* session; another may only resume one whose object is already stored.     *)
CheckFinalize(r) ==
  LET c == r.claim IN
  /\ r.op = "finalize" /\ r.stage = "sent"
  /\ IF Held(c) /\ session[c] = "ready"
     THEN session' = [session EXCEPT ![c] = "finalizing"] /\ Proceed(r, "checked", "-")
     ELSE /\ UNCHANGED session
          /\ IF Held(c) /\ session[c] = "finalizing" /\ multipart[c] = "stored"
             THEN Proceed(r, "stored", "-")
             ELSE Reply(r, IF Held(c) /\ session[c] = "completed"
                           THEN AfterAnswer ELSE AfterError)
  /\ UNCHANGED <<buildVars, activationVars, claimVars, multipart, unswept, faults>>

(* Mutant: the storage's error is ignored. *)
CompleteUpload_Unchecked(r) ==
  /\ r.op = "finalize" /\ r.stage = "checked"
  /\ multipart' = [multipart EXCEPT ![r.claim] = IF @ = "uploaded" THEN "stored" ELSE @]
  /\ Proceed(r, "stored", "-")
  /\ UNCHANGED <<buildVars, activationVars, claimVars, session, unswept, faults>>

CompleteUpload(r) ==
  /\ r.op = "finalize" /\ r.stage = "checked"
  /\ IF multipart[r.claim] = "uploaded"
     THEN /\ multipart' = [multipart EXCEPT ![r.claim] = "stored"]
          /\ Proceed(r, "stored", "-")
     ELSE UNCHANGED multipart /\ Reply(r, AfterError)
  /\ UNCHANGED <<buildVars, activationVars, claimVars, session, unswept, faults>>

(* recordBuildArtifact: one transaction, which looks again at neither the   *)
(* claim nor the build.  A build has one available artifact of a kind: a    *)
(* later upload is stored and recorded, but the first remains the artifact. *)
RecordArtifact(r) ==
  LET b == job[r.claim].build IN
  /\ r.op = "finalize" /\ r.stage = "stored"
  /\ artifact' = [artifact EXCEPT ![b] = IF @ = 0 THEN r.claim ELSE @]
  /\ session' = [session EXCEPT ![r.claim] = "completed"]
  /\ Reply(r, AfterAnswer)
  /\ UNCHANGED <<kind, status, cancelRequested, activationVars, claimVars, multipart, unswept,
                 faults>>

Serve(r) ==
  \/ CheckState(r) \/ CommitState(r) \/ CheckOutcome(r) \/ CommitOutcome(r)
  \/ CheckOpen(r) \/ SessionReady(r)
  \/ CheckFinalize(r) \/ CompleteUpload(r) \/ RecordArtifact(r)

-----------------------------------------------------------------------------
(* The agent.                                                               *)
agentOnly == <<buildVars, activationVars, claimVars, session, unswept, faults>>

Send(n) ==
  /\ agent[n].pc \in Calling /\ ~Awaiting(n)
  /\ LET call == Call[agent[n].pc] IN
     requests' = requests \cup
       {[claim |-> agent[n].claim, op |-> call.op, arg |-> call.arg,
         stage |-> "sent", seen |-> "-", awaited |-> TRUE]}
  /\ UNCHANGED <<agentOnly, multipart, agentVars>>

(* The parts are put under the URLs the session was opened with.            *)
UploadParts(n) ==
  LET c == agent[n].claim IN
  /\ agent[n].pc = "parts"
  /\ IF multipart[c] \in {"open", "uploaded"}
     THEN /\ multipart' = [multipart EXCEPT ![c] = "uploaded"]
          /\ agent' = At(n, "finalize")
     ELSE UNCHANGED multipart /\ agent' = At(n, "catch")
  /\ UNCHANGED <<agentOnly, installed, requests>>

(* The files are in place and the runtime services restarted.               *)
Install(n) ==
  /\ agent[n].pc = "install"
  /\ installed' = installed \cup {<<n, job[agent[n].claim].build>>}
  /\ agent' = At(n, "activate")
  /\ UNCHANGED <<agentOnly, multipart, requests>>

(* A command fails, or is killed because the claim could not be renewed.    *)
WorkFails(n) ==
  /\ \/ agent[n].pc \in {"prepare", "package", "succeed"} /\ ~Awaiting(n)
     \/ agent[n].pc \in {"parts", "install"}
  /\ agent' = At(n, IF agent[n].pc = "install" THEN "refuse" ELSE "catch")
  /\ UNCHANGED <<agentOnly, multipart, installed, requests>>

(* The catch block asks whether a user canceled; without the claim that is  *)
(* an error too, and the agent leaves the job.                              *)
AskCancel(n) ==
  LET c == agent[n].claim IN
  /\ agent[n].pc = "catch"
  /\ agent' = At(n, IF ~Held(c) THEN "idle"
                    ELSE IF cancelRequested[job[c].build] THEN "cancel" ELSE "fail")
  /\ UNCHANGED <<agentOnly, multipart, installed, requests>>

AgentStep(n) ==
  Send(n) \/ UploadParts(n) \/ Install(n) \/ WorkFails(n) \/ AskCancel(n)

-----------------------------------------------------------------------------
(* What goes wrong.                                                         *)

(* Nobody renews the claim: no agent works on it, or it cannot reach the    *)
(* API.                                                                     *)
LeaseLapses(c) ==
  /\ Held(c) /\ \A n \in Nodes : ~WorksOn(n, c)
  /\ leased' = [leased EXCEPT ![c] = FALSE]
  /\ UNCHANGED <<buildVars, activationVars, claimStatus, job, uploadVars, agentVars,
                 requests, faults>>

RenewalsFail(c) ==
  /\ Held(c) /\ faults < MaxFaults /\ \E n \in Nodes : WorksOn(n, c)
  /\ leased' = [leased EXCEPT ![c] = FALSE]
  /\ faults' = faults + 1
  /\ UNCHANGED <<buildVars, activationVars, claimStatus, job, uploadVars, agentVars, requests>>

(* The agent sees an error for a request that may still arrive or go on;    *)
(* withRetry may make the call again.                                       *)
NetworkError(r, arrives) ==
  LET n == job[r.claim].node IN
  /\ r.awaited /\ faults < MaxFaults /\ faults' = faults + 1
  /\ arrives \/ r.stage = "sent"
  /\ requests' = (requests \ {r}) \cup
       (IF arrives THEN {[r EXCEPT !.awaited = FALSE]} ELSE {})
  /\ \/ agent' = At(n, AfterError[agent[n].pc])
     \/ agent[n].pc \in Uploading /\ UNCHANGED agent
  /\ UNCHANGED <<buildVars, activationVars, claimVars, uploadVars, installed>>

ApiCrash(r) ==
  /\ r.stage # "sent" /\ faults < MaxFaults /\ faults' = faults + 1
  /\ Reply(r, AfterError)
  /\ UNCHANGED <<buildVars, activationVars, claimVars, uploadVars>>

SweepLost(c) ==
  /\ c \in unswept /\ faults < MaxFaults /\ faults' = faults + 1
  /\ unswept' = unswept \ {c}
  /\ UNCHANGED <<buildVars, activationVars, claimVars, session, multipart, agentVars, requests>>

AgentCrash(n) ==
  /\ agent[n].pc # "idle" /\ faults < MaxFaults /\ faults' = faults + 1
  /\ agent' = At(n, "idle")
  /\ requests' = {IF job[r.claim].node = n THEN [r EXCEPT !.awaited = FALSE] ELSE r :
                    r \in requests}
  /\ UNCHANGED <<buildVars, activationVars, claimVars, uploadVars, installed>>

-----------------------------------------------------------------------------
Poll(n) ==
  \/ \E b \in Builds : NextRoutingBuild(n, b) \/ NextRoutingActivation(n, b)
                        \/ NextBasemapBuild(n, b) \/ NextBasemapActivation(n, b)
  \/ \E c \in ClaimIds : ExpireClaim(n, c)

Next ==
  \/ \E b \in Builds : Cancel(b) \/ \E n \in Nodes : Activate(b, n)
  \/ \E n \in Nodes : Poll(n) \/ AgentStep(n) \/ AgentCrash(n)
  \/ \E c \in ClaimIds : SweepSessions(c) \/ LeaseLapses(c) \/ RenewalsFail(c) \/ SweepLost(c)
  \/ \E r \in requests :
       \/ Serve(r) \/ SessionFails(r) \/ ApiCrash(r)
       \/ \E arrives \in BOOLEAN : NetworkError(r, arrives)

Spec == Init /\ [][Next]_vars

(* Agents keep polling and working (their loop catches every error and      *)
(* their process is restarted), the API answers, unrenewed leases run out.  *)
FairSpec ==
  /\ Spec
  /\ \A n \in Nodes : WF_vars(Poll(n)) /\ WF_vars(AgentStep(n))
  /\ \A c \in ClaimIds : WF_vars(LeaseLapses(c))
  /\ WF_vars(\E r \in requests : Serve(r))

-----------------------------------------------------------------------------
RootTypeOK ==
  /\ kind \in [Builds -> Kind]
  /\ status \in [Builds -> BuildStatus] /\ cancelRequested \in [Builds -> BOOLEAN]
  /\ activationStatus \in [Builds -> ActivationStatus]
  /\ activationNode \in [Builds -> Nodes \cup {NoNode}]
  /\ activations \in [Builds -> 0..MaxActivations]
  /\ artifact \in [Builds -> ClaimIds \cup {0}]
  /\ claimStatus \in [ClaimIds -> {"none", "active", "completed", "expired"}]
  /\ leased \in [ClaimIds -> BOOLEAN] /\ job \in [ClaimIds -> Job \cup {NoJob}]
  /\ session \in [ClaimIds -> {"none", "creating", "ready", "finalizing", "completed", "failed"}]
  /\ multipart \in [ClaimIds -> {"none", "open", "uploaded", "stored", "aborted"}]
  /\ unswept \subseteq ClaimIds
  /\ installed \subseteq Nodes \X Builds /\ installations \subseteq Nodes \X Builds
  /\ agent \in [Nodes -> [pc : Pc, claim : ClaimIds \cup {0}]]
  /\ requests \subseteq Request /\ faults \in 0..MaxFaults

(* Work in progress is always covered by a claim, so that an agent that     *)
(* disappears gives it back: whoever puts a build or an activation into     *)
(* progress, expires its claim or completes it, does both together, however *)
(* late the requests of earlier claims arrive.                              *)
WorkHasClaim ==
  \A b \in Builds :
    /\ status[b] \in Working => \E c \in ClaimIds : ActiveOn(c, b, "build")
    /\ activationStatus[b] = "activating" => \E c \in ClaimIds : ActiveOn(c, b, "activation")

(* "Terminal states are monotonic": a build that has ended is not reopened, *)
(* nor ended otherwise, by a request that read it before.                   *)
TerminalIsFinal ==
  [][\A b \in Builds : status[b] \in Terminal => status'[b] = status[b]]_vars

(* "First-writer-wins": the outcome of an activation stands until a user    *)
(* asks for the activation again, although the agent that posts 'failed'    *)
(* because its 'active' was lost may be overtaken by the lost one.          *)
OutcomeStands ==
  [][\A b \in Builds : activationStatus[b] \in {"active", "failed"} =>
       activationStatus'[b] \in {activationStatus[b], "activation_requested"}]_vars

(* A build that succeeded has an artifact, and an artifact has its object:  *)
(* the poll that gives up a claim aborts only an upload that is not stored, *)
(* and a finalization it overtakes finds the upload gone.                   *)
ArtifactIsStored ==
  \A b \in Builds :
    /\ status[b] = "succeeded" => artifact[b] # 0
    /\ artifact[b] # 0 => multipart[artifact[b]] = "stored"

(* "Activation: artifact installed into Martin sources by a serving         *)
(* root-agent": an installation recorded as active was made on that node.   *)
InstallationsAreReal == installations \subseteq installed

(* A build that was asked for ends, or waits for a cancellation; so does    *)
(* the cancellation of a build in progress.  (A build canceled before an    *)
(* agent took it stays in canceling: nobody polls for it.)                  *)
BuildsSettle ==
  \A b \in Builds :
    /\ status[b] \in {"queued"} \cup Working ~> status[b] \in Terminal \cup {"canceling"}
    /\ status[b] = "canceling" /\ (\E c \in ClaimIds : ActiveOn(c, b, "build"))
         ~> status[b] \in Terminal

(* An activation of a build that succeeded is settled or asked for anew,    *)
(* although the claim of an earlier one, perhaps of another node, refuses   *)
(* the next until it is expired.                                            *)
ActivationsSettle ==
  \A b \in Builds :
    status[b] = "succeeded" /\ activationStatus[b] \in {"activation_requested", "activating"}
      ~> activationStatus[b] \in {"active", "failed"}
=============================================================================
