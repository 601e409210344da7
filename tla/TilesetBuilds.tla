---------------------------- MODULE TilesetBuilds ----------------------------
(***************************************************************************)
(* What the console promises about the builds of a tileset, without its    *)
(* queues, workers and retries: at most one build of a tileset and at most *)
(* ActiveJobLimit builds of the account run at a time, a build leaves      *)
(* exactly one version behind when it succeeds and none otherwise, and a   *)
(* version, once made, is never lost or reordered.  BuildPipeline is shown *)
(* to implement this specification.                                        *)
(***************************************************************************)
EXTENDS Naturals, Sequences, FiniteSets

CONSTANTS Jobs, Tilesets, Target, ActiveJobLimit

VARIABLES
  phase,          \* what a user sees of a build
  versions,       \* versions[t][n]: the build that made version n of t
  currentVersion  \* the published version of t, 0 when none is

buildVars == <<phase, versions, currentVersion>>

Phase == {"none", "active", "failed", "canceled", "succeeded"}

Init ==
  /\ phase = [j \in Jobs |-> "none"]
  /\ versions = [t \in Tilesets |-> <<>>]
  /\ currentVersion = [t \in Tilesets |-> 0]

MayStart(j) ==
  /\ Cardinality({k \in Jobs \ {j} : phase[k] = "active"}) < ActiveJobLimit
  /\ \A k \in Jobs \ {j} : phase[k] = "active" => Target[k] # Target[j]

Start(j) ==
  /\ phase[j] \in {"none", "failed", "canceled"}
  /\ MayStart(j)
  /\ phase' = [phase EXCEPT ![j] = "active"]
  /\ UNCHANGED <<versions, currentVersion>>

Succeed(j) ==
  /\ phase[j] = "active"
  /\ phase' = [phase EXCEPT ![j] = "succeeded"]
  /\ versions' = [versions EXCEPT ![Target[j]] = Append(@, j)]
  /\ UNCHANGED currentVersion

Stop(j) ==
  /\ phase[j] = "active"
  /\ \E p \in {"failed", "canceled"} : phase' = [phase EXCEPT ![j] = p]
  /\ UNCHANGED <<versions, currentVersion>>

Publish(t, v) ==
  /\ v \in 1..Len(versions[t])
  /\ currentVersion' = [currentVersion EXCEPT ![t] = v]
  /\ UNCHANGED <<phase, versions>>

Next ==
  \/ \E j \in Jobs : Start(j) \/ Succeed(j) \/ Stop(j)
  \/ \E t \in Tilesets : \E v \in 1..Len(versions[t]) : Publish(t, v)

Spec == Init /\ [][Next]_buildVars
=============================================================================
