--------------------------- MODULE MCBuildPipeline ---------------------------
(***************************************************************************)
(* Instances of BuildPipeline for TLC: every build is of the one tileset,  *)
(* where builds get in each other's way.                                   *)
(***************************************************************************)
EXTENDS BuildPipeline, TLC

CONSTANT Tileset

MCTilesets == {Tileset}
MCTarget == [j \in Jobs |-> Tileset]

(* Builds, worker slots and dispatchers are alike. *)
Symmetry == Permutations(Jobs) \cup Permutations(Workers) \cup Permutations(Dispatchers)
=============================================================================
