--------------------------- MODULE MCSourceImports ---------------------------
(* Instances of SourceImports for TLC.                                      *)
EXTENDS SourceImports, TLC

(* Dispatchers are interchangeable; for runs without liveness.              *)
Symmetry == Permutations(Dispatchers)
=============================================================================
