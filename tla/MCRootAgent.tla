----------------------------- MODULE MCRootAgent -----------------------------
(***************************************************************************)
(* An instance of RootAgent for TLC: every build is made by one node, and  *)
(* activated by it or by another.                                          *)
(***************************************************************************)
EXTENDS RootAgent, TLC

MCBuildNode == [b \in Builds |-> CHOOSE n \in Nodes : TRUE]
=============================================================================
