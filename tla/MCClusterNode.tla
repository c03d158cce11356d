--------------------------- MODULE MCClusterNode ---------------------------
(***************************************************************************)
(* Instances of ClusterNode for TLC.                                       *)
(***************************************************************************)
EXTENDS ClusterNode, TLC

\* The names of commands do not matter.
CommandSymmetry == Permutations(Command)
=============================================================================
