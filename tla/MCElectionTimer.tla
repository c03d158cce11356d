-------------------------- MODULE MCElectionTimer --------------------------
(***************************************************************************)
(* Instances of ElectionTimer for TLC.                                     *)
(***************************************************************************)
EXTENDS ElectionTimer
=============================================================================
