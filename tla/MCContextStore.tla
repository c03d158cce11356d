--------------------------- MODULE MCContextStore ---------------------------
(* An instance of ContextStore for TLC.                                     *)
EXTENDS ContextStore

MCTerm == 1 .. 2
=============================================================================
