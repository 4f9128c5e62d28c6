------------------------------- MODULE MCTasks -------------------------------
(***************************************************************************)
(* The worker's step for TLC.                                              *)
(***************************************************************************)
EXTENDS TaskProperties

=============================================================================
