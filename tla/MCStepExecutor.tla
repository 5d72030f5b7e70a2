--------------------------- MODULE MCStepExecutor ---------------------------
(***************************************************************************)
(* Instances of StepExecutor for TLC.                                      *)
(***************************************************************************)
EXTENDS StepExecutor
=============================================================================
