-------------------------- MODULE MCStageLifecycle --------------------------
(***************************************************************************)
(* Instances of StageLifecycle for TLC: what the setups ask for.           *)
(***************************************************************************)
EXTENDS StageLifecycle

CONSTANT u1

\* u1 has Docker set up, with a network of its own; any other does without both.
MCKind == [u \in SetupReqs |-> [socket |-> u = u1, named |-> u = u1]]
=============================================================================
