---------------------------- MODULE MCLogClient ----------------------------
(***************************************************************************)
(* Instances of LogClient for TLC.                                         *)
(***************************************************************************)
EXTENDS LogClient
=============================================================================
