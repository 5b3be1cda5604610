---------------------------- MODULE MCStrategies ----------------------------
(***************************************************************************)
(* Small instances of Strategies for TLC.                                  *)
(***************************************************************************)
EXTENDS Strategies
=============================================================================
