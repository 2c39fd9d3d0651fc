---------------------------- MODULE MCStageRecovery ----------------------------
(* StageRecovery for TLC.                                                      *)
EXTENDS StageRecovery
=============================================================================
