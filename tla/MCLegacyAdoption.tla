---------------------------- MODULE MCLegacyAdoption ----------------------------
(* LegacyAdoption, and StageRecovery inside it, for TLC.                       *)
EXTENDS LegacyAdoption
=============================================================================
