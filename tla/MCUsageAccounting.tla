--------------------------- MODULE MCUsageAccounting ---------------------------
(* UsageAccounting for TLC. *)
EXTENDS UsageAccounting
================================================================================
