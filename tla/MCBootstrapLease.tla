--------------------------- MODULE MCBootstrapLease ---------------------------
(* BootstrapLease with the bounds of its configurations.                     *)
EXTENDS BootstrapLease
=============================================================================
