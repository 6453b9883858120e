---------------------------- MODULE MCMaintenance ----------------------------
(* Maintenance on small bounds.                                             *)
EXTENDS Maintenance, TLC
=============================================================================
