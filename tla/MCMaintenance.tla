---------------------------- MODULE MCMaintenance ----------------------------
(* Small instances of Maintenance for TLC.                                 *)
EXTENDS Maintenance

CONSTANTS j1, j2, j3, r1, r2
=============================================================================
