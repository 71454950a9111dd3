--------------------------- MODULE MCMaintenance ---------------------------
(* Instances of Maintenance for model checking.                            *)
EXTENDS Maintenance, TLC
=============================================================================
