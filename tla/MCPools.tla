------------------------------ MODULE MCPools ------------------------------
(* Instances of Pools for model checking.                                  *)
EXTENDS Pools, TLC

CONSTANTS t1, t2, t3
=============================================================================
