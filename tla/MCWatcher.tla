----------------------------- MODULE MCWatcher -----------------------------
(* Instances of Watcher for model checking.                                *)
EXTENDS Watcher, TLC

CONSTANTS a, b
=============================================================================
