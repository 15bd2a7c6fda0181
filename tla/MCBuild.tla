------------------------------ MODULE MCBuild ------------------------------
(* Build for TLC: the configurations give the bounds. *)
EXTENDS Build
============================================================================
