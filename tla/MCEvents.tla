----------------------------- MODULE MCEvents -----------------------------
(* Events for TLC: the constants are plain numbers. *)
EXTENDS Events

============================================================================
