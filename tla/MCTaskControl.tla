---------------------------- MODULE MCTaskControl ----------------------------
(* TaskControl on small instances; tasks are interchangeable. *)
EXTENDS TaskControl, TLC

Symmetry == Permutations(Tasks)
=============================================================================
