----------------------------- MODULE MCCheckers -----------------------------
(* Checkers for TLC: two tasks that are alike, two test CPUs. *)
EXTENDS Checkers, TLC

CONSTANTS t1, t2

MCTasks == {t1, t2}
MCLists == {{1}, {2}, {1, 2}}
TaskSymmetry == Permutations(MCTasks)

=============================================================================
