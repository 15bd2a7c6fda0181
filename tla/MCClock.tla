------------------------------ MODULE MCClock ------------------------------
(* Clock for TLC: a bandwidth timer with a period of two ticks, and one whose
   period is shorter than a tick. *)
EXTENDS Clock, TLC

CONSTANTS t1, t2

MCTasks == {t1, t2}
MCPeriods == [cfs |-> 2, rt |-> 0]
TaskSymmetry == Permutations(MCTasks)

============================================================================
