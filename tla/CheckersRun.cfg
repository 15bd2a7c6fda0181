\* Two tasks on two test CPUs, a machine with and without a spare CPU, and a
\* streak of two ticks.
CONSTANTS
  t1 = t1
  t2 = t2
  None = None
  Tasks <- MCTasks
  NCpus = 2
  MaxSpares = 1
  IdleTicks = 2
  Lists <- MCLists
SPECIFICATION Spec
INVARIANTS TypeOK  
PROPERTIES  FrozenOnlyInFreeze
SYMMETRY TaskSymmetry
