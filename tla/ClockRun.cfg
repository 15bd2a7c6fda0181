\* Two tasks, two test CPUs, two ticks after the boot.
CONSTANTS
  t1 = t1
  t2 = t2
  Tasks <- MCTasks
  NCpus = 2
  Periods <- MCPeriods
  MaxTicks = 2
  Real = 9
  None = None
SPECIFICATION Spec
INVARIANTS TypeOK QuietAtReset InEpoch NoDrift LoadCountedOnce HeldUnlessPeriod
SYMMETRY TaskSymmetry
