\* Every command, two tasks on one CPU.
SPECIFICATION Spec
CONSTANTS
  t1 = t1
  t2 = t2
  Idle = Idle
  Tasks = {t1, t2}
  NCpus = 1
  QueueDepth = 2
  MaxTasks = 2
  MaxRepeat = 1
  MaxBytes = 1
  Commands = {"create", "wake", "tick", "pause", "block", "chan-read", "chan-write", "yield", "kill", "attr", "error", "exit"}
SYMMETRY Symmetry
INVARIANTS
  TypeOK
  LostOnlyByOverlap
CHECK_DEADLOCK FALSE
