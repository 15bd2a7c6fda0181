\* One task on one CPU.
SPECIFICATION Spec
CONSTANTS
  t1 = t1
  Idle = Idle
  Tasks = {t1}
  NCpus = 1
  QueueDepth = 2
  MaxTasks = 1
  MaxRepeat = 1
  MaxBytes = 0
  Commands = {"create", "wake", "tick", "pause"}
INVARIANTS
  NoLostAsk
CHECK_DEADLOCK FALSE
