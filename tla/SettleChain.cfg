\* Two tasks and a chain of wakeups over two CPUs.
SPECIFICATION Spec
CONSTANTS
  t1 = t1
  t2 = t2
  Idle = Idle
  Tasks = {t1, t2}
  NCpus = 2
  QueueDepth = 3
  MaxTasks = 2
  MaxRepeat = 1
  MaxBytes = 3
  Commands = {"create", "wake", "pause", "chan-read", "chan-write"}
SYMMETRY Symmetry
INVARIANTS
  QuietAtReply
CHECK_DEADLOCK FALSE
