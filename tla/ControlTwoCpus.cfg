\* Two tasks over two CPUs; no channel writes (see SettleChain).
SPECIFICATION FairSpec
CONSTANTS
  t1 = t1
  t2 = t2
  Idle = Idle
  Tasks = {t1, t2}
  NCpus = 2
  QueueDepth = 2
  MaxTasks = 2
  MaxRepeat = 1
  MaxBytes = 0
  Commands = {"create", "wake", "tick", "pause", "chan-read", "attr", "kill"}
INVARIANTS
  QuietAtReply
PROPERTIES
  RepliedUnlessLost
CHECK_DEADLOCK FALSE
