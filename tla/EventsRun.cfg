\* Two CPUs, as many entries as there are watchers, one slot for a sample.
CONSTANTS
  NCpus = 2
  Subs = 2
  HookSlots = 5
  Wakeups = 1
  MaxWork = 3
SPECIFICATION Spec
INVARIANTS TypeOK PublishedFirst HeardOnce BalanceIsOwn TornOnlyByChain RefsReturned
CHECK_DEADLOCK FALSE
