\* Three commands, two trace records, lines below and beyond LineMax.
SPECIFICATION FairSpec
CONSTANTS
  TxBuf = {1, 2}
  VqSize = 2
  RxBufs = 2
  RxBufSize = 3
  RingSize = 4
  UintMod = 8
  LineMax = 3
  LineLens = {1, 3}
  MaxCmds = 2
  MaxEvents = 2
INVARIANTS
  TypeOK
  PoolConserved
  RecordsInOrder
  
  LineIntact
  OwnReply
PROPERTIES
  PromiseSpec
  Answered
CHECK_DEADLOCK FALSE
