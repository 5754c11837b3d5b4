CONSTANTS
  f1 = f1
  TX_CNT = 3
  Frames <- OneFrame
  NoAckFrames <- NoFrames
  TxErrors <- NoErrors
  NoAckErrors <- NoErrors
  numblocks = 5
  memblocksize = 8
  Lengths <- FrameLengths
  MaxAttempts = 2
  ACX_TX_URB_CNT = 2
  TX_STOP_QUEUE = 1
  TX_START_QUEUE = 2
  UintBits = 3
  MaxFrames = 3
  LateUrbs <- ReceiveUrbs
SPECIFICATION SpecEither
INVARIANTS
  BlocksConserved
  FlushedRingIsSound
  FreeIsRight
  StatusIsOwn
PROPERTIES
  StatusFollows
CHECK_DEADLOCK FALSE
