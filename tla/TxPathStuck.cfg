CONSTANTS
  f1 = f1
  c1 = c1
  TX_CNT = 6
  Frames <- OneFrame
  NoAckFrames <- NoFrames
  TxErrors <- NoErrors
  NoAckErrors <- NoErrors
  Cpus <- OneCpu
  TX_STOP_QUEUE = 3
  TX_START_QUEUE = 5
  ACX_TX_QUEUE_MAX_LENGTH = 4
  MaxFrames = 9
SPECIFICATION FairSpec
PROPERTIES
  FullRingEmpties
CHECK_DEADLOCK FALSE
