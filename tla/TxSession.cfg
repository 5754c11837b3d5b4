CONSTANTS
  f1 = f1
  c1 = c1
  TX_CNT = 3
  Frames <- OneFrame
  NoAckFrames <- NoFrames
  TxErrors <- NoErrors
  NoAckErrors <- NoErrors
  Cpus <- OneCpu
  TX_STOP_QUEUE = 2
  TX_START_QUEUE = 3
  ACX_TX_QUEUE_MAX_LENGTH = 2
  MaxFrames = 4
  MaxStops = 1
SPECIFICATION FairSessionSpec
INVARIANTS
  FramesConserved
  CompletionNotForgotten
  DownIsEmpty
PROPERTIES
  AcceptedIsReported
  StoppedIsWoken
CHECK_DEADLOCK FALSE
