CONSTANTS
  TX_CNT = 3
  f1 = f1
  f2 = f2
  Frames <- MCFrames
  NoAckFrames <- MCNoAckFrames
  TxErrors <- MCTxErrors
  NoAckErrors <- MCNoAckErrors
SPECIFICATION Spec
INVARIANTS
  TypeOK
  CountersAgree
  FreeMeansHostOwned
PROPERTIES
  OwnershipRespected
  ImplementsFifo
