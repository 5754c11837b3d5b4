CONSTANTS
  RX_CNT = 3
  MaxBurst = 2
  MaxFrames = 5
  RXBUF_HDRSIZE = 2
  RXBUF_SIZE = 5
  FrameSizes <- ThreeAndFive
  MaxTransfer = 6
  MaxPackets = 3
SPECIFICATION SpecEither
INVARIANTS
  FramesConserved
  FindsFirstFull
  StreamIsFramed
PROPERTIES
  FramesHandled
CHECK_DEADLOCK FALSE
