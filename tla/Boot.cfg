SPECIFICATION SpecEither
CONSTANTS
  CodeSize = 100
  PatchSize = 8
  RadioSize = 30
  TxBytes = 40
  RxBytes = 36
  TemplateSize = 10
  MemorySize = 1000
  OtherAddress = 8
  Attempts = 2
  Cards <- AllCards
  Faults <- AllFaults
  USB_RWMEM_MAXLEN = 8
  Word = 64
  Sizes <- MCSizes
  Chips <- AllChips
  UsbFaults <- TransferFaults
INVARIANTS
  CodeIsCompared
  BootedIsReady
  MemoryIsDivided
  AllocationsAreHeld
  WellIsRunning
CHECK_DEADLOCK FALSE
