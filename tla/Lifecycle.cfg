SPECIFICATION FairSpec
INVARIANTS
  DownIsQuiet
  InterruptsComeBack
  RestartFindsNothing
  ScanningIsMacs
PROPERTIES
  ScanEnds
  CallsReturn
CHECK_DEADLOCK FALSE
