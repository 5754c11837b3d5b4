CONSTANTS
  MAX_FAILURES = 2
SPECIFICATION FairSpec
INVARIANTS
  JobsHaveWorker
PROPERTIES
  RecalibFollows
