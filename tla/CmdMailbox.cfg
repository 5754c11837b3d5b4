CONSTANTS
  MaxCommands = 4
SPECIFICATION FairSpecMailbox
INVARIANTS
  ResultIsOwn
PROPERTIES
  IssueCmdReturns
CHECK_DEADLOCK FALSE
