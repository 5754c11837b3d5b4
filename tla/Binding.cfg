CONSTANTS
  Buses <- AllBuses
SPECIFICATION SpecBinding
INVARIANTS
  CallersFindAll
  RemoveLeavesNothing
CHECK_DEADLOCK FALSE
