SPECIFICATION Spec
INVARIANT NoDeadlockOnStop
CHECK_DEADLOCK FALSE
