SPECIFICATION Spec
CONSTANT MaxFaults = 0
INVARIANT MismatchIsReported
CHECK_DEADLOCK FALSE
