SPECIFICATION Spec
CONSTANTS
    OutputLimit = 2
    MaxOutput = 2
    MaxSignals = 2
    Lingers = FALSE
INVARIANT OutputIsBounded
INVARIANT OkIsComplete
INVARIANT NoProcessLeft
PROPERTY Returns
CHECK_DEADLOCK FALSE
