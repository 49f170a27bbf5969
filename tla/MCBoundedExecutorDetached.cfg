SPECIFICATION Spec
CONSTANTS
    OutputLimit = 2
    MaxOutput = 2
    MaxSignals = 2
    Lingers = TRUE
PROPERTY Returns
CHECK_DEADLOCK FALSE
