CONSTANTS
    StageCount = 2
    a = a
    b = b
    c = c
    c1 = c1
    c2 = c2
    Id <- MCId
    Config <- MCConfig
    MaxTokens = 2
    LayerCount = 3
    Selected = {0, 2}
    StageCaptures <- MCStageCaptures
    MaxDrifts = 1
SPECIFICATION Spec
SYMMETRY Symmetry
CHECK_DEADLOCK FALSE
INVARIANTS
    RegressionIsProven
    MismatchIsNeverLost
    LocalizationSurvivesRecapture
    IntervalsHoldOnset
