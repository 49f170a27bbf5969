CONSTANTS
    MaxTokens = 4
    MaxCalls = 6
    MaxLimit = 3
    MaxPrompt = 5
    Options <- MCOptions
SPECIFICATION GSpec
INVARIANTS TokensAgree ReportReasonIsRight SuccessIsReported LayerFileIsWhole
PROPERTIES Terminates
