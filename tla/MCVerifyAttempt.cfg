SPECIFICATION Spec
CONSTANT MaxFaults = 2
INVARIANT CommitIsComplete
INVARIANT LedgerFollowsMachine
INVARIANT FinishIsAccepted
INVARIANT VerdictHasAuthority
INVARIANT ExitIsEarned
INVARIANT NothingLeftBehind
PROPERTY ImplementsPromise
CHECK_DEADLOCK FALSE
