SPECIFICATION FairSpec
CONSTANTS
    Promises = {p1}
    Callers = {c1}
    Workers = {w1}
    JS = js
    NoPromise = none
    PoolCapacity = 1
    NapiCanFail = TRUE
PROPERTIES
    ImplementsPromiseSpec
    FirstCompletionWins
    SettledUnderWinUI
    CleanupTerminates
CHECK_DEADLOCK FALSE
