SPECIFICATION FairSpec
CONSTANTS
    Futures = {f1, f2}
    Wakers = {w1, w2}
    NoWaker = noWaker
    NoHandler = noHandler
    Outside = outside
    Deferred = {f1}
    CallsFail = TRUE
INVARIANTS
    ParkedIsWoken
PROPERTIES
    AwaitEnds
    OnlyFailuresCancelLate
CHECK_DEADLOCK FALSE
