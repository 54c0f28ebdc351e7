SPECIFICATION Spec
CONSTANTS
    Futures = {f1, f2}
    Wakers = {w1}
    NoWaker = noWaker
    NoHandler = noHandler
    Outside = outside
    Deferred = {f1}
    CallsFail = FALSE
PROPERTIES
    DropCancelsPending
CHECK_DEADLOCK FALSE
