SPECIFICATION Spec
CONSTANTS
    Promises = {p1, p2}
    Callers = {c1}
    Workers = {w1}
    JS = js
    NoPromise = none
    PoolCapacity = 1
    NapiCanFail = FALSE
SYMMETRY Interchangeable
INVARIANTS
    TypeOK
    SettleOnce
    NoLostCompletion
    LoopAliveWhilePending
    OperationCarried
CHECK_DEADLOCK FALSE
