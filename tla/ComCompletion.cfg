SPECIFICATION FairSpec
CONSTANTS
    Tokens = {t1, t2}
    NativeThreads = {n1, n2}
    Js = js
    Closure = closure
    NoToken = noToken
    MaxPending = 2
    SettleCanFail = FALSE
    MaxCalls = 2
INVARIANTS
    TypeOK
    NotificationFindsRecord
    GivenUpHoldsNothing
PROPERTIES
    ImplementsActivationSpec
    CompletedSettles
    CleanupTerminates
CHECK_DEADLOCK FALSE
