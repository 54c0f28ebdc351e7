SPECIFICATION FairSpec
CONSTANTS
    Ops = {o1, o2}
    Js = js
    Relay = relay
    Registry = registry
    NoOp = noOp
    MaxCalls = 2
INVARIANTS
    LoopAliveUntilCallback
    TeardownReleases
PROPERTIES
    ImplementsDeliverySpec
    CancelledAnswers
CHECK_DEADLOCK FALSE
