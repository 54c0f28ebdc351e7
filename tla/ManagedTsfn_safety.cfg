SPECIFICATION Spec
CONSTANTS
    Handles = {h1, h2}
    Threads = {t1, t2}
    Js = js
    NoHandle = noHandle
    Weak = {h1}
    MaxQueue = 1
    MaxCalls = 2
SYMMETRY Interchangeable
INVARIANTS
    NoUseAfterFree
    OneReference
    PayloadsFreedOnce
PROPERTIES
    ImplementsTsfnSpec
CHECK_DEADLOCK FALSE
