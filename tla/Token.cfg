SPECIFICATION FairSpec
CONSTANTS
    None = None
    Callers = {c1, c2, c3}
    Lifetime = 7
    Margin = 4
    MaxLatency = 2
    MaxDelay = 2
    Horizon = 18
INVARIANTS UsedWhileValid
PROPERTIES FetchesOnce WaiterIsServed
CHECK_DEADLOCK FALSE
