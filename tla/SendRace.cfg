SPECIFICATION Spec
CONSTANTS
    Senders = {x1}
    MaxFaults = 1
    MaxBackoff = 3
INVARIANT SendIsSafe
CHECK_DEADLOCK FALSE
