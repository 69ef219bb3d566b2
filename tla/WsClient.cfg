SPECIFICATION FairSpec
CONSTANTS
    Senders = {x1, x2}
    MaxFaults = 4
    MaxBackoff = 3
INVARIANTS FlagCoversPointers
PROPERTIES StopEndsThread Reconnects
CHECK_DEADLOCK FALSE
