SPECIFICATION FairSpec
CONSTANTS
    Agents = {a1, a2, a3}
    Unnamed = {a3}
    Sessions = {s1, s2, s3}
    None = None
INVARIANTS TypeOK EntryHasThread
PROPERTY GoneIsForgotten
CHECK_DEADLOCK FALSE
