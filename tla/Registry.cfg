SPECIFICATION FairSpec
CONSTANTS
    a1 = a1
    a2 = a2
    p1 = p1
    p2 = p2
    Agents = {a1, a2}
    Projects = {p1, p2}
    Lists <- ChangingLists
    Unnamed = {a2}
    Sessions = {s1, s2, s3}
    Senders = {x1}
    None = None
INVARIANTS IndexConsistent NoFinishedSession EmptyAfterStop RoutedToDeclaring ConnectedIsRouted
PROPERTY BrokenLinkIsForgotten
CHECK_DEADLOCK FALSE
