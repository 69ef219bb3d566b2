SPECIFICATION Spec
CONSTANTS
    Nonces = {n1, n2, n3}
    Window = 2
    Limit = 1
    MaxTime = 8
    FutureSkew = 3
SYMMETRY Symmetry
INVARIANTS FreshOnceUnlessAhead
PROPERTY PurgedAtLimit
CHECK_DEADLOCK FALSE
