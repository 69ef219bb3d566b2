SPECIFICATION Spec
CONSTANTS
    Orders = {o1}
    Instances = {i1, i2}
    Workers = {w1, w2}
    Operations <- ConcurrentOperations
    MaxCrashes = 1
    MaxBuilds = 2
SYMMETRY Symmetry
INVARIANTS NoBuildWithoutApproval VerdictHasADecision PendingStateHasItsRow BuildIsTracked
PROPERTY LegalTransitions
CHECK_DEADLOCK FALSE
