SPECIFICATION Spec
CONSTANTS
    Orders = {o1}
    Instances = {i1, i2}
    Workers = {w1}
    Operations <- ReviewOperations
    MaxCrashes = 0
    MaxBuilds = 1
INVARIANTS SecondApprovalNeedsSecondReview
CHECK_DEADLOCK FALSE
