SPECIFICATION FairSpec
CONSTANTS
    Orders = {o1}
    Instances = {i1, i2}
    Workers = {w1}
    Operations <- SerialOperations
    MaxCrashes = 1
    MaxBuilds = 2
INVARIANTS TypeOK BuildIsTracked
 
CHECK_DEADLOCK FALSE
