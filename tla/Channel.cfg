SPECIFICATION Spec
CONSTANTS
    Nonces = {n1, n2, n3}
    Window = 0
    Limit = 1
    MaxTime = 1
    MaxAltered = 1
    MaxSession = 2
SYMMETRY Symmetry
INVARIANTS AcceptedOnce AcceptedAsSent NonceNotUsedUp AcksAnswerMessages
PROPERTY ImplementsDelivery
CHECK_DEADLOCK FALSE
