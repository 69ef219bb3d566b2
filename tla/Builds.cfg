SPECIFICATION Spec
CONSTANTS
    b1 = b1
    b2 = b2
    b3 = b3
    i1 = i1
    i2 = i2
    None = None
    Builds = {b1, b2, b3}
    IssueOf <- RetriedIssue
    NumberOf <- TwoJobs
    MaxRequests = 1
INVARIANTS TypeOK ReportedOnce HeldForReview WaitsForAnAnswer NothingLeaks
PROPERTY ImplementsReviewGate
CHECK_DEADLOCK FALSE
