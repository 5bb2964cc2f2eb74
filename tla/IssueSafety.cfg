SPECIFICATION Spec
CONSTANTS
    Callers = {c1, c2}
    Jobs = {j1}
    Channels = {"rest", "slack"}
    MaxCalls = 4
    MaxErrors = 1
    MaxOutages = 1
    MaxCrashes = 1
    MaxRetries = 1
SYMMETRY CallerSymmetry
INVARIANT TypeOK
INVARIANT PushNeedsApproval
INVARIANT ApprovedPlanExecuted
INVARIANT AtMostOnePush
\* Nobody has to make another request: the system may rest.
CHECK_DEADLOCK FALSE
