SPECIFICATION FairSpec
CONSTANTS
    Callers = {c1, c2}
    Jobs = {j1}
    Channels = {"rest", "slack"}
    MaxCalls = 3
    MaxErrors = 0
    MaxOutages = 0
    MaxCrashes = 0
    MaxRetries = 0
PROPERTY RestApprovalConcludes
\* Nobody has to make another request: the system may rest.
CHECK_DEADLOCK FALSE
