SPECIFICATION FairSpec
CONSTANTS
    Callers = {c1, c2}
    Jobs = {j1}
    Channels = {"rest", "slack"}
    MaxCalls = 3
    MaxErrors = 1
    MaxOutages = 1
    MaxCrashes = 1
    MaxRetries = 1
PROPERTY SlackApprovalConcludes
PROPERTY QueueDrains
\* Nobody has to make another request: the system may rest.
CHECK_DEADLOCK FALSE
