SPECIFICATION RepoSpec
CONSTANTS
    Sessions = {a}
    MaxRepoCalls = 2
    MaxPushes = 1
    MaxFailures = 0
    MaxRestarts = 0
    MaxTtls = 0
INVARIANT PreparedUpToDate
\* Nobody has to make another request: the system may rest.
CHECK_DEADLOCK FALSE
