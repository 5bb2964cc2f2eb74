SPECIFICATION FairSpec
CONSTANTS
    Operators = {o1}
    MaxReanalysisCount = 10
    EscalateAfter = 3
    MaxAttempts = 2
    Verdicts = {"SUFFICIENT"}
    Deliveries = {TRUE, FALSE}
    MaxReplies = 1
    MaxClicks = 1
    MaxChats = 0
    MaxPatches = 1
    MaxErrors = 1
    MaxOutages = 1
    MaxCrashes = 0
PROPERTY ComesToRest
\* Nobody has to make another request: the system may rest.
CHECK_DEADLOCK FALSE
