SPECIFICATION Spec
CONSTANTS
    Operators = {o1}
    MaxReanalysisCount = 10
    EscalateAfter = 3
    MaxAttempts = 2
    Verdicts = {"NONE", "SUFFICIENT", "NEEDS_USER_INPUT", "INSUFFICIENT"}
    Deliveries = {TRUE, FALSE}
    MaxReplies = 1
    MaxClicks = 0
    MaxChats = 0
    MaxPatches = 0
    MaxErrors = 0
    MaxOutages = 0
    MaxCrashes = 0
INVARIANT AnswerRead
\* Nobody has to make another request: the system may rest.
CHECK_DEADLOCK FALSE
