SPECIFICATION Spec
CONSTANTS
    Operators = {o1}
    MaxReanalysisCount = 2
    EscalateAfter = 2
    MaxAttempts = 2
    Verdicts = {"NONE", "SUFFICIENT", "NEEDS_USER_INPUT", "INSUFFICIENT"}
    Deliveries = {TRUE}
    MaxReplies = 2
    MaxClicks = 1
    MaxChats = 2
    MaxPatches = 0
    MaxErrors = 1
    MaxOutages = 0
    MaxCrashes = 1
ACTION_CONSTRAINT Apart
INVARIANT TypeOK
INVARIANT CyclesCounted
 
 
INVARIANT RedundantReplyRead
INVARIANT RoundsBounded
INVARIANT WaitingWhenAsked
\* Nobody has to make another request: the system may rest.
CHECK_DEADLOCK FALSE
