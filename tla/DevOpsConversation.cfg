SPECIFICATION FairSpec
CONSTANTS
    Modes = {"ticket", "task"}
    MaxRounds = 2
    Window = 20
    ApprovalWindow = 10
    MaxAttempts = 3
    MaxComments = 2
    MaxTrouble = 1
INVARIANT TypeOK
INVARIANT CommentsSynced
INVARIANT ApprovedPlanExecuted
INVARIANT NotStranded
PROPERTY CommentAnswered
\* Nobody has to make another request: the system may rest.
CHECK_DEADLOCK FALSE
