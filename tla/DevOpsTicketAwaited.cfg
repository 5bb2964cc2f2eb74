SPECIFICATION Spec
CONSTANTS
    Modes = {"ticket"}
    MaxRounds = 2
    Window = 20
    ApprovalWindow = 10
    MaxAttempts = 3
    MaxComments = 2
    MaxTrouble = 0
INVARIANT NotStrandedWithTicket
\* Nobody has to make another request: the system may rest.
CHECK_DEADLOCK FALSE
