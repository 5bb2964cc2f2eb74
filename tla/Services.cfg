SPECIFICATION ServicesSpec
CONSTANTS
    Mailbox <- MCMailbox
    Message <- MCMessage
    Refs <- MCRefs
    Subject <- MCSubject
    Recommendations <- MCRecommendations
    mail = mail
    copy = copy
    reply = reply
    form = form
    Copies = {mail, reply}
    Forms = {form}
    NoMessageId = {reply}
    Titles = {TRUE, FALSE}
    MaxAttempts = 2
    MaxUnread = 0
    MaxRetired = 1
    MaxPollErrors = 0
    MaxErrors = 1
    MaxImapCrashes = 0
    MaxCrashes = 0
    MaxCalls = 3
    Systems = {s1, s2}
    Configs = {config, other}
    Absent = Absent
    MaxEdits = 1
    MaxTroubles = 1
    s1 = s1
    s2 = s2
    config = config
    Sessions = {a, b}
    MaxRepoCalls = 3
    MaxPushes = 0
    MaxFailures = 1
    MaxRestarts = 1
    MaxTtls = 1
    Fields = {"status"}
    FieldValues = {"new", "open"}
    Invalid = "invalid"
    MaxRuns = 2
    MaxRequests = 2
    MaxFieldEdits = 0
    MaxLevelEdits = 1
    MaxActionErrors = 1
    Costs = {0, 2}
    ToolCalls = {1}
    Plans = {"p", "q"}
    MaxRounds = 4
    MaxInner = 2
    MaxSubTasks = 2
    SubTaskTokens = 3
    SubTaskRounds = 3
    SubTaskCalls = 2
    SubTaskStop = 85
    TicketTokens = 18
    TicketStop = 95
    CumulativeStop = 50
    ConsecutiveStop = 80
INVARIANT ServicesTypeOK
INVARIANT ThreadKept
INVARIANT OpenPoolsKept
INVARIANT PoolsCurrent
INVARIANT RefusedWhenAbsent
INVARIANT WorktreesOnRecord
INVARIANT RunsInTree
INVARIANT SessionReleased
 
INVARIANT AdviceTaken
INVARIANT AccountKept
INVARIANT BatchesWarranted
PROPERTY AllComeToRest
\* Nobody has to make another request: the system may rest.
CHECK_DEADLOCK FALSE
