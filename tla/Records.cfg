SPECIFICATION RecordsSpec
CONSTANTS
    \* ingestion
    Mailbox <- MCMailbox
    Message <- MCMessage
    Refs <- MCRefs
    Subject <- MCSubject
    Copies = {mail, copy}
    Forms = {}
    NoMessageId = {}
    Titles = {TRUE, FALSE}
    MaxAttempts = 2
    MaxUnread = 1
    MaxRetired = 1
    MaxPollErrors = 1
    MaxErrors = 1
    MaxImapCrashes = 1
    MaxCrashes = 1
    mail = mail
    copy = copy
    reply = reply
    form = form
    \* the knowledge document
    Template <- MCTemplate
    Parents = {"evidence"}
    Required = {"problem"}
    SubTitles <- MCSubTitles
    Texts <- MCTexts
    Marker <- MCMarker
    AnalysisRun = "runs"
    MaxLength = 2
    Agents = {a1, a2}
    run = run
    MaxWrites = 3
    MaxSaves = 1
    \* invoices
    Horizon = 4
    PeriodDays = 2
    MonthStarts = {0, 3}
    Generations = {g1}
    Deletions = {d1}
    check = check
    MaxPerRun = 2
    MaxRedraws = 1
    \* connections to Slack
    Integrations = {i1, i2}
    Tokens = {t1, t2}
    token = t1
    Refreshes = {r1, r2}
    MaxRefreshes = 3
    MaxEdits = 1
    \* requests for tools
    ToolNames = {tool, other}
    tool = tool
    AnalysisRuns = {ar1}
    RunLimit = 1
    Handlers = {h1, h2}
    MaxAgentCalls = 2
    MaxDedupes = 2
    MaxDecisions = 1
    MaxPatches = 3
    MaxFilings = 2
SYMMETRY RecordsSymmetry
ACTION_CONSTRAINT FaultsApart
INVARIANT MailAccounted
INVARIANT RecordsTypeOK
INVARIANT InvoicesFiled
INVARIANT BilledOnce
INVARIANT ConnectionsOnRecord
INVARIANT RowsTellTheTruth
PROPERTY LedgerHolds
PROPERTY KnowledgeKept
\* Nobody has to make another request: the system may rest.
CHECK_DEADLOCK FALSE
