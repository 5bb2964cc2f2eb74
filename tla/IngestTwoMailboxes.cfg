SPECIFICATION Spec
CONSTANTS
    Mailbox <- MCMailbox
    Message <- MCMessage
    Refs <- MCRefs
    Subject <- MCSubject
    Copies = {mail, copy}
    Forms = {}
    NoMessageId = {}
    Titles = {TRUE, FALSE}
    MaxAttempts = 2
    MaxUnread = 0
    MaxRetired = 0
    MaxPollErrors = 0
    MaxErrors = 0
    MaxImapCrashes = 0
    MaxCrashes = 0
    mail = mail
    copy = copy
    reply = reply
    form = form
INVARIANT OneTicketPerMail
\* Nobody has to make another request: the system may rest.
CHECK_DEADLOCK FALSE
