------------------------------ MODULE TicketIngest ------------------------------
(***************************************************************************)
(* The way of a mail into a ticket: imap-worker polls the mailboxes, flags *)
(* what it found and puts it into queue 'email-ingestion'; the worker of   *)
(* that queue drops duplicates and noise and adds a job to queue           *)
(* 'ticket-ingest'; ticket-analyzer's ingestion worker files the mail on   *)
(* the ticket of its thread or makes a ticket of it, acknowledges it and   *)
(* hands the ticket to analysis.  Forms, the requests of the control       *)
(* panel, the portal and the probes, enter at 'ticket-ingest'.             *)
(*                                                                         *)
(* imap-worker (poll loop and queue worker) and ticket-analyzer are two OS *)
(* processes that crash on their own; each queue has one worker.  All mail *)
(* here is of one client: what is found is always restricted to it.        *)
(***************************************************************************)
EXTENDS Naturals, Sequences

CONSTANTS
    Copies,       \* mails as they lie in a mailbox: each has a hash of its own
    Forms,        \* requests that do not come by mail
    Mailbox,      \* of each copy
    Message,      \* of each copy, its Message-ID
    NoMessageId,  \* the copies without one
    Refs,         \* of each copy, In-Reply-To and References: a set of messages
    Subject,      \* of each copy and form, without "Re:"
    Titles,       \* whether GENERATE_TITLE may reword, may keep: subset of BOOLEAN
    MaxAttempts,  \* the 'attempts' of a 'ticket-ingest' job
    MaxUnread,    \* bound on mails marked unread again in the mailbox
    MaxRetired,   \* bound on tickets that are closed or grow too old
    MaxPollErrors,\* bound on errors of the poll loop
    MaxErrors,    \* bound on errors of queue jobs
    MaxImapCrashes, MaxCrashes  \* bounds on crashes of the two processes

Sources == Copies \cup Forms
Reworded == "reworded"  \* a title that does not contain the mail's subject

ASSUME IngestAssumption ==
    /\ Copies \cap Forms = {} /\ NoMessageId \subseteq Copies
    /\ \A s \in Sources : Subject[s] # Reworded
    /\ \A c \in Copies, d \in Copies : Message[c] # d
    /\ Titles # {} /\ Titles \subseteq BOOLEAN
    /\ MaxAttempts \in Nat \ {0}
    /\ MaxUnread \in Nat /\ MaxRetired \in Nat /\ MaxPollErrors \in Nat
    /\ MaxErrors \in Nat /\ MaxImapCrashes \in Nat /\ MaxCrashes \in Nat

VARIABLES
    inbox,        \* of each copy: "absent", "unseen" or "seen"
    pollPc, batch,\* the poll loop: where it is, and the mails it has fetched
    \* queue 'email-ingestion' and its worker
    emails,       \* jobs waiting
    email,        \* the job being processed: a set of at most one
    emailPc,
    emailFailed,  \* copies whose job failed for good
    \* queue 'ticket-ingest' and its worker
    ingests,      \* jobs waiting
    later,        \* jobs waiting for their back-off to pass
    ingest,       \* the job being processed
    pc,
    ticket,       \* ctx.ticketId, 0 for none
    done, failed, \* ids of the jobs that completed, that failed for good
    \* the database, and queue 'ticket-created'
    tickets,      \* in the order of their creation
    events,       \* EMAIL_INBOUND events: ticket and copy
    dispatched,   \* the tickets for which a 'ticket-created' job was added
    \* history, read by the properties only
    noise,        \* copies dropped as noise
    receipts, analyses,  \* per mail, see MailLedger
    spent

pollVars   == <<inbox, pollPc, batch>>
emailVars  == <<emails, email, emailPc, emailFailed>>
ingestVars == <<ingests, later, ingest, pc, ticket, done, failed>>
dbVars     == <<tickets, events, dispatched>>
historyVars == <<noise, receipts, analyses>>
vars == <<pollVars, emailVars, ingestVars, dbVars, historyVars, spent>>

-----------------------------------------------------------------------------
EmailJob == [copy : Copies, stalls : 0..1]
IngestJob == [source : Sources, attempt : Nat, stalls : 0..1]
Ticket == [source : Sources, subject : {Subject[s] : s \in Sources} \cup {Reworded}, open : BOOLEAN]
Event == [ticket : Nat, copy : Copies]

Bounds == [unread |-> MaxUnread, retired |-> MaxRetired, poll |-> MaxPollErrors,
           errors |-> MaxErrors, imap |-> MaxImapCrashes, crashes |-> MaxCrashes]
Spend(what) ==
    /\ spent[what] < Bounds[what]
    /\ spent' = [spent EXCEPT ![what] = @ + 1]

Elements(s) == {s[i] : i \in DOMAIN s}
IngestInFlight == Elements(ingests) \cup later \cup ingest

\* The id of the job: 'ingest-email-<hash>', or made for each form.
JobId(s) == s

KnownIds == {JobId(j.source) : j \in IngestInFlight} \cup {JobId(s) : s \in done \cup failed}

\* What makes two mails the same to the unique columns of the events.
Key(c) == IF c \in NoMessageId THEN c ELSE Message[c]
MailKeys == {Key(c) : c \in Copies}
Filed == {Key(e.copy) : e \in Elements(events)}

\* An event with the Message-ID or the hash of c exists.
Recorded(c) == Key(c) \in Filed

Init ==
    /\ inbox = [c \in Copies |-> "absent"] /\ pollPc = "idle" /\ batch = {}
    /\ emails = <<>> /\ email = {} /\ emailPc = "idle" /\ emailFailed = {}
    /\ ingests = <<>> /\ later = {} /\ ingest = {} /\ pc = "idle" /\ ticket = 0
    /\ done = {} /\ failed = {}
    /\ tickets = <<>> /\ events = <<>> /\ dispatched = {}
    /\ noise = {}
    /\ receipts = [m \in MailKeys |-> 0] /\ analyses = [m \in MailKeys |-> 0]
    /\ spent = [w \in DOMAIN Bounds |-> 0]

-----------------------------------------------------------------------------
(* The mailboxes *)

Arrive(c) ==
    /\ inbox[c] = "absent"
    /\ inbox' = [inbox EXCEPT ![c] = "unseen"]
    /\ UNCHANGED <<pollPc, batch, emailVars, ingestVars, dbVars, historyVars, spent>>

MarkUnread(c) ==
    /\ inbox[c] = "seen"
    /\ Spend("unread")
    /\ inbox' = [inbox EXCEPT ![c] = "unseen"]
    /\ UNCHANGED <<pollPc, batch, emailVars, ingestVars, dbVars, historyVars>>

-----------------------------------------------------------------------------
(* imap-worker's poll loop: pollEmails, then one add per mail *)

Fetch(b) ==
    /\ pollPc = "idle"
    /\ batch' = {c \in Copies : Mailbox[c] = b /\ inbox[c] = "unseen"}
    /\ batch' # {}
    /\ pollPc' = "fetched"
    /\ UNCHANGED <<inbox, emailVars, ingestVars, dbVars, historyVars, spent>>

Flag ==
    /\ pollPc = "fetched"
    /\ inbox' = [c \in Copies |-> IF c \in batch THEN "seen" ELSE inbox[c]]
    /\ pollPc' = "flagged"
    /\ UNCHANGED <<batch, emailVars, ingestVars, dbVars, historyVars, spent>>

AddEmail(c) ==
    /\ pollPc = "flagged"
    /\ c \in batch
    /\ emails' = Append(emails, [copy |-> c, stalls |-> 0])
    /\ batch' = batch \ {c}
    /\ pollPc' = IF batch' = {} THEN "idle" ELSE pollPc
    /\ UNCHANGED <<inbox, email, emailPc, emailFailed, ingestVars, dbVars, historyVars, spent>>

\* The mailbox is given up until the next round, with the mails not yet added.
PollFails ==
    /\ pollPc # "idle"
    /\ Spend("poll")
    /\ batch' = {}
    /\ pollPc' = "idle"
    /\ UNCHANGED <<inbox, emailVars, ingestVars, dbVars, historyVars>>

-----------------------------------------------------------------------------
(* imap-worker's queue worker: createEmailProcessor *)

EmailIdle == email' = {} /\ emailPc' = "idle"

TakeEmail ==
    /\ emailPc = "idle" /\ emails # <<>>
    /\ email' = {Head(emails)}
    /\ emails' = Tail(emails)
    /\ emailPc' = "taken"
    /\ UNCHANGED <<pollVars, emailFailed, ingestVars, dbVars, historyVars, spent>>

SkipDuplicate(e) ==
    /\ emailPc = "taken"
    /\ Recorded(e.copy)
    /\ EmailIdle
    /\ UNCHANGED <<pollVars, emails, emailFailed, ingestVars, dbVars, historyVars, spent>>

\* Neither a duplicate nor noise by sender, subject or the AI's opinion.
Accept(e) ==
    /\ emailPc = "taken"
    /\ ~Recorded(e.copy)
    /\ emailPc' = "accepted"
    /\ UNCHANGED <<pollVars, emails, email, emailFailed, ingestVars, dbVars, historyVars, spent>>

Filter(e) ==
    /\ emailPc = "taken"
    /\ ~Recorded(e.copy)
    /\ EmailIdle
    /\ noise' = noise \cup {e.copy}
    /\ UNCHANGED <<pollVars, emails, emailFailed, ingestVars, dbVars, receipts, analyses, spent>>

NewIngest(s) == [source |-> s, attempt |-> 0, stalls |-> 0]

\* BullMQ's add: nothing is added under an id that is known.
Enqueue(s) ==
    ingests' = IF JobId(s) \in KnownIds THEN ingests ELSE Append(ingests, NewIngest(s))

AddIngest(e) ==
    /\ emailPc = "accepted"
    /\ Enqueue(e.copy)
    /\ EmailIdle
    /\ UNCHANGED <<pollVars, emails, emailFailed, later, ingest, pc, ticket, done, failed,
                   dbVars, historyVars, spent>>

\* Variant: the error is logged and not thrown again.
EmailFailsSilently(e) ==
    /\ emailPc # "idle"
    /\ Spend("errors")
    /\ EmailIdle
    /\ UNCHANGED <<pollVars, emails, emailFailed, ingestVars, dbVars, historyVars>>

\* The job throws; it has no attempts left, since none were asked for.
EmailFails(e) ==
    /\ emailPc # "idle"
    /\ Spend("errors")
    /\ emailFailed' = emailFailed \cup {e.copy}
    /\ EmailIdle
    /\ UNCHANGED <<pollVars, emails, ingestVars, dbVars, historyVars>>

\* A job that was being processed goes to the head of the queue, once.
CrashImap ==
    /\ pollPc # "idle" \/ emailPc # "idle"
    /\ Spend("imap")
    /\ pollPc' = "idle" /\ batch' = {}
    /\ \/ email = {} /\ UNCHANGED <<emails, emailFailed>>
       \/ \E e \in email :
            IF e.stalls = 0
            THEN /\ emails' = <<[e EXCEPT !.stalls = 1]>> \o emails
                 /\ UNCHANGED emailFailed
            ELSE /\ emailFailed' = emailFailed \cup {e.copy}
                 /\ UNCHANGED emails
    /\ EmailIdle
    /\ UNCHANGED <<inbox, ingestVars, dbVars, historyVars>>

-----------------------------------------------------------------------------
(* Forms, and what happens to tickets by hand *)

Submit(f) ==
    /\ f \notin {j.source : j \in IngestInFlight} \cup done \cup failed
    /\ Enqueue(f)
    /\ UNCHANGED <<pollVars, emailVars, later, ingest, pc, ticket, done, failed, dbVars,
                   historyVars, spent>>

\* The ticket is closed, or a week old: its subject is not looked at any more.
Retire(t) ==
    /\ tickets[t].open
    /\ Spend("retired")
    /\ tickets' = [tickets EXCEPT ![t].open = FALSE]
    /\ UNCHANGED <<pollVars, emailVars, ingestVars, events, dispatched, historyVars>>

-----------------------------------------------------------------------------
(* ticket-analyzer's ingestion worker: createIngestionProcessor *)

IngestIdle == ingest' = {} /\ pc' = "idle" /\ ticket' = 0

TakeIngest ==
    /\ pc = "idle" /\ ingests # <<>>
    /\ ingest' = {Head(ingests)}
    /\ ingests' = Tail(ingests)
    /\ pc' = "taken"
    /\ UNCHANGED <<pollVars, emailVars, later, ticket, done, failed, dbVars, historyVars, spent>>

ByReference(c) ==
    {e.ticket : e \in {x \in Elements(events) :
                         x.copy \notin NoMessageId /\ Message[x.copy] \in Refs[c]}}
OfSubject(c) == {t \in DOMAIN tickets : tickets[t].open /\ tickets[t].subject = Subject[c]}
BySubject(c) == {t \in OfSubject(c) : \A u \in OfSubject(c) : u <= t}

\* Variant: the subject is looked at before the references.
ThreadSubjectFirst(c) == IF BySubject(c) # {} THEN BySubject(c) ELSE ByReference(c)

\* The tickets that the mail may be a reply to.
Thread(c) == IF ByReference(c) # {} THEN ByReference(c) ELSE BySubject(c)

\* RESOLVE_THREAD finds a ticket: the mail is filed on it.
FileReply(j) ==
    /\ pc = "taken"
    /\ j.source \in Copies /\ ~Recorded(j.source)
    /\ \E t \in Thread(j.source) :
         /\ events' = Append(events, [ticket |-> t, copy |-> j.source])
         /\ ticket' = t
    /\ pc' = "filed"
    /\ UNCHANGED <<pollVars, emailVars, ingests, later, ingest, done, failed, tickets,
                   dispatched, noise, receipts, analyses, spent>>

\* maybeEnqueueReanalysis: see module TicketAnalysis.
ConsiderReanalysis(j) ==
    /\ pc = "filed"
    /\ pc' = "replied"
    /\ UNCHANGED <<pollVars, emailVars, ingests, later, ingest, ticket, done, failed, dbVars,
                   noise, receipts, analyses, spent>>

\* No ticket is found, or none is looked for.
NoThread(j) ==
    /\ pc = "taken"
    /\ j.source \in Copies => Thread(j.source) = {}
    /\ pc' = "new"
    /\ UNCHANGED <<pollVars, emailVars, ingests, later, ingest, ticket, done, failed, dbVars,
                   historyVars, spent>>

\* Variant: the new ticket goes without the event of its mail, and a receipt is sent for it.
MakeTicketOnly(j) ==
    /\ pc = "new"
    /\ tickets' = Append(tickets, [source |-> j.source, open |-> TRUE, subject |-> Subject[j.source]])
    /\ ticket' = Len(tickets) + 1
    /\ pc' = "recorded"
    /\ UNCHANGED <<pollVars, emailVars, ingests, later, ingest, done, failed, events,
                   dispatched, historyVars, spent>>

\* GENERATE_TITLE, which may fail and keep the title, and the row of CREATE_TICKET.
MakeTicket(j) ==
    /\ pc = "new"
    /\ \E reword \in Titles :
         tickets' = Append(tickets, [source |-> j.source, open |-> TRUE,
                             subject |-> IF reword THEN Reworded ELSE Subject[j.source]])
    /\ ticket' = Len(tickets) + 1
    /\ pc' = "created"
    /\ UNCHANGED <<pollVars, emailVars, ingests, later, ingest, done, failed, events,
                   dispatched, historyVars, spent>>

\* The first event of the new ticket: the mail, or a note without unique columns.
RecordFirst(j) ==
    /\ pc = "created"
    /\ IF j.source \in Copies
       THEN /\ ~Recorded(j.source)
            /\ events' = Append(events, [ticket |-> ticket, copy |-> j.source])
       ELSE UNCHANGED events
    /\ pc' = "recorded"
    /\ UNCHANGED <<pollVars, emailVars, ingests, later, ingest, ticket, done, failed, tickets,
                   dispatched, historyVars, spent>>

\* DRAFT_RECEIPT: whatever goes wrong here is not an error of the job.
Acknowledge(j) ==
    /\ pc = "recorded"
    /\ \E sent \in BOOLEAN :
         receipts' = IF sent /\ j.source \in Copies
                     THEN [receipts EXCEPT ![Key(j.source)] = @ + 1] ELSE receipts
    /\ pc' = "receipted"
    /\ UNCHANGED <<pollVars, emailVars, ingests, later, ingest, ticket, done, failed, dbVars,
                   noise, analyses, spent>>

Dispatch(j) ==
    /\ pc = "receipted"
    /\ dispatched' = dispatched \cup {ticket}
    /\ analyses' = IF j.source \in Copies
                   THEN [analyses EXCEPT ![Key(j.source)] = @ + 1] ELSE analyses
    /\ pc' = "dispatched"
    /\ UNCHANGED <<pollVars, emailVars, ingests, later, ingest, ticket, done, failed, tickets,
                   events, noise, receipts, spent>>

Complete(j) ==
    /\ pc \in {"replied", "dispatched"}
    /\ done' = done \cup {j.source}
    /\ IngestIdle
    /\ UNCHANGED <<pollVars, emailVars, ingests, later, failed, dbVars, historyVars, spent>>

\* The jobs that wait once the attempt of j has failed.
Retry(j) == IF j.attempt + 1 < MaxAttempts THEN later \cup {[j EXCEPT !.attempt = @ + 1]} ELSE later

\* The job threw: it is tried again after a back-off, or has failed for good.
GiveBack(j) ==
    /\ later' = Retry(j)
    /\ failed' = IF later' = later THEN failed \cup {j.source} ELSE failed
    /\ IngestIdle

IngestFails(j) ==
    /\ pc # "idle"
    /\ Spend("errors")
    /\ GiveBack(j)
    /\ UNCHANGED <<pollVars, emailVars, ingests, done, dbVars, historyVars>>

\* The unique columns refuse a second event of the mail.
Conflict(j) ==
    /\ j.source \in Copies /\ Recorded(j.source)
    /\ \/ pc = "created"
       \/ pc = "taken" /\ Thread(j.source) # {}
    /\ GiveBack(j)
    /\ UNCHANGED <<pollVars, emailVars, ingests, done, dbVars, historyVars, spent>>

IngestAgain(j) ==
    /\ later' = later \ {j}
    /\ ingests' = Append(ingests, j)
    /\ UNCHANGED <<pollVars, emailVars, ingest, pc, ticket, done, failed, dbVars,
                   historyVars, spent>>

\* As in imap-worker: a stalled job is given one more chance.
CrashAnalyzer ==
    /\ pc # "idle"
    /\ Spend("crashes")
    /\ \E j \in ingest :
         IF j.stalls = 0
         THEN /\ ingests' = <<[j EXCEPT !.stalls = 1]>> \o ingests
              /\ UNCHANGED failed
         ELSE /\ failed' = failed \cup {j.source}
              /\ UNCHANGED ingests
    /\ IngestIdle
    /\ UNCHANGED <<pollVars, emailVars, later, done, dbVars, historyVars>>

-----------------------------------------------------------------------------
PollStep == (\E c \in Copies : Fetch(Mailbox[c]) \/ AddEmail(c)) \/ Flag

EmailStep ==
    \/ TakeEmail
    \/ \E e \in email : SkipDuplicate(e) \/ Accept(e) \/ Filter(e) \/ AddIngest(e)

IngestStep ==
    \/ TakeIngest
    \/ \E j \in ingest :
         \/ FileReply(j) \/ ConsiderReanalysis(j) \/ NoThread(j) \/ MakeTicket(j)
         \/ RecordFirst(j) \/ Acknowledge(j) \/ Dispatch(j) \/ Complete(j) \/ Conflict(j)

BackOff == \E j \in later : IngestAgain(j)

Environment ==
    \/ \E c \in Copies : Arrive(c) \/ MarkUnread(c)
    \/ \E f \in Forms : Submit(f)
    \/ \E t \in DOMAIN tickets : Retire(t)

Trouble ==
    \/ PollFails \/ CrashImap \/ CrashAnalyzer
    \/ \E e \in email : EmailFails(e)
    \/ \E j \in ingest : IngestFails(j)

Next == PollStep \/ EmailStep \/ IngestStep \/ BackOff \/ Environment \/ Trouble

Spec == Init /\ [][Next]_vars

\* The poll loop, the workers and the queues' timers go on; nobody has to write
\* a mail, fill a form or close a ticket, and nothing has to fail.
FairSpec == Spec /\ WF_vars(PollStep) /\ WF_vars(EmailStep) /\ WF_vars(IngestStep)
                 /\ WF_vars(BackOff)

-----------------------------------------------------------------------------
(* Properties *)

\* The variables keep their types.
TypeOK ==
    /\ inbox \in [Copies -> {"absent", "unseen", "seen"}]
    /\ pollPc \in {"idle", "fetched", "flagged"} /\ batch \subseteq Copies
    /\ emails \in Seq(EmailJob) /\ email \subseteq EmailJob
    /\ emailPc \in {"idle", "taken", "accepted"} /\ emailFailed \subseteq Copies
    /\ ingests \in Seq(IngestJob) /\ later \subseteq IngestJob /\ ingest \subseteq IngestJob
    /\ pc \in {"idle", "taken", "filed", "replied", "new", "created", "recorded", "receipted",
               "dispatched"}
    /\ ticket \in Nat /\ done \subseteq Sources /\ failed \subseteq Sources
    /\ tickets \in Seq(Ticket) /\ events \in Seq(Event) /\ dispatched \subseteq Nat
    /\ noise \subseteq Copies
    /\ receipts \in [MailKeys -> Nat] /\ analyses \in [MailKeys -> Nat]
    /\ spent \in [DOMAIN Bounds -> Nat]

Ledger == INSTANCE MailLedger WITH Mails <- MailKeys, filed <- Filed

\* Over duplicates, retries and restarts of both processes, the database's
\* unique columns alone make the intake what MailLedger promises: filed once,
\* acknowledged and handed to analysis at most once, and only when filed.
LedgerHolds == Ledger!Spec

\* The mail has come to an end, or is with somebody who will go on with it.
Accounted(c) ==
    \/ Recorded(c)
    \/ c \in noise \cup emailFailed \cup failed \cup batch
    \/ c \in {e.copy : e \in Elements(emails) \cup email}
    \/ c \in {j.source : j \in IngestInFlight}

\* A mail flagged \Seen, which no poll will look at again, is on record, was
\* found to be noise, is named by a failed job, or is on its way, unless
\* imap-worker crashed or could not reach the queue: between the flag and the
\* queue nothing else knows of the mail.
MailAccounted ==
    spent.imap + spent.poll = 0 => \A c \in Copies : inbox[c] = "seen" => Accounted(c)

Mentions(c, e) == e.copy \notin NoMessageId /\ Message[e.copy] \in Refs[c]

\* A reply is filed on a ticket that has a mail it refers to, whenever one was
\* filed before it, also when tickets of the same subject are about.
ThreadKept ==
    \A k \in DOMAIN events :
      LET before == {events[i] : i \in {i \in 1 .. k - 1 : Mentions(events[k].copy, events[i])}} IN
      before # {} => events[k].ticket \in {e.ticket : e \in before}

\* The mailboxes and queues are at rest.
Quiet ==
    /\ pollPc = "idle" /\ \A c \in Copies : inbox[c] # "unseen"
    /\ emailPc = "idle" /\ emails = <<>>
    /\ pc = "idle" /\ IngestInFlight = {}

\* README.md: "safe to restart at any time without creating duplicate tickets".
OneTicketPerMail ==
    \A t, u \in DOMAIN tickets :
      t # u /\ {tickets[t].source, tickets[u].source} \subseteq Copies
        => Key(tickets[t].source) # Key(tickets[u].source)

=============================================================================
