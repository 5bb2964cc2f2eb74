----------------------------- MODULE TicketAnalysis -----------------------------
(***************************************************************************)
(* The analysis of one ticket: the route dispatcher takes the ticket from  *)
(* queue 'ticket-created' and puts a job into queue 'ticket-analysis', the *)
(* analyzer runs the job's pipeline and writes to the requester, replies   *)
(* that arrive by e-mail, an operator's "Retry Analysis" and the chat tab  *)
(* ask for re-analyses, and the requester is asked again until the ticket  *)
(* is understood or given up.                                              *)
(*                                                                         *)
(* Three processes write the ticket's row: copilot-api's handlers, and in  *)
(* ticket-analyzer the dispatcher, the analysis worker and the ingestion   *)
(* worker (three BullMQ workers of concurrency one in one OS process).     *)
(* The row of other tickets and what is said in a mail play no part.  Log  *)
(* records, notes on the ticket and the summary are write-only.            *)
(***************************************************************************)
EXTENDS Integers, Sequences, FiniteSets

CONSTANTS
    Operators,           \* requests of the control panel that may be in flight
    MaxReanalysisCount,  \* MAX_REANALYSIS_COUNT
    EscalateAfter,       \* re-analyses after which open questions are given up
    MaxAttempts,         \* the 'attempts' of every queue job
    Verdicts,            \* what an analysis may find: subset of SufficiencyStatus
    Deliveries,          \* whether a mail may go out, may be blocked: subset of BOOLEAN
    MaxReplies,          \* bound on the replies that arrive
    MaxClicks,           \* bound on "Retry Analysis"
    MaxChats,            \* bound on chat messages and mode picks
    MaxPatches,          \* bound on status changes by hand
    MaxErrors,           \* bound on errors while a queue job is processed
    MaxOutages,          \* bound on requests that cannot reach Redis
    MaxCrashes           \* bound on crashes of ticket-analyzer

ASSUME BoundsAssumption ==
    /\ MaxReanalysisCount \in Nat
    /\ {EscalateAfter, MaxAttempts} \subseteq Nat \ {0}
    /\ MaxReplies \in Nat /\ MaxClicks \in Nat /\ MaxChats \in Nat
    /\ MaxPatches \in Nat /\ MaxErrors \in Nat /\ MaxOutages \in Nat
    /\ MaxCrashes \in Nat
    /\ Verdicts # {} /\ Verdicts \subseteq {"NONE", "SUFFICIENT", "NEEDS_USER_INPUT", "INSUFFICIENT"}
    /\ Deliveries # {} /\ Deliveries \subseteq BOOLEAN

VARIABLES
    \* the ticket and its events
    status, analysisStatus, sufficiencyStatus, reanalysisCount,
    thread,      \* what people wrote: "mail" (EMAIL_INBOUND) and "chat"
    findings,    \* the types of the findings mails sent
    \* queue 'ticket-created' and its worker
    created,     \* jobs waiting, in order
    createdLater,\* jobs waiting for their back-off to pass
    dispatching, \* the job being processed: a set of at most one
    dispatchPc,
    \* queue 'ticket-analysis' and its worker
    wait, delayed, active, pc,
    finished,    \* ids of the completed and failed jobs that are kept
    read,        \* how much of the thread the running job has loaded
    ask,         \* the running job found that the requester must be asked
    \* the ingestion worker on a reply, and the control panel's requests
    ingest, request,
    \* history, read by the properties only
    covered,     \* how much of the thread a finished analysis has read
    cycles,      \* re-analyses that ended with COMPLETED
    rounds,      \* re-analyses that asked the requester again
    skipped,     \* replies for which no job was added, and why
    limited,     \* a re-analysis was refused for the limit
    spent

ticketVars   == <<status, analysisStatus, sufficiencyStatus, reanalysisCount, thread, findings>>
dispatchVars == <<created, createdLater, dispatching, dispatchPc>>
analysisVars == <<wait, delayed, active, pc, finished, read, ask>>
callVars     == <<ingest, request>>
historyVars  == <<covered, cycles, rounds, skipped, limited>>
vars == <<ticketVars, dispatchVars, analysisVars, callVars, historyVars, spent>>

-----------------------------------------------------------------------------
OpenStatus == {"NEW", "OPEN", "IN_PROGRESS", "WAITING"}
Status == OpenStatus \cup {"CLOSED"}
AnalysisStatus == {"PENDING", "IN_PROGRESS", "COMPLETED", "FAILED"}
SufficiencyStatus == {"NONE", "SUFFICIENT", "NEEDS_USER_INPUT", "INSUFFICIENT"}
FindingsType == {"analysis_findings", "analysis_findings_with_questions", "reanalysis_findings"}

\* A queue job.  Its id is made of the kind and n: 'analysis-<ticket>' for the
\* initial job, 'reanalysis-<ticket>-<n>' for a click and for a reply, and
\* 'chat-reanalysis-<ticket>-<n>' for a message of the chat tab.
Kinds == {"initial", "click", "reply", "chat"}
Job == [kind : Kinds, n : Nat, trigger : Nat, attempt : Nat, stalls : {0, 1}]
NewJob(kind, n, trigger) ==
    [kind |-> kind, n |-> n, trigger |-> trigger, attempt |-> 0, stalls |-> 0]
Id(j) == <<j.kind, j.n>>
IsReanalysis(j) == j.kind # "initial"

Bounds == [replies |-> MaxReplies, clicks |-> MaxClicks, chats |-> MaxChats,
           patches |-> MaxPatches, errors |-> MaxErrors, outages |-> MaxOutages,
           crashes |-> MaxCrashes]

Spend(what) ==
    /\ spent[what] < Bounds[what]
    /\ spent' = [spent EXCEPT ![what] = @ + 1]

NotIngesting == [pc |-> "idle", reply |-> 0]

\* A request has a number, or is about an event: a message of the chat tab.
NoRequest == [pc |-> "idle", n |-> 0, prior |-> "PENDING"]
ChatRequest(event) == [pc |-> "chat", n |-> event, prior |-> "PENDING"]

Elements(s) == {s[i] : i \in DOMAIN s}
InFlight == Elements(wait) \cup delayed \cup active
KnownIds == {Id(j) : j \in InFlight} \cup finished

\* BullMQ's add: nothing is added under an id that is known.
Enqueue(j) == wait' = IF Id(j) \in KnownIds THEN wait ELSE Append(wait, j)

\* The ticket has just been created, from an e-mail or by hand, and its job is
\* in 'ticket-created'.
Init ==
    /\ status = "NEW" /\ analysisStatus = "PENDING"
    /\ sufficiencyStatus = "NONE" /\ reanalysisCount = 0
    /\ thread \in {<<>>, <<"mail">>}
    /\ findings = {}
    /\ created = <<NewJob("initial", 0, 0)>>
    /\ createdLater = {} /\ dispatching = {} /\ dispatchPc = "idle"
    /\ wait = <<>> /\ delayed = {} /\ active = {} /\ pc = "idle"
    /\ finished = {} /\ read = {} /\ ask = FALSE
    /\ ingest = NotIngesting
    /\ request = [o \in Operators |-> NoRequest]
    /\ covered = {} /\ cycles = 0 /\ rounds = 0 /\ skipped = {} /\ limited = FALSE
    /\ spent = [w \in DOMAIN Bounds |-> 0]

-----------------------------------------------------------------------------
(* The route dispatcher: processTicketCreated *)

DispatchTake ==
    /\ dispatchPc = "idle" /\ created # <<>>
    /\ dispatching' = {Head(created)}
    /\ created' = Tail(created)
    /\ dispatchPc' = "taken"
    /\ UNCHANGED <<ticketVars, createdLater, analysisVars, callVars, historyVars, spent>>

DispatchMark ==
    /\ dispatchPc = "taken"
    /\ analysisStatus' = "IN_PROGRESS"
    /\ dispatchPc' = "marked"
    /\ UNCHANGED <<status, sufficiencyStatus, reanalysisCount, thread, findings, created,
                   createdLater, dispatching, analysisVars, callVars, historyVars, spent>>

\* The job added for outer job d: its id is stable when d is processed again.
InnerJob(d) == NewJob(d.kind, d.n, 0)

DispatchAdd(d) ==
    /\ dispatchPc = "marked"
    /\ Enqueue(InnerJob(d))
    /\ dispatching' = {}
    /\ dispatchPc' = "idle"
    /\ UNCHANGED <<ticketVars, created, createdLater, delayed, active, pc, finished,
                   read, ask, callVars, historyVars, spent>>

\* The job is tried again after a back-off, or given up.
DispatchFails(d) ==
    /\ dispatchPc # "idle"
    /\ Spend("errors")
    /\ createdLater' = IF d.attempt + 1 < MaxAttempts
                       THEN createdLater \cup {[d EXCEPT !.attempt = @ + 1]}
                       ELSE createdLater
    /\ dispatching' = {}
    /\ dispatchPc' = "idle"
    /\ UNCHANGED <<ticketVars, created, analysisVars, callVars, historyVars>>

DispatchAgain(d) ==
    /\ createdLater' = createdLater \ {d}
    /\ created' = Append(created, d)
    /\ UNCHANGED <<ticketVars, dispatching, dispatchPc, analysisVars, callVars,
                   historyVars, spent>>

-----------------------------------------------------------------------------
(* The analysis worker: processAnalysis *)

\* The job ends, successfully or for good, and its id is kept.
Leave(j) ==
    /\ active' = {}
    /\ pc' = "idle" /\ read' = {} /\ ask' = FALSE
    /\ finished' = finished \cup {Id(j)}

Take ==
    /\ pc = "idle" /\ wait # <<>>
    /\ active' = {Head(wait)}
    /\ wait' = Tail(wait)
    /\ pc' = "taken"
    /\ UNCHANGED <<ticketVars, dispatchVars, delayed, finished, read, ask, callVars,
                   historyVars, spent>>

\* Variant: one cycle too many.
WithinLimitOff(n) == n <= MaxReanalysisCount

WithinLimit(n) == n < MaxReanalysisCount
Counts(j) == IsReanalysis(j) /\ j.attempt = 0

\* The loop guard, on the first attempt of a re-analysis only.
Guard(j) ==
    /\ pc = "taken"
    /\ IF Counts(j) /\ WithinLimit(reanalysisCount)
       THEN reanalysisCount' = reanalysisCount + 1
       ELSE UNCHANGED reanalysisCount
    /\ pc' = IF Counts(j) /\ ~WithinLimit(reanalysisCount) THEN "limit" ELSE "guarded"
    /\ UNCHANGED <<status, analysisStatus, sufficiencyStatus, thread, findings, dispatchVars,
                   wait, delayed, active, finished, read, ask, callVars, historyVars, spent>>

\* The limit is reached: a note is written and the job ends.
Refuse(j) ==
    /\ pc = "limit"
    /\ Leave(j)
    /\ limited' = TRUE
    /\ UNCHANGED <<ticketVars, dispatchVars, wait, delayed, callVars,
                   covered, cycles, rounds, skipped, spent>>

Mails == {i \in DOMAIN thread : thread[i] = "mail"}
First(S) == {i \in S : \A k \in S : i <= k}

\* Variant: a re-analysis reads up to the reply it was made for.
ReadsTrigger(j) == IF IsReanalysis(j) THEN 1 .. j.trigger ELSE First(Mails)

\* What a job reads: a re-analysis the whole conversation, the initial one the
\* earliest mail, from which the ticket was made.
Reads(j) == IF IsReanalysis(j) THEN DOMAIN thread ELSE First(Mails)

Load(j) ==
    /\ pc = "guarded"
    /\ IsReanalysis(j) => thread # <<>>
    /\ read' = Reads(j)
    /\ pc' = "loaded"
    /\ UNCHANGED <<ticketVars, dispatchVars, wait, delayed, active, finished, ask,
                   callVars, historyVars, spent>>

\* A re-analysis with nothing that a person wrote to answer (#384) ends, and
\* its cycle is given back.
Skip(j) ==
    /\ pc = "guarded"
    /\ IsReanalysis(j) /\ thread = <<>>
    /\ analysisStatus' = "COMPLETED"
    /\ reanalysisCount' = reanalysisCount - 1
    /\ Leave(j)
    /\ UNCHANGED <<status, sufficiencyStatus, thread, findings, dispatchVars, wait,
                   delayed, callVars, historyVars, spent>>

\* Variant: the threshold is passed a cycle late.
EscalatedLate(v) ==
    IF v = "NEEDS_USER_INPUT" /\ reanalysisCount > EscalateAfter THEN "INSUFFICIENT" ELSE v

\* Questions that stay open after EscalateAfter re-analyses are given up.
Escalated(v) ==
    IF v = "NEEDS_USER_INPUT" /\ reanalysisCount >= EscalateAfter THEN "INSUFFICIENT" ELSE v

StatusAfterVerdict(j, v) ==
    IF v = "NEEDS_USER_INPUT" THEN "WAITING"
    ELSE IF IsReanalysis(j) /\ v = "SUFFICIENT" /\ sufficiencyStatus # "SUFFICIENT"
         THEN "IN_PROGRESS" ELSE status

\* AGENTIC_ANALYSIS of the initial route: it may find no tools and do nothing.
Analyse(j) ==
    /\ pc = "loaded"
    /\ ~IsReanalysis(j)
    /\ \E v \in Verdicts :
         /\ sufficiencyStatus' = IF v = "NONE" THEN sufficiencyStatus ELSE v
         /\ status' = StatusAfterVerdict(j, v)
         /\ ask' = (v = "NEEDS_USER_INPUT")
    /\ pc' = "analysed"
    /\ UNCHANGED <<analysisStatus, reanalysisCount, thread, findings, dispatchVars, wait,
                   delayed, active, finished, read, callVars, historyVars, spent>>

\* UPDATE_ANALYSIS of the re-analysis route.
Update(j) ==
    /\ pc = "loaded"
    /\ IsReanalysis(j)
    /\ \E w \in Verdicts \ {"NONE"} : LET v == Escalated(w) IN
         /\ sufficiencyStatus' = v
         /\ status' = StatusAfterVerdict(j, v)
         /\ ask' = (v = "NEEDS_USER_INPUT")
         /\ rounds' = IF v = "NEEDS_USER_INPUT" THEN rounds + 1 ELSE rounds
    /\ pc' = "analysed"
    /\ UNCHANGED <<analysisStatus, reanalysisCount, thread, findings, dispatchVars, wait,
                   delayed, active, finished, read, callVars, covered, cycles, skipped,
                   limited, spent>>

TypeOfFindings(j) ==
    IF IsReanalysis(j) THEN "reanalysis_findings"
    ELSE IF ask THEN "analysis_findings_with_questions" ELSE "analysis_findings"

\* DRAFT_FINDINGS_EMAIL: nothing is sent without an address, and sending may be
\* blocked (no SMTP, or the address is one of the product's own inboxes).
Send(j) ==
    /\ pc = "analysed"
    /\ \E free \in Deliveries : LET sent == free /\ Mails # {} IN
         /\ findings' = IF sent THEN findings \cup {TypeOfFindings(j)} ELSE findings
         /\ status' = IF sent /\ ask THEN "WAITING" ELSE status
    /\ pc' = "sent"
    /\ UNCHANGED <<analysisStatus, sufficiencyStatus, reanalysisCount, thread, dispatchVars,
                   wait, delayed, active, finished, read, ask, callVars, historyVars, spent>>

\* COMPLETED is written; a re-analysis ends here.
Conclude(j) ==
    /\ pc = "sent"
    /\ analysisStatus' = "COMPLETED"
    /\ covered' = covered \cup read
    /\ IF IsReanalysis(j)
       THEN Leave(j) /\ cycles' = cycles + 1
       ELSE pc' = "completed" /\ UNCHANGED <<active, finished, read, ask, cycles>>
    /\ UNCHANGED <<status, sufficiencyStatus, reanalysisCount, thread, findings, dispatchVars,
                   wait, delayed, callVars, rounds, skipped, limited, spent>>

\* Variant: the status is moved whatever it is.
StatusWhenAnalysedAlways == "OPEN"

StatusWhenAnalysed == IF status = "NEW" THEN "OPEN" ELSE status

\* The initial run ends by opening a new ticket.
Open(j) ==
    /\ pc = "completed"
    /\ status' = StatusWhenAnalysed
    /\ Leave(j)
    /\ UNCHANGED <<analysisStatus, sufficiencyStatus, reanalysisCount, thread, findings,
                   dispatchVars, wait, delayed, callVars, historyVars, spent>>

\* A job that threw is tried again after a back-off until its attempts are used.
TryAgain(j) ==
    /\ IF j.attempt + 1 < MaxAttempts
       THEN /\ delayed' = delayed \cup {[j EXCEPT !.attempt = @ + 1]}
            /\ UNCHANGED finished
       ELSE /\ finished' = finished \cup {Id(j)}
            /\ UNCHANGED delayed
    /\ active' = {}
    /\ pc' = "idle" /\ read' = {} /\ ask' = FALSE

\* The pipeline throws: FAILED and a note are written, and the error goes on.
Fail(j) ==
    /\ pc \in {"guarded", "loaded", "analysed", "sent", "completed"}
    /\ Spend("errors")
    /\ analysisStatus' = "FAILED"
    /\ TryAgain(j)
    /\ UNCHANGED <<status, sufficiencyStatus, reanalysisCount, thread, findings, dispatchVars,
                   wait, callVars, historyVars>>

\* An error before the pipeline's try block, or one that takes the write of
\* FAILED with it: nothing is written.
FailUnrecorded(j) ==
    /\ pc # "idle"
    /\ Spend("errors")
    /\ TryAgain(j)
    /\ UNCHANGED <<ticketVars, dispatchVars, wait, callVars, historyVars>>

Again(j) ==
    /\ delayed' = delayed \ {j}
    /\ wait' = Append(wait, j)
    /\ UNCHANGED <<ticketVars, dispatchVars, active, pc, finished, read, ask, callVars,
                   historyVars, spent>>

-----------------------------------------------------------------------------
(* A reply: RESOLVE_THREAD appends it and calls maybeEnqueueReanalysis *)

Skipped == [reply : Nat, why : {"closed", "early", "answer", "unsent", "redundant", "busy", "lost"}]

\* Variant: a reply that may not be taken up now is looked at again.
SkipReplyAgain(why) ==
    /\ ingest' = [ingest EXCEPT !.pc = "recorded"]
    /\ skipped' = skipped \cup {[reply |-> ingest.reply, why |-> why]}

SkipReply(why) ==
    /\ ingest' = NotIngesting
    /\ skipped' = skipped \cup {[reply |-> ingest.reply, why |-> why]}

ReplyArrives ==
    /\ ingest.pc = "idle"
    /\ Spend("replies")
    /\ thread' = Append(thread, "mail")
    /\ ingest' = [pc |-> "recorded", reply |-> Len(thread) + 1]
    /\ UNCHANGED <<status, analysisStatus, sufficiencyStatus, reanalysisCount, findings,
                   dispatchVars, analysisVars, request, historyVars>>

\* The findings mails after which a reply is taken up.
Recognised == {"analysis_findings", "reanalysis_findings"}

InitialDone == <<"initial", 0>> \in finished

ReplyGate ==
    /\ ingest.pc = "recorded"
    /\ IF status \in OpenStatus /\ findings \cap Recognised # {}
       THEN ingest' = [ingest EXCEPT !.pc = "passed"] /\ UNCHANGED skipped
       ELSE SkipReply(IF status \notin OpenStatus THEN "closed"
                      ELSE IF findings # {} THEN "answer"
                      ELSE IF InitialDone THEN "unsent" ELSE "early")
    /\ UNCHANGED <<ticketVars, dispatchVars, analysisVars, request, covered, cycles, rounds,
                   limited, spent>>

\* Variant: only the jobs that wait are looked at.
PendingWaiting == {j \in Elements(wait) : j.kind \in {"click", "reply"}}

\* The re-analysis jobs the scan of the queue finds, by the prefix of their id.
Pending == {j \in InFlight : j.kind \in {"click", "reply"}}

\* Whether one of them has yet to read the conversation.
StillToRead == \E j \in Pending : j \notin active \/ pc \in {"taken", "guarded"}

ReplyScan ==
    /\ ingest.pc = "passed"
    /\ IF Pending = {}
       THEN ingest' = [ingest EXCEPT !.pc = "clear"] /\ UNCHANGED skipped
       ELSE SkipReply(IF StillToRead THEN "redundant" ELSE "busy")
    /\ UNCHANGED <<ticketVars, dispatchVars, analysisVars, request, covered, cycles, rounds,
                   limited, spent>>

Last(S) == CHOOSE i \in S : \A k \in S : k <= i

ReplyAdd ==
    /\ ingest.pc = "clear"
    /\ Enqueue(NewJob("reply", ingest.reply, Last(Mails)))
    /\ ingest' = NotIngesting
    /\ UNCHANGED <<ticketVars, dispatchVars, delayed, active, pc, finished, read, ask,
                   request, historyVars, spent>>

\* The ingestion job fails after the event was written; when it is tried again
\* the event's unique mail id makes it fail at once.
ReplyFails ==
    /\ ingest.pc # "idle"
    /\ Spend("errors")
    /\ SkipReply("lost")
    /\ UNCHANGED <<ticketVars, dispatchVars, analysisVars, request, covered, cycles, rounds,
                   limited>>

-----------------------------------------------------------------------------
(* The control panel: "Retry Analysis", the chat tab, a change of status *)

Idle(o) == request[o].pc = "idle"
Step(o, r) == request' = [request EXCEPT ![o] = r]
Done(o) == Step(o, NoRequest)

ClickRead(o) ==
    /\ Idle(o)
    /\ Spend("clicks")
    /\ Step(o, [pc |-> "read", n |-> spent.clicks + 1, prior |-> analysisStatus])
    /\ UNCHANGED <<ticketVars, dispatchVars, analysisVars, ingest, historyVars>>

\* Variants: the status is written only after the job is added; a status that
\* the column does not have.
StatusOnceAddedLate == "PENDING"
StatusOnceAddedOwn == "QUEUED"

\* What is written to analysisStatus once the job is added: nothing.
StatusOnceAdded == analysisStatus

ClickMark(o) ==
    /\ request[o].pc = "read"
    /\ analysisStatus' = "PENDING"
    /\ Step(o, [request[o] EXCEPT !.pc = "marked"])
    /\ UNCHANGED <<status, sufficiencyStatus, reanalysisCount, thread, findings, dispatchVars,
                   analysisVars, ingest, historyVars, spent>>

ClickAdd(o) ==
    /\ request[o].pc = "marked"
    /\ created' = Append(created, NewJob("click", request[o].n, 0))
    /\ Step(o, [request[o] EXCEPT !.pc = "added"])
    /\ UNCHANGED <<ticketVars, createdLater, dispatching, dispatchPc, analysisVars, ingest,
                   historyVars, spent>>

ClickEnd(o) ==
    /\ request[o].pc = "added"
    /\ analysisStatus' = StatusOnceAdded
    /\ Done(o)
    /\ UNCHANGED <<status, sufficiencyStatus, reanalysisCount, thread, findings, dispatchVars,
                   analysisVars, ingest, historyVars, spent>>

\* Adding the job throws: the status is put back if it is still PENDING.
ClickFails(o) ==
    /\ request[o].pc = "marked"
    /\ Spend("outages")
    /\ analysisStatus' = IF analysisStatus = "PENDING" THEN request[o].prior ELSE analysisStatus
    /\ Done(o)
    /\ UNCHANGED <<status, sufficiencyStatus, reanalysisCount, thread, findings, dispatchVars,
                   analysisVars, ingest, historyVars>>

\* A chat message is stored; whether it calls for a re-analysis is classified.
ChatPost(o) ==
    /\ Idle(o)
    /\ Spend("chats")
    /\ thread' = Append(thread, "chat")
    /\ \/ Step(o, ChatRequest(Len(thread) + 1))
       \/ UNCHANGED request
    /\ UNCHANGED <<status, analysisStatus, sufficiencyStatus, reanalysisCount, findings,
                   dispatchVars, analysisVars, ingest, historyVars>>

\* pick-mode: the operator says what a stored message is about.
ChatPick(o) ==
    /\ Idle(o)
    /\ Spend("chats")
    /\ \E i \in {i \in DOMAIN thread : thread[i] = "chat"} : Step(o, ChatRequest(i))
    /\ UNCHANGED <<ticketVars, dispatchVars, analysisVars, ingest, historyVars>>

\* enqueueChatReanalysis: a job of the message that has not ended is enough; one
\* that has ended is removed and added anew.
ChatAdd(o) ==
    /\ request[o].pc = "chat"
    /\ LET j == NewJob("chat", request[o].n, request[o].n) IN
         IF \E k \in InFlight : Id(k) = Id(j)
         THEN Done(o) /\ UNCHANGED <<wait, finished>>
         ELSE /\ wait' = Append(wait, j)
              /\ finished' = finished \ {Id(j)}
              /\ Step(o, [request[o] EXCEPT !.pc = "chatAdded"])
    /\ UNCHANGED <<ticketVars, dispatchVars, delayed, active, pc, read, ask, ingest,
                   historyVars, spent>>

ChatMark(o) ==
    /\ request[o].pc = "chatAdded"
    /\ analysisStatus' = "PENDING"
    /\ Done(o)
    /\ UNCHANGED <<status, sufficiencyStatus, reanalysisCount, thread, findings, dispatchVars,
                   analysisVars, ingest, historyVars, spent>>

\* PATCH of the ticket's status.
Patch ==
    /\ Spend("patches")
    /\ status' \in Status \ {status}
    /\ UNCHANGED <<analysisStatus, sufficiencyStatus, reanalysisCount, thread, findings,
                   dispatchVars, analysisVars, callVars, historyVars>>

-----------------------------------------------------------------------------
\* The job that was in work, to be taken next: one that has not stalled before.
Front(jobs) ==
    LET again == {[j EXCEPT !.stalls = 1] : j \in {k \in jobs : k.stalls = 0}}
    IN  IF again = {} THEN <<>> ELSE <<CHOOSE j \in again : TRUE>>

\* ticket-analyzer dies and is restarted.  BullMQ finds the jobs that were in
\* work and puts each back, or fails it if that happened before; a reply in work
\* is lost as in ReplyFails.
Crash ==
    /\ active # {} \/ dispatching # {} \/ ingest.pc # "idle"
    /\ Spend("crashes")
    /\ wait' = Front(active) \o wait
    /\ created' = Front(dispatching) \o created
    /\ finished' = finished \cup {Id(j) : j \in {k \in active : k.stalls # 0}}
    /\ active' = {} /\ pc' = "idle" /\ read' = {} /\ ask' = FALSE
    /\ dispatching' = {} /\ dispatchPc' = "idle"
    /\ IF ingest.pc = "idle" THEN UNCHANGED <<ingest, skipped>> ELSE SkipReply("lost")
    /\ UNCHANGED <<ticketVars, createdLater, delayed, request, covered, cycles,
                   rounds, limited>>

Dispatch ==
    \/ DispatchTake \/ DispatchMark
    \/ \E d \in dispatching : DispatchAdd(d)

Process(j) ==
    \/ Guard(j) \/ Refuse(j) \/ Load(j) \/ Skip(j) \/ Analyse(j) \/ Update(j) \/ Send(j)
    \/ Conclude(j) \/ Open(j)

Analysis == Take \/ \E j \in active : Process(j)

BackOff ==
    \/ \E j \in delayed : Again(j)
    \/ \E d \in createdLater : DispatchAgain(d)

Ingest == ReplyGate \/ ReplyScan \/ ReplyAdd

Handle(o) == ClickMark(o) \/ ClickAdd(o) \/ ClickEnd(o) \/ ChatAdd(o) \/ ChatMark(o)

Request(o) == ClickRead(o) \/ ChatPost(o) \/ ChatPick(o)

Trouble ==
    \/ Crash \/ ReplyFails
    \/ \E j \in active : Fail(j) \/ FailUnrecorded(j)
    \/ \E d \in dispatching : DispatchFails(d)
    \/ \E o \in Operators : ClickFails(o)

Next ==
    \/ Dispatch \/ Analysis \/ BackOff \/ Ingest \/ Trouble
    \/ \E o \in Operators : Handle(o) \/ Request(o)
    \/ ReplyArrives \/ Patch

Spec == Init /\ [][Next]_vars

\* The three workers keep taking jobs, back-offs pass, and an accepted request
\* is handled to its end.  Nobody has to write, click or reply.
Fairness ==
    /\ WF_vars(Dispatch) /\ WF_vars(Analysis) /\ WF_vars(Ingest)
    /\ WF_vars(BackOff)
    /\ \A o \in Operators : WF_vars(Handle(o))

FairSpec == Spec /\ Fairness

-----------------------------------------------------------------------------
(* Properties *)

Ingesting == [pc : {"idle", "recorded", "passed", "clear"}, reply : Nat]
Requested == [pc : {"idle", "read", "marked", "added", "chat", "chatAdded"}, n : Nat, prior : AnalysisStatus]

TicketTypes ==
    /\ status \in Status /\ analysisStatus \in AnalysisStatus
    /\ sufficiencyStatus \in SufficiencyStatus /\ reanalysisCount \in Int
    /\ thread \in Seq({"mail", "chat"}) /\ findings \subseteq FindingsType
DispatchTypes ==
    /\ created \in Seq(Job) /\ createdLater \subseteq Job /\ dispatching \subseteq Job
    /\ dispatchPc \in {"idle", "taken", "marked"}
AnalysisTypes ==
    /\ wait \in Seq(Job) /\ delayed \subseteq Job /\ active \subseteq Job
    /\ pc \in {"idle", "taken", "guarded", "limit", "loaded", "analysed", "sent", "completed"}
    /\ finished \subseteq Kinds \X Nat /\ read \subseteq Nat /\ ask \in BOOLEAN
CallTypes == ingest \in Ingesting /\ request \in [Operators -> Requested]
HistoryTypes ==
    /\ covered \subseteq Nat /\ cycles \in Nat /\ rounds \in Nat
    /\ skipped \subseteq Skipped /\ limited \in BOOLEAN
SpentTypes == spent \in [DOMAIN Bounds -> Nat]

\* The values each variable may hold.
TypeOK == TicketTypes /\ DispatchTypes /\ AnalysisTypes /\ CallTypes /\ HistoryTypes /\ SpentTypes

\* Nothing is queued or in work for the ticket.
Quiet ==
    /\ created = <<>> /\ createdLater = {} /\ dispatching = {}
    /\ wait = <<>> /\ delayed = {} /\ active = {}
    /\ ingest.pc = "idle" /\ \A o \in Operators : Idle(o)

\* However replies, clicks and retries interleave, replies never put two
\* re-analyses of their own into the queue ("so rapid-fire replies don't queue
\* up redundant work").
OneReplyJob == Cardinality({j \in InFlight : j.kind = "reply"}) <= 1

\* While no job throws, every finished re-analysis has been counted and the
\* count stays within the limit, whatever crashes, clicks and chats there are.
CyclesCounted ==
    spent.errors = 0 => cycles <= reanalysisCount /\ reanalysisCount <= MaxReanalysisCount

\* While no job throws, the requester is asked again by fewer re-analyses than
\* it takes to escalate.
RoundsBounded == spent.errors = 0 => rounds < EscalateAfter

\* A ticket at rest waits for its requester when the last analysis asked, and,
\* if no run was cut short or overtaken by the chat tab, only then: the
\* transition to OPEN at the end of the initial run, a retry of it and a
\* re-analysis do not undo each other.
WaitingWhenAsked ==
    Quiet /\ spent.patches = 0 =>
        /\ sufficiencyStatus = "NEEDS_USER_INPUT" => status = "WAITING"
        /\ spent.errors + spent.crashes + spent.chats = 0 /\ sufficiencyStatus = "SUFFICIENT" =>
              status # "WAITING"

Settled == analysisStatus \in {"COMPLETED", "FAILED"}

\* A ticket for which nothing is queued or running does not say that its
\* analysis is pending or in progress, over clicks, replies, errors and a crash
\* in any order, while the limit is not reached, Redis can be reached, the chat
\* tab is not used and no job uses up its attempts.  Without any one of these
\* conditions the code strands the ticket.
SettledWhenQuiet ==
    /\ Quiet /\ ~limited
    /\ spent.outages + spent.chats = 0
    /\ spent.errors < MaxAttempts
    /\ spent.crashes <= 1
    => Settled

\* A reply for which a job was already waiting is read by that job, or by its
\* next attempt, unless the job is lost or refused.
RedundantReplyRead ==
    Quiet /\ ~limited /\ spent.errors < MaxAttempts /\ spent.crashes <= 1 =>
        \A s \in skipped : s.why = "redundant" => s.reply \in covered

\* The reply to a mail that asked questions is analysed.  The code breaks it:
\* that mail's type is not among those the gate looks for.
AnswerRead == Quiet => \A s \in skipped : s.why = "answer" => s.reply \in covered

\* The queues come to rest and the ticket with them, once people stop writing.
ComesToRest == <>[]Quiet

=============================================================================
