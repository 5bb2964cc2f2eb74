# Bronco: formal models

TLA+ models of the workflows of Bronco, the AI-assisted operations platform of this repository, with
TLC configurations that check them on small instances and proofs that TLAPS checks for every value of
the constants. Line numbers below refer to the repository.

    tlc -workers 2 -config IssueSafety.cfg MCIssueResolution.tla     (any run of PROJECT.json)
    tlapm IssueResolutionProofs.tla                                  (or any other <module>Proofs.tla)

Contents: 1 the system, 2 the modules, 3 the runs, 4 fairness, 5 the proofs, 6 what the models leave
out, 7 what the code does that no property promises, 8 the plan.

## 1. The system

Bronco is a set of Node.js processes (`docker-compose.yml`, each with `restart: unless-stopped`)
around one PostgreSQL database (Prisma) and one Redis (BullMQ). They call each other little: a
process writes rows and adds queue jobs, another process takes the job and reads the rows. Inside one
process everything is single-threaded, but every `await` is a point where another handler may run, and
between processes any two statements may interleave. Two consequences run through all the components:

- a row and the queue job that goes with it are two writes, and the process may die or lose its
  database or Redis between them;
- a BullMQ worker of concurrency one processes one job at a time, but a job can be processed *again*:
  a job whose process died is put back once (`maxStalledCount` 1), a job added with `attempts` is tried
  again after a back-off, an administrator may retry a failed one. A job added under an id that the
  queue still knows, in whatever state, is dropped without an error.

### Components

| component | state | operations | hard behaviour | correct when |
|---|---|---|---|---|
| **issue resolution** (copilot-api `routes/issue-jobs.ts`, mcp-platform, slack-worker, issue-resolver) | row of `issue_jobs` (status, plan, revision, approval); queue `issue-resolve` | create, approve, reject over REST, MCP, Slack; worker: clone, analyse, plan, execute, push | two deciders and a worker on one row; checks before awaits; reruns | only approved plans are executed, once; an approval leads somewhere |
| **ticket analysis** (ticket-analyzer `analyzer.ts`, copilot-api `routes/tickets.ts`) | `status`, `analysisStatus`, `sufficiencyStatus`, `reanalysisCount`, events; queues `ticket-created`, `ticket-analysis` | dispatch, analyse, re-analyse, ask the requester, take up replies, retry, chat | three workers and HTTP handlers write one row; loop guards; retries | no reply is lost, the loop ends, the status tells the truth |
| **imap-worker** | mailboxes' `\Seen` flags; queue `email-ingestion` | poll, flag, queue, drop duplicates and noise | flag before queue; redelivery; two mailboxes | no mail vanishes |
| **ticket ingestion** (ticket-analyzer `ingestion-engine.ts`) | tickets, events with unique mail ids; queue `ticket-ingest` | find the thread, make a ticket, record, acknowledge, dispatch | separate writes, repeated from the start by a retry | a mail is filed once, on its thread, acknowledged once |
| **devops-worker** | row of `devops_sync_states`; events; an in-memory lock; queue `devops-sync` | mirror revisions and comments; analyse, ask, plan, seek approval, execute | the conversation is read back from the last events; compare-and-swap; errors half-way | only the plan people saw is executed; nobody is left without an answer |
| **pending actions** (ticket-analyzer, copilot-api, mcp-platform) | `pending_actions`, the ticket's fields, levels in the settings | recommend, execute, queue, approve, dismiss, by route and by tool | looks before awaits; a copy of the ticket that is kept up to date by hand | carried out at most once, never after a dismissal, unasked only at level auto |
| **mcp-database pools** | map of connection pools, cache of systems, a shared reload, in memory | get, reload, close idle, shut down | connecting and reading take awaits, callers share promises | what is open is known, and has the current configuration |
| **mcp-repo worktrees** | maps of clones, worktrees and pending creations in memory; directories; git's list | clone, fetch, worktree per session, two clean-ups, recovery after a restart | maps looked at on both sides of awaits; shared promises | a session in use keeps its worktree, a released one leaves nothing behind |
| **orchestrated analysis** | tokens, rounds and tool calls of sub-tasks and of the ticket; two guards; stall state | strategist loop, batches of sub-tasks | budgets compared with estimates, at their limits | it stays within its account and gives up when there is a reason |
| **knowledge document** | Markdown of a ticket, sidecar, advisory lock | read, change, add, start and end of a run, save the whole text | some writers take no lock | one section's change loses no other |
| **invoices** (scheduler-worker, copilot-api `routes/invoices.ts`) | rows, PDF files | daily check, manual invoice, deletion | number, file and row in separate steps by two processes; progress recorded nowhere | no period is billed twice; an invoice has its file |
| **slack-worker connections** | map of connections per integration; open sockets | refresh every five minutes | overlapping refreshes | one connection per integration |
| **tool requests** (copilot-api `routes/tool-requests.ts`, mcp-platform, ticket-analyzer) | counted rows with rationales, suggestions of the AI, issues on GitHub | register, analyse for duplicates, accept, dismiss, change, delete, file | rows read before an answer of the AI or GitHub and written after it | the row says what is so: one count per rationale, one issue per request |
| other loops of scheduler-worker, probe-worker | schedules; a lock per probe in memory | periodic loops | overlapping rounds | - |
| client learning, artifact names | a text per row | ask the AI, store | none worth a model: repetition overwrites | - |
| authentication | refresh tokens | log-in, rotation | one conditional update | - |
| ai-provider | caches | route a task to a model | none for the workflows: any answer or an error | - |
| mcp-database tools, mcp-repo commands | none | validate text, run | text rules | - |
| status-monitor, shared packages, database schema, control panel, ticket portal | last states, wrappers, rows, views | I/O | - | - |

The rows in bold are modelled. `PROJECT.json` lists every component with its sources, its status and
the reason where it is not modelled, and every hazard with its line and the properties that bear on it.

### How they interact

    mailboxes --> imap-worker --email-ingestion--> imap-worker --ticket-ingest--+
    forms, portal, probes --------------------------------------ticket-ingest--+--> ingestion worker
    Azure DevOps --> devops-worker ----(new work item of a client)-ticket-ingest--+        |
         ^               |                                                            ticket-created
         +---comments----+                                                                 v
    requester <--findings mail-- analysis worker <--ticket-analysis-- route dispatcher  (ticket-analyzer)
        |                             ^    ^
        +--reply--> ingestion worker -+    +-- control panel: Retry Analysis, chat tab
    operator --REST, MCP, Slack--> issue_jobs --issue-resolve--> issue-resolver --push--> git
    analysis worker --recommendations--> pending_actions <--approve, dismiss-- operator, agents
         |
         +-- orchestrated-v2: strategist --> sub-tasks --MCP--> mcp-database (pools of connections)
                                                 |       `----> mcp-repo (worktrees)
                                                 `--> knowledge document <-- operator

## 2. The modules

Each module describes one workflow with all the processes that take part in it, since what can go
wrong lies between them. `MC<module>` extends it for TLC, `<module>Proofs` for TLAPS (components that share a run share
modules of proofs: `McpProofs`, `ServicesProofs`, `RecordsProofs`, `KnowledgeProofs`). Common to all:

- an action is what one handler or worker does up to its next write that others can see; a `pc`
  variable (`pc`, `emailPc`, `dispatchPc`, `call[c].pc`, ...) says where it stands. What it read
  before an await is kept in a variable of its own (`loaded`, `seen`, `read`), so that it can be stale;
- a queue job is a record of what its payload distinguishes, with its attempts and stalls. The queue's
  rules (a known id is not added again, stalled once then failed, back-off) are external code, modelled
  from the options with which `src/` creates queues, workers and jobs;
- a call of the AI, of git, IMAP, SMTP or Azure DevOps is a step with any of its answers, or an error;
- `spent` counts requests, errors, outages, crashes against the bounds that the constants name. It
  also lets a property say "while nothing has failed";
- history variables (listed last in VARIABLES) are written and never read by the actions;
- operators commented "Variant" are plausible wrong versions of the operator that follows them. They
  are used by no action; replacing the right operator by one of them breaks a property.

### IssueResolution

One row per issue job, the handlers in flight (`call`), the queue and the worker of issue-resolver.

| code | actions |
|---|---|
| `routes/issue-jobs.ts`, `mcp-servers/platform` `create_issue_job` | `Create`, `Add` |
| approve: REST, MCP (row to CLONING), Slack (only `approvedAt`) | `Approve`, `Add` |
| reject: check, conditional update, add; Slack's button and modal | `RejectCheck`, `RejectUpdate`, `RejectLost`, `Add` |
| `issue-resolver/src/worker.ts` | `Take`, `Ignore`, `Start`, `Prepared`, `Analyzed`, `Planned`, `Applied`, `Push`, `Finish`, `EventCreated`, `Fail`, `FailUnrecorded` |
| BullMQ, `routes/failed-jobs.ts` | `Complete`, `GiveUp`, `Crash`, `Recover`, `Retry`, `Discard` |

### TicketAnalysis

One ticket: the route dispatcher, the analysis worker, the ingestion worker on a reply, and the control
panel's requests. `thread` is what people wrote, `read` how much of it the running job has loaded.

| code | actions |
|---|---|
| `processTicketCreated` | `DispatchTake`, `DispatchMark`, `DispatchAdd`, `DispatchFails`, `DispatchAgain` |
| `processAnalysis`: loop guard, #384 gate, the two pipelines, findings mail, catch | `Take`, `Guard`, `Refuse`, `Load`, `Skip`, `Analyse`, `Update`, `Send`, `Conclude`, `Open`, `Fail`, `FailUnrecorded`, `Again` |
| `RESOLVE_THREAD`, `maybeEnqueueReanalysis` | `ReplyArrives`, `ReplyGate`, `ReplyScan`, `ReplyAdd`, `ReplyFails` |
| `POST /tickets/:id/reanalyze` | `ClickRead`, `ClickMark`, `ClickAdd`, `ClickEnd`, `ClickFails` |
| chat messages, `pick-mode`, `enqueueChatReanalysis` | `ChatPost`, `ChatPick`, `ChatAdd`, `ChatMark` |
| `PATCH /tickets/:id` | `Patch` |
| a crash of ticket-analyzer | `Crash` |

### MailLedger and TicketIngest

`MailLedger` is the abstract specification: a mail is filed once, acknowledged at most once and brings
at most one ticket to analysis, both only after it was filed. `TicketIngest` is the implementation: a
*copy* is a mail as it lies in a mailbox, `Key` what the unique columns of the events compare (the
Message-ID, or the hash of a mail without one). The refinement is `Ledger == INSTANCE MailLedger WITH
Mails <- MailKeys, filed <- Filed`; the history variables `receipts` and `analyses` have the same name
in both.

| code | actions |
|---|---|
| `imap-worker/src/poller.ts`, `index.ts` | `Fetch`, `Flag`, `AddEmail`, `PollFails` |
| `imap-worker/src/processor.ts` | `TakeEmail`, `SkipDuplicate`, `Filter`, `Accept`, `AddIngest`, `EmailFails`, `CrashImap` |
| `ingestion-engine.ts` | `TakeIngest`, `FileReply`, `ConsiderReanalysis`, `NoThread`, `MakeTicket`, `RecordFirst`, `Acknowledge`, `Dispatch`, `Complete`, `Conflict`, `IngestFails`, `IngestAgain`, `CrashAnalyzer` |
| mailboxes, forms, closing and ageing of tickets | `Arrive`, `MarkUnread`, `Submit`, `Retire` |

### DevOpsWorkflow

One work item: Azure DevOps (`comments`, `rev`, `assigned`), the poll loop, the job of
`processor.ts` (`Take` .. `MoveWatermark`) and the engine of `workflow.ts` (`StartAnalysis` ..
`Finish`). `mode` is "ticket" for a client's integration, whose ticket the ingestion engine makes
(`Register`, `AddIngest`, `Link`), and "task" for the global one (`CreateTask`). Errors of Azure
DevOps and the AI and outages of PostgreSQL and Redis are told apart, because the catch blocks treat
them differently: `RollBack`, `NoteFailure`, `GiveUp`, `SyncFails`, `JobFails`, `LockLeaks`.

### PendingActions

One ticket. A call of `executeRecommendations` goes through its list with a copy of the ticket
(`advice[r].local`) and the levels it read; requests of routes and tools decide about queued actions.

| code | actions |
|---|---|
| `recommendation-executor.ts` | `Recommend`, `LoadTicket`, `AutoExecute`, `AutoExecuteFails`, `Queue` |
| `routes/pending-actions.ts` approve: conditional claim, look, execution | `Approve`, `ReadForExecution`, `Execute`, `RequestFails` |
| dismiss: look, unconditional update | `LookForDismissal`, `Dismiss` |
| mcp-platform `approve_pending_action`, `dismiss_pending_action` | `ToolApproves`, `ToolDismisses` |
| `PATCH` of ticket and settings | `OperatorEdits`, `SetLevel` |

### PoolManager

`pools` maps a system to the call that made its pool; `poolConn` and `built` are the pools themselves.
`reload` is the promise that callers share.

| code | actions |
|---|---|
| `getPool`: hit, miss, unknown system, answer of the reload, connection made or refused | `Arrives`, `Hit`, `Misses`, `Answer`, `Connected`, `ConnectFails` |
| `reloadSystems`, `fetchSystems` | `ReadRows`, `ReloadSystems`, `LoadFails` |
| `cleanupIdlePools`, `closeAll`, a connection that drops | `TenMinutesPass`, `CleanupIdlePools`, `CloseAll`, `DropConnection` |
| rows of `systems` | `EditSystem` |

### RepoManager

One repository with its bare clone, a worktree per session, the calls in flight, and the disk apart from
the maps in memory, so that a restart can lose one and keep the other.

| code | actions |
|---|---|
| tools: `getWorktree`, with clone or fetch shared (`cloneInFlight`) | `ToolArrives`, `Look`, `CloneEnds`, `CloneFails`, `WorktreeAdd`, `MakeTmp`, `MakeTmpFails`, `CommandEnds` |
| `prepare_repo` | `PrepareArrives`, `CloneEnds` |
| `cleanupSession` | `CleanupArrives`, `Settled`, `Unlink`, `Empty`, `Sweep` |
| `cleanupStale` | `TtlPasses`, `StaleStarts`, `StaleUnlinks`, `StaleEmpties` |
| restart, `recoverOrphanedWorktrees` | `Restart`, `RecoverStat`, `RecoverEnter` |
| the remote | `PushToOrigin` |

### Strategist

A run of `orchestrated-v2.ts` with the decisions of `budget-thresholds.ts`. Sub-tasks of a batch run
side by side, but what they return is added up in their order when all have ended, and they share no
counter: the model runs them in that order.

| code | actions |
|---|---|
| the strategist's rounds, reads and completion | `Asks`, `Reads`, `Completes` |
| dispatch: the estimate against the budget, too many sub-tasks cut off | `Dispatches`, `DispatchAborted` |
| sub-tasks: turns, restriction, exhaustion, one repetition, errors | `TaskTurns`, `TaskExhausted`, `TaskFails` |
| after a batch: account, failure guard, stall state, forced conclusion | `BatchEnds` |

### SectionMap and KnowledgeDoc

`SectionMap` is the abstract specification: a map of sections, of which a step changes one, or adds a
subsection with a key of its own. `KnowledgeDoc` is the implementation: one text, taken apart at its
headings (`Parsed`), changed and composed again (`ComposeSections`) under the ticket's advisory lock.
The refinement is `Map == INSTANCE SectionMap WITH sections <- SectionsRead`, where `SectionsRead` is
what readers find in the text. A line is a heading or a text that means nothing; what is written has no
headings (`KnowledgeAssumption`; section 7 says what the code does with those that have).

| code | actions |
|---|---|
| `updateSection`, `addSubsection` under `withTicketLock`; routes and MCP tools | `CallsTool`, `Load`, `Store`, `Fails` |
| start and end of a run (`orchestrated-v2.ts`, `v2-knowledge-doc.ts`) | `LooksAtStart`, `Starts`, `LooksAtEnd`, `Fills` |
| the whole text: control panel with `PATCH /tickets/:id`, and `orchestrated-v1.ts` | `OpensEditor`, `SavesText` |

### Invoices

One client, days counted from 0. The check has a period and a number on its way (`maker[check]`), as
have the requests of operators; `cursor` is what the check remembers of how far it has come.

| code | actions |
|---|---|
| `runAutoInvoiceCheck`: period, number, file, row, next attempt | `CheckBegins`, `LooksAtPeriod`, `DrawsNumber`, `WritesFile`, `CreatesRow`, `CreationFails` |
| `POST` and `DELETE` of `routes/invoices.ts` | `Generates`, `DrawsNumber`, `WritesFile`, `CreatesRow`, `CreationFails`, `FindsRow`, `Deletes` |
| the daily timer, a restart | `DayPasses`, `RestartsScheduler` |

### ToolRequests

`toolRequests` has the rows of one client by name, `rationales` those that refer to them, `issues` what
there is on GitHub. Each call is a handler that keeps what it has read (`handlers[h]`). A suggestion
carries the number of the analysis that made it; `filedTwice` is history.

| code | actions |
|---|---|
| `request-tool.ts`, the step DETECT_TOOL_GAPS of `analyzer.ts` | `AsksForTool`, `DetectsGap` |
| `tool-request-registry.ts`: look and write in one transaction | `FindsRequest`, `Registers` |
| `tool-request-dedupe.ts`: rows, AI, one transaction | `ReadsForDedupe`, `WritesSuggestions` |
| `routes/tool-requests.ts`: accept, dismiss, PATCH, DELETE, and their tools | `Accepts`, `Decides`, `Dismisses`, `Patches`, `DeletesRequest` |
| `tool-request-github.ts`: look, POST, update | `LooksBeforeFiling`, `PostsIssue`, `RecordsIssue` |
| errors, time-outs, restarts | `CallFails` |

### SlackConnections

The loop of `refreshConnections` over the map (`Drops`) and over the rows (`Turns`), with
`safeDisconnect` (`Disconnects`) and `connect` (`Connects`, `ConnectionFails`) as the awaits at which
another refresh may run. `ReadsIntegrations`, `TurnsToRows`, `EndsRefresh` and `EditsIntegration` are
the rest.

## 3. The runs

`CHECK_DEADLOCK FALSE` stands in every configuration because the system may really come to rest: once
the bounded requests are made nobody has to make another one. Symmetry is used in one safety run
(handlers are interchangeable) and in no liveness run. One worker per queue is the code's setting, not a
bound.

### Runs that pass

**issue_safety** (`IssueSafety.cfg`): one issue job, two handlers in flight, four requests, and one each
of error, lost write, worker crash, administrator's retry. Four requests are a creation and three
decisions: the smallest number with which a plan is rejected, regenerated, and decided on twice at the
same time (4 million distinct states, the largest run). Rows of different jobs share nothing but the queue,
so one job is enough for what is asked of a row. One crash and one retry are the most `AtMostOnePush` speaks about.
- `PushNeedsApproval`: no push without an approval, whatever fails and is repeated.
- `ApprovedPlanExecuted`: while no queue job runs twice, the plan pushed is the plan approved.
- `AtMostOnePush`: two approvals, or one rerun, do not push twice.

**issue_live** (`IssueLive.cfg`): three requests, the same trouble.
- `SlackApprovalConcludes`: an approval given in Slack ends in COMPLETED or FAILED, or is rejected.
- `QueueDrains`: no queue job is lost or held for ever.

**analysis_safety** (`AnalysisSafety.cfg`): two kinds of events, kept apart by `Apart` to bound the
number of states: two replies, a click on Retry Analysis, an error and a crash, no more than three of the
replies, errors and crashes together, with analyses that find everything; or clicks, chat messages (two
together) and an error, with every verdict. The limit is *two* re-analyses, and escalation comes after
two (three in the code), so that both are reached; two attempts per job. 1.7 million distinct states.
All seven properties are also proved, without these bounds (section 5).
- `CyclesCounted`: while nothing throws, no re-analysis goes uncounted and the limit holds.
- `SettledWhenQuiet`: a ticket with nothing queued does not claim an analysis is pending.
- `OneReplyJob`: replies never put two re-analyses into the queue.
- `RedundantReplyRead`: a reply that was skipped because a job was waiting is read by that job.
- `RoundsBounded`: the requester is asked by fewer re-analyses than it takes to escalate.
- `WaitingWhenAsked`: a ticket at rest is WAITING when the last analysis asked, and only then.

**analysis_rest** (`AnalysisRest.cfg`): a reply, a click, a change of status, an error, an outage.
- `ComesToRest`: the queues come to rest.

**records** (`Records.cfg`, `MCRecords`): ingestion, the knowledge document, invoices, the connections to
Slack and requests for tools. They share no state, so a behaviour is one of the component that `part` picks at the start,
while the others stay as they were: the run is the five runs in one, and no product of them (1.1
million distinct states up to exchanging refreshes or handlers). *Ingestion:* one message in two mailboxes, marked unread once, an error of
the poll loop, an error of a queue job, a crash of each process (`FaultsApart`: the poll error where
neither process crashes, a ticket closed where nothing else happens, the second unread mark where at
most one other thing goes wrong). Two copies of one message are what the
unique columns are for; a third copy would meet the same columns. *Knowledge document:* two agents and
a run, three writes, one text saved whole; one required section and one with subsections whose titles
can be given keys that meet. *Invoices:* periods of two days in a calendar of five with two months, one
manual invoice at any time, one deletion, an attempt after the first. The manual invoice is what
competes for numbers, and reorders the ends of periods. *Slack:* two integrations, two refreshes at a
time and three in all (the third sees what two left behind), one change. *Tool requests:* two calls of
agents, which may meet at one name, two analyses, so that the second finds what the first suggested, a
decision and a change; or two calls that file one request, with three changes (an approval, and what
may undo it), each with answers that are lost.
- `LedgerHolds`: `TicketIngest` implements `MailLedger`.
- `MailAccounted`: a mail flagged `\Seen` is on record, noise, named by a failed job or on its way.
- `KnowledgeKept`: `KnowledgeDoc` implements `SectionMap`, but for the writes over unread text that the
  property counts.
- `InvoicesFiled`: an invoice on record has its file, unless two drew its number at the same time.
- `BilledOnce`: no day is billed by two automatic invoices.
- `ConnectionsOnRecord`: an integration has the one socket the map knows, unless two refreshes dealt
  with it at one time.
- `RowsTellTheTruth`: the row of a request has counted its rationales, carries suggestions of the last
  analysis only, and names the one issue made for it, unless two calls filed it at one time or an answer
  of GitHub was lost.
- `RecordsTypeOK`: the type invariants of the five.

**services** (`Services.cfg`, `MCServices`): five components that share no state, combined in the same
way by `part` (870 000 distinct states), pools, worktrees and the strategist with two instances each.
*Threads of mail:* a mail, an answer to it that has no Message-ID of its own, a form of the same
subject, in every order; an error; a ticket that is closed. *Pools:* three calls for two systems, one of
which appears or is changed by one edit; or for one system, with a failing read or connection. *Worktrees:*
three calls of two sessions with one failure and one TTL; or two calls with a restart. Three calls are a
creation, a removal and one that joins. *Pending actions:* two runs with lists of two recommendations,
two requests, a change of the levels, a failing query. *Strategist:* three batches that cost nothing,
which is what the guards need, or two that do, which is what the budget needs.
- `ThreadKept`: an answer is filed with the mail it refers to, not with a namesake.
- `OpenPoolsKept`: an open pool is in the map, unless it was connected together with another.
- `PoolsCurrent`: a pool in the map has the configuration of the cache, unless a reload changed it while
  it was connecting.
- `RefusedWhenAbsent`: a call is told that its system does not exist only if it did not at some time
  since the call, or if it joined the reload of another.
- `WorktreesOnRecord`, `RunsInTree`, `SessionReleased`: what is on the disk is in the map or about to be
  entered or removed, unless its creation failed half-way; a command finds its worktree while it runs;
  a session that was cleaned up has none. A creation and a removal that ran together are an exception
  for the last two.
- `DecisionsHold`: an action is carried out at most once, never after it was dismissed, and unasked only
  at level auto.
- `AdviceTaken`: a list of automatic actions leaves each field with the value it sets last.
- `AccountKept`: the tokens on the account exceed the budget of the ticket by less than what each
  sub-task of one batch may exceed its own by.
- `BatchesWarranted`: no batch is dispatched after the failures or repetitions that end a run, and a
  run is ended as stalled only with a reason.
- `AllComeToRest`: everybody who waits for a reload, a connection, a clone, the creation of a worktree
  or its removal gets an answer, and the queues of ingestion come to rest, whatever fails.
- `ServicesTypeOK`: the type invariants of the four new modules.

**devops_conversation** (`DevOpsConversation.cfg`): both modes, two comments at any time, and one edit,
useless plan, error, outage or crash at any step; two question rounds. About 440 000 distinct states.
- `CommentsSynced`: the watermark never passes a comment that was not recorded.
- `ApprovedPlanExecuted`: at most one execution, of the plan posted and proposed last, on account of a
  comment the plan was not made from.
- `NotStranded`: errors of Azure DevOps and the AI leave no task in ANALYZING or PLANNING.
- `CommentAnswered`: what people write last is answered, also when it is written while the worker is
  busy and when the AI's plan was no plan.

`TypeOK`, or its counterpart, is checked in one run of each module.

### Runs that TLC refutes, and what they show

**issue_rest_approval**, `RestApprovalConcludes`: an approval over REST or MCP moves the row to
CLONING (`routes/issue-jobs.ts:230`) and then adds the resume job, which acts only on rows in
AWAITING_APPROVAL (`worker.ts:154`). The approved plan is never executed. Only Slack's approval, which
leaves the status alone, works.

**analysis_answer**, `AnswerRead`: a first findings mail that asks questions is recorded as
`analysis_findings_with_questions` (`analyzer.ts:2875`); the gate of `maybeEnqueueReanalysis` looks for
the two other types (`ingestion-engine.ts:1164`), so the requester's answer is not analysed.

**ingest_two_mailboxes**, `OneTicketPerMail`: without any failure, the second copy of a message passes
the duplicate check before the first is on record; `CREATE_TICKET` makes its ticket and only the event
is refused, at each attempt. What the unique column prevents is the second *event* (`LedgerHolds`).

**devops_ticket_awaited**, `NotStrandedWithTicket`: a work item commented on between two polls is
queued twice. The second job finds the row without a ticket, starts the analysis and fails outside the
`try` that would put the state back (`processor.ts:338`, `workflow.ts:159`): the item stays in
ANALYZING.

**repo_prepared**, `PreparedUpToDate`: `prepare_repo` says of itself that it clones a repository or
updates it. The bare clone is made without a refspec for its branches, so that a fetch leaves the branch
from which worktrees are made where it was: after a push, a new worktree has the old commit.

### Conditions in the properties

A property that holds only while something does not happen says so in its formula. Each condition was
found while modelling, and each marks something the code does not protect against: section 7 lists
these. An ad hoc variation of the bounds, made while the bounds were chosen: `devops_conversation` with
one comment and two troubles passes.

### Mutants

`PROJECT.json` names for every property a variant of a mapped definition with which TLC refutes it
under the run's own configuration. They are the bugs the properties are there to notice: a dropped
status check, a watermark read after the fact, a retry without a count, a threshold passed by one.

## 4. Fairness

The `FairSpec`s state weak fairness of what the deployment keeps going: BullMQ workers take jobs as
long as there are any, back-offs and the stalled-job timer pass, the poll loops go round, containers
are restarted (`restart: unless-stopped`), an accepted HTTP request is handled to its end. Steps of one
process are one disjunction under one WF, as one event loop runs them; the handlers of different
requests have one each. In `services` each component has the fairness it has alone, guarded by `part`:
the callers of mcp-database and mcp-repo wait for promises that libraries settle one way or the other
(queries and commands have timeouts). No fairness is assumed of requests, comments, replies, administrators, edits,
errors, outages or crashes, nor of any particular answer of the AI. Strong fairness is not used:
a worker's next step stays enabled until it is taken, or the process dies, which the bounds allow
only so often.

## 5. The proofs

The theorems hold for every value of the constants: any number of jobs, handlers, mails and forms, and
any number of errors, crashes and retries (the bounds are naturals).

**IssueResolutionProofs**
- `TypeInvariance`: `Spec => []TypeOK`, by one step per action.
- `PushNeedsApprovalHolds`: `Spec => []PushNeedsApproval`. The property is not inductive: nothing in it
  says why a worker about to push has an approval behind it. `IInv` adds the chain: a handler that will
  add a resume job has its approval on record (`CallApproved`), so has every resume job wherever the
  queue keeps it, waiting, stalled, failed or active (`ResumeApproved`), and only a resume job reaches
  `apply` and `push` (`ApplyIsResume`, with `WorkerOK`: one job at a time). Approvals are never
  withdrawn from the record. `SameEntries` and `QuietStep` do the actions that only move queue jobs.
- `ApprovedPlanIsExecuted` (`ApprovedPlanExecuted`) and `PushedAtMostOnce` (`AtMostOnePush`). `Tokens`
  says where the queue jobs come from: for each issue job there is one first job, in a handler or in the
  queue, and one resume job, whose id is taken for good once it has ended. While no queue job runs twice
  (`CalmInv`) the first job writes the only plan (`Drafted`), and once a resume job executes, nothing is
  left that could make the row wait for approval again (`Settled`): a regenerate job that comes late
  finds the row elsewhere. After one crash or retry (`OnceInv`) there may be a second plan or a second
  run of the resume job, not both: whoever has pushed is settled, or its resume job is past the push
  (`Exhausted`). Both formulas are conditions on the counters of crashes and retries, so the invariant
  has to follow what one more of them leaves possible.
  Assumptions: `ChannelsAssumption` and `BoundsAssumption` as far as types need them.

**TicketIngestProofs**
- `TypeInvariance`.
- `LedgerImplemented`: `Spec => Ledger!Spec`, the refinement of `MailLedger`. Each action files,
  acknowledges, dispatches, or leaves the ledger alone (lemmas `Files`, `Moves`, `Rest`). `IInv` holds
  what the abstract guards ask for: a mail acknowledged or dispatched is filed (`FiledFirst`), and the
  job between filing the mail of a new ticket and acknowledging it knows that nobody acknowledged it
  (`Pending`): an acknowledgement needs the mail to be filed by the same job first, filing needs it not
  to be on record, and there is one worker (`WorkerOK`). `FiledAppend` and `FiledSame` say what
  appending an event does to the set of mails filed. Assumption used: `IngestAssumption`.
- `MailsAreAccounted` (`MailAccounted`): a mail that was flagged is with imap-worker, in a queue, on a
  list of errors, or filed. `MailInv` adds what imap-worker has in hand at each place (`ImapOK`) and that a
  job past its filing, which alone completes, has its mail on record (`OnRecord`). Lemma `Intake` does
  the steps of imap-worker once for all: the mails it names (`WithImap`) only go where they are counted.
- `RepliesKeepTheirThread` (`ThreadKept`): each event of a mail lies with an earlier one that it mentions
  (`Kept`). `Threadless`: from the look for a thread until the mail is filed nobody else files anything.

**McpProofs**
- `PoolsAreKept`, `PoolsAreCurrent`, `RefusalsAreDue`: the three properties of the pools, for any number
  of systems, calls, edits and troubles. The strengthening `PoolInv` has the types and four parts.
  `CallsConnected`: who waits for a reload has a system that is not in the cache, nobody has a
  connection before `createPool`, and a pool in the map was connected to its system. `ReplacementsNoted`:
  two that connect to one system at a time are noted as twins, also when one has been entered before the
  other. `ConfigsKept`: what is being connected has the configuration of the cache, or was overtaken.
  `RefusalsExplained`: a system that is missing, from the rows or from what a reload has read, is noted
  with every call for it. Assumption: `PoolAssumption`.
- `WorktreesAreOnRecord`, `CommandsRunInTrees`, `SessionsAreReleased` and `RepoTypes`: the three properties
  of the worktrees, for any sessions, calls, failures, restarts, pushes and times to live. Lemmas say of
  every action what it does to each call (`OnlyGoes`, `NewCall`, `ShareGoes`) and to each session, and the
  invariants are proved from these moves. `CreationsApart`: a worktree is created once at a time, and a
  creation and a removal of one session that run together are noted (`OverlapNoted`), so that elsewhere
  what was added is there when the directory is made and no empty directory comes of it (`MadeFull`,
  `NoHusk`). `JoinsOwn`: who shares a creation shares that of its own session. `Uncreated`: a clean-up
  waits for the creations it has found, so nothing is created during its removals and after it.
  `ListInv`: while nothing fails, who is on git's list has a worktree that somebody will remove
  (`ListedFull`), and is struck off before its directory is emptied (`StruckOff`). `WorktreesOnRecord`
  needs no condition on what ran together: whichever of two comes last enters or removes what is there.
  Assumption: `RepoAssumption`.

**RecordsProofs** (invoices, Slack, requests for tools)
- `BilledOnceHolds`: `InvoicesSpec => []BilledOnce`, for any calendar, length of periods, usage, and any
  number of operators' invoices, deletions and restarts. Nothing records how far a client is billed, so
  what is to be shown is that the check's memory lies behind every automatic row: `BehindCursor` and
  `BehindPeriod`, which need that rows and periods begin before they end (`RowsProper`,
  `PeriodsProper`). The start is `SeedBehind`: the latest end among *all* rows, manual ones included, is
  not before that of any automatic one; deleting rows does not matter. `MaxExists` says that a bounded
  set of naturals has a greatest element (by `WFMin`; the set is never assumed finite). Assumption:
  `InvoicesAssumption`.
- `InvoicesAreFiled` (`InvoicesFiled`): for any makers, attempts and deletions. `HeldAlone`: who has a
  number, unless it is noted as contested, is the only one who knows it, no row has it, and no deletion
  is about to remove its file. `ForgottenRows`: a deletion whose row was deleted by another meanwhile
  removes the file of a contested number only. `FilesWritten`, `NumbersUnique`: the file is written before
  the row is made, and rows have numbers of their own.
- `ConnectionsAreOnRecord`: `SlackSpec => []ConnectionsOnRecord`, for any integrations, configurations,
  edits and number of refreshes that overlap. `OneWaits`: of an integration that is not noted in
  `overlapped`, at most one refresh waits for Slack. `SeenStands`: so what that refresh saw in the map
  before it waited is still there when Slack has answered, the client it closes or that there is none.
- `RowsAreTrue` (`RowsTellTheTruth`) and `RequestTypes`: for any tools, runs and calls that overlap, any
  decisions, deletions and failures. `IdsGiven`, `IdsKnown`: ids of rows, rationales and issues are given
  once and no call knows one that was not given. `CountsInv`: a row has counted its rationales, and a call
  that is about to add one has a number nobody else has (`CallsNumbered`); the count is a cardinality, so
  the sets are shown to be finite. `IssuesInv`: of a request that one call files at a time, and for which no
  answer was lost, the issue on GitHub is the one its row names (`FiledOnce`, `IssueNamed`).
- `InvoiceTypes` and `SlackTypes`: `[]InvoicesTypeOK` and `[]SlackTypeOK`, which say more than the types of
  the invariants above: numbers are positive, and a maker's attempts and a check's invoices keep to their
  limits. `MakerBounded` ties both to where the maker stands.

**KnowledgeProofs** (the knowledge document, and all components of `MCRecords`)
- `KnowledgeIsKept`: `KnowledgeSpec => KnowledgeKept`, the refinement: for any template, texts, titles,
  agents, operators and number of calls, a step that changes the document changes one section of
  `SectionMap` or adds one subsection with a new key, unless it is one of the writes the property
  names. Two things make it so.
  First, taking apart what was put together gives the same sections, except for headings. `Parsed` is a
  fold over lines and `ComposeSections` joins lines of sections; `Folded` says, by the least
  counterexample over beginnings of a sequence (`LeastExists`), that a fold over lines is what
  each line makes of the fold before it. So the lines of a section, taken after those of other
  sections, add that section (`FoldsSection`), and so the lines of all add all (`ComposeIs`). `ChangedIs` and
  `WithSubIs` say what a change does to the section it is about, `SlugIsNew` that a second subsection
  of the same title gets a key of its own.
  Second, what a writer changes is the document: who is past the lock holds it and what it has read is the
  document as it is, unless a text was saved over it meanwhile (`WriterOK`). With the types this is
  `KnowledgeInv`, which also says that the document never has a section of the template twice
  (`ProperTexts`). `StoreIsStep` and `SaveIsStep` are the two kinds of
  step that change the text. Assumption: `KnowledgeAssumption` (the keys of the template are distinct and contain
  the required ones, and lines that are written are no headings).
- `KnowledgeTypes`: `[]KnowledgeTypeOK`, from the same invariant.
- `RecordTypes` and `RecordsKept`: `RecordsSpec`, which the run checks, starts with a choice of one
  component to be at work. A step of it is a step of that one or a stutter of the others (`EachAlone`),
  so each theorem about a component is one about `RecordsSpec`: its type invariant `RecordsTypeOK`, its
  safety properties and both refinements.

**DevOpsWorkflowProofs**
- `TypeInvariance`, `NoCommentLost` (`CommentsSynced`), `OnlyApprovedPlans` (`ApprovedPlanExecuted`) and
  `TasksNotStranded` (`NotStranded`), for any windows, rounds, attempts, comments and troubles.
  `ConversationInv` has the types and three parts. `SyncInv`: each comment that the job has read is still
  in its batch or on record (`BatchReady`), so the watermark may move when the batch is empty; unless a
  job was interrupted there, nothing beyond the watermark is on record (`InboundSynced`). `StateInv`: the
  state is that of the branch where the job is, and nothing is executed before the state says so.
  `PlanInv`: the plan of the row is the last one made, it was posted and proposed once the state says so,
  and a comment recorded after the proposal is none of those the plan was made from (`RepliesNew`, from
  `HeardSynced`: these lie behind the watermark). That the proposal is among the events looked at is not
  needed: what is looked at is the end of the list, so a reply in it comes after the proposal
  (`RepliesAfterProposal`). Most actions are `Quiet`: they add silent events or comments and leave their
  branch or turn to a state in which nothing is decided. `TaskInv` is for `NotStranded`: ANALYZING and
  PLANNING are the states of a job in these branches, and a task's job always knows its task.
  Assumption: `WorkflowAssumption`.

**TicketAnalysisProofs**
- `TypeInvariance` and all the safety properties of the module that hold: `CyclesAreCounted`,
  `RoundsAreBounded`, `OneJobOfAReply`, `RedundantRepliesAreRead`, `SettledWhenItRests` and
  `WaitsWhenAsked`, for any numbers of operators, replies, clicks, messages, errors, outages and crashes.
  What concerns jobs and ids does not look at each action: `BasicsStep` shows once that every step makes
  one of seven moves in each queue (`QueueMove`, `OuterMove`: rest, add, take, end, retry, return, restore)
  and one in the calls (`CallsMove`), and these invariants are proved for the moves. `QueueTried`, `OuterTried`: an attempt after the first has cost an error and a stall a
  crash, so that few of them lose no job. `OuterInv`, `KnownInv`: the ids of 'ticket-created' are distinct
  and not yet known in 'ticket-analysis', so the dispatcher's add is never dropped as a duplicate; this is
  why a ticket marked IN_PROGRESS gets its job (`SettledOrOwed`: whoever has written that the analysis is
  pending or in progress owes a job, or is one). `ReplyAlone`: the scan and the add of a reply are two
  steps, but nobody else adds jobs with a reply's prefix, and there is one ingestion worker. `Relied`: the
  job a reply was skipped for has yet to read the conversation, or has read the reply, or was finished
  with it. `Counted`: between the guard and the end of a re-analysis the count is ahead of the finished
  cycles. `FirstInv`: while nothing goes wrong the initial job is alone with the ticket until its verdict.
  Assumption: `BoundsAssumption` (escalation and attempts are at least one).

**ServicesProofs** (recommended actions, the strategist, and `MCServices` but for its mails)
- `DecisionsAreKept`: `PendingSpec => []DecisionsHold`, for any lists, runs, requests, edits and errors.
  `PendingInv` says what a claim is: a request to approve that was not told of a conflict. The claim is
  one conditional update, and a row never becomes pending again, so an action has one claim at most
  (`OneClaim`) and none while it is pending (`PendingUnclaimed`) or after it was dismissed before anybody
  approved it (`RefusedUnclaimed`); only claims are carried out (`ExecutingClaims`, `ExecutedClaims`).
  `AutoAllowed` ties the levels that a call has read to the settings of its time. Assumption:
  `PendingAssumption`.
- `AdviceIsTaken` (`AdviceTaken`): the copy of the ticket that a call keeps agrees with the last value its
  list has set so far and, unless others wrote a field or a query failed, with the ticket
  (`FollowInv`: `CallFollows`, `LastSet`, `Agrees`). So an item that is skipped because nothing would change
  is one that the ticket agrees with.
- `AccountIsKept` (`AccountKept`): for any budgets, sub-tasks and costs of a call up to some largest.
  While a batch runs, what it may still cost, each sub-task its own budget, fits in the ticket's but for
  the last calls of those that are through (`AccountInv`). The products of unknowns go through small
  lemmas (`Products`, `Within`).
- `BatchesAreWarranted` (`BatchesWarranted`): for any rounds, plans and percentages. The guard and the stall
  detection keep counters, the property speaks of the list of batches; `BatchesInv` ties them
  (`GuardKnows`: the sums, whether the last and the last two were bad; `StallKnows`: whether any wrote, how
  many of the last three plans are the same), and says that one of them stops the strategist as soon as
  the list calls for it. `Sum` is a recursive function of the list: that it exists, and that sums over a
  common beginning are the same, is shown by the least counterexample (`LeastExists`, `SumExists`,
  `SumPrefix`).
- `StrategistTypes`. Assumption: `StrategistAssumption` (calls have a largest cost, as models limit the
  tokens of a call; without one the account has no bound).
- `PoolTypes`, `PendingTypes`, `ServiceTypes` (`[]ServicesTypeOK`) and `ServicesKept`: as for `RecordsSpec`, a step
  of `ServicesSpec` is one of the component at work (`EachServiceAlone`), so that each of the four
  promises there what it promises alone.

TLC evaluates the assumptions in every run of the module. The invariants that carry the proofs (`ConversationInv`, `TaskInv`, the parts of `AnalysisInv`, the `IInv`s, `Tokens`, `CalmInv`,
`OnceInv`, `MailInv`, `FollowInv`, `FilingInv`, `CountsInv`, `IssuesInv`, `WorktreeInv`, `AccountInv`,
`BatchesInv`, `KnowledgeInv` and others) were also checked by TLC on small instances, those with `\E j \in ingest` in
`WorkerOK`, as `IngestJob` is infinite.

Only model-checked: the liveness properties (`SlackApprovalConcludes`, `QueueDrains`, `ComesToRest`,
`AllComeToRest`, `CommentAnswered`), since fairness and ENABLED are out of the prover's reach. Every
invariant, the step properties and both refinements of the passing runs are proved.
No module declares a RECURSIVE operator.

## 6. What the models leave out

- **All**: texts, prompts, costs, logs, notes for people, e-mails and Slack messages that only inform.
  A write that only informs appears where its failure changes what follows.
- **IssueResolution**: the clone that jobs of one repository share (`git.ts`) and learning extraction.
- **TicketAnalysis**: the check of a mail's address against the product's own inboxes is part of
  `Deliveries`; the author check of gate #384 for COMMENT events; removal of old completed jobs; that a
  retry may send a second findings mail (`findings` is a set of types); route resolution; the steps of
  the pipeline that write pending actions and knowledge documents.
- **TicketIngest**: default routes; more than one client (everything found is restricted to one); the
  race for a ticket number, which retries; the best-effort steps for categories, followers,
  attachments and links; what noise is (any new mail may be); the processing log.
- **DevOpsWorkflow**: the cache of processors and credentials per client; where the poll's watermark is
  kept; how a plan is found in the AI's text and how comments are classified; the empty plan, which
  cannot be reached (`tryParsePlanArray` refuses it); overlapping polls, whose job ids contain the
  revision. A task and its row are made in one step.
- **PendingActions**: events and mails about actions; all types without a field that are never
  automatic are one, "other".
- **PoolManager**: `closePool`, which nobody calls; what is in a configuration.
- **RepoManager**: other repositories (what sessions contend for is one clone), remote URLs and their
  tokens, what commands do in their worktree.
- **Strategist**: prompts and texts; the soft nudges, messages that change nothing in the loop; the older
  strategies. Cost is a choice from a small set.
- **KnowledgeDoc**: texts with headings of their own (section 7); an operator's clearing of the document;
  snapshots; lengths and times in the sidecar.
- **Invoices**: monthly billing, which never begins by itself (section 7); amounts and the status of an
  invoice; other clients, whose numbers and files are apart. Check and routes share one directory, as
  `scripts/local-stack.sh` sets it up.
- **ToolRequests**: texts, kinds, times, commits and what an issue says; other clients, whose rows are
  apart; how a name is normalised and whether an agent's tool exists (a note in the answer); when a
  run of an agent begins, which the code derives from `lastAnalyzedAt`.
- **SlackConnections**: the connection of the platform; a socket that cannot be closed is taken for
  closed.

### Not modelled

`PROJECT.json` gives the reason for each component. In short: user interfaces (`control-panel`,
`ticket-portal`: a third of the implementation's lines) show what the API answers; most routes of
`copilot-api` read or write one row; `ai-provider`, `shared-*`, the tools of mcp-database and the commands
of mcp-repo are functions of text or wrappers; probe-worker, status-monitor and the other loops of
scheduler-worker go over rows and send what they find. They keep little state, and none that a
second actor changes at the same time.

## 7. What the code does that no property promises

Besides the four refuted runs, the following came up while the actions were translated. Each can be
followed through the module; the conditions of the properties exclude them one by one.

*Issue resolution.* A rejection strands the row in PLANNING, because the regenerate job too looks for
AWAITING_APPROVAL. A plan rejected between the worker's read and its first write is pushed all the same.
After a crash or a retry the first queue job runs again without looking at the status and replaces an
approved plan (`OnlyApprovedPlansPushed` is the formula this breaks). The id of a completed resume job is
kept, and drops the resume job of a later approval. When adding the queue job fails, the row has already
been moved and nothing picks it up.

*Ticket analysis.* A job that throws before the guard is never counted, so the limit can be overrun. A
ticket stays PENDING or IN_PROGRESS after an outage of Redis, after a chat message whose job ended
before PENDING was written, at the limit, and when all attempts are used up before the pipeline begins.
A reply that arrives before the first findings mail, or after a running re-analysis has loaded the
conversation, is read by nobody. A ticket closed by hand while an analysis runs is opened again.

*Ingestion.* A restart after `CREATE_TICKET` makes a second ticket, or takes the ticket it made for
the thread of its own mail, which is then never dispatched. Mails flagged `\Seen` and not yet queued
are lost with imap-worker. Jobs of `email-ingestion` are attempted once. The subject fallback ignores
the sender. A reply whose re-analysis could not be asked for is dropped when its job is retried.

*DevOps.* Each question round leaves at least three events and rounds are counted among the last 20:
the default limit of 10 rounds (`services/devops-worker/README.md:64`) is never reached. An approval
counts only within ten events of the proposal. A comment written while the plan was being made may
approve it. A database error after the lock is taken keeps the work item locked until a restart. A
crash in ANALYZING, PLANNING or EXECUTING, or an outage outside a `try`, strands the item. An ingestion
job that could not be added is not added by the retry; a task whose row could not be written is made
twice. An answer of the AI that is no plan is posted, which changes the work item, which is polled
again: only a usable plan ends that loop.

*Tool requests.* Two calls that see an approved request without an issue make two issues, and so does a
second attempt after GitHub's answer to the first was lost, although `tool-request-github.ts:201` wants
to keep callers from duplicates; a request rejected meanwhile is filed all the same. The limit of requests per
run and the refusal of a name asked for before (`request-tool.ts:145-159`) are looks before a write: calls of one
run that overlap pass both. An analysis writes suggestions on rows that were decided while it waited for
the AI. Accepting two suggestions that name each other leaves two duplicates and no original; a
row stays DUPLICATE when its original is deleted.

*Pending actions.* The tools of mcp-platform (`mcp-servers/platform/src/tools/tickets.ts:353-383`) update
the row whatever its status, and execute nothing: an action that a tool approved is never carried out,
because the route's claim asks for "pending". A dismissal, by tool or by route (look at l.207, update at
l.217), can mark as dismissed what was approved and carried out in between. An error after the claim
(l.157) leaves an action approved and undone. `executePendingAction` of ticket-analyzer
(`recommendation-executor.ts:327`) is called by nobody; copilot-api has its own copy.

*Orchestrated analysis.* The stall rule of rounds without sub-tasks can not apply, since the state is
only updated after a batch of at least one. The comment that the nudge comes before the hard stop
(`budget-thresholds.ts:115`) does not hold for a second batch that crosses the threshold at once. The
directive of the hard stop goes between a dispatch and its result (`orchestrated-v2.ts:1445`), and other
tool calls of a turn that dispatches or completes get no result. Tokens of rejected attempts and of
results that were replaced are on no account. An empty dispatch ends the analysis.

*mcp-database.* Two callers that miss connect two pools, and the first is never closed. A pool that was
connecting during a reload keeps the old configuration. A call that joins a reload may be told that a
system just added does not exist.

*mcp-repo.* A second session on a repository fails until the first is cleaned up, because both check out
the default branch; the bare clone never updates its branches; a clone that was cut off is taken for
complete.

*Knowledge document.* A heading inside a content splits the section, and readers get what precedes it,
although the tools ask for Markdown (`mcp-servers/platform/src/tools/knowledge-doc.ts:63`). Text without a
`## ` heading is dropped by the next write. A run replaces a document by the template when the sidecar is
empty even if there is text, as the older strategy and the control panel leave it
(`orchestrated-v2.ts:955`; l.917 says "when the doc + sidecar are uninitialized"), and looks before it
takes the lock. `PATCH /tickets/:id` and `orchestrated-v1` write the whole text without the lock.

*Invoices.* A client with monthly billing and no invoice is never invoiced, as the end of its first
period always lies in the future (`invoice-generator.ts:190`; `services/scheduler-worker/README.md:27`
promises invoices for completed periods). An anchor day late in the month skips a month. Who loses a
number removes the winner's file. A weekly client without an invoice is not billed the days after the
last full week of a month. A manual invoice for a later period makes the check skip the days before it.
`docker-compose.yml` gives copilot-api and scheduler-worker different volumes, so that the routes do not
find the files of automatic invoices.

*Slack.* Overlapping refreshes connect an integration twice, and both sockets handle every message.

## 8. The plan

Done, in this order: IssueResolution, TicketAnalysis, TicketIngest and MailLedger, DevOpsWorkflow,
PoolManager, RepoManager, PendingActions, Strategist, KnowledgeDoc and SectionMap, Invoices,
SlackConnections and ToolRequests; and the proofs of all their safety properties, both refinements
included.

What could still be modelled: monthly billing, once it begins; the locks of probes.

Composition: TicketIngest and TicketAnalysis meet in `ConsiderReanalysis` and `Dispatch`; an abstract
specification of a ticket's life (made, analysed, asked, answered, closed) that both implement is worth
stating, and so is one of an approval (proposed, decided, executed once) for IssueResolution,
DevOpsWorkflow and PendingActions.

Proofs worth adding: with such a specification, that the workflows implement it; and what the parser of
the knowledge document makes of lines that are headings, for which `SectionMap` would need a step that
splits a section.
