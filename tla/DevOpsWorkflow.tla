----------------------------- MODULE DevOpsWorkflow -----------------------------
(***************************************************************************)
(* The conversation of devops-worker with the people who comment on one    *)
(* Azure DevOps work item.  Work items that changed since the last poll    *)
(* are queued; the job mirrors the item and its comments into events and   *)
(* then drives the workflow: analyse, ask, plan, have the plan approved,   *)
(* execute.  The state is a column of devops_sync_states that only moves   *)
(* by compare-and-swap; the conversation is read back from the events.     *)
(*                                                                         *)
(* The job is split at the writes between which something may go wrong or  *)
(* somebody may comment.  'errors' are failures of Azure DevOps or of the  *)
(* AI after their own retries, 'outages' failures of PostgreSQL or Redis:  *)
(* the handlers treat them differently.  Queue 'devops-sync' has one       *)
(* worker; its job ids hold the revision, which every comment and every    *)
(* edit increases, so no job is refused as a duplicate.  The lock          *)
(* 'processing' is then contended only by a job that never released it.    *)
(* Texts, tasks, ticket fields, other services' events and the text of     *)
(* plans are left out.  A plan is never empty (tryParsePlanArray), so      *)
(* neither is the branch of executePlan for an empty plan.                 *)
(***************************************************************************)
EXTENDS Naturals, Sequences, FiniteSetsExt

CONSTANTS
    Modes,           \* subset of {"ticket", "task"}: per-client, global integration
    MaxRounds,       \* MAX_QUESTION_ROUNDS
    Window,          \* events processAnswers looks at (20)
    ApprovalWindow,  \* events checkApproval looks at (10)
    MaxAttempts,     \* attempts of a job (3)
    MaxComments,     \* bound on human comments
    MaxTrouble       \* bound on edits, plans that are no JSON, errors, outages
                     \* and crashes, taken together

ASSUME WorkflowAssumption ==
    /\ Modes \subseteq {"ticket", "task"}
    /\ {MaxRounds, Window, ApprovalWindow, MaxAttempts} \subseteq Nat \ {0}
    /\ {MaxComments, MaxTrouble} \subseteq Nat

VARIABLES
    mode,
    \* the work item in Azure DevOps
    rev, assigned,
    comments,        \* in the order of their ids
    changed,         \* since the watermark of the poll loop
    \* the row of devops_sync_states, and the events of the ticket or task
    row,             \* "none", "unlinked", "queued" for ingestion, or "linked"
    revision, lastComment, state,
    plan,            \* planJson: the number of the plan, 0 for null
    events,
    \* queue 'devops-sync', and the job being processed
    wait, delayed, active, pc,
    seen,            \* what the job has read
    batch,           \* comments the job still has to record
    locked,          \* the work item is in 'processing' and will not leave it
    \* history, read by the properties only
    heard,           \* for each plan made, the comments it was made from
    executed,        \* plans executed, each with the comment that approved it
    spent

itemVars  == <<rev, assigned, comments, changed>>
rowVars   == <<row, revision, lastComment, state, plan>>
queueVars == <<wait, delayed>>
jobVars   == <<active, pc, seen, batch>>
historyVars == <<heard, executed>>
vars == <<mode, itemVars, rowVars, events, queueVars, jobVars, locked, historyVars, spent>>

-----------------------------------------------------------------------------
WorkflowState == {"idle", "analyzing", "questioning", "planning", "awaiting_approval",
                  "executing", "completed"}
CommentType == [by : {"human", "bot"}, plan : Nat]
Event == [type : {"note", "inbound", "outbound", "proposed"}, n : Nat]
Job == [attempt : Nat, stalls : {0, 1}]
\* Where the job is, and what it has read.
Steps == {"idle", "taken", "new", "enqueue", "note", "sync", "record", "drive", "analyze",
          "analyzed", "answers", "think", "said", "plan", "stored", "posted", "proposed",
          "approval", "approved", "rejected", "clarify", "execute", "executed"}
Read == [rev : Nat, actionable : BOOLEAN, entity : BOOLEAN, new : BOOLEAN, upTo : Nat,
         force : BOOLEAN, by : Nat]
Nothing == [rev |-> 0, actionable |-> FALSE, entity |-> FALSE, new |-> FALSE, upTo |-> 0,
            force |-> FALSE, by |-> 0]

Troubles == {"edits", "vague", "errors", "outages", "crashes"}
Spend(what) == spent' = [spent EXCEPT ![what] = @ + 1]
TroubleLeft == MapThenSumSet(LAMBDA t : spent[t], Troubles) < MaxTrouble
Suffer(what) == TroubleLeft /\ Spend(what)

Init ==
    /\ mode \in Modes
    /\ rev = 1 /\ assigned \in BOOLEAN /\ comments = <<>> /\ changed = TRUE
    /\ row = "none" /\ revision = 0 /\ lastComment = 0 /\ state = "idle" /\ plan = 0
    /\ events = <<>>
    /\ wait = <<>> /\ delayed = {} /\ active = {} /\ pc = "idle" /\ seen = Nothing
    /\ batch = {} /\ locked = FALSE
    /\ heard = <<>> /\ executed = <<>>
    /\ spent = [w \in Troubles \cup {"comments"} |-> 0]

-----------------------------------------------------------------------------
(* Azure DevOps, the poll loop and the ingestion engine *)

Human == [by |-> "human", plan |-> 0]
Bot(p) == [by |-> "bot", plan |-> p]

Post(c) ==
    /\ comments' = Append(comments, c)
    /\ rev' = rev + 1
    /\ changed' = TRUE
    /\ UNCHANGED assigned

Comment ==
    /\ spent.comments < MaxComments /\ Spend("comments")
    /\ Post(Human)
    /\ UNCHANGED <<mode, rowVars, events, queueVars, jobVars, locked, historyVars>>

Edit ==
    /\ Suffer("edits")
    /\ assigned' \in BOOLEAN
    /\ rev' = rev + 1 /\ changed' = TRUE
    /\ UNCHANGED <<mode, comments, rowVars, events, queueVars, jobVars, locked, historyVars>>

\* A poll that fails leaves the watermark, and the item is found by the next one.
Poll ==
    /\ changed
    /\ changed' = FALSE
    /\ wait' = Append(wait, [attempt |-> 0, stalls |-> 0])
    /\ UNCHANGED <<mode, rev, assigned, comments, rowVars, events, delayed, jobVars, locked,
                   historyVars, spent>>

\* The ingestion engine has made the ticket and writes its id into the row.
Link ==
    /\ row = "queued"
    /\ row' = "linked"
    /\ UNCHANGED <<mode, itemVars, revision, lastComment, state, plan, events, queueVars,
                   jobVars, locked, historyVars, spent>>

-----------------------------------------------------------------------------
(* processWorkItem *)

Complete == active' = {} /\ pc' = "idle" /\ seen' = Nothing /\ batch' = {}
Continue(next) == pc' = next /\ UNCHANGED <<active, seen, batch>>

Take ==
    /\ pc = "idle" /\ wait # <<>>
    /\ active' = {Head(wait)} /\ wait' = Tail(wait) /\ pc' = "taken"
    /\ UNCHANGED <<mode, itemVars, rowVars, events, delayed, seen, batch, locked, historyVars, spent>>

\* The work item and the row are read.
Load ==
    /\ pc = "taken"
    /\ seen' = [Nothing EXCEPT !.rev = rev, !.actionable = assigned,
                               !.entity = (row = "linked"), !.new = (row = "none")]
    /\ pc' = IF row = "none" THEN "new" ELSE IF rev > revision THEN "note" ELSE "sync"
    /\ UNCHANGED <<mode, itemVars, rowVars, events, queueVars, active, batch, locked, historyVars, spent>>

Noted == [type |-> "note", n |-> 0]
Note == events' = Append(events, Noted)
NoteTwice == events' = Append(Append(events, Noted), Noted)

CreateTask ==
    /\ pc = "new" /\ mode = "task"
    /\ row' = "linked" /\ revision' = seen.rev
    /\ Note
    /\ pc' = "sync" /\ seen' = [seen EXCEPT !.entity = TRUE]
    /\ UNCHANGED <<mode, itemVars, lastComment, state, plan, queueVars, active, batch, locked,
                   historyVars, spent>>

\* Per-client integrations leave the ticket to the ingestion engine.
Register ==
    /\ pc = "new" /\ mode = "ticket"
    /\ row' = "unlinked" /\ revision' = seen.rev
    /\ Continue("enqueue")
    /\ UNCHANGED <<mode, itemVars, lastComment, state, plan, events, queueVars, locked, historyVars, spent>>

AddIngest ==
    /\ pc = "enqueue"
    /\ row' = "queued"
    /\ Complete
    /\ UNCHANGED <<mode, itemVars, revision, lastComment, state, plan, events, queueVars, locked,
                   historyVars, spent>>

RecordRevision ==
    /\ pc = "note" /\ seen.entity
    /\ Note
    /\ revision' = seen.rev
    /\ Continue("sync")
    /\ UNCHANGED <<mode, itemVars, row, lastComment, state, plan, queueVars, locked, historyVars, spent>>

\* syncComments reads the watermark and the comments, records those of others
\* oldest first, and moves the watermark.
ReadComments ==
    /\ pc = "sync"
    /\ Len(comments) > lastComment
    /\ batch' = {c \in lastComment + 1 .. Len(comments) : comments[c].by = "human"}
    /\ seen' = [seen EXCEPT !.upTo = Len(comments)]
    /\ pc' = "record"
    /\ UNCHANGED <<mode, itemVars, rowVars, events, queueVars, active, locked, historyVars, spent>>

\* Variant: without new comments there is nothing to drive.
NoCommentsSkips ==
    /\ pc = "sync"
    /\ Len(comments) = lastComment \/ \A c \in lastComment + 1 .. Len(comments) : comments[c].by = "bot"
    /\ Complete
    /\ UNCHANGED <<mode, itemVars, rowVars, events, queueVars, locked, historyVars, spent>>

NoComments ==
    /\ pc = "sync"
    /\ Len(comments) = lastComment
    /\ Continue("drive")
    /\ UNCHANGED <<mode, itemVars, rowVars, events, queueVars, locked, historyVars, spent>>

RecordComment ==
    /\ pc = "record" /\ seen.entity
    /\ \E c \in batch :
         /\ \A d \in batch : c <= d
         /\ events' = Append(events, [type |-> "inbound", n |-> c])
         /\ batch' = batch \ {c}
    /\ UNCHANGED <<mode, itemVars, rowVars, queueVars, active, pc, seen, locked, historyVars, spent>>

\* Variant: the watermark is the last comment there is by now.
WatermarkLate == Len(comments)

Watermark == seen.upTo

MoveWatermark ==
    /\ pc = "record" /\ batch = {}
    /\ lastComment' = Watermark
    /\ Continue("drive")
    /\ UNCHANGED <<mode, itemVars, row, revision, state, plan, events, queueVars, locked, historyVars, spent>>

-----------------------------------------------------------------------------
(* WorkflowEngine: a job moves the state at most along one of these branches *)

CAS(from, to) == state = from /\ state' = to /\ UNCHANGED <<row, revision, lastComment, plan>>

\* onNewEntity and onEntityUpdate.
Skip ==
    /\ pc = "drive"
    /\ \/ ~seen.actionable
       \/ locked
       \/ state \in {"analyzing", "planning", "executing", "completed"}
    /\ Complete
    /\ UNCHANGED <<mode, itemVars, rowVars, events, queueVars, locked, historyVars, spent>>

Driven == pc = "drive" /\ seen.actionable /\ ~locked

StartAnalysis ==
    /\ Driven
    /\ CAS("idle", "analyzing")
    /\ Continue("analyze")
    /\ UNCHANGED <<mode, itemVars, events, queueVars, locked, historyVars, spent>>

CheckAnswers ==
    /\ Driven /\ state = "questioning"
    /\ Continue("answers")
    /\ UNCHANGED <<mode, itemVars, rowVars, events, queueVars, locked, historyVars, spent>>

CheckApproval ==
    /\ Driven /\ state = "awaiting_approval"
    /\ Continue("approval")
    /\ UNCHANGED <<mode, itemVars, rowVars, events, queueVars, locked, historyVars, spent>>

\* The bot comments on the work item.
Say(p, next) ==
    /\ Post(Bot(p))
    /\ Continue(next)
    /\ UNCHANGED <<mode, rowVars, events, queueVars, locked, historyVars, spent>>

Analyze == pc = "analyze" /\ seen.entity /\ Say(0, "analyzed")

Outbound == events' = Append(events, [type |-> "outbound", n |-> 0])

\* The event and the transition, whose result is not looked at.
Analyzed ==
    /\ pc = "analyzed"
    /\ Outbound
    /\ CAS("analyzing", "questioning")
    /\ Complete
    /\ UNCHANGED <<mode, itemVars, queueVars, locked, historyVars, spent>>

\* The last n events.
Recent(n) == {k \in DOMAIN events : k + n > Len(events)}
Ours(n) == {k \in Recent(n) : events[k].type \in {"outbound", "proposed"}}

\* What came in after our last message, or all of it if we have not spoken.
NewInbound(n) ==
    {k \in Recent(n) : events[k].type = "inbound" /\ \A o \in Ours(n) : o < k}

Forced == Cardinality({k \in Recent(Window) : events[k].type = "outbound"}) >= MaxRounds

\* processAnswers
NoAnswers ==
    /\ pc = "answers"
    /\ NewInbound(Window) = {}
    /\ Complete
    /\ UNCHANGED <<mode, itemVars, rowVars, events, queueVars, locked, historyVars, spent>>

Answers ==
    /\ pc = "answers"
    /\ NewInbound(Window) # {}
    /\ seen' = [seen EXCEPT !.force = Forced]
    /\ pc' = "think"
    /\ UNCHANGED <<mode, itemVars, rowVars, events, queueVars, active, batch, locked, historyVars, spent>>

FollowUp == pc = "think" /\ ~seen.force /\ Say(0, "said")

\* The AI has enough to go on, or has asked often enough.
Ready ==
    /\ pc = "think"
    /\ CAS("questioning", "planning")
    /\ Continue("plan")
    /\ UNCHANGED <<mode, itemVars, events, queueVars, locked, historyVars, spent>>

Said ==
    /\ pc = "said"
    /\ Outbound
    /\ Complete
    /\ UNCHANGED <<mode, itemVars, rowVars, queueVars, locked, historyVars, spent>>

\* Variant: "post the response and stay in planning".
StateWithoutPlanKept == "planning"

StateWithoutPlan == "questioning"

\* The comments on record.
Recorded == {events[k].n : k \in {l \in DOMAIN events : events[l].type = "inbound"}}

\* generatePlan
Vague ==
    /\ pc = "plan"
    /\ Suffer("vague")
    /\ Post(Bot(0))
    /\ CAS("planning", StateWithoutPlan)
    /\ Complete
    /\ UNCHANGED <<mode, events, queueVars, locked, historyVars>>

StorePlan ==
    /\ pc = "plan"
    /\ plan' = Len(heard) + 1
    /\ heard' = Append(heard, Recorded)
    /\ Continue("stored")
    /\ UNCHANGED <<mode, itemVars, row, revision, lastComment, state, events, queueVars, locked,
                   executed, spent>>

PostPlan == pc = "stored" /\ Say(plan, "posted")

Propose ==
    /\ pc = "posted"
    /\ events' = Append(events, [type |-> "proposed", n |-> plan])
    /\ Continue("proposed")
    /\ UNCHANGED <<mode, itemVars, rowVars, queueVars, locked, historyVars, spent>>

AwaitApproval ==
    /\ pc = "proposed"
    /\ CAS("planning", "awaiting_approval")
    /\ Complete
    /\ UNCHANGED <<mode, itemVars, events, queueVars, locked, historyVars, spent>>

\* Variant: any comment counts, also one from before the plan.
RepliesAny(n) == {k \in Recent(n) : events[k].type = "inbound"}

\* checkApproval: without a message of ours among the last n events nothing counts.
Replies(n) == IF Ours(n) = {} THEN {} ELSE NewInbound(n)

NoReply ==
    /\ pc = "approval"
    /\ Replies(ApprovalWindow) = {}
    /\ Complete
    /\ UNCHANGED <<mode, itemVars, rowVars, events, queueVars, locked, historyVars, spent>>

\* The latest comment is classified, by the AI or by its words.
Latest(k) == k \in Replies(ApprovalWindow) /\ \A l \in Replies(ApprovalWindow) : l <= k

Approve ==
    /\ pc = "approval"
    /\ \E k \in DOMAIN events : Latest(k) /\ seen' = [seen EXCEPT !.by = events[k].n]
    /\ CAS("awaiting_approval", "executing")
    /\ pc' = "approved"
    /\ UNCHANGED <<mode, itemVars, events, queueVars, active, batch, locked, historyVars, spent>>

Reject ==
    /\ pc = "approval"
    /\ Replies(ApprovalWindow) # {}
    /\ CAS("awaiting_approval", "questioning")
    /\ Continue("rejected")
    /\ UNCHANGED <<mode, itemVars, events, queueVars, locked, historyVars, spent>>

Clarify ==
    /\ pc = "approval"
    /\ Replies(ApprovalWindow) # {}
    /\ Continue("clarify")
    /\ UNCHANGED <<mode, itemVars, rowVars, events, queueVars, locked, historyVars, spent>>

Acknowledge ==
    /\ pc = "rejected"
    /\ Note /\ Post(Bot(0))
    /\ Continue("answers")
    /\ UNCHANGED <<mode, rowVars, queueVars, locked, historyVars, spent>>

Explain == pc = "clarify" /\ Say(0, "said")

\* executePlan: two notes and a comment, then the plan is carried out.
Announce ==
    /\ pc = "approved"
    /\ NoteTwice
    /\ Post(Bot(0))
    /\ Continue("execute")
    /\ UNCHANGED <<mode, rowVars, queueVars, locked, historyVars, spent>>

Execute ==
    /\ pc = "execute"
    /\ executed' = Append(executed, [plan |-> plan, by |-> seen.by])
    /\ Post(Bot(0))
    /\ Continue("executed")
    /\ UNCHANGED <<mode, rowVars, events, queueVars, locked, heard, spent>>

Finish ==
    /\ pc = "executed"
    /\ NoteTwice
    /\ CAS("executing", "completed")
    /\ Complete
    /\ UNCHANGED <<mode, itemVars, queueVars, locked, historyVars, spent>>

-----------------------------------------------------------------------------
(* Trouble *)

\* The job throws and is tried again, unless its attempts are used up.
Throw ==
    /\ delayed' = delayed \cup {[j EXCEPT !.attempt = @ + 1] : j \in {k \in active : k.attempt + 1 < MaxAttempts}}
    /\ Complete
    /\ UNCHANGED <<mode, itemVars, rowVars, events, wait, historyVars>>

\* There is no ticket yet: ticket_events has no row for it, and gatherContext
\* finds none.  An error while comments are synced is logged and passed over.
NoEntity ==
    /\ pc \in {"note", "analyze"} /\ ~seen.entity
    /\ Throw
    /\ UNCHANGED <<locked, spent>>

NoEntitySync ==
    /\ pc = "record" /\ ~seen.entity /\ batch # {}
    /\ pc' = "drive" /\ batch' = {}
    /\ UNCHANGED <<mode, itemVars, rowVars, events, queueVars, active, seen, locked, historyVars, spent>>

JobFails ==
    /\ \/ /\ \/ pc \in {"taken", "enqueue", "rejected", "approved"}
             \/ pc = "sync" /\ seen.new
          /\ Suffer("errors")
       \/ /\ pc \in {"taken", "new", "enqueue", "note", "analyze", "answers", "think",
                     "approval", "rejected", "approved", "clarify"}
          /\ Suffer("outages")
    /\ Throw
    /\ UNCHANGED locked

\* The lock is taken before the row is read, outside the try.
LockLeaks ==
    /\ Driven /\ ~seen.new
    /\ Suffer("outages")
    /\ locked' = TRUE
    /\ Throw

SyncFails ==
    /\ \/ pc = "sync" /\ Suffer("errors")
       \/ pc = "record" /\ Suffer("outages")
    /\ pc' = "drive" /\ batch' = {}
    /\ UNCHANGED <<mode, itemVars, rowVars, events, queueVars, active, seen, locked, historyVars>>

\* Variant: a state of its own.
RolledBackOwn(s) == "failed"

RolledBack(s) == IF s = "analyzing" THEN "idle" ELSE "questioning"

\* The catch of runAnalysis and of generatePlan puts the state back.
RollBack ==
    /\ \/ pc \in {"analyze", "plan", "stored"} /\ Suffer("errors")
       \/ pc \in {"analyzed", "stored", "posted", "proposed"} /\ Suffer("outages")
    /\ seen.entity
    /\ state' = RolledBack(state)
    /\ Complete
    /\ UNCHANGED <<mode, itemVars, row, revision, lastComment, plan, events, queueVars, locked,
                   historyVars>>

\* The catch of processAnswers, which gets the errors of gatherContext in
\* generatePlan too, and those of handleClarification and executePlan make a note.
NoteFailure ==
    /\ \/ pc \in {"think", "clarify", "execute"} /\ Suffer("errors")
       \/ pc \in {"plan", "said", "execute", "executed"} /\ Suffer("outages")
    /\ Note
    /\ Complete
    /\ UNCHANGED <<mode, itemVars, rowVars, queueVars, locked, historyVars>>

\* The note is lost with the event that could not be written.
GiveUp ==
    /\ pc \in {"plan", "said", "execute", "executed"}
    /\ Suffer("outages")
    /\ Complete
    /\ UNCHANGED <<mode, itemVars, rowVars, events, queueVars, locked, historyVars>>

Again ==
    /\ \E j \in delayed : wait' = Append(wait, j) /\ delayed' = delayed \ {j}
    /\ UNCHANGED <<mode, itemVars, rowVars, events, jobVars, locked, historyVars, spent>>

\* The process dies: its job is given back once, and the lock is gone.
Crash ==
    /\ active # {} \/ locked
    /\ Suffer("crashes")
    /\ \/ active = {} /\ UNCHANGED wait
       \/ \E j \in active : wait' = IF j.stalls = 0 THEN <<[j EXCEPT !.stalls = 1]>> \o wait ELSE wait
    /\ Complete
    /\ locked' = FALSE
    /\ UNCHANGED <<mode, itemVars, rowVars, events, delayed, historyVars>>

-----------------------------------------------------------------------------
Sync == Take \/ Load \/ CreateTask \/ Register \/ AddIngest \/ RecordRevision \/ ReadComments
    \/ NoComments \/ RecordComment \/ MoveWatermark \/ NoEntity \/ NoEntitySync

Drive == Skip \/ StartAnalysis \/ CheckAnswers \/ CheckApproval \/ Analyze \/ Analyzed
    \/ NoAnswers \/ Answers \/ FollowUp \/ Ready \/ Said
    \/ Vague \/ StorePlan \/ PostPlan \/ Propose \/ AwaitApproval
    \/ NoReply \/ Approve \/ Reject \/ Clarify \/ Acknowledge \/ Explain
    \/ Announce \/ Execute \/ Finish

Trouble == JobFails \/ LockLeaks \/ SyncFails \/ RollBack \/ NoteFailure \/ GiveUp \/ Crash

Next == Comment \/ Edit \/ Poll \/ Link \/ Sync \/ Drive \/ Again \/ Trouble

Spec == Init /\ [][Next]_vars

\* The poll loop goes round, the worker works, back-offs pass, and the ingestion
\* engine gets to the ticket.  Nobody has to comment.
Fairness == WF_vars(Poll) /\ WF_vars(Sync \/ Drive) /\ WF_vars(Again) /\ WF_vars(Link)

FairSpec == Spec /\ Fairness

-----------------------------------------------------------------------------
(* Properties *)

\* The values each variable may hold.
ItemTypes ==
    rev \in Nat /\ assigned \in BOOLEAN /\ comments \in Seq(CommentType) /\ changed \in BOOLEAN
RowTypes ==
    /\ row \in {"none", "unlinked", "queued", "linked"} /\ revision \in Nat
    /\ lastComment \in Nat /\ state \in WorkflowState /\ plan \in Nat
QueueTypes == wait \in Seq(Job) /\ delayed \subseteq Job
JobTypes == active \subseteq Job /\ pc \in Steps /\ seen \in Read /\ batch \subseteq Nat
HistoryTypes == heard \in Seq(SUBSET Nat) /\ executed \in Seq([plan : Nat, by : Nat])
SpentTypes == spent \in [Troubles \cup {"comments"} -> Nat]

TypeOK ==
    /\ mode \in {"ticket", "task"} /\ locked \in BOOLEAN /\ events \in Seq(Event)
    /\ ItemTypes /\ RowTypes /\ QueueTypes /\ JobTypes /\ HistoryTypes /\ SpentTypes

Failures == spent.errors + spent.outages + spent.crashes

Is(k, type, n) == events[k] = [type |-> type, n |-> n]

\* The watermark of the comments runs ahead of no human comment, whatever is
\* written while comments are synced, and whatever fails or crashes there.
CommentsSynced ==
    \A c \in 1 .. lastComment :
      comments[c].by = "human" => \E k \in DOMAIN events : Is(k, "inbound", c)

\* A plan is carried out at most once, it is the plan that was posted and
\* proposed last, and the comment taken for its approval is none of those the
\* plan was made from.  Only an outage or a crash between the events of comments
\* and their watermark, which records a comment twice, can break the latter.
ApprovedPlanExecuted ==
    /\ Len(executed) <= 1
    /\ \A i \in DOMAIN executed : LET e == executed[i] IN
         /\ \E k \in DOMAIN events :
              /\ Is(k, "proposed", e.plan)
              /\ \A l \in k + 1 .. Len(events) : events[l].type # "proposed"
         /\ \E c \in DOMAIN comments : comments[c] = Bot(e.plan)
         /\ spent.outages + spent.crashes = 0 => e.by \notin heard[e.plan]

\* Whatever Azure DevOps and the AI answer or fail to answer, the work item of an
\* operational task is not left analysing or planning, states no job takes up.
NotStranded ==
    mode = "task" /\ spent.outages + spent.crashes = 0 /\ active = {} =>
        state \notin {"analyzing", "planning"}

\* processor.ts: "Comment sync and workflow will be triggered on subsequent poll
\* cycles when existingSync.ticketId is populated", that is, not before, which
\* would leave a work item that has got its ticket analysing for ever.
NotStrandedWithTicket ==
    spent.outages + spent.crashes = 0 /\ row = "linked" /\ active = {} =>
        state \notin {"analyzing", "planning"}

\* The last change of a work item is a comment on it, and no job has begun its
\* analysis without a ticket.
JustWritten ==
    /\ changed /\ comments # <<>> /\ comments[Len(comments)] = Human
    /\ row = "linked"
    /\ active # {} => seen.entity
    /\ state \in {"analyzing", "planning"} =>
         pc \in {"analyze", "analyzed", "plan", "stored", "posted", "proposed"}

Answered(c) ==
    \E k, o \in DOMAIN events :
      Is(k, "inbound", c) /\ k < o /\ events[o].type \in {"outbound", "proposed"}

\* It and the comments before it are answered by a question, an explanation or
\* a plan, or start the execution, or come after it, also when the AI's plan was
\* no plan and when they are written while the worker is busy; unless something
\* fails or the work item is taken away from the bot.
CommentAnswered ==
    JustWritten ~>
        \/ \A c \in DOMAIN comments : comments[c] = Human => Answered(c)
        \/ state \in {"executing", "completed"} \/ ~assigned
        \/ Failures > 0
=============================================================================
