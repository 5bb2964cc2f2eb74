---------------------------- MODULE IssueResolution ----------------------------
(***************************************************************************)
(* The issue-resolution workflow: an operator asks for an automated fix of *)
(* a ticket, the issue-resolver worker clones the repository and writes a  *)
(* plan, an operator approves or rejects the plan over REST, MCP or Slack, *)
(* and the worker executes an approved plan and pushes a branch.           *)
(*                                                                         *)
(* The row of table issue_jobs is shared by the HTTP handlers of           *)
(* copilot-api, the MCP tools, the Slack handlers and the worker.  Every   *)
(* await on the database or on the queue is a point where another of them  *)
(* may run, so a handler is split into one action per such write.  The     *)
(* queue 'issue-resolve' is BullMQ's: a job whose id is already known is   *)
(* not added again, a job is attempted once, a job whose worker died is    *)
(* put back once, and a failed job stays until it is retried or discarded. *)
(* Ticket events, messages and learning extraction are write-only and left *)
(* out; that the write may fail is not.                                    *)
(***************************************************************************)
EXTENDS Naturals, Sequences, FiniteSets

CONSTANTS
    Jobs,           \* issue jobs (rows that may be created)
    Callers,        \* request handlers that may be in flight at one time
    Channels,       \* where decisions come from: subset of {"rest", "slack"}
    MaxCalls,       \* bound on the requests made
    MaxErrors,      \* bound on the errors thrown while a queue job is processed
    MaxOutages,     \* bound on the writes lost to a database or Redis outage
    MaxCrashes,     \* bound on the crashes of the worker process
    MaxRetries      \* bound on an administrator's retries and discards

ASSUME ChannelsAssumption == Channels \subseteq {"rest", "slack"}
ASSUME BoundsAssumption ==
    /\ MaxCalls \in Nat /\ MaxErrors \in Nat /\ MaxOutages \in Nat
    /\ MaxCrashes \in Nat /\ MaxRetries \in Nat

VARIABLES
    \* issue_jobs
    status,         \* status[j], "NONE" before the row is created
    plan,           \* plan[j]: 0 for null, else the number of the plan stored
    planRevision,   \* planRevision[j]
    approved,       \* approved[j]: approvedAt and approvedBy are set
    \* the BullMQ queue
    wait,           \* waiting queue jobs, in the order they will be taken
    stalled,        \* queue jobs whose worker died and that nobody has noticed yet
    failed,         \* failed queue jobs
    resumed,        \* issue jobs whose resume job is kept among the completed ones
    \* the worker
    active,         \* the queue job being processed: a set of at most one entry
    pc,             \* where its processing stands
    loaded,         \* the row as it was read when processing began
    \* the request handlers
    call,
    \* history, read by the properties only
    approvals,      \* approvals accepted
    rejections,     \* rejections that moved a row to PLANNING
    pushes,         \* pushes[j]: the plans whose changes were pushed, in order
    spent           \* how much of each bound is used

rowVars     == <<status, plan, planRevision, approved>>
queueVars   == <<wait, stalled, failed, resumed>>
workerVars  == <<active, pc, loaded>>
historyVars == <<approvals, rejections, pushes>>
vars == <<rowVars, queueVars, workerVars, call, historyVars, spent>>

-----------------------------------------------------------------------------
Status == {"NONE", "PENDING", "CLONING", "ANALYZING", "PLANNING",
           "AWAITING_APPROVAL", "APPLYING", "PUSHING", "COMPLETED", "FAILED"}

\* What a queue job asks for: the payload { issueJobId, resume?, regenerateFeedback? }.
Kinds == {"new", "resume", "regenerate"}
Entry == [kind : Kinds, job : Jobs, by : Callers, stalls : 0..1]

WorkerPc == {"idle", "loaded", "clone", "analyze", "plan", "apply", "push",
             "pushed", "event", "done", "failing"}

CallPc == {"idle", "checked", "updated"}
NoCall == [pc |-> "idle"]
Call   == [pc : {"checked", "updated"}, kind : Kinds, via : Channels, job : Jobs]

Approval == [job : Jobs, plan : Nat, via : Channels]
Decision == [job : Jobs, plan : Nat]

Bounds == [calls |-> MaxCalls, errors |-> MaxErrors, outages |-> MaxOutages,
           crashes |-> MaxCrashes, retries |-> MaxRetries]

Spend(what) ==
    /\ spent[what] < Bounds[what]
    /\ spent' = [spent EXCEPT ![what] = @ + 1]

Init ==
    /\ status = [j \in Jobs |-> "NONE"]
    /\ plan = [j \in Jobs |-> 0]
    /\ planRevision = [j \in Jobs |-> 0]
    /\ approved = [j \in Jobs |-> FALSE]
    /\ wait = <<>>
    /\ stalled = {}
    /\ failed = {}
    /\ resumed = {}
    /\ active = {}
    /\ pc = "idle"
    /\ loaded = [status |-> "NONE", plan |-> 0]
    /\ call = [c \in Callers |-> NoCall]
    /\ approvals = {}
    /\ rejections = {}
    /\ pushes = [j \in Jobs |-> <<>>]
    /\ spent = [w \in DOMAIN Bounds |-> 0]

-----------------------------------------------------------------------------
(* The request handlers.  A handler reads the row, decides, updates the row *)
(* and then adds a queue job; each of the last two is a step.               *)

\* The ids BullMQ still knows: every entry, in whatever state, keeps its id.
Entries == {wait[i] : i \in DOMAIN wait} \cup active \cup stalled \cup failed

ResumeIdKnown(j) ==
    \/ j \in resumed
    \/ \E e \in Entries : e.kind = "resume" /\ e.job = j

Idle(c) == call[c].pc = "idle"

\* POST /api/issue-jobs and create_issue_job, for a ticket and a repository
\* that pass the handler's checks (a refused request writes nothing).
Create(c, j) ==
    /\ Idle(c)
    /\ status[j] = "NONE"
    /\ Spend("calls")
    /\ status' = [status EXCEPT ![j] = "PENDING"]
    /\ \E via \in Channels :
         call' = [call EXCEPT ![c] =
                    [pc |-> "updated", kind |-> "new", via |-> via, job |-> j]]
    /\ UNCHANGED <<plan, planRevision, approved, queueVars, workerVars, historyVars>>

\* Variants: every channel moves the row on; a rejection leaves it waiting; a
\* status of its own for rejected plans.
StatusAfterApprovalUniform(j, via) == "CLONING"
StatusAfterRejectionKept == "AWAITING_APPROVAL"
StatusAfterRejectionOwn == "REJECTED"

\* The row's status once a decision is accepted.
StatusAfterApproval(j, via) == IF via = "rest" THEN "CLONING" ELSE status[j]
StatusAfterRejection == "PLANNING"

\* Approve: the status and the plan are checked, then one conditional update
\* takes the row out of AWAITING_APPROVAL (REST, MCP) or only records who
\* approved it (Slack).
Approve(c, j, via) ==
    /\ Idle(c)
    /\ status[j] = "AWAITING_APPROVAL"
    /\ plan[j] # 0
    /\ Spend("calls")
    /\ status' = [status EXCEPT ![j] = StatusAfterApproval(j, via)]
    /\ approved' = [approved EXCEPT ![j] = TRUE]
    /\ approvals' = approvals \cup {[job |-> j, plan |-> plan[j], via |-> via]}
    /\ call' = [call EXCEPT ![c] =
                  [pc |-> "updated", kind |-> "resume", via |-> via, job |-> j]]
    /\ UNCHANGED <<plan, planRevision, queueVars, workerVars, rejections, pushes>>

\* Reject, first half: the check made before the conditional update.  Over
\* Slack this is the button, and the second half is the modal's submission.
RejectCheck(c, j, via) ==
    /\ Idle(c)
    /\ status[j] = "AWAITING_APPROVAL"
    /\ plan[j] # 0
    /\ Spend("calls")
    /\ call' = [call EXCEPT ![c] =
                  [pc |-> "checked", kind |-> "regenerate", via |-> via, job |-> j]]
    /\ UNCHANGED <<rowVars, queueVars, workerVars, historyVars>>

\* Reject, second half, when the row still awaits approval.
RejectUpdate(c) ==
    /\ call[c].pc = "checked"
    /\ LET j == call[c].job IN
         /\ status[j] = "AWAITING_APPROVAL"
         /\ status' = [status EXCEPT ![j] = StatusAfterRejection]
         /\ approved' = [approved EXCEPT ![j] = FALSE]
         /\ rejections' = rejections \cup {[job |-> j, plan |-> plan[j]]}
    /\ call' = [call EXCEPT ![c].pc = "updated"]
    /\ UNCHANGED <<plan, planRevision, queueVars, workerVars, approvals, pushes, spent>>

\* Reject, second half, when someone else was faster: no row matches.  Only
\* Slack looks at the count; REST and MCP go on to add the queue job.
RejectLost(c) ==
    /\ call[c].pc = "checked"
    /\ status[call[c].job] # "AWAITING_APPROVAL"
    /\ call' = [call EXCEPT ![c] = IF @.via = "slack" THEN NoCall
                                   ELSE [@ EXCEPT !.pc = "updated"]]
    /\ UNCHANGED <<rowVars, queueVars, workerVars, historyVars, spent>>

\* The handler adds its queue job.  Only a resume job has an id of its own,
\* resume-<issue job>, and is dropped when that id is known.
Add(c) ==
    /\ call[c].pc = "updated"
    /\ LET k == call[c].kind
           j == call[c].job
       IN  wait' = IF k = "resume" /\ ResumeIdKnown(j) THEN wait
                   ELSE Append(wait, [kind |-> k, job |-> j, by |-> c, stalls |-> 0])
    /\ call' = [call EXCEPT ![c] = NoCall]
    /\ UNCHANGED <<rowVars, stalled, failed, resumed, workerVars, historyVars, spent>>

\* A write of the handler fails and the request ends where it stands.
CallAborts(c) ==
    /\ ~Idle(c)
    /\ Spend("outages")
    /\ call' = [call EXCEPT ![c] = NoCall]
    /\ UNCHANGED <<rowVars, queueVars, workerVars, historyVars>>

-----------------------------------------------------------------------------
(* The worker, processIssueResolve.                                         *)

\* The next queue job is taken and the row is read, once.
Take ==
    /\ pc = "idle"
    /\ wait # <<>>
    /\ active' = {Head(wait)}
    /\ wait' = Tail(wait)
    /\ loaded' = [status |-> status[Head(wait).job], plan |-> plan[Head(wait).job]]
    /\ pc' = "loaded"
    /\ UNCHANGED <<rowVars, stalled, failed, resumed, call, historyVars, spent>>

\* Variant: the status is not looked at.
ActsAlways(e) == TRUE

\* A regenerate or resume job acts only on a row that was awaiting approval.
Acts(e) == e.kind = "new" \/ loaded.status = "AWAITING_APPROVAL"

SetStatus(e, s) == status' = [status EXCEPT ![e.job] = s]

\* Variant: the worker keeps asking until the row awaits approval.
IgnorePolling(e) ==
    /\ pc = "loaded"
    /\ ~Acts(e)
    /\ loaded' = [loaded EXCEPT !.status = status[e.job]]
    /\ UNCHANGED <<rowVars, queueVars, active, pc, call, historyVars, spent>>

\* The job has nothing to do: a warning is logged and it completes.
Ignore(e) ==
    /\ pc = "loaded"
    /\ ~Acts(e)
    /\ pc' = "done"
    /\ UNCHANGED <<rowVars, queueVars, active, loaded, call, historyVars, spent>>

\* The first status is written, whatever the row holds by now.
Start(e) ==
    /\ pc = "loaded"
    /\ Acts(e)
    /\ e.kind = "resume" => loaded.plan # 0
    /\ SetStatus(e, IF e.kind = "regenerate" THEN "PLANNING" ELSE "CLONING")
    /\ pc' = "clone"
    /\ UNCHANGED <<plan, planRevision, approved, queueVars, active, loaded, call,
                   historyVars, spent>>

\* prepareRepo returned: a new job is ANALYZING, a resumed one is APPLYING.
Prepared(e) ==
    /\ pc = "clone"
    /\ \/ /\ e.kind = "new"
          /\ SetStatus(e, "ANALYZING")
          /\ pc' = "analyze"
       \/ /\ e.kind = "regenerate"
          /\ loaded.plan # 0
          /\ pc' = "plan"
          /\ UNCHANGED status
       \/ /\ e.kind = "resume"
          /\ SetStatus(e, "APPLYING")
          /\ pc' = "apply"
    /\ UNCHANGED <<plan, planRevision, approved, queueVars, active, loaded, call,
                   historyVars, spent>>

Analyzed(e) ==
    /\ pc = "analyze"
    /\ SetStatus(e, "PLANNING")
    /\ pc' = "plan"
    /\ UNCHANGED <<plan, planRevision, approved, queueVars, active, loaded, call,
                   historyVars, spent>>

\* Variant: execution follows the first plan at once, as before there were
\* approvals.
PcAfterPlanEager(e) == IF e.kind = "new" THEN "apply" ELSE "done"

PcAfterPlan(e) == IF e.kind = "new" THEN "event" ELSE "done"

\* A plan has been generated: it is stored and the row awaits approval.  A
\* first plan is revision 1 and is noted on the ticket; a regenerated one
\* increments the revision and clears the approval.
Planned(e) ==
    /\ pc = "plan"
    /\ SetStatus(e, "AWAITING_APPROVAL")
    /\ plan' = [plan EXCEPT ![e.job] = @ + 1]
    /\ \/ /\ e.kind = "new"
          /\ planRevision' = [planRevision EXCEPT ![e.job] = 1]
          /\ UNCHANGED approved
       \/ /\ e.kind = "regenerate"
          /\ planRevision' = [planRevision EXCEPT ![e.job] = @ + 1]
          /\ approved' = [approved EXCEPT ![e.job] = FALSE]
    /\ pc' = PcAfterPlan(e)
    /\ UNCHANGED <<queueVars, active, loaded, call, historyVars, spent>>

\* The changes of the loaded plan are written to the clone.
Applied(e) ==
    /\ pc = "apply"
    /\ SetStatus(e, "PUSHING")
    /\ pc' = "push"
    /\ UNCHANGED <<plan, planRevision, approved, queueVars, active, loaded, call,
                   historyVars, spent>>

Push(e) ==
    /\ pc = "push"
    /\ pushes' = [pushes EXCEPT ![e.job] = Append(@, loaded.plan)]
    /\ pc' = "pushed"
    /\ UNCHANGED <<rowVars, queueVars, active, loaded, call, approvals, rejections, spent>>

Finish(e) ==
    /\ pc = "pushed"
    /\ SetStatus(e, "COMPLETED")
    /\ pc' = "event"
    /\ UNCHANGED <<plan, planRevision, approved, queueVars, active, loaded, call,
                   historyVars, spent>>

EventCreated(e) ==
    /\ pc = "event"
    /\ pc' = "done"
    /\ UNCHANGED <<rowVars, queueVars, active, loaded, call, historyVars, spent>>

\* Something in the try block throws: the catch block marks the row FAILED
\* and throws again.
Fail(e) ==
    /\ pc \notin {"idle", "done", "failing"}
    /\ Spend("errors")
    /\ SetStatus(e, "FAILED")
    /\ pc' = "failing"
    /\ UNCHANGED <<plan, planRevision, approved, queueVars, active, loaded, call,
                   historyVars>>

\* As Fail, when the write of FAILED fails too and the row stays as it is.
FailUnrecorded(e) ==
    /\ pc \notin {"idle", "done", "failing"}
    /\ Spend("outages")
    /\ pc' = "failing"
    /\ UNCHANGED <<rowVars, queueVars, active, loaded, call, historyVars>>

\* The worker reports the outcome to the queue.  A completed job is kept; the
\* ids of all but resume jobs are never used again.
Complete(e) ==
    /\ pc = "done"
    /\ resumed' = IF e.kind = "resume" THEN resumed \cup {e.job} ELSE resumed
    /\ active' = {}
    /\ pc' = "idle"
    /\ UNCHANGED <<rowVars, wait, stalled, failed, loaded, call, historyVars, spent>>

GiveUp(e) ==
    /\ pc = "failing"
    /\ failed' = failed \cup {e}
    /\ active' = {}
    /\ pc' = "idle"
    /\ UNCHANGED <<rowVars, wait, stalled, resumed, loaded, call, historyVars, spent>>

\* The worker process dies and is restarted; its queue job is left locked.
Crash(e) ==
    /\ Spend("crashes")
    /\ stalled' = stalled \cup {e}
    /\ active' = {}
    /\ pc' = "idle"
    /\ UNCHANGED <<rowVars, wait, failed, resumed, loaded, call, historyVars>>

-----------------------------------------------------------------------------
(* The queue's own steps, and the failed-jobs page.                         *)

\* The lock of a stalled queue job expires: the first time it is put back to
\* be taken next, the second time it fails.
Recover(e) ==
    /\ stalled' = stalled \ {e}
    /\ IF e.stalls = 0
       THEN /\ wait' = <<[e EXCEPT !.stalls = 1]>> \o wait
            /\ UNCHANGED failed
       ELSE /\ failed' = failed \cup {e}
            /\ UNCHANGED wait
    /\ UNCHANGED <<rowVars, resumed, workerVars, call, historyVars, spent>>

Retry(e) ==
    /\ Spend("retries")
    /\ failed' = failed \ {e}
    /\ wait' = Append(wait, e)
    /\ UNCHANGED <<rowVars, stalled, resumed, workerVars, call, historyVars>>

Discard(e) ==
    /\ Spend("retries")
    /\ failed' = failed \ {e}
    /\ UNCHANGED <<rowVars, wait, stalled, resumed, workerVars, call, historyVars>>

-----------------------------------------------------------------------------
Request ==
    \E c \in Callers :
        \/ \E j \in Jobs : Create(c, j)
        \/ \E j \in Jobs, via \in Channels : Approve(c, j, via) \/ RejectCheck(c, j, via)

Handler(c) == RejectUpdate(c) \/ RejectLost(c) \/ Add(c)

Process(e) ==
    \/ Ignore(e) \/ Start(e) \/ Prepared(e) \/ Analyzed(e) \/ Planned(e)
    \/ Applied(e) \/ Push(e) \/ Finish(e) \/ EventCreated(e)
    \/ Complete(e) \/ GiveUp(e)

Trouble ==
    \/ \E c \in Callers : CallAborts(c)
    \/ \E e \in active : Fail(e) \/ FailUnrecorded(e) \/ Crash(e)

Administer == \E e \in failed : Retry(e) \/ Discard(e)

Next ==
    \/ Request
    \/ \E c \in Callers : Handler(c)
    \/ Take
    \/ \E e \in active : Process(e)
    \/ \E e \in stalled : Recover(e)
    \/ Trouble
    \/ Administer

Spec == Init /\ [][Next]_vars

\* What the deployment guarantees: a request that was accepted runs to its end,
\* the worker container is restarted and keeps working, and the queue looks for
\* stalled jobs every thirty seconds.  Nobody has to make a request or a retry.
Fairness ==
    /\ \A c \in Callers : WF_vars(Handler(c))
    /\ WF_vars(Take)
    /\ WF_vars(\E e \in active : Process(e))
    /\ WF_vars(\E e \in stalled : Recover(e))

FairSpec == Spec /\ Fairness

-----------------------------------------------------------------------------
(* Properties *)

\* The values each variable may hold.
TypeOK ==
    /\ status \in [Jobs -> Status]
    /\ plan \in [Jobs -> Nat]
    /\ planRevision \in [Jobs -> Nat]
    /\ approved \in [Jobs -> BOOLEAN]
    /\ wait \in Seq(Entry)
    /\ stalled \subseteq Entry
    /\ failed \subseteq Entry
    /\ resumed \subseteq Jobs
    /\ active \subseteq Entry
    /\ pc \in WorkerPc
    /\ loaded \in [status : Status, plan : Nat]
    /\ call \in [Callers -> Call \cup {NoCall}]
    /\ approvals \subseteq Approval
    /\ rejections \subseteq Decision
    /\ pushes \in [Jobs -> Seq(Nat)]
    /\ spent \in [DOMAIN Bounds -> Nat]

WasApproved(j, p) == \E a \in approvals : a.job = j /\ a.plan = p

\* No branch is pushed for an issue job that nobody ever approved, whatever
\* crashes, fails and is retried: the only way to the push is a resume job,
\* and only an approval adds one.
PushNeedsApproval ==
    \A j \in Jobs : pushes[j] # <<>> => \E a \in approvals : a.job = j

\* Only approved plans are executed.  The code breaks it: after a crash, or
\* when an administrator retries it, the first queue job of an issue job runs
\* again without looking at the status, and replaces a plan between its
\* approval and its execution.
OnlyApprovedPlansPushed ==
    \A j \in Jobs : \A i \in DOMAIN pushes[j] : WasApproved(j, pushes[j][i])

\* While no queue job runs twice, the plan that is executed is the plan that
\* was approved: approvals and rejections alone, in any order and over any two
\* channels, cannot exchange one plan for another under an approval.
ApprovedPlanExecuted == spent.crashes + spent.retries = 0 => OnlyApprovedPlansPushed

\* An issue job is executed at most once.  Two operators who approve over any
\* two channels do not push twice, nor does a queue job that runs a second
\* time after one crash or one retry: the row has left AWAITING_APPROVAL by
\* then, and the id of its resume job is taken.
AtMostOnePush ==
    spent.crashes + spent.retries <= 1 => \A j \in Jobs : Len(pushes[j]) <= 1

Concluded(j) == status[j] \in {"COMPLETED", "FAILED"}
Rejected(j) == \E r \in rejections : r.job = j
ApprovedVia(j, via) == \E a \in approvals : a.job = j /\ a.via = via

\* An approval given in Slack is executed or fails visibly, unless the plan is
\* rejected after all, is approved over REST as well, or a write is lost or a
\* queue job runs twice.
SlackApprovalConcludes ==
    \A j \in Jobs : ApprovedVia(j, "slack") ~>
        \/ Concluded(j) \/ Rejected(j) \/ ApprovedVia(j, "rest")
        \/ spent.outages + spent.crashes + spent.retries > 0

\* An approval given over REST or MCP is executed or fails visibly, unless the
\* plan is rejected after all.  The code breaks it: the handler moves the row to
\* CLONING and the worker resumes only rows in AWAITING_APPROVAL.
RestApprovalConcludes ==
    \A j \in Jobs : ApprovedVia(j, "rest") ~> (Concluded(j) \/ Rejected(j))

\* No queue job is lost or held for ever: whatever crashes and fails, the
\* worker comes back to an empty queue as long as nobody asks for more.
QueueDrains == []<>(wait = <<>> /\ stalled = {} /\ active = {})

=============================================================================
