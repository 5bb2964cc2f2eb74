------------------------------- MODULE Strategist -------------------------------
(***************************************************************************)
(* An orchestrated analysis of a ticket (orchestrated-v2): a strategist    *)
(* dispatches batches of sub-tasks, each a loop of AI calls with a budget  *)
(* of its own, until it completes the analysis, the budget of the ticket   *)
(* is used up, too many sub-tasks fail, or nothing moves any more.         *)
(*                                                                         *)
(* Sub-tasks of a batch run side by side but share no counter: what they   *)
(* return is added up in their order after all have ended, so the model    *)
(* runs them in that order.  Ratios are percentages.                       *)
(***************************************************************************)
EXTENDS Naturals, Sequences

CONSTANTS
    Costs,         \* tokens of an AI call
    ToolCalls,     \* tool calls a sub-task makes in one turn
    Plans,         \* what a strategist may want its sub-tasks to do
    MaxRounds,     \* orchMaxIterations
    MaxInner,      \* AI calls of the strategist in one round
    MaxSubTasks,   \* sub-tasks of a dispatch, what exceeds them is dropped
    SubTaskTokens, SubTaskRounds, SubTaskCalls, SubTaskStop,  \* budgetConfig.subTask
    TicketTokens, TicketStop,                                 \* budgetConfig.ticket
    CumulativeStop, ConsecutiveStop                           \* budgetConfig.strategistGuard

ASSUME StrategistAssumption ==
    /\ Costs \subseteq Nat /\ \E c \in Costs : \A d \in Costs : d <= c
    /\ ToolCalls \subseteq Nat \ {0}
    /\ MaxRounds \in Nat \ {0} /\ MaxInner \in Nat \ {0} /\ MaxSubTasks \in Nat \ {0}
    /\ {SubTaskTokens, SubTaskRounds, SubTaskCalls, TicketTokens} \subseteq Nat \ {0}
    /\ {SubTaskStop, TicketStop, CumulativeStop, ConsecutiveStop} \subseteq 10 .. 99

VARIABLES
    phase,       \* asking, dispatched, stalled or concluded
    round, inner,\* iterations of the two loops
    tokens,      \* orchTotalInputTokens + orchTotalOutputTokens
    ticketStop, guardStop,  \* the two hard stops
    guard,       \* batchFailureState
    stall,       \* stallState; its rule of rounds without sub-tasks can not apply
    dispatch,    \* the batch under way and what has come back of it
    task,        \* the sub-task under way
    \* history, read by the properties only
    batches,     \* those that ended
    asked        \* tokens of the strategist since the last dispatch

loopVars == <<phase, round, inner, ticketStop>>
strategistVars == <<loopVars, tokens, guardStop, guard, stall, dispatch, task, batches, asked>>

Fresh == [tokens |-> 0, rounds |-> 0, calls |-> 0, wrote |-> FALSE, attempt |-> 1, again |-> FALSE]
NoBatch == [plan |-> "none", size |-> 0, ended |-> 0, exhausted |-> 0, wrote |-> FALSE]

StrategistInit ==
    /\ phase = "asking" /\ round = 1 /\ inner = 0 /\ tokens = 0
    /\ ticketStop = FALSE /\ guardStop = FALSE
    /\ guard = [exhausted |-> 0, total |-> 0, bad |-> 0]
    /\ stall = [last |-> "none", same |-> 0, wrote |-> FALSE, completed |-> 0]
    /\ dispatch = NoBatch /\ task = Fresh
    /\ batches = <<>> /\ asked = 0

Max2(m, n) == IF m > n THEN m ELSE n
LargestCost == CHOOSE c \in Costs : \A d \in Costs : d <= c

-----------------------------------------------------------------------------
(* The strategist *)

\* evaluateTicketBudget
TicketUsedUp(used) == used * 100 >= TicketStop * TicketTokens

\* The next round, with the budget of the ticket looked at, or the last has been.
NextRound(used) ==
    /\ inner' = 0
    /\ ticketStop' = (ticketStop \/ TicketUsedUp(used))
    /\ \/ round < MaxRounds /\ round' = round + 1 /\ phase' = "asking"
       \/ round = MaxRounds /\ phase' = "concluded" /\ UNCHANGED round

\* An AI call of the strategist and its cost.
Asks(c) ==
    /\ phase = "asking"
    /\ tokens' = tokens + c

\* complete_analysis, an empty dispatch, or a turn without a tool.
Completes ==
    /\ \E c \in Costs : Asks(c) /\ asked' = asked + c
    /\ phase' = "concluded"
    /\ UNCHANGED <<round, inner, ticketStop, guardStop, guard, stall, dispatch, task, batches>>

\* kd_read_toc and the like.
Reads ==
    /\ \E c \in Costs : Asks(c) /\ asked' = asked + c
    /\ inner' = inner + 1
    /\ phase' = IF inner + 1 < MaxInner THEN "asking" ELSE "concluded"
    /\ UNCHANGED <<round, ticketStop, guardStop, guard, stall, dispatch, task, batches>>

\* Variant: what the batch may cost is not looked at.
FitsNow(used, n) == ~TicketUsedUp(used)

\* The batch fits in the budget even if each sub-task uses up its own.
Fits(used, n) == ~TicketUsedUp(used) /\ used + n * SubTaskTokens <= TicketTokens

\* With a hard stop in force dispatch_subtasks is not offered.
MayDispatch == ~ticketStop /\ ~guardStop

Dispatches(plan, n) ==
    /\ MayDispatch
    /\ \E c \in Costs :
          /\ Asks(c)
          /\ Fits(tokens + c, n)
    /\ phase' = "dispatched"
    /\ dispatch' = [NoBatch EXCEPT !.plan = plan, !.size = n]
    /\ asked' = 0
    /\ UNCHANGED <<round, inner, ticketStop, guardStop, guard, stall, task, batches>>

\* The batch is not run; the round counts, for the stall detection it does not.
DispatchAborted(n) ==
    /\ MayDispatch
    /\ \E c \in Costs :
          /\ Asks(c) /\ asked' = asked + c
          /\ ~Fits(tokens + c, n)
    /\ inner' = 0 /\ ticketStop' = TRUE
    /\ \/ round < MaxRounds /\ round' = round + 1 /\ UNCHANGED phase
       \/ round = MaxRounds /\ phase' = "concluded" /\ UNCHANGED round
    /\ UNCHANGED <<guardStop, guard, stall, dispatch, task, batches>>

-----------------------------------------------------------------------------
(* runSubTaskLoop and executeOrchestratedSubTaskV2 *)

Running == phase = "dispatched" /\ dispatch.ended < dispatch.size

\* evaluateSubTaskBudget: HARD_STOP leaves the sub-task finalize_subtask only.
Restricted(t) ==
    \/ t.tokens * 100 >= SubTaskStop * SubTaskTokens
    \/ t.rounds * 100 >= SubTaskStop * SubTaskRounds
    \/ t.calls * 100 >= SubTaskStop * SubTaskCalls

UsedUp(t) == t.rounds >= SubTaskRounds \/ t.tokens >= SubTaskTokens \/ t.calls >= SubTaskCalls

\* The sub-task comes back with what t used; or seems irrelevant and is run once
\* more with another tool, whereupon the first result is forgotten.
Returns(t, exhausted) ==
    \/ /\ dispatch' = [dispatch EXCEPT !.ended = @ + 1, !.wrote = @ \/ t.wrote,
                                 !.exhausted = @ + (IF exhausted THEN 1 ELSE 0)]
       /\ tokens' = tokens + t.tokens
       /\ task' = Fresh
    \/ /\ ~t.again
       /\ task' = [Fresh EXCEPT !.attempt = t.attempt, !.again = TRUE]
       /\ UNCHANGED <<dispatch, tokens>>

\* A turn with tools; a turn that finalizes, perhaps after tools, or has none.
TaskTurns ==
    /\ Running /\ ~UsedUp(task)
    /\ \E c \in Costs, w \in {task.wrote, task.wrote \/ ~Restricted(task)} :
          LET t == [task EXCEPT !.tokens = @ + c, !.rounds = @ + 1, !.wrote = w]
          IN  \/ /\ ~Restricted(task)
                 /\ \E k \in ToolCalls : task' = [t EXCEPT !.calls = @ + k]
                 /\ UNCHANGED <<dispatch, tokens>>
              \/ Returns(t, FALSE)
    /\ UNCHANGED <<loopVars, guardStop, guard, stall, batches, asked>>

TaskExhausted ==
    /\ Running /\ UsedUp(task)
    /\ Returns(task, TRUE)
    /\ UNCHANGED <<loopVars, guardStop, guard, stall, batches, asked>>

\* The AI call fails, for want of tool support or otherwise; whatever is thrown
\* is tried again once, from the start, and then reported as an error.  A
\* sub-task whose tools nobody knows is an error at once.
TaskFails ==
    /\ Running /\ ~UsedUp(task)
    /\ \/ Returns(task, FALSE)
       \/ /\ task.attempt = 1
          /\ task' = [Fresh EXCEPT !.attempt = 2]
          /\ UNCHANGED <<dispatch, tokens>>
       \/ /\ task.attempt = 2 \/ task = Fresh
          /\ Returns([Fresh EXCEPT !.again = TRUE], FALSE)
    /\ UNCHANGED <<loopVars, guardStop, guard, stall, batches, asked>>

-----------------------------------------------------------------------------
(* The end of a batch *)

\* evaluateBatchFailureGuard
Guarded ==
    [exhausted |-> guard.exhausted + dispatch.exhausted,
     total |-> guard.total + dispatch.size,
     bad |-> IF dispatch.exhausted * 100 >= ConsecutiveStop * dispatch.size THEN guard.bad + 1 ELSE 0]

\* Variant: the second bad batch is excused as the first is.
GuardTripsLate(g) == guard.total > 0 /\ (g.exhausted * 100 > CumulativeStop * g.total \/ g.bad > 2)

\* The first batch is free.
GuardTrips(g) == guard.total > 0 /\ (g.exhausted * 100 > CumulativeStop * g.total \/ g.bad >= 2)

\* updateStallState
Stalled ==
    [last |-> dispatch.plan,
     same |-> IF dispatch.plan = stall.last THEN stall.same + 1 ELSE 1,
     wrote |-> stall.wrote \/ dispatch.wrote,
     completed |-> stall.completed + 1]

BatchEnds ==
    /\ phase = "dispatched" /\ dispatch.ended = dispatch.size
    /\ guard' = Guarded /\ guardStop' = (guardStop \/ GuardTrips(Guarded))
    /\ stall' = Stalled
    /\ IF stall'.same >= 3 \/ (~stall'.wrote /\ stall'.completed >= 3)
       THEN phase' = "stalled" /\ UNCHANGED <<round, inner, ticketStop>>
       ELSE NextRound(tokens)
    /\ batches' = Append(batches, dispatch)
    /\ dispatch' = NoBatch
    /\ UNCHANGED <<tokens, task, asked>>

StrategistNext ==
    \/ Completes \/ Reads
    \/ \E plan \in Plans, n \in 1 .. MaxSubTasks : Dispatches(plan, n)
    \/ \E n \in 1 .. MaxSubTasks : DispatchAborted(n)
    \/ TaskTurns \/ TaskExhausted \/ TaskFails
    \/ BatchEnds

StrategistSpec == StrategistInit /\ [][StrategistNext]_strategistVars

-----------------------------------------------------------------------------
BatchType == [plan : Plans \cup {"none"}, size : Nat, ended : Nat, exhausted : Nat, wrote : BOOLEAN]

StrategistTypeOK ==
    /\ phase \in {"asking", "dispatched", "stalled", "concluded"}
    /\ round \in 1 .. MaxRounds /\ inner \in 0 .. MaxInner /\ tokens \in Nat
    /\ ticketStop \in BOOLEAN /\ guardStop \in BOOLEAN
    /\ guard \in [exhausted : Nat, total : Nat, bad : Nat]
    /\ stall \in [last : Plans \cup {"none"}, same : Nat, wrote : BOOLEAN, completed : Nat]
    /\ dispatch \in BatchType /\ dispatch.exhausted <= dispatch.ended /\ dispatch.ended <= dispatch.size
    /\ task \in [tokens : Nat, rounds : 0 .. SubTaskRounds, calls : Nat, wrote : BOOLEAN,
                 attempt : {1, 2}, again : BOOLEAN]
    /\ batches \in Seq(BatchType) /\ asked \in Nat

\* What the batches bring the ticket's account over its budget is at most the
\* last call of each sub-task of the last batch; the strategist's own calls
\* since then come on top.  A sub-task stops before its next call, not within
\* one.  (Tokens of runs that were thrown away are on no account.)
AccountKept == tokens - asked <= TicketTokens + MaxSubTasks * Max2(LargestCost - 1, 0)

\* The sum of f over the first k batches.
Sum[k \in 0 .. MaxRounds] ==
    IF k = 0 THEN [exhausted |-> 0, size |-> 0]
    ELSE [exhausted |-> Sum[k - 1].exhausted + batches[k].exhausted, size |-> Sum[k - 1].size + batches[k].size]
Bad(k) == batches[k].exhausted * 100 >= ConsecutiveStop * batches[k].size

\* After k batches: too many sub-tasks used up their budgets.
Failing(k) ==
    k >= 2 /\ \/ Sum[k].exhausted * 100 > CumulativeStop * Sum[k].size
              \/ Bad(k) /\ Bad(k - 1)

\* After k batches: three plans in a row were the same, or three batches or more
\* wrote nothing to the knowledge document.
Stuck(k) ==
    k >= 3 /\ \/ batches[k].plan = batches[k - 1].plan /\ batches[k].plan = batches[k - 2].plan
              \/ \A j \in 1 .. k : ~batches[j].wrote

\* A batch is started only if after none of those before it the sub-tasks were
\* failing or the analysis was stuck; and an analysis is ended as stalled only
\* if it was stuck.
BatchesWarranted ==
    LET started == Len(batches) + (IF phase = "dispatched" THEN 1 ELSE 0)
    IN  /\ \A k \in 1 .. started - 1 : ~Failing(k) /\ ~Stuck(k)
        /\ phase = "stalled" => Stuck(Len(batches))

=============================================================================
