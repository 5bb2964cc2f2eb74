----------------------------- MODULE PendingActions -----------------------------
(***************************************************************************)
(* What becomes of the actions the AI recommends for a ticket: each is     *)
(* carried out at once when the settings call its type safe, else it waits *)
(* as a PendingAction until an operator approves or dismisses it, over the *)
(* routes of copilot-api or with a tool of mcp-platform.                   *)
(*                                                                         *)
(* One ticket.  Runs of the analyzer, requests and operators who edit the  *)
(* ticket interleave between any two queries.                              *)
(***************************************************************************)
EXTENDS Naturals, Sequences

CONSTANTS
    Fields,           \* of the ticket, set by set_status, set_priority and set_category
    FieldValues, Invalid,
    Recommendations,  \* what the AI may return: sequences of actions
    MaxRuns, MaxRequests,
    MaxFieldEdits,    \* bound on edits of the ticket by operators
    MaxLevelEdits,    \* bound on edits of the settings
    MaxActionErrors   \* bound on queries that fail

Types == Fields \cup {"comment", "other"}
Action == [type : Types, value : FieldValues \cup {Invalid}]

ASSUME PendingAssumption ==
    /\ Fields \cap {"comment", "other"} = {} /\ Invalid \notin FieldValues
    /\ \A list \in Recommendations : list \in Seq(Action) /\ Len(list) <= 5
    /\ MaxRuns \in Nat /\ MaxRequests \in Nat
    /\ MaxFieldEdits \in Nat /\ MaxLevelEdits \in Nat /\ MaxActionErrors \in Nat

VARIABLES
    ticketFields,  \* the ticket's row
    levels,        \* of each type, what the settings say: auto, approval or unset
    advice,        \* the calls of executeRecommendations, see Advice
    pending,       \* the rows of PendingAction, in the order of their creation
    requests,      \* to approve or dismiss one, in the order of their arrival
    actionSpent,
    \* history, read by the properties only
    tacit, allowed,\* types a call dealt with unasked; that were auto since it began
    upset,         \* calls and fields that others wrote, or where a query failed, since
    executed,      \* actions carried out by a request, with the request
    refused        \* actions dismissed before anybody had approved them

pendingVars == <<ticketFields, levels, advice, pending, requests, actionSpent,
                 tacit, allowed, upset, executed, refused>>
actionHistory == <<tacit, allowed, upset, executed, refused>>

\* A call has read the settings, then the ticket, then goes through its list.
Advice == [at : {"loading", "acting", "failed"}, list : Recommendations, next : 1 .. 6,
           config : [Types -> {"auto", "approval"}], local : [Fields -> FieldValues]]
Row == [action : Action, status : {"pending", "approved", "dismissed"}]
Request == [at : {"reading", "executing", "dismissing", "done", "conflict", "failed"},
            op : {"approve", "dismiss"}, row : Nat, saw : [Fields -> FieldValues]]

ActionBounds == [edits |-> MaxFieldEdits, levels |-> MaxLevelEdits, errors |-> MaxActionErrors]
SpendAction(what) ==
    /\ actionSpent[what] < ActionBounds[what]
    /\ actionSpent' = [actionSpent EXCEPT ![what] = @ + 1]

\* The settings are merged over the defaults; whatever has no level needs approval.
AutoByDefault == Fields \cup {"comment"}

Level(config, t) ==
    IF config[t] # "unset" THEN config[t]
    ELSE IF t \in AutoByDefault THEN "auto" ELSE "approval"

AutoNow == {t \in Types : levels[t] = "auto" \/ (levels[t] = "unset" /\ t \in AutoByDefault)}

PendingInit ==
    /\ ticketFields \in [Fields -> FieldValues]
    /\ levels = [t \in Types |-> "unset"]
    /\ advice = <<>> /\ pending = <<>> /\ requests = <<>>
    /\ actionSpent = [w \in DOMAIN ActionBounds |-> 0]
    /\ tacit = {} /\ allowed = {} /\ upset = {} /\ executed = {} /\ refused = {}

\* A write of field f: all calls but those of mine see it come from somebody else.
Write(f, v, mine) ==
    /\ ticketFields' = [ticketFields EXCEPT ![f] = v]
    /\ upset' = upset \cup ((DOMAIN advice \ mine) \X {f})

\* Does the action change anything, given the fields that its caller has read?
Effective(a, saw) ==
    \/ a.type = "comment"
    \/ a.type \in Fields /\ a.value \in FieldValues /\ a.value # saw[a.type]

-----------------------------------------------------------------------------
(* executeRecommendations *)

\* loadSafetyConfig
Recommend(list) ==
    /\ Len(advice) < MaxRuns
    /\ advice' = Append(advice, [at |-> "loading", list |-> list, next |-> 1,
                                 config |-> [t \in Types |-> Level(levels, t)], local |-> ticketFields])
    /\ allowed' = allowed \cup ({Len(advice) + 1} \X AutoNow)
    /\ UNCHANGED <<ticketFields, levels, pending, requests, actionSpent, tacit, upset, executed, refused>>

LoadTicket(r) ==
    /\ advice[r].at = "loading"
    /\ advice' = [advice EXCEPT ![r].at = "acting", ![r].local = ticketFields]
    /\ upset' = upset \ ({r} \X Fields)
    /\ UNCHANGED <<ticketFields, levels, pending, requests, actionSpent, tacit, allowed, executed, refused>>

Acting(r) == advice[r].at = "acting" /\ advice[r].next <= Len(advice[r].list)
Current(r) == advice[r].list[advice[r].next]
Automatic(r) == Acting(r) /\ advice[r].config[Current(r).type] = "auto"

\* Variant: the call goes on comparing with the ticket as it was at its start.
TrackedNot(local, a) == local

\* currentStatus and its like follow what the call has written itself.
Tracked(local, a) == IF a.type \in Fields THEN [local EXCEPT ![a.type] = a.value] ELSE local

AutoExecute(r) ==
    LET a == Current(r)
    IN  /\ Automatic(r)
        /\ \/ /\ Effective(a, advice[r].local)
              /\ IF a.type \in Fields THEN Write(a.type, a.value, {r}) ELSE UNCHANGED <<ticketFields, upset>>
              /\ advice' = [advice EXCEPT ![r].next = @ + 1, ![r].local = Tracked(@, a)]
           \/ /\ ~Effective(a, advice[r].local)
              /\ advice' = [advice EXCEPT ![r].next = @ + 1]
              /\ UNCHANGED <<ticketFields, upset>>
        /\ tacit' = tacit \cup {<<r, a.type>>}
        /\ UNCHANGED <<levels, pending, requests, actionSpent, allowed, executed, refused>>

\* The update fails, or the event after it: the error is caught, the list goes on.
AutoExecuteFails(r) ==
    LET a == Current(r)
    IN  /\ Automatic(r) /\ Effective(a, advice[r].local) /\ a.type \in Fields
        /\ SpendAction("errors")
        /\ \/ Write(a.type, a.value, {})
           \/ upset' = upset \cup {<<r, a.type>>} /\ UNCHANGED ticketFields
        /\ advice' = [advice EXCEPT ![r].next = @ + 1]
        /\ tacit' = tacit \cup {<<r, a.type>>}
        /\ UNCHANGED <<levels, pending, requests, allowed, executed, refused>>

\* pendingAction.create; what it throws ends the call.
Queue(r) ==
    /\ Acting(r) /\ ~Automatic(r)
    /\ \/ /\ pending' = Append(pending, [action |-> Current(r), status |-> "pending"])
          /\ advice' = [advice EXCEPT ![r].next = @ + 1]
          /\ UNCHANGED actionSpent
       \/ /\ SpendAction("errors")
          /\ advice' = [advice EXCEPT ![r].at = "failed"]
          /\ UNCHANGED pending
    /\ UNCHANGED <<ticketFields, levels, requests, actionHistory>>

-----------------------------------------------------------------------------
(* The routes of copilot-api *)

NewRequest(kind, i, where) ==
    /\ Len(requests) < MaxRequests
    /\ requests' = Append(requests, [at |-> where, op |-> kind, row |-> i, saw |-> ticketFields])
Goes(q, where) == requests' = [requests EXCEPT ![q].at = where]

\* Variant: the update does not look at the status.
ClaimableAlways(i) == TRUE

\* updateMany where the status is 'pending'
Claimable(i) == pending[i].status = "pending"

Approve(i) ==
    /\ \/ /\ Claimable(i)
          /\ pending' = [pending EXCEPT ![i].status = "approved"]
          /\ NewRequest("approve", i, "reading")
       \/ /\ ~Claimable(i)
          /\ NewRequest("approve", i, "conflict")
          /\ UNCHANGED pending
    /\ UNCHANGED <<ticketFields, levels, advice, actionSpent, actionHistory>>

ReadForExecution(q) ==
    /\ requests[q].at = "reading"
    /\ requests' = [requests EXCEPT ![q].at = "executing", ![q].saw = ticketFields]
    /\ UNCHANGED <<ticketFields, levels, advice, pending, actionSpent, actionHistory>>

\* executePendingAction; what comes after it changes nothing.
Execute(q) ==
    LET a == pending[requests[q].row].action
    IN  /\ requests[q].at = "executing"
        /\ \/ /\ Effective(a, requests[q].saw)
              /\ IF a.type \in Fields THEN Write(a.type, a.value, {}) ELSE UNCHANGED <<ticketFields, upset>>
              /\ executed' = executed \cup {<<requests[q].row, q>>}
           \/ /\ ~Effective(a, requests[q].saw)
              /\ UNCHANGED <<ticketFields, upset, executed>>
        /\ Goes(q, "done")
        /\ UNCHANGED <<levels, advice, pending, actionSpent, tacit, allowed, refused>>

\* A query of the request fails: the action stays approved.
RequestFails(q) ==
    /\ requests[q].at \in {"reading", "executing", "dismissing"}
    /\ SpendAction("errors")
    /\ Goes(q, "failed")
    /\ UNCHANGED <<ticketFields, levels, advice, pending, actionHistory>>

\* Dismissals that find the action resolved answer "not found".
LookForDismissal(i) ==
    /\ \/ pending[i].status = "pending" /\ NewRequest("dismiss", i, "dismissing")
       \/ pending[i].status # "pending" /\ NewRequest("dismiss", i, "conflict")
    /\ UNCHANGED <<ticketFields, levels, advice, pending, actionSpent, actionHistory>>

ApprovedBySomebody(i) ==
    \E q \in DOMAIN requests : requests[q].row = i /\ requests[q].op = "approve" /\ requests[q].at # "conflict"

\* The update has no condition; refused takes down what was not yet approved.
MarkDismissed(i) ==
    /\ pending' = [pending EXCEPT ![i].status = "dismissed"]
    /\ refused' = IF ApprovedBySomebody(i) THEN refused ELSE refused \cup {i}

Dismiss(q) ==
    /\ requests[q].at = "dismissing"
    /\ MarkDismissed(requests[q].row)
    /\ Goes(q, "done")
    /\ UNCHANGED <<ticketFields, levels, advice, actionSpent, tacit, allowed, upset, executed>>

-----------------------------------------------------------------------------
(* The tools of mcp-platform, which neither look nor execute; other writers *)

ToolDismisses(i) ==
    /\ NewRequest("dismiss", i, "done")
    /\ MarkDismissed(i)
    /\ UNCHANGED <<ticketFields, levels, advice, actionSpent, tacit, allowed, upset, executed>>

\* No request of the routes executes an action that a tool has approved.
ToolApproves(i) ==
    /\ NewRequest("approve", i, "conflict")
    /\ pending' = [pending EXCEPT ![i].status = "approved"]
    /\ UNCHANGED <<ticketFields, levels, advice, actionSpent, actionHistory>>

OperatorEdits(f) ==
    /\ SpendAction("edits")
    /\ \E v \in FieldValues \ {ticketFields[f]} : Write(f, v, {})
    /\ UNCHANGED <<levels, advice, pending, requests, tacit, allowed, executed, refused>>

SetLevel(t) ==
    /\ SpendAction("levels")
    /\ \E l \in {"auto", "approval"} \ {levels[t]} : levels' = [levels EXCEPT ![t] = l]
    /\ allowed' = IF levels'[t] = "auto" THEN allowed \cup ((DOMAIN advice) \X {t}) ELSE allowed
    /\ UNCHANGED <<ticketFields, advice, pending, requests, tacit, upset, executed, refused>>

PendingNext ==
    \/ \E list \in Recommendations : Recommend(list)
    \/ \E r \in DOMAIN advice :
          LoadTicket(r) \/ AutoExecute(r) \/ AutoExecuteFails(r) \/ Queue(r)
    \/ \E i \in DOMAIN pending :
          Approve(i) \/ LookForDismissal(i) \/ ToolApproves(i) \/ ToolDismisses(i)
    \/ \E q \in DOMAIN requests : ReadForExecution(q) \/ Execute(q) \/ RequestFails(q) \/ Dismiss(q)
    \/ \E f \in Fields : OperatorEdits(f)
    \/ \E t \in Types : SetLevel(t)

PendingSpec == PendingInit /\ [][PendingNext]_pendingVars

-----------------------------------------------------------------------------
PendingTypeOK ==
    /\ ticketFields \in [Fields -> FieldValues]
    /\ levels \in [Types -> {"auto", "approval", "unset"}]
    /\ advice \in Seq(Advice) /\ pending \in Seq(Row) /\ requests \in Seq(Request)
    /\ \A q \in DOMAIN requests : requests[q].row \in DOMAIN pending
    /\ actionSpent \in [DOMAIN ActionBounds -> Nat]
    /\ tacit \subseteq (DOMAIN advice) \X Types /\ allowed \subseteq (DOMAIN advice) \X Types
    /\ upset \subseteq (DOMAIN advice) \X Fields
    /\ executed \subseteq (DOMAIN pending) \X (DOMAIN requests) /\ refused \subseteq DOMAIN pending

\* What is carried out, or dropped, without asking an operator has a type that
\* the settings, or the defaults where they are silent, called auto at some time
\* during the call.
UnaskedOnlyWhenAuto == tacit \subseteq allowed

\* However many operators and tools decide about an action, and in whatever
\* order: it is carried out at most once, never after it was dismissed, and
\* without being asked only when its level is auto.
DecisionsHold ==
    /\ \A d \in executed, e \in executed : d[1] = e[1] => d = e
    /\ \A d \in executed : d[1] \notin refused
    /\ UnaskedOnlyWhenAuto

\* The value that the automatic actions of a call set last, if any.
LastWish(r, f) ==
    LET list == advice[r].list
        sets == {k \in 1 .. Len(list) : list[k].type = f /\ list[k].value \in FieldValues}
    IN  {list[k].value : k \in {k \in sets : \A j \in sets : j <= k}}

\* When a call has gone through its list, each field has the value that the list
\* sets last, unless somebody else wrote the field since the call read the
\* ticket, or a query failed.  So an earlier item of the list counts.
AdviceTaken ==
    \A r \in DOMAIN advice, f \in Fields :
        /\ advice[r].at = "acting" /\ ~Acting(r)
        /\ advice[r].config[f] = "auto" /\ <<r, f>> \notin upset
        => \A v \in LastWish(r, f) : ticketFields[f] = v

=============================================================================
