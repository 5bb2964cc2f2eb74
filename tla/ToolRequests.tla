------------------------------ MODULE ToolRequests ------------------------------
(***************************************************************************)
(* Requests for missing tools of one client.  Agents register them by name *)
(* while they analyse tickets; operators and their agents change, delete   *)
(* and file them; and the AI suggests which are duplicates or improve an   *)
(* existing tool.  Each call reads, waits for the database, the AI or      *)
(* GitHub, and writes, while others do the same.                           *)
(***************************************************************************)
EXTENDS Naturals, FiniteSets

CONSTANTS
    ToolNames,       \* names of the requested tools, normalised
    AnalysisRuns,    \* runs of agents, each on a ticket of its own
    RunLimit,        \* tool-request-rate-limit-per-run
    Handlers,        \* calls that are under way at one time, at most
    MaxAgentCalls, MaxDedupes, MaxDecisions, MaxPatches, MaxFilings  \* bounds on the calls

ASSUME ToolRequestsAssumption ==
    /\ RunLimit \in Nat \ {0}
    /\ {MaxAgentCalls, MaxDedupes, MaxDecisions, MaxPatches, MaxFilings} \subseteq Nat

Statuses == {"PROPOSED", "APPROVED", "REJECTED", "IMPLEMENTED", "DUPLICATE"}

\* Rows have ids from 1, which are not used again, and GitHub's issues numbers
\* from 1.  A suggestion has the number of the analysis that made it.
Suggestion == [of : Nat, by : Nat]
Unsuggested == [of |-> 0, by |-> 0]
Unlinked == {}
ByHand == {0}        \* the link to an issue that an operator has entered
ToolRequest ==
    [id : Nat \ {0}, status : Statuses, requestCount : Nat, duplicateOf : Nat,
     suggestedDuplicate : Suggestion, suggestedImproves : Nat, analysed : Nat, issue : SUBSET Nat]
NoRequest == [id |-> 0]

VARIABLES
    toolRequests,    \* the rows by their names, which are unique
    rationales,      \* rows: request, run, whether by request_tool, number of the call
    issues,          \* on GitHub: the request and a number
    ids, dedupes,    \* rows made and analyses written so far
    handlers,        \* where each call is, and what it has read
    callsSpent,
    \* history, read by the properties only
    filedTwice       \* requests filed by two calls at one time, or again after an answer was lost

requestVars == <<toolRequests, rationales, issues, ids, dedupes, handlers, callsSpent, filedTwice>>

Idle == [pc |-> "idle"]
Registering ==
    [pc : {"find", "write"}, name : ToolNames, run : AnalysisRuns, inline : BOOLEAN, number : Nat, id : Nat]
Analysing == [pc : {"dedupe"}, ids : SUBSET Nat]
Accepting == [pc : {"duplicate", "improves"}, id : Nat, of : Nat]
Filing == [pc : {"post", "record"}, id : Nat, issue : SUBSET Nat]

RequestsInit ==
    /\ toolRequests = [n \in ToolNames |-> NoRequest]
    /\ rationales = {} /\ issues = {}
    /\ ids = 0 /\ dedupes = 0
    /\ handlers = [h \in Handlers |-> Idle]
    /\ callsSpent = [agents |-> 0, dedupes |-> 0, decisions |-> 0, patches |-> 0, filings |-> 0]
    /\ filedTwice = {}

Rows == {n \in ToolNames : toolRequests[n] # NoRequest}
IdsOf(names) == {toolRequests[n].id : n \in names}
Called(kind, bound) ==
    callsSpent[kind] < bound /\ callsSpent' = [callsSpent EXCEPT ![kind] = @ + 1]
Begins(h, call) == handlers[h] = Idle /\ handlers' = [handlers EXCEPT ![h] = call]
Ends(h) == handlers' = [handlers EXCEPT ![h] = Idle]

-----------------------------------------------------------------------------
(* registerToolRequest, and its two callers *)

AskedInRun(run) == {x \in rationales : x.run = run /\ x.inline}
NamesAsked(run) == {n \in Rows : \E x \in AskedInRun(run) : x.request = toolRequests[n].id}

Registration(n, run, inline) ==
    [pc |-> "find", name |-> n, run |-> run, inline |-> inline, number |-> callsSpent.agents, id |-> 0]

\* request_tool, unless the name was asked for in this run or the limit is reached.
AsksForTool(h, n, run) ==
    /\ Called("agents", MaxAgentCalls)
    /\ n \notin NamesAsked(run) /\ Cardinality(AskedInRun(run)) < RunLimit
    /\ Begins(h, Registration(n, run, TRUE))
    /\ UNCHANGED <<toolRequests, rationales, issues, ids, dedupes, filedTwice>>

\* The route step that looks for gaps in a finished analysis.
DetectsGap(h, n, run) ==
    /\ Called("agents", MaxAgentCalls)
    /\ Begins(h, Registration(n, run, FALSE))
    /\ UNCHANGED <<toolRequests, rationales, issues, ids, dedupes, filedTwice>>

FindsRequest(h) ==
    /\ handlers[h].pc = "find"
    /\ handlers' = [handlers EXCEPT ![h].pc = "write", ![h].id = toolRequests[handlers[h].name].id]
    /\ UNCHANGED <<toolRequests, rationales, issues, ids, dedupes, callsSpent, filedTwice>>

NewRequestRow ==
    [id |-> ids + 1, status |-> "PROPOSED", requestCount |-> 1, duplicateOf |-> 0,
     suggestedDuplicate |-> Unsuggested, suggestedImproves |-> 0, analysed |-> 0, issue |-> Unlinked]

\* The transaction writes the row and the rationale, or nothing: a name that has
\* got a row and a row that was deleted since the look are errors.
Registers(h) ==
    LET n == handlers[h].name
        row == IF handlers[h].id = 0 THEN NewRequestRow
               ELSE [toolRequests[n] EXCEPT !.requestCount = @ + 1]
    IN  /\ handlers[h].pc = "write" /\ handlers[h].id = toolRequests[n].id
        /\ toolRequests' = [toolRequests EXCEPT ![n] = row]
        /\ rationales' = rationales \cup
               {[request |-> row.id, run |-> handlers[h].run, inline |-> handlers[h].inline,
                 number |-> handlers[h].number]}
        /\ ids' = IF handlers[h].id = 0 THEN ids + 1 ELSE ids
        /\ Ends(h)
        /\ UNCHANGED <<issues, dedupes, callsSpent, filedTwice>>

-----------------------------------------------------------------------------
(* runToolRequestDedupe *)

ReadsForDedupe(h) ==
    LET analysable == {n \in Rows : toolRequests[n].status \in {"PROPOSED", "APPROVED"}}
    IN  /\ Called("dedupes", MaxDedupes)
        /\ analysable # {}
        /\ Begins(h, [pc |-> "dedupe", ids |-> IdsOf(analysable)])
        /\ UNCHANGED <<toolRequests, rationales, issues, ids, dedupes, filedTwice>>

\* Of a row that was analysed all earlier suggestions are taken back; duplicate
\* and improving are what the AI has answered now.
Suggested(row, duplicate, improving) ==
    [row EXCEPT !.analysed = dedupes + 1,
        !.suggestedDuplicate = IF duplicate[row.id] = 0 THEN Unsuggested
                               ELSE [of |-> duplicate[row.id], by |-> dedupes + 1],
        !.suggestedImproves = IF row.id \in improving THEN dedupes + 1 ELSE 0]

\* One transaction, which fails when a row with a suggestion was deleted since,
\* but writes on rows that were decided.  What a row is a duplicate of may be gone.
WritesSuggestions(h) ==
    /\ handlers[h].pc = "dedupe"
    /\ \E duplicate \in [handlers[h].ids -> handlers[h].ids \cup {0}], improving \in SUBSET handlers[h].ids :
           /\ \A i \in handlers[h].ids : duplicate[i] # i
           /\ improving \cup {i \in handlers[h].ids : duplicate[i] # 0} \subseteq IdsOf(Rows)
           /\ toolRequests' = [n \in ToolNames |->
                  IF toolRequests[n].id \in handlers[h].ids
                  THEN Suggested(toolRequests[n], duplicate, improving) ELSE toolRequests[n]]
    /\ dedupes' = dedupes + 1
    /\ Ends(h)
    /\ UNCHANGED <<rationales, issues, ids, callsSpent, filedTwice>>

-----------------------------------------------------------------------------
(* Decisions of operators, by route or by tool *)

\* accept-suggestion looks at the row.
Accepts(h) ==
    /\ Called("decisions", MaxDecisions)
    /\ \E n \in Rows :
           \/ /\ toolRequests[n].suggestedDuplicate # Unsuggested
              /\ Begins(h, [pc |-> "duplicate", id |-> toolRequests[n].id, of |-> toolRequests[n].suggestedDuplicate.of])
           \/ /\ toolRequests[n].suggestedImproves # 0
              /\ Begins(h, [pc |-> "improves", id |-> toolRequests[n].id, of |-> 0])
    /\ UNCHANGED <<toolRequests, rationales, issues, ids, dedupes, filedTwice>>

Cleared(row) == [row EXCEPT !.suggestedDuplicate = Unsuggested, !.suggestedImproves = 0, !.analysed = 0]

\* What was read is carried out, also when another suggestion is there by now.
\* A row or the original it is connected to that is gone is an error.
Decides(h) ==
    /\ handlers[h].pc \in {"duplicate", "improves"}
    /\ \E n \in Rows :
           /\ toolRequests[n].id = handlers[h].id
           /\ \/ /\ handlers[h].pc = "duplicate" /\ handlers[h].of \in IdsOf(Rows)
                 /\ toolRequests' = [toolRequests EXCEPT ![n] =
                        [Cleared(@) EXCEPT !.status = "DUPLICATE", !.duplicateOf = handlers[h].of]]
              \/ /\ handlers[h].pc = "improves"
                 /\ toolRequests' = [toolRequests EXCEPT ![n] = [Cleared(@) EXCEPT !.status = "REJECTED"]]
    /\ Ends(h)
    /\ UNCHANGED <<rationales, issues, ids, dedupes, callsSpent, filedTwice>>

\* dismiss-suggestion: one update.
Dismisses(n) ==
    /\ n \in Rows /\ Called("decisions", MaxDecisions)
    /\ \/ toolRequests' = [toolRequests EXCEPT ![n].suggestedDuplicate = Unsuggested]
       \/ toolRequests' = [toolRequests EXCEPT ![n].suggestedImproves = 0]
    /\ UNCHANGED <<rationales, issues, ids, dedupes, handlers, filedTwice>>

\* PATCH and update_tool_request: any status follows any other, and DUPLICATE
\* comes with an original.  Several fields in one call are like several calls.
Patches(n) ==
    /\ n \in Rows /\ Called("patches", MaxPatches)
    /\ \/ \E status \in Statuses \ {"DUPLICATE"} : toolRequests' = [toolRequests EXCEPT ![n].status = status]
       \/ \E original \in IdsOf(Rows) :
              toolRequests' = [toolRequests EXCEPT ![n].status = "DUPLICATE", ![n].duplicateOf = original]
       \/ \E original \in IdsOf(Rows) \cup {0} : toolRequests' = [toolRequests EXCEPT ![n].duplicateOf = original]
       \/ toolRequests' = [toolRequests EXCEPT ![n].issue = ByHand]
    /\ UNCHANGED <<rationales, issues, ids, dedupes, handlers, filedTwice>>

Without(rows, id) ==
    [n \in ToolNames |-> IF rows[n].id = id THEN NoRequest
                         ELSE IF rows[n] # NoRequest /\ rows[n].duplicateOf = id
                         THEN [rows[n] EXCEPT !.duplicateOf = 0] ELSE rows[n]]

\* The rationales go with their request, and no other row refers to it any more
\* but by a suggestion.
DeletesRequest(n) ==
    /\ n \in Rows /\ Called("patches", MaxPatches)
    /\ toolRequests' = Without(toolRequests, toolRequests[n].id)
    /\ rationales' = {x \in rationales : x.request # toolRequests[n].id}
    /\ UNCHANGED <<issues, ids, dedupes, handlers, filedTwice>>

-----------------------------------------------------------------------------
(* createToolRequestGithubIssue, without force, which nobody sets *)

\* Variant: whether there is an issue is not asked.
EligibleAgain(row) == row.status = "APPROVED"

Eligible(row) == row.status = "APPROVED" /\ row.issue = Unlinked

FilesOf(id) == {h \in Handlers : handlers[h].pc \in {"post", "record"} /\ handlers[h].id = id}

LooksBeforeFiling(h) ==
    /\ Called("filings", MaxFilings)
    /\ \E n \in Rows :
           /\ Eligible(toolRequests[n])
           /\ Begins(h, [pc |-> "post", id |-> toolRequests[n].id, issue |-> Unlinked])
           /\ filedTwice' = IF FilesOf(toolRequests[n].id) = {} THEN filedTwice
                            ELSE filedTwice \cup {toolRequests[n].id}
    /\ UNCHANGED <<toolRequests, rationales, issues, ids, dedupes>>

\* The row may have been rejected or deleted since.
PostsIssue(h) ==
    LET number == Cardinality(issues) + 1
    IN  /\ handlers[h].pc = "post"
        /\ issues' = issues \cup {[request |-> handlers[h].id, number |-> number]}
        /\ handlers' = [handlers EXCEPT ![h].pc = "record", ![h].issue = {number}]
        /\ UNCHANGED <<toolRequests, rationales, ids, dedupes, callsSpent, filedTwice>>

RecordsIssue(h) ==
    /\ handlers[h].pc = "record" /\ handlers[h].id \in IdsOf(Rows)
    /\ toolRequests' = [n \in ToolNames |->
           IF toolRequests[n].id = handlers[h].id THEN [toolRequests[n] EXCEPT !.issue = handlers[h].issue]
           ELSE toolRequests[n]]
    /\ Ends(h)
    /\ UNCHANGED <<rationales, issues, ids, dedupes, callsSpent, filedTwice>>

-----------------------------------------------------------------------------
\* The database, the AI or GitHub refuses or does not answer in time, what was
\* read is gone, or the process ends.  An issue that was made is on no record.
CallFails(h) ==
    /\ handlers[h] # Idle
    /\ Ends(h)
    /\ filedTwice' = IF handlers[h].pc = "record" THEN filedTwice \cup {handlers[h].id} ELSE filedTwice
    /\ UNCHANGED <<toolRequests, rationales, issues, ids, dedupes, callsSpent>>

RequestsNext ==
    \/ \E h \in Handlers :
           \/ \E n \in ToolNames, run \in AnalysisRuns : AsksForTool(h, n, run) \/ DetectsGap(h, n, run)
           \/ FindsRequest(h) \/ Registers(h)
           \/ ReadsForDedupe(h) \/ WritesSuggestions(h)
           \/ Accepts(h) \/ Decides(h)
           \/ LooksBeforeFiling(h) \/ PostsIssue(h) \/ RecordsIssue(h)
           \/ CallFails(h)
    \/ \E n \in ToolNames : Dismisses(n) \/ Patches(n) \/ DeletesRequest(n)

RequestsSpec == RequestsInit /\ [][RequestsNext]_requestVars

-----------------------------------------------------------------------------
(* Properties *)

RequestsTypeOK ==
    /\ toolRequests \in [ToolNames -> ToolRequest \cup {NoRequest}]
    /\ rationales \subseteq [request : Nat, run : AnalysisRuns, inline : BOOLEAN, number : Nat]
    /\ issues \subseteq [request : Nat, number : Nat]
    /\ ids \in Nat /\ dedupes \in Nat
    /\ handlers \in [Handlers -> {Idle} \cup Registering \cup Analysing \cup Accepting \cup Filing]
    /\ callsSpent \in [{"agents", "dedupes", "decisions", "patches", "filings"} -> Nat]
    /\ filedTwice \subseteq Nat

IssuesOf(id) == {x.number : x \in {y \in issues : y.request = id}}
Unrecorded(id) == \E h \in Handlers : handlers[h].pc = "record" /\ handlers[h].id = id

\* What the row of a request says is so, however the calls overlap: its count is
\* the number of its rationales; what is suggested comes from the last analysis
\* that wrote on it; and it names the only issue that was made for it, unless two
\* calls filed it at one time or GitHub's answer to one of them was lost.
RowsTellTheTruth ==
    \A n \in Rows :
        LET row == toolRequests[n] IN
        /\ row.requestCount = Cardinality({x \in rationales : x.request = row.id})
        /\ {row.suggestedDuplicate.by, row.suggestedImproves} \subseteq {0, row.analysed}
        /\ row.id \notin filedTwice =>
               /\ Cardinality(IssuesOf(row.id)) <= 1
               /\ row.issue \in {IssuesOf(row.id), ByHand} \/ Unrecorded(row.id)
=============================================================================
