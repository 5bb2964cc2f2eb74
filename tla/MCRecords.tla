------------------------------- MODULE MCRecords -------------------------------
(***************************************************************************)
(* Ingestion, the knowledge document, invoices, the connections to Slack   *)
(* and requests for tools: five components that share no state, each on a  *)
(* small instance of its own.  A behaviour is one of the component chosen  *)
(* by part, while the others stay as they are at their start.              *)
(***************************************************************************)
EXTENDS MCTicketIngest, KnowledgeDoc, Invoices, SlackConnections, ToolRequests

CONSTANTS token, tool

VARIABLE part

recordVars == <<vars, kdVars, invoiceVars, slackVars, requestVars, part>>

\* The knowledge document: one required section and one that may have
\* subsections, named "foo" and "foo 2", whose keys can meet.
Line(x) == [text |-> x]
MCTemplate == <<"problem", "evidence">>
MCSubTitles == {<<1>>, <<1, 2>>}
MCTexts == {<<Line("x")>>}
MCMarker == Line("empty")

\* Invoices: usage on every day, or with a period without any.  Slack: each
\* integration is enabled at first or does not exist.
RecordsInit ==
    /\ part \in {"ingest", "knowledge", "invoices", "slack", "suggestions", "filing"}
    /\ Init /\ KnowledgeInit /\ InvoicesInit /\ SlackInit /\ RequestsInit
    /\ (usage = Days \/ (part = "invoices" /\ usage = {0, 3}))
    /\ \A i \in Integrations :
           \/ integrationRows[i] = [enabled |-> TRUE, token |-> token]
           \/ (part = "slack" /\ integrationRows[i] = Inactive)

\* Requests that a route step has found, for two tools, with analyses; or
\* requests of either kind for one tool, which is filed on GitHub.
RequestsStep ==
    LET begun == {h \in Handlers : handlers'[h].pc = "find"} IN
    /\ RequestsNext
    /\ \/ /\ part = "suggestions" /\ callsSpent'.filings = 0 /\ callsSpent'.patches <= 1
          /\ \A h \in begun : ~handlers'[h].inline
       \/ /\ part = "filing" /\ callsSpent'.dedupes = 0
          /\ \A h \in begun : handlers'[h].name = tool

RecordsNext ==
    \/ /\ part = "ingest" /\ Next
       /\ UNCHANGED <<kdVars, invoiceVars, slackVars, requestVars, part>>
    \/ /\ part = "knowledge" /\ KnowledgeNext
       /\ UNCHANGED <<vars, invoiceVars, slackVars, requestVars, part>>
    \/ /\ part = "invoices" /\ InvoicesNext
       /\ UNCHANGED <<vars, kdVars, slackVars, requestVars, part>>
    \/ /\ part = "slack" /\ SlackNext
       /\ UNCHANGED <<vars, kdVars, invoiceVars, requestVars, part>>
    \/ /\ RequestsStep
       /\ UNCHANGED <<vars, kdVars, invoiceVars, slackVars, part>>

\* Refreshes and handlers are interchangeable.
RecordsSymmetry == Permutations(Refreshes) \cup Permutations(Handlers)

RecordsSpec == RecordsInit /\ [][RecordsNext]_recordVars

\* Every variable of a component has its type, whenever it may change.
RecordsTypeOK ==
    /\ part = "ingest" => TypeOK
    /\ part = "knowledge" => KnowledgeTypeOK
    /\ part = "invoices" => InvoicesTypeOK
    /\ part = "slack" => SlackTypeOK
    /\ part \in {"suggestions", "filing"} => RequestsTypeOK
=============================================================================
