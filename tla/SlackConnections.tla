---------------------------- MODULE SlackConnections ----------------------------
(***************************************************************************)
(* The connections to clients' Slack workspaces (ClientSlackManager): one  *)
(* per active integration, kept in a map.  A refresh reads the rows,       *)
(* disconnects what is gone and connects what is new or has changed, and   *)
(* waits for Slack in between.  It is started every five minutes, whether  *)
(* or not the one before has ended.  A connection that is open handles     *)
(* every message of its workspace.                                         *)
(***************************************************************************)
EXTENDS Naturals

CONSTANTS
    Integrations,
    Tokens,          \* what a configuration says: tokens and channel
    Refreshes,       \* refreshes that are under way at one time, at most
    MaxRefreshes,    \* bound on the refreshes
    MaxEdits         \* bound on the changes of operators

ASSUME SlackAssumption == {MaxRefreshes, MaxEdits} \subseteq Nat

\* A row of an active integration, enabled or not; inactive ones are not read.
Configs == [enabled : BOOLEAN, token : Tokens]
Inactive == [active |-> FALSE]
Connection == [client : Nat \ {0}, config : Configs \cup {Inactive}]
Unconnected == [client |-> 0]

VARIABLES
    integrationRows,
    connections,     \* the map: integration -> the number of its client, and the configuration
    open,            \* the clients whose sockets are open, each with its integration
    clients,         \* the number of clients made so far
    refresh,         \* of each: where it is, the rows it has read, those it has to look at
    slackSpent,
    \* history, read by the properties only
    overlapped       \* integrations that two refreshes have dealt with at one time

slackVars == <<integrationRows, connections, open, clients, refresh, slackSpent, overlapped>>

\* A refresh waits for Slack because of the integration at which it is.
Waiting == {"drop", "disable", "change", "connect"}
Refresh == [pc : {"idle", "stale", "rows"} \cup Waiting, rows : [Integrations -> Configs \cup {Inactive}],
            left : SUBSET Integrations, at : Integrations \cup {Inactive}, client : Nat]
NotRefreshing == [pc |-> "idle", rows |-> [i \in Integrations |-> Inactive], left |-> {}, at |-> Inactive, client |-> 0]

SlackInit ==
    /\ integrationRows \in [Integrations -> Configs \cup {Inactive}]
    /\ connections = [i \in Integrations |-> Unconnected]
    /\ open = {} /\ clients = 0
    /\ refresh = [r \in Refreshes |-> NotRefreshing]
    /\ slackSpent = [refreshes |-> 0, edits |-> 0]
    /\ overlapped = {}

\* Somebody else waits for Slack because of the same integration.
Notes(r, i) ==
    overlapped' = IF \E q \in Refreshes \ {r} : refresh[q].pc \in Waiting /\ refresh[q].at = i
                  THEN overlapped \cup {i} ELSE overlapped

Connected(i) == connections[i] # Unconnected
Active(r, i) == refresh[r].rows[i] # Inactive

-----------------------------------------------------------------------------
(* refreshConnections *)

ReadsIntegrations(r) ==
    /\ refresh[r].pc = "idle" /\ slackSpent.refreshes < MaxRefreshes
    /\ slackSpent' = [slackSpent EXCEPT !.refreshes = @ + 1]
    /\ refresh' = [refresh EXCEPT ![r].pc = "stale", ![r].rows = integrationRows, ![r].left = Integrations]
    /\ UNCHANGED <<integrationRows, connections, open, clients, overlapped>>

\* The loop over the map: one that is not active any more is disconnected.
Drops(r) ==
    /\ refresh[r].pc = "stale"
    /\ \E i \in refresh[r].left :
           /\ Connected(i) /\ ~Active(r, i)
           /\ refresh' = [refresh EXCEPT ![r].pc = "drop", ![r].at = i, ![r].client = connections[i].client,
                                         ![r].left = @ \ {i}]
           /\ Notes(r, i)
    /\ UNCHANGED <<integrationRows, connections, open, clients, slackSpent>>

\* The loop over the map is through, and that over the rows begins.
TurnsToRows(r) ==
    /\ refresh[r].pc = "stale"
    /\ \A i \in refresh[r].left : Connected(i) => Active(r, i)
    /\ refresh' = [refresh EXCEPT ![r].pc = "rows", ![r].left = {i \in Integrations : Active(r, i)}]
    /\ UNCHANGED <<integrationRows, connections, open, clients, slackSpent, overlapped>>

\* What the loop over the rows does about an integration.
Due(r, i) ==
    LET row == refresh[r].rows[i]
    IN  IF ~row.enabled THEN IF Connected(i) THEN "disable" ELSE "rows"
        ELSE IF ~Connected(i) THEN "connect"
        ELSE IF connections[i].config = row THEN "rows"
        ELSE "change"

Turns(r) ==
    /\ refresh[r].pc = "rows"
    /\ \E i \in refresh[r].left :
           LET due == Due(r, i)
           IN  /\ refresh' = [refresh EXCEPT ![r].pc = due, ![r].at = i, ![r].left = @ \ {i},
                      ![r].client = IF due = "connect" THEN clients + 1 ELSE connections[i].client]
               /\ clients' = IF due = "connect" THEN clients + 1 ELSE clients
               /\ IF due = "rows" THEN UNCHANGED overlapped ELSE Notes(r, i)
    /\ UNCHANGED <<integrationRows, connections, open, slackSpent>>

\* Variant: the connection whose configuration has changed is replaced only.
ClosedUnlessChanged(r) == IF refresh[r].pc = "change" THEN {} ELSE {<<refresh[r].at, refresh[r].client>>}

Closed(r) == {<<refresh[r].at, refresh[r].client>>}

\* safeDisconnect has come back, and whatever the map has now is deleted.  A
\* socket that cannot be closed is taken for closed.
Disconnects(r) ==
    LET i == refresh[r].at
    IN  /\ refresh[r].pc \in {"drop", "disable", "change"}
        /\ open' = open \ Closed(r)
        /\ connections' = [connections EXCEPT ![i] = Unconnected]
        /\ \/ /\ refresh[r].pc # "change"
              /\ refresh' = [refresh EXCEPT ![r].pc = IF @ = "drop" THEN "stale" ELSE "rows"]
              /\ UNCHANGED clients
           \/ /\ refresh[r].pc = "change"
              /\ refresh' = [refresh EXCEPT ![r].pc = "connect", ![r].client = clients + 1]
              /\ clients' = clients + 1
        /\ Notes(r, i)
        /\ UNCHANGED <<integrationRows, slackSpent>>

\* The connection is open, and replaces whatever the map has by now.
Connects(r) ==
    LET i == refresh[r].at
    IN  /\ refresh[r].pc = "connect"
        /\ open' = open \cup {<<i, refresh[r].client>>}
        /\ connections' = [connections EXCEPT ![i] = [client |-> refresh[r].client, config |-> refresh[r].rows[i]]]
        /\ refresh' = [refresh EXCEPT ![r].pc = "rows"]
        /\ UNCHANGED <<integrationRows, clients, slackSpent, overlapped>>

ConnectionFails(r) ==
    /\ refresh[r].pc = "connect"
    /\ refresh' = [refresh EXCEPT ![r].pc = "rows"]
    /\ UNCHANGED <<integrationRows, connections, open, clients, slackSpent, overlapped>>

EndsRefresh(r) ==
    /\ refresh[r].pc = "rows" /\ refresh[r].left = {}
    /\ refresh' = [refresh EXCEPT ![r] = NotRefreshing]
    /\ UNCHANGED <<integrationRows, connections, open, clients, slackSpent, overlapped>>

\* An operator changes, switches off, removes or adds an integration.
EditsIntegration ==
    /\ slackSpent.edits < MaxEdits
    /\ slackSpent' = [slackSpent EXCEPT !.edits = @ + 1]
    /\ \E i \in Integrations, row \in Configs \cup {Inactive} :
           /\ row # integrationRows[i]
           /\ integrationRows' = [integrationRows EXCEPT ![i] = row]
    /\ UNCHANGED <<connections, open, clients, refresh, overlapped>>

SlackNext ==
    \/ \E r \in Refreshes :
           \/ ReadsIntegrations(r) \/ Drops(r) \/ TurnsToRows(r) \/ Turns(r)
           \/ Disconnects(r) \/ Connects(r) \/ ConnectionFails(r) \/ EndsRefresh(r)
    \/ EditsIntegration

SlackSpec == SlackInit /\ [][SlackNext]_slackVars

-----------------------------------------------------------------------------
(* Properties *)

SlackTypeOK ==
    /\ integrationRows \in [Integrations -> Configs \cup {Inactive}]
    /\ clients \in Nat /\ connections \in [Integrations -> Connection \cup {Unconnected}]
    /\ open \subseteq Integrations \X (1 .. clients)
    /\ \A i \in Integrations : connections[i].client \in 0 .. clients
    /\ refresh \in [Refreshes -> Refresh] /\ \A r \in Refreshes : refresh[r].client \in 0 .. clients
    /\ slackSpent \in [refreshes : Nat, edits : Nat]
    /\ overlapped \subseteq Integrations

\* Messages of a workspace are handled once: the socket that the map has for an
\* integration is open, and no other one of that integration is.  Exceptions are
\* integrations that two refreshes have dealt with at one time.
Expected(i) == IF Connected(i) THEN {<<i, connections[i].client>>} ELSE {}
ConnectionsOnRecord ==
    \A i \in Integrations \ overlapped : {o \in open : o[1] = i} = Expected(i)

=============================================================================
