---------------------------- MODULE MCTicketAnalysis ----------------------------
(***************************************************************************)
(* A small world around one ticket: replies, a retry, an error and a       *)
(* crash, with analyses that find everything; or a retry, the chat tab and *)
(* an error, with analyses that may find anything.                         *)
(***************************************************************************)
EXTENDS TicketAnalysis

ClientSpeaks == spent'.replies + spent'.crashes > 0

\* The two kinds of events are kept apart, and no more than three happen of the
\* first kind and errors, to bound the number of states.
Apart ==
    /\ ClientSpeaks => spent'.chats = 0 /\ sufficiencyStatus' \in {"NONE", "SUFFICIENT"}
    /\ spent'.chats + spent'.clicks <= 2
    /\ spent'.replies + spent'.crashes + spent'.errors <= 3
=============================================================================
