------------------------------- MODULE MailLedger -------------------------------
(***************************************************************************)
(* What the intake of e-mails promises to the people who write them: a     *)
(* mail is filed on one ticket, once; it is acknowledged at most once, and *)
(* at most one ticket is analysed on account of it, and both only after it *)
(* was filed.  TicketIngest is shown to implement this specification.      *)
(***************************************************************************)
EXTENDS Naturals

CONSTANT Mails  \* what distinguishes mails: Message-ID, or the hash without one

VARIABLES
    filed,      \* the mails with an EMAIL_INBOUND event
    receipts,   \* receipts sent for each mail
    analyses    \* tickets handed to analysis on account of each mail

ledger == <<filed, receipts, analyses>>

Init ==
    /\ filed = {}
    /\ receipts = [m \in Mails |-> 0]
    /\ analyses = [m \in Mails |-> 0]

File(m) ==
    /\ m \notin filed
    /\ filed' = filed \cup {m}
    /\ UNCHANGED <<receipts, analyses>>

Acknowledge(m) ==
    /\ m \in filed /\ receipts[m] = 0
    /\ receipts' = [receipts EXCEPT ![m] = 1]
    /\ UNCHANGED <<filed, analyses>>

Dispatch(m) ==
    /\ m \in filed /\ analyses[m] = 0
    /\ analyses' = [analyses EXCEPT ![m] = 1]
    /\ UNCHANGED <<filed, receipts>>

Next == \E m \in Mails : File(m) \/ Acknowledge(m) \/ Dispatch(m)

Spec == Init /\ [][Next]_ledger
=============================================================================
