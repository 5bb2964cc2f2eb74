----------------------------- MODULE MCTicketIngest -----------------------------
(* Small sets of mails for TicketIngest. *)
EXTENDS TicketIngest, TLC

CONSTANTS mail, copy, reply, form

\* mail went to two mailboxes (copy), and reply answers it; the form is about
\* the same subject.
MCMailbox == [c \in Copies |-> IF c = copy THEN "ops" ELSE "support"]
MCMessage == [c \in Copies |-> IF c = reply THEN "m2" ELSE "m1"]
MCRefs == [c \in Copies |-> IF c = reply THEN {"m1"} ELSE {}]
MCSubject == [s \in Sources |-> "disk"]

\* To bound the number of states, a ticket is closed where nothing else
\* happens, a poll fails where neither process crashes, and a mail is marked
\* unread again where at most one other thing goes wrong.
FaultsApart ==
    /\ spent'.retired = 0 \/ spent'.unread + spent'.imap + spent'.crashes + spent'.poll = 0
    /\ spent'.poll = 0 \/ spent'.imap + spent'.crashes = 0
    /\ spent'.unread = 0 \/ spent'.errors + spent'.imap + spent'.crashes <= 1
=============================================================================
