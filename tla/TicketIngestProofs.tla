--------------------------- MODULE TicketIngestProofs ---------------------------
(***************************************************************************)
(* The intake of mails implements MailLedger, loses no mail between its    *)
(* flag and its end, and keeps replies with their threads: for any mails,  *)
(* mailboxes and forms, and any number of redeliveries, errors, retries    *)
(* and crashes.                                                            *)
(***************************************************************************)
EXTENDS TicketIngest, SequenceTheorems, TLAPS

\* Spending keeps the account's type.
LEMMA SpendType ==
    ASSUME NEW w \in DOMAIN Bounds, spent \in [DOMAIN Bounds -> Nat], Spend(w)
    PROVE  spent' \in [DOMAIN Bounds -> Nat]
  BY DEF Spend

\* The names of the accounts.
LEMMA Accounts ==
    {"unread", "retired", "poll", "errors", "imap", "crashes"} \subseteq DOMAIN Bounds
  BY DEF Bounds

\* A job keeps its type when it is tried again and when it stalls.
LEMMA JobTypes ==
    /\ \A j \in IngestJob : /\ [j EXCEPT !.attempt = @ + 1] \in IngestJob
                            /\ [j EXCEPT !.stalls = 1] \in IngestJob
    /\ \A e \in EmailJob : [e EXCEPT !.stalls = 1] \in EmailJob
    /\ \A s \in Sources : NewIngest(s) \in IngestJob
  BY DEF IngestJob, EmailJob, NewIngest

\* So does a ticket that is closed.
LEMMA TicketType == \A t \in Ticket : [t EXCEPT !.open = FALSE] \in Ticket
  BY DEF Ticket

LEMMA HeadTail ==
    ASSUME NEW S, NEW q \in Seq(S), q # <<>>
    PROVE  Head(q) \in S /\ Tail(q) \in Seq(S)
  OBVIOUS

LEMMA Prepend ==
    ASSUME NEW S, NEW q \in Seq(S), NEW x \in S
    PROVE  <<x>> \o q \in Seq(S)
  OBVIOUS

LEMMA Replace ==
    ASSUME NEW S, NEW q \in Seq(S), NEW i \in DOMAIN q, NEW x \in S
    PROVE  [q EXCEPT ![i] = x] \in Seq(S)
  BY ExceptSeq

\* The job that could not be processed is kept for later or has failed.
LEMMA GiveBackType ==
    ASSUME TypeOK, NEW j \in ingest, GiveBack(j)
    PROVE  /\ later' \subseteq IngestJob /\ failed' \subseteq Sources
           /\ ingest' = {} /\ pc' = "idle" /\ ticket' = 0
<1>1. j \in IngestJob /\ j.source \in Sources
  BY DEF TypeOK, IngestJob
<1>2. [j EXCEPT !.attempt = @ + 1] \in IngestJob
  BY <1>1, JobTypes
<1>3. later' \subseteq IngestJob
  BY <1>2 DEF TypeOK, GiveBack, Retry
<1>4. QED
  BY <1>1, <1>3 DEF TypeOK, GiveBack, IngestIdle

\* The types of the variables are preserved by every step.
THEOREM TypeInvariance == Spec => []TypeOK
<1>1. Init => TypeOK
  BY DEF Init, TypeOK, Bounds
<1>2. ASSUME TypeOK, [Next]_vars PROVE TypeOK'
  <2> USE <1>2 DEF TypeOK, pollVars, emailVars, ingestVars, dbVars, historyVars
  <2>1. ASSUME NEW c \in Copies, Arrive(c) PROVE TypeOK'
    BY <2>1 DEF Arrive
  <2>2. ASSUME NEW c \in Copies, MarkUnread(c) PROVE TypeOK'
    <3>1. spent' \in [DOMAIN Bounds -> Nat]
      BY <2>2, SpendType, Accounts DEF MarkUnread
    <3>2. QED
      BY <2>2, <3>1 DEF MarkUnread
  <2>3. ASSUME NEW b, Fetch(b) PROVE TypeOK'
    BY <2>3 DEF Fetch
  <2>4. ASSUME Flag PROVE TypeOK'
    BY <2>4 DEF Flag
  <2>5. ASSUME NEW c \in Copies, AddEmail(c) PROVE TypeOK'
    <3>1. [copy |-> c, stalls |-> 0] \in EmailJob
      BY DEF EmailJob
    <3>2. emails' \in Seq(EmailJob)
      BY <2>5, <3>1 DEF AddEmail
    <3>3. QED
      BY <2>5, <3>2 DEF AddEmail
  <2>6. ASSUME PollFails PROVE TypeOK'
    <3>1. spent' \in [DOMAIN Bounds -> Nat]
      BY <2>6, SpendType, Accounts DEF PollFails
    <3>2. QED
      BY <2>6, <3>1 DEF PollFails
  <2>7. ASSUME TakeEmail PROVE TypeOK'
    <3>1. Head(emails) \in EmailJob /\ Tail(emails) \in Seq(EmailJob)
      BY <2>7, HeadTail DEF TakeEmail
    <3>2. QED
      BY <2>7, <3>1 DEF TakeEmail
  <2>8. ASSUME NEW e \in email, SkipDuplicate(e) \/ Accept(e) \/ Filter(e) PROVE TypeOK'
    <3>1. e.copy \in Copies
      BY DEF EmailJob
    <3>2. QED
      BY <2>8, <3>1 DEF SkipDuplicate, Accept, Filter, EmailIdle
  <2>9. ASSUME NEW e \in email, AddIngest(e) PROVE TypeOK'
    <3>1. NewIngest(e.copy) \in IngestJob
      BY JobTypes DEF EmailJob, Sources
    <3>2. ingests' \in Seq(IngestJob)
      BY <2>9, <3>1 DEF AddIngest, Enqueue
    <3>3. QED
      BY <2>9, <3>2 DEF AddIngest, EmailIdle
  <2>10. ASSUME NEW e \in email, EmailFails(e) PROVE TypeOK'
    <3>1. spent' \in [DOMAIN Bounds -> Nat]
      BY <2>10, SpendType, Accounts DEF EmailFails
    <3>2. e.copy \in Copies
      BY DEF EmailJob
    <3>3. QED
      BY <2>10, <3>1, <3>2 DEF EmailFails, EmailIdle
  <2>11. ASSUME CrashImap PROVE TypeOK'
    <3>1. spent' \in [DOMAIN Bounds -> Nat]
      BY <2>11, SpendType, Accounts DEF CrashImap
    <3>2. ASSUME NEW e \in email
          PROVE  e.copy \in Copies /\ <<[e EXCEPT !.stalls = 1]>> \o emails \in Seq(EmailJob)
      <4>1. e \in EmailJob
        OBVIOUS
      <4>2. [e EXCEPT !.stalls = 1] \in EmailJob
        BY <4>1, JobTypes
      <4>3. <<[e EXCEPT !.stalls = 1]>> \o emails \in Seq(EmailJob)
        BY <4>2, Prepend
      <4>4. QED
        BY <4>1, <4>3 DEF EmailJob
    <3>3. emails' \in Seq(EmailJob) /\ emailFailed' \subseteq Copies
      <4>1. CASE email = {} /\ UNCHANGED <<emails, emailFailed>>
        BY <4>1
      <4>2. ASSUME NEW e \in email, emails' = <<[e EXCEPT !.stalls = 1]>> \o emails,
                   UNCHANGED emailFailed
            PROVE  emails' \in Seq(EmailJob) /\ emailFailed' \subseteq Copies
        BY <4>2, <3>2
      <4>3. ASSUME NEW e \in email, emailFailed' = emailFailed \cup {e.copy}, UNCHANGED emails
            PROVE  emails' \in Seq(EmailJob) /\ emailFailed' \subseteq Copies
        BY <4>3, <3>2
      <4>4. QED
        BY <2>11, <4>1, <4>2, <4>3 DEF CrashImap
    <3>4. QED
      BY <2>11, <3>1, <3>3 DEF CrashImap, EmailIdle
  <2>12. ASSUME NEW f \in Forms, Submit(f) PROVE TypeOK'
    <3>1. NewIngest(f) \in IngestJob
      BY JobTypes DEF Sources
    <3>2. ingests' \in Seq(IngestJob)
      BY <2>12, <3>1 DEF Submit, Enqueue
    <3>3. QED
      BY <2>12, <3>2 DEF Submit
  <2>13. ASSUME NEW t \in DOMAIN tickets, Retire(t) PROVE TypeOK'
    <3>1. spent' \in [DOMAIN Bounds -> Nat]
      BY <2>13, SpendType, Accounts DEF Retire
    <3>2. [tickets[t] EXCEPT !.open = FALSE] \in Ticket
      BY TicketType
    <3>3. tickets' = [tickets EXCEPT ![t] = [tickets[t] EXCEPT !.open = FALSE]]
      BY <2>13 DEF Retire
    <3>4. tickets' \in Seq(Ticket)
      BY <3>2, <3>3, Replace
    <3>5. QED
      BY <2>13, <3>1, <3>4 DEF Retire
  <2>14. ASSUME TakeIngest PROVE TypeOK'
    <3>1. Head(ingests) \in IngestJob /\ Tail(ingests) \in Seq(IngestJob)
      BY <2>14, HeadTail DEF TakeIngest
    <3>2. QED
      BY <2>14, <3>1 DEF TakeIngest
  <2>15. ASSUME NEW j \in ingest, FileReply(j) PROVE TypeOK'
    <3>1. PICK t \in Thread(j.source) :
            events' = Append(events, [ticket |-> t, copy |-> j.source]) /\ ticket' = t
      BY <2>15 DEF FileReply
    <3>2. t \in Nat
      <4>1. \A e \in Elements(events) : e \in Event
        BY DEF Elements
      <4>2. \A u \in ByReference(j.source) : u \in Nat
        BY <4>1 DEF ByReference, Event
      <4>3. \A u \in BySubject(j.source) : u \in Nat
        BY DEF BySubject, OfSubject
      <4>4. QED
        BY <4>2, <4>3 DEF Thread
    <3>3. [ticket |-> t, copy |-> j.source] \in Event
      BY <2>15, <3>2 DEF Event, FileReply
    <3>4. events' \in Seq(Event)
      BY <3>1, <3>3
    <3>5. QED
      BY <2>15, <3>1, <3>2, <3>4 DEF FileReply
  <2>16. ASSUME NEW j \in ingest, ConsiderReanalysis(j) PROVE TypeOK'
    BY <2>16 DEF ConsiderReanalysis, IngestJob
  <2>17. ASSUME NEW j \in ingest, NoThread(j) PROVE TypeOK'
    BY <2>17 DEF NoThread
  <2>18. ASSUME NEW j \in ingest, MakeTicket(j) PROVE TypeOK'
    <3>1. PICK reword \in Titles :
            tickets' = Append(tickets, [source |-> j.source, open |-> TRUE,
                                subject |-> IF reword THEN Reworded ELSE Subject[j.source]])
      BY <2>18 DEF MakeTicket
    <3>2. j.source \in Sources
      BY DEF IngestJob
    <3>3. [source |-> j.source, open |-> TRUE,
           subject |-> IF reword THEN Reworded ELSE Subject[j.source]] \in Ticket
      BY <3>2 DEF Ticket
    <3>4. tickets' \in Seq(Ticket) /\ Len(tickets) + 1 \in Nat
      BY <3>1, <3>3
    <3>5. QED
      BY <2>18, <3>4 DEF MakeTicket
  <2>19. ASSUME NEW j \in ingest, RecordFirst(j) PROVE TypeOK'
    <3>1. j.source \in Copies => [ticket |-> ticket, copy |-> j.source] \in Event
      BY <2>19 DEF Event
    <3>2. CASE j.source \in Copies
      <4>1. events' = Append(events, [ticket |-> ticket, copy |-> j.source])
        BY <2>19, <3>2 DEF RecordFirst
      <4>2. events' \in Seq(Event)
        BY <4>1, <3>1, <3>2
      <4>3. QED
        BY <2>19, <4>2 DEF RecordFirst
    <3>3. CASE j.source \notin Copies
      BY <2>19, <3>3 DEF RecordFirst
    <3>4. QED
      BY <3>2, <3>3
  <2>20. ASSUME NEW j \in ingest, Acknowledge(j) PROVE TypeOK'
    <3>1. j.source \in Copies => Key(j.source) \in MailKeys
      BY DEF MailKeys
    <3>2. receipts' \in [MailKeys -> Nat]
      BY <2>20, <3>1 DEF Acknowledge
    <3>3. QED
      BY <2>20, <3>2 DEF Acknowledge
  <2>21. ASSUME NEW j \in ingest, Dispatch(j) PROVE TypeOK'
    <3>1. j.source \in Copies => Key(j.source) \in MailKeys
      BY DEF MailKeys
    <3>2. analyses' \in [MailKeys -> Nat]
      BY <2>21, <3>1 DEF Dispatch
    <3>3. QED
      BY <2>21, <3>2 DEF Dispatch
  <2>22. ASSUME NEW j \in ingest, Complete(j) PROVE TypeOK'
    BY <2>22 DEF Complete, IngestIdle, IngestJob
  <2>23. ASSUME NEW j \in ingest, IngestFails(j) PROVE TypeOK'
    <3>1. spent' \in [DOMAIN Bounds -> Nat]
      BY <2>23, SpendType, Accounts DEF IngestFails
    <3>2. QED
      BY <2>23, <3>1, GiveBackType DEF IngestFails
  <2>24. ASSUME NEW j \in ingest, Conflict(j) PROVE TypeOK'
    BY <2>24, GiveBackType DEF Conflict
  <2>25. ASSUME NEW j \in later, IngestAgain(j) PROVE TypeOK'
    <3>1. ingests' \in Seq(IngestJob)
      BY <2>25 DEF IngestAgain
    <3>2. QED
      BY <2>25, <3>1 DEF IngestAgain
  <2>26. ASSUME CrashAnalyzer PROVE TypeOK'
    <3>1. spent' \in [DOMAIN Bounds -> Nat]
      BY <2>26, SpendType, Accounts DEF CrashAnalyzer
    <3>2. ASSUME NEW j \in ingest
          PROVE  j.source \in Sources /\ <<[j EXCEPT !.stalls = 1]>> \o ingests \in Seq(IngestJob)
      <4>1. j \in IngestJob
        OBVIOUS
      <4>2. [j EXCEPT !.stalls = 1] \in IngestJob
        BY <4>1, JobTypes
      <4>3. <<[j EXCEPT !.stalls = 1]>> \o ingests \in Seq(IngestJob)
        BY <4>2, Prepend
      <4>4. QED
        BY <4>1, <4>3 DEF IngestJob
    <3>3. ingests' \in Seq(IngestJob) /\ failed' \subseteq Sources
      <4>1. ASSUME NEW j \in ingest, ingests' = <<[j EXCEPT !.stalls = 1]>> \o ingests,
                   UNCHANGED failed
            PROVE  ingests' \in Seq(IngestJob) /\ failed' \subseteq Sources
        BY <4>1, <3>2
      <4>2. ASSUME NEW j \in ingest, failed' = failed \cup {j.source}, UNCHANGED ingests
            PROVE  ingests' \in Seq(IngestJob) /\ failed' \subseteq Sources
        BY <4>2, <3>2
      <4>3. QED
        BY <2>26, <4>1, <4>2 DEF CrashAnalyzer
    <3>4. QED
      BY <2>26, <3>1, <3>3 DEF CrashAnalyzer, IngestIdle
  <2>27. CASE UNCHANGED vars
    BY <2>27 DEF vars
  <2>28. QED
    BY <2>1, <2>2, <2>3, <2>4, <2>5, <2>6, <2>7, <2>8, <2>9, <2>10, <2>11, <2>12, <2>13,
       <2>14, <2>15, <2>16, <2>17, <2>18, <2>19, <2>20, <2>21, <2>22, <2>23, <2>24, <2>25,
       <2>26, <2>27
       DEF Next, PollStep, EmailStep, IngestStep, BackOff, Environment, Trouble
<1>3. QED
  BY <1>1, <1>2, PTL DEF Spec

-----------------------------------------------------------------------------
\* The ingestion worker processes one job, or none when it is idle.
WorkerOK == IF pc = "idle" THEN ingest = {} ELSE \E j \in IngestJob : ingest = {j}

\* A mail is acknowledged and handed over only when it was filed.
FiledFirst == \A m \in MailKeys : receipts[m] # 0 \/ analyses[m] # 0 => m \in Filed

\* Between filing the mail of a new ticket and acknowledging it, and between
\* that and handing the ticket over, no other job has done either: it would
\* have had to file the mail, and there is one worker.
Pending ==
    \A j \in ingest : j.source \in Copies =>
      /\ pc = "recorded" => Key(j.source) \in Filed /\ receipts[Key(j.source)] = 0
      /\ pc \in {"recorded", "receipted"} => Key(j.source) \in Filed /\ analyses[Key(j.source)] = 0

IInv == WorkerOK /\ FiledFirst /\ Pending

LEMMA FiledAppend ==
    ASSUME TypeOK, NEW t \in Nat, NEW c \in Copies,
           events' = Append(events, [ticket |-> t, copy |-> c])
    PROVE  Filed' = Filed \cup {Key(c)}
<1>1. events \in Seq(Event)
  BY DEF TypeOK
<1>2. Elements(events') = Elements(events) \cup {[ticket |-> t, copy |-> c]}
  <2>1. DOMAIN events' = (DOMAIN events) \cup {Len(events) + 1} /\ Len(events) + 1 \in Nat
    BY <1>1
  <2>2. \A i \in DOMAIN events : events'[i] = events[i]
    BY <1>1
  <2>3. events'[Len(events) + 1] = [ticket |-> t, copy |-> c]
    BY <1>1
  <2>4. QED
    BY <2>1, <2>2, <2>3 DEF Elements
<1>3. Filed' = {Key(e.copy) : e \in Elements(events')}
  BY DEF Filed, Elements, Key
<1>4. QED
  BY <1>2, <1>3 DEF Filed

\* What is filed, acknowledged and handed over stays as it is.
Unmoved == UNCHANGED <<events, receipts, analyses>>

LEMMA FiledSame ==
    ASSUME UNCHANGED events
    PROVE  Filed' = Filed
  BY DEF Filed, Elements, Key

\* A step that leaves the worker alone, or makes it idle, and files nothing.
LEMMA Rest ==
    ASSUME IInv, Unmoved,
           \/ ingest' = ingest /\ pc' = pc
           \/ ingest' = {} /\ pc' = "idle"
    PROVE  IInv' /\ UNCHANGED Ledger!ledger
<1>1. Filed' = Filed
  BY FiledSame DEF Unmoved
<1>2. WorkerOK'
  BY DEF IInv, WorkerOK
<1>3. FiledFirst'
  BY <1>1 DEF IInv, FiledFirst, Unmoved
<1>4. Pending'
  BY <1>1 DEF IInv, Pending, Unmoved, Key
<1>5. QED
  BY <1>1, <1>2, <1>3, <1>4 DEF IInv, Unmoved, Ledger!ledger

\* A step of the worker that files nothing and comes to a place of which
\* Pending says nothing.
LEMMA Moves ==
    ASSUME IInv, Unmoved, UNCHANGED ingest, pc # "idle",
           pc' \in {"filed", "replied", "new", "created"}
    PROVE  IInv' /\ UNCHANGED Ledger!ledger
<1>1. Filed' = Filed
  BY FiledSame DEF Unmoved
<1>2. WorkerOK'
  BY DEF IInv, WorkerOK
<1>3. FiledFirst'
  BY <1>1 DEF IInv, FiledFirst, Unmoved
<1>4. Pending'
  BY DEF Pending
<1>5. QED
  BY <1>1, <1>2, <1>3, <1>4 DEF IInv, Unmoved, Ledger!ledger

\* Filing a mail that was not on record.
LEMMA Files ==
    ASSUME TypeOK, IInv, NEW j \in ingest, NEW t \in Nat, j.source \in Copies,
           ~Recorded(j.source), pc # "idle",
           events' = Append(events, [ticket |-> t, copy |-> j.source]),
           pc' \in {"filed", "recorded"}, UNCHANGED <<ingest, receipts, analyses>>
    PROVE  IInv' /\ Ledger!File(Key(j.source)) /\ Key(j.source) \in MailKeys
<1> DEFINE m == Key(j.source)
<1>1. Filed' = Filed \cup {m} /\ m \notin Filed /\ m \in MailKeys
  BY FiledAppend DEF Recorded, MailKeys
<1>2. ingest = {j}
  BY DEF IInv, WorkerOK
<1>3. receipts[m] = 0 /\ analyses[m] = 0
  BY <1>1 DEF IInv, FiledFirst
<1>4. WorkerOK'
  BY DEF IInv, WorkerOK
<1>5. FiledFirst'
  BY <1>1 DEF IInv, FiledFirst
<1>6. Pending'
  BY <1>1, <1>2, <1>3 DEF Pending, Key
<1>7. QED
  BY <1>1, <1>4, <1>5, <1>6 DEF IInv, Ledger!File

\* IInv is kept, and each step is one of MailLedger's or leaves the ledger alone.
LEMMA Intake == Spec => [](TypeOK /\ IInv) /\ LedgerHolds
<1>1. Init => IInv /\ Ledger!Init
  <2>1. Init => Filed = {}
    BY DEF Init, Filed, Elements
  <2>2. QED
    BY <2>1 DEF Init, IInv, WorkerOK, FiledFirst, Pending, Ledger!Init
<1>2. ASSUME TypeOK, IInv, [Next]_vars PROVE IInv' /\ [Ledger!Next]_(Ledger!ledger)
  <2> USE <1>2 DEF pollVars, emailVars, ingestVars, dbVars, historyVars
  <2>1. CASE PollStep \/ BackOff \/ Environment \/ PollFails \/ CrashImap \/ UNCHANGED vars
    <3>1. Unmoved /\ ingest' = ingest /\ pc' = pc
      BY <2>1 DEF PollStep, BackOff, Environment, Unmoved, Fetch, AddEmail, Flag, IngestAgain,
                  Arrive, MarkUnread, Submit, Retire, PollFails, CrashImap, vars
    <3>2. QED
      BY <3>1, Rest
  <2>2. CASE EmailStep \/ \E e \in email : EmailFails(e)
    <3>1. Unmoved /\ ingest' = ingest /\ pc' = pc
      BY <2>2 DEF EmailStep, Unmoved, TakeEmail, SkipDuplicate, Accept, Filter, AddIngest, EmailFails
    <3>2. QED
      BY <3>1, Rest
  <2>3. CASE TakeIngest
    <3>1. Filed' = Filed /\ receipts' = receipts /\ analyses' = analyses
      BY <2>3, FiledSame DEF TakeIngest
    <3>2. Head(ingests) \in IngestJob
      BY <2>3, HeadTail DEF TakeIngest, TypeOK
    <3>3. WorkerOK'
      BY <2>3, <3>2 DEF TakeIngest, WorkerOK
    <3>4. FiledFirst'
      BY <3>1 DEF IInv, FiledFirst
    <3>5. Pending'
      BY <2>3 DEF TakeIngest, Pending
    <3>6. QED
      BY <3>1, <3>3, <3>4, <3>5 DEF IInv, Ledger!ledger
  <2>4. ASSUME NEW j \in ingest, ConsiderReanalysis(j) \/ NoThread(j) \/ MakeTicket(j)
        PROVE  IInv' /\ [Ledger!Next]_(Ledger!ledger)
    <3>1. Unmoved /\ UNCHANGED ingest /\ pc # "idle" /\ pc' \in {"filed", "replied", "new", "created"}
      BY <2>4 DEF ConsiderReanalysis, NoThread, MakeTicket, Unmoved
    <3>2. QED
      BY <3>1, Moves
  <2>5. ASSUME NEW j \in ingest, Complete(j) \/ IngestFails(j) \/ Conflict(j)
        PROVE  IInv' /\ [Ledger!Next]_(Ledger!ledger)
    <3>1. Unmoved /\ ingest' = {} /\ pc' = "idle"
      BY <2>5 DEF Complete, IngestFails, Conflict, GiveBack, IngestIdle, Unmoved
    <3>2. QED
      BY <3>1, Rest
  <2>6. CASE CrashAnalyzer
    <3>1. Unmoved /\ ingest' = {} /\ pc' = "idle"
      BY <2>6 DEF CrashAnalyzer, IngestIdle, Unmoved
    <3>2. QED
      BY <3>1, Rest
  <2>7. ASSUME NEW j \in ingest, FileReply(j) PROVE IInv' /\ [Ledger!Next]_(Ledger!ledger)
    <3>1. PICK t \in Thread(j.source) :
            events' = Append(events, [ticket |-> t, copy |-> j.source])
      BY <2>7 DEF FileReply
    <3>2. t \in Nat
      <4>1. \A e \in Elements(events) : e \in Event
        BY DEF Elements, TypeOK
      <4>2. \A u \in ByReference(j.source) : u \in Nat
        BY <4>1 DEF ByReference, Event
      <4>3. \A u \in BySubject(j.source) : u \in Nat
        BY DEF BySubject, OfSubject, TypeOK
      <4>4. QED
        BY <4>2, <4>3 DEF Thread
    <3>3. IInv' /\ Ledger!File(Key(j.source)) /\ Key(j.source) \in MailKeys
      BY <2>7, <3>1, <3>2, Files DEF FileReply
    <3>4. QED
      BY <3>3 DEF Ledger!Next
  <2>8. ASSUME NEW j \in ingest, RecordFirst(j) PROVE IInv' /\ [Ledger!Next]_(Ledger!ledger)
    <3>1. CASE j.source \in Copies
      <4>1. IInv' /\ Ledger!File(Key(j.source)) /\ Key(j.source) \in MailKeys
        BY <2>8, <3>1, Files DEF RecordFirst, TypeOK
      <4>2. QED
        BY <4>1 DEF Ledger!Next
    <3>2. CASE j.source \notin Copies
      <4>1. Unmoved /\ UNCHANGED ingest /\ pc # "idle" /\ pc' # "idle"
        BY <2>8, <3>2 DEF RecordFirst, Unmoved
      <4>2. Filed' = Filed /\ ingest = {j}
        BY <4>1, FiledSame DEF Unmoved, IInv, WorkerOK
      <4>3. WorkerOK' /\ FiledFirst' /\ Pending'
        BY <3>2, <4>1, <4>2 DEF IInv, WorkerOK, FiledFirst, Pending, Unmoved
      <4>4. QED
        BY <4>1, <4>2, <4>3 DEF IInv, Unmoved, Ledger!ledger
    <3>3. QED
      BY <3>1, <3>2
  <2>9. ASSUME NEW j \in ingest, Acknowledge(j) PROVE IInv' /\ [Ledger!Next]_(Ledger!ledger)
    <3> DEFINE m == Key(j.source)
    <3>1. Filed' = Filed /\ ingest' = {j} /\ ingest = {j} /\ analyses' = analyses /\ pc' = "receipted"
      BY <2>9, FiledSame DEF Acknowledge, IInv, WorkerOK
    <3>2. WorkerOK'
      BY <2>9 DEF Acknowledge, IInv, WorkerOK
    <3>3. j.source \in Copies => m \in MailKeys /\ m \in Filed /\ receipts[m] = 0 /\ analyses[m] = 0
      BY <2>9 DEF Acknowledge, IInv, Pending, MailKeys
    <3>4. Pending'
      BY <3>1, <3>3 DEF Pending, Key
    <3>5. CASE receipts' = receipts
      BY <3>1, <3>2, <3>4, <3>5 DEF IInv, FiledFirst, Ledger!ledger
    <3>6. CASE j.source \in Copies /\ receipts' = [receipts EXCEPT ![m] = @ + 1]
      <4>0. receipts[m] + 1 = 1
        BY <3>3, <3>6
      <4>1. receipts' = [receipts EXCEPT ![m] = 1]
        BY <3>6, <4>0
      <4>2. FiledFirst'
        BY <3>1, <3>3, <3>6, <4>1 DEF IInv, FiledFirst, TypeOK
      <4>3. Ledger!Acknowledge(m)
        BY <3>1, <3>3, <3>6, <4>1 DEF Ledger!Acknowledge
      <4>4. QED
        BY <3>2, <3>3, <3>4, <3>6, <4>2, <4>3 DEF IInv, Ledger!Next
    <3>7. QED
      BY <2>9, <3>5, <3>6 DEF Acknowledge
  <2>10. ASSUME NEW j \in ingest, Dispatch(j) PROVE IInv' /\ [Ledger!Next]_(Ledger!ledger)
    <3> DEFINE m == Key(j.source)
    <3>1. Filed' = Filed /\ ingest' = {j} /\ receipts' = receipts /\ pc' = "dispatched"
      BY <2>10, FiledSame DEF Dispatch, IInv, WorkerOK
    <3>2. WorkerOK' /\ Pending'
      BY <2>10, <3>1 DEF Dispatch, IInv, WorkerOK, Pending
    <3>3. j.source \in Copies => m \in MailKeys /\ m \in Filed /\ analyses[m] = 0
      BY <2>10 DEF Dispatch, IInv, Pending, MailKeys
    <3>4. CASE j.source \notin Copies
      BY <2>10, <3>1, <3>2, <3>4 DEF Dispatch, IInv, FiledFirst, Ledger!ledger
    <3>5. CASE j.source \in Copies
      <4>0. analyses[m] + 1 = 1 /\ analyses' = [analyses EXCEPT ![m] = @ + 1]
        BY <2>10, <3>3, <3>5 DEF Dispatch
      <4>1. analyses' = [analyses EXCEPT ![m] = 1]
        BY <4>0
      <4>2. FiledFirst'
        BY <3>1, <3>3, <3>5, <4>1 DEF IInv, FiledFirst, TypeOK
      <4>3. Ledger!Dispatch(m)
        BY <3>1, <3>3, <3>5, <4>1 DEF Ledger!Dispatch
      <4>4. QED
        BY <3>2, <3>3, <3>5, <4>2, <4>3 DEF IInv, Ledger!Next
    <3>6. QED
      BY <3>4, <3>5
  <2>11. QED
    BY <2>1, <2>2, <2>3, <2>4, <2>5, <2>6, <2>7, <2>8, <2>9, <2>10
       DEF Next, IngestStep, Trouble
<1>3. QED
  BY <1>1, <1>2, TypeInvariance, PTL DEF Spec, LedgerHolds, Ledger!Spec

\* The intake of mails is what MailLedger promises.
THEOREM LedgerImplemented == Spec => LedgerHolds
  BY Intake, PTL

-----------------------------------------------------------------------------
\* What the elements of a queue are when something is added or taken.
LEMMA QueueElements ==
    ASSUME NEW S, NEW q \in Seq(S)
    PROVE  /\ \A x : Elements(Append(q, x)) = Elements(q) \cup {x}
           /\ \A x \in S : Elements(<<x>> \o q) = Elements(q) \cup {x}
           /\ q # <<>> => Elements(q) = Elements(Tail(q)) \cup {Head(q)}
<1>1. ASSUME NEW x PROVE Elements(Append(q, x)) = Elements(q) \cup {x}
  <2>1. /\ DOMAIN q = 1 .. Len(q) /\ Len(q) \in Nat
        /\ DOMAIN Append(q, x) = 1 .. Len(q) + 1
        /\ \A i \in DOMAIN q : Append(q, x)[i] = q[i]
        /\ Append(q, x)[Len(q) + 1] = x
    OBVIOUS
  <2>2. DOMAIN Append(q, x) = (DOMAIN q) \cup {Len(q) + 1}
    BY <2>1
  <2>3. QED
    BY <2>1, <2>2 DEF Elements
<1>2. ASSUME NEW x \in S PROVE Elements(<<x>> \o q) = Elements(q) \cup {x}
  <2> DEFINE r == <<x>> \o q
  <2>1. /\ r \in Seq(S) /\ Len(r) = Len(q) + 1 /\ Len(q) \in Nat
        /\ r[1] = x /\ \A i \in 1 .. Len(q) : r[i + 1] = q[i]
    OBVIOUS
  <2>2. DOMAIN r = 1 .. Len(q) + 1 /\ DOMAIN q = 1 .. Len(q)
    BY <2>1
  <2> HIDE DEF r
  <2>3. \A i \in DOMAIN r : i = 1 \/ (i - 1 \in 1 .. Len(q) /\ r[i] = q[i - 1])
    <3>1. ASSUME NEW i \in 1 .. Len(q) + 1, i # 1 PROVE i - 1 \in 1 .. Len(q) /\ r[i] = q[i - 1]
      <4>1. i - 1 \in 1 .. Len(q) /\ (i - 1) + 1 = i
        BY <3>1, <2>1
      <4>2. QED
        BY <4>1, <2>1
    <3>2. QED
      BY <3>1, <2>2
  <2>4. \A i \in DOMAIN q : i + 1 \in DOMAIN r /\ r[i + 1] = q[i]
    BY <2>1, <2>2
  <2>5. 1 \in DOMAIN r
    BY <2>1, <2>2
  <2>6. Elements(r) = Elements(q) \cup {x}
    BY <2>1, <2>2, <2>3, <2>4, <2>5 DEF Elements
  <2>7. QED
    BY <2>6 DEF r
<1>3. ASSUME q # <<>> PROVE Elements(q) = Elements(Tail(q)) \cup {Head(q)}
  <2>1. /\ Head(q) \in S /\ Tail(q) \in Seq(S) /\ Head(q) = q[1]
        /\ Len(q) \in Nat \ {0} /\ Len(Tail(q)) = Len(q) - 1
        /\ \A i \in 1 .. Len(q) - 1 : Tail(q)[i] = q[i + 1]
    BY <1>3
  <2>2. DOMAIN q = 1 .. Len(q) /\ DOMAIN Tail(q) = 1 .. Len(q) - 1
    BY <2>1
  <2>3. \A i \in DOMAIN q : q[i] = Head(q) \/ (i - 1 \in DOMAIN Tail(q) /\ q[i] = Tail(q)[i - 1])
    <3>1. ASSUME NEW i \in 1 .. Len(q), i # 1
          PROVE  i - 1 \in 1 .. Len(q) - 1 /\ q[i] = Tail(q)[i - 1]
      <4>1. i - 1 \in 1 .. Len(q) - 1 /\ (i - 1) + 1 = i
        BY <3>1, <2>1
      <4>2. QED
        BY <4>1, <2>1
    <3>2. QED
      BY <3>1, <2>1, <2>2
  <2>4. \A i \in DOMAIN Tail(q) : i + 1 \in DOMAIN q /\ q[i + 1] = Tail(q)[i]
    BY <2>1, <2>2
  <2>5. 1 \in DOMAIN q
    BY <2>1, <2>2
  <2>6. QED
    BY <2>1, <2>3, <2>4, <2>5 DEF Elements
<1>4. QED
  BY <1>1, <1>2, <1>3

\* Who works on emails has one, and between two rounds nothing has been fetched.
ImapOK ==
    /\ IF emailPc = "idle" THEN email = {} ELSE \E e \in EmailJob : email = {e}
    /\ pollPc = "idle" => batch = {}

\* A job that is past filing its mail has filed it, or found that it was; only
\* such a job completes.
OnRecord ==
    /\ \A c \in Copies \cap done : Recorded(c)
    /\ pc \in {"filed", "replied", "recorded", "receipted", "dispatched"} =>
         \A j \in ingest : j.source \in Copies => Recorded(j.source)

\* The mails that imap-worker or one of its jobs still names, and those that
\* the ingestion does.
WithImap == noise \cup emailFailed \cup batch \cup {e.copy : e \in Elements(emails) \cup email}
WithIngest == failed \cup {j.source : j \in IngestInFlight}

MailInv == ImapOK /\ OnRecord /\ MailAccounted

\* Accounted, in these terms.
LEMMA AccountedIs ==
    /\ \A c : Accounted(c) <=> Recorded(c) \/ c \in WithImap \cup WithIngest
    /\ \A c : Accounted(c)' <=> Recorded(c)' \/ c \in WithImap' \cup WithIngest'
<1>1. \A c : Accounted(c) <=> Recorded(c) \/ c \in WithImap \cup WithIngest
  BY DEF Accounted, WithImap, WithIngest
<1>2. \A c : Accounted(c)' <=> Recorded(c)' \/ c \in WithImap' \cup WithIngest'
  BY DEF Accounted, WithImap, WithIngest
<1>3. QED
  BY <1>1, <1>2

\* What is on record stays on record, when nothing is filed or when a mail is.
LEMMA RecordKept ==
    /\ UNCHANGED events => \A c : Recorded(c)' <=> Recorded(c)
    /\ \A t \in Nat, c \in Copies :
         TypeOK /\ events' = Append(events, [ticket |-> t, copy |-> c])
           => Recorded(c)' /\ \A d : Recorded(d) => Recorded(d)'
<1>1. UNCHANGED events => \A c : Recorded(c)' <=> Recorded(c)
  BY FiledSame DEF Recorded, Key
<1>2. ASSUME NEW t \in Nat, NEW c \in Copies, TypeOK,
             events' = Append(events, [ticket |-> t, copy |-> c])
      PROVE  Recorded(c)' /\ \A d : Recorded(d) => Recorded(d)'
  BY <1>2, FiledAppend DEF Recorded, Key
<1>3. QED
  BY <1>1, <1>2

\* imap-worker has not crashed and no poll has failed.
Reliable == spent.imap + spent.poll = 0

\* Spending on anything leaves that true only when it was, and when it is for
\* neither of the two.
LEMMA StaysReliable ==
    ASSUME TypeOK, NEW w \in DOMAIN Bounds, Spend(w), Reliable'
    PROVE  Reliable /\ w \notin {"imap", "poll"}
<1>1. /\ spent.imap \in Nat /\ spent.poll \in Nat
      /\ spent'.imap = IF w = "imap" THEN spent.imap + 1 ELSE spent.imap
      /\ spent'.poll = IF w = "poll" THEN spent.poll + 1 ELSE spent.poll
  BY Accounts DEF TypeOK, Spend
<1>2. QED
  BY <1>1 DEF Reliable

\* The ingestion may only get another job.
LEMMA IngestKeeps ==
    ASSUME TypeOK, UNCHANGED <<later, ingest, failed>>,
           ingests' = ingests \/ \E x : ingests' = Append(ingests, x)
    PROVE  WithIngest \subseteq WithIngest'
<1>1. Elements(ingests) \subseteq Elements(ingests')
  <2>1. \A x : Elements(Append(ingests, x)) = Elements(ingests) \cup {x}
    BY QueueElements DEF TypeOK
  <2>2. QED
    BY <2>1
<1>2. /\ WithIngest = failed \cup {j.source : j \in Elements(ingests) \cup later \cup ingest}
      /\ WithIngest' = failed' \cup {j.source : j \in Elements(ingests') \cup later' \cup ingest'}
  BY DEF WithIngest, IngestInFlight, Elements
<1>3. QED
  BY <1>1, <1>2

\* imap-worker's mails, spelled out.
LEMMA WithImapIs ==
    /\ WithImap = noise \cup emailFailed \cup batch \cup {e.copy : e \in Elements(emails) \cup email}
    /\ WithImap' = noise' \cup emailFailed' \cup batch' \cup {e.copy : e \in Elements(emails') \cup email'}
  BY DEF WithImap, Elements

\* A mail given to the ingestion is with it, or its job has completed.
LEMMA Entered ==
    ASSUME TypeOK, NEW c \in Copies, Enqueue(c), UNCHANGED <<later, ingest, failed, done>>
    PROVE  c \in WithIngest' \cup done
<1>1. /\ WithIngest = failed \cup {j.source : j \in IngestInFlight}
      /\ WithIngest' = failed' \cup {j.source : j \in Elements(ingests') \cup later' \cup ingest'}
      /\ IngestInFlight = Elements(ingests) \cup later \cup ingest
  BY DEF WithIngest, IngestInFlight, Elements
<1>2. CASE c \in KnownIds
  BY <1>1, <1>2 DEF KnownIds, JobId, Enqueue
<1>3. CASE c \notin KnownIds
  <2>1. ingests' = Append(ingests, NewIngest(c))
    BY <1>3 DEF Enqueue, JobId
  <2>2. NewIngest(c) \in Elements(ingests')
    BY <2>1, QueueElements DEF TypeOK
  <2>3. NewIngest(c).source = c
    BY DEF NewIngest
  <2>4. QED
    BY <1>1, <2>2, <2>3
<1>4. QED
  BY <1>2, <1>3

\* What imap-worker's steps do to the mails it names.
LEMMA ImapStep ==
    ASSUME TypeOK, MailInv,
           \/ PollStep \/ EmailStep \/ PollFails \/ CrashImap
           \/ \E e \in email : EmailFails(e)
           \/ \E c \in Copies : Arrive(c) \/ MarkUnread(c)
    PROVE  MailInv'
<1> USE DEF pollVars, emailVars, ingestVars, dbVars, historyVars
<1> DEFINE Goal ==
      /\ ImapOK'
      /\ Reliable' => Reliable
      /\ Reliable' => \A c \in Copies : inbox'[c] = "seen" => inbox[c] = "seen" \/ c \in WithImap'
      /\ Reliable' => \A c \in Copies : c \in WithImap => c \in WithImap' \cup WithIngest' \/ Recorded(c)
<1> USE DEF Reliable
<1>0. emails \in Seq(EmailJob) /\ email \subseteq EmailJob /\ batch \subseteq Copies
  BY DEF TypeOK
<1>1. /\ UNCHANGED <<events, later, ingest, pc, done, failed>>
      /\ ingests' = ingests \/ \E x : ingests' = Append(ingests, x)
  BY DEF PollStep, EmailStep, Fetch, AddEmail, Flag, TakeEmail, SkipDuplicate, Accept, Filter, AddIngest,
         Enqueue, PollFails, CrashImap, EmailFails, Arrive, MarkUnread
<1>2. WithIngest \subseteq WithIngest'
  BY <1>1, IngestKeeps
<1>3. \A c : Recorded(c)' <=> Recorded(c)
  BY <1>1, RecordKept
<1>4. ASSUME NEW c \in Copies, Arrive(c) PROVE Goal
  BY <1>4, WithImapIs DEF Arrive, MailInv, ImapOK, TypeOK
<1>5. ASSUME NEW c \in Copies, MarkUnread(c) PROVE Goal
  <2>1. Spend("unread")
    BY <1>5 DEF MarkUnread
  <2>2. Reliable' => Reliable
    BY <2>1, Accounts, StaysReliable
  <2>3. QED
    BY <1>5, <2>2, WithImapIs DEF MarkUnread, MailInv, ImapOK, TypeOK
<1>6. ASSUME NEW b, Fetch(b) PROVE Goal
  BY <1>6, WithImapIs DEF Fetch, MailInv, ImapOK
<1>7. ASSUME Flag PROVE Goal
  BY <1>7, WithImapIs DEF Flag, MailInv, ImapOK
<1>8. ASSUME NEW c \in Copies, AddEmail(c) PROVE Goal
  <2>1. Elements(emails') = Elements(emails) \cup {[copy |-> c, stalls |-> 0]}
    BY <1>0, <1>8, QueueElements DEF AddEmail
  <2>2. ImapOK'
    BY <1>8 DEF AddEmail, MailInv, ImapOK
  <2>3. UNCHANGED <<inbox, spent, email, noise, emailFailed>> /\ batch' = batch \ {c}
    BY <1>8 DEF AddEmail
  <2>4. c \in WithImap'
    <3> DEFINE e == [copy |-> c, stalls |-> 0]
    <3>1. e.copy = c
      OBVIOUS
    <3> HIDE DEF e
    <3>2. e \in Elements(emails')
      BY <2>1 DEF e
    <3>3. QED
      BY <3>1, <3>2, WithImapIs
  <2>5. WithImap \subseteq WithImap'
    BY <2>1, <2>3, <2>4, WithImapIs
  <2>6. QED
    BY <2>2, <2>3, <2>5
<1>9. ASSUME PollFails PROVE Goal
  <2>1. Spend("poll")
    BY <1>9 DEF PollFails
  <2>2. ~Reliable'
    BY <2>1, Accounts, StaysReliable
  <2>3. QED
    BY <1>9, <2>2 DEF PollFails, MailInv, ImapOK
<1>10. ASSUME CrashImap PROVE Goal
  <2>1. Spend("imap")
    BY <1>10 DEF CrashImap
  <2>2. ~Reliable'
    BY <2>1, Accounts, StaysReliable
  <2>3. QED
    BY <1>10, <2>2 DEF CrashImap, MailInv, ImapOK, EmailIdle
<1>11. ASSUME TakeEmail PROVE Goal
  <2>1. Elements(emails) = Elements(emails') \cup {Head(emails)} /\ email' = {Head(emails)} /\ email = {}
    BY <1>0, <1>11, QueueElements DEF TakeEmail, MailInv, ImapOK
  <2>2. Head(emails) \in EmailJob
    BY <1>0, <1>11, HeadTail DEF TakeEmail
  <2>3. ImapOK'
    BY <1>11, <2>1, <2>2 DEF TakeEmail, MailInv, ImapOK
  <2>4. UNCHANGED <<inbox, spent, batch, noise, emailFailed>>
    BY <1>11 DEF TakeEmail
  <2>5. WithImap' = WithImap
    BY <2>1, <2>4, WithImapIs
  <2>6. QED
    BY <2>3, <2>4, <2>5
<1>12. ASSUME NEW e \in email, emailPc # "idle"
       PROVE  email = {e} /\ e.copy \in Copies
  BY <1>0, <1>12 DEF MailInv, ImapOK, EmailJob
<1>13. ASSUME NEW e \in email, Accept(e) PROVE Goal
  BY <1>13, WithImapIs DEF Accept, MailInv, ImapOK
<1>14. ASSUME NEW e \in email, emailPc # "idle", EmailIdle, UNCHANGED <<inbox, pollPc, batch, emails>>,
              Reliable' => Reliable, noise \subseteq noise', emailFailed \subseteq emailFailed',
              e.copy \in noise' \cup emailFailed' \cup WithIngest' \/ Recorded(e.copy)
       PROVE  Goal
  <2>1. ImapOK'
    BY <1>14 DEF MailInv, ImapOK, EmailIdle
  <2>2. WithImap \subseteq WithImap' \cup {e.copy}
    BY <1>12, <1>14, WithImapIs DEF EmailIdle
  <2>3. e.copy \in WithImap' \cup WithIngest' \/ Recorded(e.copy)
    BY <1>14, WithImapIs
  <2>4. QED
    BY <1>14, <2>1, <2>2, <2>3
<1>15. ASSUME NEW e \in email, SkipDuplicate(e) PROVE Goal
  BY <1>14, <1>15 DEF SkipDuplicate
<1>16. ASSUME NEW e \in email, Filter(e) PROVE Goal
  BY <1>14, <1>16 DEF Filter
<1>17. ASSUME NEW e \in email, AddIngest(e) PROVE Goal
  <2>1. e.copy \in WithIngest' \cup done
    BY <1>1, <1>12, <1>17, Entered DEF AddIngest
  <2>2. e.copy \in WithIngest' \/ Recorded(e.copy)
    BY <1>12, <1>17, <2>1 DEF AddIngest, MailInv, OnRecord
  <2>3. QED
    BY <1>14, <1>17, <2>2 DEF AddIngest
<1>18. ASSUME NEW e \in email, EmailFails(e) PROVE Goal
  <2>1. Spend("errors")
    BY <1>18 DEF EmailFails
  <2>2. Reliable' => Reliable
    BY <2>1, Accounts, StaysReliable
  <2>3. QED
    BY <1>14, <1>18, <2>2 DEF EmailFails
<1>19. Goal
  BY <1>4, <1>5, <1>6, <1>7, <1>8, <1>9, <1>10, <1>11, <1>13, <1>15, <1>16, <1>17, <1>18
     DEF PollStep, EmailStep
<1>20. OnRecord'
  BY <1>1, <1>3 DEF MailInv, OnRecord
<1>21. MailAccounted'
  <2>1. ASSUME Reliable', NEW c \in Copies, inbox'[c] = "seen" PROVE Accounted(c)'
    <3>1. Recorded(c) \/ c \in WithImap \cup WithIngest \cup WithImap'
      BY <1>19, <2>1, AccountedIs DEF MailInv, MailAccounted
    <3>2. QED
      BY <1>2, <1>3, <1>19, <2>1, <3>1, AccountedIs
  <2>2. QED
    BY <2>1 DEF MailAccounted
<1>22. QED
  BY <1>19, <1>20, <1>21 DEF MailInv

\* The ingestion's mails, spelled out.
LEMMA WithIngestIs ==
    /\ WithIngest = failed \cup {j.source : j \in Elements(ingests) \cup later \cup ingest}
    /\ WithIngest' = failed' \cup {j.source : j \in Elements(ingests') \cup later' \cup ingest'}
  BY DEF WithIngest, IngestInFlight, Elements

\* A job keeps its mail when it is tried again and when it stalls.
LEMMA SourceKept ==
    \A j \in IngestJob : /\ [j EXCEPT !.attempt = @ + 1].source = j.source
                         /\ [j EXCEPT !.stalls = 1].source = j.source
  BY DEF IngestJob

\* The job that could not be processed is still named.
LEMMA GivenBack ==
    ASSUME TypeOK, IInv, NEW j \in ingest, pc # "idle", GiveBack(j), UNCHANGED ingests
    PROVE  WithIngest \subseteq WithIngest'
<1>1. ingest = {j} /\ j \in IngestJob
  BY DEF IInv, WorkerOK, TypeOK
<1> DEFINE k == [j EXCEPT !.attempt = @ + 1]
<1>2. k.source = j.source
  BY <1>1, SourceKept
<1> HIDE DEF k
<1>3. later' = later \/ later' = later \cup {k}
  BY DEF GiveBack, Retry, k
<1>4. failed \subseteq failed' /\ (later' = later => j.source \in failed')
  BY DEF GiveBack
<1>5. j.source \in WithIngest'
  BY <1>2, <1>3, <1>4, WithIngestIs
<1>6. QED
  BY <1>1, <1>3, <1>4, <1>5, WithIngestIs

\* What the other steps do to the mails the ingestion names.
LEMMA IngestSide ==
    ASSUME TypeOK, IInv, MailInv,
           \/ IngestStep \/ BackOff \/ CrashAnalyzer
           \/ \E j \in ingest : IngestFails(j)
           \/ \E f \in Forms : Submit(f)
           \/ \E t \in DOMAIN tickets : Retire(t)
    PROVE  MailInv'
<1> USE DEF pollVars, emailVars, ingestVars, dbVars, historyVars
<1> DEFINE Goal ==
      /\ OnRecord'
      /\ \A c \in Copies : c \in WithIngest => c \in WithIngest' \/ Recorded(c)
<1>0. ingests \in Seq(IngestJob) /\ later \subseteq IngestJob /\ ingest \subseteq IngestJob
  BY DEF TypeOK
<1>1. UNCHANGED <<inbox, pollPc, batch, emails, email, emailPc, emailFailed, noise>>
  BY DEF IngestStep, BackOff, CrashAnalyzer, IngestFails, Submit, Retire, TakeIngest, FileReply,
         ConsiderReanalysis, NoThread, MakeTicket, RecordFirst, Acknowledge, Dispatch, Complete, Conflict,
         IngestAgain
<1>2. ImapOK' /\ WithImap' = WithImap
  BY <1>1, WithImapIs DEF MailInv, ImapOK
<1>3. Reliable' => Reliable
  <2>1. spent' = spent \/ Spend("errors") \/ Spend("crashes") \/ Spend("retired")
    BY DEF IngestStep, BackOff, CrashAnalyzer, IngestFails, Submit, Retire, TakeIngest, FileReply,
           ConsiderReanalysis, NoThread, MakeTicket, RecordFirst, Acknowledge, Dispatch, Complete, Conflict,
           IngestAgain
  <2>2. QED
    BY <2>1, Accounts, StaysReliable DEF Reliable
<1>4. ASSUME NEW j \in ingest, pc # "idle" PROVE ingest = {j} /\ j \in IngestJob
  BY <1>0, <1>4 DEF IInv, WorkerOK
<1>5. ASSUME NEW j \in ingest, pc # "idle", UNCHANGED <<ingest, ingests, later, done, failed>>,
             \/ UNCHANGED events
             \/ j.source \in Copies /\ \E t \in Nat : events' = Append(events, [ticket |-> t, copy |-> j.source]),
             \/ pc' \in {"new", "created"}
             \/ pc' = "recorded" /\ j.source \notin Copies
             \/ pc \in {"filed", "replied", "recorded", "receipted", "dispatched"}
             \/ events' # events
      PROVE  Goal /\ \A c : Recorded(c) => Recorded(c)'
  <2>1. WithIngest' = WithIngest
    BY <1>5, WithIngestIs
  <2>2. \A c : Recorded(c) => Recorded(c)'
    BY <1>5, RecordKept
  <2>3. events' # events => Recorded(j.source)'
    BY <1>5, RecordKept
  <2>4. ingest' = {j}
    BY <1>4, <1>5
  <2>5. OnRecord'
    BY <1>5, <2>2, <2>3, <2>4 DEF MailInv, OnRecord
  <2>6. QED
    BY <2>1, <2>2, <2>5
<1>6. ASSUME UNCHANGED <<events, done>>, ingest' = {} \/ (ingest' = ingest /\ pc' = pc),
             WithIngest \subseteq WithIngest'
      PROVE  Goal /\ \A c : Recorded(c) => Recorded(c)'
  <2>1. \A c : Recorded(c)' <=> Recorded(c)
    BY <1>6, RecordKept
  <2>2. QED
    BY <1>6, <2>1 DEF MailInv, OnRecord
<1> DEFINE Done == Goal /\ \A c : Recorded(c) => Recorded(c)'
<1>7. ASSUME TakeIngest PROVE Done
  <2>1. Elements(ingests) = Elements(ingests') \cup {Head(ingests)} /\ ingest' = {Head(ingests)}
    BY <1>0, <1>7, QueueElements DEF TakeIngest
  <2>2. UNCHANGED <<events, later, done, failed>> /\ ingest = {} /\ pc' = "taken"
    BY <1>7 DEF TakeIngest, IInv, WorkerOK
  <2>3. WithIngest' = WithIngest
    BY <2>1, <2>2, WithIngestIs
  <2>4. \A c : Recorded(c)' <=> Recorded(c)
    BY <2>2, RecordKept
  <2>5. OnRecord'
    BY <2>2, <2>4 DEF MailInv, OnRecord
  <2>6. QED
    BY <2>3, <2>4, <2>5
<1>8. ASSUME NEW j \in ingest, FileReply(j) PROVE Done
  <2>1. PICK t \in Thread(j.source) : events' = Append(events, [ticket |-> t, copy |-> j.source])
    BY <1>8 DEF FileReply
  <2>2. t \in Nat
    <3>1. \A e \in Elements(events) : e \in Event
      BY DEF Elements, TypeOK
    <3>2. \A u \in ByReference(j.source) : u \in Nat
      BY <3>1 DEF ByReference, Event
    <3>3. \A u \in BySubject(j.source) : u \in Nat
      BY DEF BySubject, OfSubject, TypeOK
    <3>4. QED
      BY <3>2, <3>3 DEF Thread
  <2>3. events' # events
    BY <2>1, <2>2 DEF TypeOK
  <2>4. QED
    BY <1>5, <1>8, <2>1, <2>2, <2>3 DEF FileReply
<1>9. ASSUME NEW j \in ingest, ConsiderReanalysis(j) \/ NoThread(j) \/ MakeTicket(j) \/ Acknowledge(j)
                               \/ Dispatch(j) PROVE Done
  BY <1>5, <1>9 DEF ConsiderReanalysis, NoThread, MakeTicket, Acknowledge, Dispatch
<1>10. ASSUME NEW j \in ingest, RecordFirst(j) PROVE Done
  <2>1. CASE j.source \in Copies
    <3>1. events' = Append(events, [ticket |-> ticket, copy |-> j.source]) /\ ticket \in Nat
      BY <1>10, <2>1 DEF RecordFirst, TypeOK
    <3>2. events' # events
      BY <3>1 DEF TypeOK
    <3>3. QED
      BY <1>5, <1>10, <2>1, <3>1, <3>2 DEF RecordFirst
  <2>2. CASE j.source \notin Copies
    BY <1>5, <1>10, <2>2 DEF RecordFirst
  <2>3. QED
    BY <2>1, <2>2
<1>11. ASSUME NEW j \in ingest, Complete(j) PROVE Done
  <2>1. /\ UNCHANGED <<events, ingests, later, failed>> /\ ingest' = {} /\ done' = done \cup {j.source}
        /\ pc \in {"replied", "dispatched"}
    BY <1>11 DEF Complete, IngestIdle
  <2>2. ingest = {j}
    BY <1>4, <2>1
  <2>3. j.source \in Copies => Recorded(j.source)
    BY <2>1 DEF MailInv, OnRecord
  <2>4. \A c : Recorded(c)' <=> Recorded(c)
    BY <2>1, RecordKept
  <2>5. OnRecord'
    BY <2>1, <2>3, <2>4 DEF MailInv, OnRecord
  <2>6. WithIngest \subseteq WithIngest' \cup {j.source}
    BY <2>1, <2>2, WithIngestIs
  <2>7. QED
    BY <2>3, <2>4, <2>5, <2>6
<1>12. ASSUME NEW j \in ingest, IngestFails(j) \/ Conflict(j) PROVE Done
  <2>1. /\ GiveBack(j) /\ pc # "idle" /\ UNCHANGED <<ingests, done, events>> /\ ingest' = {}
    BY <1>12 DEF IngestFails, Conflict, GiveBack, IngestIdle
  <2>2. QED
    BY <1>6, <2>1, GivenBack
<1>13. ASSUME NEW j \in later, IngestAgain(j) PROVE Done
  <2>1. Elements(ingests') = Elements(ingests) \cup {j}
    BY <1>0, <1>13, QueueElements DEF IngestAgain
  <2>2. UNCHANGED <<events, done, failed, ingest, pc>> /\ later' = later \ {j}
    BY <1>13 DEF IngestAgain
  <2>3. WithIngest \subseteq WithIngest'
    BY <2>1, <2>2, WithIngestIs
  <2>4. QED
    BY <1>6, <2>2, <2>3
<1>14. ASSUME CrashAnalyzer PROVE Done
  <2>1. UNCHANGED <<events, done, later>> /\ ingest' = {} /\ pc # "idle"
    BY <1>14 DEF CrashAnalyzer, IngestIdle
  <2>2. PICK j \in ingest :
          IF j.stalls = 0
          THEN ingests' = <<[j EXCEPT !.stalls = 1]>> \o ingests /\ UNCHANGED failed
          ELSE failed' = failed \cup {j.source} /\ UNCHANGED ingests
    BY <1>14 DEF CrashAnalyzer
  <2>3. ingest = {j} /\ j \in IngestJob
    BY <1>4, <2>1
  <2> DEFINE k == [j EXCEPT !.stalls = 1]
  <2>4. k.source = j.source /\ k \in IngestJob
    BY <2>3, SourceKept, JobTypes
  <2>5. Elements(<<k>> \o ingests) = Elements(ingests) \cup {k}
    BY <1>0, <2>4, QueueElements
  <2> HIDE DEF k
  <2>6. WithIngest \subseteq WithIngest'
    <3>1. CASE ingests' = <<k>> \o ingests /\ UNCHANGED failed
      BY <2>1, <2>3, <2>4, <2>5, <3>1, WithIngestIs
    <3>2. CASE failed' = failed \cup {j.source} /\ UNCHANGED ingests
      BY <2>1, <2>3, <3>2, WithIngestIs
    <3>3. QED
      BY <2>2, <3>1, <3>2 DEF k
  <2>7. QED
    BY <1>6, <2>1, <2>6
<1>15. ASSUME NEW f \in Forms, Submit(f) PROVE Done
  <2>1. /\ UNCHANGED <<events, done, later, ingest, pc, failed>>
        /\ ingests' = ingests \/ ingests' = Append(ingests, NewIngest(f))
    BY <1>15 DEF Submit, Enqueue
  <2>2. WithIngest \subseteq WithIngest'
    BY <2>1, IngestKeeps
  <2>3. QED
    BY <1>6, <2>1, <2>2
<1>16. ASSUME NEW t \in DOMAIN tickets, Retire(t) PROVE Done
  <2>1. UNCHANGED <<events, done, later, ingest, ingests, pc, failed>>
    BY <1>16 DEF Retire
  <2>2. WithIngest \subseteq WithIngest'
    BY <2>1, IngestKeeps
  <2>3. QED
    BY <1>6, <2>1, <2>2
<1>17. Done
  BY <1>7, <1>8, <1>9, <1>10, <1>11, <1>12, <1>13, <1>14, <1>15, <1>16 DEF IngestStep, BackOff
<1>18. MailAccounted'
  <2>1. ASSUME Reliable', NEW c \in Copies, inbox'[c] = "seen" PROVE Accounted(c)'
    <3>1. Recorded(c) \/ c \in WithImap \cup WithIngest
      BY <1>1, <1>3, <2>1, AccountedIs DEF MailInv, MailAccounted, Reliable
    <3>2. QED
      BY <1>2, <1>17, <3>1, AccountedIs
  <2>2. QED
    BY <2>1 DEF MailAccounted, Reliable
<1>19. QED
  BY <1>2, <1>17, <1>18 DEF MailInv

\* No mail is lost between its flag and its end.
THEOREM MailsAreAccounted == Spec => []MailAccounted
<1>1. Init => MailInv
  BY DEF Init, MailInv, ImapOK, OnRecord, MailAccounted
<1>2. ASSUME TypeOK, IInv, MailInv, [Next]_vars PROVE MailInv'
  <2>1. CASE UNCHANGED vars
    <3>1. /\ UNCHANGED <<inbox, pollPc, batch, emails, email, emailPc, emailFailed>>
          /\ UNCHANGED <<ingests, later, ingest, pc, done, failed, events, noise, spent>>
      BY <2>1 DEF vars, pollVars, emailVars, ingestVars, dbVars, historyVars
    <3>2. \A c : Recorded(c)' <=> Recorded(c)
      BY <3>1, RecordKept
    <3>3. ImapOK'
      BY <1>2, <3>1 DEF MailInv, ImapOK
    <3>4. OnRecord'
      BY <1>2, <3>1, <3>2 DEF MailInv, OnRecord
    <3>5. WithImap' = WithImap /\ WithIngest' = WithIngest
      BY <3>1, WithImapIs, WithIngestIs
    <3>6. MailAccounted'
      BY <1>2, <3>1, <3>2, <3>5, AccountedIs DEF MailInv, MailAccounted
    <3>7. QED
      BY <3>3, <3>4, <3>6 DEF MailInv
  <2>2. QED
    BY <1>2, <2>1, ImapStep, IngestSide DEF Next, Environment, Trouble
<1>3. QED
  BY <1>1, <1>2, Intake, PTL DEF Spec, MailInv

-----------------------------------------------------------------------------
\* Event k of a list lies on the ticket of one it mentions, when there is one.
Kept(list, k) ==
    (\E i \in 1 .. k - 1 : Mentions(list[k].copy, list[i])) =>
      \E i \in 1 .. k - 1 : Mentions(list[k].copy, list[i]) /\ list[i].ticket = list[k].ticket

\* ThreadKept, in these terms.
LEMMA ThreadKeptIs ==
    /\ ThreadKept <=> \A k \in DOMAIN events : Kept(events, k)
    /\ ThreadKept' <=> \A k \in DOMAIN events' : Kept(events', k)
<1>1. ASSUME NEW list, NEW k
      PROVE  LET before == {list[i] : i \in {i \in 1 .. k - 1 : Mentions(list[k].copy, list[i])}} IN
             (before # {} => list[k].ticket \in {e.ticket : e \in before}) <=> Kept(list, k)
  BY DEF Kept
<1>2. ThreadKept <=> \A k \in DOMAIN events : Kept(events, k)
  BY <1>1 DEF ThreadKept
<1>3. ThreadKept' <=> \A k \in DOMAIN events' : Kept(events', k)
  BY <1>1 DEF ThreadKept, Mentions
<1>4. QED
  BY <1>2, <1>3

\* The tickets of the mails referred to, spelled out.
LEMMA ByReferenceIs ==
    \A c, t : t \in ByReference(c) <=> \E i \in DOMAIN events : Mentions(c, events[i]) /\ events[i].ticket = t
  BY DEF ByReference, Elements, Mentions

\* Filing a mail on a ticket that RESOLVE_THREAD found by reference, or on any
\* when there is none.
LEMMA FiledOnThread ==
    ASSUME TypeOK, ThreadKept, NEW t, NEW c,
           ByReference(c) # {} => t \in ByReference(c),
           events' = Append(events, [ticket |-> t, copy |-> c])
    PROVE  ThreadKept'
<1> DEFINE n == Len(events)
<1>1. /\ DOMAIN events = 1 .. n /\ DOMAIN events' = 1 .. n + 1 /\ n \in Nat
      /\ \A i \in 1 .. n : events'[i] = events[i]
      /\ events'[n + 1] = [ticket |-> t, copy |-> c]
  BY DEF TypeOK
<1>2. events'[n + 1].ticket = t /\ events'[n + 1].copy = c
  BY <1>1
<1> HIDE DEF n
<1>3. ASSUME NEW k \in 1 .. n PROVE Kept(events', k)
  <2>1. Kept(events, k)
    BY <1>1, ThreadKeptIs
  <2>2. events'[k] = events[k] /\ \A i \in 1 .. k - 1 : events'[i] = events[i]
    BY <1>1
  <2>3. QED
    BY <2>1, <2>2 DEF Kept
<1>4. Kept(events', n + 1)
  <2>1. (n + 1) - 1 = n
    BY <1>1
  <2>2. ASSUME NEW i \in 1 .. n, Mentions(c, events[i])
        PROVE  \E m \in 1 .. n : Mentions(c, events[m]) /\ events[m].ticket = t
    <3>1. events[i].ticket \in ByReference(c)
      BY <1>1, <2>2, ByReferenceIs
    <3>2. QED
      BY <1>1, <3>1, ByReferenceIs
  <2>3. QED
    BY <1>1, <1>2, <2>1, <2>2 DEF Kept
<1>5. \A k \in DOMAIN events' : Kept(events', k)
  <2>1. \A k \in 1 .. n + 1 : k \in 1 .. n \/ k = n + 1
    BY <1>1
  <2>2. QED
    BY <1>1, <1>3, <1>4, <2>1
<1>6. QED
  BY <1>5, ThreadKeptIs

\* Between looking for a thread in vain and filing the mail of the new ticket,
\* nobody else files anything.
Threadless ==
    pc \in {"new", "created"} => \A j \in ingest : j.source \in Copies => ByReference(j.source) = {}

\* A reply stays with the mails it refers to.
THEOREM RepliesKeepTheirThread == Spec => []ThreadKept
<1>1. Init => Threadless /\ ThreadKept
  BY DEF Init, Threadless, ThreadKept
<1>2. ASSUME TypeOK, IInv, Threadless, ThreadKept, [Next]_vars PROVE Threadless' /\ ThreadKept'
  <2> USE <1>2 DEF pollVars, emailVars, ingestVars, dbVars, historyVars
  <2>0. ASSUME UNCHANGED events PROVE ThreadKept' /\ \A c : ByReference(c)' = ByReference(c)
    BY <2>0, ThreadKeptIs DEF ByReference, Elements
  <2>1. ASSUME UNCHANGED events,
               \/ UNCHANGED <<pc, ingest>>
               \/ pc' \notin {"new", "created"}
               \/ pc \in {"new", "created"} /\ UNCHANGED ingest
        PROVE  Threadless' /\ ThreadKept'
    BY <2>0, <2>1 DEF Threadless
  <2>2. CASE PollStep \/ BackOff \/ Environment \/ PollFails \/ CrashImap \/ UNCHANGED vars
    <3>1. UNCHANGED <<events, pc, ingest>>
      BY <2>2 DEF PollStep, BackOff, Environment, Fetch, AddEmail, Flag, IngestAgain,
                  Arrive, MarkUnread, Submit, Retire, PollFails, CrashImap, vars
    <3>2. QED
      BY <2>1, <3>1
  <2>3. CASE EmailStep \/ \E e \in email : EmailFails(e)
    <3>1. UNCHANGED <<events, pc, ingest>>
      BY <2>3 DEF EmailStep, TakeEmail, SkipDuplicate, Accept, Filter, AddIngest, EmailFails
    <3>2. QED
      BY <2>1, <3>1
  <2>4. CASE TakeIngest \/ CrashAnalyzer
    BY <2>1, <2>4 DEF TakeIngest, CrashAnalyzer, IngestIdle
  <2>5. ASSUME NEW j \in ingest, \/ ConsiderReanalysis(j) \/ MakeTicket(j) \/ Acknowledge(j) \/ Dispatch(j)
                                 \/ Complete(j) \/ Conflict(j) \/ IngestFails(j)
        PROVE  Threadless' /\ ThreadKept'
    BY <2>1, <2>5 DEF ConsiderReanalysis, MakeTicket, Acknowledge, Dispatch, Complete, Conflict, IngestFails,
                      GiveBack, IngestIdle
  <2>6. ASSUME NEW j \in ingest, pc # "idle" PROVE ingest = {j}
    BY <2>6 DEF IInv, WorkerOK
  <2>7. ASSUME NEW j \in ingest, NoThread(j) PROVE Threadless' /\ ThreadKept'
    <3>1. ingest' = {j} /\ UNCHANGED events /\ (j.source \in Copies => Thread(j.source) = {})
      BY <2>6, <2>7 DEF NoThread
    <3>2. j.source \in Copies => ByReference(j.source)' = {}
      BY <2>0, <3>1 DEF Thread
    <3>3. QED
      BY <2>0, <3>1, <3>2 DEF Threadless
  <2>8. ASSUME NEW j \in ingest, FileReply(j) PROVE Threadless' /\ ThreadKept'
    <3>1. PICK t \in Thread(j.source) : events' = Append(events, [ticket |-> t, copy |-> j.source])
      BY <2>8 DEF FileReply
    <3>2. ByReference(j.source) # {} => t \in ByReference(j.source)
      BY DEF Thread
    <3>3. ThreadKept'
      BY <3>1, <3>2, FiledOnThread
    <3>4. QED
      BY <2>8, <3>3 DEF FileReply, Threadless
  <2>9. ASSUME NEW j \in ingest, RecordFirst(j) PROVE Threadless' /\ ThreadKept'
    <3>1. Threadless'
      BY <2>9 DEF RecordFirst, Threadless
    <3>2. CASE j.source \in Copies
      <4>1. events' = Append(events, [ticket |-> ticket, copy |-> j.source]) /\ ByReference(j.source) = {}
        BY <2>9, <3>2 DEF RecordFirst, Threadless
      <4>2. QED
        BY <3>1, <4>1, FiledOnThread
    <3>3. CASE j.source \notin Copies
      BY <2>0, <2>9, <3>1, <3>3 DEF RecordFirst
    <3>4. QED
      BY <3>2, <3>3
  <2>10. QED
    BY <2>2, <2>3, <2>4, <2>5, <2>7, <2>8, <2>9 DEF Next, IngestStep, Trouble
<1>3. QED
  BY <1>1, <1>2, Intake, PTL DEF Spec

=============================================================================
