-------------------------- MODULE TicketAnalysisProofs --------------------------
(***************************************************************************)
(* The analysis of a ticket for any number of replies, clicks, messages,   *)
(* errors and crashes, any limits and any number of operators.             *)
(***************************************************************************)
EXTENDS TicketAnalysis, FiniteSetTheorems, WellFoundedInduction, TLAPS

-----------------------------------------------------------------------------
(* Types *)

\* What leaves variables as they are leaves their types.
LEMMA KeptTypes ==
    TypeOK => /\ UNCHANGED ticketVars => TicketTypes'
              /\ UNCHANGED dispatchVars => DispatchTypes'
              /\ UNCHANGED analysisVars => AnalysisTypes'
              /\ UNCHANGED callVars => CallTypes'
              /\ UNCHANGED historyVars => HistoryTypes'
              /\ UNCHANGED spent => SpentTypes'
PROOF
  BY DEF TypeOK, ticketVars, TicketTypes, dispatchVars, DispatchTypes, analysisVars, AnalysisTypes,
         callVars, CallTypes, historyVars, HistoryTypes, SpentTypes

\* Jobs: a new one, one tried again, one that has stalled, and their ids.
LEMMA JobTypes ==
    /\ \A k \in Kinds, n \in Nat, t \in Nat : NewJob(k, n, t) \in Job
    /\ \A j \in Job : /\ [j EXCEPT !.attempt = @ + 1] \in Job
                      /\ [j EXCEPT !.stalls = 1] \in Job
                      /\ Id(j) \in Kinds \X Nat
                      /\ InnerJob(j) \in Job
PROOF
<1>1. \A k \in Kinds, n \in Nat, t \in Nat : NewJob(k, n, t) \in Job
  BY DEF NewJob, Job
<1>2. ASSUME NEW j \in Job
      PROVE  /\ [j EXCEPT !.attempt = @ + 1] \in Job
             /\ [j EXCEPT !.stalls = 1] \in Job
             /\ Id(j) \in Kinds \X Nat
             /\ InnerJob(j) \in Job
  <2>1. PICK n \in Nat : n = j.attempt + 1
    BY DEF Job
  <2>2. [j EXCEPT !.attempt = n] \in Job
    BY <2>1 DEF Job
  <2>3. [j EXCEPT !.stalls = 1] \in Job
    BY DEF Job
  <2>4. j.kind \in Kinds /\ j.n \in Nat
    BY DEF Job
  <2> QED BY <1>1, <2>1, <2>2, <2>3, <2>4 DEF Id, InnerJob
<1> QED BY <1>1, <1>2

\* The job put back after a crash, if any.
LEMMA FrontIs ==
    ASSUME NEW jobs \in SUBSET Job
    PROVE  \/ Front(jobs) = <<>> /\ \A k \in jobs : k.stalls # 0
           \/ \E k \in jobs : k.stalls = 0 /\ Front(jobs) = <<[k EXCEPT !.stalls = 1]>>
PROOF
<1> DEFINE again == {[j EXCEPT !.stalls = 1] : j \in {k \in jobs : k.stalls = 0}}
<1>1. CASE again = {}
  BY <1>1 DEF Front
<1>2. CASE again # {}
  <2>1. PICK k \in again : k = CHOOSE j \in again : TRUE
    BY <1>2
  <2>2. Front(jobs) = <<k>>
    BY <1>2, <2>1 DEF Front
  <2> QED BY <2>1, <2>2
<1> QED BY <1>1, <1>2

\* A queue with that job in front.
LEMMA FrontTypes ==
    ASSUME NEW jobs \in SUBSET Job, NEW s \in Seq(Job)
    PROVE  Front(jobs) \o s \in Seq(Job)
PROOF
<1>1. CASE Front(jobs) = <<>>
  BY <1>1
<1>2. ASSUME NEW k \in jobs, Front(jobs) = <<[k EXCEPT !.stalls = 1]>> PROVE Front(jobs) \in Seq(Job)
  <2>1. PICK j \in Job : j = [k EXCEPT !.stalls = 1]
    BY JobTypes
  <2> QED BY <1>2, <2>1
<1>3. Front(jobs) \in Seq(Job)
  BY <1>1, <1>2, FrontIs
<1> QED BY <1>3

\* Adding to a queue.
LEMMA EnqueueTypes ==
    ASSUME TypeOK, NEW j \in Job
    PROVE  /\ Enqueue(j) => wait' \in Seq(Job)
           /\ Append(wait, j) \in Seq(Job) /\ Append(created, j) \in Seq(Job)
PROOF
  BY DEF TypeOK, AnalysisTypes, DispatchTypes, Enqueue

\* Spending keeps the account's type.
LEMMA SpendType ==
    ASSUME TypeOK, NEW w \in DOMAIN Bounds, Spend(w)
    PROVE  /\ SpentTypes'
           /\ spent'[w] = spent[w] + 1 /\ \A x \in DOMAIN Bounds \ {w} : spent'[x] = spent[x]
PROOF
<1>1. PICK n \in Nat : n = spent[w] + 1
  BY DEF TypeOK, SpentTypes
<1>2. spent' = [spent EXCEPT ![w] = n]
  BY <1>1 DEF Spend
<1> QED BY <1>1, <1>2 DEF TypeOK, SpentTypes

\* What is counted.
LEMMA Accounts ==
    DOMAIN Bounds = {"replies", "clicks", "chats", "patches", "errors", "outages", "crashes"}
PROOF
  BY DEF Bounds

\* A job that ends, or is tried again.
LEMMA LeaveTypes ==
    ASSUME TypeOK, NEW j \in active
    PROVE  /\ Leave(j) /\ UNCHANGED <<wait, delayed>> => AnalysisTypes'
           /\ TryAgain(j) /\ UNCHANGED wait => AnalysisTypes'
PROOF
<1>1. j \in Job
  BY DEF TypeOK, AnalysisTypes
<1>2. PICK k \in Job, i \in Kinds \X Nat : k = [j EXCEPT !.attempt = @ + 1] /\ i = Id(j)
  BY <1>1, JobTypes
<1>3. Leave(j) /\ UNCHANGED <<wait, delayed>> => AnalysisTypes'
  BY <1>2 DEF TypeOK, AnalysisTypes, Leave
<1>4. TryAgain(j) /\ UNCHANGED wait => AnalysisTypes'
  BY <1>2 DEF TypeOK, AnalysisTypes, TryAgain
<1> QED BY <1>3, <1>4

\* A reply that is taken up no further, and one that is.
LEMMA ReplyTypes ==
    ASSUME TypeOK
    PROVE  /\ \A why \in {"closed", "early", "answer", "unsent", "redundant", "busy", "lost"} :
                 SkipReply(why) => ingest' \in Ingesting /\ skipped' \subseteq Skipped
           /\ \A p \in {"passed", "clear"} : ingest' = [ingest EXCEPT !.pc = p] => ingest' \in Ingesting
           /\ NotIngesting \in Ingesting
           /\ \A n \in Nat : [pc |-> "recorded", reply |-> n] \in Ingesting
PROOF
<1>1. ASSUME NEW why \in {"closed", "early", "answer", "unsent", "redundant", "busy", "lost"}, SkipReply(why)
      PROVE  ingest' \in Ingesting /\ skipped' \subseteq Skipped
  <2>1. PICK s \in Skipped : s = [reply |-> ingest.reply, why |-> why]
    BY DEF TypeOK, CallTypes, Ingesting, Skipped
  <2> QED BY <1>1, <2>1 DEF TypeOK, HistoryTypes, SkipReply, NotIngesting, Ingesting
<1> QED BY <1>1 DEF TypeOK, CallTypes, Ingesting, NotIngesting

\* A request that goes on.
LEMMA RequestTypes ==
    ASSUME TypeOK, NEW o \in Operators
    PROVE  /\ \A r \in Requested : Step(o, r) => request' \in [Operators -> Requested]
           /\ \A p \in {"read", "marked", "added", "chat", "chatAdded"} : [request[o] EXCEPT !.pc = p] \in Requested
           /\ NoRequest \in Requested
           /\ \A n \in Nat : ChatRequest(n) \in Requested
           /\ request[o].n \in Nat /\ request[o].prior \in AnalysisStatus
PROOF
<1>1. request[o] \in Requested /\ request \in [Operators -> Requested]
  BY DEF TypeOK, CallTypes
<1>2. NoRequest \in Requested /\ \A n \in Nat : ChatRequest(n) \in Requested
  BY DEF NoRequest, ChatRequest, Requested, AnalysisStatus
<1>3. \A r \in Requested : Step(o, r) => request' \in [Operators -> Requested]
  BY <1>1 DEF Step
<1>4. \A p \in {"read", "marked", "added", "chat", "chatAdded"} : [request[o] EXCEPT !.pc = p] \in Requested
  BY <1>1 DEF Requested
<1>5. request[o].n \in Nat /\ request[o].prior \in AnalysisStatus
  BY <1>1 DEF Requested
<1> QED BY <1>2, <1>3, <1>4, <1>5

\* Replies are about mails of the thread, and requests about messages only if
\* there were any.
CallsKnown ==
    /\ ingest.pc # "idle" => ingest.reply \in DOMAIN thread /\ thread[ingest.reply] = "mail"
    /\ \A s \in skipped : s.reply \in DOMAIN thread
    /\ \A o \in Operators : request[o].pc \in {"chat", "chatAdded"} => spent.chats # 0

\* The last of numbers that are bounded is one of them.
LEMMA LastExists ==
    ASSUME NEW S, S \subseteq Nat, S # {}, NEW bound \in Nat, \A x \in S : x <= bound
    PROVE  Last(S) \in S
PROOF
<1> DEFINE T == {bound - x : x \in S}
<1>1. T \subseteq Nat /\ T # {}
  <2>1. \A x \in S : bound - x \in Nat
    OBVIOUS
  <2> QED BY <2>1
<1>2. PICK t \in T : \A y \in T : ~ (<<y, t>> \in OpToRel(<, Nat))
  <2> HIDE DEF T
  <2> QED BY <1>1, NatLessThanWellFounded, WFMin
<1>3. \A y \in T : t <= y
  <2> HIDE DEF T
  <2> TAKE y \in T
  <2>1. ~ (<<y, t>> \in OpToRel(<, Nat)) /\ y \in Nat /\ t \in Nat
    BY <1>1, <1>2
  <2> QED BY <2>1 DEF OpToRel
<1>4. PICK s \in S : t = bound - s
  BY <1>2
<1>5. \A x \in S : x <= s
  <2> TAKE x \in S
  <2>1. bound - s <= bound - x /\ x \in Nat /\ s \in Nat
    BY <1>3, <1>4
  <2> QED BY <2>1
<1> QED BY <1>5 DEF Last

\* A reply's job is about an event of the thread.
LEMMA ReplyJob ==
    ASSUME TypeOK, CallsKnown, ingest.pc = "clear"
    PROVE  NewJob("reply", ingest.reply, Last(Mails)) \in Job
PROOF
<1>1. thread \in Seq({"mail", "chat"}) /\ ingest.reply \in Nat
  BY DEF TypeOK, TicketTypes, CallTypes, Ingesting
<1>2. Mails \subseteq Nat /\ Mails # {} /\ \A x \in Mails : x <= Len(thread)
  BY <1>1 DEF CallsKnown, Mails
<1>3. PICK n \in Nat : n = Len(thread)
  BY <1>1
<1>4. Last(Mails) \in Nat
  BY <1>2, <1>3, LastExists
<1> QED BY <1>1, <1>4, JobTypes DEF Kinds

\* Every step keeps the types.
LEMMA TypesStep == TypeOK /\ CallsKnown /\ [Next]_vars => TypeOK'
PROOF
<1> SUFFICES ASSUME TypeOK, CallsKnown, [Next]_vars PROVE TypeOK'
  OBVIOUS
<1> USE KeptTypes, Accounts DEF TypeOK
<1>1. CASE DispatchTake
  <2>1. Head(created) \in Job /\ Tail(created) \in Seq(Job)
    BY <1>1 DEF DispatchTake, DispatchTypes
  <2> QED BY <1>1, <2>1 DEF DispatchTake, DispatchTypes
<1>2. CASE DispatchMark
  BY <1>2 DEF DispatchMark, TicketTypes, AnalysisStatus, DispatchTypes, dispatchVars
<1>3. ASSUME NEW d \in dispatching, DispatchAdd(d) PROVE TypeOK'
  <2>1. PICK j \in Job : j = InnerJob(d)
    BY JobTypes DEF DispatchTypes
  <2>2. wait' \in Seq(Job)
    BY <1>3, <2>1, EnqueueTypes DEF DispatchAdd
  <2> QED BY <1>3, <2>2 DEF DispatchAdd, DispatchTypes, AnalysisTypes
<1>4. CASE Take
  <2>1. Head(wait) \in Job /\ Tail(wait) \in Seq(Job)
    BY <1>4 DEF Take, AnalysisTypes
  <2> QED BY <1>4, <2>1 DEF Take, AnalysisTypes
<1>5. ASSUME NEW j \in active, Guard(j) PROVE TypeOK'
  BY <1>5 DEF Guard, TicketTypes, AnalysisTypes
<1>6. ASSUME NEW j \in active, Refuse(j) PROVE TypeOK'
  BY <1>6, LeaveTypes DEF Refuse, HistoryTypes
<1>7. ASSUME NEW j \in active, Load(j) PROVE TypeOK'
  <2>1. Reads(j) \subseteq Nat
    BY DEF TicketTypes, Reads, First, Mails
  <2> QED BY <1>7, <2>1 DEF Load, AnalysisTypes
<1>8. ASSUME NEW j \in active, Skip(j) PROVE TypeOK'
  BY <1>8, LeaveTypes DEF Skip, TicketTypes, AnalysisStatus
<1>9. ASSUME NEW j \in active, Analyse(j) PROVE TypeOK'
  <2>1. TicketTypes'
    BY <1>9, BoundsAssumption
       DEF Analyse, StatusAfterVerdict, TicketTypes, Status, OpenStatus, SufficiencyStatus
  <2> QED BY <1>9, <2>1 DEF Analyse, AnalysisTypes
<1>10. ASSUME NEW j \in active, Update(j) PROVE TypeOK'
  <2>1. TicketTypes'
    BY <1>10, BoundsAssumption
       DEF Update, Escalated, StatusAfterVerdict, TicketTypes, Status, OpenStatus, SufficiencyStatus
  <2> QED BY <1>10, <2>1 DEF Update, AnalysisTypes, HistoryTypes
<1>11. ASSUME NEW j \in active, Send(j) PROVE TypeOK'
  <2>1. TypeOfFindings(j) \in FindingsType
    BY DEF TypeOfFindings, FindingsType
  <2>2. TicketTypes'
    BY <1>11, <2>1 DEF Send, TicketTypes, Status, OpenStatus
  <2> QED BY <1>11, <2>2 DEF Send, AnalysisTypes
<1>12. ASSUME NEW j \in active, Conclude(j) PROVE TypeOK'
  <2>1. AnalysisTypes'
    BY <1>12, LeaveTypes DEF Conclude, AnalysisTypes
  <2> QED BY <1>12, <2>1 DEF Conclude, TicketTypes, AnalysisTypes, AnalysisStatus, HistoryTypes
<1>13. ASSUME NEW j \in active, Open(j) PROVE TypeOK'
  BY <1>13, LeaveTypes DEF Open, StatusWhenAnalysed, TicketTypes, Status, OpenStatus
<1>14. ASSUME NEW j \in delayed, Again(j) PROVE TypeOK'
  <2>1. Append(wait, j) \in Seq(Job)
    BY EnqueueTypes DEF AnalysisTypes
  <2> QED BY <1>14, <2>1 DEF Again, AnalysisTypes
<1>15. ASSUME NEW d \in createdLater, DispatchAgain(d) PROVE TypeOK'
  <2>1. Append(created, d) \in Seq(Job)
    BY EnqueueTypes DEF DispatchTypes
  <2> QED BY <1>15, <2>1 DEF DispatchAgain, DispatchTypes
<1>16. CASE ReplyGate
  BY <1>16, ReplyTypes DEF ReplyGate, CallTypes, HistoryTypes
<1>17. CASE ReplyScan
  BY <1>17, ReplyTypes DEF ReplyScan, CallTypes, HistoryTypes
<1>18. CASE ReplyAdd
  <2>1. PICK j \in Job : j = NewJob("reply", ingest.reply, Last(Mails))
    BY <1>18, ReplyJob DEF ReplyAdd
  <2>2. wait' \in Seq(Job)
    BY <1>18, <2>1, EnqueueTypes DEF ReplyAdd
  <2> QED BY <1>18, <2>2, ReplyTypes DEF ReplyAdd, AnalysisTypes, CallTypes
<1>19. CASE Crash
  <2>1. wait' \in Seq(Job) /\ created' \in Seq(Job)
    BY <1>19, FrontTypes DEF Crash, AnalysisTypes, DispatchTypes
  <2>2. finished' \subseteq Kinds \X Nat
    BY <1>19, JobTypes DEF Crash, AnalysisTypes
  <2>3. AnalysisTypes' /\ DispatchTypes'
    BY <1>19, <2>1, <2>2 DEF Crash, AnalysisTypes, DispatchTypes
  <2> QED BY <1>19, <2>3, SpendType, ReplyTypes DEF Crash, CallTypes, HistoryTypes
<1>20. CASE ReplyFails
  BY <1>20, SpendType, ReplyTypes DEF ReplyFails, CallTypes, HistoryTypes
<1>21. ASSUME NEW j \in active, Fail(j) PROVE TypeOK'
  BY <1>21, SpendType, LeaveTypes DEF Fail, TicketTypes, AnalysisStatus
<1>22. ASSUME NEW j \in active, FailUnrecorded(j) PROVE TypeOK'
  BY <1>22, SpendType, LeaveTypes DEF FailUnrecorded
<1>23. ASSUME NEW d \in dispatching, DispatchFails(d) PROVE TypeOK'
  <2>1. PICK k \in Job : k = [d EXCEPT !.attempt = @ + 1]
    BY JobTypes DEF DispatchTypes
  <2>2. DispatchTypes'
    BY <1>23, <2>1 DEF DispatchFails, DispatchTypes
  <2> QED BY <1>23, <2>2, SpendType DEF DispatchFails
<1>24. ASSUME NEW o \in Operators, ClickFails(o) PROVE TypeOK'
  BY <1>24, SpendType, RequestTypes DEF ClickFails, Done, TicketTypes, CallTypes
<1>25. ASSUME NEW o \in Operators, ClickRead(o) PROVE TypeOK'
  <2>1. PICK n \in Nat : n = spent.clicks + 1
    BY DEF SpentTypes
  <2>2. PICK r \in Requested : r = [pc |-> "read", n |-> n, prior |-> analysisStatus]
    BY DEF Requested, TicketTypes
  <2> QED BY <1>25, <2>1, <2>2, SpendType, RequestTypes DEF ClickRead, CallTypes
<1>26. ASSUME NEW o \in Operators, ClickMark(o) PROVE TypeOK'
  BY <1>26, RequestTypes DEF ClickMark, TicketTypes, AnalysisStatus, CallTypes
<1>27. ASSUME NEW o \in Operators, ClickAdd(o) PROVE TypeOK'
  <2>1. PICK j \in Job : j = NewJob("click", request[o].n, 0)
    BY RequestTypes, JobTypes DEF Kinds
  <2>2. created' \in Seq(Job)
    BY <1>27, <2>1, EnqueueTypes DEF ClickAdd
  <2> QED BY <1>27, <2>2, RequestTypes DEF ClickAdd, DispatchTypes, CallTypes
<1>28. ASSUME NEW o \in Operators, ClickEnd(o) PROVE TypeOK'
  BY <1>28, RequestTypes DEF ClickEnd, StatusOnceAdded, Done, TicketTypes, CallTypes
<1>29. ASSUME NEW o \in Operators, ChatPost(o) PROVE TypeOK'
  <2>1. thread' \in Seq({"mail", "chat"}) /\ Len(thread) + 1 \in Nat
    BY <1>29 DEF ChatPost, TicketTypes
  <2>2. request' \in [Operators -> Requested]
    BY <1>29, <2>1, RequestTypes DEF ChatPost, CallTypes
  <2> QED BY <1>29, <2>1, <2>2, SpendType DEF ChatPost, TicketTypes, CallTypes
<1>30. ASSUME NEW o \in Operators, ChatPick(o) PROVE TypeOK'
  <2>1. DOMAIN thread \subseteq Nat
    BY DEF TicketTypes
  <2> QED BY <1>30, <2>1, SpendType, RequestTypes DEF ChatPick, CallTypes
<1>31. ASSUME NEW o \in Operators, ChatAdd(o) PROVE TypeOK'
  <2>1. PICK j \in Job : j = NewJob("chat", request[o].n, request[o].n)
    BY RequestTypes, JobTypes DEF Kinds
  <2>2. request' \in [Operators -> Requested]
    BY <1>31, RequestTypes DEF ChatAdd, Done
  <2>3. wait' \in Seq(Job) /\ finished' \subseteq Kinds \X Nat
    BY <1>31, <2>1, EnqueueTypes DEF ChatAdd, AnalysisTypes
  <2> QED BY <1>31, <2>2, <2>3 DEF ChatAdd, AnalysisTypes, CallTypes
<1>32. ASSUME NEW o \in Operators, ChatMark(o) PROVE TypeOK'
  BY <1>32, RequestTypes DEF ChatMark, Done, TicketTypes, AnalysisStatus, CallTypes
<1>33. CASE ReplyArrives
  <2>1. thread' \in Seq({"mail", "chat"}) /\ Len(thread) + 1 \in Nat
    BY <1>33 DEF ReplyArrives, TicketTypes
  <2> QED BY <1>33, <2>1, SpendType, ReplyTypes DEF ReplyArrives, TicketTypes, CallTypes
<1>34. CASE Patch
  BY <1>34, SpendType DEF Patch, TicketTypes
<1>35. CASE UNCHANGED vars
  BY <1>35 DEF vars
<1> HIDE KeptTypes, Accounts DEF TypeOK
<1>36. ASSUME NEW j \in active, Process(j) PROVE TypeOK'
  BY <1>5, <1>6, <1>7, <1>8, <1>9, <1>10, <1>11, <1>12, <1>13, <1>36 DEF Process
<1>37. CASE Trouble
  BY <1>19, <1>20, <1>21, <1>22, <1>23, <1>24, <1>37 DEF Trouble
<1>38. ASSUME NEW o \in Operators, Handle(o) \/ Request(o) PROVE TypeOK'
  BY <1>25, <1>26, <1>27, <1>28, <1>29, <1>30, <1>31, <1>32, <1>38 DEF Handle, Request
<1>39. CASE Dispatch \/ Analysis \/ BackOff \/ Ingest
  BY <1>1, <1>2, <1>3, <1>4, <1>14, <1>15, <1>16, <1>17, <1>18, <1>36, <1>39
     DEF Dispatch, Analysis, BackOff, Ingest
<1> QED
  BY <1>33, <1>34, <1>35, <1>37, <1>38, <1>39 DEF Next

-----------------------------------------------------------------------------
(* What steps do to the queues *)

\* Each worker has one job or none, and is idle without.
Alone ==
    /\ active = {} <=> pc = "idle"
    /\ \A a, b \in active : a = b
    /\ dispatching = {} <=> dispatchPc = "idle"
    /\ \A a, b \in dispatching : a = b

Basics == TypeOK /\ CallsKnown /\ Alone

IsReply(j) == j.kind = "reply"
IsClick(j) == j.kind = "click"
IsChat(j) == j.kind = "chat"

\* The outer job ends.
OuterEnds == dispatching' = {} /\ dispatchPc' = "idle" /\ UNCHANGED <<created, createdLater>>

\* The moves in queue 'ticket-analysis': nothing moves, the job goes on, one is
\* added or taken, the job ends, is tried again or put back.
Rests == UNCHANGED <<wait, delayed, active, finished>> /\ (pc' = "idle" <=> pc = "idle")
Adds(j) ==
    /\ wait' = Append(wait, j) /\ UNCHANGED <<delayed, active, pc>> /\ finished' \subseteq finished
    /\ j.attempt = 0 /\ j.stalls = 0
    /\ \/ OuterEnds /\ \E d \in dispatching : Id(j) = Id(d) /\ j.kind = d.kind
       \/ IsReply(j) /\ ingest.pc = "clear" /\ ingest'.pc = "idle"
       \/ IsChat(j) /\ spent.chats # 0
Takes ==
    /\ pc = "idle" /\ wait # <<>> /\ active' = {Head(wait)} /\ wait' = Tail(wait) /\ pc' = "taken"
    /\ UNCHANGED <<delayed, finished>>
Ends(j) ==
    /\ active' = {} /\ pc' = "idle" /\ finished' = finished \cup {Id(j)} /\ UNCHANGED <<wait, delayed>>
Retries(j) ==
    /\ active' = {} /\ pc' = "idle" /\ delayed' = delayed \cup {[j EXCEPT !.attempt = @ + 1]}
    /\ UNCHANGED <<wait, finished>> /\ spent'.errors = spent.errors + 1
Returns(j) ==
    /\ delayed' = delayed \ {j} /\ wait' = Append(wait, j) /\ UNCHANGED <<active, pc, finished>>
Restores(j) ==
    /\ active' = {} /\ pc' = "idle" /\ wait' = <<[j EXCEPT !.stalls = 1]>> \o wait
    /\ UNCHANGED <<delayed, finished>> /\ spent'.crashes = spent.crashes + 1
QueueMove ==
    \/ Rests \/ Takes
    \/ \E j \in Job : Adds(j)
    \/ \E j \in active : Ends(j) \/ Retries(j) \/ Restores(j)
    \/ \E j \in delayed : Returns(j)

\* The same in queue 'ticket-created'.
OuterRests == UNCHANGED <<created, createdLater, dispatching>> /\ (dispatchPc' = "idle" <=> dispatchPc = "idle")
OuterAdds(o) ==
    /\ request[o].pc = "marked" /\ request'[o].pc = "added"
    /\ created' = Append(created, NewJob("click", request[o].n, 0))
    /\ UNCHANGED <<createdLater, dispatching, dispatchPc>>
OuterTakes ==
    /\ dispatchPc = "idle" /\ created # <<>> /\ dispatching' = {Head(created)} /\ created' = Tail(created)
    /\ dispatchPc' = "taken" /\ UNCHANGED createdLater
OuterRetries(d) ==
    /\ dispatching' = {} /\ dispatchPc' = "idle" /\ createdLater' = createdLater \cup {[d EXCEPT !.attempt = @ + 1]}
    /\ UNCHANGED created /\ spent'.errors = spent.errors + 1
OuterReturns(d) ==
    createdLater' = createdLater \ {d} /\ created' = Append(created, d) /\ UNCHANGED <<dispatching, dispatchPc>>
OuterRestores(d) ==
    /\ dispatching' = {} /\ dispatchPc' = "idle" /\ created' = <<[d EXCEPT !.stalls = 1]>> \o created
    /\ UNCHANGED createdLater /\ spent'.crashes = spent.crashes + 1
OuterMove ==
    \/ OuterRests \/ OuterTakes \/ OuterEnds
    \/ \E o \in Operators : OuterAdds(o)
    \/ \E d \in createdLater : OuterReturns(d)
    \/ \E d \in dispatching : OuterRetries(d) \/ OuterRestores(d)

SpentGrows == \A w \in DOMAIN Bounds : spent[w] <= spent'[w]

Moves == QueueMove /\ OuterMove /\ SpentGrows

\* What leaves variables as they are, or a job that ends, makes no other move.
LEMMA Still ==
    TypeOK => /\ UNCHANGED analysisVars => QueueMove
              /\ \A j \in active : UNCHANGED <<wait, delayed, active, finished>> /\ pc # "idle" /\ pc' # "idle" => QueueMove
              /\ \A j \in active : Leave(j) /\ UNCHANGED <<wait, delayed>> => QueueMove
              /\ UNCHANGED dispatchVars => OuterMove
              /\ UNCHANGED spent => SpentGrows
              /\ \A w \in DOMAIN Bounds : Spend(w) => SpentGrows
PROOF
<1> SUFFICES ASSUME TypeOK
             PROVE  /\ UNCHANGED analysisVars => QueueMove
                    /\ \A j \in active : UNCHANGED <<wait, delayed, active, finished>> /\ pc # "idle" /\ pc' # "idle" => QueueMove
                    /\ \A j \in active : Leave(j) /\ UNCHANGED <<wait, delayed>> => QueueMove
                    /\ UNCHANGED dispatchVars => OuterMove
                    /\ UNCHANGED spent => SpentGrows
                    /\ \A w \in DOMAIN Bounds : Spend(w) => SpentGrows
  OBVIOUS
<1>1. UNCHANGED analysisVars => QueueMove
  BY DEF analysisVars, QueueMove, Rests
<1>2. \A j \in active : UNCHANGED <<wait, delayed, active, finished>> /\ pc # "idle" /\ pc' # "idle" => QueueMove
  BY DEF QueueMove, Rests
<1>3. \A j \in active : Leave(j) /\ UNCHANGED <<wait, delayed>> => QueueMove
  BY DEF QueueMove, Leave, Ends
<1>4. UNCHANGED dispatchVars => OuterMove
  BY DEF dispatchVars, OuterMove, OuterRests
<1>5. \A w \in DOMAIN Bounds : spent[w] \in Nat
  BY DEF TypeOK, SpentTypes
<1>6. UNCHANGED spent => SpentGrows
  BY <1>5 DEF SpentGrows
<1>7. ASSUME NEW w \in DOMAIN Bounds, Spend(w) PROVE SpentGrows
  BY <1>5, <1>7, SpendType DEF SpentGrows
<1> QED BY <1>1, <1>2, <1>3, <1>4, <1>6, <1>7

\* What each step does to the queues.
LEMMA StepMoves == Basics /\ [Next]_vars => Moves
PROOF
<1> SUFFICES ASSUME Basics, [Next]_vars PROVE Moves
  OBVIOUS
<1> USE Still, Accounts DEF Basics, Moves
<1>1. CASE DispatchTake
  BY <1>1 DEF DispatchTake, OuterMove, OuterTakes
<1>2. CASE DispatchMark
  BY <1>2 DEF DispatchMark, OuterMove, OuterRests
<1>3. ASSUME NEW d \in dispatching, DispatchAdd(d) PROVE Moves
  <2>1. PICK j \in Job : j = InnerJob(d)
    BY JobTypes DEF TypeOK, DispatchTypes
  <2>2. j.attempt = 0 /\ j.stalls = 0 /\ Id(j) = Id(d) /\ j.kind = d.kind
    BY <2>1 DEF InnerJob, NewJob, Id
  <2>3. wait' = wait \/ wait' = Append(wait, j)
    BY <1>3, <2>1 DEF DispatchAdd, Enqueue
  <2>4. UNCHANGED <<delayed, active, pc, finished>> /\ dispatching' = {}
    BY <1>3 DEF DispatchAdd
  <2>5. OuterEnds
    BY <1>3 DEF DispatchAdd, OuterEnds
  <2>6. QueueMove /\ OuterMove
    BY <2>2, <2>3, <2>4, <2>5 DEF QueueMove, Rests, Adds, OuterMove
  <2> QED BY <1>3, <2>6 DEF DispatchAdd
<1>4. CASE Take
  BY <1>4 DEF Take, QueueMove, Takes
<1>5. ASSUME NEW j \in active, Guard(j) PROVE Moves
  BY <1>5 DEF Guard
<1>6. ASSUME NEW j \in active, Refuse(j) PROVE Moves
  BY <1>6 DEF Refuse
<1>7. ASSUME NEW j \in active, Load(j) PROVE Moves
  BY <1>7 DEF Load
<1>8. ASSUME NEW j \in active, Skip(j) PROVE Moves
  BY <1>8 DEF Skip
<1>9. ASSUME NEW j \in active, Analyse(j) PROVE Moves
  BY <1>9 DEF Analyse
<1>10. ASSUME NEW j \in active, Update(j) PROVE Moves
  BY <1>10 DEF Update
<1>11. ASSUME NEW j \in active, Send(j) PROVE Moves
  BY <1>11 DEF Send
<1>12. ASSUME NEW j \in active, Conclude(j) PROVE Moves
  BY <1>12 DEF Conclude
<1>13. ASSUME NEW j \in active, Open(j) PROVE Moves
  BY <1>13 DEF Open
<1>14. ASSUME NEW j \in delayed, Again(j) PROVE Moves
  BY <1>14 DEF Again, QueueMove, Returns
<1>15. ASSUME NEW d \in createdLater, DispatchAgain(d) PROVE Moves
  BY <1>15 DEF DispatchAgain, OuterMove, OuterReturns
<1>16. CASE ReplyGate
  BY <1>16 DEF ReplyGate
<1>17. CASE ReplyScan
  BY <1>17 DEF ReplyScan
<1>18. CASE ReplyAdd
  <2>1. PICK j \in Job : j = NewJob("reply", ingest.reply, Last(Mails))
    BY <1>18, ReplyJob DEF ReplyAdd
  <2>2. j.attempt = 0 /\ j.stalls = 0 /\ IsReply(j)
    BY <2>1 DEF NewJob, IsReply
  <2>3. wait' = wait \/ wait' = Append(wait, j)
    BY <1>18, <2>1 DEF ReplyAdd, Enqueue
  <2>4. UNCHANGED <<delayed, active, pc, finished>> /\ ingest.pc = "clear" /\ ingest'.pc = "idle"
    BY <1>18 DEF ReplyAdd, NotIngesting
  <2>5. QueueMove
    BY <2>2, <2>3, <2>4 DEF QueueMove, Rests, Adds
  <2> QED BY <1>18, <2>5 DEF ReplyAdd
<1>19. CASE Crash
  <2>1. active \subseteq Job /\ dispatching \subseteq Job /\ wait \in Seq(Job) /\ created \in Seq(Job)
    BY DEF TypeOK, AnalysisTypes, DispatchTypes
  <2>2. SpentGrows /\ spent'.crashes = spent.crashes + 1
    BY <1>19, SpendType DEF Crash
  <2>3. QueueMove
    <3>1. CASE Front(active) = <<>> /\ \A k \in active : k.stalls # 0
      <4>1. wait' = wait /\ delayed' = delayed /\ active' = {} /\ pc' = "idle"
        BY <1>19, <2>1, <3>1 DEF Crash
      <4>2. finished' = finished \cup {Id(k) : k \in active}
        BY <1>19, <3>1 DEF Crash
      <4>3. CASE active = {}
        BY <4>1, <4>2, <4>3 DEF Alone, QueueMove, Rests
      <4>4. ASSUME NEW j \in active PROVE QueueMove
        <5>1. {Id(k) : k \in active} = {Id(j)}
          BY DEF Alone
        <5> QED BY <4>1, <4>2, <5>1 DEF QueueMove, Ends
      <4> QED BY <4>3, <4>4
    <3>2. ASSUME NEW k \in active, k.stalls = 0, Front(active) = <<[k EXCEPT !.stalls = 1]>> PROVE QueueMove
      BY <1>19, <2>1, <2>2, <3>2 DEF Crash, Alone, QueueMove, Restores
    <3> QED BY <2>1, <3>1, <3>2, FrontIs
  <2>4. OuterMove
    <3>1. CASE Front(dispatching) = <<>>
      BY <1>19, <2>1, <3>1 DEF Crash, OuterMove, OuterEnds
    <3>2. ASSUME NEW k \in dispatching, Front(dispatching) = <<[k EXCEPT !.stalls = 1]>> PROVE OuterMove
      BY <1>19, <2>1, <2>2, <3>2 DEF Crash, OuterMove, OuterRestores
    <3> QED BY <2>1, <3>1, <3>2, FrontIs
  <2> QED BY <2>2, <2>3, <2>4
<1>20. CASE ReplyFails
  BY <1>20 DEF ReplyFails
<1>21. ASSUME NEW j \in active, Fail(j) PROVE Moves
  <2>1. SpentGrows /\ spent'.errors = spent.errors + 1
    BY <1>21, SpendType DEF Fail
  <2>2. QueueMove
    BY <1>21, <2>1 DEF Fail, TryAgain, QueueMove, Ends, Retries
  <2> QED BY <1>21, <2>1, <2>2 DEF Fail
<1>22. ASSUME NEW j \in active, FailUnrecorded(j) PROVE Moves
  <2>1. SpentGrows /\ spent'.errors = spent.errors + 1
    BY <1>22, SpendType DEF FailUnrecorded
  <2>2. QueueMove
    BY <1>22, <2>1 DEF FailUnrecorded, TryAgain, QueueMove, Ends, Retries
  <2> QED BY <1>22, <2>1, <2>2 DEF FailUnrecorded
<1>23. ASSUME NEW d \in dispatching, DispatchFails(d) PROVE Moves
  <2>1. SpentGrows /\ spent'.errors = spent.errors + 1
    BY <1>23, SpendType DEF DispatchFails
  <2>2. OuterMove
    BY <1>23, <2>1 DEF DispatchFails, OuterMove, OuterEnds, OuterRetries
  <2> QED BY <1>23, <2>1, <2>2 DEF DispatchFails
<1>24. ASSUME NEW o \in Operators, ClickFails(o) PROVE Moves
  BY <1>24 DEF ClickFails
<1>25. ASSUME NEW o \in Operators, ClickRead(o) PROVE Moves
  BY <1>25 DEF ClickRead
<1>26. ASSUME NEW o \in Operators, ClickMark(o) PROVE Moves
  BY <1>26 DEF ClickMark
<1>27. ASSUME NEW o \in Operators, ClickAdd(o) PROVE Moves
  <2>1. OuterAdds(o)
    BY <1>27 DEF ClickAdd, OuterAdds, Step, TypeOK, CallTypes
  <2> QED BY <1>27, <2>1 DEF ClickAdd, OuterMove
<1>28. ASSUME NEW o \in Operators, ClickEnd(o) PROVE Moves
  BY <1>28 DEF ClickEnd
<1>29. ASSUME NEW o \in Operators, ChatPost(o) PROVE Moves
  BY <1>29 DEF ChatPost
<1>30. ASSUME NEW o \in Operators, ChatPick(o) PROVE Moves
  BY <1>30 DEF ChatPick
<1>31. ASSUME NEW o \in Operators, ChatAdd(o) PROVE Moves
  <2>1. PICK j \in Job : j = NewJob("chat", request[o].n, request[o].n)
    BY RequestTypes, JobTypes DEF Kinds
  <2>2. j.attempt = 0 /\ j.stalls = 0 /\ IsChat(j) /\ spent.chats # 0
    BY <1>31, <2>1 DEF ChatAdd, NewJob, IsChat, CallsKnown
  <2>3. UNCHANGED <<wait, finished>> \/ (wait' = Append(wait, j) /\ finished' \subseteq finished)
    BY <1>31, <2>1 DEF ChatAdd
  <2>4. UNCHANGED <<delayed, active, pc>>
    BY <1>31 DEF ChatAdd
  <2>5. QueueMove
    BY <2>2, <2>3, <2>4 DEF QueueMove, Rests, Adds
  <2> QED BY <1>31, <2>5 DEF ChatAdd
<1>32. ASSUME NEW o \in Operators, ChatMark(o) PROVE Moves
  BY <1>32 DEF ChatMark
<1>33. CASE ReplyArrives
  BY <1>33 DEF ReplyArrives
<1>34. CASE Patch
  BY <1>34 DEF Patch
<1>35. CASE UNCHANGED vars
  BY <1>35 DEF vars
<1>36. ASSUME NEW j \in active, Process(j) PROVE Moves
  BY <1>5, <1>6, <1>7, <1>8, <1>9, <1>10, <1>11, <1>12, <1>13, <1>36 DEF Process
<1>37. CASE Trouble
  BY <1>19, <1>20, <1>21, <1>22, <1>23, <1>24, <1>37 DEF Trouble
<1>38. ASSUME NEW o \in Operators, Handle(o) \/ Request(o) PROVE Moves
  BY <1>25, <1>26, <1>27, <1>28, <1>29, <1>30, <1>31, <1>32, <1>38 DEF Handle, Request
<1>39. CASE Dispatch \/ Analysis \/ BackOff \/ Ingest
  BY <1>1, <1>2, <1>3, <1>4, <1>14, <1>15, <1>16, <1>17, <1>18, <1>36, <1>39
     DEF Dispatch, Analysis, BackOff, Ingest
<1> QED
  BY <1>33, <1>34, <1>35, <1>37, <1>38, <1>39 DEF Next

-----------------------------------------------------------------------------
(* What steps do to the conversation and the requests *)

ThreadMove == thread' = thread \/ \E x \in {"mail", "chat"} : thread' = Append(thread, x)
IngestMove ==
    \/ UNCHANGED ingest
    \/ ingest'.pc = "idle"
    \/ ingest.pc # "idle" /\ ingest'.reply = ingest.reply
    \/ ingest'.reply = Len(thread) + 1 /\ thread' = Append(thread, "mail")
SkippedMove ==
    \/ UNCHANGED skipped
    \/ ingest.pc # "idle" /\ \E s \in Skipped : s.reply = ingest.reply /\ skipped' = skipped \cup {s}
Chatting(o) == request[o].pc \in {"chat", "chatAdded"}
RequestMove == \A o \in Operators : Chatting(o)' => Chatting(o) \/ spent'.chats # 0
ScanMove == ingest'.pc = "clear" => ingest.pc = "clear" \/ (Pending = {} /\ UNCHANGED analysisVars)
Asking(o) == request[o].pc \in {"read", "marked"}
AskMove ==
    \/ \A o \in Operators : Asking(o)' => Asking(o) /\ request'[o].n = request[o].n
    \/ \E o \in Operators :
          /\ request'[o].n = spent.clicks + 1 /\ spent'.clicks = spent.clicks + 1
          /\ \A q \in Operators \ {o} : request'[q] = request[q]
          /\ UNCHANGED <<dispatchVars, analysisVars>>
CallsMove == AskMove /\ ThreadMove /\ IngestMove /\ ScanMove /\ SkippedMove /\ RequestMove

\* What leaves the conversation and the requests as they are.
LEMMA CallsStill ==
    TypeOK => /\ UNCHANGED ticketVars => ThreadMove
              /\ UNCHANGED thread => ThreadMove
              /\ UNCHANGED ingest => IngestMove /\ ScanMove
              /\ UNCHANGED historyVars => SkippedMove
              /\ UNCHANGED skipped => SkippedMove
              /\ UNCHANGED callVars => IngestMove /\ ScanMove /\ RequestMove /\ AskMove
              /\ UNCHANGED request => RequestMove /\ AskMove
              /\ \A o \in Operators : Done(o) => RequestMove /\ AskMove
              /\ \A o \in Operators, r \in Requested :
                    Step(o, r) /\ (Chatting(o) \/ r.pc \notin {"chat", "chatAdded"} \/ spent'.chats # 0) => RequestMove
              /\ \A o \in Operators, r \in Requested :
                    Step(o, r) /\ (r.pc \notin {"read", "marked"} \/ (Asking(o) /\ r.n = request[o].n)) => AskMove
PROOF
<1> SUFFICES ASSUME TypeOK
             PROVE  /\ UNCHANGED request => RequestMove /\ AskMove
                    /\ \A o \in Operators : Done(o) => RequestMove /\ AskMove
                    /\ \A o \in Operators, r \in Requested :
                          Step(o, r) /\ (Chatting(o) \/ r.pc \notin {"chat", "chatAdded"} \/ spent'.chats # 0) => RequestMove
                    /\ \A o \in Operators, r \in Requested :
                          Step(o, r) /\ (r.pc \notin {"read", "marked"} \/ (Asking(o) /\ r.n = request[o].n)) => AskMove
  BY DEF ticketVars, ThreadMove, IngestMove, ScanMove, historyVars, SkippedMove, callVars
<1>1. request \in [Operators -> Requested]
  BY DEF TypeOK, CallTypes
<1>2. UNCHANGED request => RequestMove /\ AskMove
  BY DEF RequestMove, AskMove, Asking, Chatting
<1>3. ASSUME NEW o \in Operators, NEW r \in Requested, Step(o, r),
             Chatting(o) \/ r.pc \notin {"chat", "chatAdded"} \/ spent'.chats # 0
      PROVE  RequestMove
  BY <1>1, <1>3 DEF RequestMove, Chatting, Step
<1>4. ASSUME NEW o \in Operators, NEW r \in Requested, Step(o, r),
             r.pc \notin {"read", "marked"} \/ (Asking(o) /\ r.n = request[o].n)
      PROVE  AskMove
  BY <1>1, <1>4 DEF AskMove, Asking, Step
<1>5. NoRequest \in Requested /\ NoRequest.pc \notin {"chat", "chatAdded", "read", "marked"}
  BY DEF NoRequest, Requested, AnalysisStatus
<1> QED BY <1>2, <1>3, <1>4, <1>5 DEF Done

\* A reply that is taken up no further.
LEMMA SkipStill ==
    ASSUME TypeOK, ingest.pc # "idle",
           NEW why \in {"closed", "early", "answer", "unsent", "redundant", "busy", "lost"}, SkipReply(why)
    PROVE  SkippedMove
PROOF
<1>1. PICK s \in Skipped : s = [reply |-> ingest.reply, why |-> why]
  BY DEF Skipped, TypeOK, CallTypes, Ingesting
<1> QED BY <1>1 DEF SkipReply, SkippedMove

\* What each step does to the conversation and to the requests.
LEMMA StepCalls == Basics /\ [Next]_vars => CallsMove
PROOF
<1> SUFFICES ASSUME Basics, [Next]_vars PROVE CallsMove
  OBVIOUS
<1> USE CallsStill, Accounts DEF Basics, CallsMove
<1>1. CASE DispatchTake
  BY <1>1 DEF DispatchTake
<1>2. CASE DispatchMark
  BY <1>2 DEF DispatchMark
<1>3. ASSUME NEW d \in dispatching, DispatchAdd(d) PROVE CallsMove
  BY <1>3 DEF DispatchAdd
<1>4. CASE Take
  BY <1>4 DEF Take
<1>5. ASSUME NEW j \in active, Guard(j) PROVE CallsMove
  BY <1>5 DEF Guard
<1>6. ASSUME NEW j \in active, Refuse(j) PROVE CallsMove
  BY <1>6 DEF Refuse
<1>7. ASSUME NEW j \in active, Load(j) PROVE CallsMove
  BY <1>7 DEF Load
<1>8. ASSUME NEW j \in active, Skip(j) PROVE CallsMove
  BY <1>8 DEF Skip
<1>9. ASSUME NEW j \in active, Analyse(j) PROVE CallsMove
  BY <1>9 DEF Analyse
<1>10. ASSUME NEW j \in active, Update(j) PROVE CallsMove
  BY <1>10 DEF Update
<1>11. ASSUME NEW j \in active, Send(j) PROVE CallsMove
  BY <1>11 DEF Send
<1>12. ASSUME NEW j \in active, Conclude(j) PROVE CallsMove
  BY <1>12 DEF Conclude
<1>13. ASSUME NEW j \in active, Open(j) PROVE CallsMove
  BY <1>13 DEF Open
<1>14. ASSUME NEW j \in delayed, Again(j) PROVE CallsMove
  BY <1>14 DEF Again
<1>15. ASSUME NEW d \in createdLater, DispatchAgain(d) PROVE CallsMove
  BY <1>15 DEF DispatchAgain
<1>16. CASE ReplyGate
  <2>1. IngestMove /\ ScanMove
    BY <1>16 DEF ReplyGate, SkipReply, NotIngesting, IngestMove, ScanMove, TypeOK, CallTypes, Ingesting
  <2> QED BY <1>16, <2>1, SkipStill DEF ReplyGate
<1>17. CASE ReplyScan
  <2>1. IngestMove /\ ScanMove
    BY <1>17 DEF ReplyScan, SkipReply, NotIngesting, IngestMove, ScanMove, TypeOK, CallTypes, Ingesting
  <2> QED BY <1>17, <2>1, SkipStill DEF ReplyScan
<1>18. CASE ReplyAdd
  BY <1>18 DEF ReplyAdd, NotIngesting, IngestMove, ScanMove
<1>19. CASE Crash
  <2>1. IngestMove /\ ScanMove
    BY <1>19 DEF Crash, SkipReply, NotIngesting, IngestMove, ScanMove, TypeOK, CallTypes, Ingesting
  <2> QED BY <1>19, <2>1, SkipStill DEF Crash
<1>20. CASE ReplyFails
  <2>1. IngestMove /\ ScanMove
    BY <1>20 DEF ReplyFails, SkipReply, NotIngesting, IngestMove, ScanMove, TypeOK, CallTypes, Ingesting
  <2> QED BY <1>20, <2>1, SkipStill DEF ReplyFails
<1>21. ASSUME NEW j \in active, Fail(j) PROVE CallsMove
  BY <1>21 DEF Fail
<1>22. ASSUME NEW j \in active, FailUnrecorded(j) PROVE CallsMove
  BY <1>22 DEF FailUnrecorded
<1>23. ASSUME NEW d \in dispatching, DispatchFails(d) PROVE CallsMove
  BY <1>23 DEF DispatchFails
<1>24. ASSUME NEW o \in Operators, ClickFails(o) PROVE CallsMove
  BY <1>24 DEF ClickFails
<1>25. ASSUME NEW o \in Operators, ClickRead(o) PROVE CallsMove
  <2>1. PICK n \in Nat : n = spent.clicks + 1
    BY DEF TypeOK, SpentTypes
  <2>2. PICK r \in Requested : r = [pc |-> "read", n |-> n, prior |-> analysisStatus]
    BY DEF Requested, TypeOK, TicketTypes
  <2>3. AskMove
    BY <1>25, <2>1, <2>2, SpendType DEF ClickRead, Step, AskMove, TypeOK, CallTypes
  <2> QED BY <1>25, <2>1, <2>2, <2>3 DEF ClickRead
<1>26. ASSUME NEW o \in Operators, ClickMark(o) PROVE CallsMove
  <2>1. PICK r \in Requested : r = [request[o] EXCEPT !.pc = "marked"]
    BY RequestTypes
  <2>2. r.pc = "marked" /\ r.n = request[o].n
    BY <2>1 DEF TypeOK, CallTypes, Requested
  <2> QED BY <1>26, <2>1, <2>2 DEF ClickMark, Chatting, Asking
<1>27. ASSUME NEW o \in Operators, ClickAdd(o) PROVE CallsMove
  <2>1. PICK r \in Requested : r = [request[o] EXCEPT !.pc = "added"]
    BY RequestTypes
  <2>2. r.pc = "added" /\ r.n = request[o].n
    BY <2>1 DEF TypeOK, CallTypes, Requested
  <2> QED BY <1>27, <2>1, <2>2 DEF ClickAdd, Chatting, Asking
<1>28. ASSUME NEW o \in Operators, ClickEnd(o) PROVE CallsMove
  BY <1>28 DEF ClickEnd
<1>29. ASSUME NEW o \in Operators, ChatPost(o) PROVE CallsMove
  <2>1. spent'.chats # 0 /\ Len(thread) + 1 \in Nat
    <3>1. spent'.chats = spent.chats + 1
      BY <1>29, SpendType DEF ChatPost
    <3> QED BY <3>1 DEF TypeOK, SpentTypes, TicketTypes
  <2>2. PICK r \in Requested : r = ChatRequest(Len(thread) + 1)
    BY <2>1, RequestTypes
  <2>3. RequestMove /\ AskMove
    BY <1>29, <2>1, <2>2 DEF ChatPost, ChatRequest
  <2>4. ThreadMove
    BY <1>29 DEF ChatPost, ThreadMove
  <2> QED BY <1>29, <2>3, <2>4 DEF ChatPost
<1>30. ASSUME NEW o \in Operators, ChatPick(o) PROVE CallsMove
  <2>1. spent'.chats # 0 /\ DOMAIN thread \subseteq Nat
    <3>1. spent'.chats = spent.chats + 1
      BY <1>30, SpendType DEF ChatPick
    <3> QED BY <3>1 DEF TypeOK, SpentTypes, TicketTypes
  <2>2. PICK i \in DOMAIN thread : Step(o, ChatRequest(i))
    BY <1>30 DEF ChatPick
  <2>3. RequestMove /\ AskMove
    BY <2>1, <2>2, RequestTypes DEF ChatRequest
  <2> QED BY <1>30, <2>3 DEF ChatPick
<1>31. ASSUME NEW o \in Operators, ChatAdd(o) PROVE CallsMove
  <2>1. PICK r \in Requested : r = [request[o] EXCEPT !.pc = "chatAdded"]
    BY RequestTypes
  <2>2. r.pc = "chatAdded" /\ r.n = request[o].n
    BY <2>1 DEF TypeOK, CallTypes, Requested
  <2> QED BY <1>31, <2>1, <2>2 DEF ChatAdd, Chatting, Asking
<1>32. ASSUME NEW o \in Operators, ChatMark(o) PROVE CallsMove
  BY <1>32 DEF ChatMark
<1>33. CASE ReplyArrives
  <2>1. ThreadMove /\ IngestMove /\ ScanMove
    BY <1>33 DEF ReplyArrives, ThreadMove, IngestMove, ScanMove
  <2> QED BY <1>33, <2>1 DEF ReplyArrives
<1>34. CASE Patch
  BY <1>34 DEF Patch
<1>35. CASE UNCHANGED vars
  BY <1>35 DEF vars
<1>36. ASSUME NEW j \in active, Process(j) PROVE CallsMove
  BY <1>5, <1>6, <1>7, <1>8, <1>9, <1>10, <1>11, <1>12, <1>13, <1>36 DEF Process
<1>37. CASE Trouble
  BY <1>19, <1>20, <1>21, <1>22, <1>23, <1>24, <1>37 DEF Trouble
<1>38. ASSUME NEW o \in Operators, Handle(o) \/ Request(o) PROVE CallsMove
  BY <1>25, <1>26, <1>27, <1>28, <1>29, <1>30, <1>31, <1>32, <1>38 DEF Handle, Request
<1>39. CASE Dispatch \/ Analysis \/ BackOff \/ Ingest
  BY <1>1, <1>2, <1>3, <1>4, <1>14, <1>15, <1>16, <1>17, <1>18, <1>36, <1>39
     DEF Dispatch, Analysis, BackOff, Ingest
<1> QED
  BY <1>33, <1>34, <1>35, <1>37, <1>38, <1>39 DEF Next

\* A worker takes a job only when it has none.
LEMMA AloneStep == Basics /\ Moves => Alone'
PROOF
<1> SUFFICES ASSUME Basics, Moves PROVE Alone'
  OBVIOUS
<1> USE DEF Basics, Moves, TypeOK, Alone
<1>1. (active = {} <=> pc = "idle")' /\ (\A a, b \in active : a = b)'
  BY DEF QueueMove, Rests, Adds, Takes, Ends, Retries, Returns, Restores
<1>2. (dispatching = {} <=> dispatchPc = "idle")' /\ (\A a, b \in dispatching : a = b)'
  BY DEF OuterMove, OuterRests, OuterAdds, OuterTakes, OuterEnds, OuterRetries, OuterReturns, OuterRestores
<1> QED BY <1>1, <1>2

\* Replies stay about mails of the thread, which only grows.
LEMMA CallsStep == Basics /\ TypeOK' /\ Moves /\ CallsMove => CallsKnown'
PROOF
<1> SUFFICES ASSUME Basics, TypeOK', Moves, CallsMove PROVE CallsKnown'
  OBVIOUS
<1> USE DEF Basics, CallsMove, CallsKnown
<1>1. thread \in Seq({"mail", "chat"})
  BY DEF TypeOK, TicketTypes
<1>2. DOMAIN thread \subseteq DOMAIN thread' /\ \A i \in DOMAIN thread : thread'[i] = thread[i]
  BY <1>1 DEF ThreadMove
<1>3. (ingest.pc # "idle" => ingest.reply \in DOMAIN thread /\ thread[ingest.reply] = "mail")'
  BY <1>1, <1>2 DEF IngestMove
<1>4. (\A s \in skipped : s.reply \in DOMAIN thread)'
  BY <1>2 DEF SkippedMove
<1>5. (\A o \in Operators : Chatting(o) => spent.chats # 0)'
  <2>1. spent.chats \in Nat /\ spent'.chats \in Nat /\ spent.chats <= spent'.chats
    BY Accounts DEF TypeOK, SpentTypes, Moves, SpentGrows
  <2> QED BY <2>1 DEF RequestMove, Chatting
<1> QED BY <1>3, <1>4, <1>5 DEF Chatting

\* The basics are kept, and a step makes one of the moves.
LEMMA BasicsStep == Basics /\ [Next]_vars => Basics' /\ Moves /\ CallsMove
PROOF
  BY TypesStep, StepMoves, StepCalls, AloneStep, CallsStep DEF Basics

-----------------------------------------------------------------------------
(* Attempts *)

\* What is put before a sequence, or taken from it, moves the others by one.
LEMMA PutFirst ==
    ASSUME NEW s \in Seq(Job), NEW k \in Job
    PROVE  /\ Len(<<k>> \o s) = Len(s) + 1 /\ (<<k>> \o s)[1] = k
           /\ \A i \in DOMAIN (<<k>> \o s) :
                 i = 1 \/ (i - 1 \in DOMAIN s /\ (<<k>> \o s)[i] = s[i - 1])
PROOF
<1>1. Len(<<k>>) = 1 /\ <<k>>[1] = k /\ <<k>> \in Seq(Job)
  OBVIOUS
<1>2. Len(<<k>> \o s) = Len(s) + 1
  BY <1>1
<1>3. \A i \in 1 .. Len(s) + 1 : (<<k>> \o s)[i] = IF i <= 1 THEN <<k>>[i] ELSE s[i - 1]
  BY <1>1
<1>4. <<k>> \o s \in Seq(Job)
  BY <1>1
<1>5. DOMAIN (<<k>> \o s) = 1 .. Len(s) + 1 /\ DOMAIN s = 1 .. Len(s) /\ Len(s) \in Nat
  BY <1>2, <1>4
<1> QED BY <1>1, <1>2, <1>3, <1>5

\* A job that is tried again or put back is otherwise the same.
LEMMA SameJob ==
    ASSUME NEW j \in Job
    PROVE  /\ \E k \in Job : /\ k = [j EXCEPT !.attempt = @ + 1] /\ Id(k) = Id(j)
                             /\ k.kind = j.kind /\ k.n = j.n /\ k.attempt = j.attempt + 1 /\ k.stalls = j.stalls
           /\ \E k \in Job : /\ k = [j EXCEPT !.stalls = 1] /\ Id(k) = Id(j)
                             /\ k.kind = j.kind /\ k.n = j.n /\ k.attempt = j.attempt /\ k.stalls = 1
PROOF
<1>1. PICK n \in Nat : n = j.attempt + 1
  BY DEF Job
<1>2. PICK k \in Job : k = [j EXCEPT !.attempt = n]
  BY <1>1 DEF Job
<1>3. Id(k) = Id(j) /\ k.kind = j.kind /\ k.n = j.n /\ k.attempt = n /\ k.stalls = j.stalls
  BY <1>2 DEF Job, Id
<1>4. PICK m \in Job : m = [j EXCEPT !.stalls = 1]
  BY DEF Job
<1>5. Id(m) = Id(j) /\ m.kind = j.kind /\ m.n = j.n /\ m.attempt = j.attempt /\ m.stalls = 1
  BY <1>4 DEF Job, Id
<1> QED BY <1>1, <1>2, <1>3, <1>4, <1>5

\* No job has been tried again, or has stalled, more often than jobs have thrown
\* or the process has crashed.
Tried(j) == j.attempt <= spent.errors /\ j.stalls <= spent.crashes
QueueTried ==
    /\ \A i \in DOMAIN wait : Tried(wait[i])
    /\ \A j \in delayed \cup active : Tried(j)
OuterTried ==
    /\ \A i \in DOMAIN created : Tried(created[i])
    /\ \A j \in createdLater \cup dispatching : Tried(j)

\* Each attempt after the first has cost an error, and each stall a crash.
LEMMA TriedStep == Basics /\ QueueTried /\ OuterTried /\ [Next]_vars => QueueTried' /\ OuterTried'
PROOF
<1> SUFFICES ASSUME Basics, QueueTried, OuterTried, [Next]_vars PROVE QueueTried' /\ OuterTried'
  OBVIOUS
<1>1. Basics' /\ Moves
  BY BasicsStep
<1>2. /\ spent.errors \in Nat /\ spent'.errors \in Nat /\ spent.errors <= spent'.errors
      /\ spent.crashes \in Nat /\ spent'.crashes \in Nat /\ spent.crashes <= spent'.crashes
  BY <1>1, Accounts DEF Basics, TypeOK, SpentTypes, Moves, SpentGrows
<1>3. wait \in Seq(Job) /\ delayed \subseteq Job /\ active \subseteq Job
  BY DEF Basics, TypeOK, AnalysisTypes
<1>4. created \in Seq(Job) /\ createdLater \subseteq Job /\ dispatching \subseteq Job
  BY DEF Basics, TypeOK, DispatchTypes
<1>5. \A j \in Job : j.attempt \in Nat /\ j.stalls \in {0, 1}
  BY DEF Job
<1> DEFINE StillTried(j) == j.attempt <= spent'.errors /\ j.stalls <= spent'.crashes
<1>6. QueueTried'
  <2> SUFFICES (\A i \in DOMAIN wait' : StillTried(wait'[i])) /\ \A j \in delayed' \cup active' : StillTried(j)
    BY DEF QueueTried, Tried
  <2>1. /\ \A i \in DOMAIN wait : StillTried(wait[i])
        /\ \A j \in delayed \cup active : StillTried(j)
    <3>1. \A i \in DOMAIN wait : wait[i] \in Job
      BY <1>3
    <3> QED BY <1>2, <1>3, <1>5, <3>1 DEF QueueTried, Tried
  <2>2. CASE Rests \/ Takes
    BY <1>3, <2>1, <2>2 DEF Rests, Takes
  <2>3. ASSUME NEW j \in Job, Adds(j)
        PROVE  (\A i \in DOMAIN wait' : StillTried(wait'[i])) /\ \A k \in delayed' \cup active' : StillTried(k)
    BY <1>2, <1>3, <2>1, <2>3 DEF Adds
  <2>4. ASSUME NEW j \in active, Ends(j)
        PROVE  (\A i \in DOMAIN wait' : StillTried(wait'[i])) /\ \A k \in delayed' \cup active' : StillTried(k)
    BY <2>1, <2>4 DEF Ends
  <2>5. ASSUME NEW j \in active, Retries(j)
        PROVE  (\A i \in DOMAIN wait' : StillTried(wait'[i])) /\ \A k \in delayed' \cup active' : StillTried(k)
    <3>1. PICK k \in Job : k = [j EXCEPT !.attempt = @ + 1] /\ k.attempt = j.attempt + 1 /\ k.stalls = j.stalls
      BY <1>3, SameJob
    <3>2. wait' = wait /\ delayed' = delayed \cup {k} /\ active' = {} /\ spent'.errors = spent.errors + 1
      BY <2>5, <3>1 DEF Retries
    <3>3. StillTried(k)
      BY <1>2, <1>3, <1>5, <3>1, <3>2 DEF QueueTried, Tried
    <3> QED BY <2>1, <3>2, <3>3
  <2>6. ASSUME NEW j \in active, Restores(j)
        PROVE  (\A i \in DOMAIN wait' : StillTried(wait'[i])) /\ \A k \in delayed' \cup active' : StillTried(k)
    <3>1. PICK k \in Job : k = [j EXCEPT !.stalls = 1] /\ k.attempt = j.attempt /\ k.stalls = 1
      BY <1>3, SameJob
    <3>2. wait' = <<k>> \o wait /\ delayed' = delayed /\ active' = {} /\ spent'.crashes = spent.crashes + 1
      BY <2>6, <3>1 DEF Restores
    <3>3. StillTried(k)
      BY <1>2, <1>3, <1>5, <3>1, <3>2 DEF QueueTried, Tried
    <3> QED BY <1>3, <2>1, <3>2, <3>3, PutFirst
  <2>7. ASSUME NEW j \in delayed, Returns(j)
        PROVE  (\A i \in DOMAIN wait' : StillTried(wait'[i])) /\ \A k \in delayed' \cup active' : StillTried(k)
    BY <1>3, <2>1, <2>7 DEF Returns
  <2> QED BY <1>1, <2>2, <2>3, <2>4, <2>5, <2>6, <2>7 DEF Moves, QueueMove
<1>7. OuterTried'
  <2> SUFFICES (\A i \in DOMAIN created' : StillTried(created'[i])) /\ \A j \in createdLater' \cup dispatching' : StillTried(j)
    BY DEF OuterTried, Tried
  <2>1. /\ \A i \in DOMAIN created : StillTried(created[i])
        /\ \A j \in createdLater \cup dispatching : StillTried(j)
    <3>1. \A i \in DOMAIN created : created[i] \in Job
      BY <1>4
    <3> QED BY <1>2, <1>4, <1>5, <3>1 DEF OuterTried, Tried
  <2>2. CASE OuterRests \/ OuterTakes \/ OuterEnds
    BY <1>4, <2>1, <2>2 DEF OuterRests, OuterTakes, OuterEnds
  <2>3. ASSUME NEW o \in Operators, OuterAdds(o)
        PROVE  (\A i \in DOMAIN created' : StillTried(created'[i])) /\ \A k \in createdLater' \cup dispatching' : StillTried(k)
    <3>1. PICK j \in Job : j = NewJob("click", request[o].n, 0)
      BY RequestTypes, JobTypes DEF Kinds, Basics
    <3>2. StillTried(j)
      BY <1>2, <3>1 DEF NewJob
    <3> QED BY <1>4, <2>1, <2>3, <3>1, <3>2 DEF OuterAdds
  <2>4. ASSUME NEW d \in createdLater, OuterReturns(d)
        PROVE  (\A i \in DOMAIN created' : StillTried(created'[i])) /\ \A k \in createdLater' \cup dispatching' : StillTried(k)
    BY <1>4, <2>1, <2>4 DEF OuterReturns
  <2>5. ASSUME NEW d \in dispatching, OuterRetries(d)
        PROVE  (\A i \in DOMAIN created' : StillTried(created'[i])) /\ \A k \in createdLater' \cup dispatching' : StillTried(k)
    <3>1. PICK k \in Job : k = [d EXCEPT !.attempt = @ + 1] /\ k.attempt = d.attempt + 1 /\ k.stalls = d.stalls
      BY <1>4, SameJob
    <3>2. created' = created /\ createdLater' = createdLater \cup {k} /\ dispatching' = {} /\ spent'.errors = spent.errors + 1
      BY <2>5, <3>1 DEF OuterRetries
    <3>3. StillTried(k)
      BY <1>2, <1>4, <1>5, <3>1, <3>2 DEF OuterTried, Tried
    <3> QED BY <2>1, <3>2, <3>3
  <2>6. ASSUME NEW d \in dispatching, OuterRestores(d)
        PROVE  (\A i \in DOMAIN created' : StillTried(created'[i])) /\ \A k \in createdLater' \cup dispatching' : StillTried(k)
    <3>1. PICK k \in Job : k = [d EXCEPT !.stalls = 1] /\ k.attempt = d.attempt /\ k.stalls = 1
      BY <1>4, SameJob
    <3>2. created' = <<k>> \o created /\ createdLater' = createdLater /\ dispatching' = {} /\ spent'.crashes = spent.crashes + 1
      BY <2>6, <3>1 DEF OuterRestores
    <3>3. StillTried(k)
      BY <1>2, <1>4, <1>5, <3>1, <3>2 DEF OuterTried, Tried
    <3> QED BY <1>4, <2>1, <3>2, <3>3, PutFirst
  <2> QED BY <1>1, <2>2, <2>3, <2>4, <2>5, <2>6 DEF Moves, OuterMove
<1> QED BY <1>6, <1>7

-----------------------------------------------------------------------------
(* Ids *)

\* The jobs of a queue that one is added to, put in front of or taken from.
LEMMA ElementsOf ==
    ASSUME NEW s \in Seq(Job), NEW k \in Job
    PROVE  /\ Elements(s) \subseteq Job
           /\ Elements(Append(s, k)) = Elements(s) \cup {k}
           /\ Elements(<<k>> \o s) = Elements(s) \cup {k}
           /\ s # <<>> => Elements(s) = Elements(Tail(s)) \cup {Head(s)}
PROOF
<1>1. Elements(s) \subseteq Job
  BY DEF Elements
<1>2. Elements(Append(s, k)) = Elements(s) \cup {k}
  <2>1. /\ DOMAIN Append(s, k) = DOMAIN s \cup {Len(s) + 1}
        /\ \A i \in DOMAIN s : Append(s, k)[i] = s[i]
        /\ Append(s, k)[Len(s) + 1] = k
    OBVIOUS
  <2> QED BY <2>1 DEF Elements
<1>3. Elements(<<k>> \o s) = Elements(s) \cup {k}
  <2>1. /\ DOMAIN (<<k>> \o s) = 1 .. Len(s) + 1
        /\ \A i \in 1 .. Len(s) : i + 1 \in 1 .. Len(s) + 1 /\ (<<k>> \o s)[i + 1] = s[i]
    <3>1. \A i \in 1 .. Len(s) + 1 : (<<k>> \o s)[i] = IF i <= 1 THEN <<k>>[i] ELSE s[i - 1]
      OBVIOUS
    <3> QED BY <3>1, PutFirst
  <2>2. PICK t : t = <<k>> \o s
    OBVIOUS
  <2>3. /\ DOMAIN t = 1 .. Len(s) + 1 /\ t[1] = k /\ Len(s) \in Nat /\ DOMAIN s = 1 .. Len(s)
        /\ \A i \in DOMAIN s : i + 1 \in DOMAIN t /\ t[i + 1] = s[i]
        /\ \A i \in DOMAIN t : i = 1 \/ (i - 1 \in DOMAIN s /\ t[i] = s[i - 1])
    BY <2>1, <2>2, PutFirst
  <2>4. Elements(t) \subseteq Elements(s) \cup {k}
    BY <2>3 DEF Elements
  <2>5. k \in Elements(t)
    BY <2>3 DEF Elements
  <2>6. Elements(s) \subseteq Elements(t)
    BY <2>3 DEF Elements
  <2> QED BY <2>2, <2>4, <2>5, <2>6
<1>4. ASSUME s # <<>> PROVE Elements(s) = Elements(Tail(s)) \cup {Head(s)}
  <2>1. /\ DOMAIN Tail(s) = 1 .. Len(s) - 1 /\ Len(s) \in Nat \ {0}
        /\ \A i \in 1 .. Len(s) - 1 : Tail(s)[i] = s[i + 1]
        /\ Head(s) = s[1]
    BY <1>4
  <2>2. \A i \in DOMAIN s : i = 1 \/ (i - 1 \in 1 .. Len(s) - 1 /\ s[i] = Tail(s)[i - 1])
    BY <2>1
  <2>3. PICK t : t = Tail(s)
    OBVIOUS
  <2>4. /\ DOMAIN t = 1 .. Len(s) - 1 /\ DOMAIN s = 1 .. Len(s) /\ 1 \in DOMAIN s
        /\ \A i \in DOMAIN t : i + 1 \in DOMAIN s /\ t[i] = s[i + 1]
        /\ \A i \in DOMAIN s : i = 1 \/ (i - 1 \in DOMAIN t /\ s[i] = t[i - 1])
    BY <2>1, <2>2, <2>3
  <2>5. Elements(s) \subseteq Elements(t) \cup {s[1]}
    BY <2>4 DEF Elements
  <2>6. Elements(t) \subseteq Elements(s)
    BY <2>4 DEF Elements
  <2>7. s[1] \in Elements(s)
    BY <2>4 DEF Elements
  <2> QED BY <2>1, <2>3, <2>5, <2>6, <2>7
<1> QED BY <1>1, <1>2, <1>3, <1>4

\* The jobs are the initial one and those of clicks that there were, each once,
\* and clicks that have yet to add their jobs have numbers of their own.
Outer(j) == (j.kind = "initial" /\ j.n = 0) \/ (j.kind = "click" /\ j.n <= spent.clicks)
Clicked(n) == <<"click", n>>
OuterSet == Elements(created) \cup createdLater \cup dispatching
OuterKinds == \A j \in OuterSet : Outer(j)
OuterIds ==
    /\ \A i, k \in DOMAIN created : Id(created[i]) = Id(created[k]) => i = k
    /\ \A i \in DOMAIN created, j \in createdLater \cup dispatching : Id(created[i]) # Id(j)
    /\ \A j, k \in createdLater : Id(j) = Id(k) => j = k
    /\ \A j \in createdLater, k \in dispatching : Id(j) # Id(k)
RequestsNew ==
    \A o \in Operators : Asking(o) =>
        /\ request[o].n <= spent.clicks
        /\ \A q \in Operators : Asking(q) /\ request[q].n = request[o].n => q = o
        /\ \A j \in OuterSet : Id(j) # Clicked(request[o].n)
OuterInv == OuterKinds /\ OuterIds /\ RequestsNew

\* The ids of 'ticket-created' stay distinct.
LEMMA OuterIdsStep == Basics /\ OuterIds /\ RequestsNew /\ Moves => OuterIds'
PROOF
<1> SUFFICES ASSUME Basics, OuterIds, RequestsNew, Moves PROVE OuterIds'
  OBVIOUS
<1>1. created \in Seq(Job) /\ createdLater \subseteq Job /\ dispatching \subseteq Job
      /\ \A a, b \in dispatching : a = b
  BY DEF Basics, TypeOK, DispatchTypes, Alone
<1>2. CASE OuterRests \/ OuterEnds
  BY <1>2 DEF OuterRests, OuterEnds, OuterIds
<1>3. CASE OuterTakes
  BY <1>1, <1>3 DEF OuterTakes, OuterIds, Basics, Alone
<1>4. ASSUME NEW o \in Operators, OuterAdds(o) PROVE OuterIds'
  <2>1. PICK j \in Job : j = NewJob("click", request[o].n, 0)
    BY RequestTypes, JobTypes DEF Kinds, Basics
  <2>2. Id(j) = Clicked(request[o].n) /\ Asking(o)
    BY <1>4, <2>1 DEF NewJob, Id, Clicked, OuterAdds, Asking
  <2>3. created' = Append(created, j) /\ UNCHANGED <<createdLater, dispatching>>
    BY <1>4, <2>1 DEF OuterAdds
  <2>4. /\ \A i \in DOMAIN created : Id(created[i]) # Id(j)
        /\ \A k \in createdLater \cup dispatching : Id(k) # Id(j)
    BY <2>2 DEF RequestsNew, OuterSet, Elements
  <2> QED BY <1>1, <2>3, <2>4 DEF OuterIds
<1>5. ASSUME NEW d \in createdLater, OuterReturns(d) PROVE OuterIds'
  BY <1>1, <1>5 DEF OuterReturns, OuterIds
<1>6. ASSUME NEW d \in dispatching, OuterRetries(d) PROVE OuterIds'
  <2>1. PICK k \in Job : k = [d EXCEPT !.attempt = @ + 1] /\ Id(k) = Id(d)
    BY <1>1, SameJob
  <2>2. created' = created /\ createdLater' = createdLater \cup {k} /\ dispatching' = {}
    BY <1>6, <2>1 DEF OuterRetries
  <2> QED BY <1>1, <2>1, <2>2 DEF OuterIds
<1>7. ASSUME NEW d \in dispatching, OuterRestores(d) PROVE OuterIds'
  <2>1. PICK k \in Job : k = [d EXCEPT !.stalls = 1] /\ Id(k) = Id(d)
    BY <1>1, SameJob
  <2>2. created' = <<k>> \o created /\ createdLater' = createdLater /\ dispatching' = {}
    BY <1>7, <2>1 DEF OuterRestores
  <2>3. PICK c : c = created'
    OBVIOUS
  <2>4. c[1] = k /\ \A i \in DOMAIN c : i \in Int /\ (i = 1 \/ (i - 1 \in DOMAIN created /\ c[i] = created[i - 1]))
    BY <1>1, <2>2, <2>3, PutFirst
  <2>5. \A i \in DOMAIN created : Id(created[i]) # Id(k)
    BY <2>1 DEF OuterIds
  <2>6. ASSUME NEW i \in DOMAIN c, NEW m \in DOMAIN c, Id(c[i]) = Id(c[m]) PROVE i = m
    <3>1. CASE i = 1 \/ m = 1
      BY <2>4, <2>5, <2>6, <3>1
    <3>2. CASE i # 1 /\ m # 1
      <4>1. i - 1 = m - 1
        BY <2>4, <2>6, <3>2 DEF OuterIds
      <4> QED BY <2>4, <4>1
    <3> QED BY <3>1, <3>2
  <2>7. \A i \in DOMAIN c, j \in createdLater : Id(c[i]) # Id(j)
    BY <2>1, <2>4 DEF OuterIds
  <2> QED BY <2>2, <2>3, <2>6, <2>7 DEF OuterIds
<1> QED BY <1>2, <1>3, <1>4, <1>5, <1>6, <1>7 DEF Moves, OuterMove

Same(k, j) == Id(k) = Id(j) /\ k.kind = j.kind /\ k.n = j.n

\* A job of this queue was there before, or is that of a click that is added.
LEMMA OuterFrom ==
    ASSUME Basics, Moves, NEW k \in OuterSet'
    PROVE  \/ \E j \in OuterSet : Same(k, j)
           \/ \E o \in Operators : OuterAdds(o) /\ k = NewJob("click", request[o].n, 0)
PROOF
<1>1. created \in Seq(Job) /\ createdLater \subseteq Job /\ dispatching \subseteq Job
  BY DEF Basics, TypeOK, DispatchTypes
<1>2. \A j \in Job : Same(j, j)
  BY DEF Same
<1>3. OuterSet \subseteq Job
  BY <1>1, ElementsOf, JobTypes DEF OuterSet, Kinds
<1>4. k \in Elements(created') \cup createdLater' \cup dispatching'
  BY DEF OuterSet
<1>5. CASE OuterRests \/ OuterEnds
  BY <1>2, <1>3, <1>4, <1>5 DEF OuterRests, OuterEnds, OuterSet
<1>6. CASE OuterTakes
  <2>1. Elements(created) = Elements(created') \cup dispatching'
    BY <1>1, <1>6, ElementsOf, JobTypes DEF OuterTakes, Kinds
  <2> QED BY <1>2, <1>3, <1>4, <1>6, <2>1 DEF OuterTakes, OuterSet
<1>7. ASSUME NEW o \in Operators, OuterAdds(o)
      PROVE  k \in OuterSet \/ k = NewJob("click", request[o].n, 0)
  <2>1. PICK j \in Job : j = NewJob("click", request[o].n, 0)
    BY RequestTypes, JobTypes DEF Kinds, Basics
  <2>2. Elements(created') = Elements(created) \cup {j}
    BY <1>1, <1>7, <2>1, ElementsOf DEF OuterAdds
  <2> QED BY <1>4, <1>7, <2>1, <2>2 DEF OuterAdds, OuterSet
<1>8. ASSUME NEW d \in createdLater, OuterReturns(d) PROVE k \in OuterSet
  <2>1. Elements(created') = Elements(created) \cup {d}
    BY <1>1, <1>8, ElementsOf DEF OuterReturns
  <2> QED BY <1>4, <1>8, <2>1 DEF OuterReturns, OuterSet
<1>9. ASSUME NEW d \in dispatching, OuterRetries(d) PROVE \E j \in OuterSet : Same(k, j)
  <2>1. PICK m \in Job : m = [d EXCEPT !.attempt = @ + 1] /\ Same(m, d)
    BY <1>1, SameJob DEF Same
  <2> QED BY <1>2, <1>3, <1>4, <1>9, <2>1 DEF OuterRetries, OuterSet
<1>10. ASSUME NEW d \in dispatching, OuterRestores(d) PROVE \E j \in OuterSet : Same(k, j)
  <2>1. PICK m \in Job : m = [d EXCEPT !.stalls = 1] /\ Same(m, d)
    BY <1>1, SameJob DEF Same
  <2>2. Elements(created') = Elements(created) \cup {m}
    BY <1>1, <1>10, <2>1, ElementsOf DEF OuterRestores
  <2> QED BY <1>2, <1>3, <1>4, <1>10, <2>1, <2>2 DEF OuterRestores, OuterSet
<1> QED BY <1>2, <1>3, <1>5, <1>6, <1>7, <1>8, <1>9, <1>10 DEF Moves, OuterMove

\* A click has a number of its own from its first step on.
LEMMA OuterStep == Basics /\ OuterInv /\ [Next]_vars => OuterInv'
PROOF
<1> SUFFICES ASSUME Basics, OuterInv, [Next]_vars PROVE OuterInv'
  OBVIOUS
<1> USE DEF OuterInv
<1>1. Basics' /\ Moves /\ CallsMove
  BY BasicsStep
<1>2. spent.clicks \in Nat /\ spent'.clicks \in Nat /\ spent.clicks <= spent'.clicks
  BY <1>1, Accounts DEF Basics, TypeOK, SpentTypes, Moves, SpentGrows
<1>3. \A o \in Operators : request[o].n \in Nat /\ request'[o].n \in Nat
  BY <1>1 DEF Basics, TypeOK, CallTypes, Requested
<1>4. OuterSet \subseteq Job
  BY ElementsOf, JobTypes DEF OuterSet, Kinds, Basics, TypeOK, DispatchTypes
<1>5. \A n \in Nat : LET j == NewJob("click", n, 0) IN Id(j) = Clicked(n) /\ j.kind = "click" /\ j.n = n
  BY DEF NewJob, Id, Clicked
<1>6. \A n \in Nat, m \in Nat : Clicked(n) = Clicked(m) => n = m
  BY DEF Clicked
<1>7. OuterKinds'
  <2> SUFFICES ASSUME NEW k \in OuterSet' PROVE Outer(k)'
    BY DEF OuterKinds
  <2>1. ASSUME NEW j \in OuterSet, Same(k, j) PROVE Outer(k)'
    BY <1>2, <1>4, <2>1 DEF OuterKinds, Outer, Same, Job
  <2>2. ASSUME NEW o \in Operators, OuterAdds(o), k = NewJob("click", request[o].n, 0) PROVE Outer(k)'
    BY <1>2, <1>3, <1>5, <2>2 DEF OuterAdds, RequestsNew, Asking, Outer
  <2> QED BY <1>1, <2>1, <2>2, OuterFrom
<1>8. RequestsNew'
  <2>1. CASE \A o \in Operators : Asking(o)' => Asking(o) /\ request'[o].n = request[o].n
    <3> SUFFICES ASSUME NEW o \in Operators, Asking(o)'
                 PROVE  /\ request'[o].n <= spent'.clicks
                        /\ \A q \in Operators : Asking(q)' /\ request'[q].n = request'[o].n => q = o
                        /\ \A j \in OuterSet' : Id(j) # Clicked(request'[o].n)
      BY DEF RequestsNew
    <3>1. Asking(o) /\ request'[o].n = request[o].n
      BY <2>1
    <3>2. request'[o].n <= spent'.clicks
      BY <1>2, <1>3, <3>1 DEF RequestsNew
    <3>3. \A q \in Operators : Asking(q)' /\ request'[q].n = request'[o].n => q = o
      BY <2>1, <3>1 DEF RequestsNew
    <3>4. ASSUME NEW k \in OuterSet' PROVE Id(k) # Clicked(request[o].n)
      <4>1. ASSUME NEW j \in OuterSet, Same(k, j) PROVE Id(k) # Clicked(request[o].n)
        BY <3>1, <4>1 DEF RequestsNew, Same
      <4>2. ASSUME NEW q \in Operators, OuterAdds(q), k = NewJob("click", request[q].n, 0)
            PROVE  Id(k) # Clicked(request[o].n)
        <5>1. Asking(q) /\ ~Asking(q)'
          BY <4>2 DEF OuterAdds, Asking
        <5>2. request[q].n # request[o].n
          BY <3>1, <5>1 DEF RequestsNew
        <5> QED BY <1>3, <1>5, <1>6, <4>2, <5>2
      <4> QED BY <1>1, <4>1, <4>2, OuterFrom
    <3> QED BY <3>1, <3>2, <3>3, <3>4
  <2>2. ASSUME NEW o \in Operators, request'[o].n = spent.clicks + 1, spent'.clicks = spent.clicks + 1,
               \A q \in Operators \ {o} : request'[q] = request[q], UNCHANGED dispatchVars
        PROVE  RequestsNew'
    <3>1. OuterSet' = OuterSet
      BY <2>2 DEF OuterSet, dispatchVars
    <3>2. \A j \in OuterSet : Id(j) # Clicked(spent.clicks + 1)
      BY <1>2, <1>4 DEF OuterKinds, Outer, Id, Clicked, Job
    <3>3. \A q \in Operators : Asking(q)' => q = o \/ (Asking(q) /\ request'[q].n = request[q].n)
      BY <2>2 DEF Asking
    <3> QED BY <1>2, <1>3, <2>2, <3>1, <3>2, <3>3 DEF RequestsNew
  <2> QED BY <1>1, <2>1, <2>2 DEF CallsMove, AskMove
<1> QED BY <1>1, <1>7, <1>8, OuterIdsStep

-----------------------------------------------------------------------------
(* One job of a reply *)

\* At most one job in the queue is a reply's, and none while a reply adds one.
ReplyAlone ==
    /\ \A i, k \in DOMAIN wait : IsReply(wait[i]) /\ IsReply(wait[k]) => i = k
    /\ \A i \in DOMAIN wait, j \in delayed \cup active : ~(IsReply(wait[i]) /\ IsReply(j))
    /\ \A a, b \in delayed : IsReply(a) /\ IsReply(b) => a = b
    /\ \A a \in delayed, b \in active : ~(IsReply(a) /\ IsReply(b))
    /\ ingest.pc = "clear" =>
          /\ \A i \in DOMAIN wait : ~IsReply(wait[i])
          /\ \A j \in delayed \cup active : ~IsReply(j)

\* A reply adds a job only after it has seen that there is none.
LEMMA ReplyAloneStep == Basics /\ OuterInv /\ ReplyAlone /\ [Next]_vars => ReplyAlone'
PROOF
<1> SUFFICES ASSUME Basics, OuterInv, ReplyAlone, [Next]_vars PROVE ReplyAlone'
  OBVIOUS
<1>1. Moves /\ CallsMove
  BY BasicsStep
<1>2. wait \in Seq(Job) /\ delayed \subseteq Job /\ active \subseteq Job /\ \A a, b \in active : a = b
  BY DEF Basics, TypeOK, AnalysisTypes, Alone
<1>3. CASE Rests
  <2>1. ingest'.pc = "clear" => ingest.pc = "clear" \/ Pending = {}
    BY <1>1 DEF CallsMove, ScanMove
  <2>2. Pending = {} => /\ \A i \in DOMAIN wait : ~IsReply(wait[i])
                        /\ \A j \in delayed \cup active : ~IsReply(j)
    BY DEF Pending, InFlight, Elements, IsReply
  <2> QED BY <1>3, <2>1, <2>2 DEF Rests, ReplyAlone
<1>4. ingest'.pc = "clear" => ingest.pc = "clear" \/ Rests
  BY <1>1 DEF CallsMove, ScanMove, analysisVars, Rests
<1>5. CASE Takes
  BY <1>2, <1>4, <1>5 DEF Takes, Rests, ReplyAlone, Basics, Alone
<1>6. ASSUME NEW j \in Job, Adds(j) PROVE ReplyAlone'
  <2>1. IsReply(j) => ingest.pc = "clear" /\ ingest'.pc = "idle"
    BY <1>1, <1>6 DEF Adds, IsReply, IsChat, OuterInv, OuterKinds, Outer, OuterSet
  <2> QED BY <1>2, <1>4, <1>6, <2>1 DEF Adds, Rests, ReplyAlone
<1>7. ASSUME NEW j \in active, Ends(j) PROVE ReplyAlone'
  BY <1>2, <1>4, <1>7 DEF Ends, Rests, ReplyAlone
<1>8. ASSUME NEW j \in active, Retries(j) PROVE ReplyAlone'
  <2>1. PICK k \in Job : k = [j EXCEPT !.attempt = @ + 1] /\ k.kind = j.kind
    BY <1>2, SameJob
  <2>2. active' = {} /\ wait' = wait /\ delayed' = delayed \cup {k}
    BY <1>8, <2>1 DEF Retries
  <2>3. IsReply(k) <=> IsReply(j)
    BY <2>1 DEF IsReply
  <2> QED BY <1>2, <1>4, <2>2, <2>3 DEF Rests, ReplyAlone
<1>9. ASSUME NEW j \in active, Restores(j) PROVE ReplyAlone'
  <2>1. PICK k \in Job : k = [j EXCEPT !.stalls = 1] /\ k.kind = j.kind
    BY <1>2, SameJob
  <2>2. active' = {} /\ wait' = <<k>> \o wait /\ delayed' = delayed
    BY <1>9, <2>1 DEF Restores
  <2>3. IsReply(k) <=> IsReply(j)
    BY <2>1 DEF IsReply
  <2>4. PICK w : w = wait'
    OBVIOUS
  <2>5. w[1] = k /\ \A i \in DOMAIN w : i \in Int /\ (i = 1 \/ (i - 1 \in DOMAIN wait /\ w[i] = wait[i - 1]))
    BY <1>2, <2>2, <2>4, PutFirst
  <2>6. ASSUME NEW i \in DOMAIN w, NEW m \in DOMAIN w, IsReply(w[i]), IsReply(w[m]) PROVE i = m
    <3>1. CASE i = 1 \/ m = 1
      BY <2>3, <2>5, <2>6, <3>1 DEF ReplyAlone
    <3>2. CASE i # 1 /\ m # 1
      <4>1. i - 1 = m - 1
        BY <2>5, <2>6, <3>2 DEF ReplyAlone
      <4> QED BY <2>5, <4>1
    <3> QED BY <3>1, <3>2
  <2>7. \A i \in DOMAIN w, a \in delayed : ~(IsReply(w[i]) /\ IsReply(a))
    BY <2>3, <2>5 DEF ReplyAlone
  <2>8. active # {}
    OBVIOUS
  <2>9. ingest'.pc = "clear" => /\ \A i \in DOMAIN w : ~IsReply(w[i])
                                /\ \A a \in delayed : ~IsReply(a)
    BY <1>4, <2>2, <2>3, <2>5, <2>8 DEF Rests, ReplyAlone
  <2> QED BY <2>2, <2>4, <2>6, <2>7, <2>9 DEF ReplyAlone
<1>10. ASSUME NEW j \in delayed, Returns(j) PROVE ReplyAlone'
  BY <1>2, <1>4, <1>10 DEF Returns, Rests, ReplyAlone
<1> QED BY <1>1, <1>3, <1>5, <1>6, <1>7, <1>8, <1>9, <1>10 DEF Moves, QueueMove

-----------------------------------------------------------------------------
(* Cycles and rounds *)

\* While no job throws, a re-analysis that has passed the guard and has not
\* concluded is counted but not among the finished, and while it has not found
\* what to ask, not among those that asked either.
Counted ==
    spent.errors = 0 =>
        /\ cycles <= reanalysisCount /\ reanalysisCount <= MaxReanalysisCount
        /\ rounds <= reanalysisCount /\ rounds < EscalateAfter
        /\ \A j \in active : IsReanalysis(j) =>
               /\ pc \in {"guarded", "loaded", "analysed", "sent"} => cycles < reanalysisCount
               /\ pc \in {"guarded", "loaded"} => rounds < reanalysisCount

\* The guard counts a re-analysis once, while none is tried again.
LEMMA CountedStep == Basics /\ QueueTried /\ Counted /\ [Next]_vars => Counted'
PROOF
<1> SUFFICES ASSUME Basics, QueueTried, Counted, [Next]_vars, spent'.errors = 0 PROVE Counted'
  BY DEF Counted
<1>a. /\ cycles \in Nat /\ rounds \in Nat /\ reanalysisCount \in Int /\ spent.errors = 0
      /\ MaxReanalysisCount \in Nat /\ EscalateAfter \in Nat /\ 0 < EscalateAfter
  <2>1. SpentGrows /\ spent.errors \in Nat
    BY StepMoves, Accounts DEF Basics, Moves, TypeOK, SpentTypes
  <2>2. spent.errors <= spent'.errors
    BY <2>1, Accounts DEF SpentGrows
  <2> QED BY <2>1, <2>2, BoundsAssumption DEF Basics, TypeOK, TicketTypes, HistoryTypes
<1>b. /\ cycles <= reanalysisCount /\ reanalysisCount <= MaxReanalysisCount
      /\ rounds <= reanalysisCount /\ rounds < EscalateAfter
      /\ \A j \in active : IsReanalysis(j) =>
             /\ pc \in {"guarded", "loaded", "analysed", "sent"} => cycles < reanalysisCount
             /\ pc \in {"guarded", "loaded"} => rounds < reanalysisCount
  BY <1>a DEF Counted
<1>c. \A j, k \in active : j = k
  BY DEF Basics, Alone
<1>d. ASSUME UNCHANGED <<cycles, reanalysisCount, rounds>>,
             UNCHANGED <<active, pc>> \/ active' = {} \/ pc' = "taken"
      PROVE  Counted'
  BY <1>a, <1>b, <1>d DEF Counted
<1> HIDE DEF Counted
<1>1. CASE DispatchTake
  BY <1>d, <1>1 DEF DispatchTake, ticketVars, historyVars, analysisVars, Leave, TryAgain
<1>2. CASE DispatchMark
  BY <1>d, <1>2 DEF DispatchMark, ticketVars, historyVars, analysisVars, Leave, TryAgain
<1>3. ASSUME NEW d \in dispatching, DispatchAdd(d) PROVE Counted'
  BY <1>d, <1>3 DEF DispatchAdd, ticketVars, historyVars, analysisVars, Leave, TryAgain
<1>4. CASE Take
  BY <1>d, <1>4 DEF Take, ticketVars, historyVars, analysisVars, Leave, TryAgain
<1>5. ASSUME NEW j \in active, Guard(j) PROVE Counted'
  <2>1. j.attempt = 0
    <3>1. j.attempt \in Nat /\ j.attempt <= 0
      BY <1>a DEF QueueTried, Tried, Basics, TypeOK, AnalysisTypes, Job
    <3> QED BY <3>1
  <2> QED BY <1>a, <1>b, <1>c, <1>5, <2>1 DEF Guard, Counts, WithinLimit, Counted, historyVars
<1>6. ASSUME NEW j \in active, Refuse(j) PROVE Counted'
  BY <1>d, <1>6 DEF Refuse, ticketVars, historyVars, analysisVars, Leave, TryAgain
<1>7. ASSUME NEW j \in active, Load(j) PROVE Counted'
  BY <1>a, <1>b, <1>c, <1>7 DEF Load, Counted, historyVars, ticketVars
<1>8. ASSUME NEW j \in active, Skip(j) PROVE Counted'
  BY <1>a, <1>b, <1>c, <1>8 DEF Skip, Counted, historyVars, Leave
<1>9. ASSUME NEW j \in active, Analyse(j) PROVE Counted'
  BY <1>a, <1>b, <1>c, <1>9 DEF Analyse, Counted, historyVars
<1>10. ASSUME NEW j \in active, Update(j) PROVE Counted'
  BY <1>a, <1>b, <1>c, <1>10 DEF Update, Escalated, Counted
<1>11. ASSUME NEW j \in active, Send(j) PROVE Counted'
  BY <1>a, <1>b, <1>c, <1>11 DEF Send, Counted, historyVars
<1>12. ASSUME NEW j \in active, Conclude(j) PROVE Counted'
  BY <1>a, <1>b, <1>c, <1>12 DEF Conclude, Counted, Leave
<1>13. ASSUME NEW j \in active, Open(j) PROVE Counted'
  BY <1>d, <1>13 DEF Open, ticketVars, historyVars, analysisVars, Leave, TryAgain
<1>14. ASSUME NEW j \in delayed, Again(j) PROVE Counted'
  BY <1>d, <1>14 DEF Again, ticketVars, historyVars, analysisVars, Leave, TryAgain
<1>15. ASSUME NEW d \in createdLater, DispatchAgain(d) PROVE Counted'
  BY <1>d, <1>15 DEF DispatchAgain, ticketVars, historyVars, analysisVars, Leave, TryAgain
<1>16. CASE ReplyGate
  BY <1>d, <1>16 DEF ReplyGate, ticketVars, historyVars, analysisVars, Leave, TryAgain
<1>17. CASE ReplyScan
  BY <1>d, <1>17 DEF ReplyScan, ticketVars, historyVars, analysisVars, Leave, TryAgain
<1>18. CASE ReplyAdd
  BY <1>d, <1>18 DEF ReplyAdd, ticketVars, historyVars, analysisVars, Leave, TryAgain
<1>19. CASE Crash
  BY <1>d, <1>19 DEF Crash, ticketVars, historyVars, analysisVars, Leave, TryAgain
<1>20. CASE ReplyFails
  BY <1>d, <1>20 DEF ReplyFails, ticketVars, historyVars, analysisVars, Leave, TryAgain
<1>21. ASSUME NEW j \in active, Fail(j) PROVE Counted'
  BY <1>d, <1>21 DEF Fail, ticketVars, historyVars, analysisVars, Leave, TryAgain
<1>22. ASSUME NEW j \in active, FailUnrecorded(j) PROVE Counted'
  BY <1>d, <1>22 DEF FailUnrecorded, ticketVars, historyVars, analysisVars, Leave, TryAgain
<1>23. ASSUME NEW d \in dispatching, DispatchFails(d) PROVE Counted'
  BY <1>d, <1>23 DEF DispatchFails, ticketVars, historyVars, analysisVars, Leave, TryAgain
<1>24. ASSUME NEW o \in Operators, ClickFails(o) PROVE Counted'
  BY <1>d, <1>24 DEF ClickFails, ticketVars, historyVars, analysisVars, Leave, TryAgain
<1>25. ASSUME NEW o \in Operators, ClickRead(o) PROVE Counted'
  BY <1>d, <1>25 DEF ClickRead, ticketVars, historyVars, analysisVars, Leave, TryAgain
<1>26. ASSUME NEW o \in Operators, ClickMark(o) PROVE Counted'
  BY <1>d, <1>26 DEF ClickMark, ticketVars, historyVars, analysisVars, Leave, TryAgain
<1>27. ASSUME NEW o \in Operators, ClickAdd(o) PROVE Counted'
  BY <1>d, <1>27 DEF ClickAdd, ticketVars, historyVars, analysisVars, Leave, TryAgain
<1>28. ASSUME NEW o \in Operators, ClickEnd(o) PROVE Counted'
  BY <1>d, <1>28 DEF ClickEnd, ticketVars, historyVars, analysisVars, Leave, TryAgain
<1>29. ASSUME NEW o \in Operators, ChatPost(o) PROVE Counted'
  BY <1>d, <1>29 DEF ChatPost, ticketVars, historyVars, analysisVars, Leave, TryAgain
<1>30. ASSUME NEW o \in Operators, ChatPick(o) PROVE Counted'
  BY <1>d, <1>30 DEF ChatPick, ticketVars, historyVars, analysisVars, Leave, TryAgain
<1>31. ASSUME NEW o \in Operators, ChatAdd(o) PROVE Counted'
  BY <1>d, <1>31 DEF ChatAdd, ticketVars, historyVars, analysisVars, Leave, TryAgain
<1>32. ASSUME NEW o \in Operators, ChatMark(o) PROVE Counted'
  BY <1>d, <1>32 DEF ChatMark, ticketVars, historyVars, analysisVars, Leave, TryAgain
<1>33. CASE ReplyArrives
  BY <1>d, <1>33 DEF ReplyArrives, ticketVars, historyVars, analysisVars, Leave, TryAgain
<1>34. CASE Patch
  BY <1>d, <1>34 DEF Patch, ticketVars, historyVars, analysisVars, Leave, TryAgain
<1>35. CASE UNCHANGED vars
  BY <1>d, <1>35 DEF vars, ticketVars, historyVars, analysisVars
<1>36. ASSUME NEW j \in active, Process(j) PROVE Counted'
  BY <1>5, <1>6, <1>7, <1>8, <1>9, <1>10, <1>11, <1>12, <1>13, <1>36 DEF Process
<1>37. CASE Trouble
  BY <1>19, <1>20, <1>21, <1>22, <1>23, <1>24, <1>37 DEF Trouble
<1>38. ASSUME NEW o \in Operators, Handle(o) \/ Request(o) PROVE Counted'
  BY <1>25, <1>26, <1>27, <1>28, <1>29, <1>30, <1>31, <1>32, <1>38 DEF Handle, Request
<1>39. CASE Dispatch \/ Analysis \/ BackOff \/ Ingest
  BY <1>1, <1>2, <1>3, <1>4, <1>14, <1>15, <1>16, <1>17, <1>18, <1>36, <1>39
     DEF Dispatch, Analysis, BackOff, Ingest
<1> QED
  BY <1>33, <1>34, <1>35, <1>37, <1>38, <1>39 DEF Next
\* An id that is known was known before, or is that of the job added.
LEMMA KnownFrom ==
    ASSUME Basics, Moves, NEW x \in KnownIds'
    PROVE  x \in KnownIds \/ \E j \in Job : Adds(j) /\ x = Id(j)
PROOF
<1>1. wait \in Seq(Job) /\ delayed \subseteq Job /\ active \subseteq Job /\ \A a, b \in active : a = b
  BY DEF Basics, TypeOK, AnalysisTypes, Alone
<1>2. x \in finished' \/ \E j \in Elements(wait') \cup delayed' \cup active' : x = Id(j)
  BY DEF KnownIds, InFlight
<1>3. finished \subseteq KnownIds /\ \A j \in Elements(wait) \cup delayed \cup active : Id(j) \in KnownIds
  BY DEF KnownIds, InFlight
<1>4. CASE Rests
  BY <1>2, <1>3, <1>4 DEF Rests
<1>5. CASE Takes
  <2>1. Elements(wait) = Elements(wait') \cup active'
    BY <1>1, <1>5, ElementsOf, JobTypes DEF Takes, Kinds
  <2> QED BY <1>2, <1>3, <1>5, <2>1 DEF Takes
<1>6. ASSUME NEW j \in Job, Adds(j) PROVE x \in KnownIds \/ x = Id(j)
  <2>1. Elements(wait') = Elements(wait) \cup {j} /\ UNCHANGED <<delayed, active>> /\ finished' \subseteq finished
    BY <1>1, <1>6, ElementsOf DEF Adds
  <2> QED BY <1>2, <1>3, <2>1
<1>7. ASSUME NEW j \in active, Ends(j) PROVE x \in KnownIds
  BY <1>2, <1>3, <1>7 DEF Ends
<1>8. ASSUME NEW j \in active, Retries(j) PROVE x \in KnownIds
  <2>1. PICK k \in Job : k = [j EXCEPT !.attempt = @ + 1] /\ Id(k) = Id(j)
    BY <1>1, SameJob
  <2>2. active' = {} /\ delayed' = delayed \cup {k} /\ UNCHANGED <<wait, finished>>
    BY <1>8, <2>1 DEF Retries
  <2> QED BY <1>2, <1>3, <2>1, <2>2
<1>9. ASSUME NEW j \in active, Restores(j) PROVE x \in KnownIds
  <2>1. PICK k \in Job : k = [j EXCEPT !.stalls = 1] /\ Id(k) = Id(j)
    BY <1>1, SameJob
  <2>2. active' = {} /\ Elements(wait') = Elements(wait) \cup {k} /\ UNCHANGED <<delayed, finished>>
    BY <1>1, <1>9, <2>1, ElementsOf DEF Restores
  <2> QED BY <1>2, <1>3, <2>1, <2>2
<1>10. ASSUME NEW j \in delayed, Returns(j) PROVE x \in KnownIds
  <2>1. Elements(wait') = Elements(wait) \cup {j} /\ delayed' \subseteq delayed /\ UNCHANGED <<active, finished>>
    BY <1>1, <1>10, ElementsOf DEF Returns
  <2> QED BY <1>2, <1>3, <2>1
<1> QED BY <1>4, <1>5, <1>6, <1>7, <1>8, <1>9, <1>10 DEF Moves, QueueMove

\* The jobs in 'ticket-created', and those that clicks have yet to put there,
\* are not known in 'ticket-analysis'.
OuterUnknown == \A j \in OuterSet : Id(j) \notin KnownIds
RequestsUnknown == \A o \in Operators : Asking(o) => Clicked(request[o].n) \notin KnownIds
ClicksKnown == \A n \in Nat : Clicked(n) \in KnownIds => n <= spent.clicks
KnownInv == OuterUnknown /\ RequestsUnknown /\ ClicksKnown

\* An id comes to 'ticket-analysis' only when its job leaves 'ticket-created'.
LEMMA KnownStep == Basics /\ OuterInv /\ KnownInv /\ [Next]_vars => KnownInv'
PROOF
<1> SUFFICES ASSUME Basics, OuterInv, KnownInv, [Next]_vars PROVE KnownInv'
  OBVIOUS
<1> USE DEF KnownInv
<1>1. Basics' /\ Moves /\ CallsMove /\ OuterInv'
  BY BasicsStep, OuterStep
<1>2. spent.clicks \in Nat /\ spent'.clicks \in Nat /\ spent.clicks <= spent'.clicks
  BY <1>1, Accounts DEF Basics, TypeOK, SpentTypes, Moves, SpentGrows
<1>3. \A o \in Operators : request[o].n \in Nat
  BY DEF Basics, TypeOK, CallTypes, Requested
<1>4. dispatching \subseteq OuterSet /\ \A j \in OuterSet \cup OuterSet' : j.kind \in {"initial", "click"}
  BY <1>1 DEF OuterSet, OuterInv, OuterKinds, Outer
<1>5. \A j, k \in Job : Id(j) = Id(k) => j.kind = k.kind /\ j.n = k.n
  BY DEF Id
<1>6. OuterSet \subseteq Job /\ OuterSet' \subseteq Job
  BY <1>1, ElementsOf, JobTypes DEF OuterSet, Kinds, Basics, TypeOK, DispatchTypes
<1>7. \A k \in Job, n \in Nat : Id(k) = Clicked(n) => k.kind = "click" /\ k.n = n
  BY DEF Id, Clicked
<1>8. OuterUnknown'
  <2> SUFFICES ASSUME NEW j \in OuterSet', Id(j) \in KnownIds' PROVE FALSE
    BY DEF OuterUnknown
  <2>1. Id(j) \notin KnownIds
    <3>1. ASSUME NEW i \in OuterSet, Same(j, i) PROVE Id(j) \notin KnownIds
      BY <3>1 DEF OuterUnknown, Same
    <3>2. ASSUME NEW o \in Operators, OuterAdds(o), j = NewJob("click", request[o].n, 0)
          PROVE  Id(j) \notin KnownIds
      <4>1. Asking(o) /\ Id(j) = Clicked(request[o].n)
        BY <3>2 DEF OuterAdds, Asking, NewJob, Id, Clicked
      <4> QED BY <4>1 DEF RequestsUnknown
    <3> QED BY <1>1, <3>1, <3>2, OuterFrom
  <2>2. PICK k \in Job : Adds(k) /\ Id(j) = Id(k)
    BY <1>1, <2>1, KnownFrom
  <2>3. j.kind \in {"initial", "click"} /\ j.kind = k.kind
    BY <1>4, <1>5, <1>6, <2>2
  <2>4. PICK d \in dispatching : OuterEnds /\ Id(k) = Id(d)
    BY <2>2, <2>3 DEF Adds, IsReply, IsChat
  <2>5. j \in Elements(created) \cup createdLater
    BY <2>4 DEF OuterSet, OuterEnds
  <2> QED BY <2>2, <2>4, <2>5 DEF OuterInv, OuterIds, Elements
<1>9. ASSUME NEW n \in Nat, Clicked(n) \in KnownIds'
      PROVE  Clicked(n) \in KnownIds \/ \E d \in dispatching : Id(d) = Clicked(n)
  <2> SUFFICES ASSUME Clicked(n) \notin KnownIds PROVE \E d \in dispatching : Id(d) = Clicked(n)
    OBVIOUS
  <2>1. PICK k \in Job : Adds(k) /\ Clicked(n) = Id(k)
    BY <1>1, <1>9, KnownFrom
  <2>2. k.kind = "click"
    BY <1>7, <2>1
  <2> QED BY <2>1, <2>2 DEF Adds, IsReply, IsChat
<1>10. RequestsUnknown'
  <2>1. CASE \A o \in Operators : Asking(o)' => Asking(o) /\ request'[o].n = request[o].n
    <3> SUFFICES ASSUME NEW o \in Operators, Asking(o)', Clicked(request'[o].n) \in KnownIds' PROVE FALSE
      BY DEF RequestsUnknown
    <3>1. Asking(o) /\ Clicked(request[o].n) \in KnownIds'
      BY <2>1
    <3>2. Clicked(request[o].n) \notin KnownIds /\ \A j \in OuterSet : Id(j) # Clicked(request[o].n)
      BY <3>1 DEF RequestsUnknown, OuterInv, RequestsNew
    <3> QED BY <1>3, <1>4, <1>9, <3>1, <3>2
  <2>2. ASSUME NEW o \in Operators, request'[o].n = spent.clicks + 1,
               \A q \in Operators \ {o} : request'[q] = request[q], UNCHANGED analysisVars
        PROVE  RequestsUnknown'
    <3>1. KnownIds' = KnownIds
      BY <2>2 DEF KnownIds, InFlight, analysisVars
    <3>2. Clicked(spent.clicks + 1) \notin KnownIds
      BY <1>2 DEF ClicksKnown
    <3>3. \A q \in Operators : Asking(q)' => q = o \/ (Asking(q) /\ request'[q].n = request[q].n)
      BY <2>2 DEF Asking
    <3> QED BY <2>2, <3>1, <3>2, <3>3 DEF RequestsUnknown
  <2> QED BY <1>1, <2>1, <2>2 DEF CallsMove, AskMove
<1>11. ClicksKnown'
  <2> SUFFICES ASSUME NEW n \in Nat, Clicked(n) \in KnownIds' PROVE n <= spent'.clicks
    BY DEF ClicksKnown
  <2>1. CASE Clicked(n) \in KnownIds
    BY <1>2, <2>1 DEF ClicksKnown
  <2>2. ASSUME NEW d \in dispatching, Id(d) = Clicked(n) PROVE n <= spent'.clicks
    <3>1. d \in Job /\ d.kind = "click" /\ d.n = n /\ Outer(d)
      BY <1>4, <1>6, <1>7, <2>2 DEF OuterInv, OuterKinds
    <3> QED BY <1>2, <3>1 DEF Outer
  <2> QED BY <1>9, <2>1, <2>2
<1> QED BY <1>8, <1>10, <1>11

-----------------------------------------------------------------------------
(* Replies that rely on a waiting job *)

Few == ~limited /\ spent.errors < MaxAttempts /\ spent.crashes <= 1

\* A job that the scan for a reply finds, and that has yet to read the
\* conversation, or has read it.
Prefixed(j) == j.kind \in {"click", "reply"}
WillRead ==
    \/ \E i \in DOMAIN wait : Prefixed(wait[i])
    \/ \E j \in delayed : Prefixed(j)
    \/ \E j \in active : Prefixed(j) /\ pc \in {"taken", "guarded", "limit"}
HasRead(n) == \E j \in active : Prefixed(j) /\ pc \in {"loaded", "analysed", "sent"} /\ n \in read
Relied ==
    Few => \A s \in skipped : s.why = "redundant" =>
               s.reply \in covered \/ HasRead(s.reply) \/ WillRead

\* What is few stays few going back.
LEMMA FewBefore ==
    Basics /\ QueueTried /\ OuterTried /\ [Next]_vars /\ (limited => limited') /\ Few' =>
        /\ Few
        /\ \A j \in active : j.attempt <= spent.errors /\ j.attempt \in Nat /\ j.stalls <= spent.crashes
        /\ \A j \in dispatching : j.attempt <= spent.errors /\ j.attempt \in Nat /\ j.stalls <= spent.crashes
        /\ {spent.errors, spent'.errors, spent.crashes, spent'.crashes, MaxAttempts} \subseteq Nat
        /\ spent'.errors < MaxAttempts /\ spent'.crashes <= 1
PROOF
<1> SUFFICES ASSUME Basics, QueueTried, OuterTried, [Next]_vars, limited => limited', Few'
             PROVE  /\ Few
                    /\ \A j \in active \cup dispatching :
                          j.attempt <= spent.errors /\ j.attempt \in Nat /\ j.stalls <= spent.crashes
                    /\ {spent.errors, spent'.errors, spent.crashes, spent'.crashes, MaxAttempts} \subseteq Nat
                    /\ spent'.errors < MaxAttempts /\ spent'.crashes <= 1
  OBVIOUS
<1>1. Basics' /\ SpentGrows
  BY BasicsStep DEF Moves
<1>2. {spent.errors, spent'.errors, spent.crashes, spent'.crashes, MaxAttempts} \subseteq Nat
  BY <1>1, Accounts, BoundsAssumption DEF Basics, TypeOK, SpentTypes
<1>3. spent.errors <= spent'.errors /\ spent.crashes <= spent'.crashes
  BY <1>1, Accounts DEF SpentGrows
<1>4. active \subseteq Job /\ dispatching \subseteq Job /\ \A j \in Job : j.attempt \in Nat
  BY DEF Basics, TypeOK, AnalysisTypes, DispatchTypes, Job
<1> QED BY <1>2, <1>3, <1>4 DEF Few, QueueTried, OuterTried, Tried

\* The job a reply relies on stays until it has read the conversation.
LEMMA ReliedStep == Basics /\ QueueTried /\ OuterTried /\ Relied /\ [Next]_vars => Relied'
PROOF
<1> SUFFICES ASSUME Basics, QueueTried, OuterTried, Relied, [Next]_vars PROVE Relied'
  OBVIOUS
<1>a. wait \in Seq(Job) /\ delayed \subseteq Job /\ active \subseteq Job /\ \A a, b \in active : a = b
  BY DEF Basics, TypeOK, AnalysisTypes, Alone
<1>b. ASSUME UNCHANGED limited, UNCHANGED <<covered, skipped>>, WillRead => WillRead',
             \A n \in Nat : HasRead(n) => HasRead(n)'
      PROVE  Relied'
  <2>1. \A s \in skipped : s.reply \in Nat
    BY DEF Basics, TypeOK, HistoryTypes, Skipped
  <2> QED BY <1>b, <2>1, FewBefore DEF Relied
<1>c. ASSUME UNCHANGED <<wait, delayed, active, pc, read, covered, limited>>,
             \A s \in skipped' : s \in skipped \/ s.why # "redundant" \/ WillRead
      PROVE  Relied'
  <2>1. (WillRead' <=> WillRead) /\ \A n : HasRead(n)' <=> HasRead(n)
    BY <1>c DEF WillRead, HasRead
  <2> QED BY <1>c, <2>1, FewBefore DEF Relied
<1>d. ASSUME UNCHANGED <<wait, delayed, active, pc, read, covered, limited, skipped>> PROVE Relied'
  BY <1>c, <1>d
<1>e. ASSUME NEW j \in Job, wait' = wait \/ wait' = Append(wait, j),
             UNCHANGED <<delayed, active, pc, read, covered, limited, skipped>>
      PROVE  Relied'
  <2>1. WillRead => WillRead'
    BY <1>a, <1>e DEF WillRead
  <2>2. \A n : HasRead(n) => HasRead(n)'
    BY <1>e DEF HasRead
  <2> QED BY <1>b, <1>e, <2>1, <2>2
<1>f. ASSUME NEW j \in active, UNCHANGED <<wait, delayed, covered, limited, skipped>>, active' = active,
             pc \in {"taken", "guarded", "limit"} => pc' \in {"taken", "guarded", "limit"},
             pc \in {"loaded", "analysed", "sent"} => pc' \in {"loaded", "analysed", "sent"} /\ read' = read
      PROVE  Relied'
  <2>1. WillRead => WillRead'
    BY <1>f DEF WillRead
  <2>2. \A n : HasRead(n) => HasRead(n)'
    BY <1>f DEF HasRead
  <2> QED BY <1>b, <1>f, <2>1, <2>2
<1> HIDE DEF Relied
<1>1. CASE DispatchTake
  BY <1>d, <1>1 DEF DispatchTake, analysisVars, historyVars
<1>2. CASE DispatchMark
  BY <1>d, <1>2 DEF DispatchMark, analysisVars, historyVars
<1>3. ASSUME NEW d \in dispatching, DispatchAdd(d) PROVE Relied'
  <2>1. PICK j \in Job : j = InnerJob(d)
    BY JobTypes DEF Basics, TypeOK, DispatchTypes
  <2> QED BY <1>e, <1>3, <2>1 DEF DispatchAdd, Enqueue, historyVars
<1>4. CASE Take
  <2>1. Elements(wait) = Elements(wait') \cup active'
    BY <1>a, <1>4, ElementsOf, JobTypes DEF Take, Kinds
  <2>2. UNCHANGED <<delayed, covered, limited, skipped>> /\ pc' = "taken" /\ active = {}
    BY <1>4 DEF Take, historyVars, Basics, Alone
  <2>3. WillRead => WillRead'
    BY <2>1, <2>2 DEF WillRead, Elements
  <2>4. \A n : ~HasRead(n)
    BY <2>2 DEF HasRead
  <2> QED BY <1>b, <2>2, <2>3, <2>4
<1>5. ASSUME NEW j \in active, Guard(j) PROVE Relied'
  BY <1>f, <1>5 DEF Guard, historyVars
<1>6. ASSUME NEW j \in active, Refuse(j) PROVE Relied'
  BY <1>6 DEF Refuse, Relied, Few
<1>7. ASSUME NEW j \in active, Load(j) PROVE Relied'
  <2>1. UNCHANGED <<wait, delayed, active, covered, limited, skipped>> /\ pc = "guarded" /\ pc' = "loaded"
    BY <1>7 DEF Load, historyVars
  <2> SUFFICES ASSUME Few', NEW s \in skipped, s.why = "redundant"
               PROVE  (s.reply \in covered \/ HasRead(s.reply) \/ WillRead)'
    BY <2>1 DEF Relied
  <2>2. s.reply \in covered \/ WillRead
    BY <2>1, FewBefore DEF Relied, HasRead
  <2>3. CASE Prefixed(j)
    <3>1. read' = DOMAIN thread
      BY <1>7, <2>3 DEF Load, Reads, IsReanalysis, Prefixed
    <3>2. s.reply \in read'
      BY <3>1 DEF Basics, CallsKnown
    <3> QED BY <2>1, <2>3, <3>2 DEF HasRead
  <2>4. CASE ~Prefixed(j)
    BY <1>a, <2>1, <2>2, <2>4 DEF WillRead
  <2> QED BY <2>3, <2>4
<1>8. ASSUME NEW j \in active, Skip(j) PROVE Relied'
  <2>1. thread = <<>> /\ UNCHANGED skipped
    BY <1>8 DEF Skip, historyVars
  <2>2. skipped = {}
    BY <2>1 DEF Basics, CallsKnown
  <2> QED BY <2>1, <2>2 DEF Relied
<1>9. ASSUME NEW j \in active, Analyse(j) PROVE Relied'
  BY <1>f, <1>9 DEF Analyse, historyVars
<1>10. ASSUME NEW j \in active, Update(j) PROVE Relied'
  BY <1>f, <1>10 DEF Update
<1>11. ASSUME NEW j \in active, Send(j) PROVE Relied'
  BY <1>f, <1>11 DEF Send, historyVars
<1>12. ASSUME NEW j \in active, Conclude(j) PROVE Relied'
  <2>1. UNCHANGED <<wait, delayed, limited, skipped>> /\ pc = "sent" /\ covered' = covered \cup read
    BY <1>12 DEF Conclude
  <2> SUFFICES ASSUME Few', NEW s \in skipped, s.why = "redundant" PROVE (s.reply \in covered \/ WillRead)'
    BY <2>1 DEF Relied
  <2>2. s.reply \in covered \/ HasRead(s.reply) \/ WillRead
    BY <2>1, FewBefore DEF Relied
  <2> QED BY <2>1, <2>2 DEF HasRead, WillRead
<1>13. ASSUME NEW j \in active, Open(j) PROVE Relied'
  <2>1. UNCHANGED <<wait, delayed, covered, limited, skipped>> /\ pc = "completed"
    BY <1>13 DEF Open, historyVars
  <2>2. (WillRead => WillRead') /\ \A n : ~HasRead(n)
    BY <2>1 DEF WillRead, HasRead
  <2> QED BY <1>b, <2>1, <2>2
<1>14. ASSUME NEW j \in delayed, Again(j) PROVE Relied'
  <2>1. Elements(wait') = Elements(wait) \cup {j} /\ delayed' = delayed \ {j}
    BY <1>a, <1>14, ElementsOf DEF Again
  <2>2. UNCHANGED <<active, pc, read, covered, limited, skipped>>
    BY <1>14 DEF Again, historyVars
  <2>3. WillRead => WillRead'
    BY <2>1, <2>2 DEF WillRead, Elements
  <2>4. \A n : HasRead(n) => HasRead(n)'
    BY <2>2 DEF HasRead
  <2> QED BY <1>b, <2>2, <2>3, <2>4
<1>15. ASSUME NEW d \in createdLater, DispatchAgain(d) PROVE Relied'
  BY <1>d, <1>15 DEF DispatchAgain, analysisVars, historyVars
<1>16. CASE ReplyGate
  <2>1. ASSUME NEW s \in skipped' PROVE s \in skipped \/ s.why # "redundant" \/ WillRead
    BY <1>16 DEF ReplyGate, SkipReply
  <2> QED BY <1>c, <1>16, <2>1 DEF ReplyGate, analysisVars
<1>17. CASE ReplyScan
  <2>1. StillToRead => WillRead
    BY DEF StillToRead, Pending, InFlight, Elements, WillRead, Prefixed
  <2>2. ASSUME NEW s \in skipped' PROVE s \in skipped \/ s.why # "redundant" \/ WillRead
    BY <1>17, <2>1 DEF ReplyScan, SkipReply
  <2> QED BY <1>c, <1>17, <2>2 DEF ReplyScan, analysisVars
<1>18. CASE ReplyAdd
  <2>1. PICK j \in Job : j = NewJob("reply", ingest.reply, Last(Mails))
    BY <1>18, ReplyJob DEF ReplyAdd, Basics
  <2> QED BY <1>e, <1>18, <2>1 DEF ReplyAdd, Enqueue, historyVars
<1>19. CASE Crash
  <2>1. UNCHANGED <<delayed, covered, limited>> /\ active' = {} /\ wait' = Front(active) \o wait
    BY <1>19 DEF Crash
  <2>2. ASSUME NEW s \in skipped' PROVE s \in skipped \/ s.why # "redundant"
    BY <1>19 DEF Crash, SkipReply
  <2> SUFFICES ASSUME Few', NEW s \in skipped, s.why = "redundant" PROVE (s.reply \in covered \/ WillRead)'
    BY <2>2 DEF Relied
  <2>3. spent'.crashes = spent.crashes + 1
    BY <1>19, SpendType, Accounts DEF Crash, Basics
  <2>4. \A j \in active : j.stalls = 0
    <3>1. \A j \in active : j.stalls \in {0, 1}
      BY <1>a DEF Job
    <3> QED BY <2>1, <2>3, <3>1, FewBefore
  <2>5. s.reply \in covered \/ HasRead(s.reply) \/ WillRead
    BY <2>1, FewBefore DEF Relied
  <2>6. CASE active = {}
    <3>1. Front(active) = <<>>
      BY <2>6, FrontIs
    <3>2. wait' = wait
      BY <1>a, <2>1, <3>1
    <3> QED BY <2>1, <2>5, <2>6, <3>2 DEF WillRead, HasRead
  <2>7. ASSUME NEW j \in active PROVE (s.reply \in covered \/ WillRead)'
    <3>1. PICK k \in Job : k = [j EXCEPT !.stalls = 1] /\ k.kind = j.kind
      BY <1>a, SameJob
    <3>2. Front(active) = <<k>>
      BY <1>a, <2>4, <3>1, FrontIs
    <3>3. Elements(wait') = Elements(wait) \cup {k}
      BY <1>a, <2>1, <3>2, ElementsOf
    <3>4. (\E i \in DOMAIN wait : Prefixed(wait[i])) \/ Prefixed(j) => WillRead'
      <4>1. \A x \in Elements(wait') : Prefixed(x) => WillRead'
        BY DEF WillRead, Elements
      <4>2. \A i \in DOMAIN wait : wait[i] \in Elements(wait')
        BY <3>3 DEF Elements
      <4>3. Prefixed(j) => Prefixed(k)
        BY <3>1 DEF Prefixed
      <4> QED BY <3>3, <4>1, <4>2, <4>3
    <3> QED BY <1>a, <2>1, <2>5, <3>4 DEF WillRead, HasRead
  <2> QED BY <2>6, <2>7
<1>20. CASE ReplyFails
  <2>1. ASSUME NEW s \in skipped' PROVE s \in skipped \/ s.why # "redundant" \/ WillRead
    BY <1>20 DEF ReplyFails, SkipReply
  <2> QED BY <1>c, <1>20, <2>1 DEF ReplyFails, analysisVars
<1>21. ASSUME NEW j \in active, Fail(j) PROVE Relied'
  <2>1. PICK k \in Job : k = [j EXCEPT !.attempt = @ + 1] /\ k.kind = j.kind
    BY <1>a, SameJob
  <2>2. UNCHANGED <<wait, covered, limited, skipped>> /\ active' = {}
    BY <1>21 DEF Fail, TryAgain, historyVars
  <2> SUFFICES ASSUME Few' PROVE Relied'
    BY DEF Relied
  <2>3. spent'.errors = spent.errors + 1
    BY <1>21, SpendType, Accounts DEF Fail, Basics
  <2>4. j.attempt + 1 < MaxAttempts
    BY <2>2, <2>3, FewBefore
  <2>5. delayed' = delayed \cup {k}
    BY <1>21, <2>1, <2>4 DEF Fail, TryAgain
  <2>6. WillRead \/ (\E n : HasRead(n)) => WillRead'
    BY <1>a, <2>1, <2>2, <2>5 DEF WillRead, HasRead, Prefixed
  <2> QED BY <2>2, <2>6, FewBefore DEF Relied
<1>22. ASSUME NEW j \in active, FailUnrecorded(j) PROVE Relied'
  <2>1. PICK k \in Job : k = [j EXCEPT !.attempt = @ + 1] /\ k.kind = j.kind
    BY <1>a, SameJob
  <2>2. UNCHANGED <<wait, covered, limited, skipped>> /\ active' = {}
    BY <1>22 DEF FailUnrecorded, TryAgain, historyVars
  <2> SUFFICES ASSUME Few' PROVE Relied'
    BY DEF Relied
  <2>3. spent'.errors = spent.errors + 1
    BY <1>22, SpendType, Accounts DEF FailUnrecorded, Basics
  <2>4. j.attempt + 1 < MaxAttempts
    BY <2>2, <2>3, FewBefore
  <2>5. delayed' = delayed \cup {k}
    BY <1>22, <2>1, <2>4 DEF FailUnrecorded, TryAgain
  <2>6. WillRead \/ (\E n : HasRead(n)) => WillRead'
    BY <1>a, <2>1, <2>2, <2>5 DEF WillRead, HasRead, Prefixed
  <2> QED BY <2>2, <2>6, FewBefore DEF Relied
<1>23. ASSUME NEW d \in dispatching, DispatchFails(d) PROVE Relied'
  BY <1>d, <1>23 DEF DispatchFails, analysisVars, historyVars
<1>24. ASSUME NEW o \in Operators, ClickFails(o) PROVE Relied'
  BY <1>d, <1>24 DEF ClickFails, analysisVars, historyVars
<1>25. ASSUME NEW o \in Operators, ClickRead(o) PROVE Relied'
  BY <1>d, <1>25 DEF ClickRead, analysisVars, historyVars
<1>26. ASSUME NEW o \in Operators, ClickMark(o) PROVE Relied'
  BY <1>d, <1>26 DEF ClickMark, analysisVars, historyVars
<1>27. ASSUME NEW o \in Operators, ClickAdd(o) PROVE Relied'
  BY <1>d, <1>27 DEF ClickAdd, analysisVars, historyVars
<1>28. ASSUME NEW o \in Operators, ClickEnd(o) PROVE Relied'
  BY <1>d, <1>28 DEF ClickEnd, analysisVars, historyVars
<1>29. ASSUME NEW o \in Operators, ChatPost(o) PROVE Relied'
  BY <1>d, <1>29 DEF ChatPost, analysisVars, historyVars
<1>30. ASSUME NEW o \in Operators, ChatPick(o) PROVE Relied'
  BY <1>d, <1>30 DEF ChatPick, analysisVars, historyVars
<1>31. ASSUME NEW o \in Operators, ChatAdd(o) PROVE Relied'
  <2>1. PICK j \in Job : j = NewJob("chat", request[o].n, request[o].n)
    BY RequestTypes, JobTypes DEF Kinds, Basics
  <2> QED BY <1>e, <1>31, <2>1 DEF ChatAdd, historyVars
<1>32. ASSUME NEW o \in Operators, ChatMark(o) PROVE Relied'
  BY <1>d, <1>32 DEF ChatMark, analysisVars, historyVars
<1>33. CASE ReplyArrives
  BY <1>d, <1>33 DEF ReplyArrives, analysisVars, historyVars
<1>34. CASE Patch
  BY <1>d, <1>34 DEF Patch, analysisVars, historyVars
<1>35. CASE UNCHANGED vars
  BY <1>d, <1>35 DEF vars, analysisVars, historyVars
<1>36. ASSUME NEW j \in active, Process(j) PROVE Relied'
  BY <1>5, <1>6, <1>7, <1>8, <1>9, <1>10, <1>11, <1>12, <1>13, <1>36 DEF Process
<1>37. CASE Trouble
  BY <1>19, <1>20, <1>21, <1>22, <1>23, <1>24, <1>37 DEF Trouble
<1>38. ASSUME NEW o \in Operators, Handle(o) \/ Request(o) PROVE Relied'
  BY <1>25, <1>26, <1>27, <1>28, <1>29, <1>30, <1>31, <1>32, <1>38 DEF Handle, Request
<1>39. CASE Dispatch \/ Analysis \/ BackOff \/ Ingest
  BY <1>1, <1>2, <1>3, <1>4, <1>14, <1>15, <1>16, <1>17, <1>18, <1>36, <1>39
     DEF Dispatch, Analysis, BackOff, Ingest
<1> QED
  BY <1>33, <1>34, <1>35, <1>37, <1>38, <1>39 DEF Next
-----------------------------------------------------------------------------
(* Settled, or a job is owed *)

Owed ==
    \/ created # <<>> \/ createdLater # {} \/ dispatching # {} \/ wait # <<>> \/ delayed # {}
    \/ active # {} /\ pc # "completed"
    \/ \E o \in Operators : request[o].pc = "marked"
Plain == Few /\ spent.outages + spent.chats = 0
SettledOrOwed == Plain => Settled \/ Owed

\* Whoever writes that the analysis is pending or in progress owes a job, or
\* is one.
LEMMA SettledStep ==
    Basics /\ QueueTried /\ OuterTried /\ KnownInv /\ SettledOrOwed /\ [Next]_vars => SettledOrOwed'
PROOF
<1> SUFFICES ASSUME Basics, QueueTried, OuterTried, KnownInv, SettledOrOwed, [Next]_vars PROVE SettledOrOwed'
  OBVIOUS
<1>a. /\ wait \in Seq(Job) /\ active \subseteq Job /\ \A a, b \in active : a = b
      /\ created \in Seq(Job) /\ dispatching \subseteq Job /\ \A a, b \in dispatching : a = b
      /\ request \in [Operators -> Requested]
  BY DEF Basics, TypeOK, AnalysisTypes, DispatchTypes, CallTypes, Alone
<1>b. \A q \in Seq(Job), j \in Job : Append(q, j) # <<>>
  <2> TAKE q \in Seq(Job), j \in Job
  <2>1. Len(Append(q, j)) = Len(q) + 1 /\ Len(q) \in Nat /\ Len(<<>>) = 0
    OBVIOUS
  <2> QED BY <2>1
<1>c. ASSUME limited => limited', Settled \/ Owed => Settled' \/ Owed' PROVE SettledOrOwed'
  <2> SUFFICES ASSUME Plain' PROVE Plain
    BY <1>c DEF SettledOrOwed
  <2>1. Basics' /\ SpentGrows
    BY BasicsStep DEF Moves
  <2>2. /\ {spent.outages, spent'.outages, spent.chats, spent'.chats} \subseteq Nat
        /\ spent.outages <= spent'.outages /\ spent.chats <= spent'.chats
    BY <2>1, Accounts DEF SpentGrows, Basics, TypeOK, SpentTypes
  <2>3. spent'.outages + spent'.chats = 0
    BY DEF Plain
  <2> QED BY <1>c, <2>2, <2>3, FewBefore DEF Plain
<1>d. ASSUME UNCHANGED limited, UNCHANGED <<created, createdLater, dispatching, delayed, active, request>>,
             (pc' = "completed") => (pc = "completed"), wait # <<>> => wait' # <<>>, Settled => Settled'
      PROVE  SettledOrOwed'
  BY <1>c, <1>d DEF Owed
<1>e. ASSUME limited => limited', Owed' \/ Settled' PROVE SettledOrOwed'
  BY <1>c, <1>e
<1>f. ASSUME NEW w \in {"outages", "chats"}, Spend(w) PROVE SettledOrOwed'
  <2>1. spent'[w] # 0
    <3>1. spent'[w] = spent[w] + 1 /\ spent[w] \in Nat
      BY <1>f, SpendType, Accounts DEF Basics, TypeOK, SpentTypes
    <3> QED BY <3>1
  <2>2. spent'.outages \in Nat /\ spent'.chats \in Nat
    BY BasicsStep, Accounts DEF Basics, TypeOK, SpentTypes
  <2> QED BY <2>1, <2>2 DEF SettledOrOwed, Plain
<1>g. ASSUME spent.chats # 0, spent' = spent PROVE SettledOrOwed'
  BY <1>g, Accounts DEF SettledOrOwed, Plain, Basics, TypeOK, SpentTypes
<1>h. ASSUME NEW o \in Operators, NEW r \in Requested, Step(o, r), request[o].pc # "marked", UNCHANGED limited,
             UNCHANGED <<created, createdLater, dispatching, wait, delayed, active, pc>>, Settled => Settled'
      PROVE  SettledOrOwed'
  <2>1. \A q \in Operators : request[q].pc = "marked" => request'[q].pc = "marked"
    BY <1>a, <1>h DEF Step
  <2> QED BY <1>c, <1>h, <2>1 DEF Owed
<1> HIDE DEF SettledOrOwed, Owed
<1>1. CASE DispatchTake
  BY <1>e, <1>1 DEF DispatchTake, Owed, dispatchVars, historyVars
<1>2. CASE DispatchMark
  BY <1>a, <1>e, <1>2 DEF DispatchMark, Owed, historyVars, Basics, Alone
<1>3. ASSUME NEW d \in dispatching, DispatchAdd(d) PROVE SettledOrOwed'
  <2>1. InnerJob(d) \in Job /\ Id(InnerJob(d)) = Id(d)
    BY <1>a, JobTypes DEF InnerJob, NewJob, Id
  <2>2. Id(d) \notin KnownIds
    BY DEF KnownInv, OuterUnknown, OuterSet
  <2>3. wait' # <<>>
    BY <1>a, <1>b, <1>3, <2>1, <2>2 DEF DispatchAdd, Enqueue
  <2> QED BY <1>e, <1>3, <2>3 DEF DispatchAdd, Owed, historyVars
<1>4. CASE Take
  BY <1>e, <1>4 DEF Take, Owed, dispatchVars, historyVars
<1>5. ASSUME NEW j \in active, Guard(j) PROVE SettledOrOwed'
  BY <1>e, <1>5 DEF Guard, Owed, dispatchVars, historyVars
<1>6. ASSUME NEW j \in active, Refuse(j) PROVE SettledOrOwed'
  BY <1>6 DEF Refuse, SettledOrOwed, Plain, Few
<1>7. ASSUME NEW j \in active, Load(j) PROVE SettledOrOwed'
  BY <1>e, <1>7 DEF Load, Owed, dispatchVars, historyVars
<1>8. ASSUME NEW j \in active, Skip(j) PROVE SettledOrOwed'
  BY <1>e, <1>8 DEF Skip, Settled, historyVars
<1>9. ASSUME NEW j \in active, Analyse(j) PROVE SettledOrOwed'
  BY <1>e, <1>9 DEF Analyse, Owed, dispatchVars, historyVars
<1>10. ASSUME NEW j \in active, Update(j) PROVE SettledOrOwed'
  BY <1>e, <1>10 DEF Update, Owed
<1>11. ASSUME NEW j \in active, Send(j) PROVE SettledOrOwed'
  BY <1>e, <1>11 DEF Send, Owed, dispatchVars, historyVars
<1>12. ASSUME NEW j \in active, Conclude(j) PROVE SettledOrOwed'
  BY <1>e, <1>12 DEF Conclude, Settled
<1>13. ASSUME NEW j \in active, Open(j) PROVE SettledOrOwed'
  BY <1>c, <1>13 DEF Open, Leave, Settled, Owed, dispatchVars, callVars, historyVars
<1>14. ASSUME NEW j \in delayed, Again(j) PROVE SettledOrOwed'
  BY <1>a, <1>b, <1>e, <1>14 DEF Again, Owed, historyVars, Basics, TypeOK, AnalysisTypes
<1>15. ASSUME NEW d \in createdLater, DispatchAgain(d) PROVE SettledOrOwed'
  BY <1>a, <1>b, <1>e, <1>15 DEF DispatchAgain, Owed, historyVars, Basics, TypeOK, DispatchTypes
<1>16. CASE ReplyGate
  BY <1>d, <1>16 DEF ReplyGate, Settled, ticketVars, dispatchVars, analysisVars, callVars, historyVars
<1>17. CASE ReplyScan
  BY <1>d, <1>17 DEF ReplyScan, Settled, ticketVars, dispatchVars, analysisVars, callVars, historyVars
<1>18. CASE ReplyAdd
  <2>1. PICK j \in Job : j = NewJob("reply", ingest.reply, Last(Mails))
    BY <1>18, ReplyJob DEF ReplyAdd, Basics
  <2>2. wait # <<>> => wait' # <<>>
    BY <1>a, <1>b, <1>18, <2>1 DEF ReplyAdd, Enqueue
  <2> QED BY <1>d, <1>18, <2>2 DEF ReplyAdd, Settled, ticketVars, dispatchVars, historyVars
<1>19. CASE Crash
  <2>1. UNCHANGED <<limited, createdLater, delayed, request, analysisStatus>>
    BY <1>19 DEF Crash, ticketVars
  <2> SUFFICES ASSUME Plain', Settled \/ Owed PROVE Settled' \/ Owed'
    BY <1>c, <2>1 DEF SettledOrOwed
  <2>2. Few' /\ spent'.crashes = spent.crashes + 1
    BY <1>19, SpendType, Accounts DEF Crash, Basics, Plain
  <2>3. (\A j \in active : j.stalls = 0) /\ \A j \in dispatching : j.stalls = 0
    <3>1. (\A j \in active : j.stalls \in {0, 1}) /\ \A j \in dispatching : j.stalls \in {0, 1}
      BY <1>a DEF Job
    <3> QED BY <2>1, <2>2, <3>1, FewBefore
  <2>4. ASSUME NEW q \in Seq(Job), NEW jobs \in SUBSET Job, \A k \in jobs : k.stalls = 0
        PROVE  jobs # {} \/ q # <<>> => Front(jobs) \o q # <<>>
    <3>1. CASE jobs = {}
      <4>1. Front(jobs) = <<>>
        BY <3>1, FrontIs
      <4> QED BY <3>1, <4>1
    <3>2. ASSUME NEW k \in jobs, Front(jobs) = <<[k EXCEPT !.stalls = 1]>> PROVE Front(jobs) \o q # <<>>
      <4>1. PICK m \in Job : m = [k EXCEPT !.stalls = 1]
        BY JobTypes
      <4> QED BY <3>2, <4>1, PutFirst
    <3>3. jobs # {} => \E k \in jobs : Front(jobs) = <<[k EXCEPT !.stalls = 1]>>
      BY <2>4, FrontIs
    <3> QED BY <3>1, <3>2, <3>3
  <2>5. active # {} \/ wait # <<>> => wait' # <<>>
    BY <1>a, <1>19, <2>3, <2>4 DEF Crash
  <2>6. dispatching # {} \/ created # <<>> => created' # <<>>
    BY <1>a, <1>19, <2>3, <2>4 DEF Crash
  <2> QED BY <2>1, <2>5, <2>6 DEF Owed, Settled
<1>20. CASE ReplyFails
  BY <1>d, <1>20 DEF ReplyFails, Settled, ticketVars, dispatchVars, analysisVars, callVars, historyVars
<1>21. ASSUME NEW j \in active, Fail(j) PROVE SettledOrOwed'
  BY <1>e, <1>21 DEF Fail, Settled, historyVars
<1>22. ASSUME NEW j \in active, FailUnrecorded(j) PROVE SettledOrOwed'
  <2>1. UNCHANGED limited
    BY <1>22 DEF FailUnrecorded, historyVars
  <2> SUFFICES ASSUME Plain' PROVE Owed'
    BY DEF SettledOrOwed
  <2>2. Few' /\ spent'.errors = spent.errors + 1
    BY <1>22, SpendType, Accounts DEF FailUnrecorded, Basics, Plain
  <2>3. j.attempt + 1 < MaxAttempts
    BY <2>1, <2>2, FewBefore
  <2> QED BY <1>22, <2>3 DEF FailUnrecorded, TryAgain, Owed
<1>23. ASSUME NEW d \in dispatching, DispatchFails(d) PROVE SettledOrOwed'
  <2>1. UNCHANGED limited
    BY <1>23 DEF DispatchFails, historyVars
  <2> SUFFICES ASSUME Plain' PROVE Owed'
    BY DEF SettledOrOwed
  <2>2. Few' /\ spent'.errors = spent.errors + 1
    BY <1>23, SpendType, Accounts DEF DispatchFails, Basics, Plain
  <2>3. d.attempt + 1 < MaxAttempts
    BY <2>1, <2>2, FewBefore
  <2> QED BY <1>23, <2>3 DEF DispatchFails, Owed
<1>24. ASSUME NEW o \in Operators, ClickFails(o) PROVE SettledOrOwed'
  BY <1>f, <1>24 DEF ClickFails
<1>25. ASSUME NEW o \in Operators, ClickRead(o) PROVE SettledOrOwed'
  <2>1. PICK n \in Nat : n = spent.clicks + 1
    BY Accounts DEF Basics, TypeOK, SpentTypes
  <2>2. PICK r \in Requested : r = [pc |-> "read", n |-> n, prior |-> analysisStatus]
    BY DEF Requested, Basics, TypeOK, TicketTypes
  <2> QED BY <1>h, <1>25, <2>1, <2>2 DEF ClickRead, Idle, Settled, ticketVars, dispatchVars, analysisVars, historyVars
<1>26. ASSUME NEW o \in Operators, ClickMark(o) PROVE SettledOrOwed'
  <2>1. PICK r \in Requested : r = [request[o] EXCEPT !.pc = "marked"] /\ r.pc = "marked"
    BY <1>a, RequestTypes DEF Requested, Basics
  <2>2. request'[o].pc = "marked"
    BY <1>a, <1>26, <2>1 DEF ClickMark, Step
  <2> QED BY <1>e, <1>26, <2>2 DEF ClickMark, Owed, historyVars
<1>27. ASSUME NEW o \in Operators, ClickAdd(o) PROVE SettledOrOwed'
  <2>1. PICK j \in Job : j = NewJob("click", request[o].n, 0)
    BY RequestTypes, JobTypes DEF Kinds, Basics
  <2> QED BY <1>a, <1>b, <1>e, <1>27, <2>1 DEF ClickAdd, Owed, historyVars
<1>28. ASSUME NEW o \in Operators, ClickEnd(o) PROVE SettledOrOwed'
  <2>1. NoRequest \in Requested
    BY RequestTypes DEF Basics
  <2> QED BY <1>h, <1>28, <2>1 DEF ClickEnd, Done, StatusOnceAdded, Settled, dispatchVars, analysisVars, historyVars
<1>29. ASSUME NEW o \in Operators, ChatPost(o) PROVE SettledOrOwed'
  BY <1>f, <1>29 DEF ChatPost
<1>30. ASSUME NEW o \in Operators, ChatPick(o) PROVE SettledOrOwed'
  BY <1>f, <1>30 DEF ChatPick
<1>31. ASSUME NEW o \in Operators, ChatAdd(o) PROVE SettledOrOwed'
  BY <1>g, <1>31 DEF ChatAdd, Basics, CallsKnown
<1>32. ASSUME NEW o \in Operators, ChatMark(o) PROVE SettledOrOwed'
  BY <1>g, <1>32 DEF ChatMark, Basics, CallsKnown
<1>33. CASE ReplyArrives
  BY <1>d, <1>33 DEF ReplyArrives, Settled, ticketVars, dispatchVars, analysisVars, callVars, historyVars
<1>34. CASE Patch
  BY <1>d, <1>34 DEF Patch, Settled, ticketVars, dispatchVars, analysisVars, callVars, historyVars
<1>35. CASE UNCHANGED vars
  BY <1>d, <1>35 DEF vars, Settled, ticketVars, dispatchVars, analysisVars, callVars, historyVars
<1>36. ASSUME NEW j \in active, Process(j) PROVE SettledOrOwed'
  BY <1>5, <1>6, <1>7, <1>8, <1>9, <1>10, <1>11, <1>12, <1>13, <1>36 DEF Process
<1>37. CASE Trouble
  BY <1>19, <1>20, <1>21, <1>22, <1>23, <1>24, <1>37 DEF Trouble
<1>38. ASSUME NEW o \in Operators, Handle(o) \/ Request(o) PROVE SettledOrOwed'
  BY <1>25, <1>26, <1>27, <1>28, <1>29, <1>30, <1>31, <1>32, <1>38 DEF Handle, Request
<1>39. CASE Dispatch \/ Analysis \/ BackOff \/ Ingest
  BY <1>1, <1>2, <1>3, <1>4, <1>14, <1>15, <1>16, <1>17, <1>18, <1>36, <1>39
     DEF Dispatch, Analysis, BackOff, Ingest
<1> QED
  BY <1>33, <1>34, <1>35, <1>37, <1>38, <1>39 DEF Next
-----------------------------------------------------------------------------
(* Asked, and waiting *)

AskedWaits == spent.patches = 0 /\ sufficiencyStatus = "NEEDS_USER_INPUT" => status = "WAITING"

\* The verdict and the status are written together.
LEMMA AskedStep == Basics /\ AskedWaits /\ [Next]_vars => AskedWaits'
PROOF
<1> SUFFICES ASSUME Basics, AskedWaits, [Next]_vars PROVE AskedWaits'
  OBVIOUS
<1>a. spent'.patches = 0 => spent.patches = 0
  <2>1. Basics' /\ SpentGrows
    BY BasicsStep DEF Moves
  <2>2. spent.patches \in Nat /\ spent'.patches \in Nat /\ spent.patches <= spent'.patches
    BY <2>1, Accounts DEF SpentGrows, Basics, TypeOK, SpentTypes
  <2> QED BY <2>2
<1>b. ASSUME UNCHANGED <<status, sufficiencyStatus>> PROVE AskedWaits'
  BY <1>a, <1>b DEF AskedWaits
<1>1. CASE DispatchTake
  BY <1>b, <1>1 DEF DispatchTake, ticketVars
<1>2. CASE DispatchMark
  BY <1>b, <1>2 DEF DispatchMark, ticketVars
<1>3. ASSUME NEW d \in dispatching, DispatchAdd(d) PROVE AskedWaits'
  BY <1>b, <1>3 DEF DispatchAdd, ticketVars
<1>4. CASE Take
  BY <1>b, <1>4 DEF Take, ticketVars
<1>5. ASSUME NEW j \in active, Guard(j) PROVE AskedWaits'
  BY <1>b, <1>5 DEF Guard, ticketVars
<1>6. ASSUME NEW j \in active, Refuse(j) PROVE AskedWaits'
  BY <1>b, <1>6 DEF Refuse, ticketVars
<1>7. ASSUME NEW j \in active, Load(j) PROVE AskedWaits'
  BY <1>b, <1>7 DEF Load, ticketVars
<1>8. ASSUME NEW j \in active, Skip(j) PROVE AskedWaits'
  BY <1>b, <1>8 DEF Skip, ticketVars
<1>9. ASSUME NEW j \in active, Analyse(j) PROVE AskedWaits'
  BY <1>a, <1>9 DEF Analyse, AskedWaits, StatusAfterVerdict
<1>10. ASSUME NEW j \in active, Update(j) PROVE AskedWaits'
  BY <1>a, <1>10 DEF Update, AskedWaits, StatusAfterVerdict
<1>11. ASSUME NEW j \in active, Send(j) PROVE AskedWaits'
  BY <1>a, <1>11 DEF Send, AskedWaits
<1>12. ASSUME NEW j \in active, Conclude(j) PROVE AskedWaits'
  BY <1>b, <1>12 DEF Conclude, ticketVars
<1>13. ASSUME NEW j \in active, Open(j) PROVE AskedWaits'
  BY <1>a, <1>13 DEF Open, AskedWaits, StatusWhenAnalysed
<1>14. ASSUME NEW j \in delayed, Again(j) PROVE AskedWaits'
  BY <1>b, <1>14 DEF Again, ticketVars
<1>15. ASSUME NEW d \in createdLater, DispatchAgain(d) PROVE AskedWaits'
  BY <1>b, <1>15 DEF DispatchAgain, ticketVars
<1>16. CASE ReplyGate
  BY <1>b, <1>16 DEF ReplyGate, ticketVars
<1>17. CASE ReplyScan
  BY <1>b, <1>17 DEF ReplyScan, ticketVars
<1>18. CASE ReplyAdd
  BY <1>b, <1>18 DEF ReplyAdd, ticketVars
<1>19. CASE Crash
  BY <1>b, <1>19 DEF Crash, ticketVars
<1>20. CASE ReplyFails
  BY <1>b, <1>20 DEF ReplyFails, ticketVars
<1>21. ASSUME NEW j \in active, Fail(j) PROVE AskedWaits'
  BY <1>b, <1>21 DEF Fail, ticketVars
<1>22. ASSUME NEW j \in active, FailUnrecorded(j) PROVE AskedWaits'
  BY <1>b, <1>22 DEF FailUnrecorded, ticketVars
<1>23. ASSUME NEW d \in dispatching, DispatchFails(d) PROVE AskedWaits'
  BY <1>b, <1>23 DEF DispatchFails, ticketVars
<1>24. ASSUME NEW o \in Operators, ClickFails(o) PROVE AskedWaits'
  BY <1>b, <1>24 DEF ClickFails, ticketVars
<1>25. ASSUME NEW o \in Operators, ClickRead(o) PROVE AskedWaits'
  BY <1>b, <1>25 DEF ClickRead, ticketVars
<1>26. ASSUME NEW o \in Operators, ClickMark(o) PROVE AskedWaits'
  BY <1>b, <1>26 DEF ClickMark, ticketVars
<1>27. ASSUME NEW o \in Operators, ClickAdd(o) PROVE AskedWaits'
  BY <1>b, <1>27 DEF ClickAdd, ticketVars
<1>28. ASSUME NEW o \in Operators, ClickEnd(o) PROVE AskedWaits'
  BY <1>b, <1>28 DEF ClickEnd, ticketVars
<1>29. ASSUME NEW o \in Operators, ChatPost(o) PROVE AskedWaits'
  BY <1>b, <1>29 DEF ChatPost, ticketVars
<1>30. ASSUME NEW o \in Operators, ChatPick(o) PROVE AskedWaits'
  BY <1>b, <1>30 DEF ChatPick, ticketVars
<1>31. ASSUME NEW o \in Operators, ChatAdd(o) PROVE AskedWaits'
  BY <1>b, <1>31 DEF ChatAdd, ticketVars
<1>32. ASSUME NEW o \in Operators, ChatMark(o) PROVE AskedWaits'
  BY <1>b, <1>32 DEF ChatMark, ticketVars
<1>33. CASE ReplyArrives
  BY <1>b, <1>33 DEF ReplyArrives, ticketVars
<1>34. CASE Patch
  <2>1. spent'.patches = spent.patches + 1 /\ spent.patches \in Nat
    BY <1>34, SpendType, Accounts DEF Patch, Basics, TypeOK, SpentTypes
  <2>2. spent'.patches # 0
    BY <2>1
  <2> QED BY <2>2 DEF AskedWaits
<1>35. CASE UNCHANGED vars
  BY <1>b, <1>35 DEF vars, ticketVars
<1>36. ASSUME NEW j \in active, Process(j) PROVE AskedWaits'
  BY <1>5, <1>6, <1>7, <1>8, <1>9, <1>10, <1>11, <1>12, <1>13, <1>36 DEF Process
<1>37. CASE Trouble
  BY <1>19, <1>20, <1>21, <1>22, <1>23, <1>24, <1>37 DEF Trouble
<1>38. ASSUME NEW o \in Operators, Handle(o) \/ Request(o) PROVE AskedWaits'
  BY <1>25, <1>26, <1>27, <1>28, <1>29, <1>30, <1>31, <1>32, <1>38 DEF Handle, Request
<1>39. CASE Dispatch \/ Analysis \/ BackOff \/ Ingest
  BY <1>1, <1>2, <1>3, <1>4, <1>14, <1>15, <1>16, <1>17, <1>18, <1>36, <1>39
     DEF Dispatch, Analysis, BackOff, Ingest
<1> QED
  BY <1>33, <1>34, <1>35, <1>37, <1>38, <1>39 DEF Next

\* While nothing goes wrong and nobody intervenes, the initial job is the first
\* of each queue and alone with the ticket until it has found out what it asks;
\* and a ticket that is understood does not wait.
Untroubled == spent.errors = 0 /\ spent.crashes = 0 /\ spent.chats = 0 /\ spent.patches = 0
IsInitial(j) == j.kind = "initial"
Untouched == status = "NEW" /\ findings = {} /\ ingest.pc \in {"idle", "recorded"}
Understood == (ask => sufficiencyStatus = "NEEDS_USER_INPUT") /\ (sufficiencyStatus = "SUFFICIENT" => status # "WAITING")
CreatedFirst ==
    \A i \in DOMAIN created : IsInitial(created[i]) =>
        i = 1 /\ dispatching = {} /\ wait = <<>> /\ active = {} /\ Untouched
DispatchedFirst == \A j \in dispatching : IsInitial(j) => wait = <<>> /\ active = {} /\ Untouched
WaitingFirst == \A i \in DOMAIN wait : IsInitial(wait[i]) => i = 1 /\ active = {} /\ Untouched
AnalysedFirst == \A j \in active : IsInitial(j) /\ pc \in {"taken", "guarded", "loaded"} => Untouched
FirstInv ==
    createdLater = {} /\ delayed = {} /\ CreatedFirst /\ DispatchedFirst /\ WaitingFirst /\ AnalysedFirst /\ Understood
InitialFirst == Untroubled => FirstInv

\* The others come after the initial job.
LEMMA FirstStep == Basics /\ InitialFirst /\ [Next]_vars => InitialFirst'
PROOF
<1> SUFFICES ASSUME Basics, InitialFirst, [Next]_vars, Untroubled' PROVE FirstInv'
  BY DEF InitialFirst
<1>a. /\ wait \in Seq(Job) /\ active \subseteq Job /\ \A x, y \in active : x = y
      /\ created \in Seq(Job) /\ dispatching \subseteq Job /\ \A x, y \in dispatching : x = y
      /\ active = {} <=> pc = "idle"
      /\ dispatching = {} <=> dispatchPc = "idle"
  BY DEF Basics, TypeOK, AnalysisTypes, DispatchTypes, Alone
<1>b. Untroubled /\ FirstInv
  <2>1. Basics' /\ SpentGrows
    BY BasicsStep DEF Moves
  <2>2. \A w \in {"errors", "crashes", "chats", "patches"} : spent[w] \in Nat /\ spent'[w] \in Nat /\ spent[w] <= spent'[w]
    BY <2>1, Accounts DEF SpentGrows, Basics, TypeOK, SpentTypes
  <2>3. /\ spent.errors \in Nat /\ spent'.errors \in Nat /\ spent.errors <= spent'.errors
        /\ spent.crashes \in Nat /\ spent'.crashes \in Nat /\ spent.crashes <= spent'.crashes
        /\ spent.chats \in Nat /\ spent'.chats \in Nat /\ spent.chats <= spent'.chats
        /\ spent.patches \in Nat /\ spent'.patches \in Nat /\ spent.patches <= spent'.patches
    BY <2>2
  <2>4. Untroubled
    BY <2>3 DEF Untroubled
  <2> QED BY <2>4 DEF InitialFirst
<1>c. \A w \in {"errors", "crashes", "chats", "patches"} : ~Spend(w)
  <2>1. ASSUME NEW w \in {"errors", "crashes", "chats", "patches"}, Spend(w) PROVE FALSE
    <3>1. spent'[w] = spent[w] + 1
      BY <2>1, SpendType, Accounts DEF Basics
    <3>2. spent'[w] = 0 /\ spent[w] = 0
      BY <1>b DEF Untroubled
    <3> QED BY <3>1, <3>2
  <2> QED BY <2>1
<1>d. ASSUME UNCHANGED <<status, sufficiencyStatus, findings, ask, ingest, createdLater, delayed>>,
             CreatedFirst', DispatchedFirst', WaitingFirst', AnalysedFirst'
      PROVE  FirstInv'
  BY <1>b, <1>d DEF FirstInv, Understood
<1>e. ASSUME UNCHANGED <<dispatchVars, wait, delayed>>, UNCHANGED <<active, pc>> \/ active' = {},
             Untouched => Untouched', Understood'
      PROVE  FirstInv'
  BY <1>b, <1>e DEF FirstInv, dispatchVars, CreatedFirst, DispatchedFirst, WaitingFirst, AnalysedFirst
<1>f. ASSUME UNCHANGED <<dispatchVars, wait, delayed, active>>, active # {},
             pc' \in {"taken", "guarded", "loaded"} => pc \in {"taken", "guarded", "loaded"} /\ (Untouched => Untouched'),
             Understood'
      PROVE  FirstInv'
  BY <1>b, <1>f DEF FirstInv, dispatchVars, CreatedFirst, DispatchedFirst, WaitingFirst, AnalysedFirst
<1>g. UNCHANGED <<status, sufficiencyStatus, ask>> \/ (ask' = FALSE /\ UNCHANGED <<status, sufficiencyStatus>>) => Understood'
  BY <1>b DEF FirstInv, Understood
<1>h. UNCHANGED <<status, findings>> /\ (UNCHANGED ingest \/ ingest'.pc \in {"idle", "recorded"}) => (Untouched => Untouched')
  BY DEF Untouched
<1> HIDE DEF InitialFirst
<1>1. CASE DispatchTake
  <2>1. PICK c : c = created'
    OBVIOUS
  <2>2. /\ \A i \in DOMAIN c : i \in Nat \ {0} /\ i + 1 \in DOMAIN created /\ c[i] = created[i + 1]
        /\ dispatching' = {created[1]} /\ 1 \in DOMAIN created
    BY <1>a, <1>1, <2>1 DEF DispatchTake
  <2>3. UNCHANGED <<status, sufficiencyStatus, findings, ask, ingest, createdLater, wait, delayed, active, pc>>
    BY <1>1 DEF DispatchTake, ticketVars, analysisVars, callVars
  <2>4. \A i \in DOMAIN c : ~IsInitial(c[i])
    <3> TAKE i \in DOMAIN c
    <3>1. i + 1 # 1
      BY <2>2
    <3> QED BY <1>b, <2>2, <3>1 DEF FirstInv, CreatedFirst
  <2>5. CreatedFirst' /\ DispatchedFirst'
    BY <1>b, <2>1, <2>2, <2>3, <2>4 DEF FirstInv, CreatedFirst, DispatchedFirst, Untouched
  <2>6. WaitingFirst' /\ AnalysedFirst'
    BY <1>b, <2>3 DEF FirstInv, WaitingFirst, AnalysedFirst, Untouched
  <2> QED BY <1>d, <2>3, <2>5, <2>6
<1>2. CASE DispatchMark
  <2>1. UNCHANGED <<status, sufficiencyStatus, findings, ask, ingest, created, createdLater, dispatching, wait, delayed, active, pc>>
    BY <1>2 DEF DispatchMark, analysisVars, callVars
  <2> QED BY <1>b, <2>1 DEF FirstInv, Understood, CreatedFirst, DispatchedFirst, WaitingFirst, AnalysedFirst, Untouched
<1>3. ASSUME NEW d \in dispatching, DispatchAdd(d) PROVE FirstInv'
  <2>1. PICK j \in Job : j = InnerJob(d) /\ j.kind = d.kind
    BY <1>a, JobTypes DEF InnerJob, NewJob
  <2>2. UNCHANGED <<status, sufficiencyStatus, findings, ask, ingest, created, createdLater, delayed, active, pc>> /\ dispatching' = {}
    BY <1>3 DEF DispatchAdd, ticketVars, callVars
  <2>3. wait' = wait \/ wait' = Append(wait, j)
    BY <1>3, <2>1 DEF DispatchAdd, Enqueue
  <2>4. CreatedFirst' /\ DispatchedFirst' /\ AnalysedFirst'
    BY <1>b, <2>2 DEF FirstInv, CreatedFirst, DispatchedFirst, AnalysedFirst, Untouched
  <2>5. IsInitial(j) => wait = <<>> /\ active = {} /\ Untouched
    BY <1>b, <2>1 DEF FirstInv, DispatchedFirst, IsInitial
  <2>6. WaitingFirst'
    BY <1>a, <1>b, <2>2, <2>3, <2>5 DEF FirstInv, WaitingFirst, Untouched
  <2> QED BY <1>d, <2>2, <2>4, <2>6
<1>4. CASE Take
  <2>1. PICK w : w = wait'
    OBVIOUS
  <2>2. /\ \A i \in DOMAIN w : i \in Nat \ {0} /\ i + 1 \in DOMAIN wait /\ w[i] = wait[i + 1]
        /\ active' = {wait[1]} /\ 1 \in DOMAIN wait
    BY <1>a, <1>4, <2>1 DEF Take
  <2>3. UNCHANGED <<status, sufficiencyStatus, findings, ask, ingest, createdLater, created, dispatching, delayed>> /\ wait # <<>>
    BY <1>4 DEF Take, ticketVars, dispatchVars, callVars
  <2>4. \A i \in DOMAIN w : ~IsInitial(w[i])
    <3> TAKE i \in DOMAIN w
    <3>1. i + 1 # 1
      BY <2>2
    <3> QED BY <1>b, <2>2, <3>1 DEF FirstInv, WaitingFirst
  <2>5. WaitingFirst' /\ AnalysedFirst'
    BY <1>b, <2>1, <2>2, <2>3, <2>4 DEF FirstInv, WaitingFirst, AnalysedFirst, Untouched
  <2>6. CreatedFirst' /\ DispatchedFirst'
    BY <1>b, <2>3 DEF FirstInv, CreatedFirst, DispatchedFirst
  <2> QED BY <1>d, <2>3, <2>5, <2>6
<1>5. ASSUME NEW j \in active, Guard(j) PROVE FirstInv'
  BY <1>f, <1>g, <1>h, <1>5 DEF Guard, callVars
<1>6. ASSUME NEW j \in active, Refuse(j) PROVE FirstInv'
  BY <1>e, <1>g, <1>h, <1>6 DEF Refuse, ticketVars, dispatchVars, analysisVars, callVars, historyVars, Leave
<1>7. ASSUME NEW j \in active, Load(j) PROVE FirstInv'
  BY <1>f, <1>g, <1>h, <1>7 DEF Load, callVars, ticketVars
<1>8. ASSUME NEW j \in active, Skip(j) PROVE FirstInv'
  BY <1>e, <1>g, <1>h, <1>8 DEF Skip, ticketVars, dispatchVars, analysisVars, callVars, historyVars, Leave
<1>9. ASSUME NEW j \in active, Analyse(j) PROVE FirstInv'
  <2>1. status = "NEW"
    BY <1>b, <1>9 DEF Analyse, FirstInv, AnalysedFirst, IsInitial, IsReanalysis, Untouched
  <2>2. Understood'
    BY <1>b, <1>9, <2>1 DEF Analyse, StatusAfterVerdict, FirstInv, Understood
  <2> QED BY <1>f, <1>9, <2>2 DEF Analyse
<1>10. ASSUME NEW j \in active, Update(j) PROVE FirstInv'
  <2>1. Understood'
    BY <1>b, <1>10 DEF Update, StatusAfterVerdict, FirstInv, Understood
  <2> QED BY <1>f, <1>10, <2>1 DEF Update
<1>11. ASSUME NEW j \in active, Send(j) PROVE FirstInv'
  <2>1. Understood'
    BY <1>b, <1>11 DEF Send, FirstInv, Understood
  <2> QED BY <1>f, <1>11, <2>1 DEF Send
<1>12. ASSUME NEW j \in active, Conclude(j) PROVE FirstInv'
  <2>1. UNCHANGED <<dispatchVars, wait, delayed, status, sufficiencyStatus>> /\ pc' \in {"completed", "idle"}
    BY <1>12 DEF Conclude, Leave
  <2>2. (ask' = FALSE /\ active' = {}) \/ UNCHANGED <<ask, active>>
    BY <1>12 DEF Conclude, Leave
  <2>3. Understood'
    BY <1>g, <2>1, <2>2
  <2> QED BY <1>b, <2>1, <2>2, <2>3, <1>12
          DEF Conclude, FirstInv, dispatchVars, CreatedFirst, DispatchedFirst, WaitingFirst, AnalysedFirst, Untouched, callVars
<1>13. ASSUME NEW j \in active, Open(j) PROVE FirstInv'
  <2>1. pc = "completed" /\ active' = {} /\ ask' = FALSE /\ UNCHANGED <<dispatchVars, wait, delayed, sufficiencyStatus>>
    BY <1>13 DEF Open, Leave
  <2>2. Understood'
    BY <1>b, <1>13, <2>1 DEF Open, StatusWhenAnalysed, FirstInv, Understood
  <2>3. active # {}
    OBVIOUS
  <2> QED BY <1>b, <2>1, <2>2, <2>3
          DEF FirstInv, dispatchVars, CreatedFirst, DispatchedFirst, WaitingFirst, AnalysedFirst
<1>14. ASSUME NEW j \in delayed, Again(j) PROVE FirstInv'
  BY <1>b DEF FirstInv
<1>15. ASSUME NEW d \in createdLater, DispatchAgain(d) PROVE FirstInv'
  BY <1>b DEF FirstInv
<1>16. CASE ReplyGate
  <2>1. Untouched => ingest'.pc \in {"idle", "recorded"}
    BY <1>16 DEF ReplyGate, Untouched, Recognised, SkipReply, NotIngesting
  <2>2. UNCHANGED <<status, findings>> /\ (Untouched => Untouched')
    BY <1>h, <1>16, <2>1 DEF ReplyGate, ticketVars, Untouched
  <2> QED BY <1>e, <1>g, <1>16, <2>2 DEF ReplyGate, ticketVars, analysisVars
<1>17. CASE ReplyScan
  <2>1. ~Untouched
    BY <1>17 DEF ReplyScan, Untouched
  <2> QED BY <1>e, <1>g, <1>17, <2>1 DEF ReplyScan, ticketVars, analysisVars
<1>18. CASE ReplyAdd
  <2>1. ~Untouched
    BY <1>18 DEF ReplyAdd, Untouched
  <2>2. PICK j \in Job : j = NewJob("reply", ingest.reply, Last(Mails)) /\ ~IsInitial(j)
    BY <1>18, ReplyJob DEF ReplyAdd, Basics, NewJob, IsInitial
  <2>3. wait' = wait \/ wait' = Append(wait, j)
    BY <1>18, <2>2 DEF ReplyAdd, Enqueue
  <2>4. UNCHANGED <<dispatchVars, delayed, active, pc, status, sufficiencyStatus, ask>>
    BY <1>18 DEF ReplyAdd, ticketVars
  <2>5. WaitingFirst'
    BY <1>a, <1>b, <2>1, <2>2, <2>3 DEF FirstInv, WaitingFirst
  <2>6. CreatedFirst' /\ DispatchedFirst' /\ AnalysedFirst'
    BY <1>b, <2>1, <2>4 DEF FirstInv, dispatchVars, CreatedFirst, DispatchedFirst, AnalysedFirst
  <2> QED BY <1>b, <1>g, <2>4, <2>5, <2>6 DEF FirstInv, dispatchVars
<1>19. CASE Crash
  BY <1>c, <1>19 DEF Crash
<1>20. CASE ReplyFails
  BY <1>c, <1>20 DEF ReplyFails
<1>21. ASSUME NEW j \in active, Fail(j) PROVE FirstInv'
  BY <1>c, <1>21 DEF Fail
<1>22. ASSUME NEW j \in active, FailUnrecorded(j) PROVE FirstInv'
  BY <1>c, <1>22 DEF FailUnrecorded
<1>23. ASSUME NEW d \in dispatching, DispatchFails(d) PROVE FirstInv'
  BY <1>c, <1>23 DEF DispatchFails
<1>24. ASSUME NEW o \in Operators, ClickFails(o) PROVE FirstInv'
  BY <1>e, <1>g, <1>h, <1>24
     DEF ClickFails, ticketVars, dispatchVars, analysisVars, callVars, historyVars, Leave
<1>25. ASSUME NEW o \in Operators, ClickRead(o) PROVE FirstInv'
  BY <1>e, <1>g, <1>h, <1>25
     DEF ClickRead, ticketVars, dispatchVars, analysisVars, callVars, historyVars, Leave
<1>26. ASSUME NEW o \in Operators, ClickMark(o) PROVE FirstInv'
  BY <1>e, <1>g, <1>h, <1>26
     DEF ClickMark, ticketVars, dispatchVars, analysisVars, callVars, historyVars, Leave
<1>27. ASSUME NEW o \in Operators, ClickAdd(o) PROVE FirstInv'
  <2>a. PICK j \in Job : j = NewJob("click", request[o].n, 0)
    BY RequestTypes, JobTypes DEF Kinds, Basics
  <2>1. j = NewJob("click", request[o].n, 0) /\ ~IsInitial(j)
    BY <2>a DEF NewJob, IsInitial
  <2>2. created' = Append(created, j) /\ UNCHANGED <<createdLater, dispatching, wait, delayed, active, pc>>
    BY <1>27, <2>1 DEF ClickAdd, analysisVars
  <2>3. UNCHANGED <<status, sufficiencyStatus, findings, ask, ingest>>
    BY <1>27 DEF ClickAdd, ticketVars, analysisVars
  <2>4. CreatedFirst'
    BY <1>a, <1>b, <2>1, <2>2, <2>3 DEF FirstInv, CreatedFirst, Untouched
  <2>5. DispatchedFirst' /\ WaitingFirst' /\ AnalysedFirst'
    BY <1>b, <2>2, <2>3 DEF FirstInv, DispatchedFirst, WaitingFirst, AnalysedFirst, Untouched
  <2> QED BY <1>d, <2>2, <2>3, <2>4, <2>5
<1>28. ASSUME NEW o \in Operators, ClickEnd(o) PROVE FirstInv'
  BY <1>e, <1>g, <1>h, <1>28
     DEF ClickEnd, ticketVars, dispatchVars, analysisVars, callVars, historyVars, Leave
<1>29. ASSUME NEW o \in Operators, ChatPost(o) PROVE FirstInv'
  BY <1>c, <1>29 DEF ChatPost
<1>30. ASSUME NEW o \in Operators, ChatPick(o) PROVE FirstInv'
  BY <1>c, <1>30 DEF ChatPick
<1>31. ASSUME NEW o \in Operators, ChatAdd(o) PROVE FirstInv'
  BY <1>b, <1>31 DEF ChatAdd, Untroubled, Basics, CallsKnown
<1>32. ASSUME NEW o \in Operators, ChatMark(o) PROVE FirstInv'
  BY <1>b, <1>32 DEF ChatMark, Untroubled, Basics, CallsKnown
<1>33. CASE ReplyArrives
  <2>1. ingest'.pc = "recorded"
    BY <1>33 DEF ReplyArrives
  <2> QED BY <1>e, <1>g, <1>h, <1>33, <2>1 DEF ReplyArrives, analysisVars
<1>34. CASE Patch
  BY <1>c, <1>34 DEF Patch
<1>35. CASE UNCHANGED vars
  BY <1>e, <1>g, <1>h, <1>35 DEF vars, ticketVars, analysisVars, callVars
<1>36. ASSUME NEW j \in active, Process(j) PROVE FirstInv'
  BY <1>5, <1>6, <1>7, <1>8, <1>9, <1>10, <1>11, <1>12, <1>13, <1>36 DEF Process
<1>37. CASE Trouble
  BY <1>19, <1>20, <1>21, <1>22, <1>23, <1>24, <1>37 DEF Trouble
<1>38. ASSUME NEW o \in Operators, Handle(o) \/ Request(o) PROVE FirstInv'
  BY <1>25, <1>26, <1>27, <1>28, <1>29, <1>30, <1>31, <1>32, <1>38 DEF Handle, Request
<1>39. CASE Dispatch \/ Analysis \/ BackOff \/ Ingest
  BY <1>1, <1>2, <1>3, <1>4, <1>14, <1>15, <1>16, <1>17, <1>18, <1>36, <1>39
     DEF Dispatch, Analysis, BackOff, Ingest
<1> QED
  BY <1>33, <1>34, <1>35, <1>37, <1>38, <1>39 DEF Next
-----------------------------------------------------------------------------
(* The invariant *)

\* What holds always, one step after another.
AnalysisInv ==
    /\ Basics /\ QueueTried /\ OuterTried /\ OuterInv /\ KnownInv /\ ReplyAlone /\ Counted
    /\ Relied /\ SettledOrOwed /\ AskedWaits /\ InitialFirst


\* The invariant holds at the start,
LEMMA AnalysisInvInit == Init => AnalysisInv
PROOF
<1> SUFFICES ASSUME Init PROVE AnalysisInv
  OBVIOUS
<1>1. PICK j \in Job : j = NewJob("initial", 0, 0)
  BY JobTypes DEF Kinds
<1>2. j.kind = "initial" /\ j.n = 0 /\ j.attempt = 0 /\ j.stalls = 0
  BY <1>1 DEF NewJob
<1>3. created = <<j>> /\ createdLater = {} /\ dispatching = {} /\ wait = <<>> /\ delayed = {} /\ active = {}
  BY <1>1 DEF Init
<1>4. spent = [w \in DOMAIN Bounds |-> 0] /\ \A w \in DOMAIN Bounds : spent[w] = 0
  BY DEF Init
<1>5. TypeOK
  <2>1. TicketTypes
    <3>1. thread \in Seq({"mail", "chat"})
      <4>1. <<>> \in Seq({"mail", "chat"}) /\ <<"mail">> \in Seq({"mail", "chat"})
        OBVIOUS
      <4> QED BY <4>1 DEF Init
    <3>2. reanalysisCount \in Int /\ findings \subseteq FindingsType
      BY DEF Init
    <3>3. status \in Status /\ analysisStatus \in AnalysisStatus /\ sufficiencyStatus \in SufficiencyStatus
      BY DEF Init, Status, OpenStatus, AnalysisStatus, SufficiencyStatus
    <3> QED BY <3>1, <3>2, <3>3 DEF TicketTypes
  <2>2. DispatchTypes /\ AnalysisTypes
    <3>1. created \in Seq(Job) /\ wait \in Seq(Job)
      BY <1>3
    <3>2. dispatchPc = "idle" /\ pc = "idle" /\ finished = {} /\ read = {} /\ ask = FALSE
      BY DEF Init
    <3> QED BY <1>3, <3>1, <3>2 DEF DispatchTypes, AnalysisTypes
  <2>3. NoRequest \in Requested /\ NotIngesting \in Ingesting
    BY DEF NoRequest, Requested, AnalysisStatus, NotIngesting, Ingesting
  <2>4. CallTypes
    BY <2>3 DEF Init, CallTypes
  <2>5. HistoryTypes /\ SpentTypes
    <3>1. covered = {} /\ cycles = 0 /\ rounds = 0 /\ skipped = {} /\ limited = FALSE
      BY DEF Init
    <3> QED BY <1>4, <3>1 DEF HistoryTypes, SpentTypes
  <2> QED BY <2>1, <2>2, <2>4, <2>5 DEF TypeOK
<1>6. \A o \in Operators : request[o].pc = "idle"
  BY DEF Init, NoRequest
<1>7. Basics
  BY <1>5, <1>6 DEF Init, Basics, CallsKnown, NotIngesting, Alone
<1>8. QueueTried /\ OuterTried
  BY <1>2, <1>3, <1>4, Accounts DEF QueueTried, OuterTried, Tried
<1>9. OuterKinds /\ OuterIds /\ RequestsNew
  BY <1>2, <1>3, <1>6 DEF OuterKinds, OuterSet, Elements, Outer, OuterIds, RequestsNew, Asking
<1>10. ReplyAlone
  BY <1>3 DEF ReplyAlone, Init, NotIngesting
<1>11. Counted
  BY <1>3, BoundsAssumption DEF Counted, Init
<1>12. KnownInv
  <2>1. KnownIds = {}
    BY <1>3 DEF Init, KnownIds, InFlight, Elements
  <2> QED BY <2>1 DEF KnownInv, OuterUnknown, RequestsUnknown, ClicksKnown
<1>13. Relied /\ SettledOrOwed
  BY <1>3 DEF Relied, SettledOrOwed, Owed, Init
<1>14. AskedWaits
  BY DEF AskedWaits, Init
<1>15. InitialFirst
  <2>1. Understood /\ Untouched
    BY DEF Understood, Untouched, Init, NotIngesting
  <2>2. CreatedFirst /\ DispatchedFirst /\ WaitingFirst /\ AnalysedFirst
    BY <1>3, <2>1 DEF CreatedFirst, DispatchedFirst, WaitingFirst, AnalysedFirst
  <2> QED BY <1>3, <2>1, <2>2 DEF InitialFirst, FirstInv
<1> QED BY <1>7, <1>8, <1>9, <1>10, <1>11, <1>12, <1>13, <1>14, <1>15 DEF AnalysisInv, OuterInv

\* and after every step.
LEMMA AnalysisInvStep == AnalysisInv /\ [Next]_vars => AnalysisInv'
PROOF
  BY BasicsStep, TriedStep, OuterStep, KnownStep, ReplyAloneStep, CountedStep,
     ReliedStep, SettledStep, AskedStep, FirstStep
     DEF AnalysisInv

\* The invariant holds always.
THEOREM AnalysisInvariance == Spec => []AnalysisInv
PROOF
<1>1. Init => AnalysisInv
  BY AnalysisInvInit
<1>2. AnalysisInv /\ [Next]_vars => AnalysisInv'
  BY AnalysisInvStep
<1> QED BY <1>1, <1>2, PTL DEF Spec

\* Every variable keeps to its values.
THEOREM TypeInvariance == Spec => []TypeOK
PROOF
<1>1. AnalysisInv => TypeOK
  BY DEF AnalysisInv, Basics
<1> QED BY <1>1, AnalysisInvariance, PTL

\* While no job throws, every finished re-analysis was counted and the count
\* keeps to the limit (processAnalysis: the loop guard).
THEOREM CyclesAreCounted == Spec => []CyclesCounted
PROOF
<1>1. AnalysisInv => CyclesCounted
  BY DEF AnalysisInv, Counted, CyclesCounted
<1> QED BY <1>1, AnalysisInvariance, PTL

\* While no job throws, fewer re-analyses ask the requester again than it takes
\* to give the questions up (executeRoutePipeline: the escalation).
THEOREM RoundsAreBounded == Spec => []RoundsBounded
PROOF
<1>1. AnalysisInv => RoundsBounded
  BY DEF AnalysisInv, Counted, RoundsBounded
<1> QED BY <1>1, AnalysisInvariance, PTL

\* Replies never put two jobs of their own into the queue
\* (maybeEnqueueReanalysis: the scan, with clicks and the worker in between).
THEOREM OneJobOfAReply == Spec => []OneReplyJob
PROOF
<1>1. ASSUME AnalysisInv PROVE OneReplyJob
  <2> DEFINE R == {j \in InFlight : j.kind = "reply"}
  <2>1. \A a, b \in active : a = b
    BY <1>1 DEF AnalysisInv, Basics, Alone
  <2>2. \A a, b \in R : a = b
    BY <1>1, <2>1 DEF AnalysisInv, ReplyAlone, IsReply, InFlight, Elements
  <2>3. CASE R = {}
    <3>1. Cardinality(R) = 0
      BY <2>3, FS_EmptySet
    <3> QED BY <3>1 DEF OneReplyJob
  <2>4. ASSUME NEW r \in R PROVE OneReplyJob
    <3>1. R = {r}
      BY <2>2
    <3>2. Cardinality(R) = 1
      BY <3>1, FS_Singleton
    <3> QED BY <3>2 DEF OneReplyJob
  <2> QED BY <2>3, <2>4
<1> QED BY <1>1, AnalysisInvariance, PTL

\* A reply that relied on a waiting job was read by it once the queues rest, or
\* the job was refused or lost (maybeEnqueueReanalysis, loadAnalysisContext).
THEOREM RedundantRepliesAreRead == Spec => []RedundantReplyRead
PROOF
<1>1. ASSUME AnalysisInv PROVE RedundantReplyRead
  <2> SUFFICES ASSUME Quiet, Few, NEW s \in skipped, s.why = "redundant" PROVE s.reply \in covered
    BY DEF RedundantReplyRead, Few
  <2>1. s.reply \in covered \/ HasRead(s.reply) \/ WillRead
    BY <1>1 DEF AnalysisInv, Relied
  <2> QED BY <2>1 DEF Quiet, HasRead, WillRead
<1> QED BY <1>1, AnalysisInvariance, PTL

\* With the queues at rest the ticket says that its analysis has ended, while
\* nothing of what strands it happens (the click's PENDING and the dispatcher's
\* IN_PROGRESS are each followed by a job that ends in COMPLETED or FAILED).
THEOREM SettledWhenItRests == Spec => []SettledWhenQuiet
PROOF
<1>1. ASSUME AnalysisInv PROVE SettledWhenQuiet
  <2> SUFFICES ASSUME Quiet, Plain PROVE Settled
    BY DEF SettledWhenQuiet, Plain, Few
  <2>1. Settled \/ Owed
    BY <1>1 DEF AnalysisInv, SettledOrOwed
  <2> QED BY <2>1 DEF Quiet, Idle, Owed
<1> QED BY <1>1, AnalysisInvariance, PTL

\* A ticket at rest waits for its requester when the last analysis asked, and
\* unless a run was cut short or overtaken, only then.
THEOREM WaitsWhenAsked == Spec => []WaitingWhenAsked
PROOF
<1>1. ASSUME AnalysisInv PROVE WaitingWhenAsked
  <2>1. \A w \in {"errors", "crashes", "chats"} : spent[w] \in Nat
    BY <1>1, Accounts DEF AnalysisInv, Basics, TypeOK, SpentTypes
  <2>2. spent.errors \in Nat /\ spent.crashes \in Nat /\ spent.chats \in Nat
    BY <2>1
  <2>3. spent.patches = 0 /\ spent.errors + spent.crashes + spent.chats = 0 => Untroubled
    BY <2>2 DEF Untroubled
  <2>4. Untroubled => (sufficiencyStatus = "SUFFICIENT" => status # "WAITING")
    BY <1>1 DEF AnalysisInv, InitialFirst, FirstInv, Understood
  <2> QED BY <1>1, <2>3, <2>4 DEF AnalysisInv, AskedWaits, WaitingWhenAsked
<1> QED BY <1>1, AnalysisInvariance, PTL

=============================================================================
