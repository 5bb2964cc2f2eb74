-------------------------- MODULE DevOpsWorkflowProofs --------------------------
(***************************************************************************)
(* The conversation on a work item for any number of rounds, attempts,     *)
(* comments and troubles, and for windows of any size: no comment is lost, *)
(* a plan is carried out once, after it was proposed and answered, and an  *)
(* operational task is not left in a state that no job takes up.           *)
(***************************************************************************)
EXTENDS DevOpsWorkflow, TLAPS

-----------------------------------------------------------------------------
(* Types *)

\* What leaves variables as they are leaves their types.
LEMMA KeptTypes ==
    TypeOK => /\ UNCHANGED itemVars => ItemTypes'
              /\ UNCHANGED rowVars => RowTypes'
              /\ UNCHANGED queueVars => QueueTypes'
              /\ UNCHANGED jobVars => JobTypes'
              /\ UNCHANGED historyVars => HistoryTypes'
              /\ UNCHANGED spent => SpentTypes'
PROOF
  BY DEF TypeOK, itemVars, ItemTypes, rowVars, RowTypes, queueVars, QueueTypes, jobVars, JobTypes,
         historyVars, HistoryTypes, SpentTypes

\* Comments, and posting them.
LEMMA CommentTypes == Human \in CommentType /\ \A p \in Nat : Bot(p) \in CommentType
PROOF
  BY DEF Human, Bot, CommentType

LEMMA PostTypes ==
    ASSUME ItemTypes, NEW c \in CommentType, Post(c)
    PROVE  ItemTypes'
PROOF
  BY DEF ItemTypes, Post

LEMMA BotPosts ==
    ASSUME TypeOK, NEW p \in Nat, Post(Bot(p))
    PROVE  ItemTypes'
PROOF
  BY CommentTypes, PostTypes DEF TypeOK

\* A transition to a state.
LEMMA CASTypes ==
    ASSUME TypeOK, NEW a \in WorkflowState, NEW b \in WorkflowState, CAS(a, b)
    PROVE  RowTypes'
PROOF
  BY DEF TypeOK, RowTypes, CAS

\* Adding events.
LEMMA EventTypes ==
    TypeOK => /\ Note \/ NoteTwice \/ Outbound => events' \in Seq(Event)
              /\ UNCHANGED events => events' \in Seq(Event)
              /\ \A e \in Event : events' = Append(events, e) => events' \in Seq(Event)
PROOF
<1> SUFFICES ASSUME TypeOK PROVE /\ Note \/ NoteTwice \/ Outbound => events' \in Seq(Event)
                                 /\ UNCHANGED events => events' \in Seq(Event)
                                 /\ \A e \in Event : events' = Append(events, e) => events' \in Seq(Event)
  OBVIOUS
<1>1. events \in Seq(Event)
  BY DEF TypeOK
<1>2. PICK e \in Event, o \in Event : e = Noted /\ o = [type |-> "outbound", n |-> 0]
  BY DEF Noted, Event
<1>3. Append(events, e) \in Seq(Event) /\ Append(events, o) \in Seq(Event)
  BY <1>1
<1>4. Append(Append(events, e), e) \in Seq(Event)
  BY <1>3
<1> QED BY <1>1, <1>2, <1>3, <1>4 DEF Note, NoteTwice, Outbound

\* A job that ends, or goes on.
LEMMA NothingRead == Nothing \in Read
PROOF
  BY DEF Nothing, Read

LEMMA JobSteps ==
    TypeOK => /\ Complete => JobTypes'
              /\ \A p \in Steps : Continue(p) => JobTypes'
PROOF
  BY NothingRead DEF TypeOK, JobTypes, Steps, Complete, Continue

\* Spending keeps the account's type.
LEMMA SpendType ==
    ASSUME TypeOK, NEW w \in {"edits", "vague", "errors", "outages", "crashes", "comments"}, Spend(w) \/ Suffer(w)
    PROVE  SpentTypes'
PROOF
<1>1. PICK n \in Nat : n = spent[w] + 1
  BY DEF TypeOK, SpentTypes, Troubles
<1>2. spent' = [spent EXCEPT ![w] = n]
  BY <1>1 DEF Spend, Suffer
<1> QED BY <1>1, <1>2 DEF TypeOK, SpentTypes

\* A job that throws is one that may be tried again.
LEMMA ThrowTypes ==
    ASSUME TypeOK, Throw
    PROVE  QueueTypes' /\ JobTypes' /\ ItemTypes' /\ RowTypes' /\ HistoryTypes'
           /\ events' \in Seq(Event) /\ mode' = mode
PROOF
<1>1. \A j \in Job : [j EXCEPT !.attempt = j.attempt + 1] \in Job
  <2> SUFFICES ASSUME NEW j \in Job PROVE [j EXCEPT !.attempt = j.attempt + 1] \in Job
    OBVIOUS
  <2>1. PICK n \in Nat : n = j.attempt + 1
    BY DEF Job
  <2> QED BY <2>1 DEF Job
<1>2. delayed' \subseteq Job /\ wait' = wait
  BY <1>1 DEF TypeOK, QueueTypes, JobTypes, Throw
<1>3. QueueTypes'
  BY <1>2 DEF TypeOK, QueueTypes
<1> QED BY <1>3, KeptTypes, EventTypes, JobSteps DEF Throw, TypeOK

\* Every step keeps the types; actions without a proof of their own do nothing but
\* what the lemmas above are about.
LEMMA TypesStep == TypeOK /\ [Next]_vars => TypeOK'
PROOF
<1> SUFFICES ASSUME TypeOK, [Next]_vars PROVE TypeOK'
  OBVIOUS
<1> USE KeptTypes, CommentTypes, PostTypes, BotPosts, CASTypes, EventTypes, JobSteps, SpendType, ThrowTypes,
        WorkflowAssumption
    DEF TypeOK
<1>1. CASE Comment
  BY <1>1 DEF Comment, Say, Steps, WorkflowState
<1>2. CASE Edit
  <2>1. ItemTypes'
    BY <1>2 DEF Edit, ItemTypes
  <2> QED BY <1>2, <2>1 DEF Edit
<1>3. CASE Poll
  <2>1. PICK j \in Job : j = [attempt |-> 0, stalls |-> 0]
    BY DEF Job
  <2>2. QueueTypes'
    <3>1. wait' = Append(wait, j) /\ delayed' = delayed
      BY <1>3, <2>1 DEF Poll
    <3> QED BY <3>1 DEF QueueTypes
  <2>3. ItemTypes'
    BY <1>3 DEF Poll, ItemTypes
  <2> QED BY <1>3, <2>2, <2>3 DEF Poll
<1>4. CASE Link
  <2>1. RowTypes'
    BY <1>4 DEF Link, RowTypes, JobTypes, Read
  <2> QED BY <1>4, <2>1 DEF Link, Steps
<1>5. CASE Take
  <2>1. Head(wait) \in Job /\ Tail(wait) \in Seq(Job)
    BY <1>5 DEF Take, QueueTypes
  <2>2. QueueTypes' /\ JobTypes'
    BY <1>5, <2>1 DEF Take, QueueTypes, JobTypes, Steps
  <2> QED BY <1>5, <2>2 DEF Take
<1>6. CASE Load
  <2>1. seen' \in Read
    BY <1>6 DEF Load, Read, Nothing, ItemTypes
  <2>2. JobTypes'
    BY <1>6, <2>1 DEF Load, JobTypes, Steps
  <2> QED BY <1>6, <2>2 DEF Load
<1>7. CASE CreateTask
  <2>1. RowTypes'
    BY <1>7 DEF CreateTask, RowTypes, JobTypes, Read
  <2>2. seen' \in Read
    BY <1>7 DEF CreateTask, JobTypes, Read
  <2>3. JobTypes'
    BY <1>7, <2>2 DEF CreateTask, JobTypes, Steps
  <2> QED BY <1>7, <2>1, <2>3 DEF CreateTask
<1>8. CASE Register
  <2>1. RowTypes'
    BY <1>8 DEF Register, RowTypes, JobTypes, Read
  <2> QED BY <1>8, <2>1 DEF Register, Steps
<1>9. CASE AddIngest
  <2>1. RowTypes'
    BY <1>9 DEF AddIngest, RowTypes, JobTypes, Read
  <2> QED BY <1>9, <2>1 DEF AddIngest, Steps
<1>10. CASE RecordRevision
  <2>1. RowTypes'
    BY <1>10 DEF RecordRevision, RowTypes, JobTypes, Read
  <2> QED BY <1>10, <2>1 DEF RecordRevision, Steps
<1>11. CASE ReadComments
  <2>1. PICK n \in Nat : n = Len(comments)
    BY DEF ItemTypes
  <2>2. batch' \subseteq Nat
    BY <1>11, <2>1 DEF ReadComments, RowTypes
  <2>3. seen' \in Read
    BY <1>11, <2>1 DEF ReadComments, JobTypes, Read
  <2>4. JobTypes'
    BY <1>11, <2>2, <2>3 DEF ReadComments, JobTypes, Steps
  <2> QED BY <1>11, <2>4 DEF ReadComments
<1>12. CASE NoComments
  BY <1>12 DEF NoComments, Say, Steps, WorkflowState
<1>13. CASE RecordComment
  <2>1. PICK c \in batch : events' = Append(events, [type |-> "inbound", n |-> c]) /\ batch' = batch \ {c}
    BY <1>13 DEF RecordComment
  <2>2. PICK e \in Event : e = [type |-> "inbound", n |-> c]
    BY DEF Event, JobTypes
  <2>3. JobTypes'
    BY <1>13, <2>1 DEF RecordComment, JobTypes
  <2>4. events' \in Seq(Event)
    BY <2>1, <2>2
  <2> QED BY <1>13, <2>3, <2>4 DEF RecordComment
<1>14. CASE MoveWatermark
  <2>1. RowTypes'
    BY <1>14 DEF MoveWatermark, RowTypes, JobTypes, Read, Watermark
  <2> QED BY <1>14, <2>1 DEF MoveWatermark, Steps
<1>15. CASE NoEntity
  BY <1>15 DEF NoEntity, Say, Steps, WorkflowState
<1>16. CASE NoEntitySync
  <2>1. JobTypes'
    BY <1>16 DEF NoEntitySync, JobTypes, Steps, Read
  <2> QED BY <1>16, <2>1 DEF NoEntitySync
<1>17. CASE Skip
  BY <1>17 DEF Skip, Say, Steps, WorkflowState
<1>18. CASE StartAnalysis
  BY <1>18 DEF StartAnalysis, Say, Steps, WorkflowState
<1>19. CASE CheckAnswers
  BY <1>19 DEF CheckAnswers, Say, Steps, WorkflowState
<1>20. CASE CheckApproval
  BY <1>20 DEF CheckApproval, Say, Steps, WorkflowState
<1>21. CASE Analyze
  BY <1>21 DEF Analyze, Say, Steps, WorkflowState
<1>22. CASE Analyzed
  BY <1>22 DEF Analyzed, Say, Steps, WorkflowState
<1>23. CASE NoAnswers
  BY <1>23 DEF NoAnswers, Say, Steps, WorkflowState
<1>24. CASE Answers
  <2>1. Forced \in BOOLEAN
    BY DEF Forced
  <2>2. [seen EXCEPT !.force = Forced] \in Read
    BY <2>1 DEF JobTypes, Read
  <2>3. JobTypes'
    BY <1>24, <2>2 DEF Answers, JobTypes, Steps
  <2> QED BY <1>24, <2>3 DEF Answers
<1>25. CASE FollowUp
  BY <1>25 DEF FollowUp, Say, Steps, WorkflowState
<1>26. CASE Ready
  BY <1>26 DEF Ready, Say, Steps, WorkflowState
<1>27. CASE Said
  BY <1>27 DEF Said, Say, Steps, WorkflowState
<1>28. CASE Vague
  <2>1. RowTypes' /\ ItemTypes'
    BY <1>28 DEF Vague, StateWithoutPlan, WorkflowState
  <2> QED BY <1>28, <2>1 DEF Vague
<1>29. CASE StorePlan
  <2>1. PICK R \in SUBSET Nat : R = Recorded
    <3>1. \A k \in DOMAIN events : events[k] \in Event
      OBVIOUS
    <3>2. \A e \in Event : e.n \in Nat
      BY DEF Event
    <3> QED BY <3>1, <3>2 DEF Recorded
  <2>2. PICK n \in Nat : n = Len(heard) + 1
    BY DEF HistoryTypes
  <2>3. RowTypes' /\ HistoryTypes'
    BY <1>29, <2>1, <2>2 DEF StorePlan, RowTypes, HistoryTypes
  <2> QED BY <1>29, <2>3 DEF StorePlan, Steps
<1>30. CASE PostPlan
  <2>1. PICK p \in Nat : p = plan
    BY DEF RowTypes
  <2>2. Post(Bot(p))
    BY <1>30, <2>1 DEF PostPlan, Say
  <2>3. ItemTypes'
    BY <2>2
  <2> QED BY <1>30, <2>3 DEF PostPlan, Say, Steps
<1>31. CASE Propose
  <2>1. PICK e \in Event : e = [type |-> "proposed", n |-> plan]
    BY DEF RowTypes, Event
  <2>2. events' \in Seq(Event)
    BY <1>31, <2>1 DEF Propose
  <2> QED BY <1>31, <2>2 DEF Propose, Steps
<1>32. CASE AwaitApproval
  BY <1>32 DEF AwaitApproval, Say, Steps, WorkflowState
<1>33. CASE NoReply
  BY <1>33 DEF NoReply, Say, Steps, WorkflowState
<1>34. CASE Approve
  <2>1. PICK k \in DOMAIN events : seen' = [seen EXCEPT !.by = events[k].n]
    BY <1>34 DEF Approve
  <2>2. seen' \in Read
    <3>1. events[k] \in Event
      OBVIOUS
    <3>2. PICK n \in Nat : n = events[k].n
      BY <3>1 DEF Event
    <3> QED BY <2>1, <3>2 DEF JobTypes, Read
  <2>3. JobTypes' /\ RowTypes'
    BY <1>34, <2>2 DEF Approve, JobTypes, Steps, WorkflowState
  <2> QED BY <1>34, <2>3 DEF Approve
<1>35. CASE Reject
  BY <1>35 DEF Reject, Say, Steps, WorkflowState
<1>36. CASE Clarify
  BY <1>36 DEF Clarify, Say, Steps, WorkflowState
<1>37. CASE Acknowledge
  BY <1>37 DEF Acknowledge, Say, Steps, WorkflowState
<1>38. CASE Explain
  BY <1>38 DEF Explain, Say, Steps, WorkflowState
<1>39. CASE Announce
  BY <1>39 DEF Announce, Say, Steps, WorkflowState
<1>40. CASE Execute
  <2>1. PICK e \in [plan : Nat, by : Nat] : e = [plan |-> plan, by |-> seen.by]
    BY DEF RowTypes, JobTypes, Read
  <2>2. HistoryTypes'
    BY <1>40, <2>1 DEF Execute, HistoryTypes
  <2> QED BY <1>40, <2>2 DEF Execute, Steps
<1>41. CASE Finish
  BY <1>41 DEF Finish, Say, Steps, WorkflowState
<1>42. CASE Again
  <2>1. QueueTypes'
    BY <1>42 DEF Again, QueueTypes
  <2> QED BY <1>42, <2>1 DEF Again
<1>43. CASE JobFails
  BY <1>43 DEF JobFails, Say, Steps, WorkflowState
<1>44. CASE LockLeaks
  BY <1>44 DEF LockLeaks, Say, Steps, WorkflowState
<1>45. CASE SyncFails
  <2>1. JobTypes'
    BY <1>45 DEF SyncFails, JobTypes, Steps, Read
  <2> QED BY <1>45, <2>1 DEF SyncFails
<1>46. CASE RollBack
  <2>1. RowTypes'
    BY <1>46 DEF RollBack, RolledBack, RowTypes, WorkflowState
  <2> QED BY <1>46, <2>1 DEF RollBack
<1>47. CASE NoteFailure
  BY <1>47 DEF NoteFailure, Say, Steps, WorkflowState
<1>48. CASE GiveUp
  BY <1>48 DEF GiveUp, Say, Steps, WorkflowState
<1>49. CASE Crash
  <2>1. ASSUME UNCHANGED wait PROVE QueueTypes'
    BY <1>49, <2>1 DEF Crash, QueueTypes
  <2>2. ASSUME NEW j \in active, wait' = IF j.stalls = 0 THEN <<[j EXCEPT !.stalls = 1]>> \o wait ELSE wait
        PROVE  QueueTypes'
    <3>1. PICK k \in Job : k = [j EXCEPT !.stalls = 1]
      BY DEF JobTypes, Job
    <3>2. <<k>> \in Seq(Job) /\ wait \in Seq(Job) /\ <<k>> \o wait \in Seq(Job)
      BY DEF QueueTypes
    <3> QED BY <1>49, <2>2, <3>1, <3>2 DEF Crash, QueueTypes
  <2>3. QueueTypes'
    BY <1>49, <2>1, <2>2 DEF Crash
  <2> QED BY <1>49, <2>3 DEF Crash
<1>50. CASE UNCHANGED vars
  BY <1>50 DEF vars
<1> QED
  BY <1>1, <1>2, <1>3, <1>4, <1>5, <1>6, <1>7, <1>8, <1>9, <1>10, <1>11, <1>12, <1>13, <1>14, <1>15,
     <1>16, <1>17, <1>18, <1>19, <1>20, <1>21, <1>22, <1>23, <1>24, <1>25, <1>26, <1>27, <1>28,
     <1>29, <1>30, <1>31, <1>32, <1>33, <1>34, <1>35, <1>36, <1>37, <1>38, <1>39, <1>40, <1>41,
     <1>42, <1>43, <1>44, <1>45, <1>46, <1>47, <1>48, <1>49, <1>50
     DEF Next, Sync, Drive, Trouble

-----------------------------------------------------------------------------
(* The inductive invariant *)

Interrupted == spent.outages + spent.crashes # 0

\* What the job has read of the comments is what it still has to record and what
\* it has recorded,
WatermarkBehind == lastComment <= Len(comments)
BatchReady ==
    pc = "record" =>
        /\ lastComment <= seen.upTo /\ seen.upTo <= Len(comments)
        /\ \A c \in batch : lastComment < c /\ c <= seen.upTo
        /\ \A c \in lastComment + 1 .. seen.upTo :
              comments[c].by = "human" => c \in batch \/ \E k \in DOMAIN events : Is(k, "inbound", c)

\* and unless it is interrupted there, comments on record are not read again.
InboundSynced ==
    Interrupted \/ \A k \in DOMAIN events : events[k].type = "inbound" =>
        events[k].n <= lastComment \/ (pc = "record" /\ seen.entity /\ events[k].n <= seen.upTo)

\* The state is that of the branch in which the job is,
StateFits ==
    /\ pc \in {"analyze", "analyzed"} => state = "analyzing"
    /\ pc \in {"plan", "stored", "posted", "proposed"} => state = "planning"
    /\ pc \in {"approved", "execute", "executed"} => state = "executing"

\* and nothing has been executed before the state says so.
Decided == {"executing", "completed"}
ExecutedOnce ==
    /\ state \notin Decided \/ pc \in {"approved", "execute"} => executed = <<>>
    /\ Len(executed) <= 1

\* The plan of the row is the one made last; it has been posted and proposed when
\* the state says so.
Posted(p) == \E c \in DOMAIN comments : comments[c] = Bot(p)
LastProposed(p) ==
    \E k \in DOMAIN events : Is(k, "proposed", p) /\ \A l \in k + 1 .. Len(events) : events[l].type # "proposed"
PlanNumbers ==
    /\ plan = Len(heard)
    /\ \A k \in DOMAIN events : events[k].type = "proposed" => events[k].n <= plan
Open == {"awaiting_approval"} \cup Decided
PlanProposed ==
    /\ pc \in {"stored", "posted", "proposed"} \/ state \in Open => plan # 0
    /\ pc \in {"posted", "proposed"} \/ state \in Open => Posted(plan)
    /\ pc = "proposed" \/ state \in Open => LastProposed(plan)

\* Unless a job was interrupted, what is recorded after the proposal was not yet
\* on record when the plan was made.
HeardSynced ==
    Interrupted \/ (plan # 0 => \A n \in heard[plan] : n <= lastComment)
RepliesNew ==
    Interrupted \/ \A p, k \in DOMAIN events :
        plan # 0 /\ Is(p, "proposed", plan) /\ p < k /\ events[k].type = "inbound" => events[k].n \notin heard[plan]
ApprovalNew ==
    pc \in {"approved", "execute"} => Interrupted \/ seen.by \notin heard[plan]
ExecutedPlan ==
    \A i \in DOMAIN executed :
        executed[i].plan = plan /\ (Interrupted \/ executed[i].by \notin heard[plan])

SyncInv == CommentsSynced /\ WatermarkBehind /\ BatchReady /\ InboundSynced
StateInv == StateFits /\ ExecutedOnce
PlanInv == PlanNumbers /\ PlanProposed /\ HeardSynced /\ RepliesNew /\ ApprovalNew /\ ExecutedPlan

ConversationInv == TypeOK /\ SyncInv /\ StateInv /\ PlanInv

LEMMA ConversationInit == Init => ConversationInv
PROOF
<1> SUFFICES ASSUME Init PROVE ConversationInv
  OBVIOUS
<1> USE WorkflowAssumption DEF Init
<1>1. TypeOK
  <2>1. ItemTypes /\ RowTypes /\ QueueTypes /\ HistoryTypes /\ events \in Seq(Event)
    BY DEF ItemTypes, RowTypes, QueueTypes, HistoryTypes, WorkflowState
  <2>2. JobTypes
    BY NothingRead DEF JobTypes, Steps
  <2>3. SpentTypes /\ mode \in {"ticket", "task"} /\ locked \in BOOLEAN
    BY DEF SpentTypes
  <2> QED BY <2>1, <2>2, <2>3 DEF TypeOK
<1>2. SyncInv
  BY DEF SyncInv, CommentsSynced, WatermarkBehind, BatchReady, InboundSynced
<1>3. StateInv
  BY DEF StateInv, StateFits, ExecutedOnce
<1>4. PlanInv
  BY DEF PlanInv, PlanNumbers, PlanProposed, HeardSynced, RepliesNew, ApprovalNew, ExecutedPlan, Open, Decided
<1> QED BY <1>1, <1>2, <1>3, <1>4 DEF ConversationInv

\* Comments are only added; so are events, and those that are neither a comment
\* on record nor a proposal are silent.
CommentsGrow ==
    Len(comments) <= Len(comments') /\ \A c \in DOMAIN comments : comments'[c] = comments[c]
EventsGrow ==
    Len(events) <= Len(events') /\ \A k \in DOMAIN events : events'[k] = events[k]
Silent ==
    EventsGrow /\ \A k \in DOMAIN events' \ DOMAIN events : events'[k].type \notin {"inbound", "proposed"}

LEMMA CommentsAppended ==
    ASSUME TypeOK, UNCHANGED comments \/ \E c \in CommentType : comments' = Append(comments, c)
    PROVE  CommentsGrow
PROOF
  BY DEF TypeOK, ItemTypes, CommentsGrow

LEMMA EventAppended ==
    ASSUME TypeOK, NEW e \in Event, events' = Append(events, e)
    PROVE  /\ EventsGrow /\ DOMAIN events' = DOMAIN events \cup {Len(events) + 1}
           /\ Len(events) + 1 \notin DOMAIN events /\ Len(events') = Len(events) + 1
           /\ events'[Len(events) + 1] = e
PROOF
  BY DEF TypeOK, EventsGrow

LEMMA EventNumbers == TypeOK => \A k \in DOMAIN events : events[k].n \in Nat
PROOF
<1>1. TypeOK => \A k \in DOMAIN events : events[k] \in Event
  BY DEF TypeOK
<1>2. \A e \in Event : e.n \in Nat
  BY DEF Event
<1> QED BY <1>1, <1>2

LEMMA SilentEvents ==
    ASSUME TypeOK, UNCHANGED events \/ Note \/ NoteTwice \/ Outbound
    PROVE  Silent
PROOF
<1>1. PICK n \in Event, o \in Event : n = Noted /\ o = [type |-> "outbound", n |-> 0]
  BY DEF Noted, Event
<1>2. n.type \notin {"inbound", "proposed"} /\ o.type \notin {"inbound", "proposed"}
  BY <1>1 DEF Noted
<1>3. events \in Seq(Event)
  BY DEF TypeOK
<1>4. CASE UNCHANGED events
  BY <1>3, <1>4 DEF Silent, EventsGrow
<1>5. CASE events' = Append(events, n) \/ events' = Append(events, o)
  BY <1>2, <1>3, <1>5 DEF Silent, EventsGrow
<1>6. CASE events' = Append(Append(events, n), n)
  BY <1>2, <1>3, <1>6 DEF Silent, EventsGrow
<1> QED BY <1>1, <1>4, <1>5, <1>6 DEF Note, NoteTwice, Outbound

\* An interruption is not forgotten.
LEMMA Interruptions ==
    ASSUME TypeOK
    PROVE  /\ UNCHANGED spent => (Interrupted' <=> Interrupted)
           /\ \A w \in {"edits", "vague", "errors", "outages", "crashes", "comments"} :
                 Spend(w) \/ Suffer(w) => (Interrupted => Interrupted')
           /\ \A w \in {"outages", "crashes"} : Suffer(w) => Interrupted'
PROOF
<1>1. spent.outages \in Nat /\ spent.crashes \in Nat
  BY DEF TypeOK, SpentTypes, Troubles
<1>2. ASSUME NEW w \in {"edits", "vague", "errors", "outages", "crashes", "comments"}, Spend(w)
      PROVE  /\ spent'.outages = IF w = "outages" THEN spent.outages + 1 ELSE spent.outages
             /\ spent'.crashes = IF w = "crashes" THEN spent.crashes + 1 ELSE spent.crashes
  BY <1>2 DEF TypeOK, SpentTypes, Troubles, Spend
<1>3. ASSUME NEW w \in {"edits", "vague", "errors", "outages", "crashes", "comments"}, Spend(w), Interrupted
      PROVE  Interrupted'
  BY <1>1, <1>2, <1>3 DEF Interrupted
<1>4. ASSUME NEW w \in {"outages", "crashes"}, Spend(w) PROVE Interrupted'
  BY <1>1, <1>2, <1>4 DEF Interrupted
<1>5. UNCHANGED spent => (Interrupted' <=> Interrupted)
  BY DEF Interrupted
<1> QED BY <1>3, <1>4, <1>5 DEF Suffer

-----------------------------------------------------------------------------
(* Steps that neither record comments nor touch the plan *)

\* The job may leave its branch for one without a promise, or turn to another
\* state before anything is decided.
Free == Steps \ {"record", "analyze", "analyzed", "plan", "stored", "posted", "proposed",
                 "approved", "execute", "executed"}
Turns ==
    /\ state \notin Decided /\ state' \in WorkflowState \ Open
    /\ \/ pc' \in Free
       \/ pc' \in {"analyze", "analyzed"} /\ state' = "analyzing"
       \/ pc' = "plan" /\ state' = "planning"
Moves ==
    /\ (pc' \in Free /\ UNCHANGED state) \/ Turns
    /\ pc = "record" /\ seen.entity => Interrupted'
Quiet ==
    /\ UNCHANGED <<lastComment, plan, heard, executed>>
    /\ CommentsGrow /\ Silent
    /\ Interrupted => Interrupted'
    /\ UNCHANGED <<pc, seen, batch, state>> \/ Moves

\* Comments stay synced when the job does not synchronise.
LEMMA SyncKept ==
    ASSUME ConversationInv, TypeOK', UNCHANGED lastComment, CommentsGrow, Silent, Interrupted => Interrupted',
           \/ UNCHANGED <<pc, seen, batch>>
           \/ pc' # "record" /\ (pc = "record" /\ seen.entity => Interrupted')
    PROVE  SyncInv'
PROOF
<1> USE DEF ConversationInv, SyncInv, TypeOK, ItemTypes, RowTypes
<1>1. DOMAIN events \subseteq DOMAIN events' /\ \A k \in DOMAIN events : events'[k] = events[k]
  BY DEF Silent, EventsGrow
<1>2. DOMAIN comments = 1 .. Len(comments) /\ Len(comments) \in Nat /\ Len(comments') \in Nat /\ lastComment \in Nat
  OBVIOUS
<1>3. CommentsSynced'
  <2> SUFFICES ASSUME NEW c \in 1 .. lastComment, comments'[c].by = "human"
               PROVE  \E k \in DOMAIN events' : events'[k] = [type |-> "inbound", n |-> c]
    BY DEF CommentsSynced, Is
  <2>1. c \in DOMAIN comments /\ comments'[c] = comments[c]
    BY <1>2 DEF WatermarkBehind, CommentsGrow
  <2>2. PICK k \in DOMAIN events : events[k] = [type |-> "inbound", n |-> c]
    BY <2>1 DEF CommentsSynced, Is
  <2> QED BY <1>1, <2>2
<1>4. WatermarkBehind'
  BY <1>2 DEF WatermarkBehind, CommentsGrow
<1>5. BatchReady'
  <2> SUFFICES ASSUME pc' = "record" PROVE BatchReady'
    BY DEF BatchReady
  <2>1. UNCHANGED <<pc, seen, batch>> /\ pc = "record"
    OBVIOUS
  <2>2. seen.upTo \in Nat
    BY DEF JobTypes, Read
  <2> QED BY <1>1, <1>2, <2>1, <2>2 DEF BatchReady, CommentsGrow, Is
<1>6. InboundSynced'
  <2> SUFFICES ASSUME ~Interrupted', NEW k \in DOMAIN events', events'[k].type = "inbound"
               PROVE  events'[k].n <= lastComment' \/ (pc' = "record" /\ seen'.entity /\ events'[k].n <= seen'.upTo)
    BY DEF InboundSynced
  <2>1. k \in DOMAIN events /\ events'[k] = events[k]
    BY <1>1 DEF Silent
  <2> QED BY <2>1 DEF InboundSynced
<1> QED BY <1>3, <1>4, <1>5, <1>6

\* The plan stays what it is when nobody proposes, approves or executes.
LEMMA PlanKept ==
    ASSUME ConversationInv, TypeOK', UNCHANGED <<lastComment, plan, heard, executed>>, CommentsGrow, Silent,
           Interrupted => Interrupted',
           \/ UNCHANGED <<pc, seen>>
           \/ pc' \notin {"stored", "posted", "proposed", "approved", "execute"}
           \/ pc = "approved" /\ pc' = "execute" /\ UNCHANGED seen,
           state' \in Open => state \in Open
    PROVE  PlanInv'
PROOF
<1> USE DEF ConversationInv, PlanInv, TypeOK, ItemTypes, RowTypes
<1>1. DOMAIN events \subseteq DOMAIN events' /\ \A k \in DOMAIN events : events'[k] = events[k]
  BY DEF Silent, EventsGrow
<1>2. \A k \in DOMAIN events' : events'[k].type \in {"inbound", "proposed"} => k \in DOMAIN events
  BY DEF Silent
<1>3. Posted(plan) => Posted(plan)'
  BY DEF Posted, CommentsGrow
<1>4. LastProposed(plan) => LastProposed(plan)'
  <2> SUFFICES ASSUME NEW k \in DOMAIN events, Is(k, "proposed", plan),
                      \A l \in k + 1 .. Len(events) : events[l].type # "proposed"
               PROVE  LastProposed(plan)'
    BY DEF LastProposed
  <2>1. k \in DOMAIN events' /\ events'[k] = events[k]
    BY <1>1
  <2>2. \A l \in k + 1 .. Len(events') : events'[l].type # "proposed"
    BY <1>1, <1>2
  <2> QED BY <2>1, <2>2 DEF LastProposed, Is
<1>5. PlanNumbers'
  BY <1>1, <1>2 DEF PlanNumbers
<1>6. PlanProposed'
  BY <1>3, <1>4 DEF PlanProposed
<1>7. HeardSynced'
  BY DEF HeardSynced
<1>8. RepliesNew'
  BY <1>1, <1>2 DEF RepliesNew, Is
<1>9. ApprovalNew'
  BY DEF ApprovalNew
<1>10. ExecutedPlan'
  BY DEF ExecutedPlan
<1> QED BY <1>5, <1>6, <1>7, <1>8, <1>9, <1>10

\* A quiet step keeps the invariant.
LEMMA QuietKeeps ==
    ASSUME ConversationInv, TypeOK', Quiet
    PROVE  ConversationInv'
PROOF
<1>1. /\ UNCHANGED <<lastComment, plan, heard, executed>> /\ CommentsGrow /\ Silent
      /\ Interrupted => Interrupted'
      /\ UNCHANGED <<pc, seen, batch, state>> \/ Moves
  BY DEF Quiet
<1>2. pc' # "record" \/ UNCHANGED <<pc, seen, batch>>
  BY <1>1 DEF Moves, Turns, Free
<1>3. SyncInv'
  BY <1>1, <1>2, SyncKept DEF Moves
<1>4. StateInv'
  BY <1>1 DEF ConversationInv, StateInv, StateFits, ExecutedOnce, Moves, Turns, Free, Open, Decided
<1>5. state' \in Open => state \in Open
  BY <1>1 DEF Moves, Turns
<1>6. pc' \notin {"stored", "posted", "proposed", "approved", "execute"} \/ UNCHANGED <<pc, seen>>
  BY <1>1 DEF Moves, Turns, Free
<1>7. PlanInv'
  BY <1>1, <1>5, <1>6, PlanKept
<1> QED BY <1>3, <1>4, <1>7 DEF ConversationInv

\* What steps do to the comments.
LEMMA CommentSteps ==
    ASSUME TypeOK, UNCHANGED itemVars \/ UNCHANGED comments \/ Post(Human) \/ Post(Bot(0))
    PROVE  CommentsGrow
PROOF
  BY CommentTypes, CommentsAppended DEF itemVars, Post

\* All actions are quiet but those that record comments and those that make,
\* propose and carry out a plan.
LEMMA QuietActions ==
    ASSUME ConversationInv, Next,
           ~(ReadComments \/ RecordComment \/ MoveWatermark \/ StorePlan \/ PostPlan \/ Propose
                \/ AwaitApproval \/ Approve \/ Announce \/ Execute \/ Finish)
    PROVE  Quiet
PROOF
<1> USE CommentSteps, SilentEvents, Interruptions
    DEF Driven, Quiet, Moves, Turns, Free, Steps, Open, Decided, WorkflowState, Say, Complete, Continue,
        Throw, CAS, rowVars, historyVars, jobVars
<1>0. TypeOK /\ StateFits
  BY DEF ConversationInv, StateInv
<1>1. CASE Comment
  BY <1>0, <1>1 DEF Comment
<1>2. CASE Edit
  BY <1>0, <1>2 DEF Edit
<1>3. CASE Poll
  BY <1>0, <1>3 DEF Poll
<1>4. CASE Link
  BY <1>0, <1>4 DEF Link
<1>5. CASE Take
  BY <1>0, <1>5 DEF Take
<1>6. CASE Load
  BY <1>0, <1>6 DEF Load
<1>7. CASE CreateTask
  BY <1>0, <1>7 DEF CreateTask
<1>8. CASE Register
  BY <1>0, <1>8 DEF Register
<1>9. CASE AddIngest
  BY <1>0, <1>9 DEF AddIngest
<1>10. CASE RecordRevision
  BY <1>0, <1>10 DEF RecordRevision
<1>11. CASE NoComments
  BY <1>0, <1>11 DEF NoComments
<1>12. CASE NoEntity
  BY <1>0, <1>12 DEF NoEntity
<1>13. CASE NoEntitySync
  BY <1>0, <1>13 DEF NoEntitySync
<1>14. CASE Skip
  BY <1>0, <1>14 DEF Skip
<1>15. CASE StartAnalysis
  BY <1>0, <1>15 DEF StartAnalysis
<1>16. CASE CheckAnswers
  BY <1>0, <1>16 DEF CheckAnswers
<1>17. CASE CheckApproval
  BY <1>0, <1>17 DEF CheckApproval
<1>18. CASE Analyze
  BY <1>0, <1>18 DEF Analyze, StateFits
<1>19. CASE Analyzed
  BY <1>0, <1>19 DEF Analyzed
<1>20. CASE NoAnswers
  BY <1>0, <1>20 DEF NoAnswers
<1>21. CASE Answers
  BY <1>0, <1>21 DEF Answers
<1>22. CASE FollowUp
  BY <1>0, <1>22 DEF FollowUp
<1>23. CASE Ready
  BY <1>0, <1>23 DEF Ready
<1>24. CASE Said
  BY <1>0, <1>24 DEF Said
<1>25. CASE Vague
  BY <1>0, <1>25 DEF Vague, StateWithoutPlan
<1>26. CASE NoReply
  BY <1>0, <1>26 DEF NoReply
<1>27. CASE Reject
  BY <1>0, <1>27 DEF Reject
<1>28. CASE Clarify
  BY <1>0, <1>28 DEF Clarify
<1>29. CASE Acknowledge
  BY <1>0, <1>29 DEF Acknowledge
<1>30. CASE Explain
  BY <1>0, <1>30 DEF Explain
<1>31. CASE Again
  BY <1>0, <1>31 DEF Again
<1>32. CASE JobFails
  BY <1>0, <1>32 DEF JobFails
<1>33. CASE LockLeaks
  BY <1>0, <1>33 DEF LockLeaks
<1>34. CASE SyncFails
  BY <1>0, <1>34 DEF SyncFails
<1>35. CASE RollBack
  BY <1>0, <1>35 DEF RollBack, RolledBack, StateFits
<1>36. CASE NoteFailure
  BY <1>0, <1>36 DEF NoteFailure
<1>37. CASE GiveUp
  BY <1>0, <1>37 DEF GiveUp
<1>38. CASE Crash
  BY <1>0, <1>38 DEF Crash
<1> QED
  BY <1>1, <1>2, <1>3, <1>4, <1>5, <1>6, <1>7, <1>8, <1>9, <1>10, <1>11, <1>12, <1>13, <1>14, <1>15,
     <1>16, <1>17, <1>18, <1>19, <1>20, <1>21, <1>22, <1>23, <1>24, <1>25, <1>26, <1>27, <1>28,
     <1>29, <1>30, <1>31, <1>32, <1>33, <1>34, <1>35, <1>36, <1>37, <1>38
     DEF Next, Sync, Drive, Trouble

-----------------------------------------------------------------------------
(* Steps that record comments *)

LEMMA ReadCommentsKeeps ==
    ASSUME ConversationInv, TypeOK', ReadComments
    PROVE  ConversationInv'
PROOF
<1>1. /\ pc = "sync" /\ pc' = "record" /\ seen'.upTo = Len(comments)
      /\ batch' = {c \in lastComment + 1 .. Len(comments) : comments[c].by = "human"}
      /\ UNCHANGED <<comments, lastComment, state, plan, heard, executed, events, spent>>
  BY DEF ReadComments, itemVars, rowVars, historyVars, ConversationInv, TypeOK, JobTypes, Read
<1>2. CommentsGrow /\ Silent /\ (Interrupted' <=> Interrupted)
  BY <1>1, CommentsAppended, SilentEvents DEF Interrupted, ConversationInv
<1>3. SyncInv'
  <2>1. lastComment \in Nat /\ Len(comments) \in Nat
    BY DEF ConversationInv, TypeOK, RowTypes, ItemTypes
  <2>2. CommentsSynced' /\ WatermarkBehind'
    BY <1>1 DEF ConversationInv, SyncInv, CommentsSynced, WatermarkBehind, Is
  <2>3. BatchReady'
    BY <1>1, <2>1 DEF ConversationInv, SyncInv, BatchReady, WatermarkBehind
  <2>4. InboundSynced'
    BY <1>1, <1>2 DEF ConversationInv, SyncInv, InboundSynced
  <2> QED BY <2>2, <2>3, <2>4 DEF SyncInv
<1>4. StateInv'
  BY <1>1 DEF ConversationInv, StateInv, StateFits, ExecutedOnce, Decided
<1>5. PlanInv'
  BY <1>1, <1>2, PlanKept
<1> QED BY <1>3, <1>4, <1>5 DEF ConversationInv

LEMMA RecordCommentKeeps ==
    ASSUME ConversationInv, TypeOK', RecordComment
    PROVE  ConversationInv'
PROOF
<1> USE DEF ConversationInv, TypeOK, ItemTypes, RowTypes
<1>1. PICK c \in batch : /\ events' = Append(events, [type |-> "inbound", n |-> c])
                         /\ batch' = batch \ {c}
                         /\ pc = "record" /\ seen.entity
                         /\ UNCHANGED <<comments, lastComment, state, plan, heard, executed, pc, seen, spent>>
  BY DEF RecordComment, itemVars, rowVars, historyVars
<1>2. PICK e \in Event : e = [type |-> "inbound", n |-> c]
  BY DEF JobTypes, Event
<1>3. /\ EventsGrow /\ DOMAIN events' = DOMAIN events \cup {Len(events) + 1}
      /\ Len(events) + 1 \notin DOMAIN events /\ Len(events') = Len(events) + 1
      /\ events'[Len(events) + 1] = e
  BY <1>1, <1>2, EventAppended
<1>4. e.type = "inbound" /\ e.n = c /\ lastComment < c /\ c <= seen.upTo
  BY <1>1, <1>2 DEF SyncInv, BatchReady
<1>5. SyncInv'
  <2>1. CommentsSynced' /\ WatermarkBehind'
    BY <1>1, <1>3 DEF SyncInv, CommentsSynced, WatermarkBehind, EventsGrow, Is
  <2>2. BatchReady'
    <3>1. \A d \in lastComment + 1 .. seen.upTo :
             comments[d].by = "human" => d \in batch' \/ \E k \in DOMAIN events' : Is(k, "inbound", d)'
      <4> SUFFICES ASSUME NEW d \in lastComment + 1 .. seen.upTo, comments[d].by = "human", d \notin batch'
                   PROVE  \E k \in DOMAIN events' : events'[k] = [type |-> "inbound", n |-> d]
        BY DEF Is
      <4>1. CASE d = c
        BY <1>2, <1>3, <4>1
      <4>2. CASE d # c
        <5>1. PICK k \in DOMAIN events : events[k] = [type |-> "inbound", n |-> d]
          BY <1>1, <4>2 DEF SyncInv, BatchReady, Is
        <5> QED BY <1>3, <5>1 DEF EventsGrow
      <4> QED BY <4>1, <4>2
    <3> QED BY <1>1, <3>1 DEF SyncInv, BatchReady
  <2>3. InboundSynced'
    BY <1>1, <1>3, <1>4 DEF SyncInv, InboundSynced, EventsGrow, Interrupted
  <2> QED BY <2>1, <2>2, <2>3 DEF SyncInv
<1>6. StateInv'
  BY <1>1 DEF StateInv, StateFits, ExecutedOnce
<1>7. PlanInv'
  <2>1. \A k \in DOMAIN events' : events'[k].type = "proposed" => k \in DOMAIN events
    BY <1>3, <1>4
  <2>2. PlanNumbers'
    BY <1>1, <1>3, <2>1 DEF PlanInv, PlanNumbers, EventsGrow
  <2>3. LastProposed(plan) => LastProposed(plan)'
    <3> SUFFICES ASSUME NEW k \in DOMAIN events, Is(k, "proposed", plan),
                        \A l \in k + 1 .. Len(events) : events[l].type # "proposed"
                 PROVE  LastProposed(plan)'
      BY DEF LastProposed
    <3>1. k \in DOMAIN events' /\ events'[k] = events[k]
      BY <1>3 DEF EventsGrow
    <3>2. \A l \in k + 1 .. Len(events') : events'[l].type # "proposed"
      BY <1>3, <2>1 DEF EventsGrow
    <3> QED BY <1>1, <3>1, <3>2 DEF LastProposed, Is
  <2>4. PlanProposed'
    BY <1>1, <2>3 DEF PlanInv, PlanProposed, Posted
  <2>5. HeardSynced' /\ ApprovalNew' /\ ExecutedPlan'
    BY <1>1 DEF PlanInv, HeardSynced, ApprovalNew, ExecutedPlan, Interrupted
  <2>6. RepliesNew'
    <3> SUFFICES ASSUME ~Interrupted, plan # 0, NEW p \in DOMAIN events', NEW k \in DOMAIN events',
                        events'[p] = [type |-> "proposed", n |-> plan], p < k, events'[k].type = "inbound"
                 PROVE  events'[k].n \notin heard[plan]
      BY <1>1 DEF RepliesNew, Is, Interrupted
    <3>1. p \in DOMAIN events /\ events'[p] = events[p]
      BY <1>3, <2>1 DEF EventsGrow
    <3>2. CASE k \in DOMAIN events
      BY <1>3, <3>1, <3>2 DEF PlanInv, RepliesNew, Is, EventsGrow
    <3>3. CASE k = Len(events) + 1
      <4>1. \A n \in heard[plan] : n <= lastComment
        BY DEF PlanInv, HeardSynced
      <4>2. c \in Nat
        BY DEF JobTypes
      <4> QED BY <1>3, <1>4, <3>3, <4>1, <4>2
    <3> QED BY <1>3, <3>2, <3>3
  <2> QED BY <2>2, <2>4, <2>5, <2>6 DEF PlanInv
<1> QED BY <1>5, <1>6, <1>7

LEMMA MoveWatermarkKeeps ==
    ASSUME ConversationInv, TypeOK', MoveWatermark
    PROVE  ConversationInv'
PROOF
<1> USE DEF ConversationInv, TypeOK, ItemTypes, RowTypes
<1>1. /\ pc = "record" /\ batch = {} /\ lastComment' = seen.upTo /\ pc' = "drive"
      /\ UNCHANGED <<comments, state, plan, heard, executed, events, spent>>
  BY DEF MoveWatermark, Watermark, Continue, itemVars, historyVars
<1>2. lastComment <= lastComment' /\ lastComment' <= Len(comments) /\ lastComment \in Nat /\ lastComment' \in Nat
  BY <1>1 DEF SyncInv, BatchReady
<1>3. SyncInv'
  <2>1. CommentsSynced'
    <3> SUFFICES ASSUME NEW c \in 1 .. lastComment', comments[c].by = "human"
                 PROVE  \E k \in DOMAIN events : Is(k, "inbound", c)
      BY <1>1 DEF CommentsSynced, Is
    <3>1. CASE c <= lastComment
      <4>1. c \in 1 .. lastComment
        BY <1>2, <3>1
      <4> QED BY <4>1 DEF SyncInv, CommentsSynced
    <3>2. CASE lastComment < c
      BY <1>1, <1>2, <3>2 DEF SyncInv, BatchReady
    <3> QED BY <1>2, <3>1, <3>2
  <2>2. WatermarkBehind' /\ BatchReady'
    BY <1>1, <1>2 DEF WatermarkBehind, BatchReady
  <2>3. InboundSynced'
    <3> SUFFICES ASSUME ~Interrupted, NEW k \in DOMAIN events, events[k].type = "inbound"
                 PROVE  events[k].n <= lastComment'
      BY <1>1 DEF InboundSynced, Interrupted
    <3>1. events[k].n \in Nat
      BY EventNumbers
    <3> QED BY <1>1, <1>2, <3>1 DEF SyncInv, InboundSynced
  <2> QED BY <2>1, <2>2, <2>3 DEF SyncInv
<1>4. StateInv'
  BY <1>1 DEF StateInv, StateFits, ExecutedOnce
<1>5. PlanInv'
  <2>1. HeardSynced'
    <3> SUFFICES ASSUME ~Interrupted, plan # 0, NEW n \in heard[plan] PROVE n <= lastComment'
      BY <1>1 DEF HeardSynced, Interrupted
    <3>1. n <= lastComment
      BY DEF PlanInv, HeardSynced
    <3>2. n \in Nat
      <4>1. plan \in DOMAIN heard
        BY DEF PlanInv, PlanNumbers, HistoryTypes
      <4> QED BY <4>1 DEF HistoryTypes
    <3> QED BY <1>2, <3>1, <3>2
  <2>2. PlanNumbers' /\ PlanProposed' /\ RepliesNew' /\ ApprovalNew' /\ ExecutedPlan'
    BY <1>1 DEF PlanInv, PlanNumbers, PlanProposed, Posted, LastProposed, Is, RepliesNew, ApprovalNew, ExecutedPlan, Interrupted
  <2> QED BY <2>1, <2>2 DEF PlanInv
<1> QED BY <1>3, <1>4, <1>5

-----------------------------------------------------------------------------
(* Steps that make, propose and carry out a plan *)

LEMMA StorePlanKeeps ==
    ASSUME ConversationInv, TypeOK', StorePlan
    PROVE  ConversationInv'
PROOF
<1> USE DEF ConversationInv, TypeOK, ItemTypes, RowTypes
<1>1. /\ pc = "plan" /\ pc' = "stored" /\ plan' = Len(heard) + 1 /\ heard' = Append(heard, Recorded)
      /\ UNCHANGED <<comments, lastComment, state, executed, events, seen, spent>>
  BY DEF StorePlan, Continue, itemVars
<1>2. CommentsGrow /\ Silent /\ (Interrupted' <=> Interrupted)
  BY <1>1, CommentsAppended, SilentEvents DEF Interrupted
<1>3. state = "planning" /\ executed = <<>>
  BY <1>1 DEF StateInv, StateFits, ExecutedOnce, Decided
<1>4. SyncInv'
  BY <1>1, <1>2, SyncKept
<1>5. StateInv'
  BY <1>1, <1>3 DEF StateInv, StateFits, ExecutedOnce
<1>6. plan' \in Nat /\ plan < plan' /\ plan' # 0 /\ plan' = Len(heard') /\ heard'[plan'] = Recorded
  BY <1>1 DEF PlanInv, PlanNumbers, HistoryTypes
<1>7. \A k \in DOMAIN events : events[k].type = "proposed" => events[k].n < plan'
  <2>1. \A k \in DOMAIN events : events[k].n \in Nat
    BY EventNumbers
  <2> QED BY <1>6, <2>1 DEF PlanInv, PlanNumbers
<1>8. PlanInv'
  <2>1. PlanNumbers'
    <3>1. \A k \in DOMAIN events : events[k].n \in Nat
      BY EventNumbers
    <3> QED BY <1>1, <1>6, <1>7, <3>1 DEF PlanNumbers
  <2>2. PlanProposed' /\ ApprovalNew' /\ ExecutedPlan'
    BY <1>1, <1>3, <1>6 DEF PlanProposed, Open, Decided, ApprovalNew, ExecutedPlan
  <2>3. HeardSynced'
    BY <1>1, <1>2, <1>6 DEF SyncInv, InboundSynced, HeardSynced, Recorded
  <2>4. RepliesNew'
    BY <1>1, <1>6, <1>7 DEF RepliesNew, Is
  <2> QED BY <2>1, <2>2, <2>3, <2>4 DEF PlanInv
<1> QED BY <1>4, <1>5, <1>8

LEMMA PostPlanKeeps ==
    ASSUME ConversationInv, TypeOK', PostPlan
    PROVE  ConversationInv'
PROOF
<1> USE DEF ConversationInv, TypeOK, ItemTypes, RowTypes
<1>1. /\ pc = "stored" /\ pc' = "posted" /\ comments' = Append(comments, Bot(plan))
      /\ UNCHANGED <<lastComment, state, plan, heard, executed, events, seen, spent>>
  BY DEF PostPlan, Say, Post, Continue, rowVars, historyVars
<1>2. CommentsGrow /\ Silent /\ (Interrupted' <=> Interrupted)
  BY <1>1, CommentTypes, CommentsAppended, SilentEvents DEF Interrupted
<1>3. SyncInv'
  BY <1>1, <1>2, SyncKept
<1>4. StateInv'
  BY <1>1 DEF StateInv, StateFits, ExecutedOnce
<1>5. state = "planning" /\ plan # 0
  BY <1>1 DEF StateInv, StateFits, PlanInv, PlanProposed
<1>6. Posted(plan)'
  <2>1. PICK b \in CommentType : b = Bot(plan)
    BY CommentTypes
  <2>2. Len(comments) + 1 \in DOMAIN comments' /\ comments'[Len(comments) + 1] = b
    BY <1>1, <2>1
  <2> QED BY <1>1, <2>1, <2>2 DEF Posted, Bot
<1>7. PlanInv'
  <2>1. PlanNumbers' /\ HeardSynced' /\ RepliesNew' /\ ApprovalNew' /\ ExecutedPlan'
    BY <1>1 DEF PlanInv, PlanNumbers, HeardSynced, RepliesNew, Is, ApprovalNew, ExecutedPlan, Interrupted
  <2>2. PlanProposed'
    BY <1>1, <1>5, <1>6 DEF PlanProposed, Open, Decided
  <2> QED BY <2>1, <2>2 DEF PlanInv
<1> QED BY <1>3, <1>4, <1>7

LEMMA ProposeKeeps ==
    ASSUME ConversationInv, TypeOK', Propose
    PROVE  ConversationInv'
PROOF
<1> USE DEF ConversationInv, TypeOK, ItemTypes, RowTypes
<1>1. /\ pc = "posted" /\ pc' = "proposed" /\ events' = Append(events, [type |-> "proposed", n |-> plan])
      /\ UNCHANGED <<comments, lastComment, state, plan, heard, executed, seen, spent>>
  BY DEF Propose, Continue, itemVars, rowVars, historyVars
<1>2. PICK e \in Event : e = [type |-> "proposed", n |-> plan]
  BY DEF Event
<1>3. /\ EventsGrow /\ DOMAIN events' = DOMAIN events \cup {Len(events) + 1}
      /\ Len(events) + 1 \notin DOMAIN events /\ Len(events') = Len(events) + 1
      /\ events'[Len(events) + 1] = e
  BY <1>1, <1>2, EventAppended
<1>4. e.type = "proposed" /\ e.n = plan
  BY <1>2
<1>5. state = "planning" /\ plan # 0 /\ Posted(plan)
  BY <1>1 DEF StateInv, StateFits, PlanInv, PlanProposed
<1>6. SyncInv'
  BY <1>1, <1>3, <1>4 DEF SyncInv, CommentsSynced, WatermarkBehind, BatchReady, InboundSynced, EventsGrow, Is, Interrupted
<1>7. StateInv'
  BY <1>1 DEF StateInv, StateFits, ExecutedOnce
<1>8. PlanInv'
  <2>1. PlanNumbers'
    BY <1>1, <1>3, <1>4 DEF PlanInv, PlanNumbers, EventsGrow
  <2>2. LastProposed(plan)'
    BY <1>1, <1>2, <1>3 DEF LastProposed, Is
  <2>3. PlanProposed'
    BY <1>1, <1>5, <2>2 DEF PlanProposed, Posted, Open, Decided
  <2>4. RepliesNew'
    BY <1>1, <1>3, <1>4 DEF PlanInv, RepliesNew, Is, EventsGrow, Interrupted
  <2>5. HeardSynced' /\ ApprovalNew' /\ ExecutedPlan'
    BY <1>1 DEF PlanInv, HeardSynced, ApprovalNew, ExecutedPlan, Interrupted
  <2> QED BY <2>1, <2>3, <2>4, <2>5 DEF PlanInv
<1> QED BY <1>6, <1>7, <1>8

LEMMA AwaitApprovalKeeps ==
    ASSUME ConversationInv, TypeOK', AwaitApproval
    PROVE  ConversationInv'
PROOF
<1> USE DEF ConversationInv
<1>1. /\ pc = "proposed" /\ pc' = "idle" /\ state = "planning" /\ state' = "awaiting_approval"
      /\ UNCHANGED <<comments, lastComment, plan, heard, executed, events, spent>>
  BY DEF AwaitApproval, CAS, Complete, itemVars, historyVars
<1>2. CommentsGrow /\ Silent /\ (Interrupted' <=> Interrupted)
  BY <1>1, CommentsAppended, SilentEvents DEF Interrupted
<1>3. SyncInv'
  BY <1>1, <1>2, SyncKept
<1>4. StateInv'
  BY <1>1 DEF StateInv, StateFits, ExecutedOnce, Decided
<1>5. PlanInv'
  BY <1>1 DEF PlanInv, PlanNumbers, PlanProposed, Posted, LastProposed, Is, HeardSynced, RepliesNew, ApprovalNew,
              ExecutedPlan, Interrupted
<1> QED BY <1>3, <1>4, <1>5

\* Whatever counts as a reply came after the proposal, whether or not the
\* proposal is among the events that are looked at.
LEMMA RepliesAfterProposal ==
    ASSUME TypeOK, NEW k \in DOMAIN events, Latest(k), LastProposed(plan)
    PROVE  /\ events[k].type = "inbound"
           /\ \E p \in DOMAIN events : Is(p, "proposed", plan) /\ p < k
PROOF
<1>1. /\ k \in Recent(ApprovalWindow) /\ events[k].type = "inbound"
      /\ \A o \in Ours(ApprovalWindow) : o < k
  BY DEF Latest, Replies, NewInbound
<1>2. PICK p \in DOMAIN events : Is(p, "proposed", plan)
  BY DEF LastProposed
<1>3. p \in Nat /\ k \in Nat /\ Len(events) \in Nat /\ ApprovalWindow \in Nat
  BY WorkflowAssumption DEF TypeOK
<1>4. CASE p \in Recent(ApprovalWindow)
  BY <1>1, <1>2, <1>4 DEF Ours, Is
<1>5. CASE p \notin Recent(ApprovalWindow)
  <2>1. k + ApprovalWindow > Len(events) /\ ~(p + ApprovalWindow > Len(events))
    BY <1>1, <1>5 DEF Recent
  <2>2. p < k
    BY <1>3, <2>1
  <2> QED BY <1>1, <1>2, <2>2
<1> QED BY <1>1, <1>2, <1>4, <1>5

LEMMA ApproveKeeps ==
    ASSUME ConversationInv, TypeOK', Approve
    PROVE  ConversationInv'
PROOF
<1> USE DEF ConversationInv
<1>1. PICK k \in DOMAIN events : Latest(k) /\ seen' = [seen EXCEPT !.by = events[k].n]
  BY DEF Approve
<1>2. /\ pc = "approval" /\ pc' = "approved" /\ state = "awaiting_approval" /\ state' = "executing"
      /\ UNCHANGED <<comments, lastComment, plan, heard, executed, events, spent>>
  BY DEF Approve, CAS, itemVars, historyVars
<1>3. seen'.by = events[k].n
  BY <1>1 DEF TypeOK, JobTypes, Read
<1>4. CommentsGrow /\ Silent /\ (Interrupted' <=> Interrupted)
  BY <1>2, CommentsAppended, SilentEvents DEF Interrupted
<1>5. SyncInv'
  BY <1>2, <1>4, SyncKept
<1>6. StateInv'
  BY <1>2 DEF StateInv, StateFits, ExecutedOnce, Decided
<1>7. plan # 0 /\ Posted(plan) /\ LastProposed(plan)
  BY <1>2 DEF PlanInv, PlanProposed, Open
<1>8. Interrupted \/ events[k].n \notin heard[plan]
  BY <1>1, <1>7, RepliesAfterProposal DEF PlanInv, RepliesNew
<1>9. PlanInv'
  <2>1. PlanNumbers' /\ PlanProposed' /\ HeardSynced' /\ RepliesNew' /\ ExecutedPlan'
    BY <1>2, <1>7 DEF PlanInv, PlanNumbers, PlanProposed, Posted, LastProposed, Is, HeardSynced, RepliesNew,
                      ExecutedPlan, Interrupted
  <2>2. ApprovalNew'
    BY <1>2, <1>3, <1>4, <1>8 DEF ApprovalNew
  <2> QED BY <2>1, <2>2 DEF PlanInv
<1> QED BY <1>5, <1>6, <1>9

LEMMA AnnounceKeeps ==
    ASSUME ConversationInv, TypeOK', Announce
    PROVE  ConversationInv'
PROOF
<1> USE DEF ConversationInv
<1>1. /\ pc = "approved" /\ pc' = "execute" /\ NoteTwice /\ Post(Bot(0))
      /\ UNCHANGED <<lastComment, state, plan, heard, executed, seen, spent>>
  BY DEF Announce, Continue, rowVars, historyVars
<1>2. CommentsGrow /\ Silent /\ (Interrupted' <=> Interrupted)
  BY <1>1, CommentSteps, SilentEvents DEF Interrupted
<1>3. SyncInv'
  BY <1>1, <1>2, SyncKept
<1>4. StateInv'
  BY <1>1 DEF StateInv, StateFits, ExecutedOnce
<1>5. PlanInv'
  BY <1>1, <1>2, PlanKept
<1> QED BY <1>3, <1>4, <1>5

LEMMA ExecuteKeeps ==
    ASSUME ConversationInv, TypeOK', Execute
    PROVE  ConversationInv'
PROOF
<1> USE DEF ConversationInv
<1>1. /\ pc = "execute" /\ pc' = "executed" /\ Post(Bot(0))
      /\ executed' = Append(executed, [plan |-> plan, by |-> seen.by])
      /\ UNCHANGED <<lastComment, state, plan, heard, events, seen, spent>>
  BY DEF Execute, Continue, rowVars
<1>2. CommentsGrow /\ Silent /\ (Interrupted' <=> Interrupted)
  BY <1>1, CommentSteps, SilentEvents DEF Interrupted
<1>3. SyncInv'
  BY <1>1, <1>2, SyncKept
<1>4. executed = <<>> /\ state = "executing"
  BY <1>1 DEF StateInv, StateFits, ExecutedOnce
<1>5. PICK e \in [plan : Nat, by : Nat] : e = [plan |-> plan, by |-> seen.by]
  BY DEF TypeOK, RowTypes, JobTypes, Read
<1>6. executed' = <<e>> /\ e.plan = plan /\ e.by = seen.by
  BY <1>1, <1>4, <1>5
<1>7. StateInv'
  BY <1>1, <1>4, <1>6 DEF StateInv, StateFits, ExecutedOnce, Decided
<1>8. plan # 0 /\ Posted(plan) /\ LastProposed(plan) /\ (Interrupted \/ seen.by \notin heard[plan])
  BY <1>1, <1>4 DEF PlanInv, PlanProposed, ApprovalNew, Open, Decided
<1>9. PlanInv'
  <2>1. Posted(plan)'
    BY <1>1, <1>2, <1>8 DEF Posted, CommentsGrow, TypeOK, ItemTypes
  <2>2. PlanNumbers' /\ PlanProposed' /\ HeardSynced' /\ RepliesNew' /\ ApprovalNew'
    BY <1>1, <1>8, <2>1 DEF PlanInv, PlanNumbers, PlanProposed, LastProposed, Is, HeardSynced, RepliesNew,
                           ApprovalNew, Interrupted
  <2>3. ExecutedPlan'
    <3>1. DOMAIN executed' = {1} /\ executed'[1] = e
      BY <1>6
    <3> QED BY <1>1, <1>2, <1>6, <1>8, <3>1 DEF ExecutedPlan
  <2> QED BY <2>2, <2>3 DEF PlanInv
<1> QED BY <1>3, <1>7, <1>9

LEMMA FinishKeeps ==
    ASSUME ConversationInv, TypeOK', Finish
    PROVE  ConversationInv'
PROOF
<1> USE DEF ConversationInv
<1>1. /\ pc = "executed" /\ pc' = "idle" /\ state = "executing" /\ state' = "completed" /\ NoteTwice
      /\ UNCHANGED <<comments, lastComment, plan, heard, executed, spent>>
  BY DEF Finish, CAS, Complete, itemVars, historyVars
<1>2. CommentsGrow /\ Silent /\ (Interrupted' <=> Interrupted)
  BY <1>1, CommentSteps, SilentEvents DEF Interrupted
<1>3. SyncInv'
  BY <1>1, <1>2, SyncKept
<1>4. StateInv'
  BY <1>1 DEF StateInv, StateFits, ExecutedOnce, Decided
<1>5. state \in Open
  BY <1>1 DEF Open, Decided
<1>6. PlanInv'
  BY <1>1, <1>2, <1>5, PlanKept
<1> QED BY <1>3, <1>4, <1>6

LEMMA ConversationStep == ConversationInv /\ [Next]_vars => ConversationInv'
PROOF
<1> SUFFICES ASSUME ConversationInv, [Next]_vars PROVE ConversationInv'
  OBVIOUS
<1>1. TypeOK'
  BY TypesStep DEF ConversationInv
<1>2. CASE UNCHANGED vars
  <2>1. Quiet
    BY <1>2, CommentsAppended, SilentEvents, Interruptions
       DEF ConversationInv, vars, itemVars, rowVars, jobVars, historyVars, Quiet
  <2> QED BY <1>1, <2>1, QuietKeeps
<1>3. CASE Next
  BY <1>1, <1>3, QuietActions, QuietKeeps, ReadCommentsKeeps, RecordCommentKeeps, MoveWatermarkKeeps, StorePlanKeeps,
     PostPlanKeeps, ProposeKeeps, AwaitApprovalKeeps, ApproveKeeps, AnnounceKeeps, ExecuteKeeps, FinishKeeps
<1> QED BY <1>2, <1>3

-----------------------------------------------------------------------------
LEMMA ConversationAlways == Spec => []ConversationInv
PROOF
  BY ConversationInit, ConversationStep, PTL DEF Spec

\* The variables keep their types, for any numbers of rounds, attempts, comments
\* and troubles, and any windows.
THEOREM TypeInvariance == Spec => []TypeOK
PROOF
<1>1. ConversationInv => TypeOK
  BY DEF ConversationInv
<1> QED BY <1>1, ConversationAlways, PTL

\* The watermark of the comments runs ahead of no human comment, whatever is
\* written while comments are synced, and whatever fails or crashes there.
THEOREM NoCommentLost == Spec => []CommentsSynced
PROOF
<1>1. ConversationInv => CommentsSynced
  BY DEF ConversationInv, SyncInv
<1> QED BY <1>1, ConversationAlways, PTL

\* A plan is carried out at most once, it is the one posted and proposed last,
\* and unless a job was interrupted it was approved by a comment that was not on
\* record when the plan was made.
THEOREM OnlyApprovedPlans == Spec => []ApprovedPlanExecuted
PROOF
<1>1. ConversationInv => ApprovedPlanExecuted
  <2> SUFFICES ASSUME ConversationInv, NEW i \in DOMAIN executed
               PROVE  /\ Len(executed) <= 1
                      /\ LastProposed(executed[i].plan) /\ Posted(executed[i].plan)
                      /\ spent.outages + spent.crashes = 0 => executed[i].by \notin heard[executed[i].plan]
    <3>1. ConversationInv => Len(executed) <= 1
      BY DEF ConversationInv, StateInv, ExecutedOnce
    <3> QED BY <3>1 DEF ApprovedPlanExecuted, LastProposed, Posted
  <2>1. executed # <<>> /\ Len(executed) <= 1 /\ state \in Open
    BY DEF ConversationInv, StateInv, ExecutedOnce, Open
  <2>2. executed[i].plan = plan /\ (Interrupted \/ executed[i].by \notin heard[plan])
    BY DEF ConversationInv, PlanInv, ExecutedPlan
  <2>3. LastProposed(plan) /\ Posted(plan)
    BY <2>1 DEF ConversationInv, PlanInv, PlanProposed
  <2> QED BY <2>1, <2>2, <2>3 DEF Interrupted
<1> QED BY <1>1, ConversationAlways, PTL


-----------------------------------------------------------------------------
(* Operational tasks are not stranded *)

\* A job is active unless the worker is idle, and knows the task it is about
\* as soon as it has read the row;
TaskKnown ==
    /\ active = {} => pc = "idle"
    /\ mode = "task" => /\ row \in {"none", "linked"} /\ pc # "enqueue"
                        /\ pc = "new" => row = "none"
                        /\ pc \notin {"idle", "taken", "new"} => seen.entity
\* and the states that no job takes up are those of a job in their branch.
BranchTaken ==
    mode = "task" /\ ~Interrupted =>
        /\ state = "analyzing" => pc \in {"analyze", "analyzed"}
        /\ state = "planning" => pc \in {"plan", "stored", "posted", "proposed"}
TaskInv == TaskKnown /\ BranchTaken

LEMMA TaskStep == ConversationInv /\ TaskInv /\ [Next]_vars => TaskInv'
PROOF
<1> SUFFICES ASSUME ConversationInv, TaskInv, [Next]_vars PROVE TaskInv'
  OBVIOUS
<1>0. TypeOK /\ StateFits
  BY DEF ConversationInv, StateInv
<1>a. pc \in Steps /\ state \in WorkflowState /\ mode \in {"ticket", "task"} /\ seen \in Read
  BY <1>0 DEF TypeOK, RowTypes, JobTypes
<1> USE <1>a, Interruptions
    DEF TaskInv, TaskKnown, BranchTaken, Steps, WorkflowState, Say, Complete, Continue, Throw, CAS,
        rowVars, jobVars, Driven
<1>1. CASE Comment
  BY <1>0, <1>1 DEF Comment
<1>2. CASE Edit
  BY <1>0, <1>2 DEF Edit
<1>3. CASE Poll
  BY <1>0, <1>3 DEF Poll
<1>4. CASE Link
  BY <1>0, <1>4 DEF Link
<1>5. CASE Take
  BY <1>0, <1>5 DEF Take
<1>6. CASE Load
  BY <1>0, <1>6 DEF Load, Nothing
<1>7. CASE CreateTask
  BY <1>0, <1>7 DEF CreateTask, Read
<1>8. CASE Register
  BY <1>0, <1>8 DEF Register
<1>9. CASE AddIngest
  BY <1>0, <1>9 DEF AddIngest
<1>10. CASE RecordRevision
  BY <1>0, <1>10 DEF RecordRevision
<1>11. CASE ReadComments
  BY <1>0, <1>11 DEF ReadComments, Read
<1>12. CASE NoComments
  BY <1>0, <1>12 DEF NoComments
<1>13. CASE RecordComment
  BY <1>0, <1>13 DEF RecordComment
<1>14. CASE MoveWatermark
  BY <1>0, <1>14 DEF MoveWatermark
<1>15. CASE NoEntity
  BY <1>0, <1>15 DEF NoEntity
<1>16. CASE NoEntitySync
  BY <1>0, <1>16 DEF NoEntitySync
<1>17. CASE Skip
  BY <1>0, <1>17 DEF Skip
<1>18. CASE StartAnalysis
  BY <1>0, <1>18 DEF StartAnalysis
<1>19. CASE CheckAnswers
  BY <1>0, <1>19 DEF CheckAnswers
<1>20. CASE CheckApproval
  BY <1>0, <1>20 DEF CheckApproval
<1>21. CASE Analyze
  BY <1>0, <1>21 DEF Analyze
<1>22. CASE Analyzed
  BY <1>0, <1>22 DEF Analyzed
<1>23. CASE NoAnswers
  BY <1>0, <1>23 DEF NoAnswers
<1>24. CASE Answers
  BY <1>0, <1>24 DEF Answers, Read
<1>25. CASE FollowUp
  BY <1>0, <1>25 DEF FollowUp
<1>26. CASE Ready
  BY <1>0, <1>26 DEF Ready
<1>27. CASE Said
  BY <1>0, <1>27 DEF Said
<1>28. CASE Vague
  BY <1>0, <1>28 DEF Vague, StateWithoutPlan
<1>29. CASE StorePlan
  BY <1>0, <1>29 DEF StorePlan
<1>30. CASE PostPlan
  BY <1>0, <1>30 DEF PostPlan
<1>31. CASE Propose
  BY <1>0, <1>31 DEF Propose
<1>32. CASE AwaitApproval
  BY <1>0, <1>32 DEF AwaitApproval
<1>33. CASE NoReply
  BY <1>0, <1>33 DEF NoReply
<1>34. CASE Approve
  BY <1>0, <1>34 DEF Approve, Read
<1>35. CASE Reject
  BY <1>0, <1>35 DEF Reject
<1>36. CASE Clarify
  BY <1>0, <1>36 DEF Clarify
<1>37. CASE Acknowledge
  BY <1>0, <1>37 DEF Acknowledge
<1>38. CASE Explain
  BY <1>0, <1>38 DEF Explain
<1>39. CASE Announce
  BY <1>0, <1>39 DEF Announce
<1>40. CASE Execute
  BY <1>0, <1>40 DEF Execute
<1>41. CASE Finish
  BY <1>0, <1>41 DEF Finish
<1>42. CASE Again
  BY <1>0, <1>42 DEF Again
<1>43. CASE JobFails
  BY <1>0, <1>43 DEF JobFails
<1>44. CASE LockLeaks
  BY <1>0, <1>44 DEF LockLeaks
<1>45. CASE SyncFails
  BY <1>0, <1>45 DEF SyncFails
<1>46. CASE RollBack
  BY <1>0, <1>46 DEF RollBack, RolledBack, StateFits
<1>47. CASE NoteFailure
  BY <1>0, <1>47 DEF NoteFailure
<1>48. CASE GiveUp
  BY <1>0, <1>48 DEF GiveUp
<1>49. CASE Crash
  BY <1>0, <1>49 DEF Crash
<1>50. CASE UNCHANGED vars
  BY <1>0, <1>50 DEF vars
<1> QED
  BY <1>1, <1>2, <1>3, <1>4, <1>5, <1>6, <1>7, <1>8, <1>9, <1>10, <1>11, <1>12, <1>13, <1>14, <1>15,
     <1>16, <1>17, <1>18, <1>19, <1>20, <1>21, <1>22, <1>23, <1>24, <1>25, <1>26, <1>27, <1>28,
     <1>29, <1>30, <1>31, <1>32, <1>33, <1>34, <1>35, <1>36, <1>37, <1>38, <1>39, <1>40, <1>41,
     <1>42, <1>43, <1>44, <1>45, <1>46, <1>47, <1>48, <1>49, <1>50
     DEF Next, Sync, Drive, Trouble

LEMMA TaskInvInit == Init => TaskInv
PROOF
  BY DEF Init, TaskInv, TaskKnown, BranchTaken

\* Whatever Azure DevOps and the AI answer or fail to answer, the work item of an
\* operational task is not left analysing or planning.
THEOREM TasksNotStranded == Spec => []NotStranded
PROOF
<1>1. ConversationInv /\ TaskInv => NotStranded
  BY DEF TaskInv, TaskKnown, BranchTaken, NotStranded, Interrupted
<1>2. Init => TaskInv
  BY TaskInvInit
<1>3. ConversationInv /\ TaskInv /\ [Next]_vars => TaskInv'
  BY TaskStep
<1>4. Spec => [](ConversationInv /\ TaskInv)
  BY <1>2, <1>3, ConversationInit, ConversationStep, PTL DEF Spec
<1> QED BY <1>1, <1>4, PTL

=============================================================================
