------------------------- MODULE IssueResolutionProofs -------------------------
(***************************************************************************)
(* What holds of IssueResolution for any number of issue jobs, handlers,   *)
(* crashes, errors and retries.                                            *)
(***************************************************************************)
EXTENDS IssueResolution, TLAPS

\* The approval of j, given or about to be acted on, is on record.
HasApproval(j) == \E a \in approvals : a.job = j

\* The worker processes one queue job, or none when it is idle.
WorkerOK == IF pc = "idle" THEN active = {} ELSE \E e \in Entry : active = {e}

\* Every resume job, wherever the queue keeps it, follows an approval.
ResumeApproved == \A e \in Entries : e.kind = "resume" => HasApproval(e.job)

\* So does every handler that is about to add one.
CallApproved ==
    \A c \in Callers : call[c].pc # "idle" /\ call[c].kind = "resume"
                            => HasApproval(call[c].job)

\* Only a resume job gets to the changes and the push.
ApplyIsResume ==
    pc \in {"apply", "push", "pushed"} => \A e \in active : e.kind = "resume"

IInv == WorkerOK /\ ResumeApproved /\ CallApproved /\ ApplyIsResume /\ PushNeedsApproval

\* Every record of a queue job keeps its type when it is moved.
LEMMA EntryStalled ==
    ASSUME NEW e \in Entry
    PROVE  /\ [e EXCEPT !.stalls = 1] \in Entry
           /\ [e EXCEPT !.stalls = 1].kind = e.kind
           /\ [e EXCEPT !.stalls = 1].job = e.job
  BY DEF Entry

\* Spending keeps the account's type.
LEMMA SpendType ==
    ASSUME NEW w \in DOMAIN Bounds, spent \in [DOMAIN Bounds -> Nat], Spend(w)
    PROVE  spent' \in [DOMAIN Bounds -> Nat]
  BY DEF Spend

\* The types of the variables are preserved by every step.
THEOREM TypeInvariance == Spec => []TypeOK
<1>1. Init => TypeOK
  BY DEF Init, TypeOK, Status, WorkerPc, NoCall, Bounds
<1>2. ASSUME TypeOK, [Next]_vars PROVE TypeOK'
  <2> USE <1>2 DEF TypeOK, rowVars, queueVars, workerVars, historyVars
  <2>1. ASSUME NEW c \in Callers, NEW j \in Jobs, Create(c, j) PROVE TypeOK'
    BY <2>1 DEF Create, Spend, Status, Call, Kinds, Bounds
  <2>2. ASSUME NEW c \in Callers, NEW j \in Jobs, NEW via \in Channels, Approve(c, j, via)
        PROVE  TypeOK'
    BY <2>2 DEF Approve, StatusAfterApproval, Spend, Status, Call, Kinds, Bounds, Approval
  <2>3. ASSUME NEW c \in Callers, NEW j \in Jobs, NEW via \in Channels, RejectCheck(c, j, via)
        PROVE  TypeOK'
    BY <2>3 DEF RejectCheck, Spend, Call, Kinds, Bounds
  <2>4. ASSUME NEW c \in Callers, RejectUpdate(c) PROVE TypeOK'
    <3>1. call[c] \in Call /\ call[c].job \in Jobs
      BY <2>4 DEF RejectUpdate, Call, NoCall
    <3>2. [call[c] EXCEPT !.pc = "updated"] \in Call
      BY <3>1 DEF Call
    <3>3. call' \in [Callers -> Call \cup {NoCall}]
      BY <2>4, <3>2 DEF RejectUpdate
    <3>4. status' \in [Jobs -> Status] /\ approved' \in [Jobs -> BOOLEAN]
      BY <2>4, <3>1 DEF RejectUpdate, StatusAfterRejection, Status
    <3>5. rejections' \subseteq Decision
      BY <2>4, <3>1 DEF RejectUpdate, Decision
    <3>6. QED
      BY <2>4, <3>3, <3>4, <3>5 DEF RejectUpdate
  <2>5. ASSUME NEW c \in Callers, RejectLost(c) PROVE TypeOK'
    <3>1. call[c] \in Call
      BY <2>5 DEF RejectLost, Call, NoCall
    <3>2. [call[c] EXCEPT !.pc = "updated"] \in Call
      BY <3>1 DEF Call
    <3>3. call' \in [Callers -> Call \cup {NoCall}]
      BY <2>5, <3>2 DEF RejectLost
    <3>4. QED
      BY <2>5, <3>3 DEF RejectLost
  <2>6. ASSUME NEW c \in Callers, Add(c) PROVE TypeOK'
    <3>1. call[c].kind \in Kinds /\ call[c].job \in Jobs
      BY <2>6 DEF Add, Call, NoCall
    <3>2. [kind |-> call[c].kind, job |-> call[c].job, by |-> c, stalls |-> 0] \in Entry
      BY <3>1 DEF Entry
    <3>3. wait' \in Seq(Entry)
      BY <2>6, <3>2 DEF Add
    <3>4. QED
      BY <2>6, <3>3 DEF Add
  <2>7. CASE Take
    <3>1. Head(wait) \in Entry /\ Tail(wait) \in Seq(Entry)
      BY <2>7 DEF Take
    <3>2. loaded' \in [status : Status, plan : Nat]
      BY <2>7, <3>1 DEF Take, Entry
    <3>3. QED
      BY <2>7, <3>1, <3>2 DEF Take, WorkerPc
  <2>8. ASSUME NEW e \in active, Process(e) PROVE TypeOK'
    <3> USE <2>8 DEF WorkerPc
    <3>1. CASE Ignore(e)
      BY <3>1 DEF Ignore
    <3>2. CASE Start(e)
      BY <3>2 DEF Start, SetStatus, Status, Entry
    <3>3. CASE Prepared(e)
      BY <3>3 DEF Prepared, SetStatus, Status, Entry
    <3>4. CASE Analyzed(e)
      BY <3>4 DEF Analyzed, SetStatus, Status, Entry
    <3>5. CASE Planned(e)
      <4>1. e.job \in Jobs /\ e.kind \in Kinds
        BY DEF Entry
      <4>2. status' \in [Jobs -> Status] /\ plan' \in [Jobs -> Nat]
        BY <3>5, <4>1 DEF Planned, SetStatus, Status
      <4>3. planRevision' \in [Jobs -> Nat] /\ approved' \in [Jobs -> BOOLEAN]
        <5> HIDE DEF TypeOK, WorkerPc, rowVars, queueVars, workerVars, historyVars
        <5>1. planRevision \in [Jobs -> Nat] /\ approved \in [Jobs -> BOOLEAN]
          BY DEF TypeOK
        <5>2. \/ /\ planRevision' = [planRevision EXCEPT ![e.job] = 1]
                 /\ approved' = approved
              \/ /\ planRevision' = [planRevision EXCEPT ![e.job] = @ + 1]
                 /\ approved' = [approved EXCEPT ![e.job] = FALSE]
          BY <3>5 DEF Planned
        <5>3. approved' \in [Jobs -> BOOLEAN]
          BY <5>1, <5>2
        <5>4. planRevision' \in [Jobs -> Nat]
          BY <4>1, <5>1, <5>2
        <5>5. QED
          BY <5>3, <5>4
      <4>4. pc' \in WorkerPc
        BY <3>5 DEF Planned, PcAfterPlan
      <4>5. QED
        BY <3>5, <4>2, <4>3, <4>4 DEF Planned
    <3>6. CASE Applied(e)
      BY <3>6 DEF Applied, SetStatus, Status, Entry
    <3>7. CASE Push(e)
      BY <3>7 DEF Push, Entry
    <3>8. CASE Finish(e)
      BY <3>8 DEF Finish, SetStatus, Status, Entry
    <3>9. CASE EventCreated(e)
      BY <3>9 DEF EventCreated
    <3>10. CASE Complete(e)
      BY <3>10 DEF Complete, Entry
    <3>11. CASE GiveUp(e)
      BY <3>11 DEF GiveUp
    <3>12. QED
      BY <3>1, <3>2, <3>3, <3>4, <3>5, <3>6, <3>7, <3>8, <3>9, <3>10, <3>11 DEF Process
  <2>9. ASSUME NEW e \in stalled, Recover(e) PROVE TypeOK'
    <3>1. [e EXCEPT !.stalls = 1] \in Entry
      BY EntryStalled
    <3>2. <<[e EXCEPT !.stalls = 1]>> \o wait \in Seq(Entry)
      BY <3>1
    <3>3. QED
      BY <2>9, <3>2 DEF Recover
  <2>10. CASE Trouble
    <3>1. ASSUME NEW c \in Callers, CallAborts(c) PROVE TypeOK'
      BY <3>1 DEF CallAborts, Spend, Bounds, NoCall
    <3>2. ASSUME NEW e \in active, Fail(e) PROVE TypeOK'
      <4>1. status' \in [Jobs -> Status] /\ pc' \in WorkerPc
        BY <3>2 DEF Fail, SetStatus, Status, WorkerPc, Entry
      <4>2. spent' \in [DOMAIN Bounds -> Nat]
        <5>1. "errors" \in DOMAIN Bounds
          BY DEF Bounds
        <5>2. QED
          BY <3>2, <5>1, SpendType DEF Fail
      <4>3. QED
        BY <3>2, <4>1, <4>2 DEF Fail
    <3>3. ASSUME NEW e \in active, FailUnrecorded(e) PROVE TypeOK'
      BY <3>3 DEF FailUnrecorded, Spend, Bounds, WorkerPc
    <3>4. ASSUME NEW e \in active, Crash(e) PROVE TypeOK'
      BY <3>4 DEF Crash, Spend, Bounds, WorkerPc
    <3>5. QED
      BY <2>10, <3>1, <3>2, <3>3, <3>4 DEF Trouble
  <2>11. CASE Administer
    <3>1. ASSUME NEW e \in failed, Retry(e) PROVE TypeOK'
      <4>1. spent' \in [DOMAIN Bounds -> Nat]
        <5>1. "retries" \in DOMAIN Bounds
          BY DEF Bounds
        <5>2. QED
          BY <3>1, <5>1, SpendType DEF Retry
      <4>2. wait' \in Seq(Entry)
        BY <3>1 DEF Retry
      <4>3. QED
        BY <3>1, <4>1, <4>2 DEF Retry
    <3>2. ASSUME NEW e \in failed, Discard(e) PROVE TypeOK'
      <4>1. spent' \in [DOMAIN Bounds -> Nat]
        <5>1. "retries" \in DOMAIN Bounds
          BY DEF Bounds
        <5>2. QED
          BY <3>2, <5>1, SpendType DEF Discard
      <4>2. QED
        BY <3>2, <4>1 DEF Discard
    <3>3. QED
      BY <2>11, <3>1, <3>2 DEF Administer
  <2>12. CASE UNCHANGED vars
    BY <2>12 DEF vars
  <2>13. QED
    BY <2>1, <2>2, <2>3, <2>4, <2>5, <2>6, <2>7, <2>8, <2>9, <2>10, <2>11, <2>12
       DEF Next, Request, Handler
<1>3. QED
  BY <1>1, <1>2, PTL DEF Spec

\* A step that keeps the approvals, adds no queue job and pushes nothing
\* keeps what the queue and the handlers owe to an approval.
LEMMA QuietStep ==
    ASSUME ResumeApproved, CallApproved, PushNeedsApproval,
           approvals \subseteq approvals', Entries' \subseteq Entries,
           call' = call, pushes' = pushes
    PROVE  ResumeApproved' /\ CallApproved' /\ PushNeedsApproval'
  BY DEF ResumeApproved, CallApproved, PushNeedsApproval, HasApproval

\* What the worker's step does not move keeps the entries as they are.
LEMMA SameEntries ==
    ASSUME UNCHANGED <<wait, active, stalled, failed>>
    PROVE  Entries' = Entries
  BY DEF Entries

\* The inductive invariant follows the approval from the handler that was told
\* about it to the resume job it adds, through every place where the queue may
\* keep that job, to the worker's last steps.
LEMMA IInvInvariance == Spec => []IInv
<1>1. Init => IInv
  BY DEF Init, IInv, WorkerOK, ResumeApproved, CallApproved, ApplyIsResume,
         PushNeedsApproval, Entries, NoCall
<1>2. ASSUME TypeOK, IInv, [Next]_vars PROVE IInv'
  <2> USE <1>2 DEF IInv, rowVars, queueVars, workerVars, historyVars
  <2>1. ASSUME NEW c \in Callers, NEW j \in Jobs, Create(c, j) PROVE IInv'
    <3>1. Entries' = Entries
      BY <2>1, SameEntries DEF Create
    <3>2. CallApproved'
      BY <2>1 DEF Create, CallApproved, HasApproval, TypeOK
    <3>3. QED
      BY <2>1, <3>1, <3>2 DEF Create, WorkerOK, ResumeApproved, ApplyIsResume,
                              PushNeedsApproval, HasApproval
  <2>2. ASSUME NEW c \in Callers, NEW j \in Jobs, NEW via \in Channels, Approve(c, j, via)
        PROVE  IInv'
    <3>1. Entries' = Entries
      BY <2>2, SameEntries DEF Approve
    <3>2. HasApproval(j)' /\ \A k : HasApproval(k) => HasApproval(k)'
      <4> DEFINE a == [job |-> j, plan |-> plan[j], via |-> via]
      <4>1. approvals' = approvals \cup {a}
        BY <2>2 DEF Approve
      <4>2. a.job = j
        OBVIOUS
      <4> HIDE DEF a
      <4>3. QED
        BY <4>1, <4>2 DEF HasApproval
    <3>3. CallApproved'
      BY <2>2, <3>2 DEF Approve, CallApproved, TypeOK
    <3>4. PushNeedsApproval' /\ ResumeApproved'
      BY <2>2, <3>1, <3>2 DEF Approve, PushNeedsApproval, ResumeApproved, HasApproval
    <3>5. QED
      BY <2>2, <3>3, <3>4 DEF Approve, WorkerOK, ApplyIsResume
  <2>3. ASSUME NEW c \in Callers, NEW j \in Jobs, NEW via \in Channels, RejectCheck(c, j, via)
        PROVE  IInv'
    <3>1. Entries' = Entries
      BY <2>3, SameEntries DEF RejectCheck
    <3>2. CallApproved'
      BY <2>3 DEF RejectCheck, CallApproved, HasApproval, TypeOK
    <3>3. QED
      BY <2>3, <3>1, <3>2 DEF RejectCheck, WorkerOK, ResumeApproved, ApplyIsResume,
                              PushNeedsApproval, HasApproval
  <2>4. ASSUME NEW c \in Callers, RejectUpdate(c) PROVE IInv'
    <3>1. Entries' = Entries
      BY <2>4, SameEntries DEF RejectUpdate
    <3>2. call[c] \in Call
      BY <2>4 DEF RejectUpdate, TypeOK, NoCall
    <3>3. \A d \in Callers : /\ call'[d].pc # "idle" => call[d].pc # "idle"
                             /\ call[d].pc # "idle" => /\ call'[d].kind = call[d].kind
                                                       /\ call'[d].job = call[d].job
      BY <2>4, <3>2 DEF RejectUpdate, TypeOK, Call
    <3>4. CallApproved'
      BY <2>4, <3>3 DEF RejectUpdate, CallApproved, HasApproval
    <3>5. QED
      BY <2>4, <3>1, <3>4 DEF RejectUpdate, WorkerOK, ResumeApproved, ApplyIsResume,
                              PushNeedsApproval, HasApproval
  <2>5. ASSUME NEW c \in Callers, RejectLost(c) PROVE IInv'
    <3>1. Entries' = Entries
      BY <2>5, SameEntries DEF RejectLost
    <3>2. call[c] \in Call
      BY <2>5 DEF RejectLost, TypeOK, NoCall
    <3>3. \A d \in Callers : call'[d].pc # "idle" =>
             /\ call[d].pc # "idle"
             /\ call'[d].kind = call[d].kind /\ call'[d].job = call[d].job
      <4>1. call[c].pc = "checked"
        BY <2>5 DEF RejectLost
      <4>2. CASE call' = [call EXCEPT ![c] = NoCall]
        BY <4>1, <4>2 DEF TypeOK, NoCall
      <4>3. CASE call' = [call EXCEPT ![c] = [call[c] EXCEPT !.pc = "updated"]]
        <5> DEFINE moved == [call[c] EXCEPT !.pc = "updated"]
        <5>1. moved.kind = call[c].kind /\ moved.job = call[c].job
          BY <3>2 DEF Call
        <5> HIDE DEF moved
        <5>2. QED
          BY <4>1, <4>3, <5>1 DEF TypeOK, moved
      <4>4. QED
        BY <2>5, <4>2, <4>3 DEF RejectLost
    <3>4. CallApproved'
      BY <2>5, <3>3 DEF RejectLost, CallApproved, HasApproval
    <3>5. QED
      BY <2>5, <3>1, <3>4 DEF RejectLost, WorkerOK, ResumeApproved, ApplyIsResume,
                              PushNeedsApproval, HasApproval
  <2>6. ASSUME NEW c \in Callers, Add(c) PROVE IInv'
    <3> DEFINE new == [kind |-> call[c].kind, job |-> call[c].job, by |-> c, stalls |-> 0]
    <3>1. call[c].job \in Jobs /\ call[c].kind \in Kinds
      BY <2>6 DEF Add, TypeOK, Call, NoCall
    <3>2. new \in Entry
      BY <3>1 DEF Entry
    <3>3. Entries' \subseteq Entries \cup {new}
      <4>1. CASE wait' = wait
        BY <2>6, <4>1, SameEntries DEF Add
      <4>2. CASE wait' = Append(wait, new)
        BY <2>6, <3>2, <4>2 DEF Add, Entries, TypeOK
      <4>3. QED
        BY <2>6, <4>1, <4>2 DEF Add
    <3>4. new.kind = "resume" => HasApproval(new.job)
      BY <2>6 DEF Add, CallApproved
    <3>5. ResumeApproved'
      BY <2>6, <3>3, <3>4 DEF Add, ResumeApproved, HasApproval
    <3>6. CallApproved'
      BY <2>6 DEF Add, CallApproved, HasApproval, NoCall, TypeOK
    <3>7. QED
      BY <2>6, <3>5, <3>6 DEF Add, WorkerOK, ApplyIsResume, PushNeedsApproval
  <2>7. CASE Take
    <3>1. Head(wait) \in Entry
      BY <2>7 DEF Take, TypeOK
    <3>2. Entries' \subseteq Entries
      BY <2>7 DEF Take, Entries, TypeOK
    <3>3. WorkerOK' /\ ApplyIsResume'
      BY <2>7, <3>1 DEF Take, WorkerOK, ApplyIsResume
    <3>4. QED
      BY <2>7, <3>2, <3>3, QuietStep DEF Take
  <2>8. ASSUME NEW e \in active, Process(e) PROVE IInv'
    <3>1. active = {e} /\ e \in Entry /\ pc # "idle"
      BY DEF WorkerOK
    <3>2. CASE Push(e)
      <4>1. e.kind = "resume" /\ e \in Entries
        BY <3>2 DEF Push, ApplyIsResume, Entries
      <4>2. HasApproval(e.job)
        BY <4>1 DEF ResumeApproved
      <4>3. PushNeedsApproval'
        BY <3>2, <4>2 DEF Push, PushNeedsApproval, HasApproval, TypeOK
      <4>4. Entries' = Entries
        BY <3>2, SameEntries DEF Push
      <4>5. QED
        BY <3>2, <4>3, <4>4 DEF Push, WorkerOK, ResumeApproved, CallApproved,
                                ApplyIsResume, HasApproval
    <3>3. CASE Complete(e) \/ GiveUp(e)
      <4>1. Entries' \subseteq Entries
        BY <3>3 DEF Complete, GiveUp, Entries
      <4>2. QED
        BY <3>3, <4>1, QuietStep DEF Complete, GiveUp, WorkerOK, ApplyIsResume
    <3>4. CASE \/ Ignore(e) \/ Start(e) \/ Prepared(e) \/ Analyzed(e) \/ Planned(e)
               \/ Applied(e) \/ Finish(e) \/ EventCreated(e)
      <4>1. /\ UNCHANGED <<wait, active, stalled, failed>>
            /\ UNCHANGED <<approvals, call, pushes>>
        BY <3>4 DEF Ignore, Start, Prepared, Analyzed, Planned, Applied, Finish, EventCreated
      <4>2. ApplyIsResume'
        BY <3>1, <3>4, <4>1 DEF Ignore, Start, Prepared, Analyzed, Planned, Applied,
                                Finish, EventCreated, PcAfterPlan, ApplyIsResume
      <4>3. pc' # "idle"
        BY <3>1, <3>4 DEF Ignore, Start, Prepared, Analyzed, Planned, Applied,
                          Finish, EventCreated, PcAfterPlan
      <4>4. QED
        BY <3>1, <4>1, <4>2, <4>3, SameEntries, QuietStep DEF WorkerOK
    <3>5. QED
      BY <2>8, <3>2, <3>3, <3>4 DEF Process
  <2>9. ASSUME NEW e \in stalled, Recover(e) PROVE IInv'
    <3> DEFINE back == [e EXCEPT !.stalls = 1]
    <3>1. e \in Entry /\ e \in Entries
      BY DEF TypeOK, Entries
    <3>2. back \in Entry /\ back.kind = e.kind /\ back.job = e.job
      BY <3>1, EntryStalled
    <3>3. Entries' \subseteq Entries \cup {back}
      <4>1. CASE wait' = <<back>> \o wait /\ UNCHANGED failed
        BY <2>9, <3>2, <4>1 DEF Recover, Entries, TypeOK
      <4>2. CASE failed' = failed \cup {e} /\ UNCHANGED wait
        BY <2>9, <3>1, <4>2 DEF Recover, Entries
      <4>3. QED
        BY <2>9, <4>1, <4>2 DEF Recover
    <3>4. ResumeApproved'
      BY <2>9, <3>1, <3>2, <3>3 DEF Recover, ResumeApproved, HasApproval
    <3>5. QED
      BY <2>9, <3>4 DEF Recover, WorkerOK, CallApproved, ApplyIsResume,
                        PushNeedsApproval, HasApproval
  <2>10. CASE Trouble
    <3>1. ASSUME NEW c \in Callers, CallAborts(c) PROVE IInv'
      <4>1. Entries' = Entries
        BY <3>1, SameEntries DEF CallAborts
      <4>2. CallApproved'
        BY <3>1 DEF CallAborts, CallApproved, HasApproval, NoCall, TypeOK
      <4>3. QED
        BY <3>1, <4>1, <4>2 DEF CallAborts, WorkerOK, ResumeApproved, ApplyIsResume,
                                PushNeedsApproval, HasApproval
    <3>2. ASSUME NEW e \in active, Fail(e) \/ FailUnrecorded(e) PROVE IInv'
      BY <3>2, SameEntries, QuietStep DEF Fail, FailUnrecorded, WorkerOK, ApplyIsResume
    <3>3. ASSUME NEW e \in active, Crash(e) PROVE IInv'
      <4>1. Entries' \subseteq Entries
        BY <3>3 DEF Crash, Entries
      <4>2. QED
        BY <3>3, <4>1, QuietStep DEF Crash, WorkerOK, ApplyIsResume
    <3>4. QED
      BY <2>10, <3>1, <3>2, <3>3 DEF Trouble
  <2>11. CASE Administer
    <3>1. ASSUME NEW e \in failed, Retry(e) \/ Discard(e) PROVE IInv'
      <4>1. e \in Entry
        BY DEF TypeOK
      <4>2. Entries' \subseteq Entries
        <5>1. CASE Retry(e)
          <6>1. wait' = Append(wait, e) /\ failed' = failed \ {e} /\ e \in failed
            BY <5>1 DEF Retry
          <6>2. \A i \in DOMAIN wait' : wait'[i] \in Entries
            BY <4>1, <6>1 DEF Entries, TypeOK
          <6>3. QED
            BY <5>1, <6>1, <6>2 DEF Retry, Entries
        <5>2. CASE Discard(e)
          BY <5>2 DEF Discard, Entries
        <5>3. QED
          BY <3>1, <5>1, <5>2
      <4>3. QED
        BY <3>1, <4>2, QuietStep DEF Retry, Discard, WorkerOK, ApplyIsResume
    <3>2. QED
      BY <2>11, <3>1 DEF Administer
  <2>12. CASE UNCHANGED vars
    BY <2>12, SameEntries, QuietStep DEF vars, WorkerOK, ApplyIsResume
  <2>13. QED
    BY <2>1, <2>2, <2>3, <2>4, <2>5, <2>6, <2>7, <2>8, <2>9, <2>10, <2>11, <2>12
       DEF Next, Request, Handler
<1>3. QED
  BY <1>1, <1>2, TypeInvariance, PTL DEF Spec

\* A branch is pushed only for an issue job that somebody approved.
THEOREM PushNeedsApprovalHolds == Spec => []PushNeedsApproval
<1>1. IInv => PushNeedsApproval
  BY DEF IInv
<1>2. QED
  BY <1>1, IInvInvariance, PTL

-----------------------------------------------------------------------------
(* What is executed, and how often.  A queue job has one copy, which moves   *)
(* between the handler that adds it and the places where the queue keeps it. *)

\* The queue job e is of kind k and about the issue job j.
Is(e, k, j) == e.kind = k /\ e.job = j

Asks(k, j) == \E c \in Callers : call[c].pc # "idle" /\ call[c].kind = k /\ call[c].job = j
Waits(k, j) == \E i \in DOMAIN wait : Is(wait[i], k, j)
Runs(k, j) == \E e \in active : Is(e, k, j)
Stalls(k, j) == \E e \in stalled : Is(e, k, j)
Fails(k, j) == \E e \in failed : Is(e, k, j)
Known(k, j) == Waits(k, j) \/ Runs(k, j) \/ Stalls(k, j) \/ Fails(k, j)

\* There is one copy at most in each place, and in one place at most.
OneWaits(k, j) ==
    \A x, y \in DOMAIN wait : Is(wait[x], k, j) /\ Is(wait[y], k, j) => x = y
OneOf(S, k, j) == \A e, f \in S : Is(e, k, j) /\ Is(f, k, j) => e = f

Single(k, j) ==
    /\ OneWaits(k, j) /\ OneOf(stalled, k, j) /\ OneOf(failed, k, j)
    /\ Waits(k, j) => ~Runs(k, j) /\ ~Stalls(k, j) /\ ~Fails(k, j)
    /\ Runs(k, j) => ~Stalls(k, j) /\ ~Fails(k, j)
    /\ Stalls(k, j) => ~Fails(k, j)

\* The first queue job of an issue job is added by the handler that made the
\* row, and a resume job is added under an id that nobody knows.
NewOnce(j) ==
    /\ Single("new", j)
    /\ status[j] = "NONE" => ~Asks("new", j)
    /\ status[j] = "NONE" \/ Asks("new", j) => ~Known("new", j)
    /\ \A c, d \in Callers :
         /\ call[c].pc # "idle" /\ call[c].kind = "new" /\ call[c].job = j
         /\ call[d].pc # "idle" /\ call[d].kind = "new" /\ call[d].job = j
         => c = d

ResumeOnce(j) == Single("resume", j) /\ (j \in resumed => ~Known("resume", j))

Tokens == \A j \in Jobs : NewOnce(j) /\ ResumeOnce(j)

\* How often a queue job may have been started again, or dropped.
Again == spent.crashes + spent.retries

\* The first queue job is past its plan.
Drafted(j) ==
    /\ status[j] # "NONE" /\ ~Asks("new", j) /\ ~Waits("new", j) /\ ~Stalls("new", j)
    /\ Runs("new", j) => pc \in {"event", "done", "failing"}

\* Nothing is left that could make the row wait for approval again.
Settled(j) ==
    /\ Drafted(j)
    /\ status[j] # "AWAITING_APPROVAL"
    /\ Runs("regenerate", j) =>
         \/ pc \in {"done", "failing"}
         \/ pc = "loaded" /\ loaded.status # "AWAITING_APPROVAL"

\* The resume job is past its push, and its id is taken.
Exhausted(j) ==
    /\ ResumeIdKnown(j)
    /\ ~Waits("resume", j) /\ ~Stalls("resume", j)
    /\ Runs("resume", j) => pc \in {"pushed", "event", "done", "failing"}

\* The resume job being processed will push.
Executing ==
    \/ pc = "loaded" /\ loaded.status = "AWAITING_APPROVAL"
    \/ pc \in {"clone", "apply", "push"}

HasRejected(j) ==
    \E c \in Callers : call[c].pc = "updated" /\ call[c].kind = "regenerate" /\ call[c].job = j

\* Everything that comes after the first plan.
Later(j) ==
    \/ status[j] = "AWAITING_APPROVAL" \/ pushes[j] # <<>>
    \/ Asks("resume", j) \/ Asks("regenerate", j)
    \/ Known("resume", j) \/ Known("regenerate", j)

\* As long as no queue job runs twice, there is one plan, and the row leaves
\* AWAITING_APPROVAL for good.
Calm(j) ==
    /\ Later(j) => Drafted(j)
    /\ Known("regenerate", j) \/ HasRejected(j) => Settled(j)
    /\ Runs("resume", j) /\ pc \in {"clone", "apply", "push", "pushed"} => Settled(j)
    /\ pushes[j] # <<>> => Settled(j) /\ Exhausted(j)
    /\ Asks("resume", j) \/ Known("resume", j) => WasApproved(j, plan[j])
    /\ Runs("resume", j) => loaded.plan = plan[j]
    /\ \A i \in DOMAIN pushes[j] : WasApproved(j, pushes[j][i])

CalmInv == Again = 0 => stalled = {} /\ \A j \in Jobs : Calm(j)

\* After one crash or retry there may be a second plan, or a second run of the
\* resume job, but not both.
Once(j) ==
    /\ Len(pushes[j]) <= 1
    /\ pushes[j] # <<>> => Settled(j) \/ Exhausted(j)
    /\ Runs("resume", j) /\ Executing => pushes[j] = <<>>

OnceInv == Again <= 1 => \A j \in Jobs : Once(j)

\* What is added to the queue waits, beside what waited.
LEMMA AppendWaits ==
    ASSUME NEW e \in Entry, wait \in Seq(Entry), wait' = Append(wait, e), NEW k, NEW j
    PROVE  /\ Waits(k, j)' <=> Waits(k, j) \/ Is(e, k, j)
           /\ OneWaits(k, j) /\ (Is(e, k, j) => ~Waits(k, j)) => OneWaits(k, j)'
<1>1. /\ DOMAIN wait = 1 .. Len(wait) /\ DOMAIN wait' = 1 .. Len(wait) + 1
      /\ Len(wait) \in Nat
      /\ \A i \in DOMAIN wait : wait'[i] = wait[i]
      /\ wait'[Len(wait) + 1] = e
  OBVIOUS
<1>2. Waits(k, j)' <=> Waits(k, j) \/ Is(e, k, j)
  BY <1>1 DEF Waits, Is
<1>3. ASSUME OneWaits(k, j), Is(e, k, j) => ~Waits(k, j) PROVE OneWaits(k, j)'
  BY <1>1, <1>3 DEF OneWaits, Waits, Is
<1>4. QED
  BY <1>2, <1>3

\* So does what is put back in front.
LEMMA FrontWaits ==
    ASSUME NEW e \in Entry, wait \in Seq(Entry), wait' = <<e>> \o wait, NEW k, NEW j
    PROVE  /\ Waits(k, j)' <=> Waits(k, j) \/ Is(e, k, j)
           /\ OneWaits(k, j) /\ (Is(e, k, j) => ~Waits(k, j)) => OneWaits(k, j)'
<1>1. /\ DOMAIN wait = 1 .. Len(wait) /\ DOMAIN wait' = 1 .. Len(wait) + 1
      /\ Len(wait) \in Nat
      /\ \A i \in DOMAIN wait : wait'[i + 1] = wait[i] /\ i + 1 \in DOMAIN wait'
      /\ wait'[1] = e /\ 1 \in DOMAIN wait'
      /\ \A i \in DOMAIN wait' : i = 1 \/ (i - 1 \in DOMAIN wait /\ wait'[i] = wait[i - 1])
  <2>1. DOMAIN wait = 1 .. Len(wait) /\ Len(wait) \in Nat
    OBVIOUS
  <2>2. DOMAIN wait' = 1 .. Len(wait) + 1 /\ wait'[1] = e
    OBVIOUS
  <2>3. \A i \in 1 .. Len(wait) : wait'[i + 1] = wait[i] /\ i + 1 \in 1 .. Len(wait) + 1
    OBVIOUS
  <2>4. \A i \in 1 .. Len(wait) + 1 : i = 1 \/ (i - 1 \in 1 .. Len(wait) /\ i = (i - 1) + 1)
    BY <2>1
  <2>5. QED
    BY <2>1, <2>2, <2>3, <2>4
<1>2. Waits(k, j)' <=> Waits(k, j) \/ Is(e, k, j)
  <2>1. ASSUME Waits(k, j)' PROVE Waits(k, j) \/ Is(e, k, j)
    BY <1>1, <2>1 DEF Waits, Is
  <2>2. ASSUME Waits(k, j) PROVE Waits(k, j)'
    <3>1. PICK i \in DOMAIN wait : Is(wait[i], k, j)
      BY <2>2 DEF Waits
    <3>2. Is(wait'[i + 1], k, j)
      BY <1>1, <3>1
    <3>3. QED
      BY <1>1, <3>2 DEF Waits
  <2>3. ASSUME Is(e, k, j) PROVE Waits(k, j)'
    BY <1>1, <2>3 DEF Waits
  <2>4. QED
    BY <2>1, <2>2, <2>3
<1>3. ASSUME OneWaits(k, j), Is(e, k, j) => ~Waits(k, j) PROVE OneWaits(k, j)'
  BY <1>1, <1>3 DEF OneWaits, Waits, Is
<1>4. QED
  BY <1>2, <1>3

\* What is taken waits no more.
LEMMA TakeWaits ==
    ASSUME wait \in Seq(Entry), wait # <<>>, wait' = Tail(wait), NEW k, NEW j
    PROVE  /\ Head(wait) \in Entry
           /\ Waits(k, j) <=> Waits(k, j)' \/ Is(Head(wait), k, j)
           /\ OneWaits(k, j) => OneWaits(k, j)' /\ (Is(Head(wait), k, j) => ~Waits(k, j)')
<1>1. /\ DOMAIN wait = 1 .. Len(wait) /\ DOMAIN wait' = 1 .. Len(wait) - 1
      /\ Len(wait) \in Nat /\ Len(wait) > 0
      /\ \A i \in DOMAIN wait' : wait'[i] = wait[i + 1] /\ i + 1 \in DOMAIN wait
      /\ wait[1] = Head(wait)
      /\ \A i \in DOMAIN wait : i = 1 \/ (i - 1 \in DOMAIN wait' /\ wait[i] = wait'[i - 1])
  <2>1. DOMAIN wait = 1 .. Len(wait) /\ Len(wait) \in Nat /\ Len(wait) > 0 /\ wait[1] = Head(wait)
    OBVIOUS
  <2>2. DOMAIN wait' = 1 .. Len(wait) - 1
    OBVIOUS
  <2>3. \A i \in 1 .. Len(wait) - 1 : wait'[i] = wait[i + 1] /\ i + 1 \in 1 .. Len(wait)
    BY <2>1
  <2>4. \A i \in 1 .. Len(wait) : i = 1 \/ (i - 1 \in 1 .. Len(wait) - 1 /\ i = (i - 1) + 1)
    BY <2>1
  <2>5. QED
    BY <2>1, <2>2, <2>3, <2>4
<1>2. Waits(k, j) <=> Waits(k, j)' \/ Is(Head(wait), k, j)
  <2>1. ASSUME Waits(k, j) PROVE Waits(k, j)' \/ Is(Head(wait), k, j)
    BY <1>1, <2>1 DEF Waits, Is
  <2>2. ASSUME Waits(k, j)' \/ Is(Head(wait), k, j) PROVE Waits(k, j)
    BY <1>1, <2>2 DEF Waits, Is
  <2>3. QED
    BY <2>1, <2>2
<1>3. ASSUME OneWaits(k, j)
      PROVE  OneWaits(k, j)' /\ (Is(Head(wait), k, j) => ~Waits(k, j)')
  <2>1. OneWaits(k, j)'
    BY <1>1, <1>3 DEF OneWaits, Is
  <2>2. ASSUME Is(Head(wait), k, j), Waits(k, j)' PROVE FALSE
    BY <1>1, <1>3, <2>2 DEF OneWaits, Waits, Is
  <2>3. QED
    BY <2>1, <2>2
<1>4. QED
  BY <1>2, <1>3

\* A queue job that is moved, whatever its kind, keeps one copy, and nothing is
\* known that was not.
LEMMA QueueKept ==
    ASSUME TypeOK, WorkerOK, NEW k, NEW j, Single(k, j),
           \/ UNCHANGED <<wait, active, stalled, failed>>
           \/ Take
           \/ \E e \in active : Complete(e) \/ GiveUp(e) \/ Crash(e)
           \/ \E e \in stalled : Recover(e)
           \/ \E e \in failed : Retry(e) \/ Discard(e)
    PROVE  Single(k, j)' /\ (Known(k, j)' => Known(k, j))
<1> USE DEF Single, Known
<1>1. CASE UNCHANGED <<wait, active, stalled, failed>>
  BY <1>1 DEF Waits, Runs, Stalls, Fails, OneWaits, OneOf
<1>2. CASE Take
  <2>1. active' = {Head(wait)} /\ active = {}
    BY <1>2 DEF Take, WorkerOK
  <2>2. UNCHANGED <<stalled, failed>>
    BY <1>2 DEF Take
  <2>3. /\ Waits(k, j) <=> Waits(k, j)' \/ Is(Head(wait), k, j)
        /\ OneWaits(k, j)' /\ (Is(Head(wait), k, j) => ~Waits(k, j)')
    BY <1>2, TakeWaits DEF Take, TypeOK
  <2>4. Runs(k, j)' <=> Is(Head(wait), k, j)
    BY <2>1 DEF Runs
  <2>5. (Stalls(k, j)' <=> Stalls(k, j)) /\ (Fails(k, j)' <=> Fails(k, j))
    BY <2>2 DEF Stalls, Fails
  <2>6. OneOf(stalled, k, j)' /\ OneOf(failed, k, j)'
    BY <2>2 DEF OneOf
  <2>7. QED
    BY <2>3, <2>4, <2>5, <2>6
<1>3. ASSUME NEW e \in active, Complete(e) \/ GiveUp(e) \/ Crash(e)
      PROVE  Single(k, j)' /\ (Known(k, j)' => Known(k, j))
  <2>1. active = {e} /\ active' = {} /\ wait' = wait
    BY <1>3 DEF Complete, GiveUp, Crash, WorkerOK
  <2>2. ~Runs(k, j)' /\ (Is(e, k, j) <=> Runs(k, j))
    BY <2>1 DEF Runs
  <2>3. (Waits(k, j)' <=> Waits(k, j)) /\ OneWaits(k, j)'
    BY <2>1 DEF Waits, OneWaits
  <2>4. CASE stalled' = stalled /\ failed' = failed
    <3>1. (Stalls(k, j)' <=> Stalls(k, j)) /\ (Fails(k, j)' <=> Fails(k, j))
      BY <2>4 DEF Stalls, Fails
    <3>2. OneOf(stalled, k, j)' /\ OneOf(failed, k, j)'
      BY <2>4 DEF OneOf
    <3>3. QED
      BY <2>2, <2>3, <3>1, <3>2
  <2>5. CASE stalled' = stalled \cup {e} /\ failed' = failed
    <3>1. /\ Stalls(k, j)' <=> Stalls(k, j) \/ Is(e, k, j)
          /\ Fails(k, j)' <=> Fails(k, j)
      BY <2>5 DEF Stalls, Fails
    <3>2. OneOf(stalled, k, j)' /\ OneOf(failed, k, j)'
      BY <2>2, <2>5 DEF OneOf, Stalls
    <3>3. QED
      BY <2>2, <2>3, <3>1, <3>2
  <2>6. CASE stalled' = stalled /\ failed' = failed \cup {e}
    <3>1. /\ Stalls(k, j)' <=> Stalls(k, j)
          /\ Fails(k, j)' <=> Fails(k, j) \/ Is(e, k, j)
      BY <2>6 DEF Stalls, Fails
    <3>2. OneOf(stalled, k, j)' /\ OneOf(failed, k, j)'
      BY <2>2, <2>6 DEF OneOf, Fails
    <3>3. QED
      BY <2>2, <2>3, <3>1, <3>2
  <2>7. QED
    BY <1>3, <2>4, <2>5, <2>6 DEF Complete, GiveUp, Crash
<1>4. ASSUME NEW e \in stalled, Recover(e)
      PROVE  Single(k, j)' /\ (Known(k, j)' => Known(k, j))
  <2> DEFINE back == [e EXCEPT !.stalls = 1]
  <2>1. e \in Entry /\ back \in Entry /\ (Is(back, k, j) <=> Is(e, k, j))
    BY EntryStalled DEF TypeOK, Is
  <2>2. stalled' = stalled \ {e} /\ active' = active
    BY <1>4 DEF Recover, workerVars
  <2>3. /\ Stalls(k, j) <=> Stalls(k, j)' \/ Is(e, k, j)
        /\ Is(e, k, j) => ~Stalls(k, j)'
        /\ OneOf(stalled, k, j)'
    BY <2>2 DEF Stalls, OneOf
  <2>4. Runs(k, j)' <=> Runs(k, j)
    BY <2>2 DEF Runs
  <2>5. CASE wait' = <<back>> \o wait /\ failed' = failed
    <3>1. /\ Waits(k, j)' <=> Waits(k, j) \/ Is(back, k, j)
          /\ OneWaits(k, j)'
      <4>1. Is(back, k, j) => ~Waits(k, j)
        BY <2>1, <2>3
      <4>2. wait \in Seq(Entry)
        BY DEF TypeOK
      <4> HIDE DEF back
      <4>3. QED
        BY <2>1, <2>5, <4>1, <4>2, FrontWaits
    <3>2. (Fails(k, j)' <=> Fails(k, j)) /\ OneOf(failed, k, j)'
      BY <2>5 DEF Fails, OneOf
    <3>3. QED
      BY <2>1, <2>3, <2>4, <3>1, <3>2
  <2>6. CASE wait' = wait /\ failed' = failed \cup {e}
    <3>1. (Waits(k, j)' <=> Waits(k, j)) /\ OneWaits(k, j)'
      BY <2>6 DEF Waits, OneWaits
    <3>2. Fails(k, j)' <=> Fails(k, j) \/ Is(e, k, j)
      BY <2>6 DEF Fails
    <3>3. OneOf(failed, k, j)'
      BY <2>3, <2>6 DEF OneOf, Fails
    <3>4. QED
      BY <2>3, <2>4, <3>1, <3>2, <3>3
  <2>7. QED
    BY <1>4, <2>5, <2>6 DEF Recover
<1>5. ASSUME NEW e \in failed, Retry(e) \/ Discard(e)
      PROVE  Single(k, j)' /\ (Known(k, j)' => Known(k, j))
  <2>1. failed' = failed \ {e} /\ UNCHANGED <<active, stalled>> /\ e \in Entry
    BY <1>5 DEF Retry, Discard, TypeOK, workerVars
  <2>2. /\ Fails(k, j) <=> Fails(k, j)' \/ Is(e, k, j)
        /\ Is(e, k, j) => ~Fails(k, j)'
        /\ OneOf(failed, k, j)'
    BY <2>1 DEF Fails, OneOf
  <2>3. /\ (Runs(k, j)' <=> Runs(k, j)) /\ (Stalls(k, j)' <=> Stalls(k, j))
        /\ OneOf(stalled, k, j)'
    BY <2>1 DEF Runs, Stalls, OneOf
  <2>4. CASE wait' = Append(wait, e)
    <3>1. /\ Waits(k, j)' <=> Waits(k, j) \/ Is(e, k, j)
          /\ OneWaits(k, j)'
      BY <2>1, <2>2, <2>4, AppendWaits DEF TypeOK
    <3>2. QED
      BY <2>2, <2>3, <3>1
  <2>5. CASE wait' = wait
    <3>1. (Waits(k, j)' <=> Waits(k, j)) /\ OneWaits(k, j)'
      BY <2>5 DEF Waits, OneWaits
    <3>2. QED
      BY <2>2, <2>3, <3>1
  <2>6. QED
    BY <1>5, <2>4, <2>5 DEF Retry, Discard
<1>6. QED
  BY <1>1, <1>2, <1>3, <1>4, <1>5

\* Any step but the making of a row and the adding of a queue job only moves
\* what is known, and asks for nothing new.
LEMMA TokensKept ==
    ASSUME TypeOK, NEW j \in Jobs, NewOnce(j), ResumeOnce(j),
           Single("new", j)', Single("resume", j)',
           Known("new", j)' => Known("new", j), Known("resume", j)' => Known("resume", j),
           status'[j] = "NONE" => status[j] = "NONE",
           \A c \in Callers : call'[c].pc # "idle" /\ call'[c].kind = "new" /\ call'[c].job = j
              => call[c].pc # "idle" /\ call[c].kind = "new" /\ call[c].job = j,
           j \in resumed' => j \in resumed \/ ~Known("resume", j)'
    PROVE  NewOnce(j)' /\ ResumeOnce(j)'
<1>1. Asks("new", j)' => Asks("new", j)
  BY DEF Asks
<1>2. \A c, d \in Callers :
         /\ call'[c].pc # "idle" /\ call'[c].kind = "new" /\ call'[c].job = j
         /\ call'[d].pc # "idle" /\ call'[d].kind = "new" /\ call'[d].job = j
         => c = d
  BY DEF NewOnce
<1>3. NewOnce(j)'
  BY <1>1, <1>2 DEF NewOnce
<1>4. ResumeOnce(j)'
  BY DEF ResumeOnce
<1>5. QED
  BY <1>3, <1>4

\* The actions that move queue jobs, and those that leave them where they are.
Moves ==
    \/ Take
    \/ \E e \in active : Complete(e) \/ GiveUp(e) \/ Crash(e)
    \/ \E e \in stalled : Recover(e)
    \/ \E e \in failed : Retry(e) \/ Discard(e)

Works(e) ==
    \/ Ignore(e) \/ Start(e) \/ Prepared(e) \/ Analyzed(e) \/ Planned(e) \/ Applied(e)
    \/ Push(e) \/ Finish(e) \/ EventCreated(e) \/ Fail(e) \/ FailUnrecorded(e)

Asked(c) ==
    \/ \E j \in Jobs, via \in Channels : Approve(c, j, via) \/ RejectCheck(c, j, via)
    \/ RejectUpdate(c) \/ RejectLost(c) \/ CallAborts(c)

LEMMA NextIs ==
    ASSUME Next
    PROVE  \/ \E c \in Callers, j \in Jobs : Create(c, j)
           \/ \E c \in Callers : Add(c)
           \/ \E c \in Callers : Asked(c)
           \/ \E e \in active : Works(e)
           \/ Moves
  BY DEF Next, Request, Handler, Process, Trouble, Administer, Asked, Works, Moves

\* What each kind of step leaves alone.
LEMMA MovesFrame == ASSUME Moves PROVE UNCHANGED <<rowVars, call, historyVars>>
  BY DEF Moves, Take, Complete, GiveUp, Crash, Recover, Retry, Discard, rowVars, historyVars

LEMMA WorksFrame ==
    ASSUME NEW e \in active, Works(e)
    PROVE  UNCHANGED <<queueVars, active, call, approvals, loaded>>
  BY DEF Works, Ignore, Start, Prepared, Analyzed, Planned, Applied, Push, Finish, EventCreated,
         Fail, FailUnrecorded, historyVars, rowVars

LEMMA AskedFrame ==
    ASSUME NEW c \in Callers, Asked(c)
    PROVE  UNCHANGED <<queueVars, workerVars, plan, pushes>>
  BY DEF Asked, Approve, RejectCheck, RejectUpdate, RejectLost, CallAborts, historyVars, rowVars

\* A step that leaves the queue alone leaves everybody's queue jobs alone.
LEMMA SameTokens ==
    ASSUME UNCHANGED <<wait, active, stalled, failed>>, NEW k, NEW j
    PROVE  /\ Waits(k, j)' <=> Waits(k, j)
           /\ Runs(k, j)' <=> Runs(k, j)
           /\ Stalls(k, j)' <=> Stalls(k, j)
           /\ Fails(k, j)' <=> Fails(k, j)
           /\ Known(k, j)' <=> Known(k, j)
           /\ Single(k, j)' <=> Single(k, j)
  BY DEF Waits, Runs, Stalls, Fails, Known, Single, OneWaits, OneOf

\* The worker does not make rows.
LEMMA WorksStatus ==
    ASSUME TypeOK, NEW e \in active, Works(e), NEW j \in Jobs
    PROVE  /\ status'[j] # "NONE" \/ status'[j] = status[j]
           /\ e.job # j => status'[j] = status[j] /\ plan'[j] = plan[j] /\ pushes'[j] = pushes[j]
  BY DEF TypeOK, Works, Ignore, Start, Prepared, Analyzed, Planned, Applied, Push, Finish,
         EventCreated, Fail, FailUnrecorded, SetStatus, historyVars, rowVars

\* A handler that does not add a queue job takes no row back, and makes none wait.
LEMMA AskedStatus ==
    ASSUME TypeOK, NEW c \in Callers, Asked(c), NEW j \in Jobs
    PROVE  /\ status'[j] = "NONE" <=> status[j] = "NONE"
           /\ status'[j] = "AWAITING_APPROVAL" => status[j] = "AWAITING_APPROVAL"
<1> DEFINE Kept == /\ status'[j] = "NONE" <=> status[j] = "NONE"
                   /\ status'[j] = "AWAITING_APPROVAL" => status[j] = "AWAITING_APPROVAL"
<1>1. ASSUME NEW i \in Jobs, NEW via \in Channels, Approve(c, i, via) PROVE Kept
  BY <1>1 DEF Approve, StatusAfterApproval, TypeOK
<1>2. ASSUME RejectUpdate(c) PROVE Kept
  BY <1>2 DEF RejectUpdate, StatusAfterRejection, TypeOK
<1>3. ASSUME \/ \E i \in Jobs, via \in Channels : RejectCheck(c, i, via)
             \/ RejectLost(c) \/ CallAborts(c)
      PROVE  Kept
  BY <1>3 DEF RejectCheck, RejectLost, CallAborts, rowVars
<1>4. QED
  BY <1>1, <1>2, <1>3 DEF Asked

\* Who asks for something asked before, or has seen a row that waits, and a
\* resume job is asked for when the approval is on record.
LEMMA AskedCalls ==
    ASSUME TypeOK, NEW c \in Callers, Asked(c), NEW d \in Callers, call'[d].pc # "idle"
    PROVE  \/ call[d].pc # "idle" /\ call'[d].kind = call[d].kind /\ call'[d].job = call[d].job
           \/ /\ call'[d].kind # "new"
              /\ status[call'[d].job] = "AWAITING_APPROVAL"
              /\ call'[d].kind = "resume"
                   => WasApproved(call[d].job, plan[call[d].job])'
<1>1. ASSUME NEW j \in Jobs, NEW via \in Channels, Approve(c, j, via), d = c
      PROVE  /\ call'[d].kind = "resume" /\ call'[d].job = j /\ status[j] = "AWAITING_APPROVAL"
             /\ WasApproved(j, plan[j])'
  <2> DEFINE a == [job |-> j, plan |-> plan[j], via |-> via]
  <2>1. approvals' = approvals \cup {a} /\ plan' = plan
    BY <1>1 DEF Approve
  <2>2. a.job = j /\ a.plan = plan[j]
    OBVIOUS
  <2> HIDE DEF a
  <2>3. WasApproved(j, plan[j])'
    BY <2>1, <2>2 DEF WasApproved
  <2>4. QED
    BY <1>1, <2>3 DEF Approve, TypeOK
<1>2. ASSUME NEW j \in Jobs, NEW via \in Channels, RejectCheck(c, j, via), d = c
      PROVE  call'[d].kind = "regenerate" /\ call'[d].job = j /\ status[j] = "AWAITING_APPROVAL"
  BY <1>2 DEF RejectCheck, TypeOK
<1>3. ASSUME RejectUpdate(c) \/ RejectLost(c), d = c
      PROVE  call[d].pc # "idle" /\ call'[d].kind = call[d].kind /\ call'[d].job = call[d].job
  <2> DEFINE moved == [call[c] EXCEPT !.pc = "updated"]
  <2>1. call[c].pc = "checked" /\ call[c] \in Call
    BY <1>3 DEF RejectUpdate, RejectLost, TypeOK, NoCall
  <2>2. moved.kind = call[c].kind /\ moved.job = call[c].job
    BY <2>1 DEF Call
  <2>3. call' = [call EXCEPT ![c] = NoCall] \/ call' = [call EXCEPT ![c] = moved]
    BY <1>3 DEF RejectUpdate, RejectLost
  <2> HIDE DEF moved
  <2>4. QED
    BY <1>3, <2>1, <2>2, <2>3 DEF TypeOK, NoCall
<1>4. ASSUME CallAborts(c), d = c PROVE FALSE
  BY <1>4 DEF CallAborts, TypeOK, NoCall
<1>5. ASSUME d # c PROVE call'[d] = call[d]
  BY <1>5 DEF Asked, Approve, RejectCheck, RejectUpdate, RejectLost, CallAborts, TypeOK
<1>6. CASE d # c
  BY <1>5, <1>6
<1>7. CASE d = c
  <2>1. CASE \E j \in Jobs, via \in Channels : Approve(c, j, via)
    BY <1>1, <1>7, <2>1
  <2>2. CASE \E j \in Jobs, via \in Channels : RejectCheck(c, j, via)
    BY <1>2, <1>7, <2>2
  <2>3. CASE RejectUpdate(c) \/ RejectLost(c)
    BY <1>3, <1>7, <2>3
  <2>4. CASE CallAborts(c)
    BY <1>4, <1>7, <2>4
  <2>5. QED
    BY <2>1, <2>2, <2>3, <2>4 DEF Asked
<1>8. QED
  BY <1>6, <1>7

\* A rejection that was decided leaves a row that does not wait.
LEMMA AskedRejected ==
    ASSUME TypeOK, NEW c \in Callers, Asked(c), NEW j \in Jobs, HasRejected(j)'
    PROVE  \/ HasRejected(j)
           \/ Asks("regenerate", j) /\ status'[j] # "AWAITING_APPROVAL"
<1>1. PICK d \in Callers : call'[d].pc = "updated" /\ call'[d].kind = "regenerate" /\ call'[d].job = j
  BY DEF HasRejected
<1>2. CASE call'[d] = call[d]
  BY <1>1, <1>2 DEF HasRejected
<1>3. CASE d = c /\ (RejectUpdate(c) \/ RejectLost(c))
  <2> DEFINE moved == [call[c] EXCEPT !.pc = "updated"]
  <2>1. call[c].pc = "checked" /\ call[c] \in Call
    BY <1>3 DEF RejectUpdate, RejectLost, TypeOK, NoCall
  <2>2. moved.kind = call[c].kind /\ moved.job = call[c].job
    BY <2>1 DEF Call
  <2>3. call' = [call EXCEPT ![c] = NoCall] \/ call' = [call EXCEPT ![c] = moved]
    BY <1>3 DEF RejectUpdate, RejectLost
  <2> HIDE DEF moved
  <2>4. call[c].kind = "regenerate" /\ call[c].job = j
    BY <1>1, <1>3, <2>2, <2>3 DEF TypeOK, NoCall
  <2>5. status'[j] # "AWAITING_APPROVAL"
    BY <1>3, <2>4 DEF RejectUpdate, RejectLost, StatusAfterRejection, TypeOK, rowVars
  <2>6. QED
    BY <2>1, <2>4, <2>5 DEF Asks
<1>4. CASE d = c /\ ~(RejectUpdate(c) \/ RejectLost(c))
  BY <1>1, <1>4 DEF Asked, Approve, RejectCheck, CallAborts, TypeOK, NoCall
<1>5. CASE d # c
  BY <1>2, <1>5 DEF Asked, Approve, RejectCheck, RejectUpdate, RejectLost, CallAborts, TypeOK
<1>6. QED
  BY <1>3, <1>4, <1>5

\* No queue job is in two places, and none is added twice.
LEMMA TokensStep ==
    ASSUME TypeOK, WorkerOK, Tokens, [Next]_vars
    PROVE  Tokens'
<1> SUFFICES ASSUME NEW j \in Jobs
             PROVE  NewOnce(j)' /\ ResumeOnce(j)'
  BY DEF Tokens
<1>0. NewOnce(j) /\ ResumeOnce(j) /\ Single("new", j) /\ Single("resume", j)
  BY DEF Tokens, NewOnce, ResumeOnce
<1>1. ASSUME NEW c \in Callers, NEW i \in Jobs, Create(c, i)
      PROVE  NewOnce(j)' /\ ResumeOnce(j)'
  <2>1. UNCHANGED <<wait, active, stalled, failed, resumed>>
    BY <1>1 DEF Create, queueVars, workerVars
  <2>2. \A k : (Single(k, j)' <=> Single(k, j)) /\ (Known(k, j)' <=> Known(k, j))
    BY <2>1, SameTokens
  <2>3. /\ call'[c].job = i /\ call'[c].pc = "updated" /\ call'[c].kind = "new"
        /\ \A d \in Callers \ {c} : call'[d] = call[d]
        /\ status[i] = "NONE" /\ status'[i] = "PENDING"
        /\ i # j => status'[j] = status[j]
        /\ call[c].pc = "idle"
    BY <1>1 DEF Create, TypeOK, Idle
  <2>4. Asks("new", j)' <=> Asks("new", j) \/ i = j
    BY <2>3 DEF Asks
  <2>5. CASE i = j
    <3>1. ~Asks("new", j) /\ ~Known("new", j)
      BY <1>0, <2>3, <2>5 DEF NewOnce
    <3>2. \A d \in Callers :
            call'[d].pc # "idle" /\ call'[d].kind = "new" /\ call'[d].job = j => d = c
      BY <2>3, <3>1 DEF Asks
    <3>3. QED
      BY <1>0, <2>1, <2>2, <2>3, <2>5, <3>1, <3>2 DEF NewOnce, ResumeOnce
  <2>6. CASE i # j
    BY <1>0, <2>1, <2>2, <2>3, <2>4, <2>6 DEF NewOnce, ResumeOnce
  <2>7. QED
    BY <2>5, <2>6
<1>2. ASSUME NEW c \in Callers, Add(c)
      PROVE  NewOnce(j)' /\ ResumeOnce(j)'
  <2> DEFINE new == [kind |-> call[c].kind, job |-> call[c].job, by |-> c, stalls |-> 0]
  <2>1. /\ UNCHANGED <<active, stalled, failed, resumed, status>>
        /\ call' = [call EXCEPT ![c] = NoCall] /\ call[c].pc = "updated"
    BY <1>2 DEF Add, rowVars, workerVars
  <2>2. new \in Entry /\ \A k, i : Is(new, k, i) <=> call[c].kind = k /\ call[c].job = i
    BY <2>1 DEF TypeOK, Call, NoCall, Entry, Is
  <2>3. /\ \A d \in Callers : call'[d].pc # "idle" => d # c /\ call'[d] = call[d]
        /\ Asks("new", j)' => Asks("new", j)
    BY <2>1 DEF TypeOK, NoCall, Asks
  <2>4. CASE wait' = wait
    <3>1. \A k : (Single(k, j)' <=> Single(k, j)) /\ (Known(k, j)' <=> Known(k, j))
      BY <2>1, <2>4, SameTokens
    <3>2. QED
      BY <1>0, <2>1, <2>3, <3>1, TokensKept
  <2>5. CASE wait' = Append(wait, new) /\ ~(call[c].kind = "resume" /\ ResumeIdKnown(call[c].job))
    <3>1. ASSUME NEW k
          PROVE  /\ Waits(k, j)' <=> Waits(k, j) \/ Is(new, k, j)
                 /\ OneWaits(k, j) /\ (Is(new, k, j) => ~Waits(k, j)) => OneWaits(k, j)'
      <4> HIDE DEF new
      <4>1. QED
        BY <2>2, <2>5, AppendWaits DEF TypeOK
    <3>2. \A k : /\ Runs(k, j)' <=> Runs(k, j)
                 /\ Stalls(k, j)' <=> Stalls(k, j)
                 /\ Fails(k, j)' <=> Fails(k, j)
                 /\ OneOf(stalled, k, j)' <=> OneOf(stalled, k, j)
                 /\ OneOf(failed, k, j)' <=> OneOf(failed, k, j)
      BY <2>1 DEF Runs, Stalls, Fails, OneOf
    <3> HIDE DEF new
    <3>3. ASSUME NEW k, Single(k, j), Is(new, k, j) => ~Known(k, j)
          PROVE  /\ Single(k, j)'
                 /\ Known(k, j)' <=> Known(k, j) \/ Is(new, k, j)
      BY <3>1, <3>2, <3>3 DEF Single, Known
    <3>4. Is(new, "new", j) => Asks("new", j) /\ ~Known("new", j)
      BY <1>0, <2>1, <2>2 DEF NewOnce, Asks
    <3>5. Is(new, "new", j) => ~Asks("new", j)'
      <4> SUFFICES ASSUME Is(new, "new", j), Asks("new", j)' PROVE FALSE
        OBVIOUS
      <4>1. PICK d \in Callers : call'[d].pc # "idle" /\ call'[d].kind = "new" /\ call'[d].job = j
        BY DEF Asks
      <4>2. call[d].pc # "idle" /\ call[d].kind = "new" /\ call[d].job = j /\ d # c
        BY <2>3, <4>1
      <4>3. call[c].pc # "idle" /\ call[c].kind = "new" /\ call[c].job = j
        BY <2>1, <2>2
      <4>4. QED
        BY <1>0, <4>2, <4>3 DEF NewOnce
    <3>6. Is(new, "resume", j) => ~Known("resume", j) /\ j \notin resumed
      <4>1. Known("resume", j) => \E e \in Entries : e.kind = "resume" /\ e.job = j
        BY DEF Known, Waits, Runs, Stalls, Fails, Entries, Is
      <4>2. QED
        BY <2>2, <2>5, <4>1 DEF ResumeIdKnown
    <3>7. /\ Single("new", j)' /\ (Known("new", j)' <=> Known("new", j) \/ Is(new, "new", j))
          /\ Single("resume", j)' /\ (Known("resume", j)' <=> Known("resume", j) \/ Is(new, "resume", j))
      BY <1>0, <3>3, <3>4, <3>6
    <3>8. \A d, b \in Callers :
            /\ call'[d].pc # "idle" /\ call'[d].kind = "new" /\ call'[d].job = j
            /\ call'[b].pc # "idle" /\ call'[b].kind = "new" /\ call'[b].job = j
            => d = b
      BY <1>0, <2>3 DEF NewOnce
    <3>9. NewOnce(j)'
      BY <1>0, <2>1, <2>3, <3>4, <3>5, <3>7, <3>8 DEF NewOnce
    <3>10. ResumeOnce(j)'
      BY <1>0, <2>1, <3>6, <3>7 DEF ResumeOnce
    <3>11. QED
      BY <3>9, <3>10
  <2>6. QED
    BY <1>2, <2>4, <2>5 DEF Add
<1>3. ASSUME NEW c \in Callers, Asked(c)
      PROVE  NewOnce(j)' /\ ResumeOnce(j)'
  <2>1. UNCHANGED <<wait, active, stalled, failed, resumed>>
    BY <1>3, AskedFrame DEF queueVars, workerVars
  <2>2. \A k : (Single(k, j)' <=> Single(k, j)) /\ (Known(k, j)' <=> Known(k, j))
    BY <2>1, SameTokens
  <2>3. \A d \in Callers : call'[d].pc # "idle" /\ call'[d].kind = "new" /\ call'[d].job = j
           => call[d].pc # "idle" /\ call[d].kind = "new" /\ call[d].job = j
    BY <1>3, AskedCalls
  <2>4. status'[j] = "NONE" => status[j] = "NONE"
    BY <1>3, AskedStatus
  <2>5. QED
    BY <1>0, <2>1, <2>2, <2>3, <2>4, TokensKept
<1>4. ASSUME NEW e \in active, Works(e)
      PROVE  NewOnce(j)' /\ ResumeOnce(j)'
  <2>1. UNCHANGED <<wait, active, stalled, failed, resumed, call>>
    BY <1>4, WorksFrame DEF queueVars
  <2>2. \A k : (Single(k, j)' <=> Single(k, j)) /\ (Known(k, j)' <=> Known(k, j))
    BY <2>1, SameTokens
  <2>3. status'[j] = "NONE" => status[j] = "NONE"
    BY <1>4, WorksStatus
  <2>4. QED
    BY <1>0, <2>1, <2>2, <2>3, TokensKept
<1>5. CASE Moves
  <2>1. UNCHANGED <<status, call>>
    BY <1>5, MovesFrame DEF rowVars
  <2>2. \A k \in {"new", "resume"} : Single(k, j)' /\ (Known(k, j)' => Known(k, j))
    BY <1>0, <1>5, QueueKept DEF Moves
  <2>3. ASSUME j \in resumed', j \notin resumed PROVE ~Known("resume", j)'
    <3>1. PICK e \in active : Complete(e) /\ Is(e, "resume", j)
      BY <1>5, <2>3 DEF Moves, Take, Complete, GiveUp, Crash, Recover, Retry, Discard, Is
    <3>2. Runs("resume", j)
      BY <3>1 DEF Runs
    <3>3. ~Waits("resume", j) /\ ~Stalls("resume", j) /\ ~Fails("resume", j)
      BY <1>0, <3>2 DEF Single
    <3>4. UNCHANGED <<wait, stalled, failed>> /\ active' = {}
      BY <3>1 DEF Complete
    <3>5. QED
      BY <3>3, <3>4 DEF Known, Waits, Runs, Stalls, Fails
  <2>4. QED
    BY <1>0, <2>1, <2>2, <2>3, TokensKept
<1>6. CASE UNCHANGED vars
  <2>1. UNCHANGED <<wait, active, stalled, failed, resumed, status, call>>
    BY <1>6 DEF vars, queueVars, workerVars, rowVars
  <2>2. \A k : (Single(k, j)' <=> Single(k, j)) /\ (Known(k, j)' <=> Known(k, j))
    BY <2>1, SameTokens
  <2>3. QED
    BY <1>0, <2>1, <2>2, TokensKept
<1>7. QED
  BY <1>1, <1>2, <1>3, <1>4, <1>5, <1>6, NextIs

\* The steps that start no queue job again and drop none.
Goes ==
    \/ Take
    \/ \E e \in active : Complete(e) \/ GiveUp(e)
    \/ \E e \in stalled : Recover(e)

Forward ==
    \/ \E c \in Callers, j \in Jobs : Create(c, j)
    \/ \E c \in Callers : Add(c) \/ Asked(c)
    \/ \E e \in active : Works(e)
    \/ Goes

\* All others are counted.
Repeats ==
    \/ \E e \in active : Crash(e)
    \/ \E e \in failed : Retry(e) \/ Discard(e)

LEMMA AgainCounts ==
    ASSUME TypeOK, Next
    PROVE  /\ Again \in Nat /\ Again' \in Nat
           /\ \/ Forward /\ Again' = Again
              \/ Repeats /\ Again' = Again + 1
<1>1. spent \in [DOMAIN Bounds -> Nat] /\ {"calls", "errors", "outages", "crashes", "retries"} = DOMAIN Bounds
  BY DEF TypeOK, Bounds
<1>2. Again \in Nat
  BY <1>1 DEF Again
<1>3. ASSUME spent' = spent \/ Spend("calls") \/ Spend("errors") \/ Spend("outages")
      PROVE  Again' = Again
  BY <1>1, <1>3 DEF Again, Spend
<1>4. ASSUME Spend("crashes") \/ Spend("retries")
      PROVE  Again' = Again + 1
  <2>1. spent.crashes \in Nat /\ spent.retries \in Nat
    BY <1>1
  <2>2. QED
    BY <1>1, <1>4, <2>1 DEF Again, Spend
<1>5. ASSUME NEW c \in Callers, Asked(c) \/ Add(c) \/ \E j \in Jobs : Create(c, j)
      PROVE  Again' = Again
  <2>1. spent' = spent \/ Spend("calls") \/ Spend("outages")
    BY <1>5 DEF Asked, Approve, RejectCheck, RejectUpdate, RejectLost, CallAborts, Add, Create
  <2>2. QED
    BY <1>3, <2>1
<1>6. ASSUME NEW e \in active, Works(e)
      PROVE  Again' = Again
  <2>1. spent' = spent \/ Spend("errors") \/ Spend("outages")
    BY <1>6 DEF Works, Ignore, Start, Prepared, Analyzed, Planned, Applied, Push, Finish,
                EventCreated, Fail, FailUnrecorded
  <2>2. QED
    BY <1>3, <2>1
<1>7. ASSUME Goes PROVE Again' = Again
  BY <1>3, <1>7 DEF Goes, Take, Complete, GiveUp, Recover
<1>8. ASSUME Repeats PROVE Again' = Again + 1
  BY <1>4, <1>8 DEF Repeats, Crash, Retry, Discard
<1>9. Forward \/ Repeats
  BY NextIs DEF Moves, Forward, Goes, Repeats
<1>10. QED
  BY <1>2, <1>5, <1>6, <1>7, <1>8, <1>9 DEF Forward

\* A resume job's id is known as long as the queue keeps the job.
LEMMA IdKnown ==
    ASSUME NEW j
    PROVE  /\ ResumeIdKnown(j) <=> j \in resumed \/ Known("resume", j)
           /\ ResumeIdKnown(j)' <=> j \in resumed' \/ Known("resume", j)'
  BY DEF ResumeIdKnown, Known, Waits, Runs, Stalls, Fails, Entries, Is

\* Where the queue's own steps leave a queue job.
LEMMA GoesQueue ==
    ASSUME TypeOK, WorkerOK, Goes, NEW k, NEW j
    PROVE  /\ Waits(k, j)' => Waits(k, j) \/ Stalls(k, j)
           /\ Stalls(k, j)' => Stalls(k, j)
           /\ Runs(k, j)' =>
                \/ /\ Take /\ Waits(k, j)
                   /\ pc' = "loaded"
                   /\ loaded' = [status |-> status[j], plan |-> plan[j]]
                \/ Runs(k, j) /\ UNCHANGED <<pc, loaded>>
           /\ Known(k, j)' => Known(k, j)
           /\ ResumeIdKnown(j) => ResumeIdKnown(j)'
<1>1. CASE Take
  <2>1. active' = {Head(wait)} /\ UNCHANGED <<stalled, failed, resumed>> /\ active = {}
    BY <1>1 DEF Take, WorkerOK
  <2>2. \A l : Waits(l, j) <=> Waits(l, j)' \/ Is(Head(wait), l, j)
    BY <1>1, TakeWaits DEF Take, TypeOK
  <2>3. \A l : /\ Runs(l, j)' <=> Is(Head(wait), l, j)
               /\ ~Runs(l, j)
               /\ Stalls(l, j)' <=> Stalls(l, j)
               /\ Fails(l, j)' <=> Fails(l, j)
    BY <2>1 DEF Runs, Stalls, Fails
  <2>4. \A l : Known(l, j)' <=> Known(l, j)
    BY <2>2, <2>3 DEF Known
  <2>5. ResumeIdKnown(j) => ResumeIdKnown(j)'
    BY <2>1, <2>4, IdKnown
  <2>6. Is(Head(wait), k, j) => /\ pc' = "loaded"
                                /\ loaded' = [status |-> status[j], plan |-> plan[j]]
    BY <1>1 DEF Take, Is
  <2>7. QED
    BY <1>1, <2>2, <2>3, <2>4, <2>5, <2>6
<1>2. ASSUME NEW e \in active, Complete(e) \/ GiveUp(e)
      PROVE  /\ ~Runs(k, j)' /\ (Waits(k, j)' <=> Waits(k, j)) /\ (Stalls(k, j)' <=> Stalls(k, j))
             /\ Known(k, j)' => Known(k, j)
             /\ ResumeIdKnown(j) => ResumeIdKnown(j)'
  <2>1. active = {e} /\ active' = {} /\ UNCHANGED <<wait, stalled>>
    BY <1>2 DEF Complete, GiveUp, WorkerOK
  <2>2. \A l : /\ ~Runs(l, j)' /\ (Runs(l, j) <=> Is(e, l, j))
               /\ Waits(l, j)' <=> Waits(l, j)
               /\ Stalls(l, j)' <=> Stalls(l, j)
    BY <2>1 DEF Runs, Waits, Stalls
  <2>3. CASE Complete(e)
    <3>1. /\ failed' = failed /\ resumed \subseteq resumed'
          /\ Is(e, "resume", j) => j \in resumed'
      BY <2>3 DEF Complete, Is
    <3>2. \A l : Fails(l, j)' <=> Fails(l, j)
      BY <3>1 DEF Fails
    <3>3. QED
      BY <2>2, <3>1, <3>2, IdKnown DEF Known
  <2>4. CASE GiveUp(e)
    <3>1. failed' = failed \cup {e} /\ resumed' = resumed
      BY <2>4 DEF GiveUp
    <3>2. \A l : Fails(l, j)' <=> Fails(l, j) \/ Is(e, l, j)
      BY <3>1 DEF Fails
    <3>3. QED
      BY <2>2, <3>1, <3>2, IdKnown DEF Known
  <2>5. QED
    BY <1>2, <2>3, <2>4
<1>3. ASSUME NEW e \in stalled, Recover(e)
      PROVE  /\ (Runs(k, j)' <=> Runs(k, j)) /\ UNCHANGED <<pc, loaded>>
             /\ Waits(k, j)' => Waits(k, j) \/ Stalls(k, j)
             /\ Stalls(k, j)' => Stalls(k, j)
             /\ Known(k, j)' => Known(k, j)
             /\ ResumeIdKnown(j) => ResumeIdKnown(j)'
  <2> DEFINE back == [e EXCEPT !.stalls = 1]
  <2>1. e \in Entry /\ back \in Entry /\ \A l : Is(back, l, j) <=> Is(e, l, j)
    BY EntryStalled DEF TypeOK, Is
  <2>2. stalled' = stalled \ {e} /\ UNCHANGED <<active, resumed, pc, loaded>>
    BY <1>3 DEF Recover, workerVars
  <2>3. \A l : /\ Stalls(l, j) <=> Stalls(l, j)' \/ Is(e, l, j)
               /\ Runs(l, j)' <=> Runs(l, j)
    BY <2>2 DEF Stalls, Runs
  <2>4. CASE wait' = <<back>> \o wait /\ failed' = failed
    <3>1. \A l : Waits(l, j)' <=> Waits(l, j) \/ Is(back, l, j)
      <4>1. wait \in Seq(Entry)
        BY DEF TypeOK
      <4> HIDE DEF back
      <4>2. QED
        BY <2>1, <2>4, <4>1, FrontWaits
    <3>2. \A l : Fails(l, j)' <=> Fails(l, j)
      BY <2>4 DEF Fails
    <3>3. QED
      BY <2>1, <2>2, <2>3, <3>1, <3>2, IdKnown DEF Known
  <2>5. CASE wait' = wait /\ failed' = failed \cup {e}
    <3>1. \A l : (Waits(l, j)' <=> Waits(l, j)) /\ (Fails(l, j)' <=> Fails(l, j) \/ Is(e, l, j))
      BY <2>5 DEF Waits, Fails
    <3>2. QED
      BY <2>2, <2>3, <3>1, IdKnown DEF Known
  <2>6. QED
    BY <1>3, <2>4, <2>5 DEF Recover
<1>4. QED
  BY <1>1, <1>2, <1>3 DEF Goes

\* What a handler adds it asked for, and nothing else changes.
LEMMA AddQueue ==
    ASSUME TypeOK, NEW c \in Callers, Add(c), NEW k, NEW j
    PROVE  /\ Waits(k, j)' => Waits(k, j) \/ (Asks(k, j) /\ (k = "resume" => ~ResumeIdKnown(j)))
           /\ (Runs(k, j)' <=> Runs(k, j)) /\ (Stalls(k, j)' <=> Stalls(k, j))
           /\ Known(k, j) => Known(k, j)'
           /\ Known(k, j)' => Known(k, j) \/ Asks(k, j)
           /\ Known("regenerate", j)' => Known("regenerate", j) \/ HasRejected(j)
           /\ Asks(k, j)' => Asks(k, j)
           /\ HasRejected(j)' => HasRejected(j)
           /\ ResumeIdKnown(j) => ResumeIdKnown(j)'
<1> DEFINE new == [kind |-> call[c].kind, job |-> call[c].job, by |-> c, stalls |-> 0]
<1>1. /\ UNCHANGED <<active, stalled, failed, resumed>>
      /\ call' = [call EXCEPT ![c] = NoCall] /\ call[c].pc = "updated"
  BY DEF Add, rowVars, workerVars
<1>2. new \in Entry /\ \A l, i : Is(new, l, i) <=> call[c].kind = l /\ call[c].job = i
  BY <1>1 DEF TypeOK, Call, NoCall, Entry, Is
<1>3. \A l : (Asks(l, j)' => Asks(l, j)) /\ (Is(new, l, j) => Asks(l, j))
  BY <1>1, <1>2 DEF TypeOK, NoCall, Asks
<1>4. (HasRejected(j)' => HasRejected(j)) /\ (Is(new, "regenerate", j) => HasRejected(j))
  BY <1>1, <1>2 DEF TypeOK, NoCall, HasRejected
<1>5. \A l : /\ Runs(l, j)' <=> Runs(l, j)
             /\ Stalls(l, j)' <=> Stalls(l, j)
             /\ Fails(l, j)' <=> Fails(l, j)
  BY <1>1 DEF Runs, Stalls, Fails
<1>6. CASE wait' = wait
  <2>1. \A l : Waits(l, j)' <=> Waits(l, j)
    BY <1>6 DEF Waits
  <2>2. QED
    BY <1>1, <1>3, <1>4, <1>5, <2>1, IdKnown DEF Known
<1>7. CASE wait' = Append(wait, new) /\ ~(call[c].kind = "resume" /\ ResumeIdKnown(call[c].job))
  <2>1. \A l : Waits(l, j)' <=> Waits(l, j) \/ Is(new, l, j)
    <3> HIDE DEF new
    <3>1. QED
      BY <1>2, <1>7, AppendWaits DEF TypeOK
  <2>2. Is(new, "resume", j) => ~ResumeIdKnown(j)
    BY <1>2, <1>7
  <2> HIDE DEF new
  <2>3. QED
    BY <1>1, <1>3, <1>4, <1>5, <2>1, <2>2, IdKnown DEF Known
<1>8. QED
  BY <1>6, <1>7 DEF Add

\* The steps of the worker, as far as the status of a row and the last part of
\* its own way are concerned.
LEMMA WorksWay ==
    ASSUME TypeOK, NEW e \in active, Works(e), NEW j \in Jobs
    PROVE  /\ status'[j] = "AWAITING_APPROVAL" /\ status[j] # "AWAITING_APPROVAL"
                => Planned(e) /\ e.job = j
           /\ Planned(e) => pc = "plan" /\ e.kind # "resume"
           /\ pc \in {"event", "done", "failing"} => pc' \in {"event", "done", "failing"}
           /\ pc \in {"done", "failing"} => pc' \in {"done", "failing"}
           /\ pc \in {"pushed", "event", "done", "failing"}
                => pc' \in {"pushed", "event", "done", "failing"}
           /\ pc = "loaded" => \/ pc' \in {"done", "failing"}
                               \/ Start(e)
           /\ Start(e) /\ e.kind # "new" => loaded.status = "AWAITING_APPROVAL"
           /\ pushes' = pushes \/ Push(e)
<1> USE DEF TypeOK
<1>1. CASE Ignore(e)
  BY <1>1 DEF Ignore, rowVars, historyVars, Planned, Start, Acts
<1>2. CASE Start(e)
  BY <1>2 DEF Start, SetStatus, historyVars, Planned, Acts
<1>3. CASE Prepared(e)
  BY <1>3 DEF Prepared, SetStatus, historyVars, Planned, Start
<1>4. CASE Analyzed(e)
  BY <1>4 DEF Analyzed, SetStatus, historyVars, Planned, Start
<1>5. CASE Planned(e)
  BY <1>5 DEF Planned, PcAfterPlan, SetStatus, historyVars, Start
<1>6. CASE Applied(e)
  BY <1>6 DEF Applied, SetStatus, historyVars, Planned, Start
<1>7. CASE Push(e)
  BY <1>7 DEF Push, rowVars, Planned, Start
<1>8. CASE Finish(e)
  BY <1>8 DEF Finish, SetStatus, historyVars, Planned, Start
<1>9. CASE EventCreated(e)
  BY <1>9 DEF EventCreated, rowVars, historyVars, Planned, Start
<1>10. CASE Fail(e)
  BY <1>10 DEF Fail, SetStatus, historyVars, Planned, Start, Acts
<1>11. CASE FailUnrecorded(e)
  BY <1>11 DEF FailUnrecorded, rowVars, historyVars, Planned, Start, Acts
<1>12. QED
  BY <1>1, <1>2, <1>3, <1>4, <1>5, <1>6, <1>7, <1>8, <1>9, <1>10, <1>11 DEF Works

\* Whose queue job is processed.
LEMMA RunsIs ==
    ASSUME WorkerOK, NEW e \in active, NEW k, NEW j
    PROVE  Runs(k, j) <=> Is(e, k, j)
  BY DEF WorkerOK, Runs

\* The row of an issue job that is past its first plan stays so, one that is
\* settled stays settled, and what is exhausted stays exhausted, as long as no
\* queue job is started again.
LEMMA ClassesKept ==
    ASSUME TypeOK, WorkerOK, Forward, NEW j \in Jobs
    PROVE  /\ Drafted(j) => Drafted(j)'
           /\ Settled(j) => Settled(j)'
           /\ Exhausted(j) => Exhausted(j)'
<1>1. ASSUME NEW c \in Callers, NEW i \in Jobs, Create(c, i)
      PROVE  /\ Drafted(j) => Drafted(j)'
             /\ Settled(j) => Settled(j)'
             /\ Exhausted(j) => Exhausted(j)'
  <2>1. UNCHANGED <<wait, active, stalled, failed, resumed, pc, loaded>>
    BY <1>1 DEF Create, queueVars, workerVars
  <2>2. \A k : /\ Waits(k, j)' <=> Waits(k, j)
               /\ Runs(k, j)' <=> Runs(k, j)
               /\ Stalls(k, j)' <=> Stalls(k, j)
               /\ Known(k, j)' <=> Known(k, j)
    BY <2>1, SameTokens
  <2>3. status[i] = "NONE" /\ (i # j => status'[j] = status[j])
    BY <1>1 DEF Create, TypeOK
  <2>4. i # j => (Asks("new", j)' => Asks("new", j))
    BY <1>1 DEF Create, TypeOK, Asks
  <2>5. Drafted(j) => Drafted(j)'
    BY <2>1, <2>2, <2>3, <2>4 DEF Drafted
  <2>6. Settled(j) => Settled(j)'
    BY <2>1, <2>2, <2>3, <2>5 DEF Settled, Drafted
  <2>7. Exhausted(j) => Exhausted(j)'
    BY <2>1, <2>2, IdKnown DEF Exhausted
  <2>8. QED
    BY <2>5, <2>6, <2>7
<1>2. ASSUME NEW c \in Callers, Add(c)
      PROVE  /\ Drafted(j) => Drafted(j)'
             /\ Settled(j) => Settled(j)'
             /\ Exhausted(j) => Exhausted(j)'
  <2>1. UNCHANGED <<status, pc, loaded>>
    BY <1>2 DEF Add, rowVars, workerVars
  <2>2. \A k : /\ Waits(k, j)' => Waits(k, j) \/ (Asks(k, j) /\ (k = "resume" => ~ResumeIdKnown(j)))
               /\ (Runs(k, j)' <=> Runs(k, j)) /\ (Stalls(k, j)' <=> Stalls(k, j))
               /\ Asks(k, j)' => Asks(k, j)
               /\ ResumeIdKnown(j) => ResumeIdKnown(j)'
    BY <1>2, AddQueue
  <2>3. QED
    BY <2>1, <2>2 DEF Drafted, Settled, Exhausted
<1>3. ASSUME NEW c \in Callers, Asked(c)
      PROVE  /\ Drafted(j) => Drafted(j)'
             /\ Settled(j) => Settled(j)'
             /\ Exhausted(j) => Exhausted(j)'
  <2>1. UNCHANGED <<wait, active, stalled, failed, resumed, pc, loaded>>
    BY <1>3, AskedFrame DEF queueVars, workerVars
  <2>2. \A k : /\ Waits(k, j)' <=> Waits(k, j)
               /\ Runs(k, j)' <=> Runs(k, j)
               /\ Stalls(k, j)' <=> Stalls(k, j)
               /\ Known(k, j)' <=> Known(k, j)
    BY <2>1, SameTokens
  <2>3. Asks("new", j)' => Asks("new", j)
    BY <1>3, AskedCalls DEF Asks
  <2>4. /\ status'[j] = "NONE" <=> status[j] = "NONE"
        /\ status'[j] = "AWAITING_APPROVAL" => status[j] = "AWAITING_APPROVAL"
    BY <1>3, AskedStatus
  <2>5. QED
    BY <2>1, <2>2, <2>3, <2>4, IdKnown DEF Drafted, Settled, Exhausted
<1>4. ASSUME NEW e \in active, Works(e)
      PROVE  /\ Drafted(j) => Drafted(j)'
             /\ Settled(j) => Settled(j)'
             /\ Exhausted(j) => Exhausted(j)'
  <2>1. UNCHANGED <<wait, active, stalled, failed, resumed, call, loaded>>
    BY <1>4, WorksFrame DEF queueVars
  <2>2. \A k : /\ Waits(k, j)' <=> Waits(k, j)
               /\ Runs(k, j)' <=> Runs(k, j)
               /\ Stalls(k, j)' <=> Stalls(k, j)
               /\ Known(k, j)' <=> Known(k, j)
               /\ Asks(k, j)' <=> Asks(k, j)
    BY <2>1, SameTokens DEF Asks
  <2>3. \A k : Runs(k, j) <=> e.kind = k /\ e.job = j
    BY RunsIs DEF Is
  <2>4. status[j] # "NONE" => status'[j] # "NONE"
    BY <1>4, WorksStatus
  <2>5. Drafted(j) => Drafted(j)'
    BY <1>4, <2>2, <2>4, WorksWay DEF Drafted
  <2>6. ASSUME Settled(j) PROVE Settled(j)'
    <3>1. Drafted(j)' /\ Drafted(j) /\ status[j] # "AWAITING_APPROVAL"
      BY <2>5, <2>6 DEF Settled
    <3>2. status'[j] # "AWAITING_APPROVAL"
      <4> SUFFICES ASSUME Planned(e), e.job = j PROVE FALSE
        BY <1>4, <3>1, WorksWay
      <4>1. pc = "plan" /\ e.kind # "resume"
        BY <1>4, WorksWay
      <4>2. e.kind \in Kinds
        BY DEF TypeOK, Entry
      <4>3. Runs("new", j) \/ Runs("regenerate", j)
        BY <2>3, <4>1, <4>2 DEF Kinds
      <4>4. QED
        BY <2>6, <3>1, <4>1, <4>3 DEF Settled, Drafted
    <3>3. ASSUME Runs("regenerate", j)' PROVE pc' \in {"done", "failing"}
      <4>1. e.kind = "regenerate" /\ Runs("regenerate", j)
        BY <2>2, <2>3, <3>3
      <4>2. pc \in {"done", "failing"} \/ (pc = "loaded" /\ loaded.status # "AWAITING_APPROVAL")
        BY <2>6, <4>1 DEF Settled
      <4>3. QED
        BY <1>4, <4>1, <4>2, WorksWay
    <3>4. QED
      BY <3>1, <3>2, <3>3 DEF Settled
  <2>7. Exhausted(j) => Exhausted(j)'
    BY <1>4, <2>1, <2>2, WorksWay, IdKnown DEF Exhausted
  <2>8. QED
    BY <2>5, <2>6, <2>7
<1>5. ASSUME Goes
      PROVE  /\ Drafted(j) => Drafted(j)'
             /\ Settled(j) => Settled(j)'
             /\ Exhausted(j) => Exhausted(j)'
  <2>1. UNCHANGED <<status, call>>
    BY <1>5, MovesFrame DEF Goes, Moves, rowVars
  <2>2. \A k : /\ Waits(k, j)' => Waits(k, j) \/ Stalls(k, j)
               /\ Stalls(k, j)' => Stalls(k, j)
               /\ Runs(k, j)' =>
                    \/ /\ Take /\ Waits(k, j)
                       /\ pc' = "loaded"
                       /\ loaded' = [status |-> status[j], plan |-> plan[j]]
                    \/ Runs(k, j) /\ UNCHANGED <<pc, loaded>>
               /\ ResumeIdKnown(j) => ResumeIdKnown(j)'
    BY <1>5, GoesQueue
  <2>3. Asks("new", j)' <=> Asks("new", j)
    BY <2>1 DEF Asks
  <2>4. Drafted(j) => Drafted(j)'
    BY <2>1, <2>2, <2>3 DEF Drafted
  <2>5. Settled(j) => Settled(j)'
    <3> SUFFICES ASSUME Settled(j), Runs("regenerate", j)'
                 PROVE  \/ pc' \in {"done", "failing"}
                        \/ pc' = "loaded" /\ loaded'.status # "AWAITING_APPROVAL"
      BY <2>1, <2>4 DEF Settled
    <3>1. CASE /\ pc' = "loaded"
               /\ loaded' = [status |-> status[j], plan |-> plan[j]]
      BY <3>1 DEF Settled
    <3>2. CASE Runs("regenerate", j) /\ UNCHANGED <<pc, loaded>>
      BY <3>2 DEF Settled
    <3>3. QED
      BY <2>2, <3>1, <3>2
  <2>6. Exhausted(j) => Exhausted(j)'
    BY <2>2 DEF Exhausted
  <2>7. QED
    BY <2>4, <2>5, <2>6
<1>6. QED
  BY <1>1, <1>2, <1>3, <1>4, <1>5 DEF Forward

\* What one step forward may add to the state of an issue job, when it is not
\* the storing of a plan.
StepFacts(j) ==
    /\ plan'[j] = plan[j] /\ approvals \subseteq approvals'
    /\ Later(j)' => Later(j)
    /\ Known("regenerate", j)' \/ HasRejected(j)' =>
         \/ Known("regenerate", j) \/ HasRejected(j)
         \/ Later(j) /\ status'[j] # "AWAITING_APPROVAL" /\ UNCHANGED <<active, pc, loaded>>
    /\ Runs("resume", j)' =>
         \/ /\ Take /\ Waits("resume", j) /\ pc' = "loaded"
            /\ loaded' = [status |-> status[j], plan |-> plan[j]]
         \/ Runs("resume", j) /\ UNCHANGED <<active, loaded>>
    /\ pc' = pc \/ Take \/ active' = {} \/ \E e \in active : Works(e)
    /\ pushes'[j] = pushes[j] \/ \E e \in active : Push(e) /\ e.job = j
    /\ Asks("resume", j)' \/ Known("resume", j)' =>
         Asks("resume", j) \/ Known("resume", j) \/ WasApproved(j, plan[j])'

LEMMA StepsForward ==
    ASSUME TypeOK, WorkerOK, ApplyIsResume, Forward, NEW j \in Jobs,
           ~\E e \in active : Planned(e) /\ e.job = j
    PROVE  StepFacts(j)
<1>1. ASSUME NEW c \in Callers, NEW i \in Jobs, Create(c, i) PROVE StepFacts(j)
  <2>1. UNCHANGED <<wait, active, stalled, failed, resumed, pc, loaded, plan, approvals, pushes>>
    BY <1>1 DEF Create, queueVars, workerVars, historyVars
  <2>2. \A k : (Runs(k, j)' <=> Runs(k, j)) /\ (Known(k, j)' <=> Known(k, j))
    BY <2>1, SameTokens
  <2>3. status'[j] = "AWAITING_APPROVAL" => status[j] = "AWAITING_APPROVAL"
    BY <1>1 DEF Create, TypeOK
  <2>4. /\ Asks("resume", j)' => Asks("resume", j)
        /\ Asks("regenerate", j)' => Asks("regenerate", j)
        /\ HasRejected(j)' => HasRejected(j)
    BY <1>1 DEF Create, TypeOK, Asks, HasRejected
  <2>5. QED
    BY <2>1, <2>2, <2>3, <2>4 DEF StepFacts, Later
<1>2. ASSUME NEW c \in Callers, Add(c) PROVE StepFacts(j)
  <2>1. UNCHANGED <<status, plan, approvals, pushes, pc, loaded, active>>
    BY <1>2 DEF Add, rowVars, workerVars, historyVars
  <2>2. \A k : /\ Runs(k, j)' <=> Runs(k, j)
               /\ Known(k, j)' => Known(k, j) \/ Asks(k, j)
               /\ Known("regenerate", j)' => Known("regenerate", j) \/ HasRejected(j)
               /\ Asks(k, j)' => Asks(k, j)
               /\ HasRejected(j)' => HasRejected(j)
    BY <1>2, AddQueue
  <2>3. QED
    BY <2>1, <2>2 DEF StepFacts, Later
<1>3. ASSUME NEW c \in Callers, Asked(c) PROVE StepFacts(j)
  <2>1. UNCHANGED <<wait, active, stalled, failed, resumed, pc, loaded, plan, pushes>>
    BY <1>3, AskedFrame DEF queueVars, workerVars
  <2>2. \A k : (Runs(k, j)' <=> Runs(k, j)) /\ (Known(k, j)' <=> Known(k, j))
    BY <2>1, SameTokens
  <2>3. approvals \subseteq approvals'
    BY <1>3 DEF Asked, Approve, RejectCheck, RejectUpdate, RejectLost, CallAborts, historyVars
  <2>4. status'[j] = "AWAITING_APPROVAL" => status[j] = "AWAITING_APPROVAL"
    BY <1>3, AskedStatus
  <2>5. ASSUME NEW k, Asks(k, j)'
        PROVE  Asks(k, j) \/ (status[j] = "AWAITING_APPROVAL" /\ (k = "resume" => WasApproved(j, plan[j])'))
    <3>1. PICK d \in Callers : call'[d].pc # "idle" /\ call'[d].kind = k /\ call'[d].job = j
      BY <2>5 DEF Asks
    <3>2. CASE call[d].pc # "idle" /\ call'[d].kind = call[d].kind /\ call'[d].job = call[d].job
      BY <3>1, <3>2 DEF Asks
    <3>3. CASE ~(call[d].pc # "idle" /\ call'[d].kind = call[d].kind /\ call'[d].job = call[d].job)
      BY <1>3, <3>1, <3>3, AskedCalls DEF WasApproved
    <3>4. QED
      BY <3>2, <3>3
  <2>6. HasRejected(j)' => \/ HasRejected(j)
                           \/ Asks("regenerate", j) /\ status'[j] # "AWAITING_APPROVAL"
    BY <1>3, AskedRejected
  <2>7. QED
    BY <2>1, <2>2, <2>3, <2>4, <2>5, <2>6 DEF StepFacts, Later
<1>4. ASSUME NEW e \in active, Works(e) PROVE StepFacts(j)
  <2>1. UNCHANGED <<wait, active, stalled, failed, resumed, call, loaded, approvals>>
    BY <1>4, WorksFrame DEF queueVars
  <2>2. \A k : /\ Runs(k, j)' <=> Runs(k, j)
               /\ Known(k, j)' <=> Known(k, j)
               /\ Asks(k, j)' <=> Asks(k, j)
               /\ HasRejected(j)' <=> HasRejected(j)
    BY <2>1, SameTokens DEF Asks, HasRejected
  <2>3. status'[j] = "AWAITING_APPROVAL" => status[j] = "AWAITING_APPROVAL"
    BY <1>4, WorksWay
  <2>4. plan'[j] = plan[j]
    <3>1. CASE e.job # j
      BY <1>4, <3>1, WorksStatus
    <3>2. CASE e.job = j
      BY <1>4, <3>2 DEF Works, Ignore, Start, Prepared, Analyzed, Applied, Push, Finish,
                        EventCreated, Fail, FailUnrecorded, rowVars
    <3>3. QED
      BY <3>1, <3>2
  <2>5. pushes'[j] = pushes[j] \/ (Push(e) /\ e.job = j)
    BY <1>4, WorksStatus, WorksWay
  <2>6. pushes'[j] # <<>> => pushes[j] # <<>> \/ Known("resume", j)
    BY <2>5 DEF Push, ApplyIsResume, Known, Runs, Is
  <2>7. QED
    BY <1>4, <2>1, <2>2, <2>3, <2>4, <2>5, <2>6 DEF StepFacts, Later
<1>5. ASSUME Goes PROVE StepFacts(j)
  <2>1. UNCHANGED <<status, plan, call, approvals, pushes>>
    BY <1>5, MovesFrame DEF Goes, Moves, rowVars, historyVars
  <2>2. \A k : (Asks(k, j)' <=> Asks(k, j)) /\ (HasRejected(j)' <=> HasRejected(j))
    BY <2>1 DEF Asks, HasRejected
  <2>3. \A k : /\ Known(k, j)' => Known(k, j)
               /\ Runs(k, j)' =>
                    \/ /\ Take /\ Waits(k, j)
                       /\ pc' = "loaded"
                       /\ loaded' = [status |-> status[j], plan |-> plan[j]]
                    \/ Runs(k, j) /\ UNCHANGED <<pc, loaded>>
    BY <1>5, GoesQueue
  <2>4. Take \/ active' = {} \/ UNCHANGED <<active, pc, loaded>>
    BY <1>5 DEF Goes, Complete, GiveUp, Recover, workerVars
  <2>5. /\ active' = {} => ~Runs("resume", j)'
        /\ Take => ~Runs("resume", j)
    BY DEF Runs, Take, WorkerOK
  <2>6. QED
    BY <2>1, <2>2, <2>3, <2>4, <2>5 DEF StepFacts, Later
<1>6. QED
  BY <1>1, <1>2, <1>3, <1>4, <1>5 DEF Forward

\* A plan is stored for the first time, or after a rejection.
LEMMA PlannedFirst ==
    ASSUME TypeOK, WorkerOK, NEW e \in active, Planned(e), Calm(e.job)
    PROVE  e.kind = "new" /\ ~Later(e.job)
<1>1. pc = "plan" /\ e.kind \in {"new", "regenerate"} /\ e.job \in Jobs
  BY DEF Planned, TypeOK, Entry
<1>2. Runs(e.kind, e.job)
  BY DEF Runs, Is
<1>3. CASE e.kind = "new"
  BY <1>1, <1>2, <1>3 DEF Calm, Drafted
<1>4. CASE e.kind = "regenerate"
  BY <1>1, <1>2, <1>4 DEF Calm, Settled, Known
<1>5. QED
  BY <1>1, <1>3, <1>4

\* After the push the resume job, of which there is one, is exhausted.
LEMMA PushExhausts ==
    ASSUME TypeOK, WorkerOK, Tokens, ApplyIsResume, NEW e \in active, Push(e)
    PROVE  Exhausted(e.job)'
<1>1. e.kind = "resume" /\ e.job \in Jobs /\ pc' = "pushed"
  BY DEF Push, ApplyIsResume, TypeOK, Entry
<1>2. UNCHANGED <<wait, active, stalled, failed, resumed>>
  BY DEF Push, queueVars
<1>3. Runs("resume", e.job) /\ ~Waits("resume", e.job) /\ ~Stalls("resume", e.job)
  BY <1>1 DEF Runs, Is, Tokens, ResumeOnce, Single
<1>4. /\ Runs("resume", e.job)' /\ ~Waits("resume", e.job)' /\ ~Stalls("resume", e.job)'
  BY <1>2, <1>3 DEF Runs, Waits, Stalls
<1>5. ResumeIdKnown(e.job)'
  BY <1>2, <1>3, <1>4 DEF ResumeIdKnown, Runs, Entries, Is
<1>6. QED
  BY <1>1, <1>4, <1>5 DEF Exhausted

\* While no queue job is started again, there is one plan.
LEMMA CalmStep ==
    ASSUME TypeOK, WorkerOK, Tokens, ApplyIsResume, Forward, NEW j \in Jobs, Calm(j)
    PROVE  Calm(j)'
<1>1. CASE \E e \in active : Planned(e) /\ e.job = j
  <2>1. PICK e \in active : Planned(e) /\ e.job = j
    BY <1>1
  <2>2. e.kind = "new" /\ ~Later(j) /\ active = {e}
    BY <2>1, PlannedFirst DEF WorkerOK
  <2>3. UNCHANGED <<wait, active, stalled, failed, resumed, call, pushes>> /\ pc' = "event"
    BY <2>1, <2>2 DEF Planned, PcAfterPlan, queueVars, historyVars
  <2>4. \A k : /\ Waits(k, j)' <=> Waits(k, j)
               /\ Runs(k, j)' <=> Runs(k, j)
               /\ Stalls(k, j)' <=> Stalls(k, j)
               /\ Known(k, j)' <=> Known(k, j)
               /\ Asks(k, j)' <=> Asks(k, j)
               /\ HasRejected(j)' <=> HasRejected(j)
    BY <2>3, SameTokens DEF Asks, HasRejected
  <2>5. Runs("new", j) /\ ~Asks("new", j) /\ ~Waits("new", j) /\ ~Stalls("new", j)
    BY <2>1, <2>2 DEF Runs, Is, Tokens, NewOnce, Single, Known
  <2>6. status'[j] # "NONE"
    BY <2>1 DEF Planned, SetStatus, TypeOK
  <2>7. Drafted(j)'
    BY <2>3, <2>4, <2>5, <2>6 DEF Drafted
  <2>8. /\ ~Known("regenerate", j)' /\ ~Known("resume", j)' /\ ~Asks("resume", j)'
        /\ pushes'[j] = <<>>
        /\ ~Runs("resume", j)'
    BY <2>2, <2>3, <2>4 DEF Later, Known
  <2>9. ~HasRejected(j)'
    BY <2>2, <2>4 DEF Later, HasRejected, Asks
  <2>10. QED
    BY <2>7, <2>8, <2>9 DEF Calm
<1>2. CASE ~\E e \in active : Planned(e) /\ e.job = j
  <2>1. StepFacts(j)
    BY <1>2, StepsForward
  <2>2. /\ Drafted(j) => Drafted(j)'
        /\ Settled(j) => Settled(j)'
        /\ Exhausted(j) => Exhausted(j)'
    BY ClassesKept
  <2>3. Later(j)' => Drafted(j) /\ Drafted(j)'
    BY <2>1, <2>2 DEF Calm, StepFacts
  <2>4. ASSUME Known("regenerate", j)' \/ HasRejected(j)' PROVE Settled(j)'
    <3>1. CASE Known("regenerate", j) \/ HasRejected(j)
      BY <2>2, <3>1 DEF Calm
    <3>2. CASE /\ Later(j) /\ status'[j] # "AWAITING_APPROVAL" /\ UNCHANGED <<active, pc, loaded>>
               /\ ~(Known("regenerate", j) \/ HasRejected(j))
      <4>1. Drafted(j)'
        BY <2>2, <3>2 DEF Calm
      <4>2. ~Runs("regenerate", j)'
        BY <3>2 DEF Known, Runs
      <4>3. QED
        BY <3>2, <4>1, <4>2 DEF Settled
    <3>3. QED
      BY <2>1, <2>4, <3>1, <3>2 DEF StepFacts
  <2>5. ASSUME Runs("resume", j)', pc' \in {"clone", "apply", "push", "pushed"} PROVE Settled(j)'
    <3>1. Runs("resume", j) /\ UNCHANGED <<active, loaded>>
      BY <2>1, <2>5 DEF StepFacts
    <3>2. CASE pc \in {"clone", "apply", "push", "pushed"}
      BY <2>2, <3>1, <3>2 DEF Calm
    <3>3. CASE pc \notin {"clone", "apply", "push", "pushed"}
      <4>1. PICK e \in active : Works(e)
        <5>1. active' # {} /\ pc' # pc /\ ~Take
          BY <2>5, <3>1, <3>3 DEF Runs, Take
        <5>2. QED
          BY <2>1, <5>1 DEF StepFacts
      <4>2. Is(e, "resume", j) /\ active = {e}
        BY <3>1, RunsIs DEF WorkerOK
      <4>3. Start(e)
        BY <2>5, <3>3, <4>1, <4>2 DEF Works, Ignore, Start, Prepared, Analyzed, Planned, Applied,
                              Push, Finish, EventCreated, Fail, FailUnrecorded, PcAfterPlan, Is
      <4>4. status'[j] = "CLONING"
        BY <4>2, <4>3 DEF Start, SetStatus, Is, TypeOK
      <4>5. ~Runs("regenerate", j)'
        BY <3>1, <4>2 DEF Runs, Is
      <4>6. Drafted(j)'
        BY <2>2, <3>1 DEF Calm, Later, Known
      <4>7. QED
        BY <4>4, <4>5, <4>6 DEF Settled
    <3>4. QED
      BY <3>2, <3>3
  <2>6. ASSUME NEW e \in active, Push(e), e.job = j
        PROVE  /\ Settled(j)' /\ Exhausted(j)'
               /\ pushes' = [pushes EXCEPT ![j] = Append(pushes[j], plan[j])]
               /\ WasApproved(j, plan[j])
    <3>1. e.kind = "resume" /\ pc = "push"
      BY <2>6 DEF Push, ApplyIsResume
    <3>2. Runs("resume", j)
      BY <2>6, <3>1 DEF Runs, Is
    <3>3. Settled(j)' /\ loaded.plan = plan[j] /\ WasApproved(j, plan[j])
      BY <2>2, <3>1, <3>2 DEF Calm, Known
    <3>4. QED
      BY <2>6, <3>3, PushExhausts DEF Push
  <2>7. ASSUME pushes'[j] # <<>> PROVE Settled(j)' /\ Exhausted(j)'
    BY <2>1, <2>2, <2>6, <2>7 DEF StepFacts, Calm
  <2>8. WasApproved(j, plan[j]) => WasApproved(j, plan[j])'
    BY <2>1 DEF StepFacts, WasApproved
  <2>9. ASSUME Asks("resume", j)' \/ Known("resume", j)' PROVE WasApproved(j, plan[j])'
    BY <2>1, <2>8, <2>9 DEF StepFacts, Calm
  <2>10. ASSUME Runs("resume", j)' PROVE loaded'.plan = plan'[j]
    <3>1. plan'[j] = plan[j]
      BY <2>1 DEF StepFacts
    <3>2. CASE loaded' = [status |-> status[j], plan |-> plan[j]]
      BY <3>1, <3>2
    <3>3. CASE Runs("resume", j) /\ UNCHANGED <<active, loaded>>
      BY <3>1, <3>3 DEF Calm
    <3>4. QED
      BY <2>1, <2>10, <3>2, <3>3 DEF StepFacts
  <2>11. (\A i \in DOMAIN pushes[j] : WasApproved(j, pushes[j][i]))'
    <3>1. \A p : WasApproved(j, p) => WasApproved(j, p)'
      BY <2>1 DEF StepFacts, WasApproved
    <3>2. ASSUME NEW i \in DOMAIN pushes'[j], NEW p, p = pushes'[j][i] PROVE WasApproved(j, p)
      <4>1. CASE pushes'[j] = pushes[j]
        BY <3>2, <4>1 DEF Calm
      <4>2. CASE \E e \in active : Push(e) /\ e.job = j
        <5>1. /\ pushes'[j] = Append(pushes[j], plan[j]) /\ pushes[j] \in Seq(Nat)
              /\ plan[j] \in Nat /\ WasApproved(j, plan[j])
          BY <2>6, <4>2 DEF TypeOK
        <5>2. \/ i \in DOMAIN pushes[j] /\ pushes'[j][i] = pushes[j][i]
              \/ pushes'[j][i] = plan[j]
          BY <3>2, <5>1
        <5>3. QED
          BY <3>2, <5>1, <5>2 DEF Calm
      <4>3. QED
        BY <2>1, <4>1, <4>2 DEF StepFacts
    <3>3. QED
      BY <3>1, <3>2 DEF WasApproved
  <2>12. QED
    BY <2>3, <2>4, <2>5, <2>7, <2>9, <2>10, <2>11 DEF Calm
<1>3. QED
  BY <1>1, <1>2

\* One push, while queue jobs go forward.
LEMMA OnceStep ==
    ASSUME TypeOK, WorkerOK, Tokens, ApplyIsResume, Forward, NEW j \in Jobs, Once(j)
    PROVE  Once(j)'
<1>1. /\ Settled(j) => Settled(j)'
      /\ Exhausted(j) => Exhausted(j)'
  BY ClassesKept
<1>2. \/ pushes'[j] = pushes[j]
      \/ \E e \in active : Push(e) /\ e.job = j
  <2>1. CASE \E e \in active : Planned(e)
    BY <2>1 DEF Planned, historyVars
  <2>2. CASE ~\E e \in active : Planned(e)
    BY <2>2, StepsForward DEF StepFacts
  <2>3. QED
    BY <2>1, <2>2
<1>3. ASSUME NEW e \in active, Push(e), e.job = j
      PROVE  /\ Exhausted(j)' /\ pushes[j] = <<>> /\ Len(pushes'[j]) = 1
             /\ pc' = "pushed"
  <2>1. e.kind = "resume" /\ pc = "push"
    BY <1>3 DEF Push, ApplyIsResume
  <2>2. Runs("resume", j) /\ Executing
    BY <1>3, <2>1 DEF Runs, Is, Executing
  <2>3. pushes[j] = <<>>
    BY <2>2 DEF Once
  <2>4. Len(pushes'[j]) = 1
    <3>1. pushes'[j] = Append(pushes[j], loaded.plan) /\ pushes[j] \in Seq(Nat) /\ loaded.plan \in Nat
      BY <1>3 DEF Push, TypeOK
    <3>2. Len(pushes[j]) = 0
      BY <2>3
    <3>3. QED
      BY <3>1, <3>2
  <2>5. QED
    BY <1>3, <2>3, <2>4, PushExhausts DEF Push
<1>4. Len(pushes'[j]) <= 1
  <2>1. CASE pushes'[j] = pushes[j]
    BY <2>1 DEF Once
  <2>2. CASE \E e \in active : Push(e) /\ e.job = j
    <3>1. Len(pushes'[j]) = 1
      BY <1>3, <2>2
    <3>2. QED
      BY <3>1
  <2>3. QED
    BY <1>2, <2>1, <2>2
<1>5. pushes'[j] # <<>> => Settled(j)' \/ Exhausted(j)'
  BY <1>1, <1>2, <1>3 DEF Once
<1>6. ASSUME Runs("resume", j)', Executing' PROVE pushes'[j] = <<>>
  <2>1. pc' # "pushed"
    BY <1>6 DEF Executing
  <2>2. pushes'[j] = pushes[j]
    BY <1>2, <1>3, <2>1
  <2>3. CASE Take
    <3>1. active' = {Head(wait)} /\ loaded'.status = status[Head(wait).job] /\ pc' = "loaded"
      BY <2>3 DEF Take
    <3>2. Is(Head(wait), "resume", j)
      BY <1>6, <3>1 DEF Runs
    <3>3. Waits("resume", j)
      BY <2>3, <3>2, TakeWaits DEF Take, TypeOK
    <3>4. status[j] = "AWAITING_APPROVAL"
      BY <1>6, <3>1, <3>2 DEF Executing, Is
    <3>5. ~Settled(j) /\ ~Exhausted(j)
      BY <3>3, <3>4 DEF Settled, Exhausted
    <3>6. QED
      BY <2>2, <3>5 DEF Once
  <2>4. CASE Runs("resume", j) /\ Executing
    BY <2>2, <2>4 DEF Once
  <2>5. CASE ~Take /\ ~(Runs("resume", j) /\ Executing)
    <3>1. CASE \E e \in active : Works(e)
      <4>1. PICK e \in active : Works(e)
        BY <3>1
      <4>2. active' = active /\ loaded' = loaded
        BY <4>1, WorksFrame
      <4>3. Runs("resume", j) /\ e.kind = "resume"
        BY <1>6, <4>2, RunsIs DEF Runs, Is
      <4>4. ~Executing
        BY <2>5, <4>3
      <4>5. QED
        BY <1>6, <4>1, <4>2, <4>3, <4>4
           DEF Works, Ignore, Start, Prepared, Analyzed, Planned, Applied, Push, Finish,
               EventCreated, Fail, FailUnrecorded, PcAfterPlan, Acts, Executing
    <3>2. CASE ~\E e \in active : Works(e)
      <4>1. StepFacts(j)
        BY <3>2, StepsForward DEF Works
      <4>2. Runs("resume", j)
        BY <1>6, <2>5, <4>1 DEF StepFacts
      <4>3. UNCHANGED <<pc, loaded>>
        BY <1>6, <2>5, <3>2, <4>1 DEF StepFacts, Runs
      <4>4. QED
        BY <1>6, <2>5, <4>2, <4>3 DEF Executing
    <3>3. QED
      BY <3>1, <3>2
  <2>6. QED
    BY <2>3, <2>4, <2>5
<1>7. QED
  BY <1>4, <1>5, <1>6 DEF Once

\* The first time that a queue job is started again, or dropped, either the row
\* stays settled or the resume job stays exhausted.
LEMMA RepeatStep ==
    ASSUME TypeOK, WorkerOK, Tokens, Repeats, stalled = {}, NEW j \in Jobs, Calm(j), Once(j)
    PROVE  Once(j)'
<1>1. UNCHANGED <<status, plan, call, pushes, resumed>>
  BY DEF Repeats, Crash, Retry, Discard, rowVars, historyVars
<1>2. Asks("new", j)' <=> Asks("new", j)
  BY <1>1 DEF Asks
<1>3. ASSUME NEW e \in active, Crash(e) PROVE Once(j)'
  <2>1. active = {e} /\ active' = {} /\ stalled' = {e} /\ UNCHANGED <<wait, failed>>
    BY <1>3 DEF Crash, WorkerOK
  <2>2. \A k : /\ ~Runs(k, j)' /\ (Waits(k, j)' <=> Waits(k, j))
               /\ (Stalls(k, j)' <=> Is(e, k, j)) /\ (Fails(k, j)' <=> Fails(k, j))
               /\ (Runs(k, j) <=> Is(e, k, j)) /\ ~Stalls(k, j)
    BY <2>1 DEF Runs, Waits, Stalls, Fails
  <2>3. ASSUME pushes[j] # <<>> PROVE Settled(j)' \/ Exhausted(j)'
    <3>1. Settled(j) /\ Exhausted(j)
      BY <2>3 DEF Calm
    <3>2. CASE Is(e, "new", j)
      <4>1. ~Is(e, "resume", j)
        BY <3>2 DEF Is
      <4>2. Exhausted(j)'
        BY <1>1, <2>2, <3>1, <4>1, IdKnown DEF Exhausted, Known
      <4>3. QED
        BY <4>2
    <3>3. CASE ~Is(e, "new", j)
      BY <1>1, <1>2, <2>2, <3>1, <3>3 DEF Settled, Drafted
    <3>4. QED
      BY <3>2, <3>3
  <2>4. QED
    BY <1>1, <2>2, <2>3 DEF Once
<1>4. ASSUME NEW e \in failed, Retry(e) \/ Discard(e) PROVE Once(j)'
  <2>1. e \in Entry /\ failed' = failed \ {e} /\ UNCHANGED <<active, stalled, pc, loaded>>
    BY <1>4 DEF Retry, Discard, TypeOK, workerVars
  <2>2. wait' = wait \/ wait' = Append(wait, e)
    BY <1>4 DEF Retry, Discard
  <2>3. \A k : Waits(k, j)' => Waits(k, j) \/ Is(e, k, j)
    <3>1. CASE wait' = wait
      BY <3>1 DEF Waits
    <3>2. CASE wait' = Append(wait, e)
      BY <2>1, <3>2, AppendWaits DEF TypeOK
    <3>3. QED
      BY <2>2, <3>1, <3>2
  <2>4. \A k : /\ (Runs(k, j)' <=> Runs(k, j)) /\ (Stalls(k, j)' <=> Stalls(k, j))
               /\ Fails(k, j) => Fails(k, j)' \/ Is(e, k, j)
    BY <2>1 DEF Runs, Stalls, Fails
  <2>5. \A k : Waits(k, j) => Waits(k, j)'
    <3>1. CASE wait' = wait
      BY <3>1 DEF Waits
    <3>2. CASE wait' = Append(wait, e)
      BY <2>1, <3>2, AppendWaits DEF TypeOK
    <3>3. QED
      BY <2>2, <3>1, <3>2
  <2>6. ASSUME pushes[j] # <<>> PROVE Settled(j)' \/ Exhausted(j)'
    <3>1. Settled(j) /\ Exhausted(j)
      BY <2>6 DEF Calm
    <3>2. CASE Is(e, "new", j)
      <4>1. ~Is(e, "resume", j)
        BY <3>2 DEF Is
      <4>2. Exhausted(j)'
        BY <1>1, <2>1, <2>3, <2>4, <2>5, <3>1, <4>1, IdKnown DEF Exhausted, Known
      <4>3. QED
        BY <4>2
    <3>3. CASE ~Is(e, "new", j)
      BY <1>1, <1>2, <2>1, <2>3, <2>4, <3>1, <3>3 DEF Settled, Drafted
    <3>4. QED
      BY <3>2, <3>3
  <2>7. (Executing' <=> Executing) /\ (Runs("resume", j)' <=> Runs("resume", j))
    BY <2>1, <2>4 DEF Executing
  <2>8. QED
    BY <1>1, <2>6, <2>7 DEF Once
<1>5. QED
  BY <1>3, <1>4 DEF Repeats

\* What is proved of every state about copies, plans and pushes.
ExecutionInv == IInv /\ Tokens /\ CalmInv /\ OnceInv

LEMMA ExecutionInvariance == Spec => []ExecutionInv
<1>1. Init => ExecutionInv
  <2> SUFFICES ASSUME Init PROVE ExecutionInv
    OBVIOUS
  <2>1. IInv
    BY DEF Init, IInv, WorkerOK, ResumeApproved, CallApproved, ApplyIsResume,
           PushNeedsApproval, Entries, NoCall
  <2>2. \A k, j : ~Asks(k, j) /\ ~Waits(k, j) /\ ~Runs(k, j) /\ ~Stalls(k, j) /\ ~Fails(k, j) /\ ~Known(k, j)
    BY DEF Init, Asks, Waits, Runs, Stalls, Fails, Known, NoCall
  <2>3. \A k, j : Single(k, j)
    BY <2>2 DEF Init, Single, OneWaits, OneOf
  <2>4. Tokens
    BY <2>2, <2>3 DEF Init, Tokens, NewOnce, ResumeOnce, NoCall
  <2>5. \A j \in Jobs : pushes[j] = <<>> /\ status[j] # "AWAITING_APPROVAL" /\ ~HasRejected(j)
    BY DEF Init, HasRejected, NoCall
  <2>6. \A j \in Jobs : Calm(j) /\ Once(j)
    BY <2>2, <2>5 DEF Calm, Later, Once
  <2>7. QED
    BY <2>1, <2>4, <2>6 DEF ExecutionInv, CalmInv, OnceInv, Init
<1>2. ASSUME TypeOK, ExecutionInv, IInv', [Next]_vars PROVE ExecutionInv'
  <2>1. WorkerOK /\ ApplyIsResume /\ Tokens /\ CalmInv /\ OnceInv
    BY <1>2 DEF ExecutionInv, IInv
  <2>2. Tokens'
    BY <1>2, <2>1, TokensStep
  <2>3. CASE UNCHANGED vars
    <3>1. /\ UNCHANGED <<wait, active, stalled, failed, resumed, status, plan, approvals, pushes>>
          /\ UNCHANGED <<call, pc, loaded, spent>>
      BY <2>3 DEF vars, queueVars, workerVars, rowVars, historyVars
    <3>2. \A j \in Jobs : (Calm(j)' <=> Calm(j)) /\ (Once(j)' <=> Once(j))
      BY <3>1 DEF Calm, Once, Later, Drafted, Settled, Exhausted, Executing, HasRejected, Asks,
                  Known, Waits, Runs, Stalls, Fails, ResumeIdKnown, Entries, WasApproved
    <3>3. Again' = Again
      BY <3>1 DEF Again
    <3>4. QED
      BY <1>2, <2>1, <2>2, <3>1, <3>2, <3>3 DEF ExecutionInv, CalmInv, OnceInv
  <2>4. CASE Next
    <3>1. /\ Again \in Nat /\ Again' \in Nat
          /\ \/ Forward /\ Again' = Again
             \/ Repeats /\ Again' = Again + 1
      BY <1>2, <2>4, AgainCounts
    <3>2. CASE Forward /\ Again' = Again
      <4>1. ASSUME Again = 0 PROVE stalled' = {}
        <5>1. stalled = {}
          BY <2>1, <4>1 DEF CalmInv
        <5>2. QED
          BY <3>2, <5>1 DEF Forward, Goes, Create, Add, Asked, Approve, RejectCheck, RejectUpdate,
               RejectLost, CallAborts, Works, Ignore, Start, Prepared, Analyzed, Planned, Applied,
               Push, Finish, EventCreated, Fail, FailUnrecorded, Take, Complete, GiveUp, Recover,
               queueVars
      <4>2. CalmInv'
        BY <1>2, <2>1, <3>2, <4>1, CalmStep DEF CalmInv
      <4>3. OnceInv'
        BY <1>2, <2>1, <3>2, OnceStep DEF OnceInv
      <4>4. QED
        BY <1>2, <2>2, <4>2, <4>3 DEF ExecutionInv
    <3>3. CASE Repeats /\ Again' = Again + 1
      <4>1. CalmInv'
        BY <3>1, <3>3 DEF CalmInv
      <4>2. OnceInv'
        <5> SUFFICES ASSUME Again = 0, NEW j \in Jobs PROVE Once(j)'
          BY <3>1, <3>3 DEF OnceInv
        <5>1. stalled = {} /\ Calm(j) /\ Once(j)
          BY <2>1 DEF CalmInv, OnceInv
        <5>2. QED
          BY <1>2, <2>1, <3>3, <5>1, RepeatStep
      <4>3. QED
        BY <1>2, <2>2, <4>1, <4>2 DEF ExecutionInv
    <3>4. QED
      BY <3>1, <3>2, <3>3
  <2>5. QED
    BY <1>2, <2>3, <2>4
<1>3. QED
  BY <1>1, <1>2, TypeInvariance, IInvInvariance, PTL DEF Spec

\* While no queue job runs twice, the plan that is executed is the plan that was
\* approved: the first plan is the only one, since the row awaits approval once
\* and a job that is to write another plan finds it elsewhere.
THEOREM ApprovedPlanIsExecuted == Spec => []ApprovedPlanExecuted
<1>1. ExecutionInv => ApprovedPlanExecuted
  BY DEF ExecutionInv, CalmInv, Calm, Again, ApprovedPlanExecuted, OnlyApprovedPlansPushed
<1>2. QED
  BY <1>1, ExecutionInvariance, PTL

\* An issue job is pushed once at most, whoever approves it and over whatever
\* channel, also when one queue job has been started again or dropped.
THEOREM PushedAtMostOnce == Spec => []AtMostOnePush
<1>1. ExecutionInv => AtMostOnePush
  BY DEF ExecutionInv, OnceInv, Once, Again, AtMostOnePush
<1>2. QED
  BY <1>1, ExecutionInvariance, PTL

=============================================================================
