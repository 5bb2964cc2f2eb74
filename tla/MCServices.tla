------------------------------- MODULE MCServices -------------------------------
(***************************************************************************)
(* Five components that share no state, each on a small instance of its    *)
(* own: a behaviour is one of the component chosen by part, while the      *)
(* others stay as they are at their start.                                 *)
(***************************************************************************)
EXTENDS MCTicketIngest, PoolManager, RepoManager, PendingActions, Strategist

CONSTANTS s1, s2, config

VARIABLE part

serviceVars == <<vars, poolVars, repoVars, pendingVars, strategistVars, part>>

\* Some components have two instances.  Pools: two systems reloaded together, or
\* one with trouble.  Worktrees: three calls, or two and a restart.  Strategist:
\* three batches of sub-tasks that cost nothing, or two that do.
Parts == {"ingest", "reload", "trouble", "calls", "restart", "actions", "rounds", "budget"}

ReloadStart == systemRows = [s \in Systems |-> IF s = s1 THEN config ELSE Absent]
TroubleStart == wanted = [r \in Requests |-> s1] /\ systemRows[s1] \in {config, Absent} /\ systemRows[s2] = Absent

ServicesInit ==
    /\ part \in Parts
    /\ Init /\ PoolInit /\ RepoInit /\ PendingInit /\ StrategistInit
    /\ CASE part = "reload" -> ReloadStart
         [] part = "trouble" -> TroubleStart
         [] OTHER -> ReloadStart /\ TroubleStart
    /\ ticketFields = [f \in Fields |-> "open"]

PoolStep ==
    \/ part = "reload" /\ PoolNext /\ UNCHANGED poolSpent.troubles
    \/ part = "trouble" /\ PoolNext /\ UNCHANGED systemRows[s2]

RepoPartStep ==
    \/ part = "calls" /\ RepoNext /\ UNCHANGED repoSpent.restarts
    \/ part = "restart" /\ RepoNext /\ Len(calls') <= 2

\* Three batches at most, and the fourth dispatch; two and the third.
StrategistStep ==
    /\ StrategistNext
    /\ \/ /\ part = "rounds"
          /\ tokens' = 0 /\ ~task'.again
          /\ Len(batches) = 3 => phase = "asking"
       \/ /\ part = "budget"
          /\ dispatch'.plan # "q"
          /\ Len(batches) = 2 => phase = "asking"

ServicesNext ==
    \/ /\ part = "ingest" /\ Next
       /\ UNCHANGED <<poolVars, repoVars, pendingVars, strategistVars, part>>
    \/ /\ PoolStep
       /\ UNCHANGED <<vars, repoVars, pendingVars, strategistVars, part>>
    \/ /\ RepoPartStep
       /\ UNCHANGED <<vars, poolVars, pendingVars, strategistVars, part>>
    \/ /\ part = "actions" /\ PendingNext
       /\ UNCHANGED <<vars, poolVars, repoVars, strategistVars, part>>
    \/ /\ StrategistStep
       /\ UNCHANGED <<vars, poolVars, repoVars, pendingVars, part>>

\* Each component has the fairness it has alone.
ServicesSpec ==
    /\ ServicesInit /\ [][ServicesNext]_serviceVars
    /\ WF_vars(part = "ingest" /\ PollStep) /\ WF_vars(part = "ingest" /\ EmailStep)
    /\ WF_vars(part = "ingest" /\ IngestStep) /\ WF_vars(part = "ingest" /\ BackOff)
    /\ WF_poolVars(part \in {"reload", "trouble"} /\ PoolProgress)
    /\ WF_repoVars(part \in {"calls", "restart"} /\ RepoStep)

\* Recommendations: a change and its reversal, a comment and something that is
\* never carried out, an impossible value and a change.
Change(value) == [type |-> "status", value |-> value]
Say(type) == [type |-> type, value |-> Invalid]
MCRecommendations ==
    {<<Change("new"), Change("open")>>, <<Say("comment"), Say("other")>>, <<Change(Invalid), Change("new")>>}

\* Every variable of the five components has its type.
ServicesTypeOK ==
    PoolTypeOK /\ RepoTypeOK /\ PendingTypeOK /\ StrategistTypeOK

\* Whatever fails on the way, the mails and requests that came in are dealt with,
\* and everybody who waits for a reload, a connection, a query, a clone, the
\* creation of a worktree, be it by somebody else, or its removal gets an answer.
AllComeToRest == <>[](Quiet /\ CallsEnded /\ RepoCallsEnded)
=============================================================================
