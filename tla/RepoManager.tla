------------------------------ MODULE RepoManager ------------------------------
(***************************************************************************)
(* The worktrees of mcp-repo: a bare clone of a repository, made or        *)
(* fetched when somebody asks, and a worktree of its default branch per    *)
(* session, made when a tool first needs it, removed by repo_cleanup or    *)
(* when it is too old, and found again on the disk after a restart.        *)
(*                                                                         *)
(* One repository: what sessions contend for is its clone.  Calls are      *)
(* tools that need a worktree, prepare_repo and repo_cleanup.  One process *)
(* with one thread: an action is what runs between two awaits, and git and *)
(* the file system do their work at the end of the await for it.           *)
(***************************************************************************)
EXTENDS Integers, Sequences

CONSTANTS
    Sessions,
    MaxRepoCalls,   \* bound on calls
    MaxPushes,      \* bound on pushes to the default branch
    MaxFailures,    \* bound on git commands and writes that fail
    MaxRestarts,    \* bound on crashes of the process
    MaxTtls         \* bound on the times that WORKTREE_TTL_MINUTES pass

ASSUME RepoAssumption ==
    /\ MaxRepoCalls \in Nat /\ MaxPushes \in Nat /\ MaxFailures \in Nat
    /\ MaxRestarts \in Nat /\ MaxTtls \in Nat

VARIABLES
    \* the repository and the disk
    origin,         \* pushes to the default branch at the remote
    bare, branch,   \* the clone: none, broken or ready; its default branch
    registered,     \* sessions whose worktree git has on its list
    disk,           \* of each session, its worktree: none, full, or a directory without one
    \* the process
    cloning,        \* cloneInFlight: whether clone or fetch is running
    worktrees,      \* the keys of the map of worktrees
    old,            \* those created longer than the TTL ago
    calls,          \* in the order of their arrival, see Call
    staleAt, staleTodo,  \* cleanupStale: where it is, the sessions to remove
    recovery,       \* recoverOrphanedWorktrees, of each session: no, todo or seen
    repoSpent,
    \* history, read by the properties only
    overlapped,     \* sessions of which a creation and a removal ran together
    swept,          \* calls during which a worktree of their session was removed
    halfMade,       \* sessions whose creation failed after 'git worktree add'
    touched         \* clean-ups since whose start a creation for the session began

gitVars == <<origin, bare, branch, registered, disk>>
mapVars == <<worktrees, old>>
staleVars == <<staleAt, staleTodo>>
repoHistory == <<overlapped, swept, halfMade, touched>>
repoVars == <<gitVars, cloning, mapVars, calls, staleVars, recovery, repoSpent, repoHistory>>

-----------------------------------------------------------------------------
Creating == {"cloning", "adding", "mkdir"}
Removing == {"unlinking", "emptying", "sweeping"}
Ended == {"done", "failed"}

\* pending holds the creations that a call waits for, since the value of origin
\* when the call was made.
CallOf(o, places) == [at : places \cup Ended, op : {o}, on : Sessions,
                      pending : SUBSET (1 .. MaxRepoCalls), since : Nat]
Call == CallOf("tool", Creating \cup {"looking", "joined", "running"})
        \cup CallOf("prepare", {"cloning"}) \cup CallOf("cleanup", Removing \cup {"settling"})

RepoBounds == [pushes |-> MaxPushes, failures |-> MaxFailures, restarts |-> MaxRestarts, ttls |-> MaxTtls]
SpendRepo(what) ==
    /\ repoSpent[what] < RepoBounds[what]
    /\ repoSpent' = [repoSpent EXCEPT ![what] = @ + 1]

CallsOn(o, s) == {c \in DOMAIN calls : calls[c].op = o /\ calls[c].on = s}

\* worktreeInFlight: the calls whose creation is under way.
Creators(s) == {c \in CallsOn("tool", s) : calls[c].at \in Creating}

\* cleanupStale works on the sessions of staleTodo one after the other.
RemovalOf(s) ==
    \/ \E c \in CallsOn("cleanup", s) : calls[c].at \in Removing
    \/ staleAt[1] \in Removing /\ staleAt[2] = s

\* The tools that run in the worktree of s, or are about to.
Users(s) == {c \in CallsOn("tool", s) : calls[c].at \notin Ended}

RepoInit ==
    /\ origin = 0 /\ bare = "none" /\ branch = 0 /\ registered = {}
    /\ disk = [s \in Sessions |-> "none"]
    /\ cloning = FALSE /\ worktrees = {} /\ old = {} /\ calls = <<>>
    /\ staleAt = <<"idle">> /\ staleTodo = {}
    /\ recovery = [s \in Sessions |-> "no"]
    /\ repoSpent = [w \in DOMAIN RepoBounds |-> 0]
    /\ overlapped = {} /\ swept = {} /\ halfMade = {} /\ touched = {}

-----------------------------------------------------------------------------
(* getOrCreateWorktree *)

Arriving(o, s, where, wait) ==
    calls' = Append(calls, [at |-> where, op |-> o, on |-> s, pending |-> wait, since |-> origin])

\* The creation under way of the same worktree, which a call shares.
Joins(s) == Creators(s)

\* Sharing a creation, or starting one with the clone, which is shared as well.
JoinOrCreate(s) ==
    /\ cloning' = (cloning \/ Joins(s) = {})
    /\ IF Joins(s) # {} THEN UNCHANGED <<overlapped, touched>>
       ELSE /\ overlapped' = IF RemovalOf(s) THEN overlapped \cup {s} ELSE overlapped
            /\ touched' = touched \cup CallsOn("cleanup", s)
Joined(s) == IF Joins(s) = {} THEN "cloning" ELSE "joined"

ToolArrives(s) ==
    /\ Len(calls) < MaxRepoCalls
    /\ \/ s \in worktrees /\ Arriving("tool", s, "looking", {}) /\ UNCHANGED <<cloning, overlapped, touched>>
       \/ s \notin worktrees /\ Arriving("tool", s, Joined(s), Joins(s)) /\ JoinOrCreate(s)
    /\ UNCHANGED <<gitVars, mapVars, staleVars, recovery, repoSpent, swept, halfMade>>

\* Variant: the entry of the map is believed.
PresentAlways(s) == TRUE

\* pathExists
Present(s) == disk[s] # "none"

\* An entry of the map whose path has gone is made anew.
Look(c) ==
    LET s == calls[c].on
    IN  /\ calls[c].at = "looking"
        /\ \/ /\ Present(s)
              /\ calls' = [calls EXCEPT ![c].at = "running"]
              /\ UNCHANGED <<cloning, overlapped, touched>>
           \/ /\ ~Present(s)
              /\ calls' = [calls EXCEPT ![c] = [@ EXCEPT !.at = Joined(s), !.pending = Joins(s)]]
              /\ JoinOrCreate(s)
        /\ UNCHANGED <<gitVars, mapVars, staleVars, recovery, repoSpent, swept, halfMade>>

\* executeCommand in the worktree.
CommandEnds(c) ==
    /\ calls[c].at = "running"
    /\ calls' = [calls EXCEPT ![c].at = "done"]
    /\ UNCHANGED <<gitVars, cloning, mapVars, staleVars, recovery, repoSpent, repoHistory>>

-----------------------------------------------------------------------------
(* clone *)

PrepareArrives(s) ==
    /\ Len(calls) < MaxRepoCalls
    /\ Arriving("prepare", s, "cloning", {})
    /\ cloning' = TRUE
    /\ UNCHANGED <<gitVars, mapVars, staleVars, recovery, repoSpent, repoHistory>>

AfterClone(call) ==
    IF call.at # "cloning" THEN call
    ELSE [call EXCEPT !.at = IF call.op = "tool" THEN "adding" ELSE "done"]

\* The calls that waited for the clone, or for a creation that fails with it, fail.
FailCloning ==
    LET lost == {c \in DOMAIN calls : calls[c].at = "cloning"}
    IN  calls' = [c \in DOMAIN calls |->
                     IF c \in lost \/ (calls[c].at = "joined" /\ calls[c].pending \subseteq lost)
                     THEN [calls[c] EXCEPT !.at = "failed"] ELSE calls[c]]

\* 'git clone --bare' takes the branches as they are; 'git fetch --all' in a
\* bare clone, which has no refspec, brings FETCH_HEAD and leaves its branches.
CloneEnds ==
    /\ cloning /\ cloning' = FALSE
    /\ \/ bare = "none" /\ bare' = "ready" /\ branch' = origin
       \/ bare # "none" /\ UNCHANGED <<bare, branch>>
    /\ calls' = [c \in DOMAIN calls |-> AfterClone(calls[c])]
    /\ UNCHANGED <<origin, registered, disk, mapVars, staleVars, recovery, repoSpent, repoHistory>>

CloneFails ==
    /\ cloning /\ cloning' = FALSE
    /\ SpendRepo("failures")
    /\ FailCloning
    /\ UNCHANGED <<gitVars, mapVars, staleVars, recovery, repoHistory>>

-----------------------------------------------------------------------------
(* createWorktree, after the clone *)

\* Variant: those who share the creation are not told.
ConcludedAlone(c, place) == [calls EXCEPT ![c].at = place]

\* The creation of c ends in place; those who share it end with it.
Concluded(c, place) ==
    [k \in DOMAIN calls |->
        IF k = c \/ (calls[k].at = "joined" /\ c \in calls[k].pending)
        THEN [calls[k] EXCEPT !.at = place] ELSE calls[k]]

\* git refuses a branch that another worktree on its list has checked out, be it
\* there or not, and a directory that exists.
Addable(s) == bare = "ready" /\ registered = {} /\ disk[s] = "none"

WorktreeAdd(c) ==
    LET s == calls[c].on
    IN  /\ calls[c].at = "adding"
        /\ \/ /\ Addable(s)
              /\ registered' = registered \cup {s}
              /\ disk' = [disk EXCEPT ![s] = "full"]
              /\ calls' = [calls EXCEPT ![c].at = "mkdir"]
           \/ /\ ~Addable(s)
              /\ calls' = Concluded(c, "failed")
              /\ UNCHANGED <<registered, disk>>
        /\ UNCHANGED <<origin, bare, branch, cloning, mapVars, staleVars, recovery, repoSpent, repoHistory>>

\* Variant: the new worktree is not entered.
EnteredNone(s) == worktrees

\* worktrees.set
EnteredIn(s) == worktrees \cup {s}

\* The directory tmp, made with all directories above it; then the entry.
MakeTmp(c) ==
    LET s == calls[c].on
    IN  /\ calls[c].at = "mkdir"
        /\ disk' = [disk EXCEPT ![s] = IF @ = "none" THEN "husk" ELSE @]
        /\ worktrees' = EnteredIn(s) /\ old' = old \ {s}
        /\ calls' = Concluded(c, "running")
        /\ UNCHANGED <<origin, bare, branch, registered, cloning, staleVars, recovery, repoSpent, repoHistory>>

MakeTmpFails(c) ==
    /\ calls[c].at = "mkdir"
    /\ SpendRepo("failures")
    /\ calls' = Concluded(c, "failed")
    /\ halfMade' = halfMade \cup {calls[c].on}
    /\ UNCHANGED <<gitVars, cloning, mapVars, staleVars, recovery, overlapped, swept, touched>>


-----------------------------------------------------------------------------
(* removeWorktree, by cleanupSession and cleanupStale *)

Overlaps(s) == IF Creators(s) = {} THEN overlapped ELSE overlapped \cup {s}
Sweeps(s) == IF disk[s] = "none" THEN swept ELSE swept \cup Users(s)

\* 'git worktree remove --force' when it does its work: it wants a worktree, or
\* nothing, where its list has one.  Its errors are logged.
GitRemove(s) ==
    \/ /\ bare # "none" /\ s \in registered /\ disk[s] # "husk"
       /\ registered' = registered \ {s}
       /\ disk' = [disk EXCEPT ![s] = "none"] /\ swept' = Sweeps(s)
       /\ UNCHANGED repoSpent
    \/ /\ bare = "none" \/ s \notin registered \/ disk[s] # "full"
       /\ UNCHANGED <<registered, disk, swept, repoSpent>>
    \/ /\ bare # "none" /\ s \in registered /\ disk[s] = "full" /\ SpendRepo("failures")
       /\ UNCHANGED <<registered, disk, swept>>

\* rm -rf of the directory, which has the last word; then the entry is deleted.
EmptyAndDelete(s) ==
    /\ disk' = [disk EXCEPT ![s] = "none"] /\ swept' = Sweeps(s)
    /\ worktrees' = worktrees \ {s} /\ old' = old \ {s}

\* Variant: creations under way are not waited for.
AwaitedNone(s) == {}

\* The creations that cleanupSession waits for.
Awaited(s) == Creators(s)

FirstRemoval(s) == IF s \in worktrees THEN "unlinking" ELSE "sweeping"

CleanupArrives(s) ==
    LET wait == Awaited(s)
    IN  /\ Len(calls) < MaxRepoCalls
        /\ IF wait # {} THEN Arriving("cleanup", s, "settling", wait) /\ UNCHANGED overlapped
           ELSE Arriving("cleanup", s, FirstRemoval(s), {}) /\ overlapped' = Overlaps(s)
        /\ UNCHANGED <<gitVars, cloning, mapVars, staleVars, recovery, repoSpent, swept, halfMade, touched>>

Settled(c) ==
    LET s == calls[c].on
    IN  /\ calls[c].at = "settling"
        /\ \A k \in calls[c].pending : calls[k].at \notin Creating
        /\ calls' = [calls EXCEPT ![c].at = FirstRemoval(s)]
        /\ overlapped' = Overlaps(s)
        /\ UNCHANGED <<gitVars, cloning, mapVars, staleVars, recovery, repoSpent, swept, halfMade, touched>>

Unlink(c) ==
    /\ calls[c].at = "unlinking"
    /\ GitRemove(calls[c].on)
    /\ calls' = [calls EXCEPT ![c].at = "emptying"]
    /\ UNCHANGED <<origin, bare, branch, cloning, mapVars, staleVars, recovery, overlapped, halfMade, touched>>

Empty(c) ==
    /\ calls[c].at = "emptying"
    /\ EmptyAndDelete(calls[c].on)
    /\ calls' = [calls EXCEPT ![c].at = "sweeping"]
    /\ UNCHANGED <<origin, bare, branch, registered, cloning, staleVars, recovery, repoSpent,
                   overlapped, halfMade, touched>>

\* rm -rf of the session's directory, with whatever is in it.
Sweep(c) ==
    LET s == calls[c].on
    IN  /\ calls[c].at = "sweeping"
        /\ disk' = [disk EXCEPT ![s] = "none"] /\ swept' = Sweeps(s)
        /\ calls' = [calls EXCEPT ![c].at = "done"]
        /\ UNCHANGED <<origin, bare, branch, registered, cloning, mapVars, staleVars, recovery,
                       repoSpent, overlapped, halfMade, touched>>

-----------------------------------------------------------------------------
(* cleanupStale; that it removes empty directories of sessions changes nothing here *)

StaleStarts(s) ==
    /\ staleAt = <<"idle">> /\ s \in old
    /\ staleAt' = <<"unlinking", s>> /\ staleTodo' = old \ {s}
    /\ overlapped' = Overlaps(s)
    /\ UNCHANGED <<gitVars, cloning, mapVars, calls, recovery, repoSpent, swept, halfMade, touched>>

StaleUnlinks ==
    /\ staleAt[1] = "unlinking"
    /\ GitRemove(staleAt[2])
    /\ staleAt' = <<"emptying", staleAt[2]>>
    /\ UNCHANGED <<origin, bare, branch, cloning, mapVars, calls, staleTodo, recovery,
                   overlapped, halfMade, touched>>

\* The next one; an entry that has gone meanwhile throws and ends the clean-up.
StaleEmpties ==
    /\ staleAt[1] = "emptying"
    /\ EmptyAndDelete(staleAt[2])
    /\ \/ /\ staleTodo \cap worktrees' = {}
          /\ staleAt' = <<"idle">> /\ staleTodo' = {}
          /\ UNCHANGED overlapped
       \/ \E s \in staleTodo :
             IF s \in worktrees
             THEN /\ staleAt' = <<"unlinking", s>> /\ staleTodo' = staleTodo \ {s}
                  /\ overlapped' = Overlaps(s)
             ELSE staleAt' = <<"idle">> /\ staleTodo' = {} /\ UNCHANGED overlapped
    /\ UNCHANGED <<origin, bare, branch, registered, cloning, calls, recovery, repoSpent, halfMade, touched>>

TtlPasses ==
    /\ old # worktrees /\ SpendRepo("ttls")
    /\ old' = worktrees
    /\ UNCHANGED <<gitVars, cloning, worktrees, calls, staleVars, recovery, repoHistory>>

-----------------------------------------------------------------------------
(* A crash, and recoverOrphanedWorktrees after the restart *)

Restart ==
    /\ SpendRepo("restarts")
    /\ calls' = [c \in DOMAIN calls |->
                    IF calls[c].at \in Ended THEN calls[c] ELSE [calls[c] EXCEPT !.at = "failed"]]
    /\ \/ UNCHANGED bare
       \/ cloning /\ bare = "none" /\ bare' = "broken"
    /\ cloning' = FALSE /\ worktrees' = {} /\ old' = {}
    /\ staleAt' = <<"idle">> /\ staleTodo' = {}
    /\ recovery' = [s \in Sessions |-> IF disk[s] = "none" THEN "no" ELSE "todo"]
    /\ UNCHANGED <<origin, branch, registered, disk, repoHistory>>

RecoverStat(s) ==
    /\ recovery[s] = "todo"
    /\ recovery' = [recovery EXCEPT ![s] = IF s \notin worktrees /\ disk[s] # "none" THEN "seen" ELSE "no"]
    /\ UNCHANGED <<gitVars, cloning, mapVars, calls, staleVars, repoSpent, repoHistory>>

\* The entry is as old as the directory.
RecoverEnter(s) ==
    /\ recovery[s] = "seen"
    /\ recovery' = [recovery EXCEPT ![s] = "no"]
    /\ worktrees' = worktrees \cup {s} /\ old' \in {old \cup {s}, old \ {s}}
    /\ UNCHANGED <<gitVars, cloning, calls, staleVars, repoSpent, repoHistory>>

PushToOrigin ==
    /\ SpendRepo("pushes")
    /\ origin' = origin + 1
    /\ UNCHANGED <<bare, branch, registered, disk, cloning, mapVars, calls, staleVars, recovery, repoHistory>>

-----------------------------------------------------------------------------
RepoStep ==
    \/ \E c \in DOMAIN calls : \/ Look(c) \/ CommandEnds(c) \/ WorktreeAdd(c) \/ MakeTmp(c)
                               \/ Settled(c) \/ Unlink(c) \/ Empty(c) \/ Sweep(c)
    \/ CloneEnds
    \/ StaleUnlinks \/ StaleEmpties
    \/ \E s \in Sessions : StaleStarts(s) \/ RecoverStat(s) \/ RecoverEnter(s)

RepoNext ==
    \/ \E s \in Sessions : ToolArrives(s) \/ PrepareArrives(s) \/ CleanupArrives(s)
    \/ RepoStep
    \/ CloneFails \/ \E c \in DOMAIN calls : MakeTmpFails(c)
    \/ TtlPasses \/ Restart \/ PushToOrigin

RepoSpec == RepoInit /\ [][RepoNext]_repoVars

\* git and the file system answer in the end; they are given no time-out.
RepoFairSpec == RepoSpec /\ WF_repoVars(RepoStep)

RepoTypeOK ==
    /\ origin \in Nat /\ bare \in {"none", "broken", "ready"} /\ branch \in Nat
    /\ registered \subseteq Sessions /\ disk \in [Sessions -> {"none", "full", "husk"}]
    /\ cloning \in BOOLEAN /\ worktrees \subseteq Sessions /\ old \subseteq worktrees
    /\ calls \in Seq(Call)
    /\ staleAt \in {<<"idle">>} \cup ({"unlinking", "emptying"} \X Sessions)
    /\ staleTodo \subseteq Sessions
    /\ recovery \in [Sessions -> {"no", "todo", "seen"}]
    /\ repoSpent \in [DOMAIN RepoBounds -> Nat]
    /\ overlapped \subseteq Sessions /\ halfMade \subseteq Sessions
    /\ swept \subseteq DOMAIN calls /\ touched \subseteq DOMAIN calls

\* A worktree on the disk is known to somebody who will remove it: it is in the
\* map, or about to be, also when a creation and a removal run together; or its
\* creation failed half-way.
WorktreesOnRecord ==
    \A s \in Sessions \ halfMade : disk[s] # "none" =>
        \/ s \in worktrees \/ recovery[s] # "no" \/ RemovalOf(s)
        \/ \E c \in Creators(s) : calls[c].at = "mkdir"

\* A command runs in a worktree, not in an empty or missing directory, unless
\* its session was cleaned up meanwhile, or in the middle of its creation.
RunsInTree ==
    \A c \in DOMAIN calls \ swept :
        calls[c].at = "running" /\ calls[c].on \notin overlapped => disk[calls[c].on] = "full"

\* When repo_cleanup has ended nothing is left of its session, also of what was
\* being created when it was called, until it is created again.  The
\* entry in git's list, which keeps the branch from all other sessions, goes
\* with it if nothing failed, nothing ran together and nothing was restarted.
SessionReleased ==
    \A c \in DOMAIN calls \ touched :
        LET s == calls[c].on IN
        calls[c].op = "cleanup" /\ calls[c].at = "done" =>
            /\ disk[s] = "none"
            /\ s \notin overlapped /\ repoSpent.failures + repoSpent.restarts = 0 => s \notin registered

\* Nobody waits for a clone, a creation, a command or a removal.
RepoCallsEnded == \A c \in DOMAIN calls : calls[c].at \in Ended

\* mcp-servers/repo/src/tools/prepare-repo.ts:14: "Ensure the bare clone for a
\* repository is fetched and up to date."
PreparedUpToDate ==
    \A c \in DOMAIN calls :
        calls[c].op = "prepare" /\ calls[c].at = "done" => branch >= calls[c].since

=============================================================================
