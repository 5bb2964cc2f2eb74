-------------------------------- MODULE McpProofs --------------------------------
(***************************************************************************)
(* The pools of mcp-database and the worktrees of mcp-repo, for any        *)
(* systems, sessions, calls and troubles.                                  *)
(*                                                                         *)
(* Of the pools none is lost but those of callers who connected together,  *)
(* none is outdated but those a reload overtook, and no call is refused a  *)
(* system that was there all the time.                                     *)
(*                                                                         *)
(* Every worktree on the disk is known to somebody who will remove it,     *)
(* commands run in worktrees, and of a session that has been cleaned up    *)
(* nothing is left.                                                        *)
(***************************************************************************)
EXTENDS PoolManager, RepoManager, TLAPS

-----------------------------------------------------------------------------
(* mcp-database *)

\* A call waits for a reload only when its system is not in the cache.
WaitingUncached ==
    \A r \in Requests : poolCall[r] = "reloading" => configs[wanted[r]] = Absent

\* Calls that have not gone on to createPool have no connection.
UnconnectedBefore ==
    \A r \in Requests : poolCall[r] \in {"none", "reloading"} => poolConn[r] = "none"

\* A pool in the map has been connected, to the system it is entered for.
PooledConnected ==
    \A s \in Systems : pools[s] # NoPool =>
        wanted[pools[s]] = s /\ poolConn[pools[s]] \in {"open", "down"}

\* Two that connect to the same system at the same time are noted as such,
TwinsNoted ==
    \A r, q \in Connecting : r # q /\ wanted[r] = wanted[q] => r \in twins

\* and so is whoever has been entered before another that connects.
ReplacedAreTwins ==
    \A r \in Connecting : pools[wanted[r]] # NoPool => pools[wanted[r]] \in twins

\* What is being connected has the configuration of the cache, or was overtaken.
ConnectingCurrent ==
    \A r \in Connecting \ overtaken : built[r] = configs[wanted[r]]

\* A system without an active row is noted with every call for it,
GoneNoted ==
    \A r \in Requests : poolCall[r] # "none" /\ systemRows[wanted[r]] = Absent => r \in gone

\* and when it is missing from what a reload read, so is everyone who waits.
MissingExplained ==
    \A r \in Requests : poolCall[r] = "reloading" /\ reload = "read" /\ fresh[wanted[r]] = Absent
        => r \in gone \cup joined

\* The inductive invariant, in four parts.
CallsConnected == WaitingUncached /\ UnconnectedBefore /\ PooledConnected
ReplacementsNoted == TwinsNoted /\ ReplacedAreTwins /\ OpenPoolsKept
ConfigsKept == ConnectingCurrent /\ PoolsCurrent
RefusalsExplained == GoneNoted /\ MissingExplained /\ RefusedWhenAbsent

PoolInv ==
    PoolTypeOK /\ CallsConnected /\ ReplacementsNoted /\ ConfigsKept /\ RefusalsExplained

-----------------------------------------------------------------------------
\* A request is not the absence of a pool.
LEMMA RequestsAreNot == Requests \subseteq Nat /\ NoPool \notin Requests
  BY PoolAssumption DEF Requests, NoPool

\* Spending keeps the account's type.
LEMMA SpendPoolType ==
    ASSUME NEW w \in {"edits", "troubles"}, poolSpent \in PoolSpending, SpendPool(w)
    PROVE  poolSpent' \in PoolSpending
  BY DEF SpendPool, PoolSpending, PoolBounds

\* The calls that go on to createPool keep the types of what it writes.
LEMMA CreateType ==
    ASSUME PoolTypeOK, NEW R \in SUBSET Requests, NEW cache \in Rows,
           NEW conns \in [Requests -> {"none", "connecting", "open", "down", "closed", "failed"}],
           Create(R, cache, conns)
    PROVE  /\ poolConn' \in [Requests -> {"none", "connecting", "open", "down", "closed", "failed"}]
           /\ built' \in [Requests -> Configs \cup {Absent}]
           /\ poolCall' \in [Requests -> {"none", "reloading", "connecting", "querying",
                                         "done", "failed", "refused"}]
           /\ twins' \subseteq Requests
  BY DEF PoolTypeOK, Create, Rows, Connecting

\* The types of the variables are preserved by every step.
LEMMA PoolTypeStep == PoolTypeOK /\ [PoolNext]_poolVars => PoolTypeOK'
<1> SUFFICES ASSUME PoolTypeOK, [PoolNext]_poolVars PROVE PoolTypeOK'
  OBVIOUS
<1> USE RequestsAreNot DEF PoolTypeOK, Rows, Pooled, cacheVars, connVars, callVars, poolHistory
<1>1. ASSUME NEW r \in Requests, Hit(r) PROVE PoolTypeOK'
  BY <1>1 DEF Hit, Arrives, Usable
<1>2. ASSUME NEW r \in Requests, Miss(r) PROVE PoolTypeOK'
  <2>1. /\ poolConn' \in [Requests -> {"none", "connecting", "open", "down", "closed", "failed"}]
        /\ built' \in [Requests -> Configs \cup {Absent}]
        /\ poolCall' \in [Requests -> {"none", "reloading", "connecting", "querying",
                                      "done", "failed", "refused"}]
        /\ twins' \subseteq Requests
    BY <1>2, CreateType DEF Miss
  <2>2. QED
    BY <1>2, <2>1 DEF Miss, Misses, Arrives
<1>3. ASSUME NEW r \in Requests, MissUnknown(r) PROVE PoolTypeOK'
  BY <1>3 DEF MissUnknown, Misses, Arrives
<1>4. ASSUME NEW r \in Requests, Connected(r) PROVE PoolTypeOK'
  BY <1>4 DEF Connected, Entered
<1>5. ASSUME NEW r \in Requests, ConnectFails(r) PROVE PoolTypeOK'
  BY <1>5 DEF ConnectFails
<1>6. ASSUME NEW r \in Requests, Answer(r) PROVE PoolTypeOK'
  BY <1>6 DEF Answer
<1>7. ASSUME NEW r \in Requests, DropConnection(r) PROVE PoolTypeOK'
  BY <1>7, SpendPoolType DEF DropConnection
<1>8. ASSUME ReadRows PROVE PoolTypeOK'
  BY <1>8 DEF ReadRows, RowsNow
<1>9. ASSUME ReloadSystems PROVE PoolTypeOK'
  <2> DEFINE out == {s \in Systems : Outdated(s)}
             closed == {pools[s] : s \in out}
             conns == [r \in Requests |-> IF r \in closed THEN "closed" ELSE poolConn[r]]
  <2>1. Waiting \in SUBSET Requests /\ Create(Waiting, fresh, conns)
    BY <1>9 DEF ReloadSystems, Waiting
  <2>2. conns \in [Requests -> {"none", "connecting", "open", "down", "closed", "failed"}]
    OBVIOUS
  <2>3. /\ poolConn' \in [Requests -> {"none", "connecting", "open", "down", "closed", "failed"}]
        /\ built' \in [Requests -> Configs \cup {Absent}]
        /\ poolCall' \in [Requests -> {"none", "reloading", "connecting", "querying",
                                      "done", "failed", "refused"}]
        /\ twins' \subseteq Requests
    BY <2>1, <2>2, CreateType
  <2>4. QED
    BY <1>9, <2>3 DEF ReloadSystems, Connecting
<1>10. ASSUME LoadFails PROVE PoolTypeOK'
  BY <1>10, SpendPoolType DEF LoadFails, AfterRead
<1>11. ASSUME CleanupIdlePools PROVE PoolTypeOK'
  BY <1>11 DEF CleanupIdlePools
<1>12. ASSUME TenMinutesPass PROVE PoolTypeOK'
  BY <1>12, SpendPoolType DEF TenMinutesPass
<1>13. ASSUME CloseAll PROVE PoolTypeOK'
  BY <1>13 DEF CloseAll
<1>14. ASSUME NEW s \in Systems, EditSystem(s) PROVE PoolTypeOK'
  <2>1. poolSpent' \in PoolSpending
    BY <1>14, SpendPoolType DEF EditSystem
  <2>2. PICK c \in Configs \cup {Absent} : systemRows' = [systemRows EXCEPT ![s] = c]
    BY <1>14 DEF EditSystem
  <2>3. gone' \subseteq Requests
    BY <1>14 DEF EditSystem
  <2>4. QED
    BY <1>14, <2>1, <2>2, <2>3 DEF EditSystem
<1>15. CASE UNCHANGED poolVars
  BY <1>15 DEF poolVars
<1>16. QED
  BY <1>1, <1>2, <1>3, <1>4, <1>5, <1>6, <1>7, <1>8, <1>9, <1>10, <1>11, <1>12, <1>13,
     <1>14, <1>15 DEF PoolNext

\* Who waits and who is connected, after every step.
LEMMA ConnectionsStep == PoolInv /\ [PoolNext]_poolVars => CallsConnected'
<1> SUFFICES ASSUME PoolInv, [PoolNext]_poolVars PROVE CallsConnected'
  OBVIOUS
<1> USE RequestsAreNot, PoolAssumption
    DEF PoolInv, CallsConnected, PoolTypeOK, Rows, Pooled, Connecting, cacheVars,
        connVars, callVars, poolHistory, WaitingUncached, UnconnectedBefore,
        PooledConnected
<1>1. ASSUME NEW r \in Requests, Hit(r) PROVE CallsConnected'
  BY <1>1 DEF Hit, Arrives, Usable
<1>2. ASSUME NEW r \in Requests, Miss(r) PROVE CallsConnected'
  BY <1>2 DEF Miss, Misses, Arrives, Usable, Create
<1>3. ASSUME NEW r \in Requests, MissUnknown(r) PROVE CallsConnected'
  BY <1>3 DEF MissUnknown, Misses, Arrives, Usable
<1>4. ASSUME NEW r \in Requests, Connected(r) PROVE CallsConnected'
  BY <1>4 DEF Connected, Entered
<1>5. ASSUME NEW r \in Requests, ConnectFails(r) PROVE CallsConnected'
  BY <1>5 DEF ConnectFails
<1>6. ASSUME NEW r \in Requests, Answer(r) PROVE CallsConnected'
  BY <1>6 DEF Answer
<1>7. ASSUME NEW r \in Requests, DropConnection(r) PROVE CallsConnected'
  BY <1>7 DEF DropConnection
<1>8. ASSUME ReadRows PROVE CallsConnected'
  BY <1>8 DEF ReadRows
<1>9. ASSUME ReloadSystems PROVE CallsConnected'
  BY <1>9 DEF ReloadSystems, Create, Outdated, Waiting
<1>10. ASSUME LoadFails PROVE CallsConnected'
  BY <1>10 DEF LoadFails, Waiting, AfterRead
<1>11. ASSUME CleanupIdlePools PROVE CallsConnected'
  BY <1>11 DEF CleanupIdlePools
<1>12. ASSUME TenMinutesPass PROVE CallsConnected'
  BY <1>12 DEF TenMinutesPass
<1>13. ASSUME CloseAll PROVE CallsConnected'
  BY <1>13 DEF CloseAll
<1>14. ASSUME NEW s \in Systems, EditSystem(s) PROVE CallsConnected'
  BY <1>14 DEF EditSystem
<1>15. CASE UNCHANGED poolVars
  BY <1>15 DEF poolVars
<1>16. QED
  BY <1>1, <1>2, <1>3, <1>4, <1>5, <1>6, <1>7, <1>8, <1>9, <1>10, <1>11, <1>12, <1>13,
     <1>14, <1>15 DEF PoolNext

\* Pools that are replaced, after every step.
LEMMA TwinsStep == PoolInv /\ [PoolNext]_poolVars => ReplacementsNoted'
<1> SUFFICES ASSUME PoolInv, [PoolNext]_poolVars PROVE ReplacementsNoted'
  OBVIOUS
<1> USE RequestsAreNot, PoolAssumption
    DEF PoolInv, CallsConnected, ReplacementsNoted, PoolTypeOK, Rows, Pooled,
        Connecting, cacheVars, connVars, callVars, poolHistory, WaitingUncached,
        UnconnectedBefore, PooledConnected, TwinsNoted, ReplacedAreTwins, OpenPoolsKept
<1>1. ASSUME NEW r \in Requests, Hit(r) PROVE ReplacementsNoted'
  BY <1>1 DEF Hit, Arrives, Usable
<1>2. ASSUME NEW r \in Requests, Miss(r) PROVE ReplacementsNoted'
  BY <1>2 DEF Miss, Misses, Arrives, Usable, Create
<1>3. ASSUME NEW r \in Requests, MissUnknown(r) PROVE ReplacementsNoted'
  BY <1>3 DEF MissUnknown, Misses, Arrives, Usable
<1>4. ASSUME NEW r \in Requests, Connected(r) PROVE ReplacementsNoted'
  BY <1>4 DEF Connected, Entered
<1>5. ASSUME NEW r \in Requests, ConnectFails(r) PROVE ReplacementsNoted'
  BY <1>5 DEF ConnectFails
<1>6. ASSUME NEW r \in Requests, Answer(r) PROVE ReplacementsNoted'
  BY <1>6 DEF Answer
<1>7. ASSUME NEW r \in Requests, DropConnection(r) PROVE ReplacementsNoted'
  BY <1>7 DEF DropConnection
<1>8. ASSUME ReadRows PROVE ReplacementsNoted'
  BY <1>8 DEF ReadRows
<1>9. ASSUME ReloadSystems PROVE ReplacementsNoted'
  BY <1>9 DEF ReloadSystems, Create, Outdated, Waiting
<1>10. ASSUME LoadFails PROVE ReplacementsNoted'
  BY <1>10 DEF LoadFails, Waiting, AfterRead
<1>11. ASSUME CleanupIdlePools PROVE ReplacementsNoted'
  BY <1>11 DEF CleanupIdlePools
<1>12. ASSUME TenMinutesPass PROVE ReplacementsNoted'
  BY <1>12 DEF TenMinutesPass
<1>13. ASSUME CloseAll PROVE ReplacementsNoted'
  BY <1>13 DEF CloseAll
<1>14. ASSUME NEW s \in Systems, EditSystem(s) PROVE ReplacementsNoted'
  BY <1>14 DEF EditSystem
<1>15. CASE UNCHANGED poolVars
  BY <1>15 DEF poolVars
<1>16. QED
  BY <1>1, <1>2, <1>3, <1>4, <1>5, <1>6, <1>7, <1>8, <1>9, <1>10, <1>11, <1>12, <1>13,
     <1>14, <1>15 DEF PoolNext

\* The configurations of pools, after every step.
LEMMA CurrentStep == PoolInv /\ [PoolNext]_poolVars => ConfigsKept'
<1> SUFFICES ASSUME PoolInv, [PoolNext]_poolVars PROVE ConfigsKept'
  OBVIOUS
<1> USE RequestsAreNot, PoolAssumption
    DEF PoolInv, CallsConnected, ConfigsKept, PoolTypeOK, Rows, Pooled, Connecting,
        cacheVars, connVars, callVars, poolHistory, WaitingUncached, UnconnectedBefore,
        PooledConnected, ConnectingCurrent, PoolsCurrent
<1>1. ASSUME NEW r \in Requests, Hit(r) PROVE ConfigsKept'
  BY <1>1 DEF Hit, Arrives, Usable
<1>2. ASSUME NEW r \in Requests, Miss(r) PROVE ConfigsKept'
  BY <1>2 DEF Miss, Misses, Arrives, Usable, Create
<1>3. ASSUME NEW r \in Requests, MissUnknown(r) PROVE ConfigsKept'
  BY <1>3 DEF MissUnknown, Misses, Arrives, Usable
<1>4. ASSUME NEW r \in Requests, Connected(r) PROVE ConfigsKept'
  BY <1>4 DEF Connected, Entered
<1>5. ASSUME NEW r \in Requests, ConnectFails(r) PROVE ConfigsKept'
  BY <1>5 DEF ConnectFails
<1>6. ASSUME NEW r \in Requests, Answer(r) PROVE ConfigsKept'
  BY <1>6 DEF Answer
<1>7. ASSUME NEW r \in Requests, DropConnection(r) PROVE ConfigsKept'
  BY <1>7 DEF DropConnection
<1>8. ASSUME ReadRows PROVE ConfigsKept'
  BY <1>8 DEF ReadRows
<1>9. ASSUME ReloadSystems PROVE ConfigsKept'
  BY <1>9 DEF ReloadSystems, Create, Outdated, Waiting
<1>10. ASSUME LoadFails PROVE ConfigsKept'
  BY <1>10 DEF LoadFails, Waiting, AfterRead
<1>11. ASSUME CleanupIdlePools PROVE ConfigsKept'
  BY <1>11 DEF CleanupIdlePools
<1>12. ASSUME TenMinutesPass PROVE ConfigsKept'
  BY <1>12 DEF TenMinutesPass
<1>13. ASSUME CloseAll PROVE ConfigsKept'
  BY <1>13 DEF CloseAll
<1>14. ASSUME NEW s \in Systems, EditSystem(s) PROVE ConfigsKept'
  BY <1>14 DEF EditSystem
<1>15. CASE UNCHANGED poolVars
  BY <1>15 DEF poolVars
<1>16. QED
  BY <1>1, <1>2, <1>3, <1>4, <1>5, <1>6, <1>7, <1>8, <1>9, <1>10, <1>11, <1>12, <1>13,
     <1>14, <1>15 DEF PoolNext

\* Who is refused, after every step.
LEMMA RefusalStep == PoolInv /\ [PoolNext]_poolVars => RefusalsExplained'
<1> SUFFICES ASSUME PoolInv, [PoolNext]_poolVars PROVE RefusalsExplained'
  OBVIOUS
<1> USE RequestsAreNot, PoolAssumption
    DEF PoolInv, CallsConnected, RefusalsExplained, PoolTypeOK, Rows, Pooled,
        Connecting, cacheVars, connVars, callVars, poolHistory, WaitingUncached,
        GoneNoted, MissingExplained, RefusedWhenAbsent
<1>1. ASSUME NEW r \in Requests, Hit(r) PROVE RefusalsExplained'
  BY <1>1 DEF Hit, Arrives, Usable
<1>2. ASSUME NEW r \in Requests, Miss(r) PROVE RefusalsExplained'
  BY <1>2 DEF Miss, Misses, Arrives, Usable, Create
<1>3. ASSUME NEW r \in Requests, MissUnknown(r) PROVE RefusalsExplained'
  BY <1>3 DEF MissUnknown, Misses, Arrives, Usable
<1>4. ASSUME NEW r \in Requests, Connected(r) PROVE RefusalsExplained'
  BY <1>4 DEF Connected, Entered, CallsConnected, UnconnectedBefore
<1>5. ASSUME NEW r \in Requests, ConnectFails(r) PROVE RefusalsExplained'
  BY <1>5 DEF ConnectFails, CallsConnected, UnconnectedBefore
<1>6. ASSUME NEW r \in Requests, Answer(r) PROVE RefusalsExplained'
  BY <1>6 DEF Answer
<1>7. ASSUME NEW r \in Requests, DropConnection(r) PROVE RefusalsExplained'
  BY <1>7 DEF DropConnection
<1>8. ASSUME ReadRows PROVE RefusalsExplained'
  BY <1>8 DEF ReadRows, RowsNow
<1>9. ASSUME ReloadSystems PROVE RefusalsExplained'
  BY <1>9 DEF ReloadSystems, Create, Outdated, Waiting
<1>10. ASSUME LoadFails PROVE RefusalsExplained'
  BY <1>10 DEF LoadFails, Waiting, AfterRead
<1>11. ASSUME CleanupIdlePools PROVE RefusalsExplained'
  BY <1>11 DEF CleanupIdlePools
<1>12. ASSUME TenMinutesPass PROVE RefusalsExplained'
  BY <1>12 DEF TenMinutesPass
<1>13. ASSUME CloseAll PROVE RefusalsExplained'
  BY <1>13 DEF CloseAll
<1>14. ASSUME NEW s \in Systems, EditSystem(s) PROVE RefusalsExplained'
  BY <1>14 DEF EditSystem
<1>15. CASE UNCHANGED poolVars
  BY <1>15 DEF poolVars
<1>16. QED
  BY <1>1, <1>2, <1>3, <1>4, <1>5, <1>6, <1>7, <1>8, <1>9, <1>10, <1>11, <1>12, <1>13,
     <1>14, <1>15 DEF PoolNext

-----------------------------------------------------------------------------
\* The invariant holds at first, when no call has arrived,
LEMMA PoolInvInit == PoolInit => PoolInv
<1> SUFFICES ASSUME PoolInit PROVE PoolInv
  OBVIOUS
<1> USE RequestsAreNot DEF PoolInit
<1>1. PoolTypeOK
  <2>1. poolSpent \in PoolSpending
    BY DEF PoolSpending, PoolBounds
  <2>2. QED
    BY <2>1 DEF PoolTypeOK, Rows, Pooled
<1>2. CallsConnected /\ ReplacementsNoted
  BY DEF CallsConnected, WaitingUncached, UnconnectedBefore, PooledConnected,
         ReplacementsNoted, TwinsNoted, ReplacedAreTwins, OpenPoolsKept, Connecting
<1>3. ConfigsKept /\ RefusalsExplained
  BY DEF ConfigsKept, ConnectingCurrent, PoolsCurrent, Connecting,
         RefusalsExplained, GoneNoted, MissingExplained, RefusedWhenAbsent
<1>4. QED
  BY <1>1, <1>2, <1>3 DEF PoolInv

\* and after every step.
LEMMA PoolInvStep == PoolInv /\ [PoolNext]_poolVars => PoolInv'
<1> SUFFICES ASSUME PoolInv, [PoolNext]_poolVars PROVE PoolInv'
  OBVIOUS
<1>1. PoolTypeOK'
  BY PoolTypeStep DEF PoolInv
<1>2. CallsConnected' /\ ReplacementsNoted' /\ ConfigsKept' /\ RefusalsExplained'
  BY ConnectionsStep, TwinsStep, CurrentStep, RefusalStep
<1>3. QED
  BY <1>1, <1>2 DEF PoolInv

\* The invariant holds always, the types of the variables with it.
THEOREM PoolInvariance == PoolSpec => []PoolInv
<1>1. PoolInit => PoolInv
  BY PoolInvInit
<1>2. PoolInv /\ [PoolNext]_poolVars => PoolInv'
  BY PoolInvStep
<1>3. QED
  BY <1>1, <1>2, PTL DEF PoolSpec

\* While the server serves, an open pool is in the map, unless it was connected
\* at the same time as another to its system (getPool enters what it awaited).
THEOREM PoolsAreKept == PoolSpec => []OpenPoolsKept
<1>1. PoolInv => OpenPoolsKept
  BY DEF PoolInv, ReplacementsNoted
<1>2. QED
  BY <1>1, PoolInvariance, PTL

\* A pool of the map has the configuration of the cache, unless a reload changed
\* it while the pool was connecting (reloadSystems closes those in the map).
THEOREM PoolsAreCurrent == PoolSpec => []PoolsCurrent
<1>1. PoolInv => PoolsCurrent
  BY DEF PoolInv, ConfigsKept
<1>2. QED
  BY <1>1, PoolInvariance, PTL

\* "System not found" is said only of a system that was gone at some time since
\* the call, or to a call that joined the reload of another (triggerReload).
THEOREM RefusalsAreDue == PoolSpec => []RefusedWhenAbsent
<1>1. PoolInv => RefusedWhenAbsent
  BY DEF PoolInv, RefusalsExplained
<1>2. QED
  BY <1>1, PoolInvariance, PTL

-----------------------------------------------------------------------------
(* mcp-repo: calls and what becomes of them *)

\* What is where: the places of a call tell which tool it is.
LEMMA CallKinds ==
    \A x \in Call :
       /\ x.op \in {"tool", "prepare", "cleanup"} /\ x.on \in Sessions
       /\ x.pending \in SUBSET (1 .. MaxRepoCalls) /\ x.since \in Nat
       /\ x.at \in {"adding", "mkdir", "looking", "joined", "running"} => x.op = "tool"
       /\ x.at \in Removing \cup {"settling"} => x.op = "cleanup"
       /\ x.at = "cloning" => x.op \in {"tool", "prepare"}
       /\ x.at \in Creating \cup {"looking", "joined", "running"} \cup Removing \cup {"settling"} \cup Ended
  BY DEF Call, CallOf, Creating, Removing, Ended

\* Where a call of a tool can be.
PlaceFits(o, place) ==
    \/ place \in Ended
    \/ o = "tool" /\ place \in Creating \cup {"looking", "joined", "running"}
    \/ o = "prepare" /\ place = "cloning"
    \/ o = "cleanup" /\ place \in Removing \cup {"settling"}

\* A call in another place is a call.
LEMMA CallMoved ==
    ASSUME NEW x \in Call, NEW place, PlaceFits(x.op, place), NEW wait \in SUBSET (1 .. MaxRepoCalls)
    PROVE  /\ [x EXCEPT !.at = place] \in Call
           /\ [x EXCEPT !.at = place, !.pending = wait] \in Call
<1>1. CASE x.op = "tool"
  BY <1>1, Zenon DEF Call, CallOf, Creating, Removing, Ended, PlaceFits
<1>2. CASE x.op = "prepare"
  BY <1>2 DEF Call, CallOf, Creating, Removing, Ended, PlaceFits
<1>3. CASE x.op = "cleanup"
  BY <1>3 DEF Call, CallOf, Creating, Removing, Ended, PlaceFits
<1> QED BY <1>1, <1>2, <1>3, CallKinds

\* Calls are a sequence of calls, before and after a step.
LEMMA CallSequence ==
    /\ calls \in Seq(Call) => /\ Len(calls) \in Nat /\ DOMAIN calls = 1 .. Len(calls)
                              /\ \A c \in DOMAIN calls : calls[c] \in Call
    /\ calls' \in Seq(Call) => /\ Len(calls') \in Nat /\ DOMAIN calls' = 1 .. Len(calls')
                               /\ \A c \in DOMAIN calls' : calls'[c] \in Call
  OBVIOUS

\* Call k goes to a place; the rest of it, and all other calls, stay as they are.
CallGoes(k, place) ==
    /\ calls'[k].at = place
    /\ calls'[k].op = calls[k].op /\ calls'[k].on = calls[k].on
    /\ calls'[k].pending = calls[k].pending /\ calls'[k].since = calls[k].since

\* One call moves.
LEMMA MoveOne ==
    ASSUME calls \in Seq(Call), NEW c \in DOMAIN calls, NEW place, PlaceFits(calls[c].op, place),
           calls' = [calls EXCEPT ![c].at = place]
    PROVE  /\ calls' \in Seq(Call) /\ DOMAIN calls' = DOMAIN calls /\ Len(calls') = Len(calls)
           /\ \A k \in DOMAIN calls : k # c => calls'[k] = calls[k]
           /\ CallGoes(c, place)
<1>1. calls[c] \in Call
  BY CallSequence
<1>2. PICK y \in Call : y = [calls[c] EXCEPT !.at = place]
  BY <1>1, CallMoved
<1>3. calls' = [calls EXCEPT ![c] = y]
  BY <1>2
<1>4. calls' \in Seq(Call) /\ DOMAIN calls' = DOMAIN calls /\ Len(calls') = Len(calls)
  BY <1>3
<1>5. calls'[c] = y /\ \A k \in DOMAIN calls : k # c => calls'[k] = calls[k]
  BY <1>3
<1>6. CallGoes(c, place)
  BY <1>1, <1>2, <1>5 DEF CallGoes, Call, CallOf
<1> QED BY <1>4, <1>5, <1>6

\* Those that wait for c.
Sharing(c) == {k \in DOMAIN calls : k = c \/ (calls[k].at = "joined" /\ c \in calls[k].pending)}

\* A creation ends for all that share it.
LEMMA ConcludeShared ==
    ASSUME calls \in Seq(Call), NEW c \in DOMAIN calls, calls[c].at \in Creating, calls[c].op = "tool",
           NEW place \in {"running", "failed"}, calls' = Concluded(c, place)
    PROVE  /\ calls' \in Seq(Call) /\ DOMAIN calls' = DOMAIN calls /\ Len(calls') = Len(calls)
           /\ \A k \in DOMAIN calls \ Sharing(c) : calls'[k] = calls[k]
           /\ \A k \in Sharing(c) : calls[k].op = "tool" /\ CallGoes(k, place)
<1>1. \A k \in DOMAIN calls : calls[k] \in Call
  BY CallSequence
<1>2. \A k \in Sharing(c) : calls[k].op = "tool"
  BY <1>1, CallKinds DEF Sharing
<1>3. \A k \in Sharing(c) : [calls[k] EXCEPT !.at = place] \in Call
  <2> SUFFICES ASSUME NEW k \in Sharing(c) PROVE [calls[k] EXCEPT !.at = place] \in Call
    OBVIOUS
  <2>1. calls[k] \in Call /\ PlaceFits(calls[k].op, place)
    BY <1>1, <1>2 DEF Sharing, PlaceFits, Ended
  <2> QED BY <2>1, CallMoved
<1>4. calls' = [k \in DOMAIN calls |-> IF k \in Sharing(c) THEN [calls[k] EXCEPT !.at = place] ELSE calls[k]]
  BY DEF Concluded, Sharing
<1>5. \A k \in DOMAIN calls : calls'[k] = IF k \in Sharing(c) THEN [calls[k] EXCEPT !.at = place] ELSE calls[k]
  BY <1>4
<1>6. DOMAIN calls' = DOMAIN calls /\ \A k \in DOMAIN calls : calls'[k] \in Call
  BY <1>1, <1>3, <1>4, <1>5
<1>7. calls' \in Seq(Call) /\ Len(calls') = Len(calls)
  BY <1>4, <1>6
<1>8. \A k \in Sharing(c) : CallGoes(k, place)
  <2> SUFFICES ASSUME NEW k \in Sharing(c) PROVE CallGoes(k, place)
    OBVIOUS
  <2>1. k \in DOMAIN calls /\ calls'[k] = [calls[k] EXCEPT !.at = place] /\ calls[k] \in Call
    BY <1>1, <1>5 DEF Sharing
  <2> QED BY <2>1 DEF CallGoes, Call, CallOf
<1> QED BY <1>2, <1>5, <1>6, <1>7, <1>8


-----------------------------------------------------------------------------
\* No more calls than the bound.
CallsBounded == Len(calls) <= MaxRepoCalls

\* What an action does to the calls, one by one: a new one comes behind the
\* others,
NewCall(o, s, place, wait) ==
    /\ DOMAIN calls' = DOMAIN calls \cup {Len(calls) + 1} /\ Len(calls) + 1 \notin DOMAIN calls
    /\ \A k \in DOMAIN calls : calls'[k] = calls[k]
    /\ calls'[Len(calls) + 1] = [at |-> place, op |-> o, on |-> s, pending |-> wait, since |-> origin]

\* one of them goes on,
OnlyGoes(c, place) ==
    /\ DOMAIN calls' = DOMAIN calls
    /\ \A k \in DOMAIN calls : k # c => calls'[k] = calls[k]
    /\ CallGoes(c, place)

\* or goes on to wait,
OnlyWaits(c, place, wait) ==
    /\ DOMAIN calls' = DOMAIN calls
    /\ \A k \in DOMAIN calls : k # c => calls'[k] = calls[k]
    /\ calls'[c].at = place /\ calls'[c].op = calls[c].op /\ calls'[c].on = calls[c].on
    /\ calls'[c].pending = wait

\* or all that share a creation.
ShareGoes(c, place) ==
    /\ DOMAIN calls' = DOMAIN calls
    /\ \A k \in DOMAIN calls \ Sharing(c) : calls'[k] = calls[k]
    /\ \A k \in Sharing(c) : calls[k].op = "tool" /\ CallGoes(k, place)

\* The calls remain calls, and as many as allowed.
RepoCallsOK == calls \in Seq(Call) /\ CallsBounded

\* Creators are calls.
LEMMA CreatorsAreCalls ==
    ASSUME RepoCallsOK, NEW s \in Sessions
    PROVE  /\ Creators(s) \in SUBSET (1 .. MaxRepoCalls)
           /\ CallsOn("tool", s) \subseteq DOMAIN calls
  BY CallSequence, RepoAssumption DEF Creators, CallsOn, RepoCallsOK, CallsBounded

\* A call arrives behind the others.
LEMMA CallComes ==
    ASSUME RepoCallsOK, origin \in Nat, Len(calls) < MaxRepoCalls,
           NEW o \in {"tool", "prepare", "cleanup"}, NEW s \in Sessions, NEW place, PlaceFits(o, place),
           NEW wait \in SUBSET (1 .. MaxRepoCalls), Arriving(o, s, place, wait)
    PROVE  RepoCallsOK' /\ NewCall(o, s, place, wait)
<1>1. PICK y : y = [at |-> place, op |-> o, on |-> s, pending |-> wait, since |-> origin]
  OBVIOUS
<1>2. y \in Call
  <2>1. CASE o = "tool"
    BY <1>1, <2>1, Zenon DEF Call, CallOf, Creating, Removing, Ended, PlaceFits
  <2>2. CASE o = "prepare"
    BY <1>1, <2>2 DEF Call, CallOf, Creating, Removing, Ended, PlaceFits
  <2>3. CASE o = "cleanup"
    BY <1>1, <2>3 DEF Call, CallOf, Creating, Removing, Ended, PlaceFits
  <2> QED BY <2>1, <2>2, <2>3
<1>3. calls' = Append(calls, y)
  BY <1>1 DEF Arriving
<1>4. calls' \in Seq(Call) /\ Len(calls') = Len(calls) + 1
  BY <1>2, <1>3 DEF RepoCallsOK
<1>5. DOMAIN calls' = DOMAIN calls \cup {Len(calls) + 1} /\ Len(calls) + 1 \notin DOMAIN calls
  BY <1>4 DEF RepoCallsOK
<1>6. \A k \in DOMAIN calls : calls'[k] = calls[k]
  BY <1>3 DEF RepoCallsOK
<1>7. calls'[Len(calls) + 1] = y
  BY <1>3 DEF RepoCallsOK
<1>8. CallsBounded'
  BY <1>4, RepoAssumption DEF CallsBounded, RepoCallsOK
<1>9. RepoCallsOK'
  BY <1>4, <1>8 DEF RepoCallsOK
<1>10. calls'[Len(calls) + 1] = [at |-> place, op |-> o, on |-> s, pending |-> wait, since |-> origin]
  BY <1>1, <1>7
<1> QED BY <1>5, <1>6, <1>9, <1>10 DEF NewCall

\* A tool comes, and looks, shares a creation or starts one.
LEMMA ToolArrivesDoes ==
    ASSUME RepoCallsOK, origin \in Nat, NEW s \in Sessions, ToolArrives(s)
    PROVE  /\ RepoCallsOK'
           /\ IF s \in worktrees THEN NewCall("tool", s, "looking", {})
              ELSE NewCall("tool", s, Joined(s), Creators(s))
<1>1. CASE s \in worktrees
  <2>1. Len(calls) < MaxRepoCalls /\ Arriving("tool", s, "looking", {}) /\ PlaceFits("tool", "looking")
    BY <1>1 DEF ToolArrives, PlaceFits
  <2> QED BY <1>1, <2>1, CallComes
<1>2. CASE s \notin worktrees
  <2>1. Len(calls) < MaxRepoCalls /\ Arriving("tool", s, Joined(s), Creators(s)) /\ PlaceFits("tool", Joined(s))
    BY <1>2 DEF ToolArrives, PlaceFits, Joined, Joins, Creating
  <2>2. Creators(s) \in SUBSET (1 .. MaxRepoCalls)
    BY CreatorsAreCalls
  <2> QED BY <1>2, <2>1, <2>2, CallComes
<1> QED BY <1>1, <1>2

\* prepare_repo comes, and waits for the clone.
LEMMA PrepareArrivesDoes ==
    ASSUME RepoCallsOK, origin \in Nat, NEW s \in Sessions, PrepareArrives(s)
    PROVE  RepoCallsOK' /\ NewCall("prepare", s, "cloning", {})
<1>1. Len(calls) < MaxRepoCalls /\ Arriving("prepare", s, "cloning", {}) /\ PlaceFits("prepare", "cloning")
  BY DEF PrepareArrives, PlaceFits
<1> QED BY <1>1, CallComes

\* repo_cleanup comes, and waits for creations or removes at once.
LEMMA CleanupArrivesDoes ==
    ASSUME RepoCallsOK, origin \in Nat, NEW s \in Sessions, CleanupArrives(s)
    PROVE  /\ RepoCallsOK'
           /\ \/ Creators(s) # {} /\ NewCall("cleanup", s, "settling", Creators(s)) /\ overlapped' = overlapped
              \/ Creators(s) = {} /\ NewCall("cleanup", s, FirstRemoval(s), {}) /\ overlapped' = overlapped
<1>1. CASE Creators(s) # {}
  <2>1. /\ Len(calls) < MaxRepoCalls /\ Arriving("cleanup", s, "settling", Creators(s))
        /\ PlaceFits("cleanup", "settling") /\ overlapped' = overlapped
    BY <1>1 DEF CleanupArrives, PlaceFits, Awaited
  <2>2. Creators(s) \in SUBSET (1 .. MaxRepoCalls)
    BY CreatorsAreCalls
  <2> QED BY <1>1, <2>1, <2>2, CallComes
<1>2. CASE Creators(s) = {}
  <2>1. /\ Len(calls) < MaxRepoCalls /\ Arriving("cleanup", s, FirstRemoval(s), {})
        /\ PlaceFits("cleanup", FirstRemoval(s)) /\ overlapped' = overlapped
    BY <1>2 DEF CleanupArrives, PlaceFits, Awaited, FirstRemoval, Removing, Overlaps
  <2> QED BY <1>2, <2>1, CallComes
<1> QED BY <1>1, <1>2

\* A tool that has looked runs, or shares a creation, or starts one.
LEMMA LookDoes ==
    ASSUME RepoCallsOK, NEW c \in DOMAIN calls, Look(c)
    PROVE  /\ RepoCallsOK' /\ calls[c].op = "tool"
           /\ \/ Present(calls[c].on) /\ OnlyGoes(c, "running")
              \/ ~Present(calls[c].on) /\ OnlyWaits(c, Joined(calls[c].on), Creators(calls[c].on))
<1>1. calls[c].op = "tool" /\ calls[c].on \in Sessions
  BY CallSequence, CallKinds DEF Look, RepoCallsOK
<1>2. CASE Present(calls[c].on) /\ calls' = [calls EXCEPT ![c].at = "running"]
  <2>1. PlaceFits(calls[c].op, "running")
    BY <1>1 DEF PlaceFits
  <2> QED BY <1>1, <1>2, <2>1, MoveOne DEF RepoCallsOK, CallsBounded, OnlyGoes
<1>3. CASE /\ ~Present(calls[c].on)
           /\ calls' = [calls EXCEPT ![c] = [@ EXCEPT !.at = Joined(calls[c].on), !.pending = Joins(calls[c].on)]]
  <2>1. PlaceFits(calls[c].op, Joined(calls[c].on))
    BY <1>1 DEF PlaceFits, Joined, Creating
  <2>2. Joins(calls[c].on) \in SUBSET (1 .. MaxRepoCalls)
    BY <1>1, CreatorsAreCalls DEF Joins
  <2>3. calls \in Seq(Call)
    BY DEF RepoCallsOK
  <2>4. PICK wait \in SUBSET (1 .. MaxRepoCalls) : wait = Joins(calls[c].on)
    BY <2>2
  <2>5. PICK place : place = Joined(calls[c].on)
    OBVIOUS
  <2>6. PICK y \in Call : y = [calls[c] EXCEPT !.at = place, !.pending = wait]
    BY <2>1, <2>5, CallMoved, CallSequence DEF RepoCallsOK
  <2>7. calls' = [calls EXCEPT ![c] = y]
    BY <1>3, <2>4, <2>5, <2>6
  <2>8. /\ calls' \in Seq(Call) /\ DOMAIN calls' = DOMAIN calls /\ Len(calls') = Len(calls)
        /\ calls'[c] = y /\ \A k \in DOMAIN calls : k # c => calls'[k] = calls[k]
    BY <2>3, <2>7
  <2>9. y.at = place /\ y.op = calls[c].op /\ y.on = calls[c].on /\ y.pending = wait
    BY <2>3, <2>6, CallSequence DEF Call, CallOf
  <2>10. RepoCallsOK' /\ OnlyWaits(c, place, wait)
    BY <2>8, <2>9 DEF RepoCallsOK, CallsBounded, OnlyWaits
  <2> QED BY <1>1, <1>3, <2>4, <2>5, <2>10 DEF Joins
<1> QED BY <1>2, <1>3 DEF Look

\* The other steps of single calls.
LEMMA MovesDo ==
    ASSUME RepoCallsOK, NEW c \in DOMAIN calls
    PROVE  /\ CommandEnds(c) => RepoCallsOK' /\ OnlyGoes(c, "done") /\ calls[c].op = "tool"
           /\ Settled(c) => RepoCallsOK' /\ OnlyGoes(c, FirstRemoval(calls[c].on)) /\ calls[c].op = "cleanup"
           /\ Unlink(c) => RepoCallsOK' /\ OnlyGoes(c, "emptying") /\ calls[c].op = "cleanup"
           /\ Empty(c) => RepoCallsOK' /\ OnlyGoes(c, "sweeping") /\ calls[c].op = "cleanup"
           /\ Sweep(c) => RepoCallsOK' /\ OnlyGoes(c, "done") /\ calls[c].op = "cleanup"
<1>1. calls[c] \in Call
  BY CallSequence DEF RepoCallsOK
<1>2. \A place : PlaceFits(calls[c].op, place) /\ calls' = [calls EXCEPT ![c].at = place]
                   => RepoCallsOK' /\ OnlyGoes(c, place)
  BY MoveOne DEF RepoCallsOK, CallsBounded, OnlyGoes
<1>3. CASE CommandEnds(c)
  BY <1>1, <1>2, <1>3, CallKinds DEF CommandEnds, PlaceFits, Ended, Settled, Unlink, Empty, Sweep
<1>4. CASE Settled(c)
  BY <1>1, <1>2, <1>4, CallKinds DEF CommandEnds, PlaceFits, Removing, FirstRemoval, Settled, Unlink, Empty, Sweep
<1>5. CASE Unlink(c)
  BY <1>1, <1>2, <1>5, CallKinds DEF CommandEnds, PlaceFits, Removing, Settled, Unlink, Empty, Sweep
<1>6. CASE Empty(c)
  BY <1>1, <1>2, <1>6, CallKinds DEF CommandEnds, PlaceFits, Removing, Settled, Unlink, Empty, Sweep
<1>7. CASE Sweep(c)
  BY <1>1, <1>2, <1>7, CallKinds DEF CommandEnds, PlaceFits, Ended, Removing, Settled, Unlink, Empty, Sweep
<1> QED BY <1>3, <1>4, <1>5, <1>6, <1>7

\* The steps of a creation.
LEMMA CreationDoes ==
    ASSUME RepoCallsOK, NEW c \in DOMAIN calls
    PROVE  /\ WorktreeAdd(c) => /\ RepoCallsOK' /\ calls[c].op = "tool"
                                /\ IF Addable(calls[c].on) THEN OnlyGoes(c, "mkdir") ELSE ShareGoes(c, "failed")
           /\ MakeTmp(c) => RepoCallsOK' /\ calls[c].op = "tool" /\ ShareGoes(c, "running")
           /\ MakeTmpFails(c) => RepoCallsOK' /\ calls[c].op = "tool" /\ ShareGoes(c, "failed")
<1>1. calls[c] \in Call
  BY CallSequence DEF RepoCallsOK
<1>2. \A place : PlaceFits(calls[c].op, place) /\ calls' = [calls EXCEPT ![c].at = place]
                   => RepoCallsOK' /\ OnlyGoes(c, place)
  BY MoveOne DEF RepoCallsOK, CallsBounded, OnlyGoes
<1>3. \A place \in {"running", "failed"} :
          calls[c].at \in Creating /\ calls[c].op = "tool" /\ calls' = Concluded(c, place)
             => RepoCallsOK' /\ ShareGoes(c, place)
  BY ConcludeShared DEF RepoCallsOK, CallsBounded, ShareGoes
<1>4. ASSUME WorktreeAdd(c)
      PROVE  /\ RepoCallsOK' /\ calls[c].op = "tool"
             /\ IF Addable(calls[c].on) THEN OnlyGoes(c, "mkdir") ELSE ShareGoes(c, "failed")
  <2>1. calls[c].at \in Creating /\ calls[c].op = "tool" /\ PlaceFits(calls[c].op, "mkdir")
    BY <1>1, <1>4, CallKinds DEF WorktreeAdd, Creating, PlaceFits
  <2>2. CASE Addable(calls[c].on)
    BY <1>2, <1>4, <2>1, <2>2 DEF WorktreeAdd
  <2>3. CASE ~Addable(calls[c].on)
    BY <1>3, <1>4, <2>1, <2>3 DEF WorktreeAdd
  <2> QED BY <2>1, <2>2, <2>3
<1>5. MakeTmp(c) => RepoCallsOK' /\ calls[c].op = "tool" /\ ShareGoes(c, "running")
  BY <1>1, <1>3, CallKinds DEF MakeTmp, Creating
<1>6. MakeTmpFails(c) => RepoCallsOK' /\ calls[c].op = "tool" /\ ShareGoes(c, "failed")
  BY <1>1, <1>3, CallKinds DEF MakeTmpFails, Creating
<1> QED BY <1>4, <1>5, <1>6

\* The clone is there: the creations go on, and prepare_repo is done.
LEMMA CloneEndsDoes ==
    ASSUME RepoCallsOK, CloneEnds
    PROVE  /\ RepoCallsOK' /\ DOMAIN calls' = DOMAIN calls
           /\ \A k \in DOMAIN calls :
                 IF calls[k].at = "cloning"
                 THEN CallGoes(k, IF calls[k].op = "tool" THEN "adding" ELSE "done")
                 ELSE calls'[k] = calls[k]
<1>1. \A k \in DOMAIN calls : calls[k] \in Call
  BY CallSequence DEF RepoCallsOK
<1>2. calls' = [c \in DOMAIN calls |-> AfterClone(calls[c])]
  BY DEF CloneEnds
<1>3. \A k \in DOMAIN calls : AfterClone(calls[k]) \in Call
  <2> SUFFICES ASSUME NEW k \in DOMAIN calls PROVE AfterClone(calls[k]) \in Call
    OBVIOUS
  <2>1. CASE calls[k].at # "cloning"
    BY <1>1, <2>1 DEF AfterClone
  <2>2. CASE calls[k].at = "cloning"
    <3>1. PICK place : place = IF calls[k].op = "tool" THEN "adding" ELSE "done"
      OBVIOUS
    <3>2. PlaceFits(calls[k].op, place) /\ calls[k] \in Call
      BY <1>1, <3>1 DEF PlaceFits, Creating, Ended
    <3>3. [calls[k] EXCEPT !.at = place] \in Call
      BY <3>2, CallMoved
    <3> QED BY <2>2, <3>1, <3>3 DEF AfterClone
  <2> QED BY <2>1, <2>2
<1>4. DOMAIN calls' = DOMAIN calls /\ \A k \in DOMAIN calls : calls'[k] = AfterClone(calls[k])
  BY <1>2
<1>5. calls' \in Seq(Call) /\ Len(calls') = Len(calls)
  BY <1>2, <1>3, <1>4 DEF RepoCallsOK
<1>6. \A k \in DOMAIN calls :
         IF calls[k].at = "cloning"
         THEN CallGoes(k, IF calls[k].op = "tool" THEN "adding" ELSE "done")
         ELSE calls'[k] = calls[k]
  <2> SUFFICES ASSUME NEW k \in DOMAIN calls, calls[k].at = "cloning"
               PROVE  CallGoes(k, IF calls[k].op = "tool" THEN "adding" ELSE "done")
    BY <1>4 DEF AfterClone
  <2>1. calls[k] \in Call /\ calls'[k] = [calls[k] EXCEPT !.at = IF calls[k].op = "tool" THEN "adding" ELSE "done"]
    BY <1>1, <1>4 DEF AfterClone
  <2> QED BY <2>1 DEF CallGoes, Call, CallOf
<1> QED BY <1>4, <1>5, <1>6 DEF RepoCallsOK, CallsBounded

\* Calls that fail do nothing else.
LEMMA FailuresDo ==
    ASSUME RepoCallsOK, NEW lost \in SUBSET DOMAIN calls,
           calls' = [c \in DOMAIN calls |-> IF c \in lost THEN [calls[c] EXCEPT !.at = "failed"] ELSE calls[c]]
    PROVE  /\ RepoCallsOK' /\ DOMAIN calls' = DOMAIN calls
           /\ \A k \in lost : CallGoes(k, "failed")
           /\ \A k \in DOMAIN calls \ lost : calls'[k] = calls[k]
<1>1. \A k \in DOMAIN calls : calls[k] \in Call
  BY CallSequence DEF RepoCallsOK
<1>2. \A k \in DOMAIN calls : [calls[k] EXCEPT !.at = "failed"] \in Call
  <2> SUFFICES ASSUME NEW k \in DOMAIN calls PROVE [calls[k] EXCEPT !.at = "failed"] \in Call
    OBVIOUS
  <2>1. calls[k] \in Call /\ PlaceFits(calls[k].op, "failed")
    BY <1>1 DEF PlaceFits, Ended
  <2> QED BY <2>1, CallMoved
<1>3. DOMAIN calls' = DOMAIN calls
      /\ \A k \in DOMAIN calls : calls'[k] = IF k \in lost THEN [calls[k] EXCEPT !.at = "failed"] ELSE calls[k]
  OBVIOUS
<1>4. calls' \in Seq(Call) /\ Len(calls') = Len(calls)
  BY <1>1, <1>2, <1>3 DEF RepoCallsOK
<1>5. \A k \in lost : CallGoes(k, "failed")
  <2> SUFFICES ASSUME NEW k \in lost PROVE CallGoes(k, "failed")
    OBVIOUS
  <2>1. calls[k] \in Call /\ calls'[k] = [calls[k] EXCEPT !.at = "failed"]
    BY <1>1, <1>3
  <2> QED BY <2>1 DEF CallGoes, Call, CallOf
<1> QED BY <1>3, <1>4, <1>5 DEF RepoCallsOK, CallsBounded

\* The clone fails, and with it what waits for it.
LEMMA CloneFailsDoes ==
    ASSUME RepoCallsOK, CloneFails
    PROVE  /\ RepoCallsOK' /\ DOMAIN calls' = DOMAIN calls
           /\ \A k \in DOMAIN calls :
                 \/ calls[k].at # "cloning" /\ calls'[k] = calls[k]
                 \/ calls[k].at \in {"cloning", "joined"} /\ CallGoes(k, "failed")
<1>1. PICK cut : cut = {c \in DOMAIN calls : calls[c].at = "cloning"}
  OBVIOUS
<1>2. PICK lost \in SUBSET DOMAIN calls :
         lost = {c \in DOMAIN calls : c \in cut \/ (calls[c].at = "joined" /\ calls[c].pending \subseteq cut)}
  OBVIOUS
<1>3. calls' = [c \in DOMAIN calls |->
                     IF c \in cut \/ (calls[c].at = "joined" /\ calls[c].pending \subseteq cut)
                     THEN [calls[c] EXCEPT !.at = "failed"] ELSE calls[c]]
  BY <1>1 DEF CloneFails, FailCloning
<1>4. calls' = [c \in DOMAIN calls |-> IF c \in lost THEN [calls[c] EXCEPT !.at = "failed"] ELSE calls[c]]
  BY <1>2, <1>3
<1>5. /\ RepoCallsOK' /\ DOMAIN calls' = DOMAIN calls
      /\ \A k \in lost : CallGoes(k, "failed")
      /\ \A k \in DOMAIN calls \ lost : calls'[k] = calls[k]
  BY <1>4, FailuresDo
<1> QED BY <1>1, <1>2, <1>5

\* After a restart whatever had not ended has failed.
LEMMA RestartDoes ==
    ASSUME RepoCallsOK, Restart
    PROVE  /\ RepoCallsOK' /\ DOMAIN calls' = DOMAIN calls
           /\ \A k \in DOMAIN calls :
                 IF calls[k].at \in Ended THEN calls'[k] = calls[k] ELSE CallGoes(k, "failed")
<1>1. PICK lost \in SUBSET DOMAIN calls : lost = {c \in DOMAIN calls : calls[c].at \notin Ended}
  OBVIOUS
<1>2. calls' = [c \in DOMAIN calls |-> IF calls[c].at \in Ended THEN calls[c] ELSE [calls[c] EXCEPT !.at = "failed"]]
  BY DEF Restart
<1>3. calls' = [c \in DOMAIN calls |-> IF c \in lost THEN [calls[c] EXCEPT !.at = "failed"] ELSE calls[c]]
  BY <1>1, <1>2
<1>4. /\ RepoCallsOK' /\ DOMAIN calls' = DOMAIN calls
      /\ \A k \in lost : CallGoes(k, "failed")
      /\ \A k \in DOMAIN calls \ lost : calls'[k] = calls[k]
  BY <1>3, FailuresDo
<1> QED BY <1>1, <1>4

-----------------------------------------------------------------------------
(* Types *)

RepoOK == RepoTypeOK /\ CallsBounded

\* At the start.
LEMMA RepoOKInit == RepoInit => RepoOK
<1> SUFFICES ASSUME RepoInit PROVE RepoOK
  OBVIOUS
<1>1. calls \in Seq(Call) /\ Len(calls) = 0
  BY DEF RepoInit
<1>2. repoSpent \in [DOMAIN RepoBounds -> Nat]
  BY DEF RepoInit
<1>3. disk \in [Sessions -> {"none", "full", "husk"}] /\ recovery \in [Sessions -> {"no", "todo", "seen"}]
  BY DEF RepoInit
<1>4. staleAt \in {<<"idle">>} \cup ({"unlinking", "emptying"} \X Sessions)
  BY DEF RepoInit
<1>5. /\ origin \in Nat /\ bare \in {"none", "broken", "ready"} /\ branch \in Nat /\ cloning \in BOOLEAN
      /\ registered \subseteq Sessions /\ worktrees \subseteq Sessions /\ old \subseteq worktrees
  BY DEF RepoInit
<1>6. /\ staleTodo \subseteq Sessions /\ overlapped \subseteq Sessions /\ halfMade \subseteq Sessions
      /\ swept \subseteq DOMAIN calls /\ touched \subseteq DOMAIN calls
  BY DEF RepoInit
<1>7. CallsBounded
  BY <1>1, RepoAssumption DEF CallsBounded
<1> QED BY <1>1, <1>2, <1>3, <1>4, <1>5, <1>6, <1>7 DEF RepoOK, RepoTypeOK

\* Spending keeps the type of the account.
LEMMA SpendRepoType ==
    ASSUME NEW w \in {"pushes", "failures", "restarts", "ttls"}, repoSpent \in [DOMAIN RepoBounds -> Nat], SpendRepo(w)
    PROVE  repoSpent' \in [DOMAIN RepoBounds -> Nat]
  BY DEF SpendRepo, RepoBounds

\* What is on the disk, in git's list and in the account after a removal.
LEMMA GitRemoveType ==
    ASSUME RepoOK, NEW s \in Sessions, GitRemove(s)
    PROVE  /\ disk' \in [Sessions -> {"none", "full", "husk"}] /\ registered' \subseteq Sessions
           /\ swept' \subseteq DOMAIN calls
           /\ repoSpent' \in [DOMAIN RepoBounds -> Nat]
<1>1. CASE SpendRepo("failures") /\ UNCHANGED <<registered, disk, swept>>
  BY <1>1, SpendRepoType DEF RepoOK, RepoTypeOK
<1>2. CASE UNCHANGED repoSpent
  BY <1>2 DEF RepoOK, RepoTypeOK, GitRemove, Sweeps, Users, CallsOn
<1> QED BY <1>1, <1>2 DEF GitRemove

\* The types of the variables other than the calls.
OtherTypes ==
    /\ origin \in Nat /\ bare \in {"none", "broken", "ready"} /\ branch \in Nat
    /\ registered \subseteq Sessions /\ disk \in [Sessions -> {"none", "full", "husk"}]
    /\ cloning \in BOOLEAN /\ worktrees \subseteq Sessions /\ old \subseteq worktrees
    /\ staleAt \in {<<"idle">>} \cup ({"unlinking", "emptying"} \X Sessions)
    /\ staleTodo \subseteq Sessions
    /\ recovery \in [Sessions -> {"no", "todo", "seen"}]
    /\ repoSpent \in [DOMAIN RepoBounds -> Nat]
    /\ overlapped \subseteq Sessions /\ halfMade \subseteq Sessions

\* The histories of calls name calls.
HistoryTypes == swept \subseteq DOMAIN calls /\ touched \subseteq DOMAIN calls

\* The types in three parts.
LEMMA RepoOKParts ==
    /\ RepoOK <=> RepoCallsOK /\ OtherTypes /\ HistoryTypes
    /\ RepoOK' <=> RepoCallsOK' /\ OtherTypes' /\ HistoryTypes'
<1>1. RepoOK <=> RepoCallsOK /\ OtherTypes /\ HistoryTypes
  BY DEF RepoOK, RepoTypeOK, RepoCallsOK, OtherTypes, HistoryTypes
<1>2. RepoOK' <=> RepoCallsOK' /\ OtherTypes' /\ HistoryTypes'
  BY DEF RepoOK, RepoTypeOK, RepoCallsOK, OtherTypes, HistoryTypes
<1> QED BY <1>1, <1>2

\* The arguments of calls and of the stale clean-up are sessions.
LEMMA OnSessions ==
    ASSUME RepoOK
    PROVE  /\ \A c \in DOMAIN calls : calls[c] \in Call /\ calls[c].on \in Sessions
           /\ staleAt # <<"idle">> => staleAt[1] \in {"unlinking", "emptying"} /\ staleAt[2] \in Sessions
                                      /\ staleAt = <<staleAt[1], staleAt[2]>>
           /\ staleAt = <<"idle">> => staleAt[1] = "idle"
<1>1. \A c \in DOMAIN calls : calls[c] \in Call
  BY RepoOKParts, CallSequence DEF RepoCallsOK
<1> QED BY <1>1, CallKinds, RepoOKParts DEF OtherTypes

\* Every step keeps the types.
LEMMA RepoOKStep == RepoOK /\ [RepoNext]_repoVars => RepoOK'
<1> SUFFICES ASSUME RepoOK, [RepoNext]_repoVars PROVE RepoOK'
  OBVIOUS
<1>1. RepoCallsOK /\ OtherTypes /\ HistoryTypes /\ origin \in Nat
  BY RepoOKParts DEF OtherTypes
<1>2. \A s \in Sessions : CallsOn("cleanup", s) \subseteq DOMAIN calls /\ Users(s) \subseteq DOMAIN calls
  BY DEF CallsOn, Users
<1> USE DEF gitVars, mapVars, staleVars, repoHistory
<1>3. ASSUME NEW s \in Sessions, ToolArrives(s) PROVE RepoOK'
  <2>1. RepoCallsOK' /\ DOMAIN calls \subseteq DOMAIN calls'
    BY <1>1, <1>3, ToolArrivesDoes DEF NewCall
  <2>2. OtherTypes'
    BY <1>1, <1>3 DEF OtherTypes, ToolArrives, JoinOrCreate
  <2>3. HistoryTypes'
    BY <1>1, <1>2, <1>3, <2>1 DEF HistoryTypes, ToolArrives, JoinOrCreate
  <2> QED BY <2>1, <2>2, <2>3, RepoOKParts
<1>4. ASSUME NEW s \in Sessions, PrepareArrives(s) PROVE RepoOK'
  <2>1. RepoCallsOK' /\ DOMAIN calls \subseteq DOMAIN calls'
    BY <1>1, <1>4, PrepareArrivesDoes DEF NewCall
  <2>2. OtherTypes'
    BY <1>1, <1>4 DEF OtherTypes, PrepareArrives
  <2>3. HistoryTypes'
    BY <1>1, <1>2, <1>4, <2>1 DEF HistoryTypes, PrepareArrives
  <2> QED BY <2>1, <2>2, <2>3, RepoOKParts
<1>5. ASSUME NEW s \in Sessions, CleanupArrives(s) PROVE RepoOK'
  <2>1. RepoCallsOK' /\ DOMAIN calls \subseteq DOMAIN calls'
    BY <1>1, <1>5, CleanupArrivesDoes DEF NewCall
  <2>2. OtherTypes'
    BY <1>1, <1>5 DEF OtherTypes, CleanupArrives, Overlaps
  <2>3. HistoryTypes'
    BY <1>1, <1>2, <1>5, <2>1 DEF HistoryTypes, CleanupArrives
  <2> QED BY <2>1, <2>2, <2>3, RepoOKParts
<1>6. ASSUME NEW c \in DOMAIN calls, Look(c) PROVE RepoOK'
  <2>1. RepoCallsOK' /\ DOMAIN calls \subseteq DOMAIN calls' /\ calls[c].on \in Sessions
    BY <1>1, <1>6, LookDoes, OnSessions DEF OnlyGoes, OnlyWaits
  <2>2. OtherTypes'
    <3>1. UNCHANGED <<mapVars, staleVars, recovery, repoSpent>> /\ UNCHANGED <<gitVars, halfMade>>
      BY <1>6 DEF Look
    <3>2. cloning' \in BOOLEAN /\ overlapped' \subseteq Sessions
      <4>1. PICK s \in Sessions : s = calls[c].on
        BY <2>1
      <4>2. \/ cloning' = cloning /\ overlapped' = overlapped
            \/ JoinOrCreate(s)
        BY <1>6, <4>1 DEF Look
      <4>3. cloning \in BOOLEAN /\ overlapped \subseteq Sessions
        BY <1>1 DEF OtherTypes
      <4> QED BY <4>2, <4>3 DEF JoinOrCreate
    <3> QED BY <1>1, <3>1, <3>2 DEF OtherTypes
  <2>3. HistoryTypes'
    <3>1. swept' = swept /\ touched' \subseteq touched \cup CallsOn("cleanup", calls[c].on)
      BY <1>6 DEF Look, JoinOrCreate
    <3> QED BY <1>1, <1>2, <2>1, <3>1 DEF HistoryTypes
  <2> QED BY <2>1, <2>2, <2>3, RepoOKParts
<1>7. ASSUME NEW c \in DOMAIN calls, CommandEnds(c) \/ Settled(c) PROVE RepoOK'
  <2>1. RepoCallsOK' /\ DOMAIN calls \subseteq DOMAIN calls' /\ calls[c].on \in Sessions
    BY <1>1, <1>7, MovesDo, OnSessions DEF OnlyGoes
  <2>2. OtherTypes'
    BY <1>1, <1>7, <2>1 DEF OtherTypes, CommandEnds, Settled, Overlaps
  <2>3. HistoryTypes'
    BY <1>1, <1>7, <2>1 DEF HistoryTypes, CommandEnds, Settled
  <2> QED BY <2>1, <2>2, <2>3, RepoOKParts
<1>8. ASSUME NEW c \in DOMAIN calls, Unlink(c) PROVE RepoOK'
  <2>1. RepoCallsOK' /\ DOMAIN calls \subseteq DOMAIN calls' /\ calls[c].on \in Sessions
    BY <1>1, <1>8, MovesDo, OnSessions DEF OnlyGoes
  <2>2. /\ disk' \in [Sessions -> {"none", "full", "husk"}] /\ registered' \subseteq Sessions
        /\ swept' \subseteq DOMAIN calls
        /\ repoSpent' \in [DOMAIN RepoBounds -> Nat]
    BY <1>8, <2>1, GitRemoveType DEF Unlink
  <2>3. OtherTypes'
    BY <1>1, <1>8, <2>2 DEF OtherTypes, Unlink
  <2>4. HistoryTypes'
    BY <1>1, <1>8, <2>1, <2>2 DEF HistoryTypes, Unlink
  <2> QED BY <2>1, <2>3, <2>4, RepoOKParts
<1>9. ASSUME NEW c \in DOMAIN calls, Empty(c) \/ Sweep(c) PROVE RepoOK'
  <2>1. RepoCallsOK' /\ DOMAIN calls \subseteq DOMAIN calls' /\ calls[c].on \in Sessions
    BY <1>1, <1>9, MovesDo, OnSessions DEF OnlyGoes
  <2>2. OtherTypes'
    BY <1>1, <1>9, <2>1 DEF OtherTypes, Empty, Sweep, EmptyAndDelete
  <2>3. HistoryTypes'
    BY <1>1, <1>2, <1>9, <2>1 DEF HistoryTypes, Empty, Sweep, EmptyAndDelete, Sweeps
  <2> QED BY <2>1, <2>2, <2>3, RepoOKParts
<1>10. ASSUME NEW c \in DOMAIN calls, WorktreeAdd(c) \/ MakeTmp(c) PROVE RepoOK'
  <2>1. RepoCallsOK' /\ DOMAIN calls \subseteq DOMAIN calls' /\ calls[c].on \in Sessions
    BY <1>1, <1>10, CreationDoes, OnSessions DEF OnlyGoes, ShareGoes
  <2>2. OtherTypes'
    BY <1>1, <1>10, <2>1 DEF OtherTypes, WorktreeAdd, MakeTmp, EnteredIn
  <2>3. HistoryTypes'
    BY <1>1, <1>10, <2>1 DEF HistoryTypes, WorktreeAdd, MakeTmp
  <2> QED BY <2>1, <2>2, <2>3, RepoOKParts
<1>11. ASSUME NEW c \in DOMAIN calls, MakeTmpFails(c) PROVE RepoOK'
  <2>1. RepoCallsOK' /\ DOMAIN calls \subseteq DOMAIN calls' /\ calls[c].on \in Sessions
    BY <1>1, <1>11, CreationDoes, OnSessions DEF ShareGoes
  <2>2. repoSpent' \in [DOMAIN RepoBounds -> Nat]
    BY <1>1, <1>11, SpendRepoType DEF MakeTmpFails, OtherTypes
  <2>3. OtherTypes'
    BY <1>1, <1>11, <2>1, <2>2 DEF OtherTypes, MakeTmpFails
  <2>4. HistoryTypes'
    BY <1>1, <1>11, <2>1 DEF HistoryTypes, MakeTmpFails
  <2> QED BY <2>1, <2>3, <2>4, RepoOKParts
<1>12. ASSUME CloneEnds PROVE RepoOK'
  <2>1. RepoCallsOK' /\ DOMAIN calls' = DOMAIN calls
    BY <1>1, <1>12, CloneEndsDoes
  <2>2. OtherTypes'
    BY <1>1, <1>12 DEF OtherTypes, CloneEnds
  <2>3. HistoryTypes'
    BY <1>1, <1>12, <2>1 DEF HistoryTypes, CloneEnds
  <2> QED BY <2>1, <2>2, <2>3, RepoOKParts
<1>13. ASSUME CloneFails PROVE RepoOK'
  <2>1. RepoCallsOK' /\ DOMAIN calls' = DOMAIN calls
    BY <1>1, <1>13, CloneFailsDoes
  <2>2. repoSpent' \in [DOMAIN RepoBounds -> Nat]
    BY <1>1, <1>13, SpendRepoType DEF CloneFails, OtherTypes
  <2>3. OtherTypes'
    BY <1>1, <1>13, <2>2 DEF OtherTypes, CloneFails
  <2>4. HistoryTypes'
    BY <1>1, <1>13, <2>1 DEF HistoryTypes, CloneFails
  <2> QED BY <2>1, <2>3, <2>4, RepoOKParts
<1>14. ASSUME Restart PROVE RepoOK'
  <2>1. RepoCallsOK' /\ DOMAIN calls' = DOMAIN calls
    BY <1>1, <1>14, RestartDoes
  <2>2. repoSpent' \in [DOMAIN RepoBounds -> Nat]
    BY <1>1, <1>14, SpendRepoType DEF Restart, OtherTypes
  <2>3. OtherTypes'
    BY <1>1, <1>14, <2>2 DEF OtherTypes, Restart
  <2>4. HistoryTypes'
    BY <1>1, <1>14, <2>1 DEF HistoryTypes, Restart
  <2> QED BY <2>1, <2>3, <2>4, RepoOKParts
<1>15. ASSUME StaleUnlinks PROVE RepoOK'
  <2>1. staleAt[2] \in Sessions /\ staleAt' = <<"emptying", staleAt[2]>>
    BY <1>15, OnSessions DEF StaleUnlinks
  <2>2. /\ disk' \in [Sessions -> {"none", "full", "husk"}] /\ registered' \subseteq Sessions
        /\ swept' \subseteq DOMAIN calls
        /\ repoSpent' \in [DOMAIN RepoBounds -> Nat]
    BY <1>15, <2>1, GitRemoveType DEF StaleUnlinks
  <2>3. OtherTypes'
    BY <1>1, <1>15, <2>1, <2>2 DEF OtherTypes, StaleUnlinks
  <2>4. RepoCallsOK' /\ HistoryTypes'
    BY <1>1, <1>15, <2>2 DEF RepoCallsOK, CallsBounded, HistoryTypes, StaleUnlinks
  <2> QED BY <2>3, <2>4, RepoOKParts
<1>16. ASSUME StaleEmpties PROVE RepoOK'
  <2>1. staleAt[2] \in Sessions
    BY <1>16, OnSessions DEF StaleEmpties
  <2>2. /\ staleAt' \in {<<"idle">>} \cup ({"unlinking", "emptying"} \X Sessions)
        /\ staleTodo' \subseteq Sessions /\ overlapped' \subseteq Sessions
    BY <1>1, <1>16 DEF OtherTypes, StaleEmpties, Overlaps
  <2>3. OtherTypes'
    BY <1>1, <1>16, <2>1, <2>2 DEF OtherTypes, StaleEmpties, EmptyAndDelete
  <2>4. RepoCallsOK' /\ HistoryTypes'
    BY <1>1, <1>2, <1>16, <2>1 DEF RepoCallsOK, CallsBounded, HistoryTypes, StaleEmpties, EmptyAndDelete, Sweeps
  <2> QED BY <2>3, <2>4, RepoOKParts
<1>17. ASSUME NEW s \in Sessions, StaleStarts(s) \/ RecoverStat(s) \/ RecoverEnter(s) PROVE RepoOK'
  <2>1. OtherTypes'
    BY <1>1, <1>17 DEF OtherTypes, StaleStarts, RecoverStat, RecoverEnter, Overlaps
  <2>2. RepoCallsOK' /\ HistoryTypes'
    BY <1>1, <1>17 DEF RepoCallsOK, CallsBounded, HistoryTypes, StaleStarts, RecoverStat, RecoverEnter
  <2> QED BY <2>1, <2>2, RepoOKParts
<1>18. ASSUME TtlPasses \/ PushToOrigin PROVE RepoOK'
  <2>1. repoSpent' \in [DOMAIN RepoBounds -> Nat]
    BY <1>1, <1>18, SpendRepoType DEF TtlPasses, PushToOrigin, OtherTypes
  <2>2. OtherTypes'
    BY <1>1, <1>18, <2>1 DEF OtherTypes, TtlPasses, PushToOrigin
  <2>3. RepoCallsOK' /\ HistoryTypes'
    BY <1>1, <1>18 DEF RepoCallsOK, CallsBounded, HistoryTypes, TtlPasses, PushToOrigin
  <2> QED BY <2>2, <2>3, RepoOKParts
<1>19. ASSUME UNCHANGED repoVars PROVE RepoOK'
  BY <1>1, <1>19, RepoOKParts DEF repoVars, OtherTypes, RepoCallsOK, CallsBounded, HistoryTypes
<1> QED BY <1>3, <1>4, <1>5, <1>6, <1>7, <1>8, <1>9, <1>10, <1>11, <1>12, <1>13, <1>14, <1>15, <1>16,
           <1>17, <1>18, <1>19 DEF RepoNext, RepoStep

-----------------------------------------------------------------------------
(* Creations and removals *)

\* What every step keeps of the calls and of the history.
Kept ==
    /\ DOMAIN calls \subseteq DOMAIN calls'
    /\ \A k \in DOMAIN calls : /\ calls'[k].op = calls[k].op /\ calls'[k].on = calls[k].on
                               /\ calls[k].op = "cleanup" => calls'[k].pending = calls[k].pending
    /\ overlapped \subseteq overlapped' /\ touched \subseteq touched'

\* A creation for s begins when there is none, and what runs at that time is noted.
CreationBegins(s) ==
    /\ Creators(s) = {} /\ \E k \in DOMAIN calls' : Creators(s)' = {k} /\ calls'[k].at = "cloning"
    /\ CallsOn("cleanup", s)' \subseteq touched'
    /\ RemovalOf(s)' => s \in overlapped'
    /\ disk' = disk

\* Otherwise there are no new ones, and a removal that begins notes them.
NoneBegins(s) ==
    /\ Creators(s)' \subseteq Creators(s)
    /\ RemovalOf(s)' => RemovalOf(s) \/ Creators(s) = {} \/ s \in overlapped'

\* Who is about to make the directory has the worktree.
MkdirStep(s) ==
    \A c \in Creators(s)' : calls'[c].at = "mkdir" =>
        \/ c \in Creators(s) /\ calls[c].at = "mkdir"
        \/ disk'[s] = "full"

\* Only removals and creations write on the disk.
DiskStep(s) ==
    \/ disk'[s] = disk[s]
    \/ RemovalOf(s) /\ disk'[s] = "none"
    \/ \E c \in Creators(s) : calls[c].at = "adding" /\ disk[s] = "none" /\ disk'[s] = "full"
    \/ \E c \in Creators(s) : /\ calls[c].at = "mkdir" /\ calls'[c].at # "mkdir"
                              /\ disk[s] = "none" /\ disk'[s] = "husk"

SessionStep(s) == (CreationBegins(s) \/ NoneBegins(s)) /\ MkdirStep(s) /\ DiskStep(s)

\* Creators and removals, said of the calls one by one.
LEMMA WhoCreates ==
    /\ \A s, c : c \in Creators(s) <=> /\ c \in DOMAIN calls /\ calls[c].op = "tool" /\ calls[c].on = s
                                       /\ calls[c].at \in Creating
    /\ \A s, c : c \in Creators(s)' <=> /\ c \in DOMAIN calls' /\ calls'[c].op = "tool" /\ calls'[c].on = s
                                        /\ calls'[c].at \in Creating
    /\ \A s : RemovalOf(s) <=> \/ \E c \in DOMAIN calls : /\ calls[c].op = "cleanup" /\ calls[c].on = s
                                                          /\ calls[c].at \in Removing
                               \/ staleAt[1] \in Removing /\ staleAt[2] = s
    /\ \A s : RemovalOf(s)' <=> \/ \E c \in DOMAIN calls' : /\ calls'[c].op = "cleanup" /\ calls'[c].on = s
                                                            /\ calls'[c].at \in Removing
                                \/ staleAt'[1] \in Removing /\ staleAt'[2] = s
  BY DEF Creators, CallsOn, RemovalOf

\* Steps that do not touch the calls.
LEMMA QuietSession ==
    ASSUME NEW s \in Sessions, calls' = calls,
           RemovalOf(s)' => RemovalOf(s) \/ Creators(s) = {} \/ s \in overlapped',
           DiskStep(s)
    PROVE  SessionStep(s)
<1>1. Creators(s)' = Creators(s)
  BY DEF Creators, CallsOn
<1>2. NoneBegins(s)
  BY <1>1 DEF NoneBegins
<1>3. MkdirStep(s)
  BY <1>1 DEF MkdirStep
<1> QED BY <1>2, <1>3 DEF SessionStep

\* Arrivals, and a creation that they begin.
LEMMA ArrivalSessions ==
    ASSUME RepoOK, NEW t \in Sessions, ToolArrives(t) \/ PrepareArrives(t) \/ CleanupArrives(t)
    PROVE  Kept /\ \A s \in Sessions : SessionStep(s)
<1> DEFINE n == Len(calls) + 1
<1>1. RepoCallsOK /\ origin \in Nat /\ n \notin DOMAIN calls
  BY RepoOKParts, CallSequence DEF OtherTypes, RepoCallsOK
<1>2. \A s \in Sessions : CallsOn("cleanup", s) \subseteq DOMAIN calls
  BY DEF CallsOn
<1>3. CASE ToolArrives(t) /\ t \in worktrees
  <2>1. NewCall("tool", t, "looking", {}) /\ UNCHANGED <<overlapped, touched, disk, staleAt>>
    BY <1>1, <1>3, ToolArrivesDoes DEF ToolArrives, gitVars, staleVars
  <2>2. Kept
    BY <2>1 DEF Kept, NewCall
  <2>3. \A s \in Sessions : Creators(s)' \subseteq Creators(s) /\ (RemovalOf(s)' => RemovalOf(s))
    BY <2>1, WhoCreates DEF NewCall, Creating
  <2>4. \A s \in Sessions : MkdirStep(s)
    BY <2>1, WhoCreates DEF NewCall, MkdirStep, Creating
  <2> QED BY <2>1, <2>2, <2>3, <2>4 DEF SessionStep, NoneBegins, DiskStep
<1>4. CASE ToolArrives(t) /\ t \notin worktrees /\ Creators(t) # {}
  <2>1. NewCall("tool", t, "joined", Creators(t)) /\ UNCHANGED <<overlapped, touched, disk, staleAt>>
    BY <1>1, <1>4, ToolArrivesDoes DEF ToolArrives, JoinOrCreate, Joins, Joined, gitVars, staleVars
  <2>2. Kept
    BY <2>1 DEF Kept, NewCall
  <2>3. \A s \in Sessions : Creators(s)' \subseteq Creators(s) /\ (RemovalOf(s)' => RemovalOf(s))
    BY <2>1, WhoCreates DEF NewCall, Creating
  <2>4. \A s \in Sessions : MkdirStep(s)
    BY <2>1, WhoCreates DEF NewCall, MkdirStep, Creating
  <2> QED BY <2>1, <2>2, <2>3, <2>4 DEF SessionStep, NoneBegins, DiskStep
<1>5. CASE ToolArrives(t) /\ t \notin worktrees /\ Creators(t) = {}
  <2>1. /\ NewCall("tool", t, "cloning", {}) /\ UNCHANGED <<disk, staleAt>>
        /\ overlapped' = IF RemovalOf(t) THEN overlapped \cup {t} ELSE overlapped
        /\ touched' = touched \cup CallsOn("cleanup", t)
    BY <1>1, <1>5, ToolArrivesDoes DEF ToolArrives, JoinOrCreate, Joins, Joined, gitVars, staleVars
  <2>2. Kept
    BY <2>1 DEF Kept, NewCall
  <2>3. \A s \in Sessions \ {t} : Creators(s)' \subseteq Creators(s)
    BY <2>1, WhoCreates DEF NewCall, Creating
  <2>4. \A s \in Sessions : RemovalOf(s)' => RemovalOf(s)
    BY <2>1, WhoCreates DEF NewCall
  <2>5. \A s \in Sessions : MkdirStep(s)
    BY <2>1, WhoCreates DEF NewCall, MkdirStep, Creating
  <2>6. Creators(t)' = {n} /\ calls'[n].at = "cloning" /\ n \in DOMAIN calls'
    BY <1>1, <1>5, <2>1, WhoCreates DEF NewCall, Creating
  <2>7. CallsOn("cleanup", t)' = CallsOn("cleanup", t)
    BY <2>1 DEF CallsOn, NewCall
  <2>8. CreationBegins(t)
    BY <1>5, <2>1, <2>4, <2>6, <2>7 DEF CreationBegins
  <2> QED BY <2>1, <2>2, <2>3, <2>4, <2>5, <2>8 DEF SessionStep, NoneBegins, DiskStep
<1>6. CASE PrepareArrives(t)
  <2>1. NewCall("prepare", t, "cloning", {}) /\ UNCHANGED <<overlapped, touched, disk, staleAt>>
    BY <1>1, <1>6, PrepareArrivesDoes DEF PrepareArrives, gitVars, staleVars, repoHistory
  <2>2. Kept
    BY <2>1 DEF Kept, NewCall
  <2>3. \A s \in Sessions : Creators(s)' \subseteq Creators(s) /\ (RemovalOf(s)' => RemovalOf(s))
    BY <2>1, WhoCreates DEF NewCall, Creating
  <2>4. \A s \in Sessions : MkdirStep(s)
    BY <2>1, WhoCreates DEF NewCall, MkdirStep, Creating
  <2> QED BY <2>1, <2>2, <2>3, <2>4 DEF SessionStep, NoneBegins, DiskStep
<1>7. CASE CleanupArrives(t)
  <2>1. PICK place, wait : /\ NewCall("cleanup", t, place, wait) /\ UNCHANGED <<overlapped, touched, disk, staleAt>>
                           /\ place = "settling" \/ Creators(t) = {}
    BY <1>1, <1>7, CleanupArrivesDoes DEF CleanupArrives, gitVars, staleVars
  <2>2. Kept
    BY <2>1 DEF Kept, NewCall
  <2>3. \A s \in Sessions : Creators(s)' \subseteq Creators(s)
    BY <2>1, WhoCreates DEF NewCall
  <2>4. \A s \in Sessions : RemovalOf(s)' => RemovalOf(s) \/ Creators(s) = {}
    BY <2>1, WhoCreates DEF NewCall, Removing
  <2>5. \A s \in Sessions : MkdirStep(s)
    BY <2>1, WhoCreates DEF NewCall, MkdirStep
  <2> QED BY <2>1, <2>2, <2>3, <2>4, <2>5 DEF SessionStep, NoneBegins, DiskStep
<1> QED BY <1>3, <1>4, <1>5, <1>6, <1>7

\* A tool that looks whether its worktree is there.
LEMMA LookSessions ==
    ASSUME RepoOK, NEW c \in DOMAIN calls, Look(c)
    PROVE  Kept /\ \A s \in Sessions : SessionStep(s)
<1>4. PICK t \in Sessions : t = calls[c].on
  BY OnSessions
<1>1. RepoCallsOK /\ t = calls[c].on /\ calls[c].op = "tool" /\ calls[c].at = "looking"
  BY <1>4, RepoOKParts, LookDoes DEF Look
<1>2. CASE \/ Present(t) /\ OnlyGoes(c, "running")
           \/ ~Present(t) /\ OnlyWaits(c, "joined", Creators(t)) /\ Creators(t) # {}
  <2>1. UNCHANGED <<overlapped, touched, disk, staleAt>>
    BY <1>1, <1>2 DEF Look, JoinOrCreate, Joins, gitVars, staleVars
  <2>2. Kept
    BY <1>1, <1>2, <2>1 DEF Kept, OnlyGoes, OnlyWaits, CallGoes
  <2>3. \A s \in Sessions : Creators(s)' \subseteq Creators(s) /\ (RemovalOf(s)' => RemovalOf(s))
    BY <1>1, <1>2, <2>1, WhoCreates DEF OnlyGoes, OnlyWaits, CallGoes, Creating
  <2>4. \A s \in Sessions : MkdirStep(s)
    BY <1>1, <1>2, WhoCreates DEF OnlyGoes, OnlyWaits, CallGoes, MkdirStep, Creating
  <2> QED BY <2>1, <2>2, <2>3, <2>4 DEF SessionStep, NoneBegins, DiskStep
<1>3. CASE ~Present(t) /\ OnlyWaits(c, "cloning", Creators(t)) /\ Creators(t) = {}
  <2>1. /\ UNCHANGED <<disk, staleAt>>
        /\ overlapped' = IF RemovalOf(t) THEN overlapped \cup {t} ELSE overlapped
        /\ touched' = touched \cup CallsOn("cleanup", t)
    BY <1>1, <1>3 DEF Look, JoinOrCreate, Joins, gitVars, staleVars
  <2>2. Kept
    BY <1>1, <1>3, <2>1 DEF Kept, OnlyWaits
  <2>3. \A s \in Sessions \ {t} : Creators(s)' \subseteq Creators(s)
    BY <1>1, <1>3, WhoCreates DEF OnlyWaits
  <2>4. \A s \in Sessions : RemovalOf(s)' => RemovalOf(s)
    BY <1>1, <1>3, <2>1, WhoCreates DEF OnlyWaits
  <2>5. \A s \in Sessions : MkdirStep(s)
    BY <1>1, <1>3, WhoCreates DEF OnlyWaits, MkdirStep
  <2>6. Creators(t)' = {c} /\ calls'[c].at = "cloning" /\ c \in DOMAIN calls'
    BY <1>1, <1>3, WhoCreates DEF OnlyWaits, Creating
  <2>7. CallsOn("cleanup", t)' = CallsOn("cleanup", t)
    BY <1>1, <1>3 DEF CallsOn, OnlyWaits
  <2>8. CreationBegins(t)
    BY <1>3, <2>1, <2>4, <2>6, <2>7 DEF CreationBegins
  <2> QED BY <2>1, <2>2, <2>3, <2>4, <2>5, <2>8 DEF SessionStep, NoneBegins, DiskStep
<1> QED BY <1>1, <1>2, <1>3, LookDoes DEF Joined, Joins

\* A removal empties the worktree of its session, if any.
LEMMA RemovalDisk ==
    ASSUME RepoOK, NEW t \in Sessions, GitRemove(t) \/ disk' = [disk EXCEPT ![t] = "none"]
    PROVE  \A s \in Sessions : disk'[s] = disk[s] \/ (s = t /\ disk'[s] = "none")
  BY RepoOKParts DEF GitRemove, OtherTypes

\* Tools that end, and removals.
LEMMA MoveSessions ==
    ASSUME RepoOK, NEW c \in DOMAIN calls, CommandEnds(c) \/ Settled(c) \/ Unlink(c) \/ Empty(c) \/ Sweep(c)
    PROVE  Kept /\ \A s \in Sessions : SessionStep(s)
<1>1. PICK t \in Sessions : t = calls[c].on
  BY OnSessions
<1>2. RepoCallsOK
  BY RepoOKParts
<1>3. CASE CommandEnds(c)
  <2>1. OnlyGoes(c, "done") /\ UNCHANGED <<overlapped, touched, disk, staleAt>>
    BY <1>2, <1>3, MovesDo DEF CommandEnds, gitVars, staleVars, repoHistory
  <2>2. Kept
    BY <2>1 DEF Kept, OnlyGoes, CallGoes
  <2>3. \A s \in Sessions : Creators(s)' \subseteq Creators(s) /\ (RemovalOf(s)' => RemovalOf(s))
    BY <2>1, WhoCreates DEF OnlyGoes, CallGoes, Creating, Removing
  <2>4. \A s \in Sessions : MkdirStep(s)
    BY <2>1, WhoCreates DEF OnlyGoes, CallGoes, MkdirStep, Creating
  <2> QED BY <2>1, <2>2, <2>3, <2>4 DEF SessionStep, NoneBegins, DiskStep
<1>4. CASE Settled(c)
  <2>1. /\ OnlyGoes(c, FirstRemoval(t)) /\ UNCHANGED <<touched, disk, staleAt>>
        /\ overlapped' = Overlaps(t) /\ calls[c].op = "cleanup"
    BY <1>1, <1>2, <1>4, MovesDo DEF Settled, gitVars, staleVars
  <2>2. Kept
    BY <2>1 DEF Kept, OnlyGoes, CallGoes, Overlaps
  <2>3. \A s \in Sessions : Creators(s)' \subseteq Creators(s)
    BY <2>1, WhoCreates DEF OnlyGoes, CallGoes
  <2>4. \A s \in Sessions : RemovalOf(s)' => RemovalOf(s) \/ Creators(s) = {} \/ s \in overlapped'
    BY <1>1, <2>1, WhoCreates DEF OnlyGoes, CallGoes, Overlaps
  <2>5. \A s \in Sessions : MkdirStep(s)
    BY <2>1, WhoCreates DEF OnlyGoes, CallGoes, MkdirStep
  <2> QED BY <2>1, <2>2, <2>3, <2>4, <2>5 DEF SessionStep, NoneBegins, DiskStep
<1>5. CASE Unlink(c) \/ Empty(c) \/ Sweep(c)
  <2>1. /\ OnlyGoes(c, "emptying") \/ OnlyGoes(c, "sweeping") \/ OnlyGoes(c, "done")
        /\ UNCHANGED <<overlapped, touched, staleAt>>
        /\ calls[c].op = "cleanup" /\ calls[c].at \in Removing
    BY <1>2, <1>5, MovesDo DEF Unlink, Empty, Sweep, mapVars, staleVars, Removing
  <2>2. Kept
    BY <2>1 DEF Kept, OnlyGoes, CallGoes
  <2>3. RemovalOf(t)
    BY <1>1, <2>1, WhoCreates
  <2>4. \A s \in Sessions : Creators(s)' \subseteq Creators(s) /\ (RemovalOf(s)' => RemovalOf(s))
    BY <1>1, <2>1, <2>3, WhoCreates DEF OnlyGoes, CallGoes
  <2>5. \A s \in Sessions : MkdirStep(s)
    BY <2>1, WhoCreates DEF OnlyGoes, CallGoes, MkdirStep
  <2>6. GitRemove(t) \/ disk' = [disk EXCEPT ![t] = "none"]
    BY <1>1, <1>5 DEF Unlink, Empty, Sweep, EmptyAndDelete
  <2>7. \A s \in Sessions : DiskStep(s)
    BY <2>3, <2>6, RemovalDisk DEF DiskStep
  <2> QED BY <2>1, <2>2, <2>4, <2>5, <2>7 DEF SessionStep, NoneBegins
<1> QED BY <1>3, <1>4, <1>5

\* The steps of a creation.
LEMMA CreationSessions ==
    ASSUME RepoOK, NEW c \in DOMAIN calls, WorktreeAdd(c) \/ MakeTmp(c) \/ MakeTmpFails(c)
    PROVE  Kept /\ \A s \in Sessions : SessionStep(s)
<1>1. PICK t \in Sessions : t = calls[c].on
  BY OnSessions
<1>2. RepoCallsOK /\ disk \in [Sessions -> {"none", "full", "husk"}] /\ calls[c].op = "tool"
  BY RepoOKParts, CreationDoes DEF OtherTypes
<1>3. UNCHANGED <<overlapped, touched, staleAt>>
  BY DEF WorktreeAdd, MakeTmp, MakeTmpFails, staleVars, repoHistory
<1>4. CASE WorktreeAdd(c) /\ Addable(t)
  <2>1. /\ OnlyGoes(c, "mkdir") /\ calls[c].at = "adding" /\ disk[t] = "none"
        /\ disk' = [disk EXCEPT ![t] = "full"]
    BY <1>1, <1>2, <1>4, CreationDoes DEF WorktreeAdd, Addable
  <2>2. Kept
    BY <1>2, <1>3, <2>1 DEF Kept, OnlyGoes, CallGoes
  <2>3. \A s \in Sessions : Creators(s)' \subseteq Creators(s) /\ (RemovalOf(s)' => RemovalOf(s))
    BY <1>2, <1>3, <2>1, WhoCreates DEF OnlyGoes, CallGoes, Creating
  <2>4. \A s \in Sessions : MkdirStep(s)
    BY <1>1, <1>2, <2>1, WhoCreates DEF OnlyGoes, CallGoes, MkdirStep, Creating
  <2>5. c \in Creators(t)
    BY <1>1, <1>2, <2>1, WhoCreates DEF Creating
  <2>6. \A s \in Sessions : DiskStep(s)
    BY <1>2, <2>1, <2>5 DEF DiskStep
  <2> QED BY <2>2, <2>3, <2>4, <2>6 DEF SessionStep, NoneBegins
<1>5. CASE ShareGoes(c, "failed") \/ ShareGoes(c, "running")
  <2>1. Kept
    BY <1>3, <1>5 DEF Kept, ShareGoes, CallGoes
  <2>2. \A k \in DOMAIN calls : \/ calls'[k] = calls[k]
                                \/ calls[k].op = "tool" /\ (CallGoes(k, "failed") \/ CallGoes(k, "running"))
    BY <1>5 DEF ShareGoes
  <2>3. DOMAIN calls' = DOMAIN calls /\ c \in Sharing(c) /\ calls'[c].at \in {"failed", "running"}
    BY <1>5 DEF ShareGoes, Sharing, CallGoes
  <2>4. \A s \in Sessions : Creators(s)' \subseteq Creators(s) /\ (RemovalOf(s)' => RemovalOf(s))
    BY <1>3, <2>2, <2>3, WhoCreates DEF CallGoes, Creating, Removing
  <2>5. \A s \in Sessions : MkdirStep(s)
    BY <2>2, <2>3, WhoCreates DEF CallGoes, MkdirStep, Creating
  <2>6. \A s \in Sessions : DiskStep(s)
    <3>1. CASE disk' = disk
      BY <3>1 DEF DiskStep
    <3>2. CASE MakeTmp(c)
      <4>1. /\ calls[c].at = "mkdir" /\ disk' = [disk EXCEPT ![t] = IF @ = "none" THEN "husk" ELSE @]
            /\ c \in Creators(t)
        BY <1>1, <1>2, <3>2, WhoCreates DEF MakeTmp, Creating
      <4> QED BY <1>2, <2>3, <4>1 DEF DiskStep
    <3>3. CASE disk' # disk /\ ~MakeTmp(c)
      <4>1. WorktreeAdd(c) /\ Addable(t)
        BY <1>1, <3>3 DEF WorktreeAdd, MakeTmpFails, gitVars
      <4>2. calls'[c].at = "mkdir"
        BY <1>1, <1>2, <4>1, CreationDoes DEF OnlyGoes, CallGoes
      <4> QED BY <2>3, <4>2
    <3> QED BY <3>1, <3>2, <3>3
  <2> QED BY <2>1, <2>4, <2>5, <2>6 DEF SessionStep, NoneBegins
<1> QED BY <1>1, <1>2, <1>4, <1>5, CreationDoes

\* The clone, and the restart: all that waits ends or goes on.
LEMMA WideSessions ==
    ASSUME RepoOK, CloneEnds \/ CloneFails \/ Restart
    PROVE  Kept /\ \A s \in Sessions : SessionStep(s)
<1>1. RepoCallsOK /\ \A k \in DOMAIN calls : calls[k] \in Call
  BY RepoOKParts, OnSessions
<1>2. UNCHANGED <<overlapped, touched, disk>> /\ (staleAt' = staleAt \/ staleAt' = <<"idle">>)
  BY DEF CloneEnds, CloneFails, Restart, staleVars, repoHistory, gitVars
<1>3. /\ DOMAIN calls' = DOMAIN calls
      /\ \A k \in DOMAIN calls :
            \/ calls'[k] = calls[k]
            \/ calls[k].at = "cloning" /\ calls[k].op \in {"tool", "prepare"} /\ (CallGoes(k, "adding") \/ CallGoes(k, "done"))
            \/ CallGoes(k, "failed")
  <2>1. CASE CloneEnds
    BY <1>1, <2>1, CloneEndsDoes, CallKinds
  <2>2. CASE CloneFails
    BY <1>1, <2>2, CloneFailsDoes
  <2>3. CASE Restart
    BY <1>1, <2>3, RestartDoes
  <2> QED BY <2>1, <2>2, <2>3
<1>4. Kept
  BY <1>2, <1>3 DEF Kept, CallGoes
<1>5. \A s \in Sessions : Creators(s)' \subseteq Creators(s)
  BY <1>3, WhoCreates DEF CallGoes, Creating
<1>6. \A s \in Sessions : RemovalOf(s)' => RemovalOf(s)
  BY <1>2, <1>3, WhoCreates DEF CallGoes, Removing
<1>7. \A s \in Sessions : MkdirStep(s)
  BY <1>3, WhoCreates DEF CallGoes, MkdirStep, Creating
<1> QED BY <1>2, <1>4, <1>5, <1>6, <1>7 DEF SessionStep, NoneBegins, DiskStep

\* What goes on beside the calls.
LEMMA OtherSessions ==
    ASSUME RepoOK,
           \/ StaleUnlinks \/ StaleEmpties \/ TtlPasses \/ PushToOrigin \/ UNCHANGED repoVars
           \/ \E s \in Sessions : StaleStarts(s) \/ RecoverStat(s) \/ RecoverEnter(s)
    PROVE  Kept /\ \A s \in Sessions : SessionStep(s)
<1>1. calls' = calls /\ UNCHANGED touched
  BY DEF StaleUnlinks, StaleEmpties, TtlPasses, PushToOrigin, StaleStarts, RecoverStat, RecoverEnter,
         repoVars, repoHistory
<1>2. \A s \in Sessions : Creators(s)' = Creators(s)
  BY <1>1 DEF Creators, CallsOn
<1>3. CASE StaleUnlinks
  <2>1. PICK t \in Sessions : t = staleAt[2]
    BY <1>3, OnSessions DEF StaleUnlinks
  <2>2. staleAt[1] = "unlinking" /\ staleAt' = <<"emptying", t>> /\ GitRemove(t) /\ UNCHANGED overlapped
    BY <1>3, <2>1 DEF StaleUnlinks
  <2>3. RemovalOf(t)
    BY <2>1, <2>2 DEF RemovalOf, Removing
  <2>4. \A s \in Sessions : RemovalOf(s)' => RemovalOf(s)
    BY <1>1, <2>1, <2>2, <2>3, WhoCreates
  <2>5. \A s \in Sessions : DiskStep(s)
    BY <2>2, <2>3, RemovalDisk DEF DiskStep
  <2> QED BY <1>1, <2>2, <2>4, <2>5, QuietSession DEF Kept
<1>4. CASE StaleEmpties
  <2>1. PICK t \in Sessions : t = staleAt[2]
    BY <1>4, OnSessions DEF StaleEmpties
  <2>2. staleAt[1] = "emptying" /\ disk' = [disk EXCEPT ![t] = "none"]
    BY <1>4, <2>1 DEF StaleEmpties, EmptyAndDelete
  <2>3. RemovalOf(t)
    BY <2>1, <2>2 DEF RemovalOf, Removing
  <2>4. \/ staleAt' = <<"idle">> /\ UNCHANGED overlapped
        \/ \E s \in staleTodo : staleAt' = <<"unlinking", s>> /\ overlapped' = Overlaps(s)
    BY <1>4 DEF StaleEmpties
  <2>5. \A s \in Sessions : RemovalOf(s)' => RemovalOf(s) \/ Creators(s) = {} \/ s \in overlapped'
    BY <1>1, <2>4, WhoCreates DEF Overlaps, Removing
  <2>6. \A s \in Sessions : DiskStep(s)
    BY <2>2, <2>3, RemovalDisk DEF DiskStep
  <2>7. Kept
    BY <1>1, <2>4 DEF Kept, Overlaps
  <2> QED BY <1>1, <2>5, <2>6, <2>7, QuietSession
<1>5. ASSUME NEW t \in Sessions, StaleStarts(t) PROVE Kept /\ \A s \in Sessions : SessionStep(s)
  <2>1. staleAt' = <<"unlinking", t>> /\ overlapped' = Overlaps(t) /\ disk' = disk
    BY <1>5 DEF StaleStarts, gitVars
  <2>2. \A s \in Sessions : RemovalOf(s)' => RemovalOf(s) \/ Creators(s) = {} \/ s \in overlapped'
    BY <1>1, <2>1, WhoCreates DEF Overlaps
  <2>3. Kept /\ \A s \in Sessions : DiskStep(s)
    BY <1>1, <2>1 DEF Kept, Overlaps, DiskStep
  <2> QED BY <1>1, <2>2, <2>3, QuietSession
<1>6. CASE \/ TtlPasses \/ PushToOrigin \/ UNCHANGED repoVars
           \/ \E s \in Sessions : RecoverStat(s) \/ RecoverEnter(s)
  <2>1. UNCHANGED <<overlapped, disk, staleAt>>
    BY <1>6 DEF TtlPasses, PushToOrigin, RecoverStat, RecoverEnter, repoVars, repoHistory, gitVars, staleVars
  <2>2. \A s \in Sessions : RemovalOf(s)' => RemovalOf(s)
    BY <1>1, <2>1, WhoCreates
  <2>3. Kept /\ \A s \in Sessions : DiskStep(s)
    BY <1>1, <2>1 DEF Kept, DiskStep
  <2> QED BY <1>1, <2>2, <2>3, QuietSession
<1> QED BY <1>3, <1>4, <1>5, <1>6

\* Every step does as said.
LEMMA Sessionwise ==
    ASSUME RepoOK, [RepoNext]_repoVars
    PROVE  Kept /\ \A s \in Sessions : SessionStep(s)
  BY ArrivalSessions, LookSessions, MoveSessions, CreationSessions, WideSessions, OtherSessions DEF RepoNext, RepoStep

-----------------------------------------------------------------------------
(* One creation at a time, and none beside a removal that is not noted *)

\* A worktree is created once at a time.
CreatorAlone == \A s \in Sessions : \A c, d \in Creators(s) : c = d

\* Whoever shares a creation shares that of its own session.
JoinsOwn == \A c \in DOMAIN calls : calls[c].at = "joined" => calls[c].pending \subseteq CallsOn("tool", calls[c].on)

\* A creation and a removal that run together are noted.
OverlapNoted == \A s \in Sessions \ overlapped : Creators(s) = {} \/ ~RemovalOf(s)

\* What has been added is there when the directory is made,
MadeFull == \A s \in Sessions \ overlapped : \A c \in Creators(s) : calls[c].at = "mkdir" => disk[s] = "full"

\* and so no empty directory comes of it.
NoHusk == \A s \in Sessions \ overlapped : disk[s] # "husk"

CreationsApart == CreatorAlone /\ OverlapNoted /\ MadeFull /\ NoHusk

\* Every step keeps creations apart.
LEMMA ApartStep ==
    ASSUME RepoOK, CreationsApart, [RepoNext]_repoVars
    PROVE  CreationsApart'
<1>1. Kept /\ \A s \in Sessions : SessionStep(s)
  BY Sessionwise
<1>2. CreatorAlone'
  BY <1>1 DEF CreationsApart, CreatorAlone, SessionStep, CreationBegins, NoneBegins
<1>3. ASSUME NEW s \in Sessions, s \notin overlapped'
      PROVE  /\ Creators(s)' = {} \/ ~RemovalOf(s)'
             /\ \A c \in Creators(s)' : calls'[c].at = "mkdir" => disk'[s] = "full"
             /\ disk'[s] # "husk"
  <2>1. /\ s \notin overlapped /\ (Creators(s) = {} \/ ~RemovalOf(s))
        /\ \A c \in Creators(s) : calls[c].at = "mkdir" => disk[s] = "full"
        /\ disk[s] # "husk" /\ \A c, d \in Creators(s) : c = d
    BY <1>1, <1>3 DEF Kept, CreationsApart, OverlapNoted, MadeFull, NoHusk, CreatorAlone
  <2>2. SessionStep(s)
    BY <1>1
  <2>3. Creators(s)' = {} \/ ~RemovalOf(s)'
    BY <1>3, <2>1, <2>2 DEF SessionStep, CreationBegins, NoneBegins
  <2>4. disk'[s] # "husk"
    BY <2>1, <2>2 DEF SessionStep, DiskStep
  <2>5. ASSUME NEW c \in Creators(s)', calls'[c].at = "mkdir" PROVE disk'[s] = "full"
    <3>1. CASE disk'[s] # "full"
      <4>1. c \in Creators(s) /\ calls[c].at = "mkdir" /\ disk[s] = "full"
        BY <2>1, <2>2, <2>5, <3>1 DEF SessionStep, MkdirStep
      <4>2. ~RemovalOf(s) /\ disk'[s] # disk[s]
        BY <2>1, <3>1, <4>1
      <4> QED BY <2>1, <2>2, <3>1, <4>1, <4>2 DEF SessionStep, DiskStep
    <3> QED BY <3>1
  <2> QED BY <2>3, <2>4, <2>5
<1>4. OverlapNoted' /\ MadeFull' /\ NoHusk'
  BY <1>3 DEF OverlapNoted, MadeFull, NoHusk
<1> QED BY <1>2, <1>4 DEF CreationsApart

\* Who shares a creation did so before, or shares the one that is under way.
JoinedThen ==
    \A k \in DOMAIN calls' : calls'[k].at = "joined" =>
          \/ /\ k \in DOMAIN calls /\ calls[k].at = "joined" /\ calls'[k].pending = calls[k].pending
             /\ calls'[k].on = calls[k].on
          \/ calls'[k].pending = Creators(calls'[k].on)

\* Calls that share a creation.
LEMMA JoinsStep ==
    ASSUME RepoOK, JoinsOwn, [RepoNext]_repoVars
    PROVE  JoinsOwn'
<1>1. Kept
  BY Sessionwise
<1>2. RepoCallsOK /\ origin \in Nat /\ Len(calls) + 1 \notin DOMAIN calls
  BY RepoOKParts, CallSequence DEF OtherTypes, RepoCallsOK
<1>3. \A s : CallsOn("tool", s) \subseteq CallsOn("tool", s)' /\ Creators(s) \subseteq CallsOn("tool", s)
  BY <1>1 DEF CallsOn, Kept, Creators
<1>4. JoinedThen
  <2>1. CASE calls' = calls
    BY <2>1 DEF JoinedThen
  <2>2. ASSUME NEW s \in Sessions, ToolArrives(s) \/ PrepareArrives(s) \/ CleanupArrives(s)
        PROVE  \E o, place, wait : NewCall(o, s, place, wait) /\ (place = "joined" => wait = Creators(s))
    BY <1>2, <2>2, ToolArrivesDoes, PrepareArrivesDoes, CleanupArrivesDoes DEF FirstRemoval
  <2>3. ASSUME NEW s \in Sessions, ToolArrives(s) \/ PrepareArrives(s) \/ CleanupArrives(s)
        PROVE  JoinedThen
    <3>1. PICK o, place, wait : NewCall(o, s, place, wait) /\ (place = "joined" => wait = Creators(s))
      BY <2>2, <2>3
    <3> QED BY <1>2, <3>1 DEF NewCall, JoinedThen
  <2>4. ASSUME NEW c \in DOMAIN calls, Look(c) PROVE JoinedThen
    BY <1>2, <2>4, LookDoes DEF OnlyGoes, OnlyWaits, CallGoes, JoinedThen
  <2>5. ASSUME NEW c \in DOMAIN calls, CommandEnds(c) \/ Settled(c) \/ Unlink(c) \/ Empty(c) \/ Sweep(c)
        PROVE  JoinedThen
    BY <1>2, <2>5, MovesDo DEF OnlyGoes, CallGoes, FirstRemoval, JoinedThen
  <2>6. ASSUME NEW c \in DOMAIN calls, WorktreeAdd(c) \/ MakeTmp(c) \/ MakeTmpFails(c) PROVE JoinedThen
    <3>1. OnlyGoes(c, "mkdir") \/ ShareGoes(c, "failed") \/ ShareGoes(c, "running")
      BY <1>2, <2>6, CreationDoes
    <3> QED BY <3>1 DEF OnlyGoes, ShareGoes, CallGoes, JoinedThen
  <2>7. ASSUME CloneEnds \/ CloneFails \/ Restart PROVE JoinedThen
    <3>1. DOMAIN calls' = DOMAIN calls
          /\ \A k \in DOMAIN calls : calls'[k] = calls[k] \/ (\E place : CallGoes(k, place) /\ place # "joined")
      BY <1>2, <2>7, CloneEndsDoes, CloneFailsDoes, RestartDoes
    <3> QED BY <3>1 DEF CallGoes, JoinedThen
  <2> QED BY <2>1, <2>3, <2>4, <2>5, <2>6, <2>7
          DEF RepoNext, RepoStep, StaleUnlinks, StaleEmpties, StaleStarts, RecoverStat, RecoverEnter,
              TtlPasses, PushToOrigin, repoVars
<1> QED BY <1>3, <1>4 DEF JoinsOwn, JoinedThen

-----------------------------------------------------------------------------
(* Worktrees are on record *)

\* A session whose worktree is about to be entered.
AboutToEnter(s) == \E c \in Creators(s) : calls[c].at = "mkdir"

Known(s) == s \in worktrees \/ recovery[s] # "no" \/ RemovalOf(s) \/ AboutToEnter(s)

\* The same of who is about to enter its worktree.
LEMMA WhoIsAbout ==
    /\ \A s : AboutToEnter(s) <=> \E c \in DOMAIN calls : /\ calls[c].op = "tool" /\ calls[c].on = s
                                                          /\ calls[c].at = "mkdir"
    /\ \A s : AboutToEnter(s)' <=> \E c \in DOMAIN calls' : /\ calls'[c].op = "tool" /\ calls'[c].on = s
                                                            /\ calls'[c].at = "mkdir"
  BY DEF AboutToEnter, Creators, CallsOn, Creating

\* Known is what WorktreesOnRecord says of a worktree.
LEMMA KnownIsOnRecord ==
    /\ WorktreesOnRecord <=> \A s \in Sessions \ halfMade : disk[s] # "none" => Known(s)
    /\ WorktreesOnRecord' <=> \A s \in Sessions \ halfMade' : disk'[s] # "none" => Known(s)'
  BY DEF WorktreesOnRecord, Known, AboutToEnter

\* What is known stays so in the steps that leave the map, the disk and the
\* recovery alone.
LEMMA KnownStays ==
    ASSUME WorktreesOnRecord, disk' = disk, halfMade \subseteq halfMade', worktrees \subseteq worktrees',
           \A s \in Sessions : recovery[s] # "no" => recovery'[s] # "no" \/ disk[s] = "none" \/ s \in worktrees',
           \A s \in Sessions : RemovalOf(s) => RemovalOf(s)',
           \A s \in Sessions : AboutToEnter(s) => AboutToEnter(s)' \/ s \in halfMade'
    PROVE  WorktreesOnRecord'
  BY KnownIsOnRecord DEF Known

\* Every step keeps worktrees on record.
LEMMA OnRecordStep ==
    ASSUME RepoOK, WorktreesOnRecord, [RepoNext]_repoVars
    PROVE  WorktreesOnRecord'
<1>1. RepoCallsOK /\ origin \in Nat /\ Len(calls) + 1 \notin DOMAIN calls
      /\ disk \in [Sessions -> {"none", "full", "husk"}] /\ recovery \in [Sessions -> {"no", "todo", "seen"}]
  BY RepoOKParts, CallSequence DEF OtherTypes, RepoCallsOK
<1>2. \A c \in DOMAIN calls : calls[c] \in Call /\ calls[c].on \in Sessions
  BY OnSessions
<1>3. ASSUME NEW s \in Sessions, ToolArrives(s) \/ PrepareArrives(s) \/ CleanupArrives(s) PROVE WorktreesOnRecord'
  <2>1. PICK o, place, wait : NewCall(o, s, place, wait)
    BY <1>1, <1>3, ToolArrivesDoes, PrepareArrivesDoes, CleanupArrivesDoes
  <2>2. UNCHANGED <<disk, halfMade, worktrees, recovery, staleAt>>
    BY <1>3 DEF ToolArrives, PrepareArrives, CleanupArrives, gitVars, mapVars, staleVars, repoHistory
  <2>3. \A t \in Sessions : (RemovalOf(t) => RemovalOf(t)') /\ (AboutToEnter(t) => AboutToEnter(t)')
    BY <1>1, <2>1, <2>2, WhoCreates, WhoIsAbout DEF NewCall
  <2> QED BY <2>2, <2>3, KnownStays
<1>4. ASSUME NEW c \in DOMAIN calls, Look(c) \/ CommandEnds(c) \/ Settled(c) PROVE WorktreesOnRecord'
  <2>1. /\ DOMAIN calls' = DOMAIN calls /\ \A k \in DOMAIN calls : k # c => calls'[k] = calls[k]
        /\ calls[c].at \in {"looking", "running", "settling"}
    BY <1>1, <1>4, LookDoes, MovesDo DEF OnlyGoes, OnlyWaits, Look, CommandEnds, Settled
  <2>2. UNCHANGED <<disk, halfMade, worktrees, recovery, staleAt>>
    BY <1>4 DEF Look, CommandEnds, Settled, gitVars, mapVars, staleVars, repoHistory
  <2>3. \A t \in Sessions : (RemovalOf(t) => RemovalOf(t)') /\ (AboutToEnter(t) => AboutToEnter(t)')
    BY <2>1, <2>2, WhoCreates, WhoIsAbout DEF Removing
  <2> QED BY <2>2, <2>3, KnownStays
<1>5. ASSUME NEW c \in DOMAIN calls, Unlink(c) \/ Empty(c) \/ Sweep(c) PROVE WorktreesOnRecord'
  <2>0. PICK t \in Sessions : t = calls[c].on
    BY <1>2
  <2>1. /\ DOMAIN calls' = DOMAIN calls /\ \A k \in DOMAIN calls : k # c => calls'[k] = calls[k]
        /\ calls[c].at \in Removing /\ calls[c].op = "cleanup" /\ calls'[c].on = t /\ calls'[c].op = "cleanup"
        /\ Unlink(c) => calls'[c].at = "emptying"
    BY <1>1, <1>5, <2>0, MovesDo DEF OnlyGoes, CallGoes, Unlink, Empty, Sweep, Removing
  <2>2. UNCHANGED <<halfMade, recovery, staleAt>>
    BY <1>5 DEF Unlink, Empty, Sweep, mapVars, staleVars
  <2>3. /\ worktrees \ {t} \subseteq worktrees'
        /\ \A s \in Sessions \ {t} : disk'[s] = disk[s]
        /\ Unlink(c) \/ disk'[t] = "none"
    BY <1>1, <1>5, <2>0 DEF Unlink, GitRemove, Empty, Sweep, EmptyAndDelete, mapVars
  <2>4. \A s \in Sessions \ {t} : (RemovalOf(s) => RemovalOf(s)') /\ (AboutToEnter(s) => AboutToEnter(s)')
    BY <2>0, <2>1, <2>2, WhoCreates, WhoIsAbout
  <2>5. Unlink(c) => RemovalOf(t)'
    BY <2>1, WhoCreates DEF Removing
  <2> QED BY <2>2, <2>3, <2>4, <2>5, KnownIsOnRecord DEF Known
<1>6. ASSUME NEW c \in DOMAIN calls, WorktreeAdd(c) PROVE WorktreesOnRecord'
  <2>0. PICK t \in Sessions : t = calls[c].on
    BY <1>2
  <2>1. UNCHANGED <<halfMade, recovery, staleAt, worktrees>> /\ calls[c].op = "tool"
    BY <1>1, <1>6, CreationDoes DEF WorktreeAdd, mapVars, staleVars, repoHistory
  <2>2. CASE Addable(t)
    <3>1. OnlyGoes(c, "mkdir") /\ \A s \in Sessions \ {t} : disk'[s] = disk[s]
      BY <1>1, <1>6, <2>0, <2>2, CreationDoes DEF WorktreeAdd
    <3>2. AboutToEnter(t)'
      BY <2>0, <2>1, <3>1, WhoIsAbout DEF OnlyGoes, CallGoes
    <3>3. \A s \in Sessions : (RemovalOf(s) => RemovalOf(s)') /\ (AboutToEnter(s) => AboutToEnter(s)')
      BY <2>1, <3>1, WhoCreates, WhoIsAbout DEF OnlyGoes, CallGoes
    <3> QED BY <2>1, <3>1, <3>2, <3>3, KnownIsOnRecord DEF Known
  <2>3. CASE ~Addable(t)
    <3>1. ShareGoes(c, "failed") /\ disk' = disk /\ calls[c].at = "adding"
      BY <1>1, <1>6, <2>0, <2>3, CreationDoes DEF WorktreeAdd
    <3>2. \A s \in Sessions : (RemovalOf(s) => RemovalOf(s)') /\ (AboutToEnter(s) => AboutToEnter(s)')
      BY <2>1, <3>1, WhoCreates, WhoIsAbout DEF ShareGoes, Sharing, CallGoes
    <3> QED BY <2>1, <3>1, <3>2, KnownStays
  <2> QED BY <2>2, <2>3
<1>7. ASSUME NEW c \in DOMAIN calls, MakeTmp(c) \/ MakeTmpFails(c) PROVE WorktreesOnRecord'
  <2>0. PICK t \in Sessions : t = calls[c].on
    BY <1>2
  <2>1. UNCHANGED <<recovery, staleAt>> /\ calls[c].at = "mkdir" /\ calls[c].op = "tool"
        /\ (ShareGoes(c, "failed") \/ ShareGoes(c, "running"))
    BY <1>1, <1>7, CreationDoes DEF MakeTmp, MakeTmpFails, gitVars, mapVars, staleVars, repoHistory
  <2>2. /\ \A s \in Sessions \ {t} : disk'[s] = disk[s]
        /\ worktrees \subseteq worktrees' /\ halfMade \subseteq halfMade' /\ t \in worktrees' \cup halfMade'
    BY <1>1, <1>7, <2>0 DEF MakeTmp, MakeTmpFails, EnteredIn, gitVars, mapVars, repoHistory
  <2>3. \A s \in Sessions \ {t} : (RemovalOf(s) => RemovalOf(s)') /\ (AboutToEnter(s) => AboutToEnter(s)')
    BY <2>0, <2>1, WhoCreates, WhoIsAbout DEF ShareGoes, Sharing, CallGoes
  <2> QED BY <2>1, <2>2, <2>3, KnownIsOnRecord DEF Known
<1>8. ASSUME CloneEnds \/ CloneFails PROVE WorktreesOnRecord'
  <2>1. DOMAIN calls' = DOMAIN calls
        /\ \A k \in DOMAIN calls : calls'[k] = calls[k] \/ calls[k].at \in {"cloning", "joined"}
    BY <1>1, <1>8, CloneEndsDoes, CloneFailsDoes
  <2>2. UNCHANGED <<disk, halfMade, worktrees, recovery, staleAt>>
    BY <1>8 DEF CloneEnds, CloneFails, gitVars, mapVars, staleVars, repoHistory
  <2>3. \A t \in Sessions : (RemovalOf(t) => RemovalOf(t)') /\ (AboutToEnter(t) => AboutToEnter(t)')
    BY <2>1, <2>2, WhoCreates, WhoIsAbout DEF Removing
  <2> QED BY <2>2, <2>3, KnownStays
<1>9. ASSUME Restart PROVE WorktreesOnRecord'
  <2>1. disk' = disk /\ \A s \in Sessions : disk[s] # "none" => recovery'[s] # "no"
    BY <1>9 DEF Restart
  <2> QED BY <2>1, KnownIsOnRecord DEF Known
<1>10. ASSUME StaleUnlinks \/ StaleEmpties PROVE WorktreesOnRecord'
  <2>0. PICK t \in Sessions : t = staleAt[2]
    BY <1>10, OnSessions DEF StaleUnlinks, StaleEmpties
  <2>1. UNCHANGED <<calls, halfMade, recovery>> /\ staleAt[1] \in {"unlinking", "emptying"}
        /\ (StaleUnlinks => staleAt' = <<"emptying", t>>)
    BY <1>10, <2>0 DEF StaleUnlinks, StaleEmpties, mapVars
  <2>2. /\ worktrees \ {t} \subseteq worktrees'
        /\ \A s \in Sessions \ {t} : disk'[s] = disk[s]
        /\ StaleUnlinks \/ disk'[t] = "none"
    BY <1>1, <1>10, <2>0 DEF StaleUnlinks, StaleEmpties, GitRemove, EmptyAndDelete, mapVars
  <2>3. \A s \in Sessions \ {t} : (RemovalOf(s) => RemovalOf(s)') /\ (AboutToEnter(s) => AboutToEnter(s)')
    BY <2>0, <2>1, WhoCreates, WhoIsAbout
  <2>4. StaleUnlinks => RemovalOf(t)'
    BY <2>1, WhoCreates DEF Removing
  <2> QED BY <2>1, <2>2, <2>3, <2>4, KnownIsOnRecord DEF Known
<1>11. ASSUME NEW t \in Sessions, StaleStarts(t) \/ RecoverStat(t) \/ RecoverEnter(t) PROVE WorktreesOnRecord'
  <2>1. UNCHANGED <<calls, halfMade, disk>> /\ worktrees \subseteq worktrees'
        /\ (staleAt[1] \in Removing => staleAt' = staleAt)
    BY <1>11 DEF StaleStarts, RecoverStat, RecoverEnter, gitVars, mapVars, staleVars, repoHistory, Removing
  <2>2. \A s \in Sessions : (RemovalOf(s) => RemovalOf(s)') /\ (AboutToEnter(s) => AboutToEnter(s)')
    BY <2>1, WhoCreates, WhoIsAbout
  <2>3. \A s \in Sessions : recovery[s] # "no" => recovery'[s] # "no" \/ disk[s] = "none" \/ s \in worktrees'
    <3>1. CASE StaleStarts(t)
      BY <3>1 DEF StaleStarts
    <3>2. CASE RecoverStat(t)
      <4>1. recovery' = [recovery EXCEPT ![t] = IF t \notin worktrees /\ disk[t] # "none" THEN "seen" ELSE "no"]
            /\ worktrees' = worktrees
        BY <3>2 DEF RecoverStat, mapVars
      <4> QED BY <1>1, <4>1
    <3>3. CASE RecoverEnter(t)
      <4>1. recovery' = [recovery EXCEPT ![t] = "no"] /\ t \in worktrees'
        BY <3>3 DEF RecoverEnter
      <4> QED BY <1>1, <4>1
    <3> QED BY <1>11, <3>1, <3>2, <3>3
  <2> QED BY <2>1, <2>2, <2>3, KnownStays
<1>12. ASSUME TtlPasses \/ PushToOrigin \/ UNCHANGED repoVars PROVE WorktreesOnRecord'
  <2>1. UNCHANGED <<disk, halfMade, worktrees, recovery>> /\ UNCHANGED <<staleAt, calls>>
    BY <1>12 DEF TtlPasses, PushToOrigin, repoVars, gitVars, mapVars, staleVars, repoHistory
  <2>2. \A s \in Sessions : (RemovalOf(s) => RemovalOf(s)') /\ (AboutToEnter(s) => AboutToEnter(s)')
    BY <2>1, WhoCreates, WhoIsAbout
  <2> QED BY <2>1, <2>2, KnownStays
<1> QED BY <1>3, <1>4, <1>5, <1>6, <1>7, <1>8, <1>9, <1>10, <1>11, <1>12 DEF RepoNext, RepoStep

-----------------------------------------------------------------------------
(* Commands run in a worktree *)

\* Every step keeps commands in worktrees.
LEMMA RunsStep ==
    ASSUME RepoOK, CreationsApart, CreationsApart', JoinsOwn, RunsInTree, [RepoNext]_repoVars
    PROVE  RunsInTree'
<1>1. RepoCallsOK /\ origin \in Nat /\ Len(calls) + 1 \notin DOMAIN calls
      /\ disk \in [Sessions -> {"none", "full", "husk"}]
  BY RepoOKParts, CallSequence DEF OtherTypes, RepoCallsOK
<1>2. \A c \in DOMAIN calls : calls[c] \in Call /\ calls[c].on \in Sessions
                              /\ (calls[c].at = "running" => calls[c].op = "tool")
  BY OnSessions, CallKinds
<1>3. \A s \in Sessions, c \in DOMAIN calls : calls[c].at = "running" /\ calls[c].on = s => c \in Users(s)
  BY <1>2 DEF Users, CallsOn, Ended
<1>4. ASSUME NEW s \in Sessions, ToolArrives(s) \/ PrepareArrives(s) \/ CleanupArrives(s) PROVE RunsInTree'
  <2>1. PICK o, place, wait : NewCall(o, s, place, wait) /\ place # "running"
    BY <1>1, <1>4, ToolArrivesDoes, PrepareArrivesDoes, CleanupArrivesDoes DEF FirstRemoval, Joined
  <2>2. UNCHANGED <<disk, swept>> /\ overlapped \subseteq overlapped'
    BY <1>4 DEF ToolArrives, PrepareArrives, CleanupArrives, JoinOrCreate, Overlaps, gitVars, repoHistory
  <2> QED BY <2>1, <2>2 DEF RunsInTree, NewCall
<1>5. ASSUME NEW c \in DOMAIN calls, Look(c) PROVE RunsInTree'
  <2>1. UNCHANGED <<disk, swept>> /\ overlapped \subseteq overlapped'
    BY <1>5 DEF Look, JoinOrCreate, gitVars
  <2>2. CASE Present(calls[c].on) /\ OnlyGoes(c, "running")
    <3>1. calls[c].on \notin overlapped => disk[calls[c].on] = "full"
      BY <1>1, <1>2, <2>2 DEF Present, CreationsApart, NoHusk
    <3> QED BY <2>1, <2>2, <3>1 DEF RunsInTree, OnlyGoes, CallGoes
  <2>3. CASE OnlyWaits(c, Joined(calls[c].on), Creators(calls[c].on))
    BY <2>1, <2>3 DEF RunsInTree, OnlyWaits, Joined
  <2> QED BY <1>1, <1>5, <2>2, <2>3, LookDoes
<1>6. ASSUME NEW c \in DOMAIN calls, CommandEnds(c) \/ Settled(c) \/ Unlink(c) \/ Empty(c) \/ Sweep(c) PROVE RunsInTree'
  <2>0. PICK t \in Sessions : t = calls[c].on
    BY <1>2
  <2>1. PICK place : OnlyGoes(c, place) /\ place # "running"
    BY <1>1, <1>6, MovesDo DEF FirstRemoval
  <2>2. overlapped \subseteq overlapped' /\ swept \subseteq swept'
        /\ \A s \in Sessions : disk'[s] = disk[s] \/ (Users(s) \subseteq swept')
    BY <1>1, <1>6, <2>0 DEF CommandEnds, Settled, Unlink, Empty, Sweep, GitRemove, EmptyAndDelete, Sweeps,
                            Overlaps, gitVars, repoHistory
  <2>3. ASSUME NEW k \in DOMAIN calls' \ swept', calls'[k].at = "running", calls'[k].on \notin overlapped'
        PROVE  disk'[calls'[k].on] = "full"
    <3>1. k # c /\ k \in DOMAIN calls \ swept /\ calls'[k] = calls[k]
      BY <2>1, <2>2, <2>3 DEF OnlyGoes, CallGoes
    <3>2. disk[calls[k].on] = "full" /\ k \in Users(calls[k].on) /\ calls[k].on \in Sessions
      BY <1>2, <1>3, <2>2, <2>3, <3>1 DEF RunsInTree
    <3> QED BY <2>2, <2>3, <3>1, <3>2
  <2> QED BY <2>3 DEF RunsInTree
<1>7. ASSUME NEW c \in DOMAIN calls, WorktreeAdd(c) \/ MakeTmpFails(c) PROVE RunsInTree'
  <2>0. PICK t \in Sessions : t = calls[c].on
    BY <1>2
  <2>1. \/ OnlyGoes(c, "mkdir")
        \/ ShareGoes(c, "failed")
    BY <1>1, <1>7, CreationDoes
  <2>2. UNCHANGED <<overlapped, swept>>
    BY <1>7 DEF WorktreeAdd, MakeTmpFails, repoHistory
  <2>3. \A s \in Sessions : disk'[s] = disk[s] \/ disk'[s] = "full"
    BY <1>1, <1>7, <2>0 DEF WorktreeAdd, MakeTmpFails, gitVars
  <2>4. \A k \in DOMAIN calls' : calls'[k].at = "running" => k \in DOMAIN calls /\ calls'[k] = calls[k]
    BY <2>1 DEF OnlyGoes, ShareGoes, CallGoes
  <2> QED BY <1>2, <2>2, <2>3, <2>4 DEF RunsInTree
<1>8. ASSUME NEW c \in DOMAIN calls, MakeTmp(c) PROVE RunsInTree'
  <2>0. PICK t \in Sessions : t = calls[c].on
    BY <1>2
  <2>1. ShareGoes(c, "running") /\ calls[c].op = "tool" /\ calls[c].at = "mkdir"
    BY <1>1, <1>8, CreationDoes DEF MakeTmp
  <2>2. UNCHANGED <<overlapped, swept>> /\ disk' = [disk EXCEPT ![t] = IF @ = "none" THEN "husk" ELSE @]
    BY <1>8, <2>0 DEF MakeTmp, repoHistory
  <2>3. t \notin overlapped => disk[t] = "full"
    BY <2>0, <2>1, WhoCreates DEF CreationsApart, MadeFull, Creating
  <2>4. \A k \in Sharing(c) : calls[k].on = t
    BY <2>0 DEF Sharing, JoinsOwn, CallsOn
  <2>5. ASSUME NEW k \in DOMAIN calls' \ swept', calls'[k].at = "running", calls'[k].on \notin overlapped'
        PROVE  disk'[calls'[k].on] = "full"
    <3>1. CASE k \in Sharing(c)
      <4>1. calls'[k].on = t
        BY <2>1, <2>4, <3>1 DEF ShareGoes, CallGoes
      <4> QED BY <1>1, <2>2, <2>3, <2>5, <4>1
    <3>2. CASE k \notin Sharing(c)
      <4>1. k \in DOMAIN calls \ swept /\ calls'[k] = calls[k]
        BY <2>1, <2>2, <2>5, <3>2 DEF ShareGoes
      <4>2. disk[calls[k].on] = "full" /\ calls[k].on \in Sessions
        BY <1>2, <2>2, <2>5, <4>1 DEF RunsInTree
      <4> QED BY <1>1, <2>2, <4>1, <4>2
    <3> QED BY <3>1, <3>2
  <2> QED BY <2>5 DEF RunsInTree
<1>9. ASSUME CloneEnds \/ CloneFails \/ Restart PROVE RunsInTree'
  <2>1. DOMAIN calls' = DOMAIN calls
        /\ \A k \in DOMAIN calls : calls'[k] = calls[k] \/ calls'[k].at # "running"
    BY <1>1, <1>9, CloneEndsDoes, CloneFailsDoes, RestartDoes DEF CallGoes
  <2>2. UNCHANGED <<disk, swept, overlapped>>
    BY <1>9 DEF CloneEnds, CloneFails, Restart, gitVars, repoHistory
  <2> QED BY <2>1, <2>2 DEF RunsInTree
<1>10. ASSUME StaleUnlinks \/ StaleEmpties PROVE RunsInTree'
  <2>0. PICK t \in Sessions : t = staleAt[2]
    BY <1>10, OnSessions DEF StaleUnlinks, StaleEmpties
  <2>1. calls' = calls /\ overlapped \subseteq overlapped' /\ swept \subseteq swept'
        /\ \A s \in Sessions : disk'[s] = disk[s] \/ (Users(s) \subseteq swept')
    BY <1>1, <1>10, <2>0 DEF StaleUnlinks, StaleEmpties, GitRemove, EmptyAndDelete, Sweeps, Overlaps
  <2> QED BY <1>2, <1>3, <2>1 DEF RunsInTree
<1>11. ASSUME \/ TtlPasses \/ PushToOrigin \/ UNCHANGED repoVars
              \/ \E s \in Sessions : StaleStarts(s) \/ RecoverStat(s) \/ RecoverEnter(s)
       PROVE  RunsInTree'
  <2>1. UNCHANGED <<calls, disk, swept>> /\ overlapped \subseteq overlapped'
    BY <1>11 DEF TtlPasses, PushToOrigin, StaleStarts, RecoverStat, RecoverEnter, repoVars, gitVars,
                 repoHistory, Overlaps
  <2> QED BY <2>1 DEF RunsInTree
<1> QED BY <1>4, <1>5, <1>6, <1>7, <1>8, <1>9, <1>10, <1>11 DEF RepoNext, RepoStep

-----------------------------------------------------------------------------
(* What repo_cleanup leaves behind *)

\* Since a clean-up waits for the creations that are under way when it starts,
\* nothing is created during its removals and after it, unless it is touched.
Uncreated ==
    \A c \in DOMAIN calls \ touched : calls[c].op = "cleanup" =>
       /\ calls[c].at \in Removing \cup {"done"} => Creators(calls[c].on) = {}
       /\ calls[c].at = "settling" => Creators(calls[c].on) \subseteq calls[c].pending
       /\ calls[c].at = "done" => disk[calls[c].on] = "none"

\* What becomes of a clean-up in a step.
CleanupGoesOn(c) ==
    /\ c \in DOMAIN calls /\ calls[c].op = "cleanup"
    /\ calls'[c].on = calls[c].on /\ calls'[c].pending = calls[c].pending
    /\ \/ calls'[c].at = calls[c].at
       \/ calls'[c].at = "failed"
       \/ /\ calls[c].at = "settling" /\ calls'[c].at \in Removing
          /\ \A k \in calls[c].pending : calls[k].at \notin Creating
       \/ calls[c].at \in Removing /\ calls'[c].at \in Removing
       \/ calls[c].at = "sweeping" /\ calls'[c].at = "done" /\ disk'[calls[c].on] = "none"

CleanupBegins(c) ==
    \/ calls'[c].at = "settling" /\ calls'[c].pending = Creators(calls'[c].on)
    \/ calls'[c].at \in Removing /\ Creators(calls'[c].on) = {}

CleanupsThen == \A c \in DOMAIN calls' : calls'[c].op = "cleanup" => CleanupGoesOn(c) \/ CleanupBegins(c)

\* Every step treats clean-ups so.
LEMMA CleanupStep ==
    ASSUME RepoOK, [RepoNext]_repoVars
    PROVE  CleanupsThen
<1>1. RepoCallsOK /\ origin \in Nat /\ Len(calls) + 1 \notin DOMAIN calls
      /\ disk \in [Sessions -> {"none", "full", "husk"}]
  BY RepoOKParts, CallSequence DEF OtherTypes, RepoCallsOK
<1>2. \A c \in DOMAIN calls : calls[c] \in Call /\ calls[c].on \in Sessions
                              /\ (calls[c].at \in {"cloning", "joined"} => calls[c].op # "cleanup")
  BY OnSessions, CallKinds
<1>3. CASE calls' = calls
  BY <1>3 DEF CleanupsThen, CleanupGoesOn
<1>4. ASSUME NEW s \in Sessions, ToolArrives(s) \/ PrepareArrives(s) PROVE CleanupsThen
  <2>1. PICK o, place, wait : NewCall(o, s, place, wait) /\ o # "cleanup"
    BY <1>1, <1>4, ToolArrivesDoes, PrepareArrivesDoes
  <2> QED BY <1>1, <2>1 DEF CleanupsThen, CleanupGoesOn, NewCall
<1>5. ASSUME NEW s \in Sessions, CleanupArrives(s) PROVE CleanupsThen
  <2>1. PICK place, wait : /\ NewCall("cleanup", s, place, wait)
                           /\ \/ place = "settling" /\ wait = Creators(s)
                              \/ place \in Removing /\ Creators(s) = {}
    BY <1>1, <1>5, CleanupArrivesDoes DEF FirstRemoval, Removing
  <2>2. CleanupBegins(Len(calls) + 1)
    BY <2>1 DEF CleanupBegins, NewCall
  <2>3. \A c \in DOMAIN calls : calls[c].op = "cleanup" => CleanupGoesOn(c)
    BY <2>1 DEF CleanupGoesOn, NewCall
  <2> QED BY <2>1, <2>2, <2>3 DEF CleanupsThen, NewCall
<1>6. ASSUME NEW c \in DOMAIN calls, Look(c) \/ CommandEnds(c) PROVE CleanupsThen
  <2>1. /\ calls[c].op = "tool" /\ calls'[c].op = "tool" /\ DOMAIN calls' = DOMAIN calls
        /\ \A k \in DOMAIN calls : k # c => calls'[k] = calls[k]
    BY <1>1, <1>6, LookDoes, MovesDo DEF OnlyGoes, OnlyWaits, CallGoes
  <2> QED BY <2>1 DEF CleanupsThen, CleanupGoesOn
<1>7. ASSUME NEW c \in DOMAIN calls, Settled(c) \/ Unlink(c) \/ Empty(c) \/ Sweep(c) PROVE CleanupsThen
  <2>0. PICK t \in Sessions : t = calls[c].on
    BY <1>2
  <2>1. PICK place : OnlyGoes(c, place) /\ calls[c].op = "cleanup" /\ (Settled(c) => place = FirstRemoval(t))
                     /\ (Unlink(c) => place = "emptying") /\ (Empty(c) => place = "sweeping")
                     /\ (Sweep(c) => place = "done")
    BY <1>1, <1>7, <2>0, MovesDo DEF Settled, Unlink, Empty, Sweep
  <2>2. \/ /\ calls[c].at = "settling" /\ place \in Removing
           /\ \A k \in calls[c].pending : calls[k].at \notin Creating
        \/ calls[c].at \in Removing /\ place \in Removing
        \/ calls[c].at = "sweeping" /\ place = "done" /\ disk'[t] = "none"
    BY <1>1, <1>7, <2>0, <2>1 DEF Settled, Unlink, Empty, Sweep, FirstRemoval, Removing
  <2>3. CleanupGoesOn(c)
    BY <2>0, <2>1, <2>2 DEF CleanupGoesOn, OnlyGoes, CallGoes
  <2> QED BY <2>1, <2>3 DEF CleanupsThen, CleanupGoesOn, OnlyGoes
<1>8. ASSUME NEW c \in DOMAIN calls, WorktreeAdd(c) \/ MakeTmp(c) \/ MakeTmpFails(c) PROVE CleanupsThen
  <2>1. DOMAIN calls' = DOMAIN calls
        /\ \A k \in DOMAIN calls : calls'[k] = calls[k] \/ (calls[k].op = "tool" /\ calls'[k].op = "tool")
    BY <1>1, <1>8, CreationDoes DEF OnlyGoes, ShareGoes, CallGoes
  <2> QED BY <2>1 DEF CleanupsThen, CleanupGoesOn
<1>9. ASSUME CloneEnds \/ CloneFails \/ Restart PROVE CleanupsThen
  <2>1. DOMAIN calls' = DOMAIN calls
        /\ \A k \in DOMAIN calls : calls[k].op = "cleanup" => calls'[k] = calls[k] \/ CallGoes(k, "failed")
    BY <1>1, <1>2, <1>9, CloneEndsDoes, CloneFailsDoes, RestartDoes
  <2>2. \A k \in DOMAIN calls : calls'[k].op = calls[k].op
    BY Sessionwise DEF Kept
  <2> QED BY <2>1, <2>2 DEF CleanupsThen, CleanupGoesOn, CallGoes
<1> QED BY <1>3, <1>4, <1>5, <1>6, <1>7, <1>8, <1>9
        DEF RepoNext, RepoStep, StaleUnlinks, StaleEmpties, StaleStarts, RecoverStat, RecoverEnter,
            TtlPasses, PushToOrigin, repoVars

\* Every step keeps what clean-ups have reached.
LEMMA UncreatedStep ==
    ASSUME RepoOK, Uncreated, [RepoNext]_repoVars
    PROVE  Uncreated'
<1>1. Kept /\ CleanupsThen /\ \A s \in Sessions : SessionStep(s)
  BY Sessionwise, CleanupStep
<1>2. RepoOK'
  BY RepoOKStep
<1>3. ASSUME NEW c \in DOMAIN calls' \ touched', NEW s \in Sessions,
             calls'[c].op = "cleanup", calls'[c].on = s
      PROVE  /\ calls'[c].at \in Removing \cup {"done"} => Creators(s)' = {}
             /\ calls'[c].at = "settling" => Creators(s)' \subseteq calls'[c].pending
             /\ calls'[c].at = "done" => disk'[s] = "none"
  <2>1. SessionStep(s) /\ c \in CallsOn("cleanup", s)'
    BY <1>1, <1>3 DEF CallsOn
  <2>2. Creators(s)' \subseteq Creators(s)
    BY <1>3, <2>1 DEF SessionStep, CreationBegins, NoneBegins
  <2>3. CASE CleanupBegins(c)
    BY <1>3, <2>2, <2>3 DEF CleanupBegins, Removing
  <2>4. CASE CleanupGoesOn(c)
    <3>1. c \notin touched /\ c \in DOMAIN calls /\ calls[c].op = "cleanup" /\ calls[c].on = s
      BY <1>1, <1>3, <2>4 DEF Kept, CleanupGoesOn
    <3>2. /\ calls[c].at \in Removing \cup {"done"} => Creators(s) = {}
          /\ calls[c].at = "settling" => Creators(s) \subseteq calls[c].pending
          /\ calls[c].at = "done" => disk[s] = "none"
      BY <3>1 DEF Uncreated
    <3>3. calls[c].at = "settling" /\ calls'[c].at \in Removing => Creators(s) = {}
      BY <2>4, <3>2, WhoCreates DEF CleanupGoesOn, Removing
    <3>4. calls[c].at = "done" => disk'[s] = "none"
      BY <2>1, <3>2 DEF SessionStep, DiskStep
    <3> QED BY <2>2, <2>4, <3>1, <3>2, <3>3, <3>4 DEF CleanupGoesOn, Removing
  <2> QED BY <1>1, <1>3, <2>3, <2>4 DEF CleanupsThen
<1>4. \A c \in DOMAIN calls' : calls'[c].on \in Sessions
  BY <1>2, RepoOKParts, CallSequence, CallKinds DEF RepoCallsOK
<1> QED BY <1>3, <1>4 DEF Uncreated

\* Nothing has failed so far, and there was no restart.
Calm == repoSpent.failures + repoSpent.restarts = 0

\* A removal of s that has dealt with git.
Late(s) ==
    \/ \E c \in CallsOn("cleanup", s) : calls[c].at \in {"emptying", "sweeping"}
    \/ staleAt[1] = "emptying" /\ staleAt[2] = s

\* The list of git is true while nothing fails: who is on it has a worktree that
\* somebody will remove,
ListedFull ==
    Calm => \A s \in Sessions \ overlapped : s \in registered =>
                disk[s] = "full" /\ bare = "ready" /\ (s \in worktrees \/ AboutToEnter(s))

\* which strikes it off before it empties the directory.
StruckOff == Calm => \A s \in Sessions \ overlapped : Late(s) => s \notin registered

\* And so it stays when a clean-up has ended.
ReleasedStays ==
    Calm => \A s \in Sessions \ overlapped : \A c \in CallsOn("cleanup", s) \ touched :
                calls[c].at = "done" => s \notin registered

\* Such a removal is one, said of the calls one by one.
LEMMA LateIsRemoval ==
    /\ \A s : Late(s) => RemovalOf(s)
    /\ \A s : Late(s) <=> \/ \E c \in DOMAIN calls : /\ calls[c].op = "cleanup" /\ calls[c].on = s
                                                     /\ calls[c].at \in {"emptying", "sweeping"}
                          \/ staleAt[1] = "emptying" /\ staleAt[2] = s
    /\ \A s : Late(s)' <=> \/ \E c \in DOMAIN calls' : /\ calls'[c].op = "cleanup" /\ calls'[c].on = s
                                                       /\ calls'[c].at \in {"emptying", "sweeping"}
                           \/ staleAt'[1] = "emptying" /\ staleAt'[2] = s
  BY DEF Late, RemovalOf, CallsOn, Removing

\* It was calm before, and nothing failed just now.
LEMMA CalmBefore ==
    ASSUME RepoOK, [RepoNext]_repoVars, Calm'
    PROVE  /\ Calm /\ ~SpendRepo("failures") /\ ~SpendRepo("restarts")
<1>1. repoSpent \in [{"pushes", "failures", "restarts", "ttls"} -> Nat]
  BY RepoOKParts DEF OtherTypes, RepoBounds
<1>2. ASSUME NEW w \in {"pushes", "failures", "restarts", "ttls"}, SpendRepo(w)
      PROVE  Calm /\ w \notin {"failures", "restarts"}
  BY <1>1, <1>2 DEF SpendRepo, Calm
<1>3. CASE repoSpent' = repoSpent
  <2>1. ASSUME NEW w \in {"failures", "restarts"}, SpendRepo(w) PROVE FALSE
    BY <1>1, <1>3, <2>1 DEF SpendRepo
  <2> QED BY <1>3, <2>1 DEF Calm
<1>4. \/ repoSpent' = repoSpent
      \/ \E w \in {"pushes", "failures", "restarts", "ttls"} : SpendRepo(w)
  BY DEF RepoNext, RepoStep, ToolArrives, PrepareArrives, CleanupArrives, Look, CommandEnds, WorktreeAdd, MakeTmp,
         MakeTmpFails, Settled, Unlink, Empty, Sweep, GitRemove, CloneEnds, CloneFails, StaleUnlinks, StaleEmpties,
         StaleStarts, RecoverStat, RecoverEnter, TtlPasses, Restart, PushToOrigin, repoVars
<1> QED BY <1>2, <1>3, <1>4

\* Who comes on the list of git has just been created.
LEMMA ListGrows ==
    ASSUME RepoOK, [RepoNext]_repoVars, NEW s \in Sessions, s \in registered', s \notin registered
    PROVE  /\ \E c \in Creators(s) : calls[c].at = "adding"
           /\ disk'[s] = "full" /\ bare' = "ready" /\ AboutToEnter(s)'
<1>1. PICK c \in DOMAIN calls : WorktreeAdd(c) /\ Addable(calls[c].on) /\ s = calls[c].on
  BY DEF RepoNext, RepoStep, ToolArrives, PrepareArrives, CleanupArrives, Look, CommandEnds, WorktreeAdd, MakeTmp,
         MakeTmpFails, Settled, Unlink, Empty, Sweep, GitRemove, CloneEnds, CloneFails, StaleUnlinks, StaleEmpties,
         StaleStarts, RecoverStat, RecoverEnter, TtlPasses, Restart, PushToOrigin, repoVars, gitVars
<1>2. /\ RepoCallsOK /\ disk \in [Sessions -> {"none", "full", "husk"}] /\ calls[c].op = "tool"
      /\ OnlyGoes(c, "mkdir") /\ calls[c].at = "adding"
  BY <1>1, RepoOKParts, CreationDoes DEF OtherTypes, WorktreeAdd
<1>3. c \in Creators(s) /\ AboutToEnter(s)'
  BY <1>1, <1>2, WhoCreates, WhoIsAbout DEF Creating, OnlyGoes, CallGoes
<1>4. disk' = [disk EXCEPT ![s] = "full"] /\ bare = "ready" /\ bare' = bare
  BY <1>1 DEF WorktreeAdd, Addable
<1> QED BY <1>2, <1>3, <1>4

\* Who is about to enter its worktree in the map does so, if nothing fails.
LEMMA AboutStep ==
    ASSUME RepoOK, [RepoNext]_repoVars, ~SpendRepo("failures"), ~SpendRepo("restarts"),
           NEW s \in Sessions, AboutToEnter(s)
    PROVE  AboutToEnter(s)' \/ s \in worktrees'
<1>1. RepoCallsOK /\ origin \in Nat
  BY RepoOKParts DEF OtherTypes
<1>2. PICK k \in DOMAIN calls : calls[k].op = "tool" /\ calls[k].on = s /\ calls[k].at = "mkdir"
  BY WhoIsAbout
<1>3. CASE k \in DOMAIN calls' /\ calls'[k] = calls[k]
  BY <1>2, <1>3, WhoIsAbout
<1>4. ASSUME NEW t \in Sessions, ToolArrives(t) \/ PrepareArrives(t) \/ CleanupArrives(t)
      PROVE  k \in DOMAIN calls' /\ calls'[k] = calls[k]
  BY <1>1, <1>4, ToolArrivesDoes, PrepareArrivesDoes, CleanupArrivesDoes DEF NewCall
<1>5. ASSUME NEW c \in DOMAIN calls,
             Look(c) \/ CommandEnds(c) \/ Settled(c) \/ Unlink(c) \/ Empty(c) \/ Sweep(c)
      PROVE  k \in DOMAIN calls' /\ calls'[k] = calls[k]
  <2>1. k # c
    BY <1>2, <1>5 DEF Look, CommandEnds, Settled, Unlink, Empty, Sweep
  <2> QED BY <1>1, <1>5, <2>1, LookDoes, MovesDo DEF OnlyGoes, OnlyWaits
<1>6. ASSUME NEW c \in DOMAIN calls, WorktreeAdd(c)
      PROVE  k \in DOMAIN calls' /\ calls'[k] = calls[k]
  <2>1. k # c /\ k \notin Sharing(c)
    BY <1>2, <1>6 DEF WorktreeAdd, Sharing
  <2> QED BY <1>1, <1>6, <2>1, CreationDoes DEF OnlyGoes, ShareGoes
<1>7. ASSUME NEW c \in DOMAIN calls, MakeTmp(c)
      PROVE  (k \in DOMAIN calls' /\ calls'[k] = calls[k]) \/ s \in worktrees'
  <2>1. CASE k = c
    BY <1>2, <1>7, <2>1 DEF MakeTmp, EnteredIn
  <2>2. CASE k # c
    <3>1. k \notin Sharing(c)
      BY <1>2, <2>2 DEF Sharing
    <3> QED BY <1>1, <1>7, <3>1, CreationDoes DEF ShareGoes
  <2> QED BY <2>1, <2>2
<1>8. CASE CloneEnds
  BY <1>1, <1>2, <1>3, <1>8, CloneEndsDoes
<1>9. CASE calls' = calls
  BY <1>3, <1>9
<1> QED BY <1>3, <1>4, <1>5, <1>6, <1>7, <1>8, <1>9
        DEF RepoNext, RepoStep, CloneFails, MakeTmpFails, Restart, StaleUnlinks, StaleEmpties, StaleStarts,
            RecoverStat, RecoverEnter, TtlPasses, PushToOrigin, repoVars

\* How a removal gets past git.
LEMMA LateThen ==
    ASSUME RepoOK, [RepoNext]_repoVars, NEW s \in Sessions, Late(s)'
    PROVE  \/ Late(s)
           \/ GitRemove(s)
           \/ registered' = registered /\ s \notin worktrees /\ (Creators(s) = {} \/ s \in overlapped')
<1>1. RepoCallsOK /\ origin \in Nat /\ Len(calls) + 1 \notin DOMAIN calls
  BY RepoOKParts, CallSequence DEF OtherTypes, RepoCallsOK
<1>2. \A c \in DOMAIN calls : calls[c] \in Call /\ calls[c].on \in Sessions
  BY OnSessions
<1>3. CASE calls' = calls /\ (staleAt' = staleAt \/ staleAt'[1] # "emptying")
  BY <1>3, LateIsRemoval
<1>4. ASSUME NEW t \in Sessions, ToolArrives(t) \/ PrepareArrives(t) PROVE Late(s)
  <2>1. PICK o, place, wait : NewCall(o, t, place, wait) /\ o # "cleanup"
    BY <1>1, <1>4, ToolArrivesDoes, PrepareArrivesDoes
  <2>2. staleAt' = staleAt
    BY <1>4 DEF ToolArrives, PrepareArrives, staleVars
  <2> QED BY <2>1, <2>2, LateIsRemoval DEF NewCall
<1>5. ASSUME NEW t \in Sessions, CleanupArrives(t)
      PROVE  Late(s) \/ (registered' = registered /\ s \notin worktrees /\ Creators(s) = {})
  <2>1. staleAt' = staleAt /\ registered' = registered
    BY <1>5 DEF CleanupArrives, staleVars, gitVars
  <2>2. CASE NewCall("cleanup", t, "settling", Creators(t))
    BY <2>1, <2>2, LateIsRemoval DEF NewCall
  <2>3. CASE Creators(t) = {} /\ NewCall("cleanup", t, FirstRemoval(t), {})
    BY <2>1, <2>3, LateIsRemoval DEF NewCall, FirstRemoval
  <2> QED BY <1>1, <1>5, <2>2, <2>3, CleanupArrivesDoes
<1>6. ASSUME NEW c \in DOMAIN calls, Look(c) \/ CommandEnds(c) PROVE Late(s)
  <2>1. /\ calls[c].op = "tool" /\ calls'[c].op = "tool" /\ DOMAIN calls' = DOMAIN calls
        /\ \A k \in DOMAIN calls : k # c => calls'[k] = calls[k]
    BY <1>1, <1>6, LookDoes, MovesDo DEF OnlyGoes, OnlyWaits, CallGoes
  <2>2. staleAt' = staleAt
    BY <1>6 DEF Look, CommandEnds, staleVars
  <2> QED BY <2>1, <2>2, LateIsRemoval
<1>7. ASSUME NEW c \in DOMAIN calls, Settled(c)
      PROVE  Late(s) \/ (registered' = registered /\ s \notin worktrees /\ (Creators(s) = {} \/ s \in overlapped'))
  <2>0. PICK t \in Sessions : t = calls[c].on
    BY <1>2
  <2>1. /\ staleAt' = staleAt /\ registered' = registered /\ overlapped' = Overlaps(t)
        /\ OnlyGoes(c, FirstRemoval(t))
    BY <1>1, <1>7, <2>0, MovesDo DEF Settled, staleVars, gitVars
  <2> QED BY <2>0, <2>1, LateIsRemoval DEF OnlyGoes, CallGoes, FirstRemoval, Overlaps
<1>8. ASSUME NEW c \in DOMAIN calls, Unlink(c) PROVE Late(s) \/ GitRemove(s)
  <2>1. OnlyGoes(c, "emptying") /\ GitRemove(calls[c].on) /\ staleAt' = staleAt
    BY <1>1, <1>8, MovesDo DEF Unlink, staleVars
  <2> QED BY <2>1, LateIsRemoval DEF OnlyGoes, CallGoes
<1>9. ASSUME NEW c \in DOMAIN calls, Empty(c) \/ Sweep(c) PROVE Late(s)
  <2>1. /\ OnlyGoes(c, "sweeping") \/ OnlyGoes(c, "done")
        /\ calls[c].op = "cleanup" /\ calls[c].at \in {"emptying", "sweeping"} /\ staleAt' = staleAt
    BY <1>1, <1>9, MovesDo DEF Empty, Sweep, staleVars
  <2> QED BY <2>1, LateIsRemoval DEF OnlyGoes, CallGoes
<1>10. ASSUME NEW c \in DOMAIN calls, WorktreeAdd(c) \/ MakeTmp(c) \/ MakeTmpFails(c) PROVE Late(s)
  <2>1. DOMAIN calls' = DOMAIN calls
        /\ \A k \in DOMAIN calls : calls'[k] = calls[k] \/ (calls[k].op = "tool" /\ calls'[k].op = "tool")
    BY <1>1, <1>10, CreationDoes DEF OnlyGoes, ShareGoes, CallGoes
  <2>2. staleAt' = staleAt
    BY <1>10 DEF WorktreeAdd, MakeTmp, MakeTmpFails, staleVars
  <2> QED BY <2>1, <2>2, LateIsRemoval
<1>11. ASSUME CloneEnds \/ CloneFails \/ Restart PROVE Late(s)
  <2>1. DOMAIN calls' = DOMAIN calls
        /\ \A k \in DOMAIN calls : \/ calls'[k] = calls[k]
                                   \/ CallGoes(k, "failed") \/ CallGoes(k, "adding") \/ CallGoes(k, "done")
    BY <1>1, <1>11, CloneEndsDoes, CloneFailsDoes, RestartDoes
  <2>2. staleAt' = staleAt \/ staleAt' = <<"idle">>
    BY <1>11 DEF CloneEnds, CloneFails, Restart, staleVars
  <2> QED BY <2>1, <2>2, LateIsRemoval DEF CallGoes
<1>12. CASE StaleUnlinks
  <2>1. calls' = calls /\ staleAt' = <<"emptying", staleAt[2]>> /\ GitRemove(staleAt[2])
    BY <1>12 DEF StaleUnlinks
  <2> QED BY <2>1, LateIsRemoval
<1>13. CASE StaleEmpties \/ \E t \in Sessions : StaleStarts(t)
  <2>1. calls' = calls /\ staleAt'[1] # "emptying"
    BY <1>13 DEF StaleEmpties, StaleStarts
  <2> QED BY <1>3, <2>1
<1>14. CASE TtlPasses \/ PushToOrigin \/ UNCHANGED repoVars \/ \E t \in Sessions : RecoverStat(t) \/ RecoverEnter(t)
  BY <1>3, <1>14 DEF TtlPasses, PushToOrigin, RecoverStat, RecoverEnter, repoVars, staleVars
<1> QED BY <1>4, <1>5, <1>6, <1>7, <1>8, <1>9, <1>10, <1>11, <1>12, <1>13, <1>14 DEF RepoNext, RepoStep

\* A worktree on the list stays on the disk and in the map until a removal has
\* struck it off.
LEMMA ListedStays ==
    ASSUME RepoOK, [RepoNext]_repoVars, ~SpendRepo("failures"), ~SpendRepo("restarts"), NEW s \in Sessions,
           s \in registered, s \in registered', ~Late(s), disk[s] = "full", bare = "ready"
    PROVE  disk'[s] = "full" /\ bare' = "ready" /\ (s \in worktrees => s \in worktrees')
<1>1. RepoCallsOK /\ disk \in [Sessions -> {"none", "full", "husk"}]
  BY RepoOKParts DEF OtherTypes
<1>2. \A c \in DOMAIN calls : /\ calls[c] \in Call /\ calls[c].on \in Sessions
                              /\ calls[c].at \in {"emptying", "sweeping"} => calls[c].on # s
  <2>1. \A c \in DOMAIN calls : calls[c].at \in {"emptying", "sweeping"} => calls[c].op = "cleanup"
    BY OnSessions, CallKinds DEF Removing
  <2> QED BY <2>1, OnSessions, LateIsRemoval
<1>3. bare' = "ready"
  BY DEF RepoNext, RepoStep, ToolArrives, PrepareArrives, CleanupArrives, Look, CommandEnds, WorktreeAdd, MakeTmp,
         MakeTmpFails, Settled, Unlink, Empty, Sweep, GitRemove, CloneEnds, CloneFails, StaleUnlinks, StaleEmpties,
         StaleStarts, RecoverStat, RecoverEnter, TtlPasses, Restart, PushToOrigin, repoVars, gitVars
<1>4. ASSUME NEW t \in Sessions, GitRemove(t) PROVE disk'[s] = "full"
  BY <1>1, <1>4 DEF GitRemove
<1>5. CASE disk' = disk /\ worktrees \subseteq worktrees'
  BY <1>3, <1>5
<1>6. ASSUME NEW c \in DOMAIN calls, Unlink(c) PROVE disk'[s] = "full" /\ worktrees' = worktrees
  BY <1>2, <1>4, <1>6 DEF Unlink, mapVars
<1>7. ASSUME NEW c \in DOMAIN calls, Empty(c) \/ Sweep(c)
      PROVE  disk'[s] = "full" /\ (s \in worktrees => s \in worktrees')
  <2>1. calls[c].on # s
    BY <1>2, <1>7 DEF Empty, Sweep
  <2> QED BY <1>1, <1>7, <2>1 DEF Empty, Sweep, EmptyAndDelete, mapVars
<1>8. ASSUME NEW c \in DOMAIN calls, WorktreeAdd(c) \/ MakeTmp(c)
      PROVE  disk'[s] = "full" /\ worktrees \subseteq worktrees'
  BY <1>1, <1>8 DEF WorktreeAdd, MakeTmp, EnteredIn, mapVars
<1>9. CASE StaleUnlinks
  <2>1. staleAt[2] \in Sessions /\ GitRemove(staleAt[2]) /\ worktrees' = worktrees
    BY <1>9, OnSessions DEF StaleUnlinks, mapVars
  <2> QED BY <1>3, <1>4, <2>1
<1>10. CASE StaleEmpties
  <2>1. staleAt[2] # s
    BY <1>10 DEF StaleEmpties, Late
  <2>2. disk' = [disk EXCEPT ![staleAt[2]] = "none"] /\ worktrees' = worktrees \ {staleAt[2]}
    BY <1>10 DEF StaleEmpties, EmptyAndDelete
  <2> QED BY <1>1, <1>3, <2>1, <2>2
<1>11. ASSUME NEW c \in DOMAIN calls, Look(c) \/ CommandEnds(c) \/ Settled(c) \/ MakeTmpFails(c)
       PROVE  disk' = disk /\ worktrees' = worktrees
  BY <1>11 DEF Look, CommandEnds, Settled, MakeTmpFails, gitVars, mapVars
<1>12. ASSUME NEW t \in Sessions, \/ ToolArrives(t) \/ PrepareArrives(t) \/ CleanupArrives(t)
                                  \/ StaleStarts(t) \/ RecoverStat(t) \/ RecoverEnter(t)
       PROVE  disk' = disk /\ worktrees \subseteq worktrees'
  BY <1>12 DEF ToolArrives, PrepareArrives, CleanupArrives, StaleStarts, RecoverStat, RecoverEnter, gitVars, mapVars
<1>13. CASE CloneEnds \/ CloneFails \/ TtlPasses \/ PushToOrigin \/ UNCHANGED repoVars
  <2>1. disk' = disk /\ worktrees' = worktrees
    BY <1>13 DEF CloneEnds, CloneFails, TtlPasses, PushToOrigin, repoVars, gitVars, mapVars
  <2> QED BY <1>3, <2>1
<1>14. CASE Restart
  BY <1>14 DEF Restart
<1> QED BY <1>3, <1>5, <1>6, <1>7, <1>8, <1>9, <1>10, <1>11, <1>12, <1>13, <1>14 DEF RepoNext, RepoStep

ListInv == ListedFull /\ StruckOff /\ ReleasedStays

\* Every step keeps the list true.
LEMMA ListStep ==
    ASSUME RepoOK, CreationsApart, Uncreated, ListInv, [RepoNext]_repoVars
    PROVE  ListInv'
<1>1. Kept /\ CleanupsThen
  BY Sessionwise, CleanupStep
<1>2. RepoOK'
  BY RepoOKStep
<1>3. ASSUME Calm', NEW s \in Sessions, s \notin overlapped'
      PROVE  /\ s \in registered' => /\ disk'[s] = "full" /\ bare' = "ready"
                                     /\ s \in worktrees' \/ AboutToEnter(s)'
             /\ Late(s)' => s \notin registered'
             /\ \A c \in CallsOn("cleanup", s)' \ touched' : calls'[c].at = "done" => s \notin registered'
  <2>1. Calm /\ ~SpendRepo("failures") /\ ~SpendRepo("restarts") /\ s \notin overlapped
    BY <1>1, <1>3, CalmBefore DEF Kept
  <2>2. /\ s \in registered => disk[s] = "full" /\ bare = "ready" /\ (s \in worktrees \/ AboutToEnter(s))
        /\ Late(s) => s \notin registered
        /\ \A c \in CallsOn("cleanup", s) \ touched : calls[c].at = "done" => s \notin registered
    BY <1>3, <2>1 DEF ListInv, ListedFull, StruckOff, ReleasedStays
  <2>3. AboutToEnter(s) => Creators(s) # {}
    BY DEF AboutToEnter
  <2>4. s \in registered' => s \in registered \/ (Creators(s) # {} /\ ~Late(s))
    <3>1. ASSUME s \in registered', s \notin registered PROVE Creators(s) # {}
      BY <3>1, ListGrows
    <3>2. Creators(s) # {} => ~RemovalOf(s)
      BY <1>3, <2>1 DEF CreationsApart, OverlapNoted
    <3> QED BY <3>1, <3>2, LateIsRemoval
  <2>5. ASSUME s \in registered' PROVE disk'[s] = "full" /\ bare' = "ready" /\ (s \in worktrees' \/ AboutToEnter(s)')
    <3>1. CASE s \notin registered
      BY <2>5, <3>1, ListGrows
    <3>2. CASE s \in registered
      <4>1. disk'[s] = "full" /\ bare' = "ready" /\ (s \in worktrees => s \in worktrees')
        BY <2>1, <2>2, <2>5, <3>2, ListedStays
      <4>2. AboutToEnter(s) => AboutToEnter(s)' \/ s \in worktrees'
        BY <2>1, AboutStep
      <4> QED BY <2>2, <3>2, <4>1, <4>2
    <3> QED BY <3>1, <3>2
  <2>6. GitRemove(s) => s \notin registered'
    BY <2>1, <2>2 DEF GitRemove
  <2>7. Late(s)' => s \notin registered'
    BY <1>3, <2>2, <2>3, <2>4, <2>6, LateThen
  <2>8. ASSUME NEW c \in CallsOn("cleanup", s)' \ touched', calls'[c].at = "done" PROVE s \notin registered'
    <3>1. c \in DOMAIN calls' /\ calls'[c].op = "cleanup" /\ calls'[c].on = s
      BY <2>8 DEF CallsOn
    <3>2. CleanupGoesOn(c)
      BY <1>1, <2>8, <3>1 DEF CleanupsThen, CleanupBegins, Removing
    <3>3. c \in CallsOn("cleanup", s) \ touched /\ c \in DOMAIN calls \ touched /\ calls[c].op = "cleanup"
          /\ calls[c].on = s /\ calls[c].at \in {"sweeping", "done"}
      BY <1>1, <2>8, <3>1, <3>2 DEF CleanupGoesOn, CallsOn, Kept, Removing
    <3>4. Creators(s) = {}
      BY <3>3 DEF Uncreated, Removing
    <3>5. s \notin registered
      BY <2>2, <3>3, LateIsRemoval
    <3> QED BY <2>4, <3>4, <3>5
  <2> QED BY <2>5, <2>7, <2>8
<1>4. ListedFull' /\ StruckOff' /\ ReleasedStays'
  BY <1>3 DEF ListedFull, StruckOff, ReleasedStays
<1> QED BY <1>4 DEF ListInv

-----------------------------------------------------------------------------
(* The theorems *)

\* The inductive invariant: types; creations are apart from each other and, where
\* it is not noted, from removals; what clean-ups leave; the list of git.
WorktreeInv ==
    /\ RepoOK /\ CreationsApart /\ JoinsOwn /\ WorktreesOnRecord /\ RunsInTree /\ Uncreated /\ ListInv

\* At the start.
LEMMA WorktreeInvInit == RepoInit => WorktreeInv
<1> SUFFICES ASSUME RepoInit PROVE WorktreeInv
  OBVIOUS
<1>1. RepoOK
  BY RepoOKInit
<1>2. /\ DOMAIN calls = {} /\ disk \in [Sessions -> {"none"}] /\ registered = {} /\ staleAt = <<"idle">>
      /\ recovery = [s \in Sessions |-> "no"]
  BY DEF RepoInit
<1>3. \A s : Creators(s) = {} /\ CallsOn("cleanup", s) = {} /\ CallsOn("tool", s) = {}
  BY <1>2 DEF Creators, CallsOn
<1>4. CreationsApart
  BY <1>2, <1>3 DEF CreationsApart, CreatorAlone, OverlapNoted, MadeFull, NoHusk
<1>5. JoinsOwn /\ RunsInTree /\ Uncreated /\ WorktreesOnRecord
  BY <1>2 DEF JoinsOwn, RunsInTree, Uncreated, WorktreesOnRecord
<1>6. ListInv
  BY <1>2 DEF ListInv, ListedFull, StruckOff, ReleasedStays
<1> QED BY <1>1, <1>4, <1>5, <1>6 DEF WorktreeInv

\* Every step preserves it.
LEMMA WorktreeInvStep == WorktreeInv /\ [RepoNext]_repoVars => WorktreeInv'
<1> SUFFICES ASSUME WorktreeInv, [RepoNext]_repoVars PROVE WorktreeInv'
  OBVIOUS
<1>1. RepoOK /\ CreationsApart /\ JoinsOwn /\ WorktreesOnRecord /\ RunsInTree /\ Uncreated /\ ListInv
  BY DEF WorktreeInv
<1>2. RepoOK' /\ CreationsApart'
  BY <1>1, RepoOKStep, ApartStep
<1>3. JoinsOwn' /\ WorktreesOnRecord' /\ Uncreated'
  BY <1>1, JoinsStep, OnRecordStep, UncreatedStep
<1>4. RunsInTree' /\ ListInv'
  BY <1>1, <1>2, RunsStep, ListStep
<1> QED BY <1>2, <1>3, <1>4 DEF WorktreeInv

\* It holds in every reachable state.
THEOREM WorktreeInvHolds == RepoSpec => []WorktreeInv
  BY WorktreeInvInit, WorktreeInvStep, PTL DEF RepoSpec

\* The variables of mcp-repo keep their types, for any sessions, calls, failures,
\* restarts and pushes.
THEOREM RepoTypes == RepoSpec => []RepoTypeOK
<1>1. WorktreeInv => RepoTypeOK
  BY DEF WorktreeInv, RepoOK
<1> QED BY <1>1, WorktreeInvHolds, PTL

\* A worktree on the disk is known to somebody who will remove it, however
\* creations, clean-ups, the stale clean-up and restarts meet, unless its creation
\* failed half-way: WorktreesOnRecord is an invariant (getOrCreateWorktree,
\* removeWorktree, recoverOrphanedWorktrees).
THEOREM WorktreesAreOnRecord == RepoSpec => []WorktreesOnRecord
<1>1. WorktreeInv => WorktreesOnRecord
  BY DEF WorktreeInv
<1> QED BY <1>1, WorktreeInvHolds, PTL

\* A command runs in a worktree, with any number of sessions and calls, unless the
\* session was cleaned up meanwhile or in the middle of its creation: RunsInTree is
\* an invariant (getOrCreateWorktree, executeCommand).
THEOREM CommandsRunInTrees == RepoSpec => []RunsInTree
<1>1. WorktreeInv => RunsInTree
  BY DEF WorktreeInv
<1> QED BY <1>1, WorktreeInvHolds, PTL

\* When repo_cleanup has ended nothing is left of its session until it is created
\* again, nor, if nothing failed, ran together or was restarted, on git's list:
\* SessionReleased is an invariant (cleanupSession).
THEOREM SessionsAreReleased == RepoSpec => []SessionReleased
<1>1. ASSUME WorktreeInv PROVE SessionReleased
  <2>1. \A c \in DOMAIN calls : calls[c].on \in Sessions
    BY <1>1, OnSessions DEF WorktreeInv
  <2>2. ASSUME NEW c \in DOMAIN calls \ touched, NEW s \in Sessions, s = calls[c].on,
               calls[c].op = "cleanup", calls[c].at = "done"
        PROVE  /\ disk[s] = "none"
               /\ s \notin overlapped /\ Calm => s \notin registered
    <3>1. disk[s] = "none"
      BY <1>1, <2>2 DEF WorktreeInv, Uncreated
    <3>2. c \in CallsOn("cleanup", s) \ touched
      BY <2>2 DEF CallsOn
    <3>3. ListInv
      BY <1>1 DEF WorktreeInv
    <3> QED BY <2>2, <3>1, <3>2, <3>3 DEF ListInv, ReleasedStays
  <2> QED BY <2>1, <2>2 DEF SessionReleased, Calm
<1> QED BY <1>1, WorktreeInvHolds, PTL

=============================================================================
