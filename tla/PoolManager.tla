------------------------------ MODULE PoolManager ------------------------------
(***************************************************************************)
(* The connection pools of mcp-database, one per system of a customer,     *)
(* made when a tool first asks for it.  The configurations of the systems  *)
(* are cached; a call for a system that is not in the cache reads all of   *)
(* them again, and calls that miss meanwhile wait for the same reload.     *)
(*                                                                         *)
(* One process, one thread: an action is what runs between two awaits.     *)
(***************************************************************************)
EXTENDS Naturals

CONSTANTS
    MaxCalls,     \* bound on calls of tools that need a pool
    Systems,      \* ids that callers may name
    Configs,      \* what an active row may say of a system
    Absent,       \* no active row
    MaxEdits,     \* bound on changes of the rows
    MaxTroubles   \* bound on failed reads, lost connections and idle periods

ASSUME PoolAssumption ==
    /\ MaxCalls \in Nat /\ Absent \notin Configs
    /\ MaxEdits \in Nat /\ MaxTroubles \in Nat

\* The calls in the order in which they arrive; each connects at most one pool,
\* which is named after it.
Requests == 1 .. MaxCalls
NoPool == 0
Rows == [Systems -> Configs \cup {Absent}]

VARIABLES
    systemRows,   \* the active rows of the table System
    configs,      \* the cache, a Map
    reload, fresh,\* reloadPromise: none, reading, read; what the read returned
    pools,        \* the Map of pools: a pool is named after the call that made it
    idle,         \* the systems whose pool was not asked for in ten minutes
    poolConn,     \* of each pool: none, connecting, open, down, closed or failed
    built,        \* of each pool, the configuration it was made from
    poolCall, wanted, handle,  \* of each call: where it is, its system and pool
    serving,      \* not shut down
    poolSpent,
    \* history, read by the properties only
    twins,        \* pools connected while another was, to the same system
    overtaken,    \* pools connected while a reload changed their configuration
    gone,         \* calls whose system had no active row at some time since
    joined        \* calls that waited for a reload begun by another

cacheVars == <<systemRows, configs, reload, fresh>>
connVars == <<pools, idle, poolConn, built>>
callVars == <<poolCall, wanted, handle>>
poolHistory == <<twins, overtaken, gone, joined>>
poolVars == <<cacheVars, connVars, callVars, serving, poolSpent, poolHistory>>

PoolBounds == [edits |-> MaxEdits, troubles |-> MaxTroubles]
SpendPool(what) ==
    /\ poolSpent[what] < PoolBounds[what]
    /\ poolSpent' = [poolSpent EXCEPT ![what] = @ + 1]

Waiting == {r \in Requests : poolCall[r] = "reloading"}
Connecting == {r \in Requests : poolConn[r] = "connecting"}
Pooled == {s \in Systems : pools[s] # NoPool}

PoolInit ==
    /\ systemRows \in Rows /\ configs = systemRows
    /\ reload = "none" /\ fresh = systemRows
    /\ pools = [s \in Systems |-> NoPool] /\ idle = {}
    /\ poolConn = [r \in Requests |-> "none"] /\ built = [r \in Requests |-> Absent]
    /\ poolCall = [r \in Requests |-> "none"]
    /\ wanted \in [Requests -> Systems] /\ handle = [r \in Requests |-> NoPool]
    /\ serving = TRUE
    /\ poolSpent = [w \in DOMAIN PoolBounds |-> 0]
    /\ twins = {} /\ overtaken = {} /\ gone = {} /\ joined = {}

-----------------------------------------------------------------------------
(* createPool *)

\* The calls of R go on to createPool at the same moment, with the cache as it
\* is then: they connect, or throw "System not found".
Create(R, cache, conns) ==
    LET found == {r \in R : cache[wanted[r]] # Absent}
        now == Connecting \cup found
    IN  /\ poolConn' = [r \in Requests |-> IF r \in found THEN "connecting" ELSE conns[r]]
        /\ built' = [r \in Requests |-> IF r \in found THEN cache[wanted[r]] ELSE built[r]]
        /\ poolCall' = [r \in Requests |-> CASE r \in found -> "connecting"
                                             [] r \in R \ found -> "refused"
                                             [] OTHER -> poolCall[r]]
        /\ twins' = twins \cup {r \in now : \E q \in now \ {r} : wanted[q] = wanted[r]}

\* Variant: the pool is not entered.
EnteredNever(r) == pools

\* pools.set: whatever the map held for the system is replaced.
Entered(r) == [pools EXCEPT ![wanted[r]] = r]

Connected(r) ==
    /\ poolConn[r] = "connecting"
    /\ poolConn' = [poolConn EXCEPT ![r] = "open"]
    /\ pools' = Entered(r)
    /\ idle' = idle \ {wanted[r]}
    /\ poolCall' = [poolCall EXCEPT ![r] = "querying"]
    /\ handle' = [handle EXCEPT ![r] = r]
    /\ UNCHANGED <<cacheVars, built, wanted, serving, poolSpent, poolHistory>>

ConnectFails(r) ==
    /\ poolConn[r] = "connecting"
    /\ poolConn' = [poolConn EXCEPT ![r] = "failed"]
    /\ poolCall' = [poolCall EXCEPT ![r] = "failed"]
    /\ UNCHANGED <<cacheVars, pools, idle, built, wanted, handle, serving, poolSpent, poolHistory>>

-----------------------------------------------------------------------------
(* getPool *)

Arrives(r) ==
    /\ serving /\ poolCall[r] = "none"
    /\ r > 1 => poolCall[r - 1] # "none"
    /\ gone' = IF systemRows[wanted[r]] = Absent THEN gone \cup {r} ELSE gone

Usable(p) == p # NoPool /\ poolConn[p] = "open"

Hit(r) ==
    /\ Arrives(r)
    /\ Usable(pools[wanted[r]])
    /\ idle' = idle \ {wanted[r]}
    /\ poolCall' = [poolCall EXCEPT ![r] = "querying"]
    /\ handle' = [handle EXCEPT ![r] = pools[wanted[r]]]
    /\ UNCHANGED <<cacheVars, pools, poolConn, built, wanted, serving, poolSpent,
                   twins, overtaken, joined>>

\* A pool that lost its connection leaves the map.
Misses(r) ==
    /\ Arrives(r)
    /\ ~Usable(pools[wanted[r]])
    /\ pools' = [pools EXCEPT ![wanted[r]] = NoPool]
    /\ idle' = idle \ {wanted[r]}

Miss(r) ==
    /\ Misses(r)
    /\ configs[wanted[r]] # Absent
    /\ Create({r}, configs, poolConn)
    /\ UNCHANGED <<cacheVars, wanted, handle, serving, poolSpent, overtaken, joined>>

\* triggerReload: an unknown system starts a reload or joins the one in flight.
MissUnknown(r) ==
    /\ Misses(r)
    /\ configs[wanted[r]] = Absent
    /\ poolCall' = [poolCall EXCEPT ![r] = "reloading"]
    /\ reload' = IF reload = "none" THEN "reading" ELSE reload
    /\ joined' = IF reload = "none" THEN joined ELSE joined \cup {r}
    /\ UNCHANGED <<systemRows, configs, fresh, poolConn, built, wanted, handle,
                   serving, poolSpent, twins, overtaken>>

\* The queries of the tool, over the pool it holds: closed or not, a query that
\* runs is answered; one that comes after fails.
Answer(r) ==
    /\ poolCall[r] = "querying"
    /\ \E end \in IF poolConn[handle[r]] = "open" THEN {"done"} ELSE {"done", "failed"} :
           poolCall' = [poolCall EXCEPT ![r] = end]
    /\ UNCHANGED <<cacheVars, connVars, wanted, handle, serving, poolSpent, poolHistory>>

-----------------------------------------------------------------------------
(* doReload *)

\* Variant: what is cached is taken for the rows.
RowsNowCached == configs

\* The active rows, as the loader finds them.
RowsNow == systemRows

\* The database answers with the rows of that moment; the answer is on its way.
ReadRows ==
    /\ reload = "reading"
    /\ reload' = "read" /\ fresh' = RowsNow
    /\ UNCHANGED <<systemRows, configs, connVars, callVars, serving, poolSpent, poolHistory>>

\* Variant: systems that are gone keep their pools.
OutdatedIfChanged(s) == pools[s] # NoPool /\ fresh[s] \notin {configs[s], Absent}

\* The pools of systems that were removed or changed.
Outdated(s) == pools[s] # NoPool /\ (fresh[s] = Absent \/ fresh[s] # configs[s])

\* reloadSystems; then finally clears reloadPromise, and all who wait go on.
ReloadSystems ==
    LET out == {s \in Systems : Outdated(s)}
        closed == {pools[s] : s \in out}
    IN  /\ reload = "read"
        /\ reload' = "none" /\ configs' = fresh
        /\ pools' = [s \in Systems |-> IF s \in out THEN NoPool ELSE pools[s]]
        /\ idle' = idle \ out
        /\ Create(Waiting, fresh, [r \in Requests |-> IF r \in closed THEN "closed" ELSE poolConn[r]])
        /\ overtaken' = overtaken \cup {r \in Connecting : fresh[wanted[r]] # built[r]}
        /\ UNCHANGED <<systemRows, fresh, wanted, handle, serving, poolSpent, gone, joined>>

\* Variant: a failed read leaves its promise in place.
AfterFailedRead == "failed"

\* finally: the promise is cleared whatever became of the read.
AfterRead == "none"

LoadFails ==
    /\ reload = "reading"
    /\ SpendPool("troubles")
    /\ reload' = AfterRead
    /\ poolCall' = [r \in Requests |-> IF r \in Waiting THEN "failed" ELSE poolCall[r]]
    /\ UNCHANGED <<systemRows, configs, fresh, connVars, wanted, handle, serving, poolHistory>>


-----------------------------------------------------------------------------
(* Clean-up, shutdown, and what happens around the process *)

\* cleanupIdlePools closes what nobody asked for in ten minutes, in use or not.
CleanupIdlePools ==
    /\ serving /\ idle # {}
    /\ poolConn' = [r \in Requests |-> IF r \in {pools[s] : s \in idle} THEN "closed" ELSE poolConn[r]]
    /\ pools' = [s \in Systems |-> IF s \in idle THEN NoPool ELSE pools[s]]
    /\ idle' = {}
    /\ UNCHANGED <<cacheVars, built, callVars, serving, poolSpent, poolHistory>>

TenMinutesPass ==
    /\ idle # Pooled
    /\ SpendPool("troubles")
    /\ idle' = Pooled
    /\ UNCHANGED <<cacheVars, pools, poolConn, built, callVars, serving, poolHistory>>

\* closeAll; calls whose clients have gone may still be running.
CloseAll ==
    /\ serving /\ serving' = FALSE
    /\ poolConn' = [r \in Requests |-> IF r \in {pools[s] : s \in Pooled} THEN "closed" ELSE poolConn[r]]
    /\ pools' = [s \in Systems |-> NoPool] /\ idle' = {}
    /\ UNCHANGED <<cacheVars, built, callVars, poolSpent, poolHistory>>

\* The control panel adds, edits, deactivates or deletes a system.
EditSystem(s) ==
    /\ SpendPool("edits")
    /\ \E c \in (Configs \cup {Absent}) \ {systemRows[s]} :
           /\ systemRows' = [systemRows EXCEPT ![s] = c]
           /\ gone' = IF c # Absent THEN gone
                      ELSE gone \cup {r \in Requests : wanted[r] = s /\ poolCall[r] # "none"}
    /\ UNCHANGED <<configs, reload, fresh, connVars, callVars, serving, twins, overtaken, joined>>

\* The server closes the connection of a pool.
DropConnection(r) ==
    /\ poolConn[r] = "open"
    /\ SpendPool("troubles")
    /\ poolConn' = [poolConn EXCEPT ![r] = "down"]
    /\ UNCHANGED <<cacheVars, pools, idle, built, callVars, serving, poolHistory>>

PoolNext ==
    \/ \E r \in Requests : \/ Hit(r) \/ Miss(r) \/ MissUnknown(r)
                           \/ Connected(r) \/ ConnectFails(r) \/ Answer(r)
                           \/ DropConnection(r)
    \/ ReadRows \/ ReloadSystems \/ LoadFails
    \/ CleanupIdlePools \/ TenMinutesPass \/ CloseAll
    \/ \E s \in Systems : EditSystem(s)

PoolSpec == PoolInit /\ [][PoolNext]_poolVars

\* What ends by itself: a read of the rows, a connection attempt and a query,
\* the last two by the time-outs of the system's configuration.
PoolProgress ==
    \/ ReadRows \/ ReloadSystems
    \/ \E r \in Requests : Connected(r) \/ ConnectFails(r) \/ Answer(r)

PoolFairSpec == PoolSpec /\ WF_poolVars(PoolProgress)

-----------------------------------------------------------------------------
PoolSpending == [DOMAIN PoolBounds -> Nat]

PoolTypeOK ==
    /\ systemRows \in Rows /\ configs \in Rows /\ fresh \in Rows
    /\ reload \in {"none", "reading", "read"}
    /\ pools \in [Systems -> Requests \cup {NoPool}] /\ idle \subseteq Pooled
    /\ poolConn \in [Requests -> {"none", "connecting", "open", "down", "closed", "failed"}]
    /\ built \in [Requests -> Configs \cup {Absent}]
    /\ poolCall \in [Requests -> {"none", "reloading", "connecting", "querying",
                                  "done", "failed", "refused"}]
    /\ wanted \in [Requests -> Systems] /\ handle \in [Requests -> Requests \cup {NoPool}]
    /\ serving \in BOOLEAN /\ poolSpent \in PoolSpending
    /\ twins \subseteq Requests /\ overtaken \subseteq Requests
    /\ gone \subseteq Requests /\ joined \subseteq Requests

\* An open pool that is not in the map is never closed.  None is left out but by
\* two calls that connected to the same system at the same time, the second
\* entry replacing the first; or by a call that outlived closeAll.
OpenPoolsKept ==
    \A r \in Requests : serving /\ poolConn[r] = "open" /\ pools[wanted[r]] # r => r \in twins

\* A pool in the map was made from the configuration in the cache, unless it was
\* connecting when a reload changed that configuration: such a pool stays until
\* the configuration changes once more or nobody uses it.
PoolsCurrent ==
    \A s \in Systems :
        pools[s] # NoPool /\ pools[s] \notin overtaken => built[pools[s]] = configs[s]

\* A tool is told "System not found" only of a system that was missing at some
\* moment since the call, or when the reload it waited for had been begun by
\* another call: a system added before a call is found without a restart.
RefusedWhenAbsent ==
    \A r \in Requests : poolCall[r] = "refused" => r \in gone \cup joined

\* Nobody waits for a reload, a connection or a query.
CallsEnded == \A r \in Requests : poolCall[r] \in {"none", "done", "failed", "refused"}

=============================================================================
