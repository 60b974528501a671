----------------------------- MODULE TenantPools -----------------------------
(***************************************************************************)
(* The cache of per-tenant PostgreSQL pools of the API process:            *)
(* TenantConnectionManager, together with the way a request leases a pool  *)
(* from it (TenantConnectionInterceptor, and the portal guard and portal   *)
(* invitation check, which acquire and release in the same manner).        *)
(*                                                                         *)
(* Node runs one callback at a time, so an action is what happens between  *)
(* two awaits.  `operations` is the promise chain built by runExclusive:   *)
(* the operation at its head is the one that runs, and it keeps its place  *)
(* while it awaits pool.end().  The interceptor's continuation runs in the *)
(* microtask queued before the next operation starts, so obtaining the     *)
(* pool and acting on it are one step.                                     *)
(***************************************************************************)
EXTENDS Naturals, Sequences, FiniteSets

CONSTANTS
    Tenants,     \* tenant databases
    Requests,    \* slots for requests in flight; a slot is reused
    PoolIds,     \* identities of Pool objects; recycled once unreachable
    MaxPools,    \* MAX_POOLS
    IdleAge,     \* IDLE_TIMEOUT_MS, in ticks
    AgeCap,      \* bound on a recorded age: ages above it are not told apart
    Sweep,       \* the queued operation of the eviction timer
    NoPool, NoTenant

ASSUME PoolsAssumption ==
    /\ MaxPools \in Nat \ {0}
    /\ IdleAge \in Nat /\ AgeCap \in Nat /\ IdleAge <= AgeCap
    /\ IsFiniteSet(Requests)
    /\ Sweep \notin Requests
    /\ NoPool \notin PoolIds
    /\ NoTenant \notin Tenants

VARIABLES
    pools,           \* the Map: tenant -> Pool of its entry, or NoPool
    activeRequests,  \* the entry's counter of leases
    age,             \* ticks since the entry's lastUsedAt
    status,          \* of a Pool object: "closed" (or not built), "open", "ending"
    database,        \* the tenant database a Pool object connects to
    operations,      \* the promise chain: requests in getConnection, and sweeps
    awaiting,        \* Pool objects whose end() the running operation awaits
    evicted,         \* TRUE once the running getConnection has evicted a pool
    shutdown,        \* closeAll: "no", "draining" (operations awaited), "closed"
    barrier,         \* operations closeAll still waits for
    tenant,          \* the tenant a request is for; NoTenant: slot is free
    held,            \* the Pool a request was handed, or NoPool
    cancelled        \* the request was torn down before it got its pool

manager == <<pools, activeRequests, age, awaiting, evicted>>
driver  == <<status, database>>
chain   == <<operations, barrier>>
client  == <<tenant, held, cancelled>>
vars == <<manager, driver, chain, shutdown, client>>

Cached == {t \in Tenants : pools[t] # NoPool}
Live == {p \in PoolIds : status[p] # "closed"}
Holders(t) == {r \in Requests : tenant[r] = t /\ held[r] # NoPool}
Waiting(r) == tenant[r] # NoTenant /\ held[r] = NoPool

Init ==
    /\ pools = [t \in Tenants |-> NoPool]
    /\ activeRequests = [t \in Tenants |-> 0]
    /\ age = [t \in Tenants |-> 0]
    /\ status = [p \in PoolIds |-> "closed"]
    /\ database = [p \in PoolIds |-> NoTenant]
    /\ operations = <<>>
    /\ awaiting = {}
    /\ evicted = FALSE
    /\ shutdown = "no"
    /\ barrier = 0
    /\ tenant = [r \in Requests |-> NoTenant]
    /\ held = [r \in Requests |-> NoPool]
    /\ cancelled = [r \in Requests |-> FALSE]

-----------------------------------------------------------------------------
(* The clients of the manager. *)

\* A request for tenant t reaches the interceptor: getConnection(dbName).
GetConnection(r, t) ==
    /\ tenant[r] = NoTenant
    /\ tenant' = [tenant EXCEPT ![r] = t]
    /\ operations' = Append(operations, r)
    /\ UNCHANGED <<manager, driver, barrier, shutdown, held, cancelled>>

\* The subscriber goes away while getConnection is still pending.
Cancel(r) ==
    /\ Waiting(r)
    /\ ~cancelled[r]
    /\ cancelled' = [cancelled EXCEPT ![r] = TRUE]
    /\ UNCHANGED <<manager, driver, chain, shutdown, tenant, held>>

\* Fault: a release is counted without looking at the entry.
UncheckedRelease(r) == [activeRequests EXCEPT ![tenant[r]] = @ - 1]

\* releaseConnection: only the entry that still holds this very Pool is touched.
ReleasedCount(r) ==
    IF pools[tenant[r]] = held[r]
    THEN [activeRequests EXCEPT ![tenant[r]] = IF @ = 0 THEN 0 ELSE @ - 1]
    ELSE activeRequests

ReleasedAge(r) ==
    IF pools[tenant[r]] = held[r] THEN [age EXCEPT ![tenant[r]] = 0] ELSE age

\* The request completes, fails or is unsubscribed: the interceptor's teardown.
Teardown(r) ==
    /\ held[r] # NoPool
    /\ activeRequests' = ReleasedCount(r)
    /\ age' = ReleasedAge(r)
    /\ tenant' = [tenant EXCEPT ![r] = NoTenant]
    /\ held' = [held EXCEPT ![r] = NoPool]
    /\ UNCHANGED <<pools, awaiting, evicted, driver, chain, shutdown, cancelled>>

-----------------------------------------------------------------------------
(* runExclusive: the operation at the head of the chain runs to its end. *)

Running(op) == operations # <<>> /\ Head(operations) = op

\* The head settles, resolved or rejected; closeAll waits for one less.
Settle ==
    /\ operations' = Tail(operations)
    /\ barrier' = IF barrier = 0 THEN 0 ELSE barrier - 1

\* Fault: the interceptor does not release the pool of a cancelled request.
LeakedLease(r, count) == count + 1

\* The entry's leases once r got its pool; a cancelled r releases it at once.
LeaseCount(r, count) == IF cancelled[r] THEN count ELSE count + 1

\* The request is handed p, unless it was cancelled meanwhile.
Resolve(r, p, count) ==
    /\ activeRequests' = [activeRequests EXCEPT ![tenant[r]] = LeaseCount(r, count)]
    /\ age' = [age EXCEPT ![tenant[r]] = 0]
    /\ held' = IF cancelled[r] THEN held ELSE [held EXCEPT ![r] = p]
    /\ tenant' = IF cancelled[r] THEN [tenant EXCEPT ![r] = NoTenant] ELSE tenant
    /\ cancelled' = [cancelled EXCEPT ![r] = FALSE]

\* getConnection throws: the request fails with no pool.
Reject(r) ==
    /\ tenant' = [tenant EXCEPT ![r] = NoTenant]
    /\ cancelled' = [cancelled EXCEPT ![r] = FALSE]
    /\ Settle
    /\ UNCHANGED <<manager, driver, shutdown, held>>

RejectShutdown(r) ==
    /\ Running(r)
    /\ ~evicted
    /\ shutdown # "no"
    /\ Reject(r)

\* The tenant has an entry: its pool is shared.
Reuse(r) ==
    /\ Running(r)
    /\ ~evicted
    /\ shutdown = "no"
    /\ pools[tenant[r]] # NoPool
    /\ Resolve(r, pools[tenant[r]], activeRequests[tenant[r]])
    /\ Settle
    /\ UNCHANGED <<pools, awaiting, evicted, driver, shutdown>>

\* Fault: the eviction candidates are not filtered by activeRequests.
OldestEntry(t) == t \in Cached /\ \A u \in Cached : age[u] <= age[t]

\* The cache is full: its least recently used idle entry is removed and its
\* pool ended, which the operation awaits.
IsLeastRecentlyUsed(t) ==
    /\ t \in Cached
    /\ activeRequests[t] = 0
    /\ \A u \in Cached : activeRequests[u] = 0 => age[u] <= age[t]

Evict(r) ==
    /\ Running(r)
    /\ ~evicted
    /\ shutdown = "no"
    /\ pools[tenant[r]] = NoPool
    /\ Cardinality(Cached) >= MaxPools
    /\ \E t \in Cached :
          /\ IsLeastRecentlyUsed(t)
          /\ pools' = [pools EXCEPT ![t] = NoPool]
          /\ age' = [age EXCEPT ![t] = 0]
          /\ status' = [status EXCEPT ![pools[t]] = "ending"]
          /\ awaiting' = {pools[t]}
    /\ evicted' = TRUE
    /\ UNCHANGED <<activeRequests, database, chain, shutdown, client>>

\* Every entry is in use: the request is refused.
RejectFull(r) ==
    /\ Running(r)
    /\ ~evicted
    /\ shutdown = "no"
    /\ pools[tenant[r]] = NoPool
    /\ Cardinality(Cached) >= MaxPools
    /\ \A t \in Cached : activeRequests[t] > 0
    /\ Reject(r)

\* A Pool object nobody can reach any more, or not built yet.
Fresh(p) == status[p] = "closed" /\ \A r \in Requests : held[r] # p

\* Fault: the evicted pool's end() is not awaited.
RoomBeforeEnd(r) ==
    \/ evicted
    \/ /\ shutdown = "no"
       /\ pools[tenant[r]] = NoPool
       /\ Cardinality(Cached) < MaxPools

\* Fault: two first requests of a tenant each build a pool.
RoomUnshared(r) ==
    \/ evicted /\ awaiting = {}
    \/ ~evicted /\ shutdown = "no" /\ Cardinality(Cached) < MaxPools

\* A pool may be built: there is room, or the evicted one has ended.
MayCreate(r) ==
    \/ evicted /\ awaiting = {}
    \/ /\ ~evicted
       /\ shutdown = "no"
       /\ pools[tenant[r]] = NoPool
       /\ Cardinality(Cached) < MaxPools

Create(r) ==
    /\ Running(r)
    /\ MayCreate(r)
    /\ \E p \in PoolIds :
          /\ Fresh(p)
          /\ status' = [status EXCEPT ![p] = "open"]
          /\ database' = [database EXCEPT ![p] = tenant[r]]
          /\ pools' = [pools EXCEPT ![tenant[r]] = p]
          /\ Resolve(r, p, 0)
    /\ Settle
    /\ evicted' = FALSE
    /\ UNCHANGED <<awaiting, shutdown>>

\* Fault: the sweep takes every entry that is old enough.
OldEntries == {t \in Cached : age[t] >= IdleAge}

\* evictIdlePools, its entries removed and their pools ending...
IdleEntries == {t \in Cached : activeRequests[t] = 0 /\ age[t] >= IdleAge}

SweepIdle ==
    /\ Running(Sweep)
    /\ ~evicted
    /\ pools' = [t \in Tenants |-> IF t \in IdleEntries THEN NoPool ELSE pools[t]]
    /\ age' = [t \in Tenants |-> IF t \in IdleEntries THEN 0 ELSE age[t]]
    /\ awaiting' = {pools[t] : t \in IdleEntries}
    /\ status' = [p \in PoolIds |-> IF p \in awaiting' THEN "ending" ELSE status[p]]
    /\ evicted' = TRUE
    /\ UNCHANGED <<activeRequests, database, chain, shutdown, client>>

\* ... and the operation over once all of them have ended.
SweepDone ==
    /\ Running(Sweep)
    /\ evicted
    /\ awaiting = {}
    /\ evicted' = FALSE
    /\ Settle
    /\ UNCHANGED <<pools, activeRequests, age, awaiting, driver, shutdown, client>>

-----------------------------------------------------------------------------
(* The timer, time, and the driver. *)

\* setInterval; at most one sweep is queued at a time (bound: a second one,
\* queued behind it, finds what a later sweep finds).
EvictionTimer ==
    /\ shutdown = "no"
    /\ \A i \in DOMAIN operations : operations[i] # Sweep
    /\ operations' = Append(operations, Sweep)
    /\ UNCHANGED <<manager, driver, barrier, shutdown, client>>

Tick ==
    /\ \E t \in Cached : age[t] < AgeCap
    /\ age' = [t \in Tenants |-> IF t \in Cached /\ age[t] < AgeCap
                                 THEN age[t] + 1 ELSE age[t]]
    /\ UNCHANGED <<pools, activeRequests, awaiting, evicted, driver, chain, shutdown, client>>

\* External (pg): end() resolves once no client of the pool is checked out; a
\* request that holds the pool may have one checked out until it is torn down.
PoolEnded(p) ==
    /\ status[p] = "ending"
    /\ \A r \in Requests : held[r] # p
    /\ status' = [status EXCEPT ![p] = "closed"]
    /\ database' = [database EXCEPT ![p] = NoTenant]
    /\ awaiting' = awaiting \ {p}
    /\ UNCHANGED <<pools, activeRequests, age, evicted, chain, shutdown, client>>

\* Fault: closeAll does not await the operations.
NoBarrier == 0

Barrier == Len(operations)

\* closeAll up to `await this.operations`: waits for what is queued now.
CloseAll ==
    /\ shutdown = "no"
    /\ shutdown' = "draining"
    /\ barrier' = Barrier
    /\ UNCHANGED <<manager, driver, operations, client>>

\* closeAll after it: the map is emptied and every pool in it ended, even one
\* that is in use.
CloseEntries ==
    /\ shutdown = "draining"
    /\ barrier = 0
    /\ shutdown' = "closed"
    /\ pools' = [t \in Tenants |-> NoPool]
    /\ activeRequests' = [t \in Tenants |-> 0]
    /\ age' = [t \in Tenants |-> 0]
    /\ status' = [p \in PoolIds |-> IF \E t \in Tenants : pools[t] = p
                                    THEN "ending" ELSE status[p]]
    /\ UNCHANGED <<awaiting, evicted, database, chain, client>>

-----------------------------------------------------------------------------
Operation ==
    \/ \E r \in Requests :
          \/ RejectShutdown(r) \/ RejectFull(r)
          \/ Reuse(r) \/ Evict(r) \/ Create(r)
    \/ SweepIdle
    \/ SweepDone

Next ==
    \/ \E r \in Requests, t \in Tenants : GetConnection(r, t)
    \/ \E r \in Requests : Cancel(r)
    \/ \E r \in Requests : Teardown(r)
    \/ Operation
    \/ EvictionTimer
    \/ Tick
    \/ \E p \in PoolIds : PoolEnded(p)
    \/ CloseAll
    \/ CloseEntries

Spec == Init /\ [][Next]_vars

\* The event loop runs a ready operation and continues closeAll when its
\* promise resolves; the driver ends a pool nobody uses.
Fairness ==
    /\ WF_vars(Operation)
    /\ WF_vars(CloseEntries)
    /\ \A p \in PoolIds : WF_vars(PoolEnded(p))

FairSpec == Spec /\ Fairness

-----------------------------------------------------------------------------
(* Properties. *)

TypeOK ==
    /\ pools \in [Tenants -> PoolIds \cup {NoPool}]
    /\ activeRequests \in [Tenants -> Nat]
    /\ age \in [Tenants -> 0..AgeCap]
    /\ status \in [PoolIds -> {"closed", "open", "ending"}]
    /\ database \in [PoolIds -> Tenants \cup {NoTenant}]
    /\ operations \in Seq(Requests \cup {Sweep})
    /\ awaiting \in SUBSET PoolIds
    /\ evicted \in BOOLEAN
    /\ shutdown \in {"no", "draining", "closed"}
    /\ barrier \in Nat
    /\ tenant \in [Requests -> Tenants \cup {NoTenant}]
    /\ held \in [Requests -> PoolIds \cup {NoPool}]
    /\ cancelled \in [Requests -> BOOLEAN]

\* The API never keeps connections to more than MAX_POOLS tenant databases,
\* pools that are still closing included: eviction and sweep await end() before
\* another operation may build a pool (evictLeastRecentlyUsedPool, runExclusive).
LivePoolsBounded == Cardinality(Live) <= MaxPools

\* A pool a request holds is never ended under it: it stays open and cached for
\* the request's own tenant until closeAll empties the map, whatever eviction,
\* sweeps, cancellations and other requests do meanwhile.
LeaseSafe ==
    \A r \in Requests :
        held[r] # NoPool /\ shutdown # "closed" =>
            /\ pools[tenant[r]] = held[r]
            /\ status[held[r]] = "open"
            /\ database[held[r]] = tenant[r]

\* activeRequests is the number of requests holding the entry's pool: no path
\* (cancellation before or after the pool arrives, failure, late release) counts
\* a lease twice or forgets to return it, so no pool becomes unevictable.
LeasesCounted ==
    shutdown # "closed" =>
        \A t \in Tenants : activeRequests[t] = Cardinality(Holders(t))

\* Every open Pool is in the map, so a later sweep, eviction or closeAll ends it:
\* no Pool is dropped while open, not even one built while closeAll is waiting.
NoPoolLeaked ==
    \A p \in PoolIds : status[p] = "open" => \E t \in Tenants : pools[t] = p


\* What holds whatever pools, requests and the shutdown do, in one.
PoolsSafe == TypeOK /\ LivePoolsBounded /\ LeaseSafe /\ LeasesCounted /\ NoPoolLeaked

\* Every getConnection settles: the operation chain cannot be blocked by a
\* request that keeps its pool, since only pools nobody holds are awaited.
GetConnectionSettles ==
    \A r \in Requests : Waiting(r) ~> ~Waiting(r)

\* Once closeAll is called every Pool is eventually closed for good, if no
\* handler keeps its lease forever: the pools queued operations build while it
\* waits are not left behind.
ShutdownClosesPools ==
    (\A r \in Requests : []<>(held[r] = NoPool)) => ((shutdown # "no") ~> [](Live = {}))
=============================================================================
