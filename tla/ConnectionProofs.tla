--------------------------- MODULE ConnectionProofs ---------------------------
(***************************************************************************)
(* Proofs about TenantPools, for any number of tenants and requests, about *)
(* Delivery, for any messages, commands and clicks, and about Notices, for *)
(* any families, events and mailboxes.                                     *)
(***************************************************************************)
EXTENDS TenantPools, Delivery, Notices, FiniteSetTheorems, TLAPS

(* The inductive invariant, in parts. *)

\* A cached pool is open and connects to the tenant it is cached for.
CachedOpen ==
    \A t \in Tenants : pools[t] # NoPool =>
        /\ status[pools[t]] = "open"
        /\ database[pools[t]] = t

\* Until closeAll, the pools being ended are those the running operation awaits.
EndingAwaited ==
    /\ \A p \in awaiting : status[p] = "ending"
    /\ shutdown # "closed" => \A p \in PoolIds : status[p] = "ending" => p \in awaiting
    /\ ~evicted => awaiting = {}

\* A queued request waits for its pool and is queued once.
QueueOK ==
    /\ \A i \in 1..Len(operations) : operations[i] # Sweep => Waiting(operations[i])
    /\ \A i, j \in 1..Len(operations) :
          operations[i] = operations[j] /\ operations[i] # Sweep => i = j

\* closeAll waits for every sweep and for the operation that has started.
DrainOK ==
    /\ shutdown = "draining" => \A i \in 1..Len(operations) : operations[i] = Sweep => i <= barrier
    /\ shutdown = "closed" => \A i \in 1..Len(operations) : operations[i] # Sweep
    /\ evicted => /\ operations # <<>>
                  /\ shutdown # "closed"
                  /\ shutdown = "draining" => barrier > 0

\* A request that holds a pool has a tenant, whose cached pool it is.
LeaseOK ==
    \A r \in Requests : held[r] # NoPool =>
        /\ tenant[r] \in Tenants
        /\ shutdown # "closed" => pools[tenant[r]] = held[r]

\* A getConnection that has evicted an entry leaves room for its own.
RoomOK ==
    /\ IsFiniteSet(Cached)
    /\ Cardinality(Cached) <= MaxPools
    /\ evicted /\ Head(operations) # Sweep =>
          /\ pools[tenant[Head(operations)]] = NoPool
          /\ Cardinality(Cached) < MaxPools

LiveOK == IsFiniteSet(Live) /\ LivePoolsBounded

IInv ==
    /\ TypeOK
    /\ CachedOpen
    /\ NoPoolLeaked
    /\ EndingAwaited
    /\ QueueOK
    /\ DrainOK
    /\ LeaseOK
    /\ LeasesCounted
    /\ RoomOK
    /\ LiveOK

-----------------------------------------------------------------------------
(* Lemmas. *)

\* What remains of a non-empty queue.
LEMMA TailFacts ==
    ASSUME NEW S, NEW s \in Seq(S), s # <<>>
    PROVE  /\ Tail(s) \in Seq(S)
           /\ Len(s) \in Nat \ {0}
           /\ Head(s) = s[1] /\ Head(s) \in S
           /\ Len(Tail(s)) = Len(s) - 1
           /\ \A i \in 1..Len(Tail(s)) : Tail(s)[i] = s[i+1] /\ i + 1 \in 1..Len(s)
  <1>1. Tail(s) \in Seq(S) /\ Len(s) \in Nat \ {0} /\ Len(Tail(s)) = Len(s) - 1
    OBVIOUS
  <1>2. Head(s) = s[1] /\ Head(s) \in S
    OBVIOUS
  <1>3. \A i \in 1..Len(Tail(s)) : Tail(s)[i] = s[i+1] /\ i + 1 \in 1..Len(s)
    BY <1>1
  <1> QED
    BY <1>1, <1>2, <1>3

\* A queue with one more element.
LEMMA AppendFacts ==
    ASSUME NEW S, NEW s \in Seq(S), NEW x \in S
    PROVE  /\ Append(s, x) \in Seq(S)
           /\ Append(s, x) # <<>>
           /\ Len(s) \in Nat
           /\ Len(Append(s, x)) = Len(s) + 1
           /\ \A i \in 1..Len(s) : Append(s, x)[i] = s[i]
           /\ Append(s, x)[Len(s) + 1] = x
           /\ s # <<>> => Head(Append(s, x)) = Head(s)
  <1>1. Append(s, x) \in Seq(S) /\ Len(s) \in Nat /\ Len(Append(s, x)) = Len(s) + 1
    OBVIOUS
  <1>2. \A i \in 1..Len(s) : Append(s, x)[i] = s[i]
    OBVIOUS
  <1>3. Append(s, x)[Len(s) + 1] = x
    OBVIOUS
  <1>4. Append(s, x) # <<>>
    BY <1>1
  <1>5. s # <<>> => Head(Append(s, x)) = Head(s)
    OBVIOUS
  <1> QED
    BY <1>1, <1>2, <1>3, <1>4, <1>5

\* While nothing is being ended, there are no more live pools than entries.
LEMMA LiveAreCached ==
    ASSUME IInv, awaiting = {}, shutdown # "closed"
    PROVE  Cardinality(Live) <= Cardinality(Cached)
  <1> DEFINE f == [t \in Cached |-> pools[t]]
  <1>1. f \in [Cached -> Live]
    BY DEF IInv, TypeOK, CachedOpen, Cached, Live
  <1>2. ASSUME NEW p \in Live PROVE \E t \in Cached : f[t] = p
    BY PoolsAssumption DEF IInv, TypeOK, NoPoolLeaked, EndingAwaited, Cached, Live, PoolsAssumption
  <1>3. f \in Surjection(Cached, Live)
    BY <1>1, <1>2 DEF Surjection
  <1> QED
    BY <1>3, FS_Surjection DEF IInv, RoomOK

\* The counters are numbers, and the requests of a tenant are finitely many.
LEMMA HoldersFinite ==
    ASSUME NEW t \in Tenants
    PROVE  IsFiniteSet(Holders(t)) /\ Cardinality(Holders(t)) \in Nat
  BY PoolsAssumption, FS_Subset, FS_CardinalityType DEF Holders, PoolsAssumption

-----------------------------------------------------------------------------
(* Each action preserves the invariant. *)

LEMMA InitIInv == Init => IInv
  <1> SUFFICES ASSUME Init PROVE IInv
    OBVIOUS
  <1>1. Cached = {} /\ Live = {} /\ \A t \in Tenants : Holders(t) = {}
    BY DEF Init, Cached, Live, Holders
  <1>2. RoomOK /\ LiveOK
    BY <1>1, FS_EmptySet, PoolsAssumption
       DEF RoomOK, LiveOK, LivePoolsBounded, Init, PoolsAssumption
  <1>3. LeasesCounted
    BY <1>1, FS_EmptySet DEF LeasesCounted, Init
  <1>4. TypeOK
    <2>1. operations \in Seq(Requests \cup {Sweep})
      BY DEF Init
    <2>2. cancelled \in [Requests -> BOOLEAN] /\ evicted \in BOOLEAN
      BY Zenon DEF Init
    <2>3. /\ pools \in [Tenants -> PoolIds \cup {NoPool}]
          /\ activeRequests \in [Tenants -> Nat]
          /\ age \in [Tenants -> 0..AgeCap]
          /\ barrier \in Nat
      BY PoolsAssumption DEF Init, PoolsAssumption
    <2>4. /\ status \in [PoolIds -> {"closed", "open", "ending"}]
          /\ database \in [PoolIds -> Tenants \cup {NoTenant}]
          /\ awaiting \in SUBSET PoolIds
          /\ shutdown \in {"no", "draining", "closed"}
          /\ tenant \in [Requests -> Tenants \cup {NoTenant}]
          /\ held \in [Requests -> PoolIds \cup {NoPool}]
      BY DEF Init
    <2> QED
      BY <2>1, <2>2, <2>3, <2>4 DEF TypeOK
  <1>5. CachedOpen /\ NoPoolLeaked /\ EndingAwaited /\ QueueOK /\ DrainOK /\ LeaseOK
    BY DEF Init, CachedOpen, NoPoolLeaked, EndingAwaited, QueueOK, DrainOK, LeaseOK
  <1> QED
    BY <1>2, <1>3, <1>4, <1>5 DEF IInv

\* The operation at the head settles: what remains queued.
LEMMA SettleFacts ==
    ASSUME IInv, operations # <<>>, Settle
    PROVE  /\ operations' \in Seq(Requests \cup {Sweep})
           /\ barrier' \in Nat
           /\ \A i \in 1..Len(operations') :
                 /\ operations'[i] \in Requests \cup {Sweep}
                 /\ operations'[i] # Sweep =>
                       Waiting(operations'[i]) /\ operations'[i] # Head(operations)
           /\ \A i, j \in 1..Len(operations') :
                 operations'[i] = operations'[j] /\ operations'[i] # Sweep => i = j
           /\ shutdown = "draining" =>
                 \A i \in 1..Len(operations') : operations'[i] = Sweep => i <= barrier'
           /\ shutdown = "closed" => \A i \in 1..Len(operations') : operations'[i] # Sweep
  <1> DEFINE s == operations
  <1>1. /\ operations' \in Seq(Requests \cup {Sweep})
        /\ Len(s) \in Nat \ {0}
        /\ Head(s) = s[1]
        /\ Len(operations') = Len(s) - 1
        /\ \A i \in 1..Len(operations') : operations'[i] = s[i+1] /\ i + 1 \in 1..Len(s)
    BY TailFacts DEF Settle, IInv, TypeOK
  <1>2. barrier' \in Nat
    BY DEF Settle, IInv, TypeOK
  <1>3. \A i \in 1..Len(operations') : operations'[i] \in Requests \cup {Sweep}
    BY <1>1
  <1>4. ASSUME NEW i \in 1..Len(operations'), operations'[i] # Sweep
        PROVE  Waiting(operations'[i]) /\ operations'[i] # Head(operations)
    BY <1>1, <1>4 DEF IInv, QueueOK
  <1>5. ASSUME NEW i \in 1..Len(operations'), NEW j \in 1..Len(operations'),
               operations'[i] = operations'[j], operations'[i] # Sweep
        PROVE  i = j
    BY <1>1, <1>5 DEF IInv, QueueOK
  <1>6. ASSUME shutdown = "draining", NEW i \in 1..Len(operations'), operations'[i] = Sweep
        PROVE  i <= barrier'
    <2>1. i + 1 <= barrier
      BY <1>1, <1>6 DEF IInv, DrainOK
    <2> QED
      BY <2>1, <1>1 DEF Settle, IInv, TypeOK
  <1>7. ASSUME shutdown = "closed", NEW i \in 1..Len(operations')
        PROVE  operations'[i] # Sweep
    BY <1>1, <1>7 DEF IInv, DrainOK
  <1> QED
    BY <1>1, <1>2, <1>3, <1>4, <1>5, <1>6, <1>7

LEMMA GetConnectionIInv ==
    ASSUME IInv, NEW r \in Requests, NEW t \in Tenants, GetConnection(r, t)
    PROVE  IInv'
  <1> USE DEF GetConnection, manager, driver
  <1>1. /\ operations' \in Seq(Requests \cup {Sweep})
        /\ operations' # <<>>
        /\ Len(operations) \in Nat
        /\ Len(operations') = Len(operations) + 1
        /\ \A i \in 1..Len(operations) : operations'[i] = operations[i]
        /\ operations'[Len(operations) + 1] = r
        /\ operations # <<>> => Head(operations') = Head(operations)
    BY AppendFacts DEF IInv, TypeOK
  <1>2. /\ held[r] = NoPool
        /\ \A i \in 1..Len(operations) : operations[i] # r
    BY PoolsAssumption DEF IInv, TypeOK, LeaseOK, QueueOK, Waiting, PoolsAssumption
  <1>3. \A u \in Tenants : Holders(u)' = Holders(u)
    BY <1>2 DEF Holders, IInv, TypeOK
  <1>4. TypeOK'
    BY <1>1 DEF IInv, TypeOK
  <1>5. CachedOpen' /\ NoPoolLeaked' /\ EndingAwaited'
    BY DEF IInv, CachedOpen, NoPoolLeaked, EndingAwaited
  <1>6. QueueOK'
    <2>1. ASSUME NEW i \in 1..Len(operations'), operations'[i] # Sweep
          PROVE  tenant'[operations'[i]] # NoTenant /\ held'[operations'[i]] = NoPool
      <3>1. CASE i \in 1..Len(operations)
        <4>1. Waiting(operations[i]) /\ operations[i] \in Requests
          BY <1>1, <2>1, <3>1 DEF IInv, QueueOK, TypeOK
        <4> QED
          BY <1>1, <1>2, <3>1, <4>1, PoolsAssumption DEF Waiting, IInv, TypeOK, PoolsAssumption
      <3>2. CASE i = Len(operations) + 1
        BY <1>1, <1>2, <3>2, PoolsAssumption DEF Waiting, IInv, TypeOK, PoolsAssumption
      <3> QED
        BY <1>1, <3>1, <3>2
    <2>2. ASSUME NEW i \in 1..Len(operations'), NEW j \in 1..Len(operations'),
                 operations'[i] = operations'[j], operations'[i] # Sweep
          PROVE  i = j
      BY <1>1, <1>2, <2>2 DEF IInv, QueueOK
    <2> QED
      BY <2>1, <2>2 DEF QueueOK, Waiting
  <1>7. DrainOK'
    BY <1>1, PoolsAssumption DEF IInv, DrainOK, PoolsAssumption
  <1>8. LeaseOK' /\ LeasesCounted'
    BY <1>2, <1>3 DEF IInv, TypeOK, LeaseOK, LeasesCounted
  <1>9. RoomOK' /\ LiveOK'
    <2>1. Cached' = Cached /\ Live' = Live
      BY DEF Cached, Live
    <2>2. evicted => operations # <<>> /\ Head(operations) = operations[1] /\ 1 \in 1..Len(operations)
      BY DEF IInv, TypeOK, DrainOK
    <2> QED
      BY <1>1, <1>2, <2>1, <2>2 DEF IInv, RoomOK, LiveOK, LivePoolsBounded, TypeOK
  <1> QED
    BY <1>4, <1>5, <1>6, <1>7, <1>8, <1>9 DEF IInv

LEMMA CancelIInv ==
    ASSUME IInv, NEW r \in Requests, Cancel(r)
    PROVE  IInv'
  <1> USE DEF Cancel, manager, driver, chain
  <1>1. TypeOK'
    BY DEF IInv, TypeOK
  <1>2. Cached' = Cached /\ Live' = Live /\ \A u \in Tenants : Holders(u)' = Holders(u)
    BY DEF Cached, Live, Holders
  <1>3. CachedOpen' /\ NoPoolLeaked' /\ EndingAwaited' /\ DrainOK' /\ LeaseOK' /\ QueueOK'
    BY DEF IInv, CachedOpen, NoPoolLeaked, EndingAwaited, DrainOK, LeaseOK, QueueOK, Waiting
  <1>4. LeasesCounted' /\ RoomOK' /\ LiveOK'
    BY <1>2 DEF IInv, LeasesCounted, RoomOK, LiveOK, LivePoolsBounded
  <1> QED
    BY <1>1, <1>3, <1>4 DEF IInv

LEMMA TeardownIInv ==
    ASSUME IInv, NEW r \in Requests, Teardown(r)
    PROVE  IInv'
  <1> USE DEF Teardown, driver, chain
  <1>1. PICK t \in Tenants : t = tenant[r] /\ (shutdown # "closed" => pools[t] = held[r])
    BY DEF IInv, LeaseOK
  <1>2. /\ Holders(t)' = Holders(t) \ {r}
        /\ r \in Holders(t)
        /\ \A u \in Tenants \ {t} : Holders(u)' = Holders(u)
    <2>1. /\ tenant'[r] \notin Tenants
          /\ \A x \in Requests \ {r} : tenant'[x] = tenant[x] /\ held'[x] = held[x]
      BY PoolsAssumption DEF IInv, TypeOK, PoolsAssumption
    <2>2. \A u \in Tenants : Holders(u)' = Holders(u) \ {r}
      BY <2>1 DEF Holders
    <2>3. \A u \in Tenants \ {t} : r \notin Holders(u)
      BY <1>1 DEF Holders
    <2>4. r \in Holders(t)
      BY <1>1 DEF Holders
    <2> QED
      BY <1>1, <2>2, <2>3, <2>4
  <1>3. Cardinality(Holders(t)') = Cardinality(Holders(t)) - 1
    BY <1>1, <1>2, HoldersFinite, FS_RemoveElement
  <1>4. Cardinality(Holders(t)) \in Nat /\ Cardinality(Holders(t)) # 0
    BY <1>1, <1>2, HoldersFinite, FS_EmptySet
  <1>5. TypeOK'
    <2>1. activeRequests' \in [Tenants -> Nat]
      BY <1>1 DEF IInv, TypeOK, ReleasedCount
    <2>2. age' \in [Tenants -> 0..AgeCap]
      BY <1>1, PoolsAssumption DEF IInv, TypeOK, ReleasedAge, PoolsAssumption
    <2> QED
      BY <2>1, <2>2 DEF IInv, TypeOK
  <1>6. CachedOpen' /\ NoPoolLeaked' /\ EndingAwaited' /\ DrainOK' /\ LeaseOK'
    BY DEF IInv, TypeOK, CachedOpen, NoPoolLeaked, EndingAwaited, DrainOK, LeaseOK
  <1>7. QueueOK'
    BY DEF IInv, TypeOK, QueueOK, Waiting
  <1>8. LeasesCounted'
    <2> SUFFICES ASSUME shutdown # "closed", NEW u \in Tenants
                 PROVE  activeRequests'[u] = Cardinality(Holders(u)')
      BY DEF LeasesCounted
    <2>1. activeRequests[u] = Cardinality(Holders(u))
      BY DEF IInv, LeasesCounted
    <2>2. CASE u = t
      <3>1. activeRequests' = [activeRequests EXCEPT ![t] = activeRequests[t] - 1]
        BY <1>1, <1>4, <2>1, <2>2 DEF ReleasedCount
      <3> QED
        BY <1>1, <1>3, <2>1, <2>2, <3>1 DEF IInv, TypeOK
    <2>3. CASE u # t
      BY <1>1, <1>2, <2>1, <2>3 DEF IInv, TypeOK, ReleasedCount
    <2> QED
      BY <2>2, <2>3
  <1>9. RoomOK' /\ LiveOK'
    <2>1. Cached' = Cached /\ Live' = Live
      BY DEF Cached, Live
    <2>2. ASSUME evicted, Head(operations) # Sweep
          PROVE  Head(operations) # r
      <3>1. operations # <<>> /\ operations \in Seq(Requests \cup {Sweep})
        BY <2>2 DEF IInv, TypeOK, DrainOK
      <3>2. 1 \in 1..Len(operations) /\ Head(operations) = operations[1]
        BY <3>1
      <3>3. Waiting(Head(operations))
        BY <2>2, <3>2 DEF IInv, QueueOK
      <3> QED
        BY <3>3 DEF Waiting
    <2> QED
      BY <2>1, <2>2 DEF IInv, RoomOK, LiveOK, LivePoolsBounded, TypeOK
  <1> QED
    BY <1>5, <1>6, <1>7, <1>8, <1>9 DEF IInv

\* The request at the head of the queue, and what settling it leaves.
LEMMA RunningFacts ==
    ASSUME IInv, NEW r \in Requests, Running(r)
    PROVE  /\ r # Sweep
           /\ operations # <<>>
           /\ Head(operations) = r
           /\ tenant[r] \in Tenants
           /\ held[r] = NoPool
  <1>1. r # Sweep /\ operations # <<>> /\ Head(operations) = operations[1]
        /\ 1 \in 1..Len(operations)
    BY PoolsAssumption DEF PoolsAssumption, Running, IInv, TypeOK
  <1> QED
    BY <1>1 DEF Running, IInv, TypeOK, QueueOK, Waiting

\* A request failed by the manager: RejectShutdown, RejectFull.
LEMMA RejectIInv ==
    ASSUME IInv, NEW r \in Requests, Running(r), ~evicted, Reject(r)
    PROVE  IInv'
  <1> USE DEF Reject, manager, driver
  <1>1. /\ r # Sweep /\ operations # <<>> /\ Head(operations) = r
        /\ tenant[r] \in Tenants /\ held[r] = NoPool
    BY RunningFacts
  <1>2. /\ \A x \in Requests \ {r} : tenant'[x] = tenant[x]
        /\ tenant'[r] = NoTenant
    BY DEF IInv, TypeOK
  <1>3. \A u \in Tenants : Holders(u)' = Holders(u)
    BY <1>1, <1>2 DEF Holders
  <1>4. TypeOK'
    <2>1. cancelled' \in [Requests -> BOOLEAN]
      BY Zenon DEF IInv, TypeOK
    <2> QED
      BY <1>1, <2>1, SettleFacts DEF IInv, TypeOK
  <1>5. QueueOK' /\ DrainOK'
    <2>1. QueueOK'
      BY <1>1, <1>2, SettleFacts DEF QueueOK, Waiting
    <2>2. DrainOK'
      BY <1>1, SettleFacts DEF DrainOK
    <2> QED
      BY <2>1, <2>2
  <1>6. CachedOpen' /\ NoPoolLeaked' /\ EndingAwaited' /\ LeaseOK'
    BY <1>1, <1>2 DEF IInv, CachedOpen, NoPoolLeaked, EndingAwaited, LeaseOK
  <1>7. LeasesCounted'
    BY <1>3 DEF IInv, LeasesCounted
  <1>8. RoomOK' /\ LiveOK'
    <2>1. Cached' = Cached /\ Live' = Live
      BY DEF Cached, Live
    <2> QED
      BY <2>1 DEF IInv, RoomOK, LiveOK, LivePoolsBounded
  <1> QED
    BY <1>4, <1>5, <1>6, <1>7, <1>8 DEF IInv

\* What handing pool p to the running request does to the leases.
LEMMA ResolveFacts ==
    ASSUME IInv, NEW r \in Requests, Running(r), NEW p \in PoolIds,
           NEW t \in Tenants, t = tenant[r],
           shutdown # "closed", Settle,
           Resolve(r, p, Cardinality(Holders(t)))
    PROVE  /\ activeRequests' \in [Tenants -> Nat]
           /\ age' \in [Tenants -> 0..AgeCap]
           /\ tenant' \in [Requests -> Tenants \cup {NoTenant}]
           /\ held' \in [Requests -> PoolIds \cup {NoPool}]
           /\ cancelled' \in [Requests -> BOOLEAN]
           /\ held'[r] \in {NoPool, p} /\ tenant'[r] \in {NoTenant, t}
           /\ held'[r] # NoPool => tenant'[r] = t
           /\ \A x \in Requests \ {r} : tenant'[x] = tenant[x] /\ held'[x] = held[x]
           /\ \A u \in Tenants : activeRequests'[u] = Cardinality(Holders(u)')
           /\ QueueOK'
  <1>1. /\ r # Sweep /\ operations # <<>> /\ Head(operations) = r /\ held[r] = NoPool
    BY RunningFacts
  <1>2. Cardinality(Holders(t)) \in Nat
    BY HoldersFinite
  <1>3. activeRequests' \in [Tenants -> Nat]
    BY <1>2 DEF Resolve, LeaseCount, IInv, TypeOK
  <1>4. age' \in [Tenants -> 0..AgeCap]
    BY PoolsAssumption DEF Resolve, IInv, TypeOK, PoolsAssumption
  <1>5. /\ tenant' \in [Requests -> Tenants \cup {NoTenant}]
        /\ held' \in [Requests -> PoolIds \cup {NoPool}]
        /\ \A x \in Requests \ {r} : tenant'[x] = tenant[x] /\ held'[x] = held[x]
    BY DEF Resolve, IInv, TypeOK
  <1>6. cancelled' \in [Requests -> BOOLEAN]
    BY Zenon DEF Resolve, IInv, TypeOK
  <1>7. /\ cancelled[r] => held'[r] = NoPool /\ tenant'[r] = NoTenant
        /\ ~cancelled[r] => held'[r] = p /\ tenant'[r] = t
    BY <1>1 DEF Resolve, IInv, TypeOK
  <1>8. \A u \in Tenants \ {t} : activeRequests'[u] = Cardinality(Holders(u)')
    <2> SUFFICES ASSUME NEW u \in Tenants \ {t}
                 PROVE  activeRequests'[u] = Cardinality(Holders(u)')
      OBVIOUS
    <2>1. activeRequests'[u] = activeRequests[u]
      BY DEF Resolve, IInv, TypeOK
    <2>2. Holders(u)' = Holders(u)
      BY <1>1, <1>5, <1>7 DEF Holders
    <2> QED
      BY <2>1, <2>2 DEF IInv, LeasesCounted
  <1>9. activeRequests'[t] = Cardinality(Holders(t)')
    <2>1. r \notin Holders(t)
      BY <1>1 DEF Holders
    <2>2. CASE cancelled[r]
      <3>1. Holders(t)' = Holders(t)
        BY <1>1, <1>5, <1>7, <2>2 DEF Holders
      <3>2. activeRequests'[t] = Cardinality(Holders(t))
        BY <2>2 DEF Resolve, LeaseCount, IInv, TypeOK
      <3> QED
        BY <3>1, <3>2
    <2>3. CASE ~cancelled[r]
      <3>1. Holders(t)' = Holders(t) \cup {r}
        BY <1>1, <1>5, <1>7, <2>3, PoolsAssumption DEF Holders, PoolsAssumption
      <3>2. Cardinality(Holders(t)') = Cardinality(Holders(t)) + 1
        BY <2>1, <3>1, HoldersFinite, FS_AddElement
      <3>3. activeRequests'[t] = Cardinality(Holders(t)) + 1
        BY <2>3 DEF Resolve, LeaseCount, IInv, TypeOK
      <3> QED
        BY <3>2, <3>3
    <2> QED
      BY <2>2, <2>3
  <1>10. QueueOK'
    BY <1>1, <1>5, SettleFacts DEF QueueOK, Waiting
  <1> QED
    BY <1>3, <1>4, <1>5, <1>6, <1>7, <1>8, <1>9, <1>10

LEMMA ReuseIInv ==
    ASSUME IInv, NEW r \in Requests, Reuse(r)
    PROVE  IInv'
  <1> USE DEF Reuse, driver
  <1>1. /\ r # Sweep /\ operations # <<>> /\ Head(operations) = r
        /\ tenant[r] \in Tenants /\ held[r] = NoPool
    BY RunningFacts
  <1>2. PICK t \in Tenants : t = tenant[r]
    BY <1>1
  <1>3. PICK p \in PoolIds : p = pools[t]
    BY <1>2 DEF IInv, TypeOK
  <1>4. Resolve(r, p, Cardinality(Holders(t)))
    BY <1>2, <1>3 DEF IInv, LeasesCounted
  <1>5. /\ activeRequests' \in [Tenants -> Nat]
        /\ age' \in [Tenants -> 0..AgeCap]
        /\ tenant' \in [Requests -> Tenants \cup {NoTenant}]
        /\ held' \in [Requests -> PoolIds \cup {NoPool}]
        /\ cancelled' \in [Requests -> BOOLEAN]
        /\ held'[r] \in {NoPool, p} /\ tenant'[r] \in {NoTenant, t}
        /\ held'[r] # NoPool => tenant'[r] = t
        /\ \A x \in Requests \ {r} : tenant'[x] = tenant[x] /\ held'[x] = held[x]
        /\ \A u \in Tenants : activeRequests'[u] = Cardinality(Holders(u)')
        /\ QueueOK'
    BY <1>2, <1>4, ResolveFacts
  <1>6. TypeOK'
    BY <1>1, <1>5, SettleFacts DEF IInv, TypeOK
  <1>7. DrainOK'
    BY <1>1, SettleFacts DEF DrainOK
  <1>8. CachedOpen' /\ NoPoolLeaked' /\ EndingAwaited'
    BY DEF IInv, CachedOpen, NoPoolLeaked, EndingAwaited
  <1>9. LeaseOK' /\ LeasesCounted'
    BY <1>3, <1>5 DEF IInv, LeaseOK, LeasesCounted
  <1>10. RoomOK' /\ LiveOK'
    <2>1. Cached' = Cached /\ Live' = Live
      BY DEF Cached, Live
    <2> QED
      BY <2>1 DEF IInv, RoomOK, LiveOK, LivePoolsBounded
  <1> QED
    BY <1>5, <1>6, <1>7, <1>8, <1>9, <1>10 DEF IInv

LEMMA EvictIInv ==
    ASSUME IInv, NEW r \in Requests, Evict(r)
    PROVE  IInv'
  <1> USE DEF Evict, chain, client
  <1>1. /\ r # Sweep /\ operations # <<>> /\ Head(operations) = r
        /\ tenant[r] \in Tenants /\ held[r] = NoPool
    BY RunningFacts
  <1>2. PICK t \in Cached :
           /\ IsLeastRecentlyUsed(t)
           /\ pools' = [pools EXCEPT ![t] = NoPool]
           /\ age' = [age EXCEPT ![t] = 0]
           /\ status' = [status EXCEPT ![pools[t]] = "ending"]
           /\ awaiting' = {pools[t]}
    OBVIOUS
  <1>3. PICK p \in PoolIds : p = pools[t]
    BY <1>2 DEF IInv, TypeOK, Cached
  <1>4. t \in Tenants /\ p # NoPool /\ status[p] = "open"
    BY <1>3 DEF Cached, IInv, CachedOpen
  <1>5. \A u \in Tenants : u # t /\ pools[u] # NoPool => pools[u] # p
    BY <1>3, <1>4 DEF IInv, CachedOpen
  <1>6. \A x \in Requests : held[x] # NoPool => tenant[x] # t
    <2> SUFFICES ASSUME NEW x \in Requests, held[x] # NoPool, tenant[x] = t PROVE FALSE
      OBVIOUS
    <2>1. x \in Holders(t)
      BY DEF Holders
    <2>2. Cardinality(Holders(t)) = 0
      BY <1>2, <1>4 DEF IsLeastRecentlyUsed, IInv, LeasesCounted
    <2> QED
      BY <1>4, <2>1, <2>2, HoldersFinite, FS_EmptySet
  <1>7. TypeOK'
    BY <1>2, <1>3, <1>4, PoolsAssumption DEF IInv, TypeOK, PoolsAssumption
  <1>8. CachedOpen' /\ NoPoolLeaked'
    BY <1>2, <1>3, <1>4, <1>5 DEF IInv, TypeOK, CachedOpen, NoPoolLeaked
  <1>9. EndingAwaited'
    BY <1>2, <1>3, <1>4 DEF IInv, TypeOK, EndingAwaited
  <1>10. QueueOK' /\ DrainOK'
    BY <1>1 DEF IInv, QueueOK, DrainOK, Waiting
  <1>11. LeaseOK'
    BY <1>2, <1>4, <1>6 DEF IInv, TypeOK, LeaseOK
  <1>12. LeasesCounted'
    BY DEF IInv, LeasesCounted, Holders
  <1>13. RoomOK'
    <2>1. Cached' = Cached \ {t}
      BY <1>2, <1>4 DEF Cached, IInv, TypeOK
    <2>2. /\ IsFiniteSet(Cached')
          /\ Cardinality(Cached') = Cardinality(Cached) - 1
      BY <2>1, FS_RemoveElement DEF IInv, RoomOK
    <2>3. Cardinality(Cached') < MaxPools
      BY <2>2, FS_CardinalityType, PoolsAssumption DEF IInv, RoomOK, PoolsAssumption
    <2>4. pools'[tenant[r]] = NoPool
      BY <1>1, <1>2, <1>4 DEF IInv, TypeOK
    <2>5. Cardinality(Cached') <= MaxPools
      BY <2>2, FS_CardinalityType, PoolsAssumption DEF IInv, RoomOK, PoolsAssumption
    <2>6. operations' = operations /\ tenant' = tenant
      OBVIOUS
    <2> QED
      BY <1>1, <2>2, <2>3, <2>4, <2>5, <2>6 DEF RoomOK
  <1>14. LiveOK'
    <2>1. Live' = Live
      BY <1>2, <1>3, <1>4 DEF Live, IInv, TypeOK
    <2> QED
      BY <2>1 DEF IInv, LiveOK, LivePoolsBounded
  <1> QED
    BY <1>7, <1>8, <1>9, <1>10, <1>11, <1>12, <1>13, <1>14 DEF IInv

LEMMA CreateIInv ==
    ASSUME IInv, NEW r \in Requests, Create(r)
    PROVE  IInv'
  <1> USE DEF Create
  <1>1. /\ r # Sweep /\ operations # <<>> /\ Head(operations) = r
        /\ tenant[r] \in Tenants /\ held[r] = NoPool
    BY RunningFacts
  <1>2. PICK p \in PoolIds :
           /\ Fresh(p)
           /\ status' = [status EXCEPT ![p] = "open"]
           /\ database' = [database EXCEPT ![p] = tenant[r]]
           /\ pools' = [pools EXCEPT ![tenant[r]] = p]
           /\ Resolve(r, p, 0)
    OBVIOUS
  <1>3. PICK t \in Tenants : t = tenant[r]
    BY <1>1
  <1>4. /\ shutdown # "closed" /\ awaiting = {}
        /\ pools[t] = NoPool
        /\ Cardinality(Cached) < MaxPools
    BY <1>1, <1>3 DEF MayCreate, IInv, EndingAwaited, DrainOK, RoomOK
  <1>5. Holders(t) = {} /\ Cardinality(Holders(t)) = 0
    <2>1. Holders(t) = {}
      BY <1>4 DEF Holders, IInv, LeaseOK
    <2> QED
      BY <2>1, FS_EmptySet
  <1>6. /\ activeRequests' \in [Tenants -> Nat]
        /\ age' \in [Tenants -> 0..AgeCap]
        /\ tenant' \in [Requests -> Tenants \cup {NoTenant}]
        /\ held' \in [Requests -> PoolIds \cup {NoPool}]
        /\ cancelled' \in [Requests -> BOOLEAN]
        /\ held'[r] \in {NoPool, p} /\ tenant'[r] \in {NoTenant, t}
        /\ held'[r] # NoPool => tenant'[r] = t
        /\ \A x \in Requests \ {r} : tenant'[x] = tenant[x] /\ held'[x] = held[x]
        /\ \A u \in Tenants : activeRequests'[u] = Cardinality(Holders(u)')
        /\ QueueOK'
    <2>1. Resolve(r, p, Cardinality(Holders(t)))
      BY <1>2, <1>5
    <2> QED
      BY <1>3, <1>4, <2>1, ResolveFacts
  <1>7. status[p] = "closed" /\ p # NoPool
    BY <1>2, PoolsAssumption DEF Fresh, PoolsAssumption
  <1>8. TypeOK'
    <2>1. /\ pools' \in [Tenants -> PoolIds \cup {NoPool}]
          /\ status' \in [PoolIds -> {"closed", "open", "ending"}]
          /\ database' \in [PoolIds -> Tenants \cup {NoTenant}]
      BY <1>2, <1>3 DEF IInv, TypeOK
    <2> QED
      BY <1>1, <1>6, <2>1, SettleFacts DEF IInv, TypeOK
  <1>9. CachedOpen' /\ NoPoolLeaked'
    <2>1. \A u \in Tenants : pools'[u] = IF u = t THEN p ELSE pools[u]
      BY <1>2, <1>3 DEF IInv, TypeOK
    <2>2. \A q \in PoolIds : /\ status'[q] = IF q = p THEN "open" ELSE status[q]
                             /\ database'[q] = IF q = p THEN t ELSE database[q]
      BY <1>2, <1>3 DEF IInv, TypeOK
    <2>3. \A u \in Tenants : pools[u] # NoPool => pools[u] \in PoolIds
      BY DEF IInv, TypeOK
    <2>4. CachedOpen'
      BY <1>7, <2>1, <2>2, <2>3 DEF IInv, CachedOpen
    <2>5. NoPoolLeaked'
      BY <1>4, <1>7, <2>1, <2>2, PoolsAssumption DEF IInv, NoPoolLeaked, PoolsAssumption
    <2> QED
      BY <2>4, <2>5
  <1>10. EndingAwaited'
    BY <1>2, <1>4, <1>7 DEF IInv, TypeOK, EndingAwaited
  <1>11. DrainOK'
    BY <1>1, SettleFacts DEF DrainOK
  <1>12. LeaseOK'
    <2> SUFFICES ASSUME NEW x \in Requests, held'[x] # NoPool
                 PROVE  tenant'[x] \in Tenants /\ pools'[tenant'[x]] = held'[x]
      BY DEF LeaseOK
    <2>1. CASE x = r
      BY <1>2, <1>3, <1>6, <2>1 DEF IInv, TypeOK
    <2>2. CASE x # r
      BY <1>2, <1>3, <1>4, <1>6, <2>2 DEF IInv, TypeOK, LeaseOK
    <2> QED
      BY <2>1, <2>2
  <1>13. LeasesCounted'
    BY <1>6 DEF LeasesCounted
  <1>14. RoomOK'
    <2>1. Cached' = Cached \cup {t}
      BY <1>2, <1>3, <1>7 DEF Cached, IInv, TypeOK
    <2>2. t \notin Cached
      BY <1>4 DEF Cached
    <2>3. /\ IsFiniteSet(Cached')
          /\ Cardinality(Cached') = Cardinality(Cached) + 1
      BY <2>1, <2>2, FS_AddElement DEF IInv, RoomOK
    <2>4. Cardinality(Cached') <= MaxPools
      BY <1>4, <2>3, FS_CardinalityType, PoolsAssumption DEF IInv, RoomOK, PoolsAssumption
    <2> QED
      BY <2>3, <2>4 DEF RoomOK
  <1>15. LiveOK'
    <2>1. Live' = Live \cup {p}
      BY <1>2 DEF Live, IInv, TypeOK
    <2>2. p \notin Live
      BY <1>7 DEF Live
    <2>3. /\ IsFiniteSet(Live')
          /\ Cardinality(Live') = Cardinality(Live) + 1
      BY <2>1, <2>2, FS_AddElement DEF IInv, LiveOK
    <2>4. Cardinality(Live) <= Cardinality(Cached)
      BY <1>4, LiveAreCached
    <2>5. Cardinality(Live') <= MaxPools
      BY <1>4, <2>3, <2>4, FS_CardinalityType, PoolsAssumption
         DEF IInv, RoomOK, LiveOK, PoolsAssumption
    <2> QED
      BY <2>3, <2>5 DEF LiveOK, LivePoolsBounded
  <1> QED
    BY <1>6, <1>8, <1>9, <1>10, <1>11, <1>12, <1>13, <1>14, <1>15 DEF IInv

LEMMA SweepIdleIInv ==
    ASSUME IInv, SweepIdle
    PROVE  IInv'
  <1> USE DEF SweepIdle, chain, client
  <1>1. /\ operations # <<>> /\ Head(operations) = Sweep
        /\ operations[1] = Sweep /\ 1 \in 1..Len(operations)
    BY TailFacts DEF Running, IInv, TypeOK
  <1>2. shutdown # "closed" /\ (shutdown = "draining" => barrier > 0)
    <2>1. shutdown # "closed"
      BY <1>1 DEF IInv, DrainOK
    <2>2. shutdown = "draining" => 1 <= barrier
      BY <1>1 DEF IInv, DrainOK
    <2> QED
      BY <2>1, <2>2 DEF IInv, TypeOK
  <1>3. \A t \in IdleEntries : t \in Tenants /\ pools[t] # NoPool /\ pools[t] \in PoolIds
    BY DEF IdleEntries, Cached, IInv, TypeOK
  <1>4. awaiting = {}
    BY DEF IInv, EndingAwaited
  <1>5. \A t \in IdleEntries : \A x \in Requests : held[x] # NoPool => tenant[x] # t
    <2> SUFFICES ASSUME NEW t \in IdleEntries, NEW x \in Requests,
                        held[x] # NoPool, tenant[x] = t
                 PROVE  FALSE
      OBVIOUS
    <2>1. x \in Holders(t)
      BY DEF Holders
    <2>2. Cardinality(Holders(t)) = 0
      BY <1>2, <1>3 DEF IdleEntries, IInv, LeasesCounted
    <2> QED
      BY <1>3, <2>1, <2>2, HoldersFinite, FS_EmptySet
  <1>6. TypeOK'
    BY <1>3, PoolsAssumption DEF IInv, TypeOK, PoolsAssumption
  <1>7. \A t, u \in Tenants : pools[t] # NoPool /\ pools[t] = pools[u] => t = u
    BY DEF IInv, CachedOpen
  <1>8. \A t \in Tenants : pools'[t] # NoPool =>
             pools'[t] = pools[t] /\ pools[t] \notin awaiting' /\ status'[pools[t]] = "open"
    BY <1>3, <1>7 DEF IInv, TypeOK, CachedOpen
  <1>9. CachedOpen'
    BY <1>8 DEF IInv, TypeOK, CachedOpen
  <1>10. NoPoolLeaked'
    <2> SUFFICES ASSUME NEW p \in PoolIds, status'[p] = "open"
                 PROVE  \E t \in Tenants : pools'[t] = p
      BY DEF NoPoolLeaked
    <2>1. status[p] = "open" /\ p \notin awaiting'
      BY DEF IInv, TypeOK
    <2>2. PICK t \in Tenants : pools[t] = p
      BY <2>1 DEF IInv, NoPoolLeaked
    <2> QED
      BY <2>1, <2>2
  <1>11. EndingAwaited'
    BY <1>2, <1>3, <1>4 DEF IInv, TypeOK, EndingAwaited
  <1>12. QueueOK' /\ DrainOK'
    BY <1>1, <1>2 DEF IInv, QueueOK, DrainOK, Waiting
  <1>13. LeaseOK'
    BY <1>5 DEF IInv, TypeOK, LeaseOK
  <1>14. LeasesCounted'
    BY DEF IInv, LeasesCounted, Holders
  <1>15. RoomOK'
    <2>1. Cached' \in SUBSET Cached
      BY <1>8 DEF Cached
    <2>2. IsFiniteSet(Cached') /\ Cardinality(Cached') <= Cardinality(Cached)
      BY <2>1, FS_Subset DEF IInv, RoomOK
    <2> QED
      BY <1>1, <2>2, FS_CardinalityType, PoolsAssumption DEF IInv, RoomOK, PoolsAssumption
  <1>16. LiveOK'
    <2>1. Live' = Live
      BY <1>3 DEF Live, IInv, TypeOK, CachedOpen
    <2> QED
      BY <2>1 DEF IInv, LiveOK, LivePoolsBounded
  <1> QED
    BY <1>6, <1>9, <1>10, <1>11, <1>12, <1>13, <1>14, <1>15, <1>16 DEF IInv

LEMMA SweepDoneIInv ==
    ASSUME IInv, SweepDone
    PROVE  IInv'
  <1> USE DEF SweepDone, driver, client
  <1>1. operations # <<>>
    BY DEF Running
  <1>2. TypeOK'
    BY <1>1, SettleFacts DEF IInv, TypeOK
  <1>3. QueueOK'
    BY <1>1, SettleFacts DEF QueueOK, Waiting
  <1>4. DrainOK'
    BY <1>1, SettleFacts DEF DrainOK
  <1>5. CachedOpen' /\ NoPoolLeaked' /\ EndingAwaited' /\ LeaseOK' /\ LeasesCounted'
    BY DEF IInv, CachedOpen, NoPoolLeaked, EndingAwaited, LeaseOK, LeasesCounted, Holders
  <1>6. RoomOK' /\ LiveOK'
    <2>1. Cached' = Cached /\ Live' = Live
      BY DEF Cached, Live
    <2> QED
      BY <2>1 DEF IInv, RoomOK, LiveOK, LivePoolsBounded
  <1> QED
    BY <1>2, <1>3, <1>4, <1>5, <1>6 DEF IInv

LEMMA EvictionTimerIInv ==
    ASSUME IInv, EvictionTimer
    PROVE  IInv'
  <1> USE DEF EvictionTimer, manager, driver, client
  <1>1. /\ operations' \in Seq(Requests \cup {Sweep})
        /\ operations' # <<>>
        /\ Len(operations) \in Nat
        /\ Len(operations') = Len(operations) + 1
        /\ \A i \in 1..Len(operations) : operations'[i] = operations[i]
        /\ operations'[Len(operations) + 1] = Sweep
        /\ operations # <<>> => Head(operations') = Head(operations)
    BY AppendFacts DEF IInv, TypeOK
  <1>2. TypeOK'
    BY <1>1 DEF IInv, TypeOK
  <1>3. CachedOpen' /\ NoPoolLeaked' /\ EndingAwaited' /\ LeaseOK' /\ LeasesCounted'
    BY DEF IInv, CachedOpen, NoPoolLeaked, EndingAwaited, LeaseOK, LeasesCounted, Holders
  <1>4. QueueOK'
    BY <1>1 DEF IInv, QueueOK, Waiting
  <1>5. DrainOK'
    BY <1>1 DEF IInv, DrainOK
  <1>6. RoomOK' /\ LiveOK'
    <2>1. Cached' = Cached /\ Live' = Live
      BY DEF Cached, Live
    <2>2. evicted => operations # <<>>
      BY DEF IInv, DrainOK
    <2> QED
      BY <1>1, <2>1, <2>2 DEF IInv, RoomOK, LiveOK, LivePoolsBounded
  <1> QED
    BY <1>2, <1>3, <1>4, <1>5, <1>6 DEF IInv

LEMMA TickIInv ==
    ASSUME IInv, Tick
    PROVE  IInv'
  <1> USE DEF Tick, driver, chain, client
  <1>1. TypeOK'
    BY PoolsAssumption DEF IInv, TypeOK, PoolsAssumption
  <1>2. CachedOpen' /\ NoPoolLeaked' /\ EndingAwaited' /\ LeaseOK' /\ LeasesCounted'
    BY DEF IInv, CachedOpen, NoPoolLeaked, EndingAwaited, LeaseOK, LeasesCounted, Holders
  <1>3. QueueOK' /\ DrainOK'
    BY DEF IInv, QueueOK, DrainOK, Waiting
  <1>4. RoomOK' /\ LiveOK'
    <2>1. Cached' = Cached /\ Live' = Live
      BY DEF Cached, Live
    <2> QED
      BY <2>1 DEF IInv, RoomOK, LiveOK, LivePoolsBounded
  <1> QED
    BY <1>1, <1>2, <1>3, <1>4 DEF IInv

LEMMA PoolEndedIInv ==
    ASSUME IInv, NEW p \in PoolIds, PoolEnded(p)
    PROVE  IInv'
  <1> USE DEF PoolEnded, chain, client
  <1>1. TypeOK'
    BY DEF IInv, TypeOK
  <1>2. CachedOpen' /\ NoPoolLeaked'
    BY DEF IInv, TypeOK, CachedOpen, NoPoolLeaked
  <1>3. EndingAwaited'
    BY DEF IInv, TypeOK, EndingAwaited
  <1>4. LeaseOK' /\ LeasesCounted' /\ QueueOK' /\ DrainOK'
    BY DEF IInv, LeaseOK, LeasesCounted, Holders, QueueOK, DrainOK, Waiting
  <1>5. RoomOK'
    <2>1. Cached' = Cached
      BY DEF Cached
    <2> QED
      BY <2>1 DEF IInv, RoomOK
  <1>6. LiveOK'
    <2>1. Live' \in SUBSET Live
      BY DEF Live, IInv, TypeOK
    <2>2. IsFiniteSet(Live') /\ Cardinality(Live') <= Cardinality(Live)
      BY <2>1, FS_Subset DEF IInv, LiveOK
    <2> QED
      BY <2>2, FS_CardinalityType, PoolsAssumption
         DEF IInv, LiveOK, LivePoolsBounded, PoolsAssumption
  <1> QED
    BY <1>1, <1>2, <1>3, <1>4, <1>5, <1>6 DEF IInv

LEMMA CloseAllIInv ==
    ASSUME IInv, CloseAll
    PROVE  IInv'
  <1> USE DEF CloseAll, Barrier, manager, driver, client
  <1>1. Len(operations) \in Nat /\ (operations # <<>> => Len(operations) > 0)
    BY DEF IInv, TypeOK
  <1>2. TypeOK'
    BY <1>1 DEF IInv, TypeOK
  <1>3. CachedOpen' /\ NoPoolLeaked' /\ EndingAwaited' /\ LeaseOK' /\ LeasesCounted'
    BY DEF IInv, CachedOpen, NoPoolLeaked, EndingAwaited, LeaseOK, LeasesCounted, Holders
  <1>4. QueueOK'
    BY DEF IInv, QueueOK, Waiting
  <1>5. DrainOK'
    BY <1>1 DEF IInv, DrainOK
  <1>6. RoomOK' /\ LiveOK'
    <2>1. Cached' = Cached /\ Live' = Live
      BY DEF Cached, Live
    <2> QED
      BY <2>1 DEF IInv, RoomOK, LiveOK, LivePoolsBounded
  <1> QED
    BY <1>2, <1>3, <1>4, <1>5, <1>6 DEF IInv

LEMMA CloseEntriesIInv ==
    ASSUME IInv, CloseEntries
    PROVE  IInv'
  <1> USE DEF CloseEntries, chain, client
  <1>1. ~evicted /\ \A i \in 1..Len(operations) : operations[i] # Sweep
    BY DEF IInv, TypeOK, DrainOK
  <1>2. TypeOK'
    BY PoolsAssumption DEF IInv, TypeOK, PoolsAssumption
  <1>3. Cached' = {}
    BY DEF Cached
  <1>4. CachedOpen' /\ NoPoolLeaked' /\ EndingAwaited'
    BY <1>1 DEF IInv, TypeOK, CachedOpen, NoPoolLeaked, EndingAwaited
  <1>5. LeaseOK' /\ LeasesCounted' /\ QueueOK' /\ DrainOK'
    BY <1>1 DEF IInv, LeaseOK, LeasesCounted, QueueOK, DrainOK, Waiting
  <1>6. RoomOK'
    BY <1>1, <1>3, FS_EmptySet, PoolsAssumption DEF RoomOK, PoolsAssumption
  <1>7. LiveOK'
    <2>1. ASSUME NEW p \in PoolIds PROVE status'[p] = "closed" <=> status[p] = "closed"
      <3>1. status'[p] = IF \E t \in Tenants : pools[t] = p THEN "ending" ELSE status[p]
        OBVIOUS
      <3>2. (\E t \in Tenants : pools[t] = p) => status[p] = "open"
        BY PoolsAssumption DEF IInv, CachedOpen, PoolsAssumption
      <3> QED
        BY <3>1, <3>2
    <2>2. Live' = Live
      BY <2>1 DEF Live
    <2> QED
      BY <2>2 DEF IInv, LiveOK, LivePoolsBounded
  <1> QED
    BY <1>2, <1>4, <1>5, <1>6, <1>7 DEF IInv

\* A step that changes nothing.
LEMMA StutterIInv ==
    ASSUME IInv, UNCHANGED vars
    PROVE  IInv'
  <1> USE DEF vars, manager, driver, chain, client
  <1>1. Cached' = Cached /\ Live' = Live /\ \A t \in Tenants : Holders(t)' = Holders(t)
    BY DEF Cached, Live, Holders
  <1>2. TypeOK' /\ CachedOpen' /\ NoPoolLeaked' /\ EndingAwaited'
    BY DEF IInv, TypeOK, CachedOpen, NoPoolLeaked, EndingAwaited
  <1>3. QueueOK' /\ DrainOK' /\ LeaseOK'
    BY DEF IInv, QueueOK, DrainOK, LeaseOK, Waiting
  <1>4. LeasesCounted' /\ RoomOK' /\ LiveOK'
    BY <1>1 DEF IInv, LeasesCounted, RoomOK, LiveOK, LivePoolsBounded
  <1> QED
    BY <1>2, <1>3, <1>4 DEF IInv

-----------------------------------------------------------------------------
(* Theorems. *)

\* The invariant holds throughout: every action of the manager, of its clients,
\* of the timer and of the driver preserves it.
THEOREM Invariance == Spec => []IInv
  <1>1. Init => IInv
    BY InitIInv
  <1>2. IInv /\ [Next]_vars => IInv'
    <2> SUFFICES ASSUME IInv, [Next]_vars PROVE IInv'
      OBVIOUS
    <2>1. ASSUME NEW r \in Requests, NEW t \in Tenants, GetConnection(r, t) PROVE IInv'
      BY <2>1, GetConnectionIInv
    <2>2. ASSUME NEW r \in Requests, Cancel(r) PROVE IInv'
      BY <2>2, CancelIInv
    <2>3. ASSUME NEW r \in Requests, Teardown(r) PROVE IInv'
      BY <2>3, TeardownIInv
    <2>4. ASSUME NEW r \in Requests, RejectShutdown(r) PROVE IInv'
      BY <2>4, RejectIInv DEF RejectShutdown
    <2>5. ASSUME NEW r \in Requests, RejectFull(r) PROVE IInv'
      BY <2>5, RejectIInv DEF RejectFull
    <2>6. ASSUME NEW r \in Requests, Reuse(r) PROVE IInv'
      BY <2>6, ReuseIInv
    <2>7. ASSUME NEW r \in Requests, Evict(r) PROVE IInv'
      BY <2>7, EvictIInv
    <2>8. ASSUME NEW r \in Requests, Create(r) PROVE IInv'
      BY <2>8, CreateIInv
    <2>9. ASSUME SweepIdle PROVE IInv'
      BY <2>9, SweepIdleIInv
    <2>10. ASSUME SweepDone PROVE IInv'
      BY <2>10, SweepDoneIInv
    <2>11. ASSUME EvictionTimer PROVE IInv'
      BY <2>11, EvictionTimerIInv
    <2>12. ASSUME Tick PROVE IInv'
      BY <2>12, TickIInv
    <2>13. ASSUME NEW p \in PoolIds, PoolEnded(p) PROVE IInv'
      BY <2>13, PoolEndedIInv
    <2>14. ASSUME CloseAll PROVE IInv'
      BY <2>14, CloseAllIInv
    <2>15. ASSUME CloseEntries PROVE IInv'
      BY <2>15, CloseEntriesIInv
    <2>16. ASSUME UNCHANGED vars PROVE IInv'
      BY <2>16, StutterIInv
    <2> QED
      BY <2>1, <2>2, <2>3, <2>4, <2>5, <2>6, <2>7, <2>8, <2>9, <2>10, <2>11,
         <2>12, <2>13, <2>14, <2>15, <2>16 DEF Next, Operation
  <1> QED
    BY <1>1, <1>2, PTL DEF Spec

\* Type correctness, for the runs' TypeOK.
THEOREM TypeCorrect == Spec => []TypeOK
  <1>1. IInv => TypeOK
    BY DEF IInv
  <1> QED
    BY <1>1, Invariance, PTL

\* The process never has pools to more than MaxPools tenant databases, closing
\* ones included: what the awaits of evict and sweep are for.
THEOREM PoolsBounded == Spec => []LivePoolsBounded
  <1>1. IInv => LivePoolsBounded
    BY DEF IInv, LiveOK
  <1> QED
    BY <1>1, Invariance, PTL

\* A leased pool is open, cached and its tenant's own until closeAll empties the map.
THEOREM LeasesSafe == Spec => []LeaseSafe
  <1>1. IInv => LeaseSafe
    BY PoolsAssumption DEF IInv, LeaseOK, CachedOpen, LeaseSafe
  <1> QED
    BY <1>1, Invariance, PTL

\* activeRequests is exactly the number of requests holding the entry's pool.
THEOREM CountsExact == Spec => []LeasesCounted
  <1>1. IInv => LeasesCounted
    BY DEF IInv
  <1> QED
    BY <1>1, Invariance, PTL

\* No open pool is ever out of the map.
THEOREM NothingLeaked == Spec => []NoPoolLeaked
  <1>1. IInv => NoPoolLeaked
    BY DEF IInv
  <1> QED
    BY <1>1, Invariance, PTL

\* The safety property the run checks: bounds, leases, counts and the map together,
\* for any number of tenants, requests and pools.
THEOREM PoolsStaySafe == Spec => []PoolsSafe
  <1> QED
    BY TypeCorrect, PoolsBounded, LeasesSafe, CountsExact, NothingLeaked, PTL DEF PoolsSafe

-----------------------------------------------------------------------------
(* Delivery.  The invariant: clients are counted; an attempt holds the row   *)
(* of the message it offers, which is then not sent; what the adapter took   *)
(* and a fault kept unrecorded, and the one being recorded or recorded, are  *)
(* all it took; a PENDING message is being tried or was left by a fault.     *)

USE DEF faultVars

Stages == {"waiting", "connected", "sent", "refused", "reading"}

Attempt == [of : Commands \cup Clicks, message : Mail, at : Stages]

DeliveryTyped ==
    /\ command \in [Commands -> {"idle", "working", "delivering", "done", "lost"}]
    /\ attempt \subseteq Attempt
    /\ message \in [Mail -> {"NONE", "PENDING", "SENT", "FAILED"}]
    /\ accepted \in [Mail -> Nat]
    /\ faults \in Nat
    /\ unrecorded \in [Mail -> Nat]

ClientsCounted ==
    /\ IsFiniteSet(Holding) /\ IsFiniteSet(Connected)
    /\ Cardinality(Holding) + Cardinality(Connected) <= PoolSize

\* Attempts are of commands that committed their message, and of retries.
AttemptsOfCommitted ==
    /\ \A a \in attempt : message[a.message] # "NONE" /\ (a.of \in Commands => command[a.of] = "delivering")
    /\ \A c \in Commands : command[c] \in {"idle", "working"} => \A m \in Outbox[c] : message[m] = "NONE"

RowsHeld ==
    /\ \A a \in attempt : a.at \in {"sent", "refused"} => Deliverable(a.message)
    /\ \A a, b \in attempt :
        a.at \in {"sent", "refused"} /\ b.at \in {"sent", "refused"} /\ a.message = b.message => a = b

Due(m) == IF message[m] = "SENT" \/ Taken(attempt, m) THEN 1 ELSE 0

AcceptedCounted == \A m \in Mail : accepted[m] = unrecorded[m] + Due(m)

PendingTried ==
    \A m \in Mail :
        message[m] = "PENDING" => m \in unsettled \/ \E a \in attempt : a.message = m /\ a.at # "reading"

DeliveryInv ==
    /\ DeliveryTyped
    /\ ClientsCounted
    /\ AttemptsOfCommitted
    /\ RowsHeld
    /\ AcceptedCounted
    /\ PendingTried

LEMMA DeliveryStarts == DeliveryInit => DeliveryInv
<1> SUFFICES ASSUME DeliveryInit  PROVE DeliveryInv
  OBVIOUS
<1>1. Holding = {} /\ Connected = {}
  BY DEF DeliveryInit, Holding, Connected
<1>2. ClientsCounted
  BY <1>1, FS_EmptySet, DeliveryAssumption DEF ClientsCounted
<1>3. \A c \in Commands : Outbox[c] \subseteq Mail
  BY DEF Mail
<1> QED
  BY <1>2, <1>3 DEF DeliveryInit, DeliveryInv, DeliveryTyped, AttemptsOfCommitted, RowsHeld, AcceptedCounted, Due, Taken, PendingTried

-----------------------------------------------------------------------------
(* Clients *)

LEMMA CountsAreNumbers ==
    ASSUME DeliveryInv
    PROVE  /\ Cardinality(Holding) \in Nat /\ Cardinality(Connected) \in Nat /\ PoolSize \in Nat
           /\ Free > 0 => Cardinality(Holding) + Cardinality(Connected) + 1 <= PoolSize
BY FS_CardinalityType, DeliveryAssumption DEF DeliveryInv, ClientsCounted, Free

LEMMA SameClients ==
    ASSUME DeliveryInv, Holding' \subseteq Holding, Connected' \subseteq Connected
    PROVE  ClientsCounted'
<1>1. /\ IsFiniteSet(Holding) /\ IsFiniteSet(Connected)
      /\ Cardinality(Holding) + Cardinality(Connected) <= PoolSize
  BY DEF DeliveryInv, ClientsCounted
<1>2. IsFiniteSet(Holding') /\ Cardinality(Holding') <= Cardinality(Holding)
  BY <1>1, FS_Subset
<1>3. IsFiniteSet(Connected') /\ Cardinality(Connected') <= Cardinality(Connected)
  BY <1>1, FS_Subset
<1>4. Cardinality(Holding') \in Nat /\ Cardinality(Connected') \in Nat
  BY <1>2, <1>3, FS_CardinalityType
<1> QED  BY <1>1, <1>2, <1>3, <1>4, CountsAreNumbers DEF ClientsCounted

LEMMA OneMoreCommand ==
    ASSUME DeliveryInv, Free > 0, NEW c, Holding' \subseteq Holding \cup {c}, Connected' = Connected
    PROVE  ClientsCounted'
<1>1. IsFiniteSet(Holding) /\ IsFiniteSet(Connected)
  BY DEF DeliveryInv, ClientsCounted
<1>2. IsFiniteSet(Holding \cup {c}) /\ Cardinality(Holding \cup {c}) <= Cardinality(Holding) + 1
  <2>1. Cardinality(Holding) \in Nat
    BY <1>1, FS_CardinalityType
  <2>2. /\ IsFiniteSet(Holding \cup {c})
        /\ Cardinality(Holding \cup {c}) = IF c \in Holding THEN Cardinality(Holding) ELSE Cardinality(Holding) + 1
    BY <1>1, FS_AddElement
  <2> QED  BY <2>1, <2>2
<1>3. IsFiniteSet(Holding') /\ Cardinality(Holding') <= Cardinality(Holding \cup {c})
  BY <1>2, FS_Subset
<1>4. Cardinality(Holding') \in Nat /\ Cardinality(Holding \cup {c}) \in Nat
  BY <1>2, <1>3, FS_CardinalityType
<1> QED  BY <1>1, <1>2, <1>3, <1>4, CountsAreNumbers DEF ClientsCounted

LEMMA OneMoreAttempt ==
    ASSUME DeliveryInv, Free > 0, NEW a, Connected' \subseteq Connected \cup {a}, Holding' = Holding
    PROVE  ClientsCounted'
<1>1. IsFiniteSet(Holding) /\ IsFiniteSet(Connected)
  BY DEF DeliveryInv, ClientsCounted
<1>2. IsFiniteSet(Connected \cup {a}) /\ Cardinality(Connected \cup {a}) <= Cardinality(Connected) + 1
  <2>1. Cardinality(Connected) \in Nat
    BY <1>1, FS_CardinalityType
  <2>2. /\ IsFiniteSet(Connected \cup {a})
        /\ Cardinality(Connected \cup {a}) = IF a \in Connected THEN Cardinality(Connected) ELSE Cardinality(Connected) + 1
    BY <1>1, FS_AddElement
  <2> QED  BY <2>1, <2>2
<1>3. IsFiniteSet(Connected') /\ Cardinality(Connected') <= Cardinality(Connected \cup {a})
  BY <1>2, FS_Subset
<1>4. Cardinality(Connected') \in Nat /\ Cardinality(Connected \cup {a}) \in Nat
  BY <1>2, <1>3, FS_CardinalityType
<1> QED  BY <1>1, <1>2, <1>3, <1>4, CountsAreNumbers DEF ClientsCounted

\* An attempt keeps its client.
LEMMA ClientKept ==
    ASSUME DeliveryInv, NEW a \in Connected, NEW b, Connected' \subseteq (Connected \ {a}) \cup {b}, Holding' = Holding
    PROVE  ClientsCounted'
<1> DEFINE D == Connected \ {a}
<1>1. IsFiniteSet(Holding) /\ IsFiniteSet(Connected)
  BY DEF DeliveryInv, ClientsCounted
<1>2. IsFiniteSet(D) /\ Cardinality(D) = Cardinality(Connected) - 1
  BY <1>1, FS_RemoveElement
<1> HIDE DEF D
<1>3. IsFiniteSet(D \cup {b}) /\ Cardinality(D \cup {b}) <= Cardinality(D) + 1
  <2>1. Cardinality(D) \in Nat
    BY <1>2, FS_CardinalityType
  <2>2. /\ IsFiniteSet(D \cup {b})
        /\ Cardinality(D \cup {b}) = IF b \in D THEN Cardinality(D) ELSE Cardinality(D) + 1
    BY <1>2, FS_AddElement
  <2> QED  BY <2>1, <2>2
<1>4. IsFiniteSet(Connected') /\ Cardinality(Connected') <= Cardinality(D \cup {b})
  BY <1>3, FS_Subset DEF D
<1>5. Cardinality(Connected') \in Nat /\ Cardinality(D \cup {b}) \in Nat /\ Cardinality(D) \in Nat
  BY <1>2, <1>3, <1>4, FS_CardinalityType
<1>6. Cardinality(Holding) + Cardinality(Connected) <= PoolSize
  BY DEF DeliveryInv, ClientsCounted
<1> QED  BY <1>1, <1>2, <1>3, <1>4, <1>5, <1>6, CountsAreNumbers DEF ClientsCounted

-----------------------------------------------------------------------------
(* Commands *)

\* A command takes or gives back its client; no message and no attempt changes.
LEMMA CommandMoves ==
    ASSUME DeliveryInv, NEW c \in Commands, NEW s \in {"working", "done"},
           command' = [command EXCEPT ![c] = s],
           UNCHANGED <<click, attempt, message, accepted, faultVars>>,
           \A a \in attempt : a.of # c,
           s = "working" => command[c] = "idle"
    PROVE  /\ DeliveryTyped' /\ AttemptsOfCommitted' /\ RowsHeld' /\ AcceptedCounted' /\ PendingTried'
           /\ Connected' = Connected
           /\ Holding' \subseteq Holding \cup {c}
           /\ s = "done" => Holding' \subseteq Holding
<1>1. /\ command' \in [Commands -> {"idle", "working", "delivering", "done", "lost"}]
      /\ \A d \in Commands : command'[d] = IF d = c THEN s ELSE command[d]
  BY DEF DeliveryInv, DeliveryTyped
<1>2. DeliveryTyped' /\ RowsHeld' /\ AcceptedCounted' /\ PendingTried'
  BY <1>1 DEF DeliveryInv, DeliveryTyped, RowsHeld, AcceptedCounted, Due, PendingTried, Taken, Deliverable
<1>3. AttemptsOfCommitted'
  BY <1>1 DEF DeliveryInv, AttemptsOfCommitted
<1>4. Connected' = Connected /\ Holding' \subseteq Holding \cup {c} /\ (s = "done" => Holding' \subseteq Holding)
  BY <1>1 DEF Connected, Holding
<1> QED  BY <1>2, <1>3, <1>4

LEMMA BeginDelivers ==
    ASSUME DeliveryInv, NEW c \in Commands, Begin(c)
    PROVE  DeliveryInv'
<1>1. \A a \in attempt : a.of # c
  BY DEF Begin, DeliveryInv, AttemptsOfCommitted
<1>2. /\ DeliveryTyped' /\ AttemptsOfCommitted' /\ RowsHeld' /\ AcceptedCounted' /\ PendingTried'
      /\ Connected' = Connected /\ Holding' \subseteq Holding \cup {c}
  BY <1>1, CommandMoves DEF Begin
<1>3. ClientsCounted'
  BY <1>2, OneMoreCommand DEF Begin
<1> QED  BY <1>2, <1>3 DEF DeliveryInv

LEMMA EndDelivers ==
    ASSUME DeliveryInv, NEW c \in Commands, Refuse(c) \/ Finish(c)
    PROVE  DeliveryInv'
<1>1. \A a \in attempt : a.of # c
  BY DEF Refuse, Finish, DeliveryInv, AttemptsOfCommitted
<1>2. /\ DeliveryTyped' /\ AttemptsOfCommitted' /\ RowsHeld' /\ AcceptedCounted' /\ PendingTried'
      /\ Connected' = Connected /\ Holding' \subseteq Holding
  BY <1>1, CommandMoves DEF Refuse, Finish
<1>3. ClientsCounted'
  BY <1>2, SameClients
<1> QED  BY <1>2, <1>3 DEF DeliveryInv

LEMMA CommitDelivers ==
    ASSUME DeliveryInv, NEW c \in Commands, NEW sent \in {{}, Outbox[c]}, Commit(c, sent)
    PROVE  DeliveryInv'
<1> DEFINE new == [of : {c}, message : sent, at : {"waiting"}]
<1>1. sent \subseteq Mail /\ \A m \in sent : message[m] = "NONE"
  BY DEF Mail, Commit, DeliveryInv, AttemptsOfCommitted
<1>2. \A a \in new : a \in Attempt /\ a.of = c /\ a.message \in sent /\ a.at = "waiting"
  BY <1>1 DEF Attempt, Stages
<1>3. attempt' = attempt \cup new /\ \A m \in sent : [of |-> c, message |-> m, at |-> "waiting"] \in new
  BY DEF Commit
<1> HIDE DEF new
<1>4. /\ command' \in [Commands -> {"idle", "working", "delivering", "done", "lost"}]
      /\ \A d \in Commands : command'[d] = IF d = c THEN "delivering" ELSE command[d]
      /\ command[c] = "working"
      /\ message' \in [Mail -> {"NONE", "PENDING", "SENT", "FAILED"}]
      /\ \A m \in Mail : message'[m] = IF m \in sent THEN "PENDING" ELSE message[m]
      /\ accepted' = accepted /\ UNCHANGED <<faults, unrecorded, unsettled>>
  BY <1>1 DEF Commit, DeliveryInv, DeliveryTyped
<1>5. DeliveryTyped'
  BY <1>2, <1>3, <1>4 DEF DeliveryInv, DeliveryTyped
<1>6. ClientsCounted'
  <2>1. Holding' \subseteq Holding /\ Connected' \subseteq Connected
    BY <1>2, <1>3, <1>4 DEF Holding, Connected
  <2> QED  BY <2>1, SameClients
<1>7. \A a \in attempt : a.message \in Mail /\ a.message \notin sent /\ a.of # c
  BY <1>1, <1>4 DEF DeliveryInv, AttemptsOfCommitted, DeliveryTyped, Attempt
<1>8. AttemptsOfCommitted'
  <2>1. \A a \in attempt' : message'[a.message] # "NONE" /\ (a.of \in Commands => command'[a.of] = "delivering")
    BY <1>1, <1>2, <1>3, <1>4, <1>7 DEF DeliveryInv, AttemptsOfCommitted
  <2>2. ASSUME NEW d \in Commands, command'[d] \in {"idle", "working"}, NEW m \in Outbox[d]
        PROVE  message'[m] = "NONE"
    <3>1. d # c /\ command[d] \in {"idle", "working"} /\ m \in Mail
      BY <1>4, <2>2 DEF Mail
    <3>2. m \notin sent
      BY <3>1, <2>2, DeliveryAssumption
    <3> QED  BY <1>4, <2>2, <3>1, <3>2 DEF DeliveryInv, AttemptsOfCommitted
  <2> QED  BY <2>1, <2>2 DEF AttemptsOfCommitted
<1>9. RowsHeld'
  <2>1. \A a \in attempt' : a.at \in {"sent", "refused"} => a \in attempt
    BY <1>2, <1>3
  <2> QED  BY <1>4, <1>7, <2>1 DEF DeliveryInv, RowsHeld, Deliverable
<1>10. AcceptedCounted'
  <2>1. \A m \in Mail : Taken(attempt, m)' <=> Taken(attempt, m)
    BY <1>2, <1>3 DEF Taken
  <2>2. \A m \in sent : message[m] # "SENT" /\ ~Taken(attempt, m)
    BY <1>1, <1>7 DEF Taken
  <2>3. \A m \in Mail : message'[m] = "SENT" <=> message[m] = "SENT"
    BY <1>4, <2>2
  <2> QED  BY <1>4, <2>1, <2>3 DEF DeliveryInv, AcceptedCounted, Due
<1>11. PendingTried'
  <2> SUFFICES ASSUME NEW m \in Mail, message'[m] = "PENDING"
               PROVE  m \in unsettled' \/ \E a \in attempt' : a.message = m /\ a.at # "reading"
    BY DEF PendingTried
  <2>1. CASE m \in sent
    BY <1>2, <1>3, <2>1
  <2>2. CASE m \notin sent
    BY <1>3, <1>4, <2>2 DEF DeliveryInv, PendingTried
  <2> QED  BY <2>1, <2>2
<1> QED  BY <1>5, <1>6, <1>8, <1>9, <1>10, <1>11 DEF DeliveryInv

LEMMA RetryDelivers ==
    ASSUME DeliveryInv, NEW r \in Clicks, NEW m \in Mail, Retry(r, m)
    PROVE  DeliveryInv'
<1> DEFINE n == [of |-> r, message |-> m, at |-> "waiting"]
<1>1. n \in Attempt /\ n.of = r /\ n.message = m /\ n.at = "waiting" /\ r \notin Commands
  BY DeliveryAssumption DEF Attempt, Stages
<1>2. /\ attempt' = attempt \cup {n} /\ message[m] # "NONE"
      /\ UNCHANGED <<command, message, accepted, faultVars>>
  BY DEF Retry
<1> HIDE DEF n
<1>3. Holding' \subseteq Holding /\ Connected' \subseteq Connected
  BY <1>1, <1>2 DEF Holding, Connected
<1>4. ClientsCounted'
  BY <1>3, SameClients
<1>5. DeliveryTyped' /\ AttemptsOfCommitted' /\ RowsHeld' /\ PendingTried'
  BY <1>1, <1>2 DEF DeliveryInv, DeliveryTyped, AttemptsOfCommitted, RowsHeld, PendingTried, Deliverable
<1>6. AcceptedCounted'
  <2>1. \A k \in Mail : Taken(attempt, k)' <=> Taken(attempt, k)
    BY <1>1, <1>2 DEF Taken
  <2> QED  BY <1>2, <2>1 DEF DeliveryInv, AcceptedCounted, Due
<1> QED  BY <1>4, <1>5, <1>6 DEF DeliveryInv

-----------------------------------------------------------------------------
(* Attempts *)

LEMMA AttemptFields ==
    ASSUME DeliveryInv, NEW a \in attempt
    PROVE  /\ a \in Attempt /\ a.message \in Mail /\ a.at \in Stages
           /\ \A s \in Stages :
                /\ [a EXCEPT !.at = s] \in Attempt /\ [a EXCEPT !.at = s].of = a.of
                /\ [a EXCEPT !.at = s].message = a.message /\ [a EXCEPT !.at = s].at = s
BY DEF DeliveryInv, DeliveryTyped, Attempt

\* An attempt goes on without a change of its message's row.
LEMMA AttemptGoesOn ==
    ASSUME DeliveryInv, NEW a \in attempt, NEW s \in Stages, Move(a, s),
           UNCHANGED <<command, click, message, faultVars>>
    PROVE  /\ attempt' \subseteq Attempt
           /\ AttemptsOfCommitted'
           /\ s # "reading" => PendingTried'
           /\ Holding' = Holding
<1> DEFINE b == [a EXCEPT !.at = s]
<1>1. b \in Attempt /\ b.of = a.of /\ b.message = a.message /\ b.at = s /\ attempt' = (attempt \ {a}) \cup {b}
  BY AttemptFields DEF Move
<1> HIDE DEF b
<1>2. attempt' \subseteq Attempt /\ AttemptsOfCommitted' /\ Holding' = Holding
  BY <1>1 DEF DeliveryInv, DeliveryTyped, AttemptsOfCommitted, Holding
<1>3. ASSUME s # "reading"  PROVE PendingTried'
  <2> SUFFICES ASSUME NEW m \in Mail, message[m] = "PENDING", m \notin unsettled
               PROVE  \E d \in attempt' : d.message = m /\ d.at # "reading"
    BY DEF PendingTried
  <2>1. PICK d \in attempt : d.message = m /\ d.at # "reading"
    BY DEF DeliveryInv, PendingTried
  <2>2. CASE d = a
    BY <1>1, <1>3, <2>1, <2>2
  <2>3. CASE d # a
    BY <1>1, <2>1, <2>3
  <2> QED  BY <2>2, <2>3
<1> QED  BY <1>2, <1>3

LEMMA ConnectDelivers ==
    ASSUME DeliveryInv, NEW a \in attempt, Connect(a)
    PROVE  DeliveryInv'
<1> DEFINE b == [a EXCEPT !.at = "connected"]
<1>1. /\ b.message = a.message /\ b.at = "connected" /\ attempt' = (attempt \ {a}) \cup {b}
      /\ a.at = "waiting" /\ Free > 0 /\ UNCHANGED <<command, click, message, accepted, faultVars>>
  BY AttemptFields DEF Connect, Move, Stages
<1>2. attempt' \subseteq Attempt /\ AttemptsOfCommitted' /\ PendingTried' /\ Holding' = Holding
  BY AttemptGoesOn DEF Connect, Stages
<1> HIDE DEF b
<1>3. Connected' \subseteq Connected \cup {b}
  BY <1>1 DEF Connected
<1>4. ClientsCounted'
  BY <1>1, <1>2, <1>3, OneMoreAttempt
<1>5. RowsHeld'
  BY <1>1 DEF DeliveryInv, RowsHeld, Deliverable
<1>6. AcceptedCounted'
  <2>1. \A m \in Mail : Taken(attempt, m)' <=> Taken(attempt, m)
    BY <1>1 DEF Taken
  <2> QED  BY <1>1, <2>1 DEF DeliveryInv, AcceptedCounted, Due
<1> QED  BY <1>1, <1>2, <1>4, <1>5, <1>6 DEF DeliveryInv, DeliveryTyped

LEMMA SendDelivers ==
    ASSUME DeliveryInv, NEW a \in attempt, Send(a)
    PROVE  DeliveryInv'
<1>1. PICK s \in {"sent", "refused"} :
         /\ Move(a, s)
         /\ IF s = "sent" THEN accepted' = [accepted EXCEPT ![a.message] = @ + 1] ELSE accepted' = accepted
  BY DEF Send
<1> DEFINE b == [a EXCEPT !.at = s]
           m == a.message
<1>2. /\ b.message = m /\ b.at = s /\ attempt' = (attempt \ {a}) \cup {b} /\ m \in Mail
      /\ a.at = "connected" /\ RowFree(m) /\ Deliverable(m) /\ UNCHANGED <<command, click, message, faultVars>>
      /\ s \in Stages
  <2>1. s \in Stages
    BY DEF Stages
  <2>2. b.message = m /\ b.at = s /\ m \in Mail
    BY <2>1, AttemptFields
  <2>3. attempt' = (attempt \ {a}) \cup {b}
    BY <1>1 DEF Move
  <2> QED  BY <2>1, <2>2, <2>3 DEF Send
<1>3. attempt' \subseteq Attempt /\ AttemptsOfCommitted' /\ PendingTried' /\ Holding' = Holding
  BY <1>1, <1>2, AttemptGoesOn
<1> HIDE DEF b, m
<1>4. a \in Connected /\ Connected' \subseteq (Connected \ {a}) \cup {b}
  BY <1>2 DEF Connected
<1>5. ClientsCounted'
  BY <1>3, <1>4, ClientKept
<1>6. RowsHeld'
  <2>1. ASSUME NEW d \in attempt', d.at \in {"sent", "refused"}
        PROVE  Deliverable(d.message)' /\ (d.message = m => d = b) /\ (d # b => d \in attempt)
    BY <1>2, <2>1 DEF DeliveryInv, RowsHeld, Deliverable, RowFree
  <2>2. ASSUME NEW d \in attempt', NEW e \in attempt',
               d.at \in {"sent", "refused"}, e.at \in {"sent", "refused"}, d.message = e.message
        PROVE  d = e
    <3>1. CASE d.message = m
      BY <2>1, <2>2, <3>1
    <3>2. CASE d.message # m
      BY <1>2, <2>1, <2>2, <3>2 DEF DeliveryInv, RowsHeld
    <3> QED  BY <3>1, <3>2
  <2> QED  BY <2>1, <2>2 DEF RowsHeld
<1>7. message[m] # "SENT" /\ ~Taken(attempt, m)
  BY <1>2 DEF Deliverable, RowFree, Taken
<1>8. accepted[m] \in Nat /\ accepted[m] = unrecorded[m] /\ unrecorded[m] \in Nat
  BY <1>2, <1>7 DEF DeliveryInv, AcceptedCounted, Due, DeliveryTyped
<1>9. \A k \in Mail \ {m} : (Taken(attempt, k)' <=> Taken(attempt, k)) /\ accepted'[k] = accepted[k]
  BY <1>1, <1>2 DEF Taken, DeliveryInv, DeliveryTyped, m
<1>10. accepted' \in [Mail -> Nat]
  BY <1>1, <1>2, <1>8 DEF DeliveryInv, DeliveryTyped, m
<1>11. AcceptedCounted'
  <2>1. \A k \in Mail \ {m} : accepted'[k] = unrecorded'[k] + Due(k)'
    BY <1>2, <1>9 DEF DeliveryInv, AcceptedCounted, Due
  <2>2. CASE s = "sent"
    <3>1. Taken(attempt, m)'
      BY <1>2, <2>2 DEF Taken
    <3>2. accepted'[m] = accepted[m] + 1
      BY <1>1, <1>2, <2>2 DEF DeliveryInv, DeliveryTyped, m
    <3>3. accepted'[m] = unrecorded'[m] + Due(m)'
      BY <1>2, <1>8, <3>1, <3>2 DEF Due
    <3> QED  BY <2>1, <3>3 DEF AcceptedCounted
  <2>3. CASE s = "refused"
    <3>1. ~Taken(attempt, m)' /\ message'[m] # "SENT"
      BY <1>2, <1>7, <2>3 DEF Taken
    <3>2. accepted'[m] = unrecorded'[m] + Due(m)'
      BY <1>1, <1>2, <1>8, <2>3, <3>1 DEF Due
    <3> QED  BY <2>1, <3>2 DEF AcceptedCounted
  <2> QED  BY <2>2, <2>3
<1> QED  BY <1>2, <1>3, <1>5, <1>6, <1>10, <1>11 DEF DeliveryInv, DeliveryTyped

\* The outcome of an attempt is committed: its row is no longer offered by it, and
\* the acceptance is recorded.
LEMMA OutcomeStands ==
    ASSUME DeliveryInv, NEW a \in attempt, a.at \in {"sent", "refused"},
           message' = [message EXCEPT ![a.message] = Outcome(a)],
           NEW B \in SUBSET Attempt, \A b \in B : b.of = a.of /\ b.message = a.message /\ b.at = "reading",
           attempt' = (attempt \ {a}) \cup B,
           UNCHANGED <<command, accepted, unrecorded, unsettled>>, faults' \in Nat
    PROVE  DeliveryInv'
<1> DEFINE m == a.message
<1>1. m \in Mail /\ a \in Attempt
  BY AttemptFields
<1>2. /\ message' \in [Mail -> {"NONE", "PENDING", "SENT", "FAILED"}]
      /\ \A k \in Mail \ {m} : message'[k] = message[k]
      /\ message'[m] = IF a.at = "sent" THEN "SENT" ELSE "FAILED"
  BY <1>1 DEF Outcome, DeliveryInv, DeliveryTyped
<1>3. DeliveryTyped' /\ Holding' = Holding /\ Connected' \subseteq Connected
  BY <1>1, <1>2 DEF DeliveryInv, DeliveryTyped, Holding, Connected
<1>4. ClientsCounted'
  BY <1>3, SameClients
<1>5. message[m] \in {"PENDING", "FAILED"}
  BY <1>1 DEF DeliveryInv, RowsHeld, Deliverable
<1>6. \A d \in attempt : d.message = m /\ d.at \in {"sent", "refused"} => d = a
  BY <1>1 DEF DeliveryInv, RowsHeld
<1> HIDE DEF m
<1>7. AttemptsOfCommitted'
  <2>1. \A d \in attempt' : message'[d.message] # "NONE" /\ (d.of \in Commands => command'[d.of] = "delivering")
    <3> SUFFICES ASSUME NEW d \in attempt'
                 PROVE  message'[d.message] # "NONE" /\ (d.of \in Commands => command'[d.of] = "delivering")
      OBVIOUS
    <3>1. PICK e \in attempt : e.message = d.message /\ e.of = d.of /\ e.message \in Mail
      BY <1>1, AttemptFields
    <3>2. message[e.message] # "NONE" /\ (e.of \in Commands => command[e.of] = "delivering")
      BY DEF DeliveryInv, AttemptsOfCommitted
    <3> QED  BY <1>1, <1>2, <3>1, <3>2
  <2>2. ASSUME NEW d \in Commands, command[d] \in {"idle", "working"}, NEW k \in Outbox[d]
        PROVE  message'[k] = "NONE"
    <3>1. k \in Mail /\ message[k] = "NONE"
      BY <2>2 DEF Mail, DeliveryInv, AttemptsOfCommitted
    <3> QED  BY <1>2, <1>5, <3>1
  <2> QED  BY <1>1, <2>1, <2>2 DEF AttemptsOfCommitted
<1>8. RowsHeld'
  <2>1. \A d \in attempt' : d.at \in {"sent", "refused"} => d \in attempt /\ d.message # m /\ d.message \in Mail
    BY <1>1, <1>6, AttemptFields
  <2> QED  BY <1>2, <2>1 DEF DeliveryInv, RowsHeld, Deliverable
<1>9. AcceptedCounted'
  <2>1. \A k \in Mail \ {m} : Taken(attempt, k)' <=> Taken(attempt, k)
    BY <1>1 DEF Taken, m
  <2>2. ~Taken(attempt, m)'
    BY <1>1, <1>6 DEF Taken
  <2>3. Taken(attempt, m) <=> a.at = "sent"
    BY <1>1, <1>6 DEF Taken, m
  <2>4. \A k \in Mail \ {m} : accepted'[k] = unrecorded'[k] + Due(k)'
    BY <1>1, <1>2, <2>1 DEF DeliveryInv, AcceptedCounted, Due
  <2>5. accepted'[m] = unrecorded'[m] + Due(m)'
    BY <1>1, <1>2, <1>5, <2>2, <2>3 DEF DeliveryInv, AcceptedCounted, Due
  <2> QED  BY <2>4, <2>5 DEF AcceptedCounted
<1>10. PendingTried'
  <2> SUFFICES ASSUME NEW k \in Mail, message'[k] = "PENDING", k \notin unsettled
               PROVE  \E d \in attempt' : d.message = k /\ d.at # "reading"
    BY <1>1 DEF PendingTried
  <2>1. k # m /\ message[k] = "PENDING"
    BY <1>2
  <2>2. PICK d \in attempt : d.message = k /\ d.at # "reading"
    BY <2>1 DEF DeliveryInv, PendingTried
  <2> QED  BY <1>1, <2>1, <2>2 DEF m
<1> QED  BY <1>3, <1>4, <1>7, <1>8, <1>9, <1>10 DEF DeliveryInv

LEMMA RecordDelivers ==
    ASSUME DeliveryInv, NEW a \in attempt, Record(a)
    PROVE  DeliveryInv'
<1> DEFINE b == [a EXCEPT !.at = "reading"]
<1>1. /\ b \in Attempt /\ b.of = a.of /\ b.message = a.message /\ b.at = "reading"
      /\ attempt' = (attempt \ {a}) \cup {b}
  BY AttemptFields DEF Record, Move, Stages
<1> HIDE DEF b
<1>2. {b} \in SUBSET Attempt /\ \A d \in {b} : d.of = a.of /\ d.message = a.message /\ d.at = "reading"
  BY <1>1
<1>3. /\ a.at \in {"sent", "refused"} /\ message' = [message EXCEPT ![a.message] = Outcome(a)]
      /\ UNCHANGED <<command, accepted, unrecorded, unsettled>> /\ faults' \in Nat
  BY DEF Record, DeliveryInv, DeliveryTyped
<1> QED  BY <1>1, <1>2, <1>3, OutcomeStands

LEMMA LastDelivers ==
    ASSUME DeliveryInv, NEW a \in attempt, Conflict(a) \/ Read(a)
    PROVE  DeliveryInv'
<1>1. /\ attempt' = attempt \ {a} /\ UNCHANGED <<command, click, message, accepted, faultVars>>
      /\ a.at \in {"connected", "reading"}
      /\ a.at = "connected" => ~Deliverable(a.message)
  BY DEF Conflict, Read, End
<1>2. ClientsCounted'
  <2>1. Holding' \subseteq Holding /\ Connected' \subseteq Connected
    BY <1>1 DEF Holding, Connected
  <2> QED  BY <2>1, SameClients
<1>3. DeliveryTyped' /\ AttemptsOfCommitted' /\ RowsHeld'
  BY <1>1 DEF DeliveryInv, DeliveryTyped, AttemptsOfCommitted, RowsHeld, Deliverable
<1>4. AcceptedCounted'
  <2>1. \A m \in Mail : Taken(attempt, m)' <=> Taken(attempt, m)
    BY <1>1 DEF Taken
  <2> QED  BY <1>1, <2>1 DEF DeliveryInv, AcceptedCounted, Due
<1>5. PendingTried'
  BY <1>1 DEF DeliveryInv, PendingTried, Deliverable
<1> QED  BY <1>2, <1>3, <1>4, <1>5 DEF DeliveryInv

-----------------------------------------------------------------------------
(* Faults *)

\* What a fault notes, when the attempts in A are over and no row has changed.
LEMMA FaultNotes ==
    ASSUME DeliveryInv, NEW A \in SUBSET attempt, Fault(A, Open(A)), attempt' = attempt \ A,
           UNCHANGED <<message, accepted>>
    PROVE  faults' \in Nat /\ unrecorded' \in [Mail -> Nat] /\ AcceptedCounted' /\ PendingTried'
<1>1. faults' \in Nat
  BY DEF Fault, DeliveryInv, DeliveryTyped
<1>2. \A m \in Mail : unrecorded[m] \in Nat /\ unrecorded'[m] = unrecorded[m] + (IF Taken(A, m) THEN 1 ELSE 0)
  BY DEF Fault, DeliveryInv, DeliveryTyped
<1>3. unrecorded' \in [Mail -> Nat]
  <2>1. unrecorded' = [m \in Mail |-> unrecorded[m] + (IF Taken(A, m) THEN 1 ELSE 0)]
    BY DEF Fault
  <2>2. \A m \in Mail : unrecorded[m] + (IF Taken(A, m) THEN 1 ELSE 0) \in Nat
    BY <1>2
  <2> QED  BY <2>1, <2>2
<1>4. AcceptedCounted'
  <2> SUFFICES ASSUME NEW m \in Mail  PROVE accepted[m] = unrecorded'[m] + Due(m)'
    BY DEF AcceptedCounted
  <2>1. accepted[m] = unrecorded[m] + Due(m)
    BY DEF DeliveryInv, AcceptedCounted, Due
  <2>2. CASE Taken(A, m)
    <3>1. PICK a \in A : a.message = m /\ a.at = "sent"
      BY <2>2 DEF Taken
    <3>2. a \in attempt /\ message[m] # "SENT" /\ Taken(attempt, m)
      BY <3>1 DEF DeliveryInv, RowsHeld, Deliverable, Taken
    <3>3. ~Taken(attempt, m)'
      BY <3>1, <3>2 DEF DeliveryInv, RowsHeld, Taken
    <3> QED  BY <1>2, <2>1, <2>2, <3>2, <3>3 DEF Due
  <2>3. CASE ~Taken(A, m)
    <3>1. Taken(attempt, m)' <=> Taken(attempt, m)
      BY <2>3 DEF Taken
    <3> QED  BY <1>2, <2>1, <2>3, <3>1 DEF Due
  <2> QED  BY <2>2, <2>3
<1>5. PendingTried'
  <2> SUFFICES ASSUME NEW m \in Mail, message[m] = "PENDING", m \notin unsettled'
               PROVE  \E a \in attempt' : a.message = m /\ a.at # "reading"
    BY DEF PendingTried
  <2>1. m \notin unsettled /\ m \notin Open(A)
    BY DEF Fault
  <2>2. PICK a \in attempt : a.message = m /\ a.at # "reading"
    BY <2>1 DEF DeliveryInv, PendingTried
  <2>3. a \notin A
    BY <2>1, <2>2 DEF Open
  <2> QED  BY <2>2, <2>3
<1> QED  BY <1>1, <1>3, <1>4, <1>5

LEMMA RollbackDelivers ==
    ASSUME DeliveryInv, NEW a \in attempt, Rollback(a)
    PROVE  DeliveryInv'
<1>1. attempt' = attempt \ {a} /\ UNCHANGED <<command, click, message, accepted>>
  BY DEF Rollback, End
<1>2. faults' \in Nat /\ unrecorded' \in [Mail -> Nat] /\ AcceptedCounted' /\ PendingTried'
  BY <1>1, FaultNotes DEF Rollback
<1>3. ClientsCounted'
  <2>1. Holding' \subseteq Holding /\ Connected' \subseteq Connected
    BY <1>1 DEF Holding, Connected
  <2> QED  BY <2>1, SameClients
<1>4. DeliveryTyped' /\ AttemptsOfCommitted' /\ RowsHeld'
  BY <1>1, <1>2 DEF DeliveryInv, DeliveryTyped, AttemptsOfCommitted, RowsHeld, Deliverable
<1> QED  BY <1>2, <1>3, <1>4 DEF DeliveryInv

LEMMA RecordUnheardDelivers ==
    ASSUME DeliveryInv, NEW a \in attempt, RecordUnheard(a)
    PROVE  DeliveryInv'
<1>1. attempt' = (attempt \ {a}) \cup {} /\ \A m \in Mail : ~Taken({}, m)
  BY DEF RecordUnheard, End, Taken
<1>2. faults' \in Nat /\ unrecorded' = unrecorded /\ unsettled' = unsettled
  <2>1. unrecorded' = [m \in Mail |-> unrecorded[m]]
    BY <1>1 DEF RecordUnheard, Fault, DeliveryInv, DeliveryTyped
  <2> QED  BY <2>1 DEF RecordUnheard, Fault, DeliveryInv, DeliveryTyped
<1>3. {} \in SUBSET Attempt /\ \A b \in {} : b.of = a.of /\ b.message = a.message /\ b.at = "reading"
  OBVIOUS
<1>4. /\ a.at \in {"sent", "refused"} /\ message' = [message EXCEPT ![a.message] = Outcome(a)]
      /\ UNCHANGED <<command, accepted, unrecorded, unsettled>>
  BY <1>2 DEF RecordUnheard
<1> QED  BY <1>1, <1>2, <1>3, <1>4, OutcomeStands

LEMMA CommitUnheardDelivers ==
    ASSUME DeliveryInv, NEW c \in Commands, CommitUnheard(c)
    PROVE  DeliveryInv'
<1>1. Outbox[c] \subseteq Mail /\ \A m \in Outbox[c] : message[m] = "NONE"
  BY DEF Mail, CommitUnheard, DeliveryInv, AttemptsOfCommitted
<1>2. /\ command' \in [Commands -> {"idle", "working", "delivering", "done", "lost"}]
      /\ \A d \in Commands : command'[d] = IF d = c THEN "done" ELSE command[d]
      /\ command[c] = "working"
      /\ message' \in [Mail -> {"NONE", "PENDING", "SENT", "FAILED"}]
      /\ \A m \in Mail : message'[m] = IF m \in Outbox[c] THEN "PENDING" ELSE message[m]
      /\ attempt' = attempt /\ accepted' = accepted
  BY <1>1 DEF CommitUnheard, DeliveryInv, DeliveryTyped
<1>3. faults' \in Nat /\ unrecorded' = unrecorded /\ unsettled' = unsettled \cup Outbox[c]
  <2>1. \A m \in Mail : ~Taken({}, m)
    BY DEF Taken
  <2>2. unrecorded' = [m \in Mail |-> unrecorded[m]]
    BY <2>1 DEF CommitUnheard, Fault, DeliveryInv, DeliveryTyped
  <2> QED  BY <2>2 DEF CommitUnheard, Fault, DeliveryInv, DeliveryTyped
<1>4. ClientsCounted'
  <2>1. Holding' \subseteq Holding /\ Connected' \subseteq Connected
    BY <1>2 DEF Holding, Connected
  <2> QED  BY <2>1, SameClients
<1>5. DeliveryTyped'
  BY <1>2, <1>3 DEF DeliveryInv, DeliveryTyped
<1>6. \A a \in attempt : a.message \in Mail /\ a.message \notin Outbox[c] /\ a.of # c
  BY <1>1, <1>2 DEF DeliveryInv, AttemptsOfCommitted, DeliveryTyped, Attempt
<1>7. AttemptsOfCommitted'
  <2>1. \A a \in attempt : message'[a.message] # "NONE" /\ (a.of \in Commands => command'[a.of] = "delivering")
    BY <1>2, <1>6 DEF DeliveryInv, AttemptsOfCommitted
  <2>2. ASSUME NEW d \in Commands, command'[d] \in {"idle", "working"}, NEW m \in Outbox[d]
        PROVE  message'[m] = "NONE"
    <3>1. d # c /\ command[d] \in {"idle", "working"} /\ m \in Mail
      BY <1>2, <2>2 DEF Mail
    <3>2. m \notin Outbox[c]
      BY <3>1, <2>2, DeliveryAssumption
    <3> QED  BY <1>2, <2>2, <3>1, <3>2 DEF DeliveryInv, AttemptsOfCommitted
  <2> QED  BY <1>2, <2>1, <2>2 DEF AttemptsOfCommitted
<1>8. RowsHeld'
  BY <1>2, <1>6 DEF DeliveryInv, RowsHeld, Deliverable
<1>9. AcceptedCounted'
  <2>1. \A m \in Mail : message'[m] = "SENT" <=> message[m] = "SENT"
    BY <1>1, <1>2
  <2> QED  BY <1>2, <1>3, <2>1 DEF DeliveryInv, AcceptedCounted, Due
<1>10. PendingTried'
  BY <1>2, <1>3 DEF DeliveryInv, PendingTried
<1> QED  BY <1>4, <1>5, <1>7, <1>8, <1>9, <1>10 DEF DeliveryInv

LEMMA CrashDelivers ==
    ASSUME DeliveryInv, Crash
    PROVE  DeliveryInv'
<1>1. /\ attempt' = {} /\ message' = message /\ accepted' = accepted
      /\ command' \in [Commands -> {"idle", "working", "delivering", "done", "lost"}]
      /\ \A c \in Commands : command'[c] = IF c \in Holding THEN "lost" ELSE command[c]
  BY DEF Crash, DeliveryInv, DeliveryTyped
<1>2. faults' \in Nat /\ unrecorded' \in [Mail -> Nat] /\ AcceptedCounted' /\ PendingTried'
  <2>1. attempt \in SUBSET attempt /\ attempt' = attempt \ attempt
    BY <1>1
  <2>2. Fault(attempt, Open(attempt)) /\ UNCHANGED <<message, accepted>>
    BY <1>1 DEF Crash
  <2> QED  BY <2>1, <2>2, FaultNotes
<1>3. ClientsCounted'
  <2>1. Holding' \subseteq Holding /\ Connected' \subseteq Connected
    BY <1>1 DEF Holding, Connected
  <2> QED  BY <2>1, SameClients
<1>4. DeliveryTyped' /\ AttemptsOfCommitted' /\ RowsHeld'
  BY <1>1, <1>2 DEF DeliveryInv, DeliveryTyped, AttemptsOfCommitted, RowsHeld
<1> QED  BY <1>2, <1>3, <1>4 DEF DeliveryInv

LEMMA DeliveryStep == DeliveryInv /\ [DeliveryNext]_deliveryVars => DeliveryInv'
<1> SUFFICES ASSUME DeliveryInv, [DeliveryNext]_deliveryVars  PROVE DeliveryInv'
  OBVIOUS
<1>1. CASE \E c \in Commands : Begin(c) \/ Commit(c, {}) \/ Commit(c, Outbox[c]) \/ Refuse(c) \/ Finish(c)
  BY <1>1, BeginDelivers, CommitDelivers, EndDelivers
<1>2. CASE \E r \in Clicks, m \in Mail : Retry(r, m)
  BY <1>2, RetryDelivers
<1>3. CASE \E a \in attempt : AttemptStep(a) \/ Rollback(a) \/ RecordUnheard(a)
  BY <1>3, ConnectDelivers, SendDelivers, RecordDelivers, LastDelivers, RollbackDelivers, RecordUnheardDelivers DEF AttemptStep
<1>4. CASE (\E c \in Commands : CommitUnheard(c)) \/ Crash
  BY <1>4, CommitUnheardDelivers, CrashDelivers
<1>5. CASE UNCHANGED deliveryVars
  BY <1>5 DEF deliveryVars, DeliveryInv, DeliveryTyped, ClientsCounted, Holding, Connected, AttemptsOfCommitted, RowsHeld,
     Deliverable, AcceptedCounted, Due, Taken, PendingTried
<1> QED  BY <1>1, <1>2, <1>3, <1>4, <1>5 DEF DeliveryNext

\* The inductive invariant of delivery.
THEOREM DeliveryInvariance == DeliverySpec => []DeliveryInv
BY DeliveryStarts, DeliveryStep, PTL DEF DeliverySpec

LEMMA SentStays ==
    ASSUME DeliveryInv, [DeliveryNext]_deliveryVars, NEW m \in Mail, message[m] = "SENT"
    PROVE  message'[m] = "SENT" /\ accepted[m] > 0
<1>1. accepted[m] > 0
  BY DEF DeliveryInv, DeliveryTyped, AcceptedCounted, Due
<1>2. CASE message' = message
  BY <1>2, <1>1
<1>3. CASE \E c \in Commands : \E sent \in {{}, Outbox[c]} : Commit(c, sent)
  <2>1. PICK c \in Commands : \E sent \in {{}, Outbox[c]} : Commit(c, sent)
    BY <1>3
  <2>2. PICK sent \in {{}, Outbox[c]} : Commit(c, sent)
    BY <2>1
  <2>3. m \notin sent
    BY <2>2 DEF Commit, DeliveryInv, AttemptsOfCommitted
  <2> QED  BY <1>1, <2>2, <2>3 DEF Commit
<1>4. CASE \E a \in attempt : Record(a) \/ RecordUnheard(a)
  <2>1. PICK a \in attempt : a.at \in {"sent", "refused"} /\ message' = [message EXCEPT ![a.message] = Outcome(a)]
    BY <1>4 DEF Record, RecordUnheard
  <2>2. a.message # m
    BY <2>1 DEF DeliveryInv, RowsHeld, Deliverable
  <2> QED  BY <1>1, <2>1, <2>2 DEF DeliveryInv, DeliveryTyped
<1>5. CASE \E c \in Commands : CommitUnheard(c)
  <2>1. PICK c \in Commands : CommitUnheard(c)
    BY <1>5
  <2>2. m \notin Outbox[c]
    BY <2>1 DEF CommitUnheard, DeliveryInv, AttemptsOfCommitted
  <2> QED  BY <1>1, <2>1, <2>2 DEF CommitUnheard
<1> QED
  BY <1>2, <1>3, <1>4, <1>5 DEF DeliveryNext, deliveryVars, Begin, Refuse, Finish, Retry, AttemptStep, Connect, Send, Conflict, Read, Rollback, Crash

\* For any commands, messages, retries and size of the pool: the clients of the pool
\* are never exceeded, what the adapter took is what is recorded, once at most, and what
\* a fault kept from being recorded, SENT is final, and only a fault - a crash, a failed
\* statement or connect, a lost answer - leaves a message PENDING at rest.
THEOREM DeliveriesStaySafe == DeliverySpec => DeliverySafe
<1>1. DeliveryInv => DeliveryTypeOK /\ AcceptedOnce /\ PendingOnlyAfterFault
  <2> SUFFICES ASSUME DeliveryInv  PROVE DeliveryTypeOK /\ AcceptedOnce /\ PendingOnlyAfterFault
    OBVIOUS
  <2>1. /\ Holding = {c \in Commands : command[c] \in {"working", "delivering"}}
        /\ Connected = {a \in attempt : a.at \notin {"waiting", "reading"}}
    <3>1. \A a \in attempt : a.at \in Stages
      BY AttemptFields
    <3>2. \A a \in attempt : a.at \in {"connected", "sent", "refused"} <=> a.at \notin {"waiting", "reading"}
      BY <3>1 DEF Stages
    <3> QED  BY <3>2 DEF Holding, Connected
  <2>2. DeliveryTypeOK
    BY <2>1 DEF DeliveryTypeOK, DeliveryInv, DeliveryTyped, ClientsCounted, AttemptsOfCommitted
  <2>3. AcceptedOnce
    BY DEF AcceptedOnce, DeliveryInv, AcceptedCounted, Due
  <2>4. PendingOnlyAfterFault
    BY DEF PendingOnlyAfterFault, DeliveryInv, PendingTried
  <2> QED  BY <2>2, <2>3, <2>4
<1>2. DeliverySpec => SentIsFinal
  <2>1. DeliveryInv /\ [DeliveryNext]_deliveryVars =>
            [\A m \in Mail : message[m] = "SENT" => message'[m] = "SENT" /\ accepted[m] > 0]_deliveryVars
    BY SentStays
  <2> QED  BY <2>1, DeliveryInvariance, PTL DEF DeliverySpec, SentIsFinal
<1> QED  BY <1>1, <1>2, DeliveryInvariance, PTL DEF DeliverySafe

-----------------------------------------------------------------------------
(* Who is told, for any families, events and mailboxes.                     *)

\* A message as a dispatch makes it: one of the rows that its event plans.
Justified(k, about) ==
    \E e \in Events, channel \in Channels : \E plan \in Plans(e) :
        /\ k = Key(e, plan, channel)
        /\ channel = "EMAIL" => family.mail[plan.to] # NoMail
        /\ about = plan.about

NoticesInv ==
    /\ family \in Families
    /\ template \in [Channels -> {"DEFAULT", "ON", "OFF"}]
    /\ \A k \in Sent : Justified(k, notice[k])

LEMMA FamilyFields ==
    ASSUME family \in Families
    PROVE  /\ family.links \in [Students -> SUBSET Link]
           /\ family.mail \in [People -> Mailboxes \cup {NoMail}]
           /\ family.absent \subseteq Students /\ family.absent \subseteq family.roster /\ family.roster \subseteq Students
           /\ family.trial.guardian \in Guardians \cup {NoPerson}
           /\ family.trial.student \in Students \cup {NoPerson} /\ family.trial.lead \in Leads
BY NoticesAssumption

LEMMA EventFields ==
    ASSUME NEW e \in Events
    PROVE  /\ e.event \in Money \cup {"ENROLLMENT_EXPIRING", "ATTENDANCE_ABSENCE", "TRIAL_REMINDER", "SCHEDULE_CHANGED", "SESSION_REMINDER"}
           /\ e.event \in Money \cup {"ENROLLMENT_EXPIRING"} => e.source \in Students
BY NoticesAssumption DEF Money

LEMMA GuardiansOf ==
    ASSUME family \in Families, NEW p \in Students
    PROVE  /\ Primary(p) \subseteq Guardians /\ Billing(p) \subseteq Guardians
           /\ \A g \in Primary(p) : \E l \in family.links[p] : l.primary /\ l.guardian = g
           /\ \A l \in family.links[p] : l.primary => l.guardian \in Primary(p)
           /\ Billing(p) = {l.guardian : l \in {j \in family.links[p] : j.billing}}
<1>1. family.links[p] \subseteq Link
  BY FamilyFields
<1>2. \A l \in Link : l.guardian \in Guardians
  BY Zenon DEF Link
<1> QED  BY <1>1, <1>2, Zenon DEF Primary, Billing

\* The recipients of money, of news of a student, and of a trial.
LEMMA RecipientsOf ==
    ASSUME family \in Families, NEW p \in Students
    PROVE  /\ BillingRecipients(p) \subseteq Guardians \cup {p} /\ BillingRecipients(p) # {}
           /\ AcademicRecipients(p) \subseteq Guardians \cup {p} /\ AcademicRecipients(p) # {}
           /\ TrialRecipients \subseteq People
<1>1. BillingRecipients(p) \subseteq Guardians \cup {p} /\ BillingRecipients(p) # {}
  BY GuardiansOf DEF BillingRecipients
<1>2. AcademicRecipients(p) \subseteq Guardians \cup {p} /\ AcademicRecipients(p) # {}
  BY GuardiansOf DEF AcademicRecipients
<1>3. TrialRecipients \subseteq People
  BY FamilyFields DEF TrialRecipients, People
<1> QED  BY <1>1, <1>2, <1>3

\* What is planned: a student's news for the recipients, or the roster's.
PlanFor(e, plan) ==
    \/ /\ e.event \in Money /\ e.source \in Students
       /\ plan.to \in BillingRecipients(e.source) /\ plan.about = {e.source}
    \/ /\ e.event = "ENROLLMENT_EXPIRING" /\ e.source \in Students
       /\ plan.to \in AcademicRecipients(e.source) /\ plan.about = {e.source}
    \/ /\ e.event = "ATTENDANCE_ABSENCE"
       /\ plan.scope \in family.absent /\ plan.to \in AcademicRecipients(plan.scope) /\ plan.about = {plan.scope}
    \/ e.event = "TRIAL_REMINDER" /\ plan.to \in TrialRecipients /\ plan.about = {}
    \/ /\ e.event \in {"SCHEDULE_CHANGED", "SESSION_REMINDER"} /\ plan.scope = e.scope
       /\ \/ plan.to \in family.roster /\ Primary(plan.to) = {} /\ plan.about = {plan.to}
          \/ \E p \in family.roster : plan.to \in Primary(p) /\ plan.about = MailboxStudents(plan.to)

LEMMA PlanFields ==
    ASSUME NEW to, NEW about, NEW scope, NEW rank
    PROVE  /\ Plan(to, about, scope, rank).to = to /\ Plan(to, about, scope, rank).about = about
           /\ Plan(to, about, scope, rank).scope = scope
BY DEF Plan

LEMMA Planned ==
    ASSUME family \in Families, NEW e \in Events, NEW plan \in Plans(e)
    PROVE  PlanFor(e, plan)
<1>1. CASE e.event \in Money
  <2>1. plan \in StudentPlans(BillingRecipients(e.source), e.source, e.scope)
    BY <1>1 DEF Money, Plans, PaymentPlans, TuitionDuePlans, TuitionOverduePlans, TuitionPlans
  <2>2. PICK r \in BillingRecipients(e.source) : plan = Plan(r, {e.source}, e.scope, 1)
    BY <2>1 DEF StudentPlans
  <2> QED  BY <1>1, <2>2, PlanFields, EventFields DEF PlanFor
<1>2. CASE e.event = "ENROLLMENT_EXPIRING"
  <2>1. plan \in StudentPlans(AcademicRecipients(e.source), e.source, e.scope)
    BY <1>2 DEF Plans, EnrollmentPlans
  <2>2. PICK r \in AcademicRecipients(e.source) : plan = Plan(r, {e.source}, e.scope, 1)
    BY <2>1 DEF StudentPlans
  <2> QED  BY <1>2, <2>2, PlanFields, EventFields DEF PlanFor
<1>3. CASE e.event = "ATTENDANCE_ABSENCE"
  <2>1. PICK p \in family.absent : plan \in StudentPlans(AcademicRecipients(p), p, p)
    BY <1>3 DEF Plans, AbsencePlans
  <2>2. PICK r \in AcademicRecipients(p) : plan = Plan(r, {p}, p, 1)
    BY <2>1 DEF StudentPlans
  <2> QED  BY <1>3, <2>1, <2>2, PlanFields DEF PlanFor
<1>4. CASE e.event = "TRIAL_REMINDER"
  <2>1. PICK r \in TrialRecipients : plan = Plan(r, {}, e.scope, 1)
    BY <1>4 DEF Plans, TrialPlans
  <2> QED  BY <1>4, <2>1, PlanFields DEF PlanFor
<1>5. CASE e.event \in {"SCHEDULE_CHANGED", "SESSION_REMINDER"}
  <2>1. plan \in RosterPlans(e.scope)
    BY <1>5 DEF Plans, ScheduleChangedPlans, SessionReminderPlans
  <2>2. CASE \E p \in {q \in family.roster : Primary(q) = {}} : plan = Plan(p, {p}, e.scope, 1)
    <3>1. PICK p \in family.roster : Primary(p) = {} /\ plan = Plan(p, {p}, e.scope, 1)
      BY <2>2
    <3>2. plan.to = p /\ plan.about = {p} /\ plan.scope = e.scope
      BY <3>1, PlanFields
    <3> QED  BY <1>5, <3>1, <3>2 DEF PlanFor
  <2>3. CASE \E g \in UNION {Primary(p) : p \in family.roster} : plan = Plan(g, MailboxStudents(g), e.scope, 2)
    <3>1. PICK g, p : p \in family.roster /\ g \in Primary(p) /\ plan = Plan(g, MailboxStudents(g), e.scope, 2)
      BY <2>3
    <3>2. plan.to = g /\ plan.about = MailboxStudents(g) /\ plan.scope = e.scope
      BY <3>1, PlanFields
    <3> QED  BY <1>5, <3>1, <3>2 DEF PlanFor
  <2> QED  BY <2>1, <2>2, <2>3 DEF RosterPlans
<1> QED  BY <1>1, <1>2, <1>3, <1>4, <1>5, EventFields

LEMMA PlanTyped ==
    ASSUME family \in Families, NEW e \in Events, NEW plan \in Plans(e)
    PROVE  plan.to \in People /\ plan.about \subseteq Students
<1>1. PlanFor(e, plan)
  BY Planned
<1>2. \A p \in Students : BillingRecipients(p) \subseteq People /\ AcademicRecipients(p) \subseteq People
  BY RecipientsOf DEF People
<1>3. CASE e.event \in Money \cup {"ENROLLMENT_EXPIRING"} /\ e.source \in Students
  BY <1>1, <1>2, <1>3 DEF PlanFor, Money
<1>4. CASE e.event = "ATTENDANCE_ABSENCE"
  <2>1. plan.scope \in Students /\ plan.to \in AcademicRecipients(plan.scope) /\ plan.about = {plan.scope}
    BY <1>1, <1>4, FamilyFields DEF PlanFor, Money
  <2> QED  BY <1>2, <2>1
<1>5. CASE e.event = "TRIAL_REMINDER"
  <2>1. plan.to \in TrialRecipients /\ plan.about = {}
    BY <1>1, <1>5 DEF PlanFor, Money
  <2>2. TrialRecipients \subseteq People
    BY FamilyFields DEF TrialRecipients, People
  <2> QED  BY <2>1, <2>2
<1>6. CASE e.event \in {"SCHEDULE_CHANGED", "SESSION_REMINDER"}
  <2>1. \/ plan.to \in family.roster /\ plan.about = {plan.to}
        \/ \E p \in family.roster : plan.to \in Primary(p) /\ plan.about = MailboxStudents(plan.to)
    BY <1>1, <1>6 DEF PlanFor, Money
  <2>2. MailboxStudents(plan.to) \subseteq Students /\ family.roster \subseteq Students
    BY FamilyFields DEF MailboxStudents
  <2> QED  BY <2>1, <2>2, GuardiansOf DEF People
<1> QED  BY <1>3, <1>4, <1>5, <1>6, EventFields

LEMMA KeyFields ==
    ASSUME NEW e, NEW plan, NEW channel
    PROVE  LET k == Key(e, plan, channel) IN
             /\ k.event = e.event /\ k.source = e.source /\ k.scope = plan.scope /\ k.channel = channel
             /\ k.to = IF channel = "EMAIL" THEN family.mail[plan.to] ELSE plan.to
BY DEF Key

-----------------------------------------------------------------------------
(* The invariant *)

LEMMA NoticesBegin == NoticesInit => NoticesInv
<1> SUFFICES ASSUME NoticesInit  PROVE NoticesInv
  OBVIOUS
<1>1. Sent = {}
  BY DEF NoticesInit, Sent
<1> QED  BY <1>1 DEF NoticesInit, NoticesInv

\* Nothing of the family changes, so what was planned is planned.
LEMMA StillJustified ==
    ASSUME family' = family, NEW k, NEW about, Justified(k, about)
    PROVE  Justified(k, about)'
<1>1. PICK e, channel, plan :
        /\ e \in Events /\ channel \in Channels /\ plan \in Plans(e)
        /\ k = Key(e, plan, channel)
        /\ channel = "EMAIL" => family.mail[plan.to] # NoMail
        /\ about = plan.about
  BY DEF Justified
<1>2. plan \in Plans(e)'
  <2>1. \A p : Primary(p)' = Primary(p) /\ Billing(p)' = Billing(p)
    BY DEF Primary, Billing
  <2>2. \A p : BillingRecipients(p)' = BillingRecipients(p) /\ AcademicRecipients(p)' = AcademicRecipients(p)
    BY <2>1 DEF BillingRecipients, AcademicRecipients
  <2>3. TrialRecipients' = TrialRecipients
    BY DEF TrialRecipients
  <2>4. \A g : MailboxStudents(g)' = MailboxStudents(g)
    BY <2>1 DEF MailboxStudents
  <2>5. \A scope : RosterPlans(scope)' = RosterPlans(scope)
    BY <2>1, <2>4 DEF RosterPlans
  <2>6. AbsencePlans' = AbsencePlans
    BY <2>2 DEF AbsencePlans, StudentPlans, Plan
  <2>7. Plans(e)' = Plans(e)
    BY <2>2, <2>3, <2>5, <2>6 DEF Plans, PaymentPlans, TuitionDuePlans, TuitionOverduePlans, TuitionPlans,
       EnrollmentPlans, TrialPlans, ScheduleChangedPlans, SessionReminderPlans, StudentPlans, Plan
  <2> QED  BY <1>1, <2>7
<1>3. k = Key(e, plan, channel)'
  BY <1>1 DEF Key
<1> QED  BY <1>1, <1>2, <1>3 DEF Justified

\* A dispatch inserts rows that are planned, and changes none.
LEMMA DispatchMakes ==
    ASSUME NEW e \in Events, Dispatch(e)
    PROVE  /\ UNCHANGED <<family, template>> /\ Sent \subseteq Sent'
           /\ \A k \in Sent : notice'[k] = notice[k]
           /\ \A k \in Sent' \ Sent : \E row \in Rows(e) :
                 k = Key(e, row[1], row[2]) /\ notice'[k] = row[1].about
           /\ \A row \in Rows(e) : Key(e, row[1], row[2]) \in Sent'
<1> DEFINE new == {Key(e, row[1], row[2]) : row \in Rows(e)} \ Sent
<1>1. PICK first \in [new -> Rows(e)] :
        /\ \A k \in new : Key(e, first[k][1], first[k][2]) = k /\ Surviving(Rows(e), first[k], e)
        /\ notice' = [k \in Sent \cup new |-> IF k \in Sent THEN notice[k] ELSE first[k][1].about]
        /\ UNCHANGED <<family, template>>
  BY DEF Dispatch
<1>2. \A row \in Rows(e) : Key(e, row[1], row[2]) \in Sent \cup new
  OBVIOUS
<1> HIDE DEF new
<1>3. Sent' = Sent \cup new
  BY <1>1 DEF Sent
<1>4. ASSUME NEW k \in Sent' \ Sent
      PROVE  \E row \in Rows(e) : k = Key(e, row[1], row[2]) /\ notice'[k] = row[1].about
  <2>1. k \in new /\ notice'[k] = first[k][1].about
    BY <1>1, <1>3, <1>4
  <2>2. first[k] \in Rows(e) /\ k = Key(e, first[k][1], first[k][2])
    BY <1>1, <2>1
  <2> QED  BY <2>1, <2>2
<1> QED  BY <1>1, <1>2, <1>3, <1>4

LEMMA RowFields ==
    ASSUME NEW e \in Events, NEW row \in Rows(e)
    PROVE  /\ row[1] \in Plans(e) /\ row[2] \in Channels /\ Enabled(row[2])
           /\ row[2] = "EMAIL" => family.mail[row[1].to] # NoMail
BY DEF Rows

LEMMA NoticesKeep == NoticesInv /\ [NoticesNext]_noticeVars => NoticesInv'
<1> SUFFICES ASSUME NoticesInv, [NoticesNext]_noticeVars  PROVE NoticesInv'
  OBVIOUS
<1>1. family' = family
  BY DEF noticeVars, NoticesNext, Dispatch, UpsertTemplate, ResetTemplate, SetTemplateEnabled
<1>2. template' \in [Channels -> {"DEFAULT", "ON", "OFF"}]
  BY DEF NoticesInv, noticeVars, NoticesNext, Dispatch, UpsertTemplate, ResetTemplate, SetTemplateEnabled
<1>3. CASE UNCHANGED notice
  <2>1. \A k \in Sent : Justified(k, notice[k])'
    BY <1>1, <1>3, StillJustified DEF NoticesInv
  <2> QED  BY <1>1, <1>2, <1>3, <2>1 DEF NoticesInv, Sent
<1>4. CASE \E e \in Events : Dispatch(e)
  <2>1. PICK e \in Events : Dispatch(e)
    BY <1>4
  <2>2. ASSUME NEW k \in Sent'  PROVE Justified(k, notice'[k])
    <3>1. CASE k \in Sent
      BY <2>1, <3>1, DispatchMakes DEF NoticesInv
    <3>2. CASE k \notin Sent
      <4>1. PICK row \in Rows(e) : k = Key(e, row[1], row[2]) /\ notice'[k] = row[1].about
        BY <2>1, <2>2, <3>2, DispatchMakes
      <4> QED  BY <4>1, RowFields DEF Justified
    <3> QED  BY <3>1, <3>2
  <2>3. \A k \in Sent' : \A about : about = notice'[k] => Justified(k, about)'
    BY <1>1, <2>2, StillJustified
  <2> QED  BY <1>1, <1>2, <2>3 DEF NoticesInv
<1> QED  BY <1>3, <1>4 DEF NoticesNext, noticeVars, UpsertTemplate, ResetTemplate, SetTemplateEnabled

-----------------------------------------------------------------------------
(* What it gives *)

LEMMA JustifiedBy ==
    ASSUME NoticesInv, NEW k \in Sent
    PROVE  \E e, plan :
             /\ e \in Events /\ plan \in Plans(e) /\ PlanFor(e, plan)
             /\ plan.to \in People /\ plan.about \subseteq Students
             /\ k.event = e.event /\ k.source = e.source /\ k.channel \in Channels
             /\ IF k.channel = "EMAIL" THEN k.to = family.mail[plan.to] /\ k.to \in Mailboxes ELSE k.to = plan.to
             /\ notice[k] = plan.about
<1>1. family \in Families
  BY DEF NoticesInv
<1>2. PICK e, channel, plan :
        /\ e \in Events /\ channel \in Channels /\ plan \in Plans(e)
        /\ k = Key(e, plan, channel)
        /\ channel = "EMAIL" => family.mail[plan.to] # NoMail
        /\ notice[k] = plan.about
  BY DEF NoticesInv, Justified
<1>3. PlanFor(e, plan) /\ plan.to \in People /\ plan.about \subseteq Students
  BY <1>1, <1>2, Planned, PlanTyped
<1>4. k.event = e.event /\ k.source = e.source /\ k.channel = channel
      /\ k.to = IF channel = "EMAIL" THEN family.mail[plan.to] ELSE plan.to
  BY <1>2, KeyFields
<1>5. channel = "EMAIL" => family.mail[plan.to] \in Mailboxes
  BY <1>1, <1>2, <1>3, FamilyFields
<1> QED  BY <1>2, <1>3, <1>4, <1>5

LEMMA TypesOfNotices == NoticesInv => NoticesTypeOK
<1> SUFFICES ASSUME NoticesInv  PROVE NoticesTypeOK
  OBVIOUS
<1>1. ASSUME NEW k \in Sent
      PROVE  k.to \in (IF k.channel = "EMAIL" THEN Mailboxes ELSE People) /\ notice[k] \subseteq Students
  BY JustifiedBy
<1> QED  BY <1>1 DEF NoticesInv, NoticesTypeOK

LEMMA MoneyHolds == NoticesInv => MoneyIsPrivate
<1> SUFFICES ASSUME NoticesInv, NEW k \in Sent, k.event \in Money, k.channel = "IN_APP"
             PROVE  LET links == family.links[k.source]
                        billing == {l.guardian : l \in {j \in links : j.billing}}
                    IN IF k.to \in Guardians
                       THEN k.to \in billing \/ (billing = {} /\ \E l \in links : l.guardian = k.to /\ l.primary)
                       ELSE billing = {} /\ \A l \in links : ~l.primary
  BY DEF MoneyIsPrivate
<1>1. PICK e, plan :
        e \in Events /\ PlanFor(e, plan) /\ k.event = e.event /\ k.source = e.source /\ k.to = plan.to
  BY JustifiedBy
<1>2. k.source \in Students /\ k.to \in BillingRecipients(k.source)
  BY <1>1 DEF PlanFor, Money
<1>3. family \in Families /\ Students \cap Guardians = {}
  BY NoticesAssumption DEF NoticesInv
<1>4. /\ Primary(k.source) \subseteq Guardians /\ Billing(k.source) \subseteq Guardians
      /\ \A g \in Primary(k.source) : \E l \in family.links[k.source] : l.primary /\ l.guardian = g
      /\ \A l \in family.links[k.source] : l.primary => l.guardian \in Primary(k.source)
      /\ Billing(k.source) = {l.guardian : l \in {j \in family.links[k.source] : j.billing}}
  BY <1>2, <1>3, GuardiansOf
<1>5. CASE k.to \in Billing(k.source)
  BY <1>4, <1>5
<1>6. CASE Billing(k.source) = {} /\ k.to \in Primary(k.source)
  BY <1>4, <1>6
<1>7. CASE Billing(k.source) = {} /\ Primary(k.source) = {} /\ k.to = k.source
  BY <1>2, <1>3, <1>4, <1>7
<1> QED  BY <1>2, <1>5, <1>6, <1>7 DEF BillingRecipients

LEMMA MailNamesStudents == NoticesInv => OneMailNamesGuardiansStudents
<1> SUFFICES ASSUME NoticesInv, NEW k \in Sent, k.event = "SCHEDULE_CHANGED", k.channel = "EMAIL"
             PROVE  \/ notice[k] = {p \in family.roster : \E l \in family.links[p] : l.primary /\ family.mail[l.guardian] = k.to}
                    \/ \E p \in notice[k] : family.mail[p] = k.to /\ \A l \in family.links[p] : ~l.primary
  BY DEF OneMailNamesGuardiansStudents
<1>1. PICK e, plan :
        /\ e \in Events /\ PlanFor(e, plan) /\ k.event = e.event /\ k.to = family.mail[plan.to] /\ k.to \in Mailboxes
        /\ notice[k] = plan.about
  BY JustifiedBy
<1>2. family \in Families /\ family.roster \subseteq Students /\ k.to # NoMail
  BY <1>1, FamilyFields, NoticesAssumption DEF NoticesInv
<1>3. \/ plan.to \in family.roster /\ Primary(plan.to) = {} /\ plan.about = {plan.to}
      \/ \E p \in family.roster : plan.to \in Primary(p) /\ plan.about = MailboxStudents(plan.to)
  BY <1>1 DEF PlanFor, Money
<1>4. CASE plan.to \in family.roster /\ Primary(plan.to) = {} /\ plan.about = {plan.to}
  BY <1>1, <1>2, <1>4, GuardiansOf
<1>5. CASE plan.about = MailboxStudents(plan.to)
  <2>1. ASSUME NEW p \in family.roster
        PROVE  (plan.to \in Primary(p) \/ \E h \in Primary(p) : family.mail[h] # NoMail /\ family.mail[h] = family.mail[plan.to])
                 <=> \E l \in family.links[p] : l.primary /\ family.mail[l.guardian] = k.to
    <3>1. p \in Students
      BY <1>2
    <3>2. /\ \A g \in Primary(p) : \E l \in family.links[p] : l.primary /\ l.guardian = g
          /\ \A l \in family.links[p] : l.primary => l.guardian \in Primary(p)
      BY <1>2, <3>1, GuardiansOf
    <3> QED  BY <1>1, <1>2, <3>2
  <2> QED  BY <1>1, <1>5, <2>1 DEF MailboxStudents
<1> QED  BY <1>3, <1>4, <1>5

LEMMA MailedOnce == NoticesInv => MailboxOnce
<1> SUFFICES ASSUME NoticesInv, NEW e \in Events,
                    NEW k \in MessagesOf(e, "EMAIL"), NEW j \in MessagesOf(e, "EMAIL"), j # k, j.scope = k.scope
             PROVE  (IF j.to \in People THEN family.mail[j.to] ELSE j.to) # (IF k.to \in People THEN family.mail[k.to] ELSE k.to)
  BY DEF MailboxOnce
<1>1. ASSUME NEW m \in MessagesOf(e, "EMAIL")
      PROVE  /\ m \in Sent /\ m.to \in Mailboxes /\ m.to \notin People
             /\ m = [event |-> e.event, source |-> e.source, scope |-> m.scope, channel |-> "EMAIL", to |-> m.to]
  <2>1. m \in Sent /\ m.event = e.event /\ m.source = e.source /\ m.channel = "EMAIL"
    BY DEF MessagesOf
  <2>2. PICK d, channel, plan : m = Key(d, plan, channel)
    BY <2>1 DEF NoticesInv, Justified
  <2>3. m = [event |-> m.event, source |-> m.source, scope |-> m.scope, channel |-> m.channel, to |-> m.to]
    BY <2>2 DEF Key
  <2>4. m.to \in Mailboxes
    BY <2>1, TypesOfNotices DEF NoticesTypeOK
  <2> QED  BY <2>1, <2>3, <2>4, NoticesAssumption
<1>2. k.to # j.to
  BY <1>1
<1> QED  BY <1>1, <1>2

-----------------------------------------------------------------------------
(* What its steps keep *)

LEMMA SilenceKept ==
    ASSUME NoticesInv, [NoticesNext]_noticeVars, NEW c \in Channels, template[c] = "OFF"
    PROVE  /\ {k \in Sent : k.channel = c}' = {k \in Sent : k.channel = c}
           /\ template'[c] = "ON" => SetTemplateEnabled(c, TRUE)
<1>1. template \in [Channels -> {"DEFAULT", "ON", "OFF"}]
  BY DEF NoticesInv
<1>2. CASE \E e \in Events : Dispatch(e)
  <2>1. PICK e \in Events : Dispatch(e)
    BY <1>2
  <2>2. template' = template /\ Sent \subseteq Sent'
    BY <2>1, DispatchMakes
  <2>3. ASSUME NEW k \in Sent' \ Sent  PROVE k.channel # c
    <3>1. PICK row \in Rows(e) : k = Key(e, row[1], row[2])
      BY <2>1, <2>3, DispatchMakes
    <3>2. k.channel = row[2] /\ Enabled(row[2])
      BY <3>1, RowFields, KeyFields
    <3> QED  BY <3>2 DEF Enabled
  <2> QED  BY <2>2, <2>3
<1>3. CASE UNCHANGED noticeVars
  BY <1>3 DEF noticeVars, Sent
<1>4. CASE \E d \in Channels : UpsertTemplate(d) \/ ResetTemplate(d) \/ SetTemplateEnabled(d, FALSE)
  <2>1. notice' = notice
    BY <1>4 DEF UpsertTemplate, ResetTemplate, SetTemplateEnabled
  <2>2. template'[c] # "ON"
    BY <1>1, <1>4 DEF UpsertTemplate, ResetTemplate, SetTemplateEnabled
  <2> QED  BY <2>1, <2>2 DEF Sent
<1>5. CASE \E d \in Channels : SetTemplateEnabled(d, TRUE)
  <2>1. PICK d \in Channels : SetTemplateEnabled(d, TRUE)
    BY <1>5
  <2>2. notice' = notice
    BY <2>1 DEF SetTemplateEnabled
  <2>3. d # c => template'[c] = "OFF"
    BY <1>1, <2>1 DEF SetTemplateEnabled
  <2> QED  BY <2>1, <2>2, <2>3 DEF Sent
<1> QED  BY <1>2, <1>3, <1>4, <1>5 DEF NoticesNext

\* A student an event concerns is in a plan of it, and nobody's message of the
\* event by the same key names others.
LEMMA ConcernedPlanned ==
    ASSUME family \in Families, NEW e \in Events, NEW p \in Concerned(e)
    PROVE  \E plan \in Plans(e) :
             /\ p \in plan.about /\ plan.to \in People
             /\ \A other \in Plans(e) : other.to = plan.to /\ other.scope = plan.scope => p \in other.about
<1>1. CASE e.event \in Money \cup {"ENROLLMENT_EXPIRING"}
  <2>1. p = e.source /\ e.source \in Students
    BY <1>1, EventFields DEF Concerned, Money
  <2>2. \E r : Plan(r, {p}, e.scope, 1) \in Plans(e)
    <3>1. BillingRecipients(p) # {} /\ AcademicRecipients(p) # {}
      BY <2>1, RecipientsOf
    <3> QED  BY <1>1, <2>1, <3>1 DEF Money, Plans, PaymentPlans, TuitionDuePlans, TuitionOverduePlans, TuitionPlans, EnrollmentPlans, StudentPlans
  <2>3. \A other \in Plans(e) : p \in other.about
    BY <1>1, <2>1, Planned DEF PlanFor, Money
  <2> QED  BY <2>2, <2>3, PlanTyped
<1>2. CASE e.event = "ATTENDANCE_ABSENCE"
  <2>1. p \in family.absent /\ p \in Students
    BY <1>2, FamilyFields DEF Concerned, Money
  <2>2. PICK r : Plan(r, {p}, p, 1) \in Plans(e)
    <3>1. PICK r : r \in AcademicRecipients(p)
      BY <2>1, RecipientsOf
    <3>2. Plan(r, {p}, p, 1) \in StudentPlans(AcademicRecipients(p), p, p)
      BY <3>1 DEF StudentPlans
    <3>3. Plan(r, {p}, p, 1) \in AbsencePlans
      BY <2>1, <3>2 DEF AbsencePlans
    <3> QED  BY <1>2, <3>3 DEF Plans
  <2>3. \A other \in Plans(e) : other.scope = p => p \in other.about
    BY <1>2, Planned DEF PlanFor, Money
  <2> QED  BY <2>2, <2>3, PlanTyped, PlanFields
<1>3. CASE e.event \in {"SCHEDULE_CHANGED", "SESSION_REMINDER"}
  <2>1. p \in family.roster /\ family.roster \subseteq Students
    BY <1>3, FamilyFields DEF Concerned, Money
  <2>2. ASSUME NEW other \in Plans(e)
        PROVE  \/ other.to \in Students /\ other.about = {other.to}
               \/ other.to \in Guardians /\ other.about = MailboxStudents(other.to)
    <3>1. \/ other.to \in family.roster /\ other.about = {other.to}
          \/ \E q \in family.roster : other.to \in Primary(q) /\ other.about = MailboxStudents(other.to)
      BY <1>3, Planned DEF PlanFor, Money
    <3> QED  BY <2>1, <3>1, GuardiansOf
  <2>3. RosterPlans(e.scope) = Plans(e)
    BY <1>3 DEF Plans, ScheduleChangedPlans, SessionReminderPlans
  <2>4. CASE Primary(p) = {}
    <3>1. Plan(p, {p}, e.scope, 1) \in Plans(e)
      BY <2>1, <2>3, <2>4 DEF RosterPlans
    <3>2. \A other \in Plans(e) : other.to = p => p \in other.about
      BY <2>1, <2>2, NoticesAssumption
    <3> QED  BY <3>1, <3>2, PlanFields, PlanTyped
  <2>5. CASE Primary(p) # {}
    <3>1. PICK g : g \in Primary(p)
      BY <2>5
    <3>2. g \in Guardians /\ p \in MailboxStudents(g)
      BY <2>1, <3>1, GuardiansOf DEF MailboxStudents
    <3>3. Plan(g, MailboxStudents(g), e.scope, 2) \in Plans(e)
      BY <2>1, <2>3, <3>1 DEF RosterPlans
    <3>4. \A other \in Plans(e) : other.to = g => p \in other.about
      BY <2>2, <3>2, NoticesAssumption
    <3> QED  BY <3>2, <3>3, <3>4, PlanFields, PlanTyped
  <2> QED  BY <2>4, <2>5
<1>4. e.event # "TRIAL_REMINDER"
  BY DEF Concerned, Money
<1> QED  BY <1>1, <1>2, <1>3, <1>4, EventFields

LEMMA EveryoneIsNamed ==
    ASSUME NoticesInv, [NoticesNext]_noticeVars, NEW e \in Events,
           MessagesOf(e, "IN_APP") = {}, MessagesOf(e, "IN_APP")' # {}, NEW p \in Concerned(e)
    PROVE  \E k \in MessagesOf(e, "IN_APP")' : p \in notice'[k]
<1>1. PICK d \in Events : Dispatch(d)
  BY DEF NoticesNext, noticeVars, MessagesOf, Sent, UpsertTemplate, ResetTemplate, SetTemplateEnabled
<1>2. family \in Families
  BY DEF NoticesInv
<1>3. PICK m \in Sent' \ Sent : m.event = e.event /\ m.source = e.source /\ m.channel = "IN_APP"
  BY DEF MessagesOf
<1>4. PICK row \in Rows(d) : m = Key(d, row[1], row[2])
  BY <1>1, <1>3, DispatchMakes
<1>5. d.event = e.event /\ d.source = e.source /\ Enabled("IN_APP")
  BY <1>3, <1>4, KeyFields, RowFields
<1>6. p \in Concerned(d)
  BY <1>5 DEF Concerned
<1>7. PICK plan \in Plans(d) :
        /\ p \in plan.about /\ plan.to \in People
        /\ \A other \in Plans(d) : other.to = plan.to /\ other.scope = plan.scope => p \in other.about
  BY <1>2, <1>6, ConcernedPlanned
<1>8. <<plan, "IN_APP">> \in Rows(d)
  BY <1>5, <1>7 DEF Rows, Channels
<1> DEFINE k == Key(d, plan, "IN_APP")
<1>9. k \in Sent'
  BY <1>1, <1>8, DispatchMakes
<1>10. k.event = e.event /\ k.source = e.source /\ k.channel = "IN_APP" /\ k.to = plan.to /\ k.scope = plan.scope
  BY <1>5, KeyFields
<1> HIDE DEF k
<1>11. k \in MessagesOf(e, "IN_APP")' /\ k \notin Sent
  BY <1>9, <1>10 DEF MessagesOf
<1>12. PICK made \in Rows(d) : k = Key(d, made[1], made[2]) /\ notice'[k] = made[1].about
  BY <1>1, <1>9, <1>11, DispatchMakes
<1>13. made[1] \in Plans(d) /\ made[1].to = plan.to /\ made[1].scope = plan.scope
  BY <1>10, <1>12, KeyFields, RowFields
<1> QED  BY <1>7, <1>11, <1>12, <1>13

\* Every message is one its event planned, for the people its family has.
THEOREM NoticesInvariance == NoticesSpec => []NoticesInv
BY NoticesBegin, NoticesKeep, PTL DEF NoticesSpec

\* Who is written to and of what: money is told to billing contacts, one mail of
\* a change to a mailbox names the students of all who share it, and a channel
\* that is switched off stays silent.
THEOREM NoticesStaySafe == NoticesSpec => NoticesSafe
<1>1. NoticesInv => NoticesTypeOK /\ MoneyIsPrivate /\ OneMailNamesGuardiansStudents /\ MailboxOnce
  BY TypesOfNotices, MoneyHolds, MailNamesStudents, MailedOnce
<1>2. NoticesInv /\ [NoticesNext]_noticeVars =>
        [\A c \in Channels : template[c] = "OFF" =>
           /\ {k \in Sent : k.channel = c}' = {k \in Sent : k.channel = c}
           /\ template'[c] = "ON" => SetTemplateEnabled(c, TRUE)]_noticeVars
  BY SilenceKept
<1> QED  BY <1>1, <1>2, NoticesInvariance, PTL DEF NoticesSpec, NoticesSafe, SilentWhenOff

\* A message that goes out names everyone it is about.
THEOREM EveryoneIsTold == NoticesSpec => EveryoneNamed
<1>1. NoticesInv /\ [NoticesNext]_noticeVars =>
        [\A e \in Events : (MessagesOf(e, "IN_APP") = {} /\ MessagesOf(e, "IN_APP")' # {}) =>
           \A p \in Concerned(e) : \E k \in MessagesOf(e, "IN_APP")' : p \in notice'[k]]_noticeVars
  BY EveryoneIsNamed
<1> QED  BY <1>1, NoticesInvariance, PTL DEF NoticesSpec, EveryoneNamed

=============================================================================
