------------------------------- MODULE McpPool -------------------------------
(***************************************************************************)
(* The pool of MCP server connections (internal/mcp/pool.go): agents'      *)
(* managers share one connection per tenant and server, users have one of  *)
(* their own, a semaphore per kind bounds them, connecting happens outside *)
(* the lock, and idle ones are evicted.                                    *)
(*                                                                         *)
(* An entry has no identity here: what the code does to an entry object    *)
(* that is no longer in the map has no effect on the pool. "same" tells    *)
(* for a manager that has a pointer whether it is still the map's entry.   *)
(* A manager of an agent is a local of the resolver: when the router drops *)
(* the agent nobody stops it, and what it acquired is never released.      *)
(***************************************************************************)
EXTENDS Naturals, FiniteSets

CONSTANTS SharedKey,       \* keys of shared connections: tenant and server
          UserKey,         \* keys of user connections to one server
          Manager,         \* goroutines that acquire connections
          MaxSize,         \* slots for shared connections
          MaxUserConns     \* slots for the server's user connections

ASSUME PoolAssumption == /\ SharedKey \cap UserKey = {}
                         /\ IsFiniteSet(SharedKey) /\ IsFiniteSet(UserKey)
                         /\ IsFiniteSet(Manager)
                         /\ MaxSize \in Nat \ {0}
                         /\ MaxUserConns \in Nat \ {0}

VARIABLES pool,            \* servers and userServers: the entry of a key
          used,            \* slots taken in each semaphore
          mgr,             \* where each manager is
          stopped          \* the gateway shuts down: stopCh is closed

vars == <<pool, used, mgr, stopped>>

Key == SharedKey \cup UserKey
Sem == {"shared", "user"}
SemOf(k) == IF k \in SharedKey THEN "shared" ELSE "user"
Limit(x) == IF x = "shared" THEN MaxSize ELSE MaxUserConns

NoEntry == [up |-> FALSE, refs |-> 0, there |-> FALSE]
Idle == [at |-> "idle"]
Stage == {"slot", "full", "wait", "connecting", "joining", "holding", "dropped"}

TypeOK == /\ pool \in [Key -> [up : BOOLEAN, refs : Nat, there : BOOLEAN]]
          /\ used \in [Sem -> Nat]
          /\ mgr \in [Manager -> {Idle} \cup [at : Stage, key : Key, same : BOOLEAN]]
          /\ \A x \in Sem : used[x] <= Limit(x)
          /\ stopped \in BOOLEAN

Init == /\ pool = [k \in Key |-> NoEntry]
        /\ used = [x \in Sem |-> 0]
        /\ mgr = [m \in Manager |-> Idle]
        /\ stopped = FALSE

------------------------------------------------------------------------------
At(m, s) == mgr[m].at = s
Managers(k, S) == {m \in Manager : mgr[m] # Idle /\ mgr[m].key = k /\ mgr[m].at \in S}

\* select { case <-slot: default: }, n times
Returned(x, n) == IF used[x] >= n THEN used[x] - n ELSE 0

\* The entries of ks, all of one kind, leave the map and their slots come back;
\* their connections are closed.
Out(ks) == [k \in Key |-> IF k \in ks THEN NoEntry ELSE pool[k]]
FreedSlots(ks) ==
    [x \in Sem |-> Returned(x, Cardinality({k \in ks : SemOf(k) = x /\ pool[k].there}))]
Orphaned(ks, ms) ==
    [m \in Manager |-> IF ms[m] # Idle /\ ms[m].key \in ks
                       THEN [ms[m] EXCEPT !.same = FALSE] ELSE ms[m]]

------------------------------------------------------------------------------
(* Acquire and AcquireUser.                                                *)

\* Under the lock: reuse a connected entry, or clear a disconnected one away.
Acquire(m, k) ==
    /\ mgr[m] = Idle
    /\ IF pool[k].up
       THEN /\ pool' = [pool EXCEPT ![k].refs = @ + 1]
            /\ mgr' = [mgr EXCEPT ![m] = [at |-> "holding", key |-> k, same |-> TRUE]]
            /\ UNCHANGED used
       ELSE /\ pool' = Out({k})
            /\ used' = FreedSlots({k})
            /\ mgr' = [Orphaned({k}, mgr) EXCEPT
                         ![m] = [at |-> "slot", key |-> k, same |-> FALSE]]

\* acquireSlot and acquireUserSlot: a free slot at once, or after the wait.
\* Mutant: the wait ends with the notice of a slot, without taking one.
BugTakeSlot(m) ==
    /\ mgr[m].at \in {"slot", "wait"}
    /\ LET x == SemOf(mgr[m].key) IN
       /\ used[x] < Limit(x)
       /\ used' = [used EXCEPT ![x] = IF At(m, "slot") THEN @ + 1 ELSE @]
    /\ mgr' = [mgr EXCEPT ![m].at = "connecting"]
    /\ UNCHANGED pool
TakeSlot(m) ==
    /\ mgr[m].at \in {"slot", "wait"}
    /\ LET x == SemOf(mgr[m].key) IN
       /\ used[x] < Limit(x)
       /\ used' = [used EXCEPT ![x] = @ + 1]
    /\ mgr' = [mgr EXCEPT ![m].at = "connecting"]
    /\ UNCHANGED pool

\* No slot: a shared acquire goes on to evict, a user's waits.
FindsFull(m) ==
    /\ At(m, "slot")
    /\ LET x == SemOf(mgr[m].key) IN
       /\ used[x] = Limit(x)
       /\ mgr' = [mgr EXCEPT ![m].at = IF x = "shared" THEN "full" ELSE "wait"]
    /\ UNCHANGED <<pool, used>>

IdleKeys == {k \in Key : pool[k].there /\ pool[k].refs = 0}

\* evictOldestIdleLocked: the entry idle for longest, of either kind.
EvictOldestIdle(m) ==
    /\ At(m, "full")
    /\ \E ks \in IF IdleKeys = {} THEN {{}} ELSE {{k} : k \in IdleKeys} :
          /\ pool' = Out(ks)
          /\ used' = FreedSlots(ks)
          /\ mgr' = [Orphaned(ks, mgr) EXCEPT ![m].at = "wait"]

\* The timeout of the wait, or the caller's context.
GivesUp(m) ==
    /\ At(m, "wait")
    /\ mgr' = [mgr EXCEPT ![m] = Idle]
    /\ UNCHANGED <<pool, used>>

ConnectFails(m) ==
    /\ At(m, "connecting")
    /\ used' = [used EXCEPT ![SemOf(mgr[m].key)] = Returned(SemOf(mgr[m].key), 1)]
    /\ mgr' = [mgr EXCEPT ![m] = Idle]
    /\ UNCHANGED pool

\* Back under the lock. If somebody else connected first the connection just
\* made is closed, its slot returned, and the lock taken anew to join them.
\* Else it is installed; a disconnected entry is overwritten, its slot lost.
Connects(m) ==
    /\ At(m, "connecting")
    /\ LET k == mgr[m].key IN
       IF pool[k].up
       THEN /\ used' = [used EXCEPT ![SemOf(k)] = Returned(SemOf(k), 1)]
            /\ mgr' = [mgr EXCEPT ![m].at = "joining", ![m].same = TRUE]
            /\ UNCHANGED pool
       ELSE /\ pool' = [pool EXCEPT ![k] = [up |-> TRUE, refs |-> 1, there |-> TRUE]]
            /\ mgr' = [Orphaned({k}, mgr) EXCEPT ![m].at = "holding", ![m].same = TRUE]
            /\ UNCHANGED used

\* The entry may have left the map in between: then the count that is raised is
\* nobody's.
Joins(m) ==
    /\ At(m, "joining")
    /\ pool' = IF mgr[m].same THEN [pool EXCEPT ![mgr[m].key].refs = @ + 1] ELSE pool
    /\ mgr' = [mgr EXCEPT ![m].at = "holding"]
    /\ UNCHANGED used

\* Mutant: a connection that is down is not released.
BugRelease(m) ==
    /\ At(m, "holding")
    /\ pool' = [pool EXCEPT ![mgr[m].key].refs = IF pool[mgr[m].key].up THEN @ - 1 ELSE @]
    /\ mgr' = [mgr EXCEPT ![m] = Idle]
    /\ UNCHANGED used
\* Release and ReleaseUser go by the key: whatever entry is there now.
Release(m) ==
    /\ At(m, "holding")
    /\ pool' = [pool EXCEPT ![mgr[m].key].refs = IF @ = 0 THEN 0 ELSE @ - 1]
    /\ mgr' = [mgr EXCEPT ![m] = Idle]
    /\ UNCHANGED used

\* The router drops the agent, when its time to live is over, its configuration
\* changed or another goroutine had resolved it: the manager is not stopped.
\* (A user's connection is released as soon as it is acquired.)
Drops(m) ==
    /\ At(m, "holding")
    /\ mgr[m].key \in SharedKey
    /\ mgr' = [mgr EXCEPT ![m].at = "dropped"]
    /\ UNCHANGED <<pool, used>>

------------------------------------------------------------------------------
(* The health loops, the eviction loop and the rotation of credentials.    *)

HealthChanges(k) ==
    /\ pool[k].there
    /\ pool' = [pool EXCEPT ![k].up = ~@]
    /\ UNCHANGED <<used, mgr>>

\* Evict, on new credentials or a request to reconnect.
Evict(k) ==
    /\ k \in SharedKey /\ pool[k].there
    /\ pool' = Out({k}) /\ used' = FreedSlots({k}) /\ mgr' = Orphaned({k}, mgr)

\* evictIdle: those of the idle entries that were idle for long enough.
EvictIdle ==
    \E ks \in SUBSET IdleKeys :
        /\ ks # {} /\ ~stopped
        /\ pool' = Out(ks) /\ used' = FreedSlots(ks) /\ mgr' = Orphaned(ks, mgr)

\* Stop closes everything and returns no slot. Managers that are still at work
\* may go on to acquire and release.
Stop ==
    /\ ~stopped
    /\ stopped' = TRUE
    /\ pool' = Out(Key) /\ mgr' = Orphaned(Key, mgr)
    /\ UNCHANGED used

ManagerActs(m) ==
    \/ \E k \in Key : Acquire(m, k)
    \/ TakeSlot(m) \/ FindsFull(m) \/ EvictOldestIdle(m) \/ GivesUp(m)
    \/ ConnectFails(m) \/ Connects(m) \/ Joins(m) \/ Release(m)
    \/ Drops(m)

PoolActs == EvictIdle \/ \E k \in Key : HealthChanges(k) \/ Evict(k)

Next == \/ ((\E m \in Manager : ManagerActs(m)) \/ PoolActs) /\ UNCHANGED stopped
        \/ Stop

Spec == Init /\ [][Next]_vars

------------------------------------------------------------------------------
(* Properties                                                              *)

\* Every connection in the pool and every one being made has a slot of its
\* own, whatever is evicted, overwritten, given up or lost to a race: the
\* pool never holds more than its size.
Pooled(x) == {k \in Key : SemOf(k) = x /\ pool[k].there}
Connecting(x) == {m \in Manager : At(m, "connecting") /\ SemOf(mgr[m].key) = x}
EverySlotIsPaid ==
    \A x \in Sem : Cardinality(Pooled(x)) + Cardinality(Connecting(x)) <= used[x]

\* Every reference an entry counts was acquired on this very connection, by a
\* manager that has not released it: no count is carried over from the entry it
\* replaced, raised on the wrong one or taken twice. Once a connection was
\* replaced, or all its managers released it, it is idle and can be evicted.
CountsDontLeak ==
    \A k \in Key :
        pool[k].refs <= Cardinality({m \in Managers(k, {"holding", "dropped"}) : mgr[m].same})

\* Not so in the code: the references of agents that the router dropped keep a
\* connection that nobody uses in the pool, until it is down or its credentials
\* change.
OnlyHoldersCount == \A k \in Key : Managers(k, {"holding"}) = {} => pool[k].refs = 0

\* Nor this: a disconnected entry that is overwritten keeps its slot taken.
SlotsComeBack ==
    ~stopped => \A x \in Sem :
        used[x] <= Cardinality(Pooled(x)) + Cardinality(Connecting(x))

\* pool.go: "refCount: number of active Manager references". Not so: a release
\* of an entry that was replaced is taken from the count of its successor.
CountsHolders ==
    \A k \in Key : pool[k].there =>
        pool[k].refs >= Cardinality({m \in Managers(k, {"holding"}) : mgr[m].same})
==============================================================================
