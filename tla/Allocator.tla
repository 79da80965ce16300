------------------------------ MODULE Allocator ------------------------------
(***************************************************************************)
(* The CPU allocator (mlx/backend/no_gpu/allocator.cpp) and its cache of   *)
(* freed buffers (mlx/backend/common/buffer_cache.h), called by the thread *)
(* that builds and evaluates graphs and by the workers of the streams.     *)
(*                                                                         *)
(* The cache keeps each buffer twice: in a multimap by size, here the      *)
(* sequence pool in the map's order, and in a doubly linked list by age.   *)
(* One holder exists per cached buffer, so prev and next map buffers to    *)
(* buffers.  What the mutex protects is one step, except the loop that     *)
(* releases buffers one by one, which keeps lock.                          *)
(***************************************************************************)
EXTENDS Integers, SequencesExt

CONSTANTS Threads,
          Buffers,   \* the blocks std::malloc may return
          Sizes,     \* sizes asked for; the bound on the data
          Limits,    \* arguments of set_cache_limit
          PageSize,  \* page_size_
          MaxFailures, \* how often std::malloc may return nullptr
          Null       \* nullptr

ASSUME AllocatorAssumption ==
    /\ Sizes \subseteq Nat /\ Limits \subseteq Nat /\ Limits # {}
    /\ PageSize \in Nat \ {0} /\ MaxFailures \in Nat
    /\ IsFiniteSet(Buffers) /\ Null \notin Buffers /\ Null \notin Threads

VARIABLES
    pc,         \* where a thread is, outside the mutex
    want,       \* the size or the limit a thread's call was given
    buf,        \* the buffer a thread has in hand
    lock,       \* the thread in the loop of release_cached_buffers, or Null
    freed,      \* total_bytes_freed of that loop
    size,       \* the size in a buffer's header
    unused,     \* buffers that belong to the operating system
    held,       \* buffers that arrays own
    active,     \* active_memory_
    peak,       \* peak_memory_
    failures,   \* how often std::malloc has failed
    cacheLimit, \* cache_limit_
    poolSize,   \* pool_size_
    pool,       \* buffer_pool_
    head, tail, prev, next

callVars == <<pc, want, buf>>
lockVars == <<lock, freed>>
ownVars == <<size, unused, held, failures>>
countVars == <<active, peak>>
listVars == <<head, tail, prev, next>>
cacheVars == <<poolSize, pool, listVars>>
vars == <<callVars, lockVars, ownVars, countVars, cacheLimit, cacheVars>>

Cached == Range(pool)

(* The bytes of the buffers in B, each a buffer and an offset. *)
Bytes(B) == UNION {{b} \X (1..size[b]) : b \in B}
Total(B) == Cardinality(Bytes(B))
-----------------------------------------------------------------------------
(* std::free of each buffer in B: its header is gone. *)
GiveBack(B) ==
    /\ unused' = unused \cup B
    /\ size' = [b \in Buffers |-> IF b \in B THEN 0 ELSE size[b]]

(* The list by age.  A holder is at the head, at the tail, in the middle or  *)
(* alone; the code treats the four cases apart.  The pointers of a buffer    *)
(* that has no holder are Null, as those of a new holder are.                *)

AddAtHead(b) ==
    /\ head' = b
    /\ IF head = Null
       THEN tail' = b /\ UNCHANGED <<prev, next>>
       ELSE /\ prev' = [prev EXCEPT ![head] = b]
            /\ next' = [next EXCEPT ![b] = head]
            /\ UNCHANGED tail

RemoveFromList(b) ==
    \/ /\ prev[b] # Null /\ next[b] # Null
       /\ next' = [next EXCEPT ![prev[b]] = next[b], ![b] = Null]
       /\ prev' = [prev EXCEPT ![next[b]] = prev[b], ![b] = Null]
       /\ UNCHANGED <<head, tail>>
    \/ /\ prev[b] # Null /\ next[b] = Null /\ b = tail
       /\ tail' = prev[b]
       /\ next' = [next EXCEPT ![prev[b]] = Null]
       /\ prev' = [prev EXCEPT ![b] = Null]
       /\ UNCHANGED head
    \/ /\ prev[b] = Null /\ next[b] # Null /\ b = head
       /\ head' = next[b]
       /\ prev' = [prev EXCEPT ![next[b]] = Null]
       /\ next' = [next EXCEPT ![b] = Null]
       /\ UNCHANGED tail
    \/ /\ prev[b] = Null /\ next[b] = Null /\ b = head /\ b = tail
       /\ head' = Null /\ tail' = Null
       /\ UNCHANGED <<prev, next>>

(* The multimap keeps buffers of one size in the order they came: how many  *)
(* of its entries come before lower_bound(n) and before upper_bound(n).     *)
Below(n) == Cardinality({i \in DOMAIN pool : size[pool[i]] < n})
UpTo(n) == Cardinality({i \in DOMAIN pool : size[pool[i]] <= n})

FiledFirst(b) == InsertAt(pool, Below(size[b]) + 1, b)

Filed(b) == InsertAt(pool, UpTo(size[b]) + 1, b)

StillFiled(b) == pool

Position(b) == CHOOSE i \in DOMAIN pool : pool[i] = b

Without(b) == RemoveAt(pool, Position(b))

(* reuse_from_cache: the smallest buffer that is large enough, unless it is *)
(* so large that too much of it would be wasted.                            *)
Closest(n) == IF Below(n) = Len(pool) THEN Null ELSE pool[Below(n) + 1]

Wasteful(b, n) == size[b] >= Min({2 * n, n + 2 * PageSize})

Reusable(n) == IF Closest(n) = Null \/ Wasteful(Closest(n), n) THEN Null ELSE Closest(n)

RecycleToCache(b) ==
    /\ AddAtHead(b)
    /\ poolSize' = poolSize + size[b]
    /\ pool' = Filed(b)

ClearKeepsTail ==
    /\ GiveBack(Cached)
    /\ pool' = <<>> /\ poolSize' = 0 /\ head' = Null
    /\ prev' = [b \in Buffers |-> Null] /\ next' = [b \in Buffers |-> Null]
    /\ UNCHANGED tail

(* Every holder is deleted and its buffer freed. *)
Clear ==
    /\ GiveBack(Cached)
    /\ pool' = <<>> /\ poolSize' = 0 /\ head' = Null /\ tail' = Null
    /\ prev' = [b \in Buffers |-> Null] /\ next' = [b \in Buffers |-> Null]

-----------------------------------------------------------------------------
Init ==
    /\ pc = [t \in Threads |-> "idle"] /\ want = [t \in Threads |-> 0]
    /\ buf = [t \in Threads |-> Null]
    /\ lock = Null /\ freed = 0
    /\ size = [b \in Buffers |-> 0]
    /\ unused = Buffers /\ held = {} /\ failures = 0
    /\ active = 0 /\ peak = 0 /\ cacheLimit \in Limits
    /\ poolSize = 0 /\ pool = <<>> /\ head = Null /\ tail = Null
    /\ prev = [b \in Buffers |-> Null] /\ next = [b \in Buffers |-> Null]

Leave(t, place, n, b) ==
    /\ pc' = [pc EXCEPT ![t] = place]
    /\ want' = [want EXCEPT ![t] = n]
    /\ buf' = [buf EXCEPT ![t] = b]

CountNothing(n) == UNCHANGED countVars

Count(n) ==
    /\ active' = active + n
    /\ peak' = Max({active + n, peak})

(* malloc, when the cache has a buffer. *)
MallocCached(t, n) ==
    /\ pc[t] = "idle" /\ lock = Null
    /\ LET b == Reusable(n)
       IN  /\ b # Null
           /\ poolSize' = poolSize - size[b] /\ pool' = Without(b) /\ RemoveFromList(b)
           /\ held' = held \cup {b}
           /\ Count(size[b])
    /\ UNCHANGED <<callVars, lockVars, size, unused, failures, cacheLimit>>

(* malloc, when it has none: the mutex is given up. Buffers is finite: no   *)
(* thread goes on to std::malloc unless a block is left for it.             *)
MallocMiss(t, n) ==
    /\ pc[t] = "idle" /\ lock = Null /\ Reusable(n) = Null
    /\ Cardinality({u \in Threads : pc[u] = "allocate"}) < Cardinality(unused)
    /\ Leave(t, "allocate", n, Null)
    /\ UNCHANGED <<lockVars, ownVars, countVars, cacheLimit, cacheVars>>

StdMalloc(t) ==
    /\ pc[t] = "allocate"
    /\ \/ \E b \in unused :
            /\ unused' = unused \ {b}
            /\ size' = [size EXCEPT ![b] = want[t]]
            /\ Leave(t, "count", want[t], b)
            /\ UNCHANGED failures
       \/ /\ failures < MaxFailures /\ failures' = failures + 1
          /\ Leave(t, "count", want[t], Null)
          /\ UNCHANGED <<size, unused>>
    /\ UNCHANGED <<lockVars, held, countVars, cacheLimit, cacheVars>>

(* The mutex is taken again; the size asked for is counted, whether or not  *)
(* there is a buffer.                                                       *)
MallocCount(t) ==
    /\ pc[t] = "count" /\ lock = Null
    /\ Count(want[t])
    /\ held' = held \cup ({buf[t]} \ {Null})
    /\ Leave(t, "idle", 0, Null)
    /\ UNCHANGED <<lockVars, size, unused, failures, cacheLimit, cacheVars>>

KeepsOne(b) == size[b] > 0 /\ poolSize <= cacheLimit

Keeps(b) == size[b] > 0 /\ poolSize + size[b] <= cacheLimit

Free(t, b) ==
    /\ pc[t] = "idle" /\ lock = Null /\ b \in held
    /\ held' = held \ {b}
    /\ active' = active - size[b]
    /\ IF Keeps(b)
       THEN RecycleToCache(b) /\ UNCHANGED callVars
       ELSE Leave(t, "stdFree", 0, b) /\ UNCHANGED cacheVars
    /\ UNCHANGED <<lockVars, size, unused, failures, peak, cacheLimit>>

StdFree(t) ==
    /\ pc[t] = "stdFree"
    /\ GiveBack({buf[t]})
    /\ Leave(t, "idle", 0, Null)
    /\ UNCHANGED <<lockVars, held, failures, countVars, cacheLimit, cacheVars>>

(* set_cache_limit first waits for the CPU streams, without the mutex.      *)
CallSetCacheLimit(t, n) ==
    /\ pc[t] = "idle"
    /\ Leave(t, "setLimit", n, Null)
    /\ UNCHANGED <<lockVars, ownVars, countVars, cacheLimit, cacheVars>>

(* release_cached_buffers clears the cache if that is little more than it   *)
(* was asked to free.                                                       *)
AllButTenth(n) == 10 * n >= 9 * poolSize

SetCacheLimit(t) ==
    /\ pc[t] = "setLimit" /\ lock = Null
    /\ cacheLimit' = want[t]
    /\ IF poolSize > want[t]
       THEN IF AllButTenth(poolSize - want[t])
            THEN Clear /\ Leave(t, "idle", 0, Null) /\ UNCHANGED lockVars
            ELSE /\ lock' = t /\ freed' = 0
                 /\ Leave(t, "release", poolSize - want[t], Null)
                 /\ UNCHANGED <<size, unused, cacheVars>>
       ELSE Leave(t, "idle", 0, Null) /\ UNCHANGED <<lockVars, size, unused, cacheVars>>
    /\ UNCHANGED <<held, failures, countVars>>

Enough(t) == freed >= want[t]

(* One turn of the loop: the oldest buffer is freed.  pool_size_ is brought *)
(* up to date only after the loop.                                          *)
ReleaseTail(t) ==
    /\ pc[t] = "release" /\ tail # Null /\ ~Enough(t)
    /\ freed' = freed + size[tail]
    /\ GiveBack({tail})
    /\ pool' = Without(tail) /\ RemoveFromList(tail)
    /\ UNCHANGED <<callVars, lock, held, failures, countVars, cacheLimit,
                   poolSize>>

ReleaseDone(t) ==
    /\ pc[t] = "release" /\ (tail = Null \/ Enough(t))
    /\ poolSize' = poolSize - freed
    /\ lock' = Null /\ freed' = 0
    /\ Leave(t, "idle", 0, Null)
    /\ UNCHANGED <<ownVars, countVars, cacheLimit, pool, listVars>>

(* clear_cache gives the mutex up to wait for the CPU streams.              *)
CallClearCache(t) ==
    /\ pc[t] = "idle" /\ lock = Null /\ poolSize # 0
    /\ Leave(t, "clear", 0, Null)
    /\ UNCHANGED <<lockVars, ownVars, countVars, cacheLimit, cacheVars>>

ClearCache(t) ==
    /\ pc[t] = "clear" /\ lock = Null
    /\ Clear /\ Leave(t, "idle", 0, Null)
    /\ UNCHANGED <<lockVars, held, failures, countVars, cacheLimit>>

ResetPeakMemory(t) ==
    /\ pc[t] = "idle" /\ lock = Null
    /\ peak' = 0
    /\ UNCHANGED <<callVars, lockVars, ownVars, active, cacheLimit, cacheVars>>

Next ==
    \E t \in Threads :
        \/ \E n \in Sizes : MallocCached(t, n) \/ MallocMiss(t, n)
        \/ StdMalloc(t) \/ MallocCount(t) \/ StdFree(t)
        \/ \E b \in Buffers : Free(t, b)
        \/ \E n \in Limits : CallSetCacheLimit(t, n)
        \/ SetCacheLimit(t) \/ ReleaseTail(t) \/ ReleaseDone(t)
        \/ CallClearCache(t) \/ ClearCache(t) \/ ResetPeakMemory(t)

Spec == Init /\ [][Next]_vars
-----------------------------------------------------------------------------
(* Properties *)

InHand(t) == {buf[t]} \ {Null}

(* A buffer is owned once: by an array, by the cache, by one thread between *)
(* two parts of its call, or by the operating system.  None is handed out   *)
(* twice, freed twice or lost.                                              *)
OwnedOnce ==
    /\ \A i, j \in DOMAIN pool : pool[i] = pool[j] => i = j
    /\ \A t \in Threads :
         /\ InHand(t) \cap (unused \cup held \cup Cached) = {}
         /\ \A u \in Threads \ {t} : InHand(t) \cap InHand(u) = {}
    /\ unused \cap held = {} /\ unused \cap Cached = {} /\ held \cap Cached = {}
    /\ unused \cup held \cup Cached \cup UNION {InHand(t) : t \in Threads} = Buffers

(* L is the list by age, from the head to the tail, by both pointers: each  *)
(* buffer of the multimap is in it once, and nothing else.                  *)
IsList(L) ==
    LET n == Len(pool)
    IN  /\ {L[i] : i \in 1..n} = Cached
        /\ \A i, j \in 1..n : L[i] = L[j] => i = j
        /\ head = IF n = 0 THEN Null ELSE L[1]
        /\ tail = IF n = 0 THEN Null ELSE L[n]
        /\ \A i \in 1..n : /\ prev[L[i]] = IF i = 1 THEN Null ELSE L[i - 1]
                           /\ next[L[i]] = IF i = n THEN Null ELSE L[i + 1]

Orders == [1..Len(pool) -> Cached]

(* Both ways the list runs through exactly the buffers of the multimap, and *)
(* ends: a release from the tail finds each in the map, and no pointer left *)
(* in the list is to a deleted holder.                                      *)
ListMatchesPool == \E L \in Orders : IsList(L)

(* The bytes of the cache are counted exactly whenever the mutex is free,   *)
(* and keep to the limit that was set last, by whichever thread.            *)
CacheCounted ==
    lock = Null => poolSize = Total(Cached) /\ poolSize <= cacheLimit

(* get_active_memory ("Get the actively used memory in bytes",              *)
(* mlx/memory.h) is the size of the buffers that arrays own.                *)
ActiveExact == active = Total(held)

(* Failures of std::malloc only ever make the counter too large: it does    *)
(* not wrap, and the memory limit of eval_impl does not see too little; as  *)
(* long as none fails it is exact.                                          *)
ActiveCoversHeld ==
    /\ active >= Total(held)
    /\ failures = 0 => ActiveExact

(* Buffers of one size are in the map from the oldest to the newest.        *)
Aged(L) ==
    \A i, j \in DOMAIN pool :
        i < j /\ size[pool[i]] = size[pool[j]] =>
            \E m, n \in DOMAIN L : L[m] = pool[i] /\ L[n] = pool[j] /\ n < m

(* Of buffers of one size, the one that was freed first is reused first and *)
(* released first: the map and the list agree on their age.                 *)
OldestFirst == \E L \in Orders : IsList(L) /\ Aged(L)
=============================================================================
