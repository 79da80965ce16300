--------------------------- MODULE AllocatorProofs ---------------------------
(***************************************************************************)
(* Proofs about Allocator, for any number of threads, blocks, sizes and    *)
(* limits: every block has one owner, the list and the map of the cache    *)
(* hold the same buffers in agreeing orders, and the counters are right.   *)
(***************************************************************************)
EXTENDS Allocator, FiniteSetTheorems, SequenceTheorems, TLAPS

-----------------------------------------------------------------------------
(* Sequences: what inserting and removing one element does *)

LEMMA InsertFacts ==
    ASSUME NEW q \in Seq(Buffers), NEW i \in 1..(Len(q) + 1), NEW e \in Buffers
    PROVE  /\ InsertAt(q, i, e) \in Seq(Buffers)
           /\ Len(InsertAt(q, i, e)) = Len(q) + 1
           /\ \A k \in 1..(i - 1) : InsertAt(q, i, e)[k] = q[k]
           /\ InsertAt(q, i, e)[i] = e
           /\ \A k \in (i + 1)..(Len(q) + 1) : InsertAt(q, i, e)[k] = q[k - 1]
<1> DEFINE l == SubSeq(q, 1, i - 1)  r == SubSeq(q, i, Len(q))
<1>1. Len(q) \in Nat /\ \A k \in 1..Len(q) : q[k] \in Buffers
  OBVIOUS
<1>2. /\ l \in Seq(Buffers) /\ Len(l) = i - 1
      /\ \A k \in 1..(i - 1) : l[k] = q[k]
  <2>1. \A k \in 1..(i - 1) : q[k] \in Buffers
    BY <1>1
  <2> QED
    BY <1>1, <2>1, SubSeqProperties
<1>3. /\ r \in Seq(Buffers) /\ Len(r) = Len(q) - i + 1
      /\ \A k \in 1..(Len(q) - i + 1) : r[k] = q[i + k - 1]
  <2>1. \A k \in i..Len(q) : q[k] \in Buffers
    BY <1>1
  <2> QED
    BY <1>1, <2>1, SubSeqProperties
<1>4. InsertAt(q, i, e) = (l \o <<e>>) \o r
  BY DEF InsertAt
<1> HIDE DEF l, r
<1> DEFINE m == l \o <<e>>
<1>5. m \in Seq(Buffers) /\ Len(m) = i /\ \A k \in 1..i : m[k] = IF k < i THEN q[k] ELSE e
  BY <1>1, <1>2
<1> HIDE DEF m
<1>6. /\ m \o r \in Seq(Buffers) /\ Len(m \o r) = Len(q) + 1
      /\ \A k \in 1..(Len(q) + 1) : (m \o r)[k] = IF k <= i THEN m[k] ELSE r[k - i]
  <2>1. Len(m) + Len(r) = Len(q) + 1
    BY <1>1, <1>3, <1>5
  <2>2. /\ m \o r \in Seq(Buffers) /\ Len(m \o r) = Len(m) + Len(r)
        /\ \A k \in 1..(Len(m) + Len(r)) :
              (m \o r)[k] = IF k <= Len(m) THEN m[k] ELSE r[k - Len(m)]
    BY <1>3, <1>5, ConcatProperties, Zenon
  <2> QED
    BY <1>5, <2>1, <2>2
<1>7. \A k \in 1..(Len(q) + 1) : k > i => r[k - i] = q[k - 1]
  BY <1>1, <1>3
<1> QED
  BY <1>1, <1>4, <1>5, <1>6, <1>7 DEF m

LEMMA RemoveFacts ==
    ASSUME NEW S, NEW q \in Seq(S), NEW i \in 1..Len(q)
    PROVE  /\ RemoveAt(q, i) \in Seq(S)
           /\ Len(RemoveAt(q, i)) = Len(q) - 1
           /\ \A k \in 1..(Len(q) - 1) :
                 RemoveAt(q, i)[k] = IF k < i THEN q[k] ELSE q[k + 1]
<1> DEFINE l == SubSeq(q, 1, i - 1)  r == SubSeq(q, i + 1, Len(q))
<1>1. Len(q) \in Nat /\ \A k \in 1..Len(q) : q[k] \in S
  OBVIOUS
<1>2. /\ l \in Seq(S) /\ Len(l) = i - 1
      /\ \A k \in 1..(i - 1) : l[k] = q[k]
  <2>1. \A k \in 1..(i - 1) : q[k] \in S
    BY <1>1
  <2> QED
    BY <1>1, <2>1, SubSeqProperties
<1>3. /\ r \in Seq(S) /\ Len(r) = Len(q) - i
      /\ \A k \in 1..(Len(q) - i) : r[k] = q[i + k]
  <2>1. \A k \in (i + 1)..Len(q) : q[k] \in S
    BY <1>1
  <2> QED
    BY <1>1, <2>1, SubSeqProperties
<1>4. RemoveAt(q, i) = l \o r
  BY DEF RemoveAt
<1> HIDE DEF l, r
<1>5. /\ l \o r \in Seq(S) /\ Len(l \o r) = Len(q) - 1
      /\ \A k \in 1..(Len(q) - 1) : (l \o r)[k] = IF k <= i - 1 THEN l[k] ELSE r[k - (i - 1)]
  BY <1>1, <1>2, <1>3, ConcatProperties
<1>6. \A k \in 1..(Len(q) - 1) : k >= i => r[k - (i - 1)] = q[k + 1]
  BY <1>1, <1>3
<1> QED
  BY <1>1, <1>2, <1>4, <1>5, <1>6

LEMMA IntervalSize ==
    ASSUME NEW n \in Nat
    PROVE  IsFiniteSet(1..n) /\ Cardinality(1..n) = n
<1>1. /\ IsFiniteSet(1..n)
      /\ Cardinality(1..n) = IF 1 > n THEN 0 ELSE n - 1 + 1
  <2>1. n \in Int /\ 1 \in Int
    OBVIOUS
  <2> QED
    BY <2>1, FS_Interval, Zenon
<1> QED
  BY <1>1

-----------------------------------------------------------------------------
(* Bytes *)

BytesOf(sz, B) == UNION {{b} \X (1..sz[b]) : b \in B}
TotalOf(sz, B) == Cardinality(BytesOf(sz, B))

LEMMA BytesFinite ==
    ASSUME NEW sz \in [Buffers -> Nat], NEW B \in SUBSET Buffers
    PROVE  IsFiniteSet(BytesOf(sz, B)) /\ TotalOf(sz, B) \in Nat
<1> DEFINE f == [b \in B |-> {b} \X (1..sz[b])]
           T == {{b} \X (1..sz[b]) : b \in B}
<1>1. IsFiniteSet(B)
  BY FS_Subset, AllocatorAssumption
<1>2. f \in Surjection(B, T)
  BY DEF Surjection
<1>3. IsFiniteSet(T)
  BY <1>1, <1>2, FS_Surjection
<1>4. ASSUME NEW U \in T PROVE IsFiniteSet(U)
  <2>1. PICK b \in B : U = {b} \X (1..sz[b])
    OBVIOUS
  <2>2. IsFiniteSet({b}) /\ IsFiniteSet(1..sz[b])
    <3>1. sz[b] \in Int /\ 1 \in Int
      OBVIOUS
    <3>2. IsFiniteSet({b})
      BY FS_Singleton, Zenon
    <3>3. IsFiniteSet(1..sz[b])
      BY <3>1, FS_Interval, Zenon
    <3> QED
      BY <3>2, <3>3
  <2> QED
    BY <2>1, <2>2, FS_Product
<1>5. IsFiniteSet(UNION T)
  BY <1>3, <1>4, FS_UNION
<1> QED
  BY <1>5, FS_CardinalityType DEF BytesOf, TotalOf

LEMMA TotalAdd ==
    ASSUME NEW sz \in [Buffers -> Nat], NEW B \in SUBSET Buffers, NEW b \in Buffers \ B
    PROVE  TotalOf(sz, B \cup {b}) = TotalOf(sz, B) + sz[b]
<1> DEFINE new == {b} \X (1..sz[b])
<1>1. IsFiniteSet(BytesOf(sz, B)) /\ TotalOf(sz, B) \in Nat
  BY BytesFinite
<1>2. IsFiniteSet(new) /\ Cardinality(new) = sz[b]
  <2>1. IsFiniteSet({b}) /\ Cardinality({b}) = 1
    BY FS_Singleton
  <2>2. IsFiniteSet(1..sz[b]) /\ Cardinality(1..sz[b]) = sz[b]
    BY FS_Interval
  <2>3. Cardinality(new) = Cardinality({b}) * Cardinality(1..sz[b]) /\ IsFiniteSet(new)
    BY <2>1, <2>2, FS_Product
  <2>4. sz[b] \in Nat
    OBVIOUS
  <2> QED
    BY <2>1, <2>2, <2>3, <2>4
<1>3. BytesOf(sz, B \cup {b}) = BytesOf(sz, B) \cup new
  BY DEF BytesOf
<1>4. BytesOf(sz, B) \cap new = {}
  BY DEF BytesOf
<1>5. Cardinality(BytesOf(sz, B) \cap new) = 0
  BY <1>4, FS_EmptySet
<1> HIDE DEF new
<1>6. Cardinality(BytesOf(sz, B) \cup new)
          = Cardinality(BytesOf(sz, B)) + Cardinality(new) - Cardinality(BytesOf(sz, B) \cap new)
  BY <1>1, <1>2, FS_Union
<1>7. sz[b] \in Nat
  OBVIOUS
<1>8. /\ TotalOf(sz, B \cup {b}) = Cardinality(BytesOf(sz, B) \cup new)
      /\ TotalOf(sz, B) = Cardinality(BytesOf(sz, B))
  BY <1>3 DEF TotalOf
<1> QED
  BY <1>1, <1>2, <1>5, <1>6, <1>7, <1>8

LEMMA TotalSame ==
    ASSUME NEW sz, NEW tz, NEW B, \A b \in B : sz[b] = tz[b]
    PROVE  TotalOf(sz, B) = TotalOf(tz, B)
<1>1. BytesOf(sz, B) = BytesOf(tz, B)
  BY DEF BytesOf
<1> QED
  BY <1>1 DEF TotalOf

LEMMA TotalRemove ==
    ASSUME NEW sz \in [Buffers -> Nat], NEW B \in SUBSET Buffers, NEW b \in B
    PROVE  TotalOf(sz, B \ {b}) = TotalOf(sz, B) - sz[b]
<1>1. (B \ {b}) \cup {b} = B /\ b \in Buffers \ (B \ {b}) /\ B \ {b} \in SUBSET Buffers
  OBVIOUS
<1>2. TotalOf(sz, B) = TotalOf(sz, B \ {b}) + sz[b]
  BY <1>1, TotalAdd
<1>3. TotalOf(sz, B \ {b}) \in Nat /\ sz[b] \in Nat
  BY <1>1, BytesFinite
<1> QED
  BY <1>2, <1>3

LEMMA TotalEmpty ==
    ASSUME NEW sz
    PROVE  TotalOf(sz, {}) = 0
<1>1. BytesOf(sz, {}) = {}
  BY DEF BytesOf
<1> QED
  BY <1>1, FS_EmptySet DEF TotalOf

-----------------------------------------------------------------------------
(* The invariant *)

Pcs == {"idle", "allocate", "count", "stdFree", "setLimit", "release", "clear"}

TypeInv ==
    /\ pc \in [Threads -> Pcs] /\ want \in [Threads -> Int]
    /\ buf \in [Threads -> Buffers \cup {Null}]
    /\ lock \in Threads \cup {Null} /\ freed \in Int
    /\ size \in [Buffers -> Nat] /\ unused \subseteq Buffers /\ held \subseteq Buffers
    /\ failures \in Nat /\ active \in Int /\ cacheLimit \in Nat /\ poolSize \in Int
    /\ pool \in Seq(Buffers)
    /\ head \in Buffers \cup {Null} /\ tail \in Buffers \cup {Null}
    /\ prev \in [Buffers -> Buffers \cup {Null}] /\ next \in [Buffers -> Buffers \cup {Null}]

(* What a thread has in hand between the parts of its call; the mutex is    *)
(* kept by the one in the loop of release_cached_buffers.                   *)
CallOK(t) ==
    /\ pc[t] \notin {"count", "stdFree"} => buf[t] = Null
    /\ pc[t] = "stdFree" => buf[t] # Null
    /\ pc[t] \in {"allocate", "count", "setLimit"} => want[t] \in Nat
    /\ pc[t] = "count" => IF buf[t] = Null THEN failures > 0 ELSE size[buf[t]] = want[t]
    /\ pc[t] = "release" <=> lock = t
    /\ pc[t] = "release" => want[t] = poolSize - cacheLimit

CallInv ==
    /\ \A t \in Threads : CallOK(t)
    /\ lock = Null => freed = 0

PoolSorted == \A i, j \in DOMAIN pool : i < j => size[pool[i]] <= size[pool[j]]

NoStrayPointers == \A b \in Buffers \ Cached : prev[b] = Null /\ next[b] = Null

CacheInv == PoolSorted /\ NoStrayPointers /\ OldestFirst

(* While the loop runs, pool_size_ still counts what it has freed.          *)
CountInv ==
    /\ poolSize = Total(Cached) + freed
    /\ lock = Null => poolSize <= cacheLimit
    /\ ActiveCoversHeld

AllocInv == TypeInv /\ CallInv /\ OwnedOnce /\ CacheInv /\ CountInv

-----------------------------------------------------------------------------
(* The multimap *)

LEMMA PoolIndices ==
    ASSUME TypeInv
    PROVE  /\ Len(pool) \in Nat /\ DOMAIN pool = 1..Len(pool)
           /\ \A i \in 1..Len(pool) : pool[i] \in Buffers
           /\ Cached = {pool[i] : i \in 1..Len(pool)} /\ Cached \in SUBSET Buffers
<1>1. Len(pool) \in Nat /\ DOMAIN pool = 1..Len(pool) /\ \A i \in 1..Len(pool) : pool[i] \in Buffers
  BY DEF TypeInv
<1> QED
  BY <1>1 DEF Cached, Range

LEMMA PoolRemove ==
    ASSUME TypeInv, OwnedOnce, NEW b \in Cached
    PROVE  /\ Position(b) \in 1..Len(pool) /\ pool[Position(b)] = b
           /\ Without(b) \in Seq(Buffers) /\ Len(Without(b)) = Len(pool) - 1
           /\ \A k \in 1..(Len(pool) - 1) :
                 Without(b)[k] = IF k < Position(b) THEN pool[k] ELSE pool[k + 1]
           /\ Range(Without(b)) = Cached \ {b}
           /\ \A i, j \in DOMAIN Without(b) : Without(b)[i] = Without(b)[j] => i = j
<1> DEFINE p == Position(b)  q == Without(b)
<1>1. p \in 1..Len(pool) /\ pool[p] = b
  BY PoolIndices DEF Position
<1>2. /\ q \in Seq(Buffers) /\ Len(q) = Len(pool) - 1
      /\ \A k \in 1..(Len(pool) - 1) : q[k] = IF k < p THEN pool[k] ELSE pool[k + 1]
  BY <1>1, RemoveFacts DEF Without, TypeInv
<1>3. \A i, j \in 1..Len(pool) : pool[i] = pool[j] => i = j
  BY PoolIndices DEF OwnedOnce
<1> HIDE DEF p, q
<1>4. DOMAIN q = 1..(Len(pool) - 1) /\ Len(pool) \in Nat
  BY <1>2, PoolIndices
<1>5. Range(q) = Cached \ {b}
  <2>1. ASSUME NEW c \in Range(q) PROVE c \in Cached \ {b}
    <3>1. PICK k \in 1..(Len(pool) - 1) : c = q[k]
      BY <1>4 DEF Range
    <3>2. PICK i \in 1..Len(pool) : c = pool[i] /\ i # p
      BY <1>1, <1>2, <1>4, <3>1
    <3> QED
      BY <1>1, <1>3, <3>2, PoolIndices
  <2>2. ASSUME NEW c \in Cached \ {b} PROVE c \in Range(q)
    <3>1. PICK i \in 1..Len(pool) : c = pool[i]
      BY PoolIndices
    <3>2. i # p
      BY <1>1, <3>1
    <3>3. CASE i < p
      <4>1. i \in 1..(Len(pool) - 1) /\ q[i] = c
        BY <1>1, <1>2, <1>4, <3>1, <3>3
      <4> QED
        BY <1>4, <4>1 DEF Range
    <3>4. CASE i > p
      <4>1. i - 1 \in 1..(Len(pool) - 1) /\ q[i - 1] = c
        BY <1>1, <1>2, <1>4, <3>1, <3>4
      <4> QED
        BY <1>4, <4>1 DEF Range
    <3> QED
      BY <1>1, <1>4, <3>2, <3>3, <3>4
  <2> QED
    BY <2>1, <2>2
<1>6. ASSUME NEW i \in DOMAIN q, NEW j \in DOMAIN q, q[i] = q[j] PROVE i = j
  <2> DEFINE at(k) == IF k < p THEN k ELSE k + 1
  <2>1. /\ at(i) \in 1..Len(pool) /\ at(j) \in 1..Len(pool)
        /\ q[i] = pool[at(i)] /\ q[j] = pool[at(j)]
    BY <1>1, <1>2, <1>4
  <2>2. at(i) = at(j)
    BY <1>3, <1>6, <2>1
  <2> QED
    BY <1>1, <1>4, <2>2
<1> QED
  BY <1>1, <1>2, <1>5, <1>6 DEF p, q

(* In a sorted map the entries up to a size come first. *)
LEMMA UpToIsPrefix ==
    ASSUME TypeInv, PoolSorted, NEW n \in Int
    PROVE  /\ UpTo(n) \in 0..Len(pool)
           /\ \A i \in 1..Len(pool) : size[pool[i]] <= n <=> i <= UpTo(n)
<1> DEFINE S == {i \in DOMAIN pool : size[pool[i]] <= n}
<1>1. /\ Len(pool) \in Nat /\ DOMAIN pool = 1..Len(pool)
      /\ \A i \in 1..Len(pool) : size[pool[i]] \in Nat
  BY PoolIndices DEF TypeInv
<1>2. /\ IsFiniteSet(1..Len(pool)) /\ Cardinality(1..Len(pool)) = Len(pool)
      /\ S \in SUBSET (1..Len(pool))
  <2>1. Len(pool) \in Int /\ 1 \in Int /\ S \in SUBSET (1..Len(pool))
    BY <1>1
  <2>2. /\ IsFiniteSet(1..Len(pool))
        /\ Cardinality(1..Len(pool)) = IF 1 > Len(pool) THEN 0 ELSE Len(pool) - 1 + 1
    BY <2>1, FS_Interval, Zenon
  <2> QED
    BY <1>1, <2>1, <2>2
<1>3. IsFiniteSet(S) /\ Cardinality(S) \in 0..Len(pool)
  <2>1. IsFiniteSet(S) /\ Cardinality(S) <= Len(pool)
    BY <1>2, FS_Subset
  <2>2. Cardinality(S) \in Nat
    BY <2>1, FS_CardinalityType
  <2> QED
    BY <1>1, <2>1, <2>2
<1>4. ASSUME NEW i \in S, NEW k \in 1..i PROVE k \in S
  BY <1>1, <1>4 DEF PoolSorted
<1>5. ASSUME NEW i \in S PROVE i <= Cardinality(S)
  <2>1. 1..i \in SUBSET S /\ i \in Nat
    BY <1>1, <1>4
  <2>2. Cardinality(1..i) = i
    BY <2>1, FS_Interval
  <2> QED
    BY <1>3, <2>1, <2>2, FS_Subset
<1>6. S \in SUBSET (1..Cardinality(S))
  BY <1>1, <1>3, <1>5
<1>7. IsFiniteSet(1..Cardinality(S)) /\ Cardinality(1..Cardinality(S)) = Cardinality(S)
  BY <1>3, FS_Interval
<1>8. S = 1..Cardinality(S)
  BY <1>6, <1>7, FS_Subset
<1>9. UpTo(n) = Cardinality(S)
  BY DEF UpTo
<1> QED
  BY <1>1, <1>3, <1>8, <1>9

LEMMA PoolAdd ==
    ASSUME TypeInv, PoolSorted, NEW b \in Buffers \ Cached, OwnedOnce
    PROVE  LET p == UpTo(size[b]) + 1
           IN  /\ p \in 1..(Len(pool) + 1)
               /\ Filed(b) \in Seq(Buffers) /\ Len(Filed(b)) = Len(pool) + 1
               /\ \A k \in 1..(Len(pool) + 1) :
                     Filed(b)[k] = IF k < p THEN pool[k] ELSE IF k = p THEN b ELSE pool[k - 1]
               /\ Range(Filed(b)) = Cached \cup {b}
               /\ \A i, j \in DOMAIN Filed(b) : Filed(b)[i] = Filed(b)[j] => i = j
               /\ \A i \in 1..Len(pool) : i < p <=> size[pool[i]] <= size[b]
<1> DEFINE p == UpTo(size[b]) + 1  q == Filed(b)  n == Len(pool)
<1>1. /\ n \in Nat /\ DOMAIN pool = 1..n
      /\ \A i \in 1..n : pool[i] \in Buffers /\ size[pool[i]] \in Nat
      /\ size[b] \in Nat
  BY PoolIndices DEF TypeInv
<1>2. p \in 1..(n + 1) /\ \A i \in 1..n : i < p <=> size[pool[i]] <= size[b]
  <2>1. /\ UpTo(size[b]) \in 0..n
        /\ \A i \in 1..n : size[pool[i]] <= size[b] <=> i <= UpTo(size[b])
    <3>1. size[b] \in Int
      BY <1>1
    <3> QED
      BY <3>1, UpToIsPrefix
  <2> QED
    BY <1>1, <2>1
<1>3. /\ q \in Seq(Buffers) /\ Len(q) = n + 1
      /\ \A k \in 1..(n + 1) : q[k] = IF k < p THEN pool[k] ELSE IF k = p THEN b ELSE pool[k - 1]
  <2>1. pool \in Seq(Buffers) /\ q = InsertAt(pool, p, b) /\ p \in 1..(Len(pool) + 1)
    BY <1>2 DEF Filed, TypeInv
  <2> HIDE DEF p, q
  <2>2. b \in Buffers
    OBVIOUS
  <2>3. /\ InsertAt(pool, p, b) \in Seq(Buffers)
        /\ Len(InsertAt(pool, p, b)) = Len(pool) + 1
        /\ \A k \in 1..(p - 1) : InsertAt(pool, p, b)[k] = pool[k]
        /\ InsertAt(pool, p, b)[p] = b
        /\ \A k \in (p + 1)..(Len(pool) + 1) : InsertAt(pool, p, b)[k] = pool[k - 1]
    BY <2>1, <2>2, InsertFacts, ZenonT(60)
  <2>4. \A k \in 1..(Len(pool) + 1) : InsertAt(pool, p, b)[k]
                        = IF k < p THEN pool[k] ELSE IF k = p THEN b ELSE pool[k - 1]
    BY <1>1, <2>1, <2>3 DEF n
  <2> QED
    BY <2>1, <2>3, <2>4
<1>4. \A i, j \in 1..n : pool[i] = pool[j] => i = j
  BY <1>1 DEF OwnedOnce
<1>5. \A i \in 1..n : pool[i] # b
  BY PoolIndices
<1> HIDE DEF p, q, n
<1>6. DOMAIN q = 1..(n + 1)
  BY <1>1, <1>3
<1>7. Range(q) = Cached \cup {b}
  <2>1. \A k \in 1..(n + 1) : q[k] \in Cached \cup {b}
    BY SMTT(20), <1>1, <1>2, <1>3, PoolIndices DEF n
  <2>2. ASSUME NEW c \in Cached PROVE c \in Range(q)
    <3>1. PICK i \in 1..n : c = pool[i]
      BY PoolIndices DEF n
    <3>2. CASE i < p
      BY <1>1, <1>3, <1>6, <3>1, <3>2 DEF Range
    <3>3. CASE ~(i < p)
      <4>1. i + 1 \in 1..(n + 1) /\ q[i + 1] = c
        BY <1>1, <1>2, <1>3, <3>1, <3>3
      <4> QED
        BY <1>6, <4>1 DEF Range
    <3> QED
      BY <3>2, <3>3
  <2>3. b \in Range(q)
    <3>1. q[p] = b
      BY <1>1, <1>2, <1>3
    <3> QED
      BY <1>2, <1>6, <3>1 DEF Range
  <2> QED
    BY <1>6, <2>1, <2>2, <2>3 DEF Range
<1>8. ASSUME NEW i \in DOMAIN q, NEW j \in DOMAIN q, q[i] = q[j] PROVE i = j
  <2> DEFINE at(k) == IF k < p THEN k ELSE k - 1
  <2>1. CASE i = p \/ j = p
    BY <1>1, <1>2, <1>3, <1>5, <1>6, <1>8, <2>1
  <2>2. CASE i # p /\ j # p
    <3>1. /\ at(i) \in 1..n /\ at(j) \in 1..n
          /\ q[i] = pool[at(i)] /\ q[j] = pool[at(j)]
      BY SMTT(20), <1>1, <1>2, <1>3, <1>6, <2>2
    <3>2. at(i) = at(j)
      BY <1>4, <1>8, <3>1
    <3> QED
      BY <1>1, <1>2, <1>6, <2>2, <3>2
  <2> QED
    BY <2>1, <2>2
<1> QED
  BY <1>2, <1>3, <1>7, <1>8 DEF p, q, n

-----------------------------------------------------------------------------
(* The list by age *)

(* What L says, for a list that is not empty. *)
LEMMA ListFacts ==
    ASSUME TypeInv, NEW L \in Orders, IsList(L)
    PROVE  /\ Len(pool) \in Nat /\ DOMAIN L = 1..Len(pool)
           /\ \A i \in 1..Len(pool) : L[i] \in Cached /\ L[i] \in Buffers /\ L[i] # Null
           /\ \A c \in Cached : \E i \in 1..Len(pool) : L[i] = c
           /\ \A i, j \in 1..Len(pool) : L[i] = L[j] => i = j
           /\ Len(pool) > 0 => head = L[1] /\ tail = L[Len(pool)]
           /\ \A i \in 1..Len(pool) : /\ prev[L[i]] = IF i = 1 THEN Null ELSE L[i - 1]
                                      /\ next[L[i]] = IF i = Len(pool) THEN Null ELSE L[i + 1]
<1>1. Len(pool) \in Nat /\ Cached \in SUBSET Buffers
  BY PoolIndices
<1>2. \A i \in 1..Len(pool) : L[i] \in Cached
  BY DEF Orders
<1> QED
  BY <1>1, <1>2, AllocatorAssumption DEF Orders, IsList

(* remove_from_list takes b out of the list, wherever it is. *)
LEMMA Unlinked ==
    ASSUME TypeInv, NEW L \in Orders, IsList(L), NEW k \in 1..Len(pool), RemoveFromList(L[k])
    PROVE  /\ \A c \in Buffers :
                next'[c] = IF c = L[k] THEN Null
                           ELSE IF k > 1 /\ c = L[k - 1]
                                THEN IF k = Len(pool) THEN Null ELSE L[k + 1]
                                ELSE next[c]
           /\ \A c \in Buffers :
                prev'[c] = IF c = L[k] THEN Null
                           ELSE IF k < Len(pool) /\ c = L[k + 1]
                                THEN IF k = 1 THEN Null ELSE L[k - 1]
                                ELSE prev[c]
           /\ head' = IF k > 1 THEN head ELSE IF k = Len(pool) THEN Null ELSE L[k + 1]
           /\ tail' = IF k < Len(pool) THEN tail ELSE IF k = 1 THEN Null ELSE L[k - 1]
           /\ next' \in [Buffers -> Buffers \cup {Null}]
           /\ prev' \in [Buffers -> Buffers \cup {Null}]
           /\ head' \in Buffers \cup {Null} /\ tail' \in Buffers \cup {Null}
<1> DEFINE n == Len(pool)  b == L[k]
<1>1. /\ n \in Nat /\ k \in 1..n /\ b \in Buffers
      /\ prev[b] = IF k = 1 THEN Null ELSE L[k - 1]
      /\ next[b] = IF k = n THEN Null ELSE L[k + 1]
      /\ k > 1 => L[k - 1] \in Buffers /\ L[k - 1] # Null /\ L[k - 1] # b
      /\ k < n => L[k + 1] \in Buffers /\ L[k + 1] # Null /\ L[k + 1] # b
      /\ k > 1 /\ k < n => L[k - 1] # L[k + 1]
      /\ head = L[1] /\ tail = L[n]
  <2>1. k \in Int /\ n \in Nat /\ 1 <= k /\ k <= n
    BY ListFacts
  <2>2. k > 1 => k - 1 \in 1..n /\ k - 1 # k
    BY <2>1
  <2>3. k < n => k + 1 \in 1..n /\ k + 1 # k /\ k + 1 # k - 1
    BY <2>1
  <2>4. \A i, j \in 1..n : L[i] = L[j] => i = j
    BY ListFacts
  <2>5. \A i \in 1..n : L[i] \in Buffers /\ L[i] # Null
    BY ListFacts
  <2>6. /\ prev[b] = IF k = 1 THEN Null ELSE L[k - 1]
        /\ next[b] = IF k = n THEN Null ELSE L[k + 1]
        /\ head = L[1] /\ tail = L[n]
    BY <2>1, ListFacts
  <2>7. k > 1 => L[k - 1] \in Buffers /\ L[k - 1] # Null /\ L[k - 1] # b
    BY <2>2, <2>4, <2>5
  <2>8. k < n => L[k + 1] \in Buffers /\ L[k + 1] # Null /\ L[k + 1] # b
    BY <2>3, <2>4, <2>5
  <2>9. k > 1 /\ k < n => L[k - 1] # L[k + 1]
    BY <2>2, <2>3, <2>4
  <2> QED
    BY <2>1, <2>5, <2>6, <2>7, <2>8, <2>9
<1>2. /\ prev \in [Buffers -> Buffers \cup {Null}] /\ next \in [Buffers -> Buffers \cup {Null}]
      /\ head \in Buffers \cup {Null} /\ tail \in Buffers \cup {Null}
  BY DEF TypeInv
<1>3. RemoveFromList(b)
  OBVIOUS
<1> HIDE DEF n, b
<1> SUFFICES /\ \A c \in Buffers :
                  next'[c] = IF c = b THEN Null
                             ELSE IF k > 1 /\ c = L[k - 1]
                                  THEN IF k = n THEN Null ELSE L[k + 1]
                                  ELSE next[c]
             /\ \A c \in Buffers :
                  prev'[c] = IF c = b THEN Null
                             ELSE IF k < n /\ c = L[k + 1]
                                  THEN IF k = 1 THEN Null ELSE L[k - 1]
                                  ELSE prev[c]
             /\ head' = IF k > 1 THEN head ELSE IF k = n THEN Null ELSE L[k + 1]
             /\ tail' = IF k < n THEN tail ELSE IF k = 1 THEN Null ELSE L[k - 1]
             /\ next' \in [Buffers -> Buffers \cup {Null}]
             /\ prev' \in [Buffers -> Buffers \cup {Null}]
             /\ head' \in Buffers \cup {Null} /\ tail' \in Buffers \cup {Null}
  BY DEF n, b
<1>4. CASE 1 < k /\ k < n
  <2>1. /\ next' = [next EXCEPT ![L[k - 1]] = L[k + 1], ![b] = Null]
        /\ prev' = [prev EXCEPT ![L[k + 1]] = L[k - 1], ![b] = Null]
        /\ head' = head /\ tail' = tail
    BY <1>1, <1>3, <1>4 DEF RemoveFromList
  <2> QED
    BY <1>1, <1>2, <1>4, <2>1
<1>5. CASE 1 < k /\ k = n
  <2>1. /\ next' = [next EXCEPT ![L[k - 1]] = Null]
        /\ prev' = [prev EXCEPT ![b] = Null]
        /\ head' = head /\ tail' = L[k - 1] /\ next[b] = Null
    BY <1>1, <1>3, <1>5 DEF RemoveFromList
  <2> QED
    BY <1>1, <1>2, <1>5, <2>1
<1>6. CASE 1 = k /\ k < n
  <2>1. /\ prev' = [prev EXCEPT ![L[k + 1]] = Null]
        /\ next' = [next EXCEPT ![b] = Null]
        /\ head' = L[k + 1] /\ tail' = tail /\ prev[b] = Null
    BY <1>1, <1>3, <1>6 DEF RemoveFromList
  <2> QED
    BY <1>1, <1>2, <1>6, <2>1
<1>7. CASE 1 = k /\ k = n
  <2>1. /\ prev' = prev /\ next' = next /\ head' = Null /\ tail' = Null
        /\ prev[b] = Null /\ next[b] = Null
    BY <1>1, <1>3, <1>7 DEF RemoveFromList
  <2> QED
    BY <1>1, <1>2, <1>7, <2>1
<1> QED
  BY <1>1, <1>4, <1>5, <1>6, <1>7

LEMMA ListRemoved ==
    ASSUME TypeInv, OwnedOnce, CacheInv, NEW b \in Cached, RemoveFromList(b),
           pool' = Without(b), \A c \in Cached \ {b} : size'[c] = size[c]
    PROVE  /\ CacheInv'
           /\ next' \in [Buffers -> Buffers \cup {Null}]
           /\ prev' \in [Buffers -> Buffers \cup {Null}]
           /\ head' \in Buffers \cup {Null} /\ tail' \in Buffers \cup {Null}
<1>0. PICK n, p : n = Len(pool) /\ p = Position(b)
  OBVIOUS
<1>1. /\ p \in 1..n /\ n \in Nat /\ DOMAIN pool = 1..n /\ Len(pool') = n - 1
      /\ DOMAIN pool' = 1..(n - 1) /\ Cached' = Cached \ {b} /\ Cached \in SUBSET Buffers
      /\ \A i \in 1..(n - 1) : pool'[i] = IF i < p THEN pool[i] ELSE pool[i + 1]
      /\ \A i \in 1..n : pool[i] = b <=> i = p
  <2>1. /\ p \in 1..n /\ n \in Nat /\ Without(b) \in Seq(Buffers) /\ Len(Without(b)) = n - 1
        /\ Range(Without(b)) = Cached \ {b} /\ pool[p] = b /\ DOMAIN pool = 1..n
        /\ \A i \in 1..(n - 1) : Without(b)[i] = IF i < p THEN pool[i] ELSE pool[i + 1]
    BY <1>0, PoolRemove, PoolIndices
  <2>2. \A i, j \in 1..n : pool[i] = pool[j] => i = j
    BY <2>1 DEF OwnedOnce
  <2> QED
    BY <1>0, <2>1, <2>2, PoolIndices DEF Cached
<1>2. PICK L \in Orders : IsList(L) /\ Aged(L)
  BY DEF CacheInv, OldestFirst
<1>3. /\ \A i \in 1..n : L[i] \in Cached /\ L[i] \in Buffers /\ L[i] # Null
      /\ \A c \in Cached : \E i \in 1..n : L[i] = c
      /\ \A i, j \in 1..n : L[i] = L[j] => i = j
      /\ \A i \in 1..n : /\ prev[L[i]] = IF i = 1 THEN Null ELSE L[i - 1]
                         /\ next[L[i]] = IF i = n THEN Null ELSE L[i + 1]
      /\ n > 0 => head = L[1] /\ tail = L[n]
      /\ DOMAIN L = 1..n
  BY SMTT(20), <1>0, <1>2, ListFacts
<1>4. PICK k \in 1..n : L[k] = b
  BY <1>3
<1>5. /\ \A c \in Buffers :
           next'[c] = IF c = b THEN Null
                      ELSE IF k > 1 /\ c = L[k - 1]
                           THEN IF k = n THEN Null ELSE L[k + 1]
                           ELSE next[c]
      /\ \A c \in Buffers :
           prev'[c] = IF c = b THEN Null
                      ELSE IF k < n /\ c = L[k + 1]
                           THEN IF k = 1 THEN Null ELSE L[k - 1]
                           ELSE prev[c]
      /\ head' = IF k > 1 THEN head ELSE IF k = n THEN Null ELSE L[k + 1]
      /\ tail' = IF k < n THEN tail ELSE IF k = 1 THEN Null ELSE L[k - 1]
      /\ next' \in [Buffers -> Buffers \cup {Null}]
      /\ prev' \in [Buffers -> Buffers \cup {Null}]
      /\ head' \in Buffers \cup {Null} /\ tail' \in Buffers \cup {Null}
  BY <1>0, <1>2, <1>4, Unlinked
<1> DEFINE at(i) == IF i < k THEN i ELSE i + 1
<1>17. PICK M : M = [i \in 1..(n - 1) |-> L[at(i)]]
  OBVIOUS
<1>6. /\ \A i \in 1..(n - 1) : at(i) \in 1..n /\ at(i) # k /\ M[i] = L[at(i)] /\ M[i] # b
      /\ \A i \in 1..n : i # k => (IF i < k THEN i ELSE i - 1) \in 1..(n - 1)
                                  /\ at(IF i < k THEN i ELSE i - 1) = i
      /\ \A i, j \in 1..(n - 1) : at(i) = at(j) => i = j
  <2>1. \A i \in 1..(n - 1) : at(i) \in 1..n /\ at(i) # k
    BY <1>1
  <2>2. \A i \in 1..(n - 1) : M[i] = L[at(i)]
    BY <1>17
  <2>3. \A i \in 1..n : i # k => (IF i < k THEN i ELSE i - 1) \in 1..(n - 1)
                                  /\ at(IF i < k THEN i ELSE i - 1) = i
    BY <1>1
  <2>4. \A i, j \in 1..(n - 1) : at(i) = at(j) => i = j
    BY <1>1
  <2>5. \A i \in 1..(n - 1) : M[i] # b
    BY <1>3, <1>4, <2>1, <2>2
  <2> QED
    BY <2>1, <2>2, <2>3, <2>4, <2>5
<1>7. M \in [1..(n - 1) -> Cached \ {b}]
  BY <1>3, <1>6, <1>17
<1>8. M \in Orders'
  BY <1>1, <1>7 DEF Orders
<1>9. {M[i] : i \in 1..(n - 1)} = Cached \ {b}
  <2>1. ASSUME NEW c \in Cached \ {b} PROVE \E i \in 1..(n - 1) : M[i] = c
    <3>1. PICK i \in 1..n : L[i] = c /\ i # k
      BY <1>3, <1>4
    <3> QED
      BY <1>6, <3>1
  <2> QED
    BY <1>7, <2>1
<1>10. \A i, j \in 1..(n - 1) : M[i] = M[j] => i = j
  BY <1>3, <1>6
<1>11. /\ head' = IF n - 1 = 0 THEN Null ELSE M[1]
       /\ tail' = IF n - 1 = 0 THEN Null ELSE M[n - 1]
  <2>1. n - 1 # 0 => M[1] = (IF k > 1 THEN L[1] ELSE L[2])
                     /\ M[n - 1] = (IF k < n THEN L[n] ELSE L[n - 1])
    BY <1>1, <1>6
  <2> QED
    BY <1>1, <1>3, <1>5, <2>1
<1>12. ASSUME NEW i \in 1..(n - 1)
       PROVE  /\ prev'[M[i]] = IF i = 1 THEN Null ELSE M[i - 1]
              /\ next'[M[i]] = IF i = n - 1 THEN Null ELSE M[i + 1]
  <2>0. PICK x : x = at(i)
    OBVIOUS
  <2>1. /\ x \in 1..n /\ x # k /\ M[i] = L[x] /\ M[i] # b /\ M[i] \in Buffers
        /\ n \in Nat /\ k \in 1..n
    BY <1>1, <1>3, <1>6, <1>7, <2>0
  <2>2. /\ k > 1 => k - 1 \in 1..n
        /\ k < n => k + 1 \in 1..n
    BY <2>1
  <2>3. /\ k > 1 => (L[x] = L[k - 1] <=> x = k - 1)
        /\ k < n => (L[x] = L[k + 1] <=> x = k + 1)
    BY <1>3, <2>1, <2>2
  <2>4. /\ i > 1 => M[i - 1] = L[at(i - 1)]
        /\ i < n - 1 => M[i + 1] = L[at(i + 1)]
    BY <1>6, <2>1
  <2>5. next'[M[i]] = IF k > 1 /\ x = k - 1
                      THEN IF k = n THEN Null ELSE L[k + 1]
                      ELSE IF x = n THEN Null ELSE L[x + 1]
    <3>1. next'[L[x]] = IF k > 1 /\ L[x] = L[k - 1]
                       THEN IF k = n THEN Null ELSE L[k + 1]
                       ELSE next[L[x]]
      BY <1>5, <2>1
    <3>2. next[L[x]] = IF x = n THEN Null ELSE L[x + 1]
      BY <1>3, <2>1
    <3> QED
      BY <2>1, <2>3, <3>1, <3>2
  <2>6. prev'[M[i]] = IF k < n /\ x = k + 1
                      THEN IF k = 1 THEN Null ELSE L[k - 1]
                      ELSE IF x = 1 THEN Null ELSE L[x - 1]
    <3>1. prev'[L[x]] = IF k < n /\ L[x] = L[k + 1]
                       THEN IF k = 1 THEN Null ELSE L[k - 1]
                       ELSE prev[L[x]]
      BY <1>5, <2>1
    <3>2. prev[L[x]] = IF x = 1 THEN Null ELSE L[x - 1]
      BY <1>3, <2>1
    <3> QED
      BY <2>1, <2>3, <3>1, <3>2
  <2>7. prev'[M[i]] = IF i = 1 THEN Null ELSE M[i - 1]
    BY <2>0, <2>1, <2>4, <2>6
  <2>8. next'[M[i]] = IF i = n - 1 THEN Null ELSE M[i + 1]
    BY <2>0, <2>1, <2>4, <2>5
  <2> QED
    BY <2>7, <2>8
<1>13. IsList(M)'
  BY <1>1, <1>9, <1>10, <1>11, <1>12 DEF IsList
<1>14. Aged(M)'
  <2> SUFFICES ASSUME NEW i \in 1..(n - 1), NEW j \in 1..(n - 1), i < j,
                      size'[pool'[i]] = size'[pool'[j]]
               PROVE  \E u, v \in 1..(n - 1) : M[u] = pool'[i] /\ M[v] = pool'[j] /\ v < u
    <3>1. DOMAIN M = 1..(n - 1) /\ DOMAIN pool' = 1..(n - 1)
      BY <1>1, <1>7
    <3> QED
      BY <3>1 DEF Aged
  <2> DEFINE of(x) == IF x < p THEN x ELSE x + 1
  <2>1. /\ of(i) \in 1..n /\ of(j) \in 1..n /\ of(i) < of(j)
        /\ pool'[i] = pool[of(i)] /\ pool'[j] = pool[of(j)]
        /\ pool[of(i)] # b /\ pool[of(j)] # b
    BY <1>1
  <2>2. size[pool[of(i)]] = size[pool[of(j)]]
    <3>1. pool[of(i)] \in Cached \ {b} /\ pool[of(j)] \in Cached \ {b}
      BY <1>0, <2>1, PoolIndices
    <3> QED
      BY <2>1, <3>1
  <2>3. PICK u \in 1..n, v \in 1..n : L[u] = pool[of(i)] /\ L[v] = pool[of(j)] /\ v < u
    <3>1. DOMAIN L = 1..n /\ DOMAIN pool = 1..n /\ Aged(L)
      BY <1>1, <1>2, <1>3
    <3> HIDE DEF of
    <3> QED
      BY <2>1, <2>2, <3>1, Zenon DEF Aged
  <2>4. u # k /\ v # k
    BY <1>4, <2>1, <2>3
  <2> DEFINE back(x) == IF x < k THEN x ELSE x - 1
  <2>5. /\ back(u) \in 1..(n - 1) /\ back(v) \in 1..(n - 1) /\ back(v) < back(u)
        /\ at(back(u)) = u /\ at(back(v)) = v
    BY <1>1, <2>3, <2>4
  <2>6. M[back(u)] = pool'[i] /\ M[back(v)] = pool'[j]
    BY <1>6, <2>1, <2>3, <2>5
  <2> QED
    BY <2>5, <2>6
<1>15. PoolSorted'
  <2> SUFFICES ASSUME NEW i \in 1..(n - 1), NEW j \in 1..(n - 1), i < j
               PROVE  size'[pool'[i]] <= size'[pool'[j]]
    BY <1>1 DEF PoolSorted
  <2> DEFINE of(x) == IF x < p THEN x ELSE x + 1
  <2>1. /\ of(i) \in 1..n /\ of(j) \in 1..n /\ of(i) < of(j)
        /\ pool'[i] = pool[of(i)] /\ pool'[j] = pool[of(j)]
        /\ pool[of(i)] # b /\ pool[of(j)] # b
    BY <1>1
  <2>2. pool[of(i)] \in Cached \ {b} /\ pool[of(j)] \in Cached \ {b}
    BY <1>0, <2>1, PoolIndices
  <2>3. size[pool[of(i)]] <= size[pool[of(j)]]
    BY <1>1, <2>1 DEF CacheInv, PoolSorted
  <2> QED
    BY <2>1, <2>2, <2>3
<1>16. NoStrayPointers'
  <2> SUFFICES ASSUME NEW c \in Buffers, c \notin Cached \/ c = b
               PROVE  prev'[c] = Null /\ next'[c] = Null
    BY <1>1 DEF NoStrayPointers
  <2>1. /\ k > 1 => L[k - 1] \in Cached
        /\ k < n => L[k + 1] \in Cached
    BY <1>1, <1>3
  <2> QED
    BY <1>5, <2>1 DEF CacheInv, NoStrayPointers
<1> QED
  BY <1>5, <1>8, <1>13, <1>14, <1>15, <1>16 DEF CacheInv, OldestFirst

LEMMA ListAdded ==
    ASSUME TypeInv, OwnedOnce, CacheInv, NEW b \in Buffers \ Cached, RecycleToCache(b),
           size' = size
    PROVE  /\ CacheInv'
           /\ next' \in [Buffers -> Buffers \cup {Null}]
           /\ prev' \in [Buffers -> Buffers \cup {Null}]
           /\ head' \in Buffers \cup {Null} /\ tail' \in Buffers \cup {Null}
<1>0. PICK n, p : n = Len(pool) /\ p = UpTo(size[b]) + 1
  OBVIOUS
<1>1. /\ p \in 1..(n + 1) /\ n \in Nat /\ DOMAIN pool = 1..n /\ Len(pool') = n + 1
      /\ DOMAIN pool' = 1..(n + 1) /\ Cached' = Cached \cup {b} /\ Cached \in SUBSET Buffers
      /\ \A i \in 1..(n + 1) :
            pool'[i] = IF i < p THEN pool[i] ELSE IF i = p THEN b ELSE pool[i - 1]
      /\ \A i \in 1..n : pool[i] \in Cached
      /\ \A i \in 1..n : i < p <=> size[pool[i]] <= size[b]
  <2>1. /\ p \in 1..(n + 1)
        /\ Filed(b) \in Seq(Buffers) /\ Len(Filed(b)) = n + 1
        /\ \A i \in 1..(n + 1) :
              Filed(b)[i] = IF i < p THEN pool[i] ELSE IF i = p THEN b ELSE pool[i - 1]
        /\ Range(Filed(b)) = Cached \cup {b}
        /\ \A i \in 1..n : i < p <=> size[pool[i]] <= size[b]
    BY <1>0, PoolAdd DEF CacheInv
  <2>2. pool' = Filed(b)
    BY DEF RecycleToCache
  <2>3. n \in Nat /\ DOMAIN pool = 1..n /\ \A i \in 1..n : pool[i] \in Cached
    BY <1>0, PoolIndices
  <2> QED
    BY <2>1, <2>2, <2>3, PoolIndices DEF Cached
<1>2. PICK L \in Orders : IsList(L) /\ Aged(L)
  BY DEF CacheInv, OldestFirst
<1>3. /\ \A i \in 1..n : L[i] \in Cached /\ L[i] \in Buffers /\ L[i] # Null /\ L[i] # b
      /\ \A c \in Cached : \E i \in 1..n : L[i] = c
      /\ \A i, j \in 1..n : L[i] = L[j] => i = j
      /\ \A i \in 1..n : /\ prev[L[i]] = IF i = 1 THEN Null ELSE L[i - 1]
                         /\ next[L[i]] = IF i = n THEN Null ELSE L[i + 1]
      /\ n > 0 => head = L[1] /\ tail = L[n]
      /\ n = 0 => head = Null
      /\ DOMAIN L = 1..n
  BY <1>0, <1>2, ListFacts DEF IsList
<1>4. prev[b] = Null /\ next[b] = Null /\ b \in Buffers /\ b # Null
  BY AllocatorAssumption DEF CacheInv, NoStrayPointers
<1>5. /\ \A c \in Buffers :
           next'[c] = IF c = b THEN (IF n = 0 THEN Null ELSE L[1]) ELSE next[c]
      /\ \A c \in Buffers :
           prev'[c] = IF n > 0 /\ c = L[1] THEN b ELSE prev[c]
      /\ head' = b
      /\ tail' = IF n = 0 THEN b ELSE L[n]
      /\ next' \in [Buffers -> Buffers \cup {Null}]
      /\ prev' \in [Buffers -> Buffers \cup {Null}]
      /\ head' \in Buffers \cup {Null} /\ tail' \in Buffers \cup {Null}
  <2>1. /\ prev \in [Buffers -> Buffers \cup {Null}] /\ next \in [Buffers -> Buffers \cup {Null}]
    BY DEF TypeInv
  <2>2. AddAtHead(b)
    BY DEF RecycleToCache
  <2>3. CASE n = 0
    <3>1. head' = b /\ tail' = b /\ prev' = prev /\ next' = next
      BY <1>3, <2>2, <2>3 DEF AddAtHead
    <3> QED
      BY <1>4, <2>1, <2>3, <3>1
  <2>4. CASE n > 0
    <3>1. L[1] \in Buffers /\ L[1] # Null /\ L[1] # b /\ head = L[1] /\ tail = L[n] /\ L[n] \in Buffers
      BY <1>1, <1>3, <2>4
    <3>2. /\ head' = b /\ tail' = tail
          /\ prev' = [prev EXCEPT ![L[1]] = b] /\ next' = [next EXCEPT ![b] = L[1]]
      BY <2>2, <3>1 DEF AddAtHead
    <3> QED
      BY <1>4, <2>1, <2>4, <3>1, <3>2
  <2> QED
    BY <1>1, <2>3, <2>4
<1>6. PICK M : M = [i \in 1..(n + 1) |-> IF i = 1 THEN b ELSE L[i - 1]]
  OBVIOUS
<1>7. /\ M[1] = b
      /\ \A i \in 2..(n + 1) : i - 1 \in 1..n /\ M[i] = L[i - 1] /\ M[i] \in Cached /\ M[i] # b
      /\ \A i \in 1..n : M[i + 1] = L[i]
  BY <1>1, <1>3, <1>6
<1>8. M \in [1..(n + 1) -> Cached \cup {b}]
  BY <1>1, <1>3, <1>6
<1>9. M \in Orders'
  BY <1>1, <1>8 DEF Orders
<1>10. {M[i] : i \in 1..(n + 1)} = Cached \cup {b}
  <2>1. ASSUME NEW c \in Cached PROVE \E i \in 1..(n + 1) : M[i] = c
    <3>1. PICK i \in 1..n : L[i] = c
      BY <1>3
    <3>2. i + 1 \in 1..(n + 1) /\ M[i + 1] = c
      BY <1>1, <1>7, <3>1
    <3> QED
      BY <3>2
  <2>2. 1 \in 1..(n + 1)
    BY <1>1
  <2> QED
    BY <1>7, <1>8, <2>1, <2>2
<1>11. ASSUME NEW i \in 1..(n + 1), NEW j \in 1..(n + 1), M[i] = M[j] PROVE i = j
  <2>1. CASE i = 1 \/ j = 1
    BY <1>1, <1>7, <1>11, <2>1
  <2>2. CASE i # 1 /\ j # 1
    <3>1. i - 1 \in 1..n /\ j - 1 \in 1..n /\ L[i - 1] = L[j - 1]
      BY <1>1, <1>7, <1>11, <2>2
    <3>2. i - 1 = j - 1
      BY <1>3, <3>1
    <3> QED
      BY <1>1, <3>2
  <2> QED
    BY <2>1, <2>2
<1>12. head' = M[1] /\ tail' = M[n + 1] /\ n + 1 # 0
  BY <1>1, <1>5, <1>7
<1>13. ASSUME NEW i \in 1..(n + 1)
       PROVE  /\ prev'[M[i]] = IF i = 1 THEN Null ELSE M[i - 1]
              /\ next'[M[i]] = IF i = n + 1 THEN Null ELSE M[i + 1]
  <2>1. CASE i = 1
    <3>1. prev'[b] = Null
      BY <1>1, <1>3, <1>4, <1>5
    <3>2. next'[b] = IF n = 0 THEN Null ELSE L[1]
      BY <1>4, <1>5
    <3>3. n # 0 => M[2] = L[1]
      BY <1>1, <1>7
    <3> QED
      BY <1>1, <1>7, <2>1, <3>1, <3>2, <3>3
  <2>2. CASE i > 1
    <3>0. PICK x : x = i - 1
      OBVIOUS
    <3>1. x \in 1..n /\ M[i] = L[x] /\ L[x] \in Buffers /\ L[x] # b /\ n > 0 /\ 1 \in 1..n
      BY <1>1, <1>3, <1>7, <2>2, <3>0
    <3>2. L[x] = L[1] <=> x = 1
      BY <1>3, <3>1
    <3>3. prev'[L[x]] = IF x = 1 THEN b ELSE L[x - 1]
      <4>1. prev[L[x]] = IF x = 1 THEN Null ELSE L[x - 1]
        BY <1>3, <3>1
      <4>2. prev'[L[x]] = IF n > 0 /\ L[x] = L[1] THEN b ELSE prev[L[x]]
        BY <1>5, <3>1
      <4> QED
        BY <3>1, <3>2, <4>1, <4>2
    <3>4. next'[L[x]] = IF x = n THEN Null ELSE L[x + 1]
      BY <1>3, <1>5, <3>1
    <3>5. x # 1 => M[x] = L[x - 1]
      BY <1>1, <1>7, <3>1
    <3>6. x # n => M[x + 2] = L[x + 1]
      <4>1. x # n => x + 1 \in 1..n /\ (x + 1) + 1 = x + 2
        BY <1>1, <3>1
      <4> QED
        BY <1>7, <4>1
    <3>7. i = x + 1 /\ i - 1 = x /\ i + 1 = x + 2
      BY <3>0
    <3> QED
      BY <1>1, <1>7, <3>1, <3>3, <3>4, <3>5, <3>6, <3>7
  <2> QED
    BY <2>1, <2>2
<1>14. IsList(M)'
  BY <1>1, <1>10, <1>11, <1>12, <1>13 DEF IsList
<1>15. \A i \in 1..(n + 1) : i # p => /\ (IF i < p THEN i ELSE i - 1) \in 1..n
                                      /\ pool'[i] = pool[IF i < p THEN i ELSE i - 1]
  BY <1>1
<1>16. PoolSorted'
  <2> SUFFICES ASSUME NEW i \in 1..(n + 1), NEW j \in 1..(n + 1), i < j
               PROVE  size[pool'[i]] <= size[pool'[j]]
    BY <1>1 DEF PoolSorted
  <2>1. \A k \in 1..n : size[pool[k]] \in Nat
    BY <1>1 DEF TypeInv
  <2>2. \A k, m \in 1..n : k < m => size[pool[k]] <= size[pool[m]]
    BY <1>1 DEF CacheInv, PoolSorted
  <2>3. CASE i = p
    <3>1. j - 1 \in 1..n /\ ~(j - 1 < p) /\ pool'[i] = b /\ pool'[j] = pool[j - 1]
      BY <1>1, <2>3
    <3> QED
      BY <1>1, <1>4, <2>1, <3>1 DEF TypeInv
  <2>4. CASE j = p
    BY <1>1, <2>4
  <2>5. CASE i # p /\ j # p
    <3> DEFINE of(x) == IF x < p THEN x ELSE x - 1
    <3>1. /\ of(i) \in 1..n /\ of(j) \in 1..n /\ of(i) < of(j)
          /\ pool'[i] = pool[of(i)] /\ pool'[j] = pool[of(j)]
      BY <1>1, <1>15, <2>5
    <3> HIDE DEF of
    <3> QED
      BY <2>2, <3>1
  <2> QED
    BY <2>3, <2>4, <2>5
<1>17. Aged(M)'
  <2> SUFFICES ASSUME NEW i \in 1..(n + 1), NEW j \in 1..(n + 1), i < j,
                      size[pool'[i]] = size[pool'[j]]
               PROVE  \E u, v \in 1..(n + 1) : M[u] = pool'[i] /\ M[v] = pool'[j] /\ v < u
    <3>1. DOMAIN M = 1..(n + 1) /\ DOMAIN pool' = 1..(n + 1)
      BY <1>1, <1>8
    <3> QED
      BY <3>1 DEF Aged
  <2>1. CASE i = p
    <3>1. j - 1 \in 1..n /\ ~(j - 1 < p) /\ pool'[i] = b /\ pool'[j] = pool[j - 1]
      BY <1>1, <2>1
    <3>2. size[b] \in Nat /\ size[pool[j - 1]] = size[b]
      BY <1>4, <3>1 DEF TypeInv
    <3> QED
      BY <1>1, <3>1, <3>2
  <2>2. CASE j = p
    <3>1. i \in 1..n /\ pool'[i] \in Cached /\ pool'[j] = b
      BY <1>1, <2>2
    <3>2. PICK u \in 1..n : L[u] = pool'[i]
      BY <1>3, <3>1
    <3>3. u + 1 \in 1..(n + 1) /\ 1 \in 1..(n + 1) /\ 1 < u + 1 /\ M[u + 1] = pool'[i] /\ M[1] = pool'[j]
      BY <1>1, <1>7, <3>1, <3>2
    <3> QED
      BY <3>3
  <2>3. CASE i # p /\ j # p
    <3> DEFINE of(x) == IF x < p THEN x ELSE x - 1
    <3>1. /\ of(i) \in 1..n /\ of(j) \in 1..n /\ of(i) < of(j)
          /\ pool'[i] = pool[of(i)] /\ pool'[j] = pool[of(j)]
      BY <1>1, <1>15, <2>3
    <3>2. PICK u \in 1..n, v \in 1..n : L[u] = pool[of(i)] /\ L[v] = pool[of(j)] /\ v < u
      <4>1. DOMAIN L = 1..n /\ DOMAIN pool = 1..n /\ Aged(L)
        BY <1>1, <1>2, <1>3
      <4>2. size[pool[of(i)]] = size[pool[of(j)]]
        BY <3>1
      <4> HIDE DEF of
      <4> QED
        BY <3>1, <4>1, <4>2, Zenon DEF Aged
    <3> HIDE DEF of
    <3>3. /\ u + 1 \in 1..(n + 1) /\ v + 1 \in 1..(n + 1) /\ v + 1 < u + 1
          /\ M[u + 1] = pool'[i] /\ M[v + 1] = pool'[j]
      <4>1. u + 1 \in 1..(n + 1) /\ v + 1 \in 1..(n + 1) /\ v + 1 < u + 1
        BY <1>1, <3>2
      <4>2. M[u + 1] = L[u] /\ M[v + 1] = L[v]
        BY <1>7
      <4> QED
        BY <3>1, <3>2, <4>1, <4>2
    <3> QED
      BY <3>3
  <2> QED
    BY <2>1, <2>2, <2>3
<1>18. NoStrayPointers'
  <2> SUFFICES ASSUME NEW c \in Buffers, c \notin Cached, c # b
               PROVE  prev'[c] = Null /\ next'[c] = Null
    BY <1>1 DEF NoStrayPointers
  <2>1. n > 0 => L[1] \in Cached
    BY <1>1, <1>3
  <2> QED
    BY <1>5, <2>1 DEF CacheInv, NoStrayPointers
<1> QED
  BY <1>5, <1>9, <1>14, <1>16, <1>17, <1>18 DEF CacheInv, OldestFirst

LEMMA ListCleared ==
    ASSUME Clear
    PROVE  CacheInv' /\ Cached' = {} /\ pool' \in Seq(Buffers)
<1>1. /\ pool' = <<>> /\ head' = Null /\ tail' = Null
      /\ prev' = [b \in Buffers |-> Null] /\ next' = [b \in Buffers |-> Null]
  BY DEF Clear
<1>2. Cached' = {} /\ DOMAIN pool' = {} /\ Len(pool') = 0 /\ 1..0 = {}
  BY <1>1 DEF Cached, Range
<1>3. PoolSorted' /\ NoStrayPointers'
  BY <1>1, <1>2 DEF PoolSorted, NoStrayPointers
<1>4. PICK M : M = [i \in 1..0 |-> Null]
  OBVIOUS
<1>5. M \in Orders' /\ DOMAIN M = {}
  BY <1>2, <1>4 DEF Orders
<1>6. IsList(M)' /\ Aged(M)'
  BY <1>1, <1>2, <1>5 DEF IsList, Aged
<1> QED
  BY <1>1, <1>2, <1>3, <1>5, <1>6 DEF CacheInv, OldestFirst

(* Nothing of the cache changes. *)
LEMMA ListKept ==
    ASSUME TypeInv, CacheInv, UNCHANGED <<pool, listVars>>, \A c \in Cached : size'[c] = size[c]
    PROVE  CacheInv'
<1>1. Cached' = Cached /\ Orders' = Orders
  BY DEF Cached, Orders
<1>2. \A i \in DOMAIN pool : pool[i] \in Cached
  BY PoolIndices
<1>3. PoolSorted' /\ NoStrayPointers'
  BY <1>1, <1>2 DEF CacheInv, PoolSorted, NoStrayPointers, listVars
<1>4. PICK L \in Orders : IsList(L) /\ Aged(L)
  BY DEF CacheInv, OldestFirst
<1>5. IsList(L)'
  BY <1>1, <1>4 DEF IsList, listVars
<1>6. Aged(L)'
  BY <1>2, <1>4 DEF Aged
<1> QED
  BY <1>1, <1>3, <1>4, <1>5, <1>6 DEF CacheInv, OldestFirst

-----------------------------------------------------------------------------
(* Ownership, block by block *)

Owners ==
    /\ \A i, j \in DOMAIN pool : pool[i] = pool[j] => i = j
    /\ \A t \in Threads : buf[t] # Null => buf[t] \notin unused \cup held \cup Cached
    /\ \A t, u \in Threads : t # u /\ buf[t] # Null => buf[t] # buf[u]
    /\ \A b \in Buffers : /\ ~(b \in unused /\ b \in held) /\ ~(b \in unused /\ b \in Cached)
                          /\ ~(b \in held /\ b \in Cached)
                          /\ b \in unused \cup held \cup Cached \/ \E t \in Threads : buf[t] = b

LEMMA OwnersEnough ==
    ASSUME TypeInv
    PROVE  OwnedOnce <=> Owners
<1>1. /\ unused \subseteq Buffers /\ held \subseteq Buffers /\ Cached \subseteq Buffers
      /\ \A t \in Threads : buf[t] \in Buffers \cup {Null}
      /\ Null \notin Buffers
  BY PoolIndices, AllocatorAssumption DEF TypeInv
<1>2. \A t \in Threads : InHand(t) = IF buf[t] = Null THEN {} ELSE {buf[t]}
  BY DEF InHand
<1>3. ASSUME OwnedOnce PROVE Owners
  <2> USE <1>3 DEF OwnedOnce
  <2>1. ASSUME NEW t \in Threads, buf[t] # Null
        PROVE  /\ buf[t] \notin unused \cup held \cup Cached
               /\ \A u \in Threads : t # u => buf[t] # buf[u]
    BY <1>2, <2>1
  <2>2. ASSUME NEW b \in Buffers, b \notin unused \cup held \cup Cached
        PROVE  \E t \in Threads : buf[t] = b
    BY <1>1, <1>2, <2>2
  <2>3. unused \cap held = {} /\ unused \cap Cached = {} /\ held \cap Cached = {}
    OBVIOUS
  <2>4. \A i, j \in DOMAIN pool : pool[i] = pool[j] => i = j
    OBVIOUS
  <2> QED
    BY <2>1, <2>2, <2>3, <2>4 DEF Owners
<1>4. ASSUME Owners PROVE OwnedOnce
  <2> USE <1>4 DEF Owners
  <2>1. \A t \in Threads :
           /\ InHand(t) \cap (unused \cup held \cup Cached) = {}
           /\ \A u \in Threads \ {t} : InHand(t) \cap InHand(u) = {}
    BY <1>2
  <2>2. unused \cap held = {} /\ unused \cap Cached = {} /\ held \cap Cached = {}
    BY <1>1
  <2>3. unused \cup held \cup Cached \cup UNION {InHand(t) : t \in Threads} = Buffers
    <3>1. \A t \in Threads : InHand(t) \subseteq Buffers
      BY <1>1, <1>2
    <3>2. ASSUME NEW b \in Buffers, b \notin unused \cup held \cup Cached
          PROVE  b \in UNION {InHand(t) : t \in Threads}
      <4>1. PICK t \in Threads : buf[t] = b
        BY <3>2
      <4>2. b \in InHand(t)
        BY <1>1, <1>2, <4>1
      <4> QED
        BY <4>2
    <3> QED
      BY <1>1, <3>1, <3>2
  <2> QED
    BY <2>1, <2>2, <2>3 DEF OwnedOnce
<1> QED
  BY <1>3, <1>4

LEMMA LeaveFacts ==
    ASSUME TypeInv, NEW t \in Threads, NEW place \in Pcs, NEW n \in Int,
           NEW b \in Buffers \cup {Null}, Leave(t, place, n, b)
    PROVE  /\ pc'[t] = place /\ want'[t] = n /\ buf'[t] = b
           /\ pc' \in [Threads -> Pcs] /\ want' \in [Threads -> Int]
           /\ buf' \in [Threads -> Buffers \cup {Null}]
           /\ \A u \in Threads \ {t} : pc'[u] = pc[u] /\ want'[u] = want[u] /\ buf'[u] = buf[u]
  BY DEF Leave, TypeInv

LEMMA TotalsTyped ==
    ASSUME TypeInv
    PROVE  /\ Total(Cached) = TotalOf(size, Cached) /\ Total(held) = TotalOf(size, held)
           /\ Total(Cached)' = TotalOf(size', Cached') /\ Total(held)' = TotalOf(size', held')
           /\ Total(Cached) \in Nat /\ Total(held) \in Nat
           /\ Cached \in SUBSET Buffers /\ held \in SUBSET Buffers /\ size \in [Buffers -> Nat]
<1>1. /\ Cached \in SUBSET Buffers /\ held \in SUBSET Buffers /\ size \in [Buffers -> Nat]
  BY PoolIndices DEF TypeInv
<1>2. /\ Total(Cached) = TotalOf(size, Cached) /\ Total(held) = TotalOf(size, held)
      /\ Total(Cached)' = TotalOf(size', Cached') /\ Total(held)' = TotalOf(size', held')
  BY DEF Total, Bytes, TotalOf, BytesOf
<1> QED
  BY <1>1, <1>2, BytesFinite

-----------------------------------------------------------------------------
(* The steps *)

(* A call moves on without touching a block, the cache or a counter.        *)
LEMMA MovedOn ==
    ASSUME AllocInv, NEW t \in Threads, lock = Null \/ lock # t, buf[t] = Null, pc[t] # "release",
           NEW place \in {"idle", "allocate", "setLimit", "clear"}, NEW n \in Nat,
           Leave(t, place, n, Null),
           UNCHANGED <<lockVars, ownVars, active, cacheLimit, cacheVars>>
    PROVE  AllocInv'
<1> USE DEF AllocInv
<1>1. UNCHANGED <<lock, freed, size, unused, held, failures, active, cacheLimit, poolSize, pool,
                  head, tail, prev, next>>
  BY DEF lockVars, ownVars, cacheVars, listVars
<1>2. /\ pc'[t] = place /\ want'[t] = n /\ buf'[t] = Null
      /\ pc' \in [Threads -> Pcs] /\ want' \in [Threads -> Int]
      /\ buf' \in [Threads -> Buffers \cup {Null}]
      /\ \A u \in Threads \ {t} : pc'[u] = pc[u] /\ want'[u] = want[u] /\ buf'[u] = buf[u]
  <2>1. place \in Pcs /\ n \in Int
    BY DEF Pcs
  <2> QED
    BY <2>1, LeaveFacts
<1>3. TypeInv'
  BY <1>1, <1>2 DEF TypeInv
<1>4. CallInv'
  BY <1>1, <1>2 DEF CallInv, CallOK
<1>5. Cached' = Cached /\ \A u \in Threads : buf'[u] = buf[u]
  BY <1>1, <1>2 DEF Cached
<1>6. Owners'
  <2>1. Owners
    BY OwnersEnough
  <2> QED
    BY <1>1, <1>5, <2>1 DEF Owners
<1>7. OwnedOnce'
  BY <1>3, <1>6, OwnersEnough, PTL
<1>8. CacheInv'
  BY <1>1, ListKept DEF listVars
<1>9. CountInv'
  BY <1>1, <1>5, TotalsTyped DEF CountInv, ActiveCoversHeld, ActiveExact
<1> QED
  BY <1>3, <1>4, <1>7, <1>8, <1>9

LEMMA InitAlloc == ASSUME Init PROVE AllocInv
<1>1. TypeInv
  BY AllocatorAssumption DEF Init, TypeInv, Pcs
<1>2. CallInv
  BY AllocatorAssumption DEF Init, CallInv, CallOK
<1>3. Cached = {} /\ DOMAIN pool = {} /\ Len(pool) = 0 /\ 1..0 = {}
  BY DEF Init, Cached, Range
<1>4. OwnedOnce
  <2>1. Owners
    BY <1>3 DEF Init, Owners
  <2> QED
    BY <1>1, <2>1, OwnersEnough
<1>5. CacheInv
  <2>1. PoolSorted /\ NoStrayPointers
    BY <1>3 DEF PoolSorted, NoStrayPointers, Init
  <2>2. PICK M : M = [i \in 1..0 |-> Null]
    OBVIOUS
  <2>3. M \in Orders /\ DOMAIN M = {}
    BY <1>3, <2>2 DEF Orders
  <2>4. IsList(M) /\ Aged(M)
    BY <1>3, <2>3 DEF IsList, Aged, Init
  <2> QED
    BY <2>1, <2>3, <2>4 DEF CacheInv, OldestFirst
<1>6. CountInv
  <2>1. TotalOf(size, Cached) = 0 /\ TotalOf(size, held) = 0
    BY <1>3, TotalEmpty DEF Init
  <2> QED
    BY <1>1, <2>1, TotalsTyped DEF CountInv, ActiveCoversHeld, ActiveExact, Init, TypeInv
<1> QED
  BY <1>1, <1>2, <1>4, <1>5, <1>6 DEF AllocInv

LEMMA ReuseKeeps ==
    ASSUME AllocInv, NEW t \in Threads, NEW n \in Sizes, MallocCached(t, n)
    PROVE  AllocInv'
<1> USE DEF AllocInv
<1>1. PICK b : b = Reusable(n)
  OBVIOUS
<1>2. b \in Cached /\ b \in Buffers
  <2>1. b # Null /\ b = pool[Below(n) + 1] /\ Below(n) # Len(pool)
    BY <1>1 DEF MallocCached, Reusable, Closest
  <2>2. Below(n) \in Nat /\ Below(n) <= Len(pool)
    <3>1. {i \in DOMAIN pool : size[pool[i]] < n} \in SUBSET (1..Len(pool))
      BY PoolIndices
    <3>2. /\ Len(pool) \in Nat /\ IsFiniteSet(1..Len(pool))
          /\ Cardinality(1..Len(pool)) = Len(pool)
      <4>1. Len(pool) \in Nat
        BY PoolIndices
      <4> QED
        BY <4>1, IntervalSize
    <3>3. /\ IsFiniteSet({i \in DOMAIN pool : size[pool[i]] < n})
          /\ Below(n) <= Len(pool)
      BY <3>1, <3>2, FS_Subset DEF Below
    <3> QED
      BY <3>3, FS_CardinalityType DEF Below
  <2>3. Below(n) + 1 \in 1..Len(pool)
    BY <2>1, <2>2, PoolIndices
  <2> QED
    BY <2>1, <2>3, PoolIndices
<1>3. /\ lock = Null /\ poolSize' = poolSize - size[b] /\ pool' = Without(b) /\ RemoveFromList(b)
      /\ held' = held \cup {b} /\ active' = active + size[b]
      /\ UNCHANGED <<pc, want, buf, lock, freed, size, unused, failures, cacheLimit>>
  BY <1>1 DEF MallocCached, Count, callVars, lockVars
<1>4. /\ pool' \in Seq(Buffers) /\ Cached' = Cached \ {b}
      /\ \A i, j \in DOMAIN pool' : pool'[i] = pool'[j] => i = j
  BY <1>2, <1>3, PoolRemove DEF Cached
<1>5. /\ CacheInv'
      /\ next' \in [Buffers -> Buffers \cup {Null}] /\ prev' \in [Buffers -> Buffers \cup {Null}]
      /\ head' \in Buffers \cup {Null} /\ tail' \in Buffers \cup {Null}
  BY <1>2, <1>3, ListRemoved
<1>6. size[b] \in Nat /\ active \in Int /\ poolSize \in Int
  BY <1>2 DEF TypeInv
<1>7. TypeInv'
  <2>1. active' \in Int /\ poolSize' \in Int /\ held' \subseteq Buffers
    BY <1>2, <1>3, <1>6 DEF TypeInv
  <2> QED
    BY <1>3, <1>4, <1>5, <2>1 DEF TypeInv
<1>8. CallInv'
  BY <1>3, AllocatorAssumption DEF CallInv, CallOK
<1>9. OwnedOnce'
  <2>1. Owners
    BY OwnersEnough
  <2>2. Owners'
    BY <1>2, <1>3, <1>4, <2>1 DEF Owners
  <2> QED
    BY <1>7, <2>2, OwnersEnough, PTL
<1>10. CountInv'
  <2>1. b \notin held
    BY <1>2 DEF OwnedOnce
  <2>2. /\ Total(Cached)' = Total(Cached) - size[b]
        /\ Total(held)' = Total(held) + size[b]
    <3>1. TotalOf(size, Cached \ {b}) = TotalOf(size, Cached) - size[b]
      BY <1>2, TotalsTyped, TotalRemove
    <3>2. TotalOf(size, held \cup {b}) = TotalOf(size, held) + size[b]
      BY <1>2, <2>1, TotalsTyped, TotalAdd
    <3> QED
      BY <1>3, <1>4, <3>1, <3>2, TotalsTyped
  <2>3. Total(Cached) \in Nat /\ Total(held) \in Nat
    BY TotalsTyped
  <2>4. freed = 0
    BY <1>3 DEF CallInv
  <2> QED
    BY SMTT(20), <1>3, <1>6, <2>2, <2>3, <2>4 DEF CountInv, ActiveCoversHeld, ActiveExact, TypeInv
<1> QED
  BY <1>5, <1>7, <1>8, <1>9, <1>10

LEMMA MallocKeeps ==
    ASSUME AllocInv, NEW t \in Threads, StdMalloc(t)
    PROVE  AllocInv'
<1> USE DEF AllocInv
<1>1. PICK b \in Buffers \cup {Null} :
        /\ pc[t] = "allocate" /\ Leave(t, "count", want[t], b)
        /\ \/ /\ b \in unused /\ unused' = unused \ {b} /\ size' = [size EXCEPT ![b] = want[t]]
              /\ failures' = failures
           \/ /\ b = Null /\ failures' = failures + 1 /\ unused' = unused /\ size' = size
        /\ UNCHANGED <<lock, freed, held, active, cacheLimit, poolSize, pool, head, tail, prev, next>>
  <2>1. unused \subseteq Buffers
    BY DEF TypeInv
  <2> QED
    BY <2>1 DEF StdMalloc, lockVars, countVars, cacheVars, listVars
<1>2. /\ want[t] \in Nat /\ buf[t] = Null /\ lock # t
  BY <1>1 DEF CallInv, CallOK
<1>3. /\ pc'[t] = "count" /\ want'[t] = want[t] /\ buf'[t] = b
      /\ pc' \in [Threads -> Pcs] /\ want' \in [Threads -> Int]
      /\ buf' \in [Threads -> Buffers \cup {Null}]
      /\ \A u \in Threads \ {t} : pc'[u] = pc[u] /\ want'[u] = want[u] /\ buf'[u] = buf[u]
  <2>1. "count" \in Pcs /\ want[t] \in Int
    BY <1>2 DEF Pcs
  <2> QED
    BY <1>1, <2>1, LeaveFacts
<1>4. TypeInv'
  BY <1>1, <1>2, <1>3 DEF TypeInv
<1>5. Owners
  BY OwnersEnough
<1>6. /\ Cached' = Cached /\ Cached \subseteq Buffers /\ size \in [Buffers -> Nat]
      /\ b \in unused => b \in Buffers /\ b # Null
  BY <1>1, AllocatorAssumption, PoolIndices DEF Cached, TypeInv
<1>7. \A c \in Buffers : c # b => size'[c] = size[c]
  BY <1>1, <1>6
<1>8. b # Null => b \in unused /\ b \notin held \cup Cached /\ \A u \in Threads : buf[u] # b
  BY <1>1, <1>5, <1>6 DEF Owners
<1>9. CallInv'
  <2>1. CallOK(t)'
    BY <1>1, <1>2, <1>3, <1>6 DEF CallInv, CallOK, TypeInv
  <2>2. ASSUME NEW u \in Threads \ {t} PROVE CallOK(u)'
    <3>1. CallOK(u) /\ buf[u] \in Buffers \cup {Null}
      BY DEF CallInv, TypeInv
    <3>2. buf[u] # Null => size'[buf[u]] = size[buf[u]]
      BY <1>1, <1>7, <1>8, <3>1
    <3>3. failures > 0 => failures' > 0
      BY <1>1 DEF TypeInv
    <3> QED
      BY <1>1, <1>3, <3>1, <3>2, <3>3 DEF CallOK
  <2>3. lock' = Null => freed' = 0
    BY <1>1 DEF CallInv
  <2> QED
    BY <2>1, <2>2, <2>3 DEF CallInv
<1>10. OwnedOnce'
  <2>1. Owners'
    <3>0. \A u \in Threads \ {t} : buf'[u] = buf[u]
      BY <1>3
    <3>1. \A i, j \in DOMAIN pool' : pool'[i] = pool'[j] => i = j
      BY <1>1, <1>5 DEF Owners
    <3>2. unused' = unused \ {b} /\ held' = held
      BY <1>1, <1>6, AllocatorAssumption DEF TypeInv
    <3>3. \A u \in Threads : buf'[u] # Null => buf'[u] \notin unused' \cup held' \cup Cached'
      BY <1>3, <1>5, <1>6, <1>8, <3>0, <3>2 DEF Owners
    <3>4. \A u, v \in Threads : u # v /\ buf'[u] # Null => buf'[u] # buf'[v]
      BY <1>3, <1>5, <1>8, <3>0 DEF Owners
    <3>5. ASSUME NEW c \in Buffers
          PROVE  /\ ~(c \in unused' /\ c \in held') /\ ~(c \in unused' /\ c \in Cached')
                 /\ ~(c \in held' /\ c \in Cached')
                 /\ c \in unused' \cup held' \cup Cached' \/ \E u \in Threads : buf'[u] = c
      <4>1. /\ ~(c \in unused /\ c \in held) /\ ~(c \in unused /\ c \in Cached)
            /\ ~(c \in held /\ c \in Cached)
            /\ c \in unused \cup held \cup Cached \/ \E u \in Threads : buf[u] = c
        BY <1>5 DEF Owners
      <4>2. ASSUME NEW u \in Threads, buf[u] = c PROVE buf'[u] = c
        BY <1>2, <3>0, <4>2, AllocatorAssumption
      <4>3. buf'[t] = b
        BY <1>3
      <4> QED
        BY <1>6, <3>2, <4>1, <4>2, <4>3
    <3> QED
      BY <3>1, <3>3, <3>4, <3>5 DEF Owners
  <2> QED
    BY <1>4, <2>1, OwnersEnough, PTL
<1>11. (\A c \in Cached : size'[c] = size[c]) /\ (\A c \in held : size'[c] = size[c])
  BY <1>1, <1>6, <1>7, <1>8 DEF TypeInv
<1>12. CacheInv'
  BY <1>1, <1>11, ListKept DEF listVars
<1>13. CountInv'
  <2>1. TotalOf(size', Cached) = TotalOf(size, Cached) /\ TotalOf(size', held) = TotalOf(size, held)
    BY <1>11, TotalSame
  <2>2. failures' = 0 => failures = 0
    BY <1>1 DEF TypeInv
  <2> QED
    BY <1>1, <1>6, <2>1, <2>2, TotalsTyped DEF CountInv, ActiveCoversHeld, ActiveExact
<1> QED
  BY <1>4, <1>9, <1>10, <1>12, <1>13

LEMMA CountKeeps ==
    ASSUME AllocInv, NEW t \in Threads, MallocCount(t)
    PROVE  AllocInv'
<1> USE DEF AllocInv
<1>1. /\ pc[t] = "count" /\ lock = Null /\ active' = active + want[t]
      /\ held' = held \cup ({buf[t]} \ {Null}) /\ Leave(t, "idle", 0, Null)
      /\ UNCHANGED <<lock, freed, size, unused, failures, cacheLimit, poolSize, pool, head, tail,
                     prev, next>>
  BY DEF MallocCount, Count, lockVars, cacheVars, listVars
<1>2. /\ want[t] \in Nat /\ freed = 0
      /\ IF buf[t] = Null THEN failures > 0 ELSE size[buf[t]] = want[t]
  BY <1>1 DEF CallInv, CallOK
<1>3. /\ pc'[t] = "idle" /\ want'[t] = 0 /\ buf'[t] = Null
      /\ pc' \in [Threads -> Pcs] /\ want' \in [Threads -> Int]
      /\ buf' \in [Threads -> Buffers \cup {Null}]
      /\ \A u \in Threads \ {t} : pc'[u] = pc[u] /\ want'[u] = want[u] /\ buf'[u] = buf[u]
  BY <1>1, LeaveFacts DEF Pcs
<1>4. buf[t] \in Buffers \cup {Null} /\ active \in Int
  BY DEF TypeInv
<1>5. TypeInv'
  BY <1>1, <1>2, <1>3, <1>4 DEF TypeInv
<1>6. CallInv'
  BY <1>1, <1>2, <1>3, AllocatorAssumption DEF CallInv, CallOK
<1>7. Owners /\ Cached' = Cached
  BY <1>1, OwnersEnough DEF Cached
<1>8. OwnedOnce'
  <2>1. Owners'
    BY <1>1, <1>3, <1>4, <1>7 DEF Owners
  <2> QED
    BY <1>5, <2>1, OwnersEnough, PTL
<1>9. CacheInv'
  BY <1>1, ListKept DEF listVars
<1>10. CountInv'
  <2>1. Total(Cached)' = Total(Cached) /\ Total(held) \in Nat
    BY <1>1, <1>7, TotalsTyped
  <2>2. CASE buf[t] = Null
    <3>1. held' = held /\ Total(held)' = Total(held)
      BY <1>1, <2>2, TotalsTyped
    <3> QED
      BY <1>1, <1>2, <1>4, <2>1, <2>2, <3>1 DEF CountInv, ActiveCoversHeld, ActiveExact, TypeInv
  <2>3. CASE buf[t] # Null
    <3>1. held' = held \cup {buf[t]} /\ buf[t] \in Buffers \ held
      BY <1>1, <1>4, <1>7, <2>3 DEF Owners
    <3>2. Total(held)' = Total(held) + want[t]
      BY <1>1, <1>2, <2>3, <3>1, TotalsTyped, TotalAdd
    <3> QED
      BY <1>1, <1>2, <1>4, <2>1, <3>2 DEF CountInv, ActiveCoversHeld, ActiveExact
  <2> QED
    BY <2>2, <2>3
<1> QED
  BY <1>5, <1>6, <1>8, <1>9, <1>10

LEMMA FreeKeeps ==
    ASSUME AllocInv, NEW t \in Threads, NEW b \in Buffers, Free(t, b)
    PROVE  AllocInv'
<1> USE DEF AllocInv
<1>1. /\ pc[t] = "idle" /\ lock = Null /\ b \in held /\ held' = held \ {b}
      /\ active' = active - size[b]
      /\ UNCHANGED <<lock, freed, size, unused, failures, cacheLimit>>
  BY DEF Free, lockVars
<1>2. /\ Owners /\ b # Null /\ b \notin unused /\ b \notin Cached /\ \A u \in Threads : buf[u] # b
  <2>1. Owners
    BY OwnersEnough
  <2> QED
    BY <1>1, <2>1, AllocatorAssumption DEF Owners
<1>3. /\ freed = 0 /\ buf[t] = Null /\ lock # t
      /\ size[b] \in Nat /\ active \in Int /\ poolSize \in Int
  BY <1>1, AllocatorAssumption DEF CallInv, CallOK, TypeInv
<1>4. Total(held)' = Total(held) - size[b] /\ Total(held) \in Nat /\ Total(Cached) \in Nat
  <2>1. TotalOf(size, held \ {b}) = TotalOf(size, held) - size[b]
    BY <1>1, TotalsTyped, TotalRemove
  <2> QED
    BY <1>1, <2>1, TotalsTyped
<1>5. ActiveCoversHeld'
  BY <1>1, <1>3, <1>4 DEF CountInv, ActiveCoversHeld, ActiveExact
<1>6. CASE Keeps(b)
  <2>1. RecycleToCache(b) /\ UNCHANGED <<pc, want, buf>>
    BY <1>6 DEF Free, callVars
  <2>2. poolSize' = poolSize + size[b] /\ pool' = Filed(b)
    BY <2>1 DEF RecycleToCache
  <2>3. /\ pool' \in Seq(Buffers) /\ Cached' = Cached \cup {b}
        /\ \A i, j \in DOMAIN pool' : pool'[i] = pool'[j] => i = j
    BY <1>2, <2>2, PoolAdd DEF Cached, CacheInv
  <2>4. /\ CacheInv'
        /\ next' \in [Buffers -> Buffers \cup {Null}] /\ prev' \in [Buffers -> Buffers \cup {Null}]
        /\ head' \in Buffers \cup {Null} /\ tail' \in Buffers \cup {Null}
    BY <1>1, <1>2, <2>1, ListAdded
  <2>5. TypeInv'
    <3>1. active' \in Int /\ poolSize' \in Int /\ held' \subseteq Buffers
      BY <1>1, <1>3, <2>2 DEF TypeInv
    <3> QED
      BY <1>1, <2>1, <2>3, <2>4, <3>1 DEF TypeInv
  <2>6. CallInv'
    BY <1>1, <2>1, AllocatorAssumption DEF CallInv, CallOK
  <2>7. OwnedOnce'
    <3>1. Owners'
      BY <1>1, <1>2, <2>1, <2>3 DEF Owners
    <3> QED
      BY <2>5, <3>1, OwnersEnough, PTL
  <2>8. CountInv'
    <3>1. TotalOf(size, Cached \cup {b}) = TotalOf(size, Cached) + size[b]
      BY <1>2, TotalsTyped, TotalAdd
    <3>2. Total(Cached)' = Total(Cached) + size[b]
      BY <1>1, <2>3, <3>1, TotalsTyped
    <3>3. poolSize + size[b] <= cacheLimit
      BY <1>6 DEF Keeps
    <3> QED
      BY <1>1, <1>3, <1>4, <1>5, <2>2, <3>2, <3>3 DEF CountInv
  <2> QED
    BY <2>4, <2>5, <2>6, <2>7, <2>8
<1>7. CASE ~Keeps(b)
  <2>1. /\ Leave(t, "stdFree", 0, b) /\ UNCHANGED <<poolSize, pool, head, tail, prev, next>>
    BY <1>7 DEF Free, cacheVars, listVars
  <2>2. /\ pc'[t] = "stdFree" /\ want'[t] = 0 /\ buf'[t] = b
        /\ pc' \in [Threads -> Pcs] /\ want' \in [Threads -> Int]
        /\ buf' \in [Threads -> Buffers \cup {Null}]
        /\ \A u \in Threads \ {t} : pc'[u] = pc[u] /\ want'[u] = want[u] /\ buf'[u] = buf[u]
    BY <2>1, LeaveFacts DEF Pcs
  <2>3. TypeInv'
    <3>1. active' \in Int /\ held' \subseteq Buffers
      BY <1>1, <1>3 DEF TypeInv
    <3> QED
      BY <1>1, <2>1, <2>2, <3>1 DEF TypeInv
  <2>4. CallInv'
    BY <1>1, <1>2, <1>3, <2>1, <2>2, AllocatorAssumption DEF CallInv, CallOK
  <2>5. Cached' = Cached
    BY <2>1 DEF Cached
  <2>6. OwnedOnce'
    <3>1. Owners'
      <4>1. /\ \A u \in Threads \ {t} : buf'[u] = buf[u]
            /\ unused' = unused /\ pool' = pool
        BY <1>1, <2>1, <2>2
      <4>2. \A i, j \in DOMAIN pool' : pool'[i] = pool'[j] => i = j
        BY <1>2, <4>1 DEF Owners
      <4>3. \A u \in Threads : buf'[u] # Null => buf'[u] \notin unused' \cup held' \cup Cached'
        BY <1>1, <1>2, <2>2, <2>5, <4>1 DEF Owners
      <4>4. \A u, v \in Threads : u # v /\ buf'[u] # Null => buf'[u] # buf'[v]
        BY <1>2, <2>2, <4>1 DEF Owners
      <4>5. ASSUME NEW c \in Buffers
            PROVE  /\ ~(c \in unused' /\ c \in held') /\ ~(c \in unused' /\ c \in Cached')
                   /\ ~(c \in held' /\ c \in Cached')
                   /\ c \in unused' \cup held' \cup Cached' \/ \E u \in Threads : buf'[u] = c
        <5>1. /\ ~(c \in unused /\ c \in held) /\ ~(c \in unused /\ c \in Cached)
              /\ ~(c \in held /\ c \in Cached)
              /\ c \in unused \cup held \cup Cached \/ \E u \in Threads : buf[u] = c
          BY <1>2 DEF Owners
        <5>2. ASSUME NEW u \in Threads, buf[u] = c PROVE buf'[u] = c
          BY <1>3, <4>1, <5>2, AllocatorAssumption
        <5> QED
          BY <1>1, <2>2, <2>5, <4>1, <5>1, <5>2
      <4> QED
        BY <4>2, <4>3, <4>4, <4>5 DEF Owners
    <3> QED
      BY <2>3, <3>1, OwnersEnough, PTL
  <2>7. CacheInv'
    BY <1>1, <2>1, ListKept DEF listVars
  <2>8. CountInv'
    BY <1>1, <1>5, <2>1, <2>5, TotalsTyped DEF CountInv
  <2> QED
    BY <2>3, <2>4, <2>6, <2>7, <2>8
<1> QED
  BY <1>6, <1>7

LEMMA StdFreeKeeps ==
    ASSUME AllocInv, NEW t \in Threads, StdFree(t)
    PROVE  AllocInv'
<1> USE DEF AllocInv
<1>1. PICK b : b = buf[t]
  OBVIOUS
<1>2. /\ pc[t] = "stdFree" /\ Leave(t, "idle", 0, Null)
      /\ unused' = unused \cup {b}
      /\ size' = [c \in Buffers |-> IF c \in {b} THEN 0 ELSE size[c]]
      /\ UNCHANGED <<lock, freed, held, failures, active, cacheLimit, poolSize, pool, head, tail,
                     prev, next>>
  BY <1>1 DEF StdFree, GiveBack, lockVars, countVars, cacheVars, listVars
<1>3. /\ Owners /\ b \in Buffers /\ b # Null /\ b \notin unused \cup held \cup Cached
      /\ \A u \in Threads \ {t} : buf[u] # b
  <2>1. Owners
    BY OwnersEnough
  <2>2. b # Null /\ b \in Buffers
    BY <1>1, <1>2 DEF CallInv, CallOK, TypeInv
  <2> QED
    BY <1>1, <2>1, <2>2 DEF Owners
<1>4. /\ pc'[t] = "idle" /\ want'[t] = 0 /\ buf'[t] = Null
      /\ pc' \in [Threads -> Pcs] /\ want' \in [Threads -> Int]
      /\ buf' \in [Threads -> Buffers \cup {Null}]
      /\ \A u \in Threads \ {t} : pc'[u] = pc[u] /\ want'[u] = want[u] /\ buf'[u] = buf[u]
  BY <1>2, LeaveFacts DEF Pcs
<1>5. \A c \in Buffers \ {b} : size'[c] = size[c]
  BY <1>2
<1>6. TypeInv'
  <2>1. size' \in [Buffers -> Nat] /\ unused' \subseteq Buffers
    BY <1>2, <1>3 DEF TypeInv
  <2> QED
    BY <1>2, <1>4, <2>1 DEF TypeInv
<1>7. CallInv'
  <2>1. CallOK(t)'
    BY <1>2, <1>4 DEF CallInv, CallOK
  <2>2. ASSUME NEW u \in Threads \ {t} PROVE CallOK(u)'
    <3>1. CallOK(u) /\ buf[u] \in Buffers \cup {Null} /\ buf[u] # b
      BY <1>3 DEF CallInv, TypeInv
    <3>2. buf[u] # Null => size'[buf[u]] = size[buf[u]]
      BY <1>5, <3>1
    <3> QED
      BY <1>2, <1>4, <3>1, <3>2 DEF CallOK
  <2> QED
    BY <1>2, <2>1, <2>2 DEF CallInv
<1>8. Cached' = Cached /\ Cached \subseteq Buffers /\ held \subseteq Buffers
  BY <1>2, PoolIndices DEF Cached, TypeInv
<1>9. OwnedOnce'
  <2>1. Owners'
    BY <1>1, <1>2, <1>3, <1>4, <1>8 DEF Owners
  <2> QED
    BY <1>6, <2>1, OwnersEnough, PTL
<1>10. (\A c \in Cached : size'[c] = size[c]) /\ (\A c \in held : size'[c] = size[c])
  BY <1>3, <1>5, <1>8
<1>11. CacheInv'
  BY <1>2, <1>10, ListKept DEF listVars
<1>12. CountInv'
  <2>1. TotalOf(size', Cached) = TotalOf(size, Cached) /\ TotalOf(size', held) = TotalOf(size, held)
    BY <1>10, TotalSame
  <2> QED
    BY <1>2, <1>8, <2>1, TotalsTyped DEF CountInv, ActiveCoversHeld, ActiveExact
<1> QED
  BY <1>6, <1>7, <1>9, <1>11, <1>12

(* clear, whether it was asked for or a new limit leads to it. *)
LEMMA ClearKeeps ==
    ASSUME AllocInv, NEW t \in Threads, lock = Null, pc[t] \in {"setLimit", "clear"},
           Clear, Leave(t, "idle", 0, Null), cacheLimit' \in Nat,
           UNCHANGED <<lockVars, held, failures, active>>
    PROVE  AllocInv'
<1> USE DEF AllocInv
<1>1. /\ unused' = unused \cup Cached
      /\ size' = [c \in Buffers |-> IF c \in Cached THEN 0 ELSE size[c]]
      /\ pool' = <<>> /\ poolSize' = 0 /\ head' = Null /\ tail' = Null
      /\ prev' = [c \in Buffers |-> Null] /\ next' = [c \in Buffers |-> Null]
      /\ UNCHANGED <<lock, freed, held, failures, active>>
  BY DEF Clear, GiveBack, lockVars
<1>2. /\ pc'[t] = "idle" /\ want'[t] = 0 /\ buf'[t] = Null
      /\ pc' \in [Threads -> Pcs] /\ want' \in [Threads -> Int]
      /\ buf' \in [Threads -> Buffers \cup {Null}]
      /\ \A u \in Threads \ {t} : pc'[u] = pc[u] /\ want'[u] = want[u] /\ buf'[u] = buf[u]
  BY LeaveFacts DEF Pcs
<1>3. CacheInv' /\ Cached' = {} /\ pool' \in Seq(Buffers) /\ DOMAIN pool' = {}
  BY <1>1, ListCleared
<1>4. Owners /\ Cached \subseteq Buffers /\ held \subseteq Buffers
  BY OwnersEnough, PoolIndices DEF TypeInv
<1>5. \A c \in Buffers \ Cached : size'[c] = size[c]
  BY <1>1
<1>6. TypeInv'
  <2>1. size' \in [Buffers -> Nat] /\ unused' \subseteq Buffers
    BY <1>1, <1>4 DEF TypeInv
  <2> QED
    BY <1>1, <1>2, <1>3, <2>1 DEF TypeInv
<1>7. freed = 0 /\ buf[t] = Null /\ \A u \in Threads : pc[u] # "release"
  BY AllocatorAssumption DEF CallInv, CallOK
<1>8. CallInv'
  <2>1. CallOK(t)'
    BY <1>1, <1>2, AllocatorAssumption DEF CallOK
  <2>2. ASSUME NEW u \in Threads \ {t} PROVE CallOK(u)'
    <3>1. /\ CallOK(u) /\ buf[u] \in Buffers \cup {Null} /\ (buf[u] # Null => buf[u] \notin Cached)
          /\ pc[u] # "release"
      BY <1>4, <1>7 DEF CallInv, TypeInv, Owners
    <3>2. buf[u] # Null => size'[buf[u]] = size[buf[u]]
      BY <1>5, <3>1
    <3> QED
      BY <1>1, <1>2, <3>1, <3>2 DEF CallOK
  <2> QED
    BY <1>1, <1>7, <2>1, <2>2 DEF CallInv
<1>9. OwnedOnce'
  <2>1. Owners'
    BY SMTT(20), <1>1, <1>2, <1>3, <1>4, <1>7 DEF Owners
  <2> QED
    BY <1>6, <2>1, OwnersEnough, PTL
<1>10. CountInv'
  <2>1. \A c \in held : size'[c] = size[c]
    BY <1>4, <1>5 DEF Owners
  <2>2. TotalOf(size', held) = TotalOf(size, held)
    BY <2>1, TotalSame
  <2>3. TotalOf(size', {}) = 0
    BY TotalEmpty
  <2> QED
    BY <1>1, <1>3, <1>7, <2>2, <2>3, TotalsTyped DEF CountInv, ActiveCoversHeld, ActiveExact
<1> QED
  BY <1>3, <1>6, <1>8, <1>9, <1>10

LEMMA SetLimitKeeps ==
    ASSUME AllocInv, NEW t \in Threads, SetCacheLimit(t)
    PROVE  AllocInv'
<1> USE DEF AllocInv
<1>1. /\ pc[t] = "setLimit" /\ lock = Null /\ cacheLimit' = want[t]
      /\ UNCHANGED <<held, failures, active>>
  BY DEF SetCacheLimit, countVars
<1>2. want[t] \in Nat /\ buf[t] = Null /\ freed = 0 /\ poolSize \in Int
  BY <1>1 DEF CallInv, CallOK, TypeInv
<1>3. CASE poolSize > want[t] /\ AllButTenth(poolSize - want[t])
  <2>1. Clear /\ Leave(t, "idle", 0, Null) /\ UNCHANGED lockVars
    BY <1>3 DEF SetCacheLimit
  <2> QED
    BY <1>1, <1>2, <2>1, ClearKeeps
<1>4. CASE ~(poolSize > want[t] /\ AllButTenth(poolSize - want[t]))
  <2>1. PICK place \in {"idle", "release"}, n \in Int :
           /\ Leave(t, place, n, Null) /\ freed' = 0
           /\ place = "idle" => lock' = Null /\ poolSize <= want[t]
           /\ place = "release" => lock' = t /\ n = poolSize - want[t]
           /\ UNCHANGED <<size, unused, poolSize, pool, head, tail, prev, next>>
    BY <1>1, <1>2, <1>4 DEF SetCacheLimit, lockVars, cacheVars, listVars
  <2>2. /\ pc'[t] = place /\ want'[t] = n /\ buf'[t] = Null
        /\ pc' \in [Threads -> Pcs] /\ want' \in [Threads -> Int]
        /\ buf' \in [Threads -> Buffers \cup {Null}]
        /\ \A u \in Threads \ {t} : pc'[u] = pc[u] /\ want'[u] = want[u] /\ buf'[u] = buf[u]
    <3>1. place \in Pcs
      BY DEF Pcs
    <3> QED
      BY <2>1, <3>1, LeaveFacts
  <2>3. TypeInv'
    <3>1. lock' \in Threads \cup {Null} /\ freed' \in Int /\ cacheLimit' \in Nat
      BY <1>1, <1>2, <2>1
    <3> QED
      BY <1>1, <2>1, <2>2, <3>1 DEF TypeInv
  <2>4. CallInv'
    <3>1. CallOK(t)'
      BY <1>1, <1>2, <2>1, <2>2, AllocatorAssumption DEF CallOK
    <3>2. ASSUME NEW u \in Threads \ {t} PROVE CallOK(u)'
      <4>1. CallOK(u) /\ pc[u] # "release" /\ lock' # u
        BY <1>1, <2>1, AllocatorAssumption DEF CallInv, CallOK
      <4> QED
        BY <1>1, <2>1, <2>2, <4>1 DEF CallOK
    <3> QED
      BY <2>1, <3>1, <3>2 DEF CallInv
  <2>5. Cached' = Cached /\ \A u \in Threads : buf'[u] = buf[u]
    BY <1>2, <2>1, <2>2 DEF Cached
  <2>6. OwnedOnce'
    <3>1. Owners
      BY OwnersEnough
    <3>2. Owners'
      BY <1>1, <2>1, <2>5, <3>1 DEF Owners
    <3> QED
      BY <2>3, <3>2, OwnersEnough, PTL
  <2>7. CacheInv'
    BY <2>1, ListKept DEF listVars
  <2>8. CountInv'
    <3>1. Total(Cached)' = Total(Cached) /\ Total(held)' = Total(held)
      BY <1>1, <2>1, <2>5, TotalsTyped
    <3>2. ActiveCoversHeld'
      BY <1>1, <3>1 DEF CountInv, ActiveCoversHeld, ActiveExact
    <3>3. lock' = Null => poolSize' <= cacheLimit'
      BY <1>1, <2>1, AllocatorAssumption
    <3> QED
      BY <1>2, <2>1, <3>1, <3>2, <3>3 DEF CountInv
  <2> QED
    BY <2>3, <2>4, <2>6, <2>7, <2>8
<1> QED
  BY <1>3, <1>4

(* The end of the list is a buffer of the cache; there is none only when    *)
(* the cache is empty.                                                      *)
LEMMA TailCached ==
    ASSUME TypeInv, CacheInv
    PROVE  IF tail = Null THEN Cached = {} ELSE tail \in Cached
<1>1. PICK L \in Orders : IsList(L)
  BY DEF CacheInv, OldestFirst
<1>2. /\ Len(pool) \in Nat /\ \A i \in 1..Len(pool) : L[i] \in Cached /\ L[i] # Null
      /\ Len(pool) > 0 => tail = L[Len(pool)]
  BY <1>1, ListFacts
<1>3. CASE Len(pool) = 0
  BY <1>1, <1>3, PoolIndices DEF IsList
<1>4. CASE Len(pool) # 0
  BY <1>2, <1>4
<1> QED
  BY <1>3, <1>4

LEMMA ReleaseTailKeeps ==
    ASSUME AllocInv, NEW t \in Threads, ReleaseTail(t)
    PROVE  AllocInv'
<1> USE DEF AllocInv
<1>1. PICK b : b = tail
  OBVIOUS
<1>2. /\ pc[t] = "release" /\ b # Null /\ freed' = freed + size[b]
      /\ unused' = unused \cup {b}
      /\ size' = [c \in Buffers |-> IF c \in {b} THEN 0 ELSE size[c]]
      /\ pool' = Without(b) /\ RemoveFromList(b)
      /\ UNCHANGED <<pc, want, buf, lock, held, failures, active, cacheLimit, poolSize>>
  BY <1>1 DEF ReleaseTail, GiveBack, callVars, countVars
<1>3. b \in Cached /\ b \in Buffers /\ Cached \subseteq Buffers /\ held \subseteq Buffers
  BY <1>1, <1>2, TailCached, PoolIndices DEF TypeInv
<1>4. /\ Owners /\ b \notin unused /\ b \notin held
      /\ \A u \in Threads : buf[u] # b
  <2>1. Owners
    BY OwnersEnough
  <2> QED
    BY <1>2, <1>3, <2>1 DEF Owners
<1>5. \A c \in Buffers \ {b} : size'[c] = size[c]
  BY <1>2
<1>6. /\ pool' \in Seq(Buffers) /\ Cached' = Cached \ {b}
      /\ \A i, j \in DOMAIN pool' : pool'[i] = pool'[j] => i = j
  BY <1>2, <1>3, PoolRemove DEF Cached
<1>7. /\ CacheInv'
      /\ next' \in [Buffers -> Buffers \cup {Null}] /\ prev' \in [Buffers -> Buffers \cup {Null}]
      /\ head' \in Buffers \cup {Null} /\ tail' \in Buffers \cup {Null}
  <2>1. \A c \in Cached \ {b} : size'[c] = size[c]
    BY <1>3, <1>5
  <2> QED
    BY <1>2, <1>3, <2>1, ListRemoved
<1>8. TypeInv'
  <2>1. size' \in [Buffers -> Nat] /\ unused' \subseteq Buffers /\ freed' \in Int
    BY <1>2, <1>3 DEF TypeInv
  <2> QED
    BY <1>2, <1>6, <1>7, <2>1 DEF TypeInv
<1>9. CallInv'
  <2>1. ASSUME NEW u \in Threads PROVE CallOK(u)'
    <3>1. CallOK(u) /\ buf[u] \in Buffers \cup {Null} /\ buf[u] # b
      BY <1>4 DEF CallInv, TypeInv
    <3>2. buf[u] # Null => size'[buf[u]] = size[buf[u]]
      BY <1>5, <3>1
    <3> QED
      BY <1>2, <3>1, <3>2 DEF CallOK
  <2>2. lock = t /\ t # Null
    BY <1>2, AllocatorAssumption DEF CallInv, CallOK
  <2> QED
    BY <1>2, <2>1, <2>2 DEF CallInv
<1>10. OwnedOnce'
  <2>1. Owners'
    BY <1>2, <1>3, <1>4, <1>6 DEF Owners
  <2> QED
    BY <1>8, <2>1, OwnersEnough, PTL
<1>11. CountInv'
  <2>1. TotalOf(size', held) = TotalOf(size, held)
    <3>1. \A c \in held : size'[c] = size[c]
      BY <1>3, <1>4, <1>5
    <3> QED
      BY <3>1, TotalSame
  <2>2. TotalOf(size', Cached \ {b}) = TotalOf(size, Cached) - size[b]
    <3>1. \A c \in Cached \ {b} : size'[c] = size[c]
      BY <1>3, <1>5
    <3>2. TotalOf(size', Cached \ {b}) = TotalOf(size, Cached \ {b})
      BY <3>1, TotalSame
    <3>3. TotalOf(size, Cached \ {b}) = TotalOf(size, Cached) - size[b]
      BY <1>3, TotalsTyped, TotalRemove
    <3> QED
      BY <3>2, <3>3
  <2>3. ActiveCoversHeld'
    BY <1>2, <2>1, TotalsTyped DEF CountInv, ActiveCoversHeld, ActiveExact
  <2>4. lock' # Null
    BY <1>2, AllocatorAssumption DEF CallInv, CallOK
  <2>5. size[b] \in Nat /\ freed \in Int /\ Total(Cached) \in Nat
    BY <1>3, TotalsTyped DEF TypeInv
  <2>6. Total(Cached)' = Total(Cached) - size[b]
    BY <1>6, <2>2, TotalsTyped
  <2> QED
    BY <1>2, <2>3, <2>4, <2>5, <2>6 DEF CountInv
<1> QED
  BY <1>7, <1>8, <1>9, <1>10, <1>11

LEMMA ReleaseDoneKeeps ==
    ASSUME AllocInv, NEW t \in Threads, ReleaseDone(t)
    PROVE  AllocInv'
<1> USE DEF AllocInv
<1>1. /\ pc[t] = "release" /\ (tail = Null \/ freed >= want[t])
      /\ poolSize' = poolSize - freed /\ lock' = Null /\ freed' = 0
      /\ Leave(t, "idle", 0, Null)
      /\ UNCHANGED <<size, unused, held, failures, active, cacheLimit, pool, head, tail, prev, next>>
  BY DEF ReleaseDone, Enough, ownVars, countVars, listVars
<1>2. /\ lock = t /\ want[t] = poolSize - cacheLimit /\ buf[t] = Null
      /\ freed \in Int /\ poolSize \in Int /\ cacheLimit \in Nat
  BY <1>1 DEF CallInv, CallOK, TypeInv
<1>3. /\ pc'[t] = "idle" /\ want'[t] = 0 /\ buf'[t] = Null
      /\ pc' \in [Threads -> Pcs] /\ want' \in [Threads -> Int]
      /\ buf' \in [Threads -> Buffers \cup {Null}]
      /\ \A u \in Threads \ {t} : pc'[u] = pc[u] /\ want'[u] = want[u] /\ buf'[u] = buf[u]
  BY <1>1, LeaveFacts DEF Pcs
<1>4. TypeInv'
  <2>1. poolSize' \in Int /\ freed' \in Int /\ lock' \in Threads \cup {Null}
    BY <1>1, <1>2
  <2> QED
    BY <1>1, <1>3, <2>1 DEF TypeInv
<1>5. CallInv'
  <2>1. CallOK(t)'
    BY <1>1, <1>3, AllocatorAssumption DEF CallOK
  <2>2. ASSUME NEW u \in Threads \ {t} PROVE CallOK(u)'
    <3>1. CallOK(u) /\ pc[u] # "release" /\ u # Null
      BY <1>2, AllocatorAssumption DEF CallInv, CallOK
    <3> QED
      BY <1>1, <1>3, <3>1 DEF CallOK
  <2> QED
    BY <1>1, <2>1, <2>2 DEF CallInv
<1>6. Cached' = Cached /\ \A u \in Threads : buf'[u] = buf[u]
  BY <1>1, <1>2, <1>3 DEF Cached
<1>7. OwnedOnce'
  <2>1. Owners
    BY OwnersEnough
  <2>2. Owners'
    BY <1>1, <1>6, <2>1 DEF Owners
  <2> QED
    BY <1>4, <2>2, OwnersEnough, PTL
<1>8. CacheInv'
  BY <1>1, ListKept DEF listVars
<1>9. CountInv'
  <2>1. Total(Cached)' = Total(Cached) /\ Total(held)' = Total(held) /\ Total(Cached) \in Nat
    BY <1>1, <1>6, TotalsTyped
  <2>2. ActiveCoversHeld'
    BY <1>1, <2>1 DEF CountInv, ActiveCoversHeld, ActiveExact
  <2>3. poolSize' = Total(Cached)
    BY <1>1, <1>2, <2>1 DEF CountInv
  <2>4. CASE tail = Null
    <3>1. TotalOf(size, Cached) = 0
      BY <2>4, TailCached, TotalEmpty
    <3>2. Total(Cached) = 0
      BY <3>1, TotalsTyped
    <3> QED
      BY <1>1, <1>2, <2>1, <2>2, <2>3, <3>2 DEF CountInv
  <2>5. CASE freed >= want[t]
    BY <1>1, <1>2, <2>1, <2>2, <2>3, <2>5 DEF CountInv
  <2> QED
    BY <1>1, <2>4, <2>5
<1> QED
  BY <1>4, <1>5, <1>7, <1>8, <1>9

(* The peak is no part of the invariant. *)
LEMMA PeakAside ==
    ASSUME AllocInv, UNCHANGED <<callVars, lockVars, ownVars, active, cacheLimit, cacheVars>>
    PROVE  AllocInv'
<1> USE DEF AllocInv
<1>1. UNCHANGED <<pc, want, buf, lock, freed, size, unused, held, failures, active, cacheLimit,
                  poolSize, pool, head, tail, prev, next>>
  BY DEF callVars, lockVars, ownVars, cacheVars, listVars
<1>2. TypeInv' /\ CallInv'
  BY <1>1 DEF TypeInv, CallInv, CallOK
<1>3. Cached' = Cached
  BY <1>1 DEF Cached
<1>4. OwnedOnce'
  <2>1. Owners
    BY OwnersEnough
  <2>2. Owners'
    BY <1>1, <1>3, <2>1 DEF Owners
  <2> QED
    BY <1>2, <2>2, OwnersEnough, PTL
<1>5. CacheInv'
  BY <1>1, ListKept DEF listVars
<1>6. CountInv'
  BY <1>1, <1>3, TotalsTyped DEF CountInv, ActiveCoversHeld, ActiveExact
<1> QED
  BY <1>2, <1>4, <1>5, <1>6

LEMMA StepKeeps ==
    ASSUME AllocInv, [Next]_vars
    PROVE  AllocInv'
<1>1. CASE UNCHANGED vars
  BY <1>1, PeakAside DEF vars, countVars
<1>2. ASSUME NEW t \in Threads, NEW n \in Sizes, MallocCached(t, n) PROVE AllocInv'
  BY <1>2, ReuseKeeps
<1>3. ASSUME NEW t \in Threads, NEW n \in Sizes, MallocMiss(t, n) PROVE AllocInv'
  <2>1. pc[t] = "idle" /\ lock = Null /\ n \in Nat
    BY <1>3, AllocatorAssumption DEF MallocMiss
  <2>2. buf[t] = Null
    BY <2>1 DEF AllocInv, CallInv, CallOK
  <2>3. /\ Leave(t, "allocate", n, Null)
        /\ UNCHANGED <<lockVars, ownVars, active, cacheLimit, cacheVars>>
    BY <1>3 DEF MallocMiss, countVars
  <2> QED
    BY <2>1, <2>2, <2>3, MovedOn
<1>4. ASSUME NEW t \in Threads, NEW n \in Limits, CallSetCacheLimit(t, n) PROVE AllocInv'
  <2>1. pc[t] = "idle" /\ n \in Nat
    BY <1>4, AllocatorAssumption DEF CallSetCacheLimit
  <2>2. buf[t] = Null /\ lock # t
    BY <2>1 DEF AllocInv, CallInv, CallOK
  <2>3. /\ Leave(t, "setLimit", n, Null)
        /\ UNCHANGED <<lockVars, ownVars, active, cacheLimit, cacheVars>>
    BY <1>4 DEF CallSetCacheLimit, countVars
  <2> QED
    BY <2>1, <2>2, <2>3, MovedOn
<1>5. ASSUME NEW t \in Threads, CallClearCache(t) PROVE AllocInv'
  <2>1. pc[t] = "idle" /\ lock = Null
    BY <1>5 DEF CallClearCache
  <2>2. buf[t] = Null
    BY <2>1 DEF AllocInv, CallInv, CallOK
  <2>3. /\ Leave(t, "clear", 0, Null)
        /\ UNCHANGED <<lockVars, ownVars, active, cacheLimit, cacheVars>>
    BY <1>5 DEF CallClearCache, countVars
  <2> QED
    BY <2>1, <2>2, <2>3, MovedOn
<1>6. ASSUME NEW t \in Threads, ClearCache(t) PROVE AllocInv'
  <2>1. /\ pc[t] = "clear" /\ lock = Null /\ Clear /\ Leave(t, "idle", 0, Null)
        /\ UNCHANGED <<lockVars, held, failures, active>> /\ cacheLimit' = cacheLimit
    BY <1>6 DEF ClearCache, countVars
  <2>2. cacheLimit' \in Nat
    BY <2>1 DEF AllocInv, TypeInv
  <2> QED
    BY <2>1, <2>2, ClearKeeps
<1>7. ASSUME NEW t \in Threads, ResetPeakMemory(t) PROVE AllocInv'
  BY <1>7, PeakAside DEF ResetPeakMemory
<1>8. ASSUME NEW t \in Threads,
             \/ StdMalloc(t) \/ MallocCount(t) \/ StdFree(t) \/ SetCacheLimit(t)
             \/ ReleaseTail(t) \/ ReleaseDone(t)
      PROVE  AllocInv'
  BY <1>8, MallocKeeps, CountKeeps, StdFreeKeeps, SetLimitKeeps, ReleaseTailKeeps, ReleaseDoneKeeps
<1>9. ASSUME NEW t \in Threads, NEW b \in Buffers, Free(t, b) PROVE AllocInv'
  BY <1>9, FreeKeeps
<1> QED
  BY <1>1, <1>2, <1>3, <1>4, <1>5, <1>6, <1>7, <1>8, <1>9 DEF Next

LEMMA AllocInvariant == Spec => []AllocInv
<1>1. Init => AllocInv
  BY InitAlloc
<1>2. AllocInv /\ [Next]_vars => AllocInv'
  BY StepKeeps
<1> QED
  BY <1>1, <1>2, PTL DEF Spec

-----------------------------------------------------------------------------
(* What the allocator promises *)

(* Whatever the threads do between the parts of malloc, free, a new limit   *)
(* and clear, no buffer is handed out twice, freed twice or lost.           *)
THEOREM BuffersOwnedOnce == Spec => []OwnedOnce
<1>1. AllocInv => OwnedOnce
  BY DEF AllocInv
<1> QED
  BY <1>1, AllocInvariant, PTL

(* The multimap and the doubly linked list hold the same buffers, and of    *)
(* one size the oldest is the first in the map and the last in the list.    *)
THEOREM ReusedOldestFirst == Spec => []OldestFirst
<1>1. AllocInv => OldestFirst
  BY DEF AllocInv, CacheInv
<1> QED
  BY <1>1, AllocInvariant, PTL

(* Both pointers of every holder lead through exactly the buffers of the    *)
(* multimap, after any removal at the head, the tail or in the middle.      *)
THEOREM ListIsPool == Spec => []ListMatchesPool
<1>1. AllocInv => ListMatchesPool
  BY DEF AllocInv, CacheInv, OldestFirst, ListMatchesPool
<1> QED
  BY <1>1, AllocInvariant, PTL

(* pool_size_ is the number of bytes in the cache and keeps to the limit    *)
(* set last, though the loop of a release corrects it only at its end.      *)
THEOREM CacheSizeExact == Spec => []CacheCounted
<1>1. AllocInv => CacheCounted
  <2> SUFFICES ASSUME AllocInv, lock = Null
               PROVE  poolSize = Total(Cached) /\ poolSize <= cacheLimit
    BY DEF CacheCounted
  <2>1. freed = 0 /\ Total(Cached) \in Nat
    BY TotalsTyped DEF AllocInv, CallInv
  <2> QED
    BY <2>1 DEF AllocInv, CountInv
<1> QED
  BY <1>1, AllocInvariant, PTL

(* active_memory_ is never less than what arrays own, and is exactly that   *)
(* as long as std::malloc has not failed.                                   *)
THEOREM ActiveMemoryCovers == Spec => []ActiveCoversHeld
<1>1. AllocInv => ActiveCoversHeld
  BY DEF AllocInv, CountInv
<1> QED
  BY <1>1, AllocInvariant, PTL
=============================================================================
