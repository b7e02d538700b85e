--------------------------- MODULE ContainerCache ---------------------------
(***************************************************************************)
(* The cache of container files the storage server keeps in memory         *)
(* (class Cache of util/cache.cpp over the LRU map of lruCache.hpp), as    *)
(* operators on one record:                                                *)
(*   slot      cache_: the pool slot of a cached container, or NoSlot      *)
(*   order     keys_: the cached names, most recently used first           *)
(*   pool      containerPool_: the bytes held by each slot                 *)
(*   nextSlot  currentIndex_: the first slot never filled                  *)
(* A call runs under Cache::mtx and is one step of the thread that makes   *)
(* it; a memcpy out of the pool is made after the lock is dropped, so it   *)
(* is a step of its own, in StorageCore.                                   *)
(***************************************************************************)
EXTENDS Naturals, Sequences, FiniteSets

CONSTANTS Name,        \* container names
          CacheSize,   \* cacheSize_, the number of slots (128 in the code)
          NoSlot       \* the name is not cached

ASSUME CacheAssumption == /\ CacheSize \in Nat \ {0}
                          /\ NoSlot \notin Nat
                          /\ IsFiniteSet(Name)

Slot == 0 .. CacheSize - 1

CacheType(data) ==
  [slot : [Name -> Slot \cup {NoSlot}], order : Seq(Name),
   pool : [Slot -> data], nextSlot : 0 .. CacheSize]

EmptyCache(blank) ==
  [slot |-> [n \in Name |-> NoSlot], order |-> << >>,
   pool |-> [s \in Slot |-> blank], nextSlot |-> 0]

CachedNames(c) == {n \in Name : c.slot[n] # NoSlot}

ExistsInCache(c, n) == c.slot[n] # NoSlot

CacheFull(c) == Cardinality(CachedNames(c)) + 1 > CacheSize

(* keys_.splice(begin, ..): n, already in s, goes to the front.            *)
MoveToFront(s, n) ==
  LET at == CHOOSE i \in DOMAIN s : s[i] = n
  IN  [i \in DOMAIN s |-> IF i = 1 THEN n ELSE IF i <= at THEN s[i - 1] ELSE s[i]]

(* Cache::getFromCache: the slot's bytes are read through the pointer it   *)
(* returns; the only change is the recency order.                          *)
GetFromCache(c, n) == [c EXCEPT !.order = MoveToFront(@, n)]

(* With a bug: the newest entry is dropped in place of the oldest.         *)
LruInsertDropsNewest(c, n, s) ==
  IF ExistsInCache(c, n)
  THEN [c EXCEPT !.slot[n] = s, !.order = MoveToFront(@, n)]
  ELSE IF CacheFull(c)
       THEN [c EXCEPT !.slot = [@ EXCEPT ![c.order[1]] = NoSlot, ![n] = s],
                      !.order = <<n>> \o Tail(@)]
       ELSE [c EXCEPT !.slot[n] = s, !.order = <<n>> \o @]

(* lru11::Cache::insert and prune: an existing key only changes its value; *)
(* a new one goes to the front and the oldest is dropped beyond maxSize_.  *)
LruInsert(c, n, s) ==
  IF ExistsInCache(c, n)
  THEN [c EXCEPT !.slot[n] = s, !.order = MoveToFront(@, n)]
  ELSE IF CacheFull(c)
       THEN [c EXCEPT !.slot = [@ EXCEPT ![c.order[Len(c.order)]] = NoSlot, ![n] = s],
                      !.order = <<n>> \o SubSeq(@, 1, Len(@) - 1)]
       ELSE [c EXCEPT !.slot[n] = s, !.order = <<n>> \o @]

(* With a bug: the pool is never reused.                                   *)
InsertToCacheNeverReuses(c, n, data) ==
  [LruInsert(c, n, c.nextSlot) EXCEPT
     !.pool = [@ EXCEPT ![c.nextSlot] = data], !.nextSlot = @ + 1]

(* With a bug: the slot taken is the most recently used container's.       *)
InsertToCacheTakesNewest(c, n, data) ==
  LET s == IF CacheFull(c) THEN c.slot[c.order[1]] ELSE c.nextSlot
  IN  [LruInsert(c, n, s) EXCEPT
         !.pool = [@ EXCEPT ![s] = data],
         !.nextSlot = IF CacheFull(c) THEN @ ELSE @ + 1]

(* Cache::insertToCache: the slot of the least recently used container     *)
(* when the cache is full (pruneValue), the next unused slot otherwise.    *)
InsertToCache(c, n, data) ==
  LET s == IF CacheFull(c) THEN c.slot[c.order[Len(c.order)]] ELSE c.nextSlot
  IN  [LruInsert(c, n, s) EXCEPT
         !.pool = [@ EXCEPT ![s] = data],
         !.nextSlot = IF CacheFull(c) THEN @ ELSE @ + 1]
=============================================================================
