---------------------------- MODULE StorageProofs ---------------------------
(***************************************************************************)
(* With one data thread at a time, the chunk store keeps every chunk it    *)
(* indexes readable, never sends wrong bytes and implements ChunkStore,    *)
(* for any number of chunks, sizes, containers and cache slots.            *)
(***************************************************************************)
EXTENDS StorageCore, FiniteSetTheorems, TLAPS

-----------------------------------------------------------------------------
(***************************************************************************)
(* The cache: what the operators of ContainerCache preserve when one       *)
(* thread at a time uses it, which is how a cached container is known to   *)
(* be served from its own slot.                                            *)
(***************************************************************************)

(* The cache is well formed: the recency list names exactly the cached     *)
(* containers, once each; no two containers share a slot; the slots in     *)
(* use are the first ones, as many as there are cached containers.         *)
WellFormed(c, data) ==
  /\ c \in CacheType(data)
  /\ \A i \in DOMAIN c.order : c.slot[c.order[i]] # NoSlot
  /\ \A n \in CachedNames(c) : \E i \in DOMAIN c.order : c.order[i] = n
  /\ \A i, j \in DOMAIN c.order : c.order[i] = c.order[j] => i = j
  /\ \A m, n \in CachedNames(c) : c.slot[m] = c.slot[n] => m = n
  /\ \A n \in CachedNames(c) : c.slot[n] < c.nextSlot
  /\ c.nextSlot = Cardinality(CachedNames(c))

(* An empty cache is well formed.                                          *)
LEMMA EmptyCacheWellFormed ==
  ASSUME NEW data, NEW blank \in data
  PROVE  WellFormed(EmptyCache(blank), data)
<1> DEFINE c == EmptyCache(blank)
<1>1. CachedNames(c) = {}
  BY DEF CachedNames, EmptyCache
<1>2. Cardinality({}) = 0
  BY FS_EmptySet
<1>3. c \in CacheType(data)
  BY CacheAssumption DEF EmptyCache, CacheType
<1>4. c.order = << >> /\ c.nextSlot = 0
  BY DEF EmptyCache
<1> HIDE DEF c
<1>5. WellFormed(c, data)
  BY <1>1, <1>2, <1>3, <1>4 DEF WellFormed
<1> QED BY <1>5 DEF c

(* Moving a cached name to the front of the recency list keeps the list a  *)
(* list of the same names without duplicates.                              *)
LEMMA MoveToFrontProperties ==
  ASSUME NEW s \in Seq(Name), NEW n \in Name,
         \E i \in DOMAIN s : s[i] = n,
         \A i, j \in DOMAIN s : s[i] = s[j] => i = j
  PROVE  /\ MoveToFront(s, n) \in Seq(Name)
         /\ DOMAIN MoveToFront(s, n) = DOMAIN s
         /\ \A i \in DOMAIN s : \E j \in DOMAIN s : MoveToFront(s, n)[i] = s[j]
         /\ \A j \in DOMAIN s : \E i \in DOMAIN s : MoveToFront(s, n)[i] = s[j]
         /\ \A i, j \in DOMAIN s :
              MoveToFront(s, n)[i] = MoveToFront(s, n)[j] => i = j
<1> DEFINE at == CHOOSE i \in DOMAIN s : s[i] = n
           f == [i \in DOMAIN s |->
                   IF i = 1 THEN n ELSE IF i <= at THEN s[i - 1] ELSE s[i]]
<1>1. at \in 1 .. Len(s) /\ s[at] = n /\ DOMAIN s = 1 .. Len(s) /\ Len(s) \in Nat
  OBVIOUS
<1>2. MoveToFront(s, n) = f
  BY DEF MoveToFront
<1> HIDE DEF at
<1>3. f \in Seq(Name) /\ DOMAIN f = DOMAIN s
  BY <1>1
<1>4. \A i \in DOMAIN s : \E j \in DOMAIN s : f[i] = s[j]
  <2> TAKE i \in DOMAIN s
  <2>1. CASE i = 1
    BY <1>1, <2>1
  <2>2. CASE i # 1 /\ i <= at
    BY <1>1, <2>2
  <2>3. CASE i # 1 /\ ~ (i <= at)
    BY <1>1, <2>3
  <2> QED BY <2>1, <2>2, <2>3
<1>5. \A j \in DOMAIN s : \E i \in DOMAIN s : f[i] = s[j]
  <2> TAKE j \in DOMAIN s
  <2>1. CASE j = at
    BY <1>1, <2>1
  <2>2. CASE j < at
    <3>1. j + 1 \in DOMAIN s /\ f[j + 1] = s[j]
      BY <1>1, <2>2
    <3> QED BY <3>1
  <2>3. CASE at < j
    <3>1. f[j] = s[j]
      BY <1>1, <2>3
    <3> QED BY <3>1
  <2> QED BY <1>1, <2>1, <2>2, <2>3
<1>6. \A i, j \in DOMAIN s : f[i] = f[j] => i = j
  <2> SUFFICES ASSUME NEW i \in DOMAIN s, NEW j \in DOMAIN s, f[i] = f[j], i < j
               PROVE  FALSE
    BY <1>1
  <2>1. CASE i = 1 /\ j <= at
    BY <1>1, <2>1
  <2>2. CASE i = 1 /\ ~ (j <= at)
    BY <1>1, <2>2
  <2>3. CASE i # 1 /\ j <= at
    BY <1>1, <2>3
  <2>4. CASE i # 1 /\ i <= at /\ ~ (j <= at)
    BY <1>1, <2>4
  <2>5. CASE i # 1 /\ ~ (i <= at)
    BY <1>1, <2>5
  <2> QED BY <1>1, <2>1, <2>2, <2>3, <2>4, <2>5
<1> QED BY <1>2, <1>3, <1>4, <1>5, <1>6

(* A hit changes nothing but the recency order.                            *)
LEMMA GetKeepsWellFormed ==
  ASSUME NEW data, NEW c, WellFormed(c, data), NEW n \in Name, ExistsInCache(c, n)
  PROVE  /\ WellFormed(GetFromCache(c, n), data)
         /\ GetFromCache(c, n).slot = c.slot
         /\ GetFromCache(c, n).pool = c.pool
<1> DEFINE d == GetFromCache(c, n)
           s == c.order
           t == MoveToFront(s, n)
<1>1. c \in CacheType(data)
  BY DEF WellFormed
<1>2. /\ d = [slot |-> c.slot, order |-> t, pool |-> c.pool, nextSlot |-> c.nextSlot]
      /\ s \in Seq(Name)
  BY <1>1 DEF GetFromCache, CacheType
<1>3. CachedNames(d) = CachedNames(c)
  BY <1>2 DEF CachedNames
<1>4. n \in CachedNames(c)
  BY DEF ExistsInCache, CachedNames
<1>5. /\ t \in Seq(Name)
      /\ DOMAIN t = DOMAIN s
      /\ \A i \in DOMAIN s : \E j \in DOMAIN s : t[i] = s[j]
      /\ \A j \in DOMAIN s : \E i \in DOMAIN s : t[i] = s[j]
      /\ \A i, j \in DOMAIN s : t[i] = t[j] => i = j
  <2>1. /\ s \in Seq(Name)
        /\ \E i \in DOMAIN s : s[i] = n
        /\ \A i, j \in DOMAIN s : s[i] = s[j] => i = j
    BY <1>2, <1>4 DEF WellFormed
  <2> HIDE DEF s
  <2> QED BY <2>1, MoveToFrontProperties
<1> HIDE DEF t
<1>6. d \in CacheType(data)
  BY <1>1, <1>2, <1>5 DEF CacheType
<1>7. \A i \in DOMAIN t : c.slot[t[i]] # NoSlot
  <2>1. \A j \in DOMAIN s : c.slot[s[j]] # NoSlot
    BY DEF WellFormed
  <2> HIDE DEF s
  <2> TAKE i \in DOMAIN t
  <2>2. PICK j \in DOMAIN s : t[i] = s[j]
    BY <1>5
  <2> QED BY <2>1, <2>2
<1>8. \A m \in CachedNames(c) : \E i \in DOMAIN t : t[i] = m
  <2> TAKE m \in CachedNames(c)
  <2>1. PICK j \in DOMAIN s : s[j] = m
    BY DEF WellFormed
  <2> QED BY <1>5, <2>1
<1> HIDE DEF d
<1>9. WellFormed(d, data)
  <2>1. /\ \A m, k \in CachedNames(c) : c.slot[m] = c.slot[k] => m = k
        /\ \A m \in CachedNames(c) : c.slot[m] < c.nextSlot
        /\ c.nextSlot = Cardinality(CachedNames(c))
    BY DEF WellFormed
  <2>2. d.slot = c.slot /\ d.order = t /\ d.nextSlot = c.nextSlot
    BY <1>2
  <2>3. /\ \A i, j \in DOMAIN t : t[i] = t[j] => i = j
        /\ Cardinality(CachedNames(d)) = Cardinality(CachedNames(c))
    BY <1>3, <1>5
  <2>4. \A i \in DOMAIN d.order : d.slot[d.order[i]] # NoSlot
    BY <1>7, <2>2
  <2>5. \A m \in CachedNames(d) : \E i \in DOMAIN d.order : d.order[i] = m
    BY <1>3, <1>8, <2>2
  <2>6. \A i, j \in DOMAIN d.order : d.order[i] = d.order[j] => i = j
    BY <2>2, <2>3
  <2>7. \A m, k \in CachedNames(d) : d.slot[m] = d.slot[k] => m = k
    BY <1>3, <2>1, <2>2
  <2>8. \A m \in CachedNames(d) : d.slot[m] < d.nextSlot
    BY <1>3, <2>1, <2>2
  <2>9. d.nextSlot = Cardinality(CachedNames(d))
    BY <2>1, <2>2, <2>3
  <2> QED BY <1>6, <2>4, <2>5, <2>6, <2>7, <2>8, <2>9 DEF WellFormed
<1> QED BY <1>2, <1>9 DEF d
(* A miss inserts the container: it takes the next unused slot, or the     *)
(* slot of the least recently used container, which is dropped; every      *)
(* other cached container keeps its slot and its bytes.                    *)
LEMMA InsertKeepsWellFormed ==
  ASSUME NEW data, NEW c, WellFormed(c, data), NEW n \in Name,
         ~ ExistsInCache(c, n), NEW b \in data
  PROVE  LET d == InsertToCache(c, n, b)
         IN  /\ WellFormed(d, data)
             /\ ExistsInCache(d, n) /\ d.pool[d.slot[n]] = b
             /\ \A m \in CachedNames(d) :
                  m = n \/ (m \in CachedNames(c) /\ d.pool[d.slot[m]] = c.pool[c.slot[m]])
<1> DEFINE d == InsertToCache(c, n, b)
           v == c.order[Len(c.order)]
           Goal == /\ WellFormed(d, data)
                   /\ ExistsInCache(d, n) /\ d.pool[d.slot[n]] = b
                   /\ \A m \in CachedNames(d) :
                        \/ m = n
                        \/ m \in CachedNames(c) /\ d.pool[d.slot[m]] = c.pool[c.slot[m]]
<1>1. /\ c \in CacheType(data)
      /\ \A i \in DOMAIN c.order : c.slot[c.order[i]] # NoSlot
      /\ \A m \in CachedNames(c) : \E i \in DOMAIN c.order : c.order[i] = m
      /\ \A i, j \in DOMAIN c.order : c.order[i] = c.order[j] => i = j
      /\ \A m, k \in CachedNames(c) : c.slot[m] = c.slot[k] => m = k
      /\ \A m \in CachedNames(c) : c.slot[m] < c.nextSlot
      /\ c.nextSlot = Cardinality(CachedNames(c))
  BY DEF WellFormed
<1>2. /\ c.slot \in [Name -> Slot \cup {NoSlot}] /\ c.order \in Seq(Name)
      /\ c.pool \in [Slot -> data] /\ c.nextSlot \in 0 .. CacheSize
      /\ c = [slot |-> c.slot, order |-> c.order, pool |-> c.pool, nextSlot |-> c.nextSlot]
  BY <1>1 DEF CacheType
<1>3. /\ CachedNames(c) \subseteq Name /\ IsFiniteSet(CachedNames(c))
      /\ n \notin CachedNames(c) /\ c.slot[n] = NoSlot
  BY CacheAssumption, FS_Subset DEF CachedNames, ExistsInCache
<1>4. NoSlot \notin Slot /\ CacheSize \in Nat \ {0}
  BY CacheAssumption DEF Slot
<1>5. CASE CacheFull(c)
  <2>1. c.nextSlot = CacheSize
    BY <1>1, <1>2, <1>4, <1>5 DEF CacheFull
  <2>2. CachedNames(c) # {}
    BY <1>1, <1>4, <2>1, FS_EmptySet
  <2>3. Len(c.order) \in Nat \ {0} /\ DOMAIN c.order = 1 .. Len(c.order)
    BY <1>1, <1>2, <2>2
  <2>4. v \in Name /\ v \in CachedNames(c) /\ c.slot[v] \in Slot /\ v # n
    BY <1>1, <1>2, <1>3, <2>3 DEF CachedNames
  <2> DEFINE slots == [c.slot EXCEPT ![v] = NoSlot, ![n] = c.slot[v]]
             order == <<n>> \o SubSeq(c.order, 1, Len(c.order) - 1)
             pool == [c.pool EXCEPT ![c.slot[v]] = b]
  <2>5. d = [slot |-> slots, order |-> order, pool |-> pool, nextSlot |-> c.nextSlot]
    <3>1. LruInsert(c, n, c.slot[v]) =
            [slot |-> slots, order |-> order, pool |-> c.pool, nextSlot |-> c.nextSlot]
      <4>1. LruInsert(c, n, c.slot[v]) = [c EXCEPT !.slot = slots, !.order = order]
        BY <1>5 DEF LruInsert
      <4> HIDE DEF slots, order, v
      <4> QED BY <1>2, <4>1
    <3>2. d = [LruInsert(c, n, c.slot[v]) EXCEPT !.pool = [@ EXCEPT ![c.slot[v]] = b],
                                                 !.nextSlot = @]
      BY <1>5 DEF InsertToCache
    <3> HIDE DEF slots, order, v, d
    <3>3. d = [[slot |-> slots, order |-> order, pool |-> c.pool, nextSlot |-> c.nextSlot]
                 EXCEPT !.pool = [@ EXCEPT ![c.slot[v]] = b], !.nextSlot = @]
      BY <3>1, <3>2, Zenon
    <3> QED BY <3>3
  <2> HIDE DEF d
  <2>6. /\ order \in Seq(Name) /\ DOMAIN order = DOMAIN c.order
        /\ order[1] = n
        /\ \A i \in DOMAIN c.order : i # 1 => order[i] = c.order[i - 1]
    BY <1>2, <2>3
  <2> HIDE DEF order
  <2>7. /\ slots \in [Name -> Slot \cup {NoSlot}] /\ pool \in [Slot -> data]
        /\ slots[n] = c.slot[v] /\ slots[v] = NoSlot
        /\ \A m \in Name : m # n /\ m # v => slots[m] = c.slot[m]
        /\ pool[c.slot[v]] = b
        /\ \A k \in Slot : k # c.slot[v] => pool[k] = c.pool[k]
    BY <1>2, <2>4
  <2> HIDE DEF slots, pool, v
  <2>8. CachedNames(d) = (CachedNames(c) \ {v}) \cup {n}
    BY <1>3, <1>4, <2>4, <2>5, <2>7 DEF CachedNames
  <2>9. Cardinality(CachedNames(d)) = Cardinality(CachedNames(c))
    <3>1. IsFiniteSet(CachedNames(c) \ {v})
          /\ Cardinality(CachedNames(c) \ {v}) = Cardinality(CachedNames(c)) - 1
      BY <1>3, <2>4, FS_RemoveElement
    <3>2. Cardinality(CachedNames(d)) = Cardinality(CachedNames(c) \ {v}) + 1
      BY <1>3, <2>8, <3>1, FS_AddElement
    <3> QED BY <1>1, <1>2, <2>1, <1>4, <3>1, <3>2
  <2>10. \A i \in DOMAIN order : slots[order[i]] # NoSlot
    <3> TAKE i \in DOMAIN order
    <3>1. CASE i = 1
      BY <1>4, <2>4, <2>6, <2>7, <3>1
    <3>2. CASE i # 1
      <4>1. i - 1 \in DOMAIN c.order /\ order[i] = c.order[i - 1] /\ i - 1 # Len(c.order)
        BY <2>3, <2>6, <3>2
      <4>2. order[i] # v /\ order[i] \in Name /\ c.slot[order[i]] # NoSlot
        BY <1>1, <1>2, <2>3, <4>1 DEF v
      <4>3. order[i] # n
        BY <1>3, <4>2
      <4> QED BY <2>7, <4>2, <4>3
    <3> QED BY <3>1, <3>2
  <2>11. \A m \in CachedNames(d) : \E i \in DOMAIN order : order[i] = m
    <3> TAKE m \in CachedNames(d)
    <3>1. CASE m = n
      BY <2>3, <2>6, <3>1
    <3>2. CASE m # n
      <4>1. m \in CachedNames(c) /\ m # v
        BY <2>8, <3>2
      <4>2. PICK j \in DOMAIN c.order : c.order[j] = m
        BY <1>1, <4>1
      <4>3. j # Len(c.order)
        BY <4>1, <4>2 DEF v
      <4>4. j + 1 \in DOMAIN c.order /\ j + 1 # 1 /\ (j + 1) - 1 = j
        BY <2>3, <4>3
      <4>5. j + 1 \in DOMAIN order /\ order[j + 1] = m
        BY <2>6, <4>2, <4>4
      <4> QED BY <4>5
    <3> QED BY <3>1, <3>2
  <2>12. \A i, j \in DOMAIN order : order[i] = order[j] => i = j
    <3>1. \A i \in DOMAIN order : i # 1 => order[i] # n
      <4> TAKE i \in DOMAIN order
      <4> HAVE i # 1
      <4>1. i - 1 \in DOMAIN c.order /\ order[i] = c.order[i - 1]
        BY <2>3, <2>6
      <4> QED BY <1>1, <1>3, <4>1
    <3> SUFFICES ASSUME NEW i \in DOMAIN order, NEW j \in DOMAIN order,
                        order[i] = order[j], i # 1, j # 1
                 PROVE  i = j
      BY <2>6, <3>1
    <3>2. /\ i - 1 \in DOMAIN c.order /\ order[i] = c.order[i - 1]
          /\ j - 1 \in DOMAIN c.order /\ order[j] = c.order[j - 1]
      BY <2>3, <2>6
    <3>3. \A k, l \in DOMAIN c.order : c.order[k] = c.order[l] => k = l
      BY <1>1
    <3>4. c.order[i - 1] = c.order[j - 1]
      BY <3>2
    <3>5. i - 1 = j - 1
      BY <3>2, <3>3, <3>4
    <3> QED BY <2>3, <2>6, <3>5
  <2>13. \A m, k \in CachedNames(d) : slots[m] = slots[k] => m = k
    BY <1>1, <1>3, <2>4, <2>7, <2>8
  <2>14. \A m \in CachedNames(d) : slots[m] < c.nextSlot
    BY <1>1, <1>3, <2>4, <2>7, <2>8
  <2>15. WellFormed(d, data)
    <3>1. d \in CacheType(data)
      BY <1>2, <2>5, <2>6, <2>7 DEF CacheType
    <3>2. d.slot = slots /\ d.order = order /\ d.nextSlot = c.nextSlot
      BY <2>5
    <3> QED BY <1>1, <2>9, <2>10, <2>11, <2>12, <2>13, <2>14, <3>1, <3>2 DEF WellFormed
  <2>16. ExistsInCache(d, n) /\ d.pool[d.slot[n]] = b
    BY <1>4, <2>4, <2>5, <2>7 DEF ExistsInCache
  <2>17. \A m \in CachedNames(d) :
           m = n \/ (m \in CachedNames(c) /\ d.pool[d.slot[m]] = c.pool[c.slot[m]])
    <3> TAKE m \in CachedNames(d)
    <3>1. CASE m # n
      <4>1. m \in CachedNames(c) /\ m # v /\ slots[m] = c.slot[m] /\ c.slot[m] # c.slot[v]
        BY <1>1, <1>3, <2>4, <2>7, <2>8, <3>1
      <4>2. c.slot[m] \in Slot
        BY <1>2, <1>3, <4>1 DEF CachedNames
      <4> QED BY <2>5, <2>7, <4>1, <4>2
    <3> QED BY <3>1
  <2> QED BY <2>15, <2>16, <2>17 DEF d
<1>6. CASE ~ CacheFull(c)
  <2> DEFINE s == c.nextSlot
             slots == [c.slot EXCEPT ![n] = s]
             order == <<n>> \o c.order
             pool == [c.pool EXCEPT ![s] = b]
  <2>1. d = [slot |-> slots, order |-> order, pool |-> pool, nextSlot |-> s + 1]
    <3>1. LruInsert(c, n, s) =
            [slot |-> slots, order |-> order, pool |-> c.pool, nextSlot |-> s]
      <4>1. LruInsert(c, n, s) = [c EXCEPT !.slot = slots, !.order = order]
        BY <1>6 DEF LruInsert
      <4> HIDE DEF slots, order
      <4> QED BY <1>2, <4>1
    <3>2. d = [LruInsert(c, n, s) EXCEPT !.pool = [@ EXCEPT ![s] = b],
                                         !.nextSlot = @ + 1]
      BY <1>6 DEF InsertToCache
    <3> HIDE DEF slots, order, d
    <3>3. d = [[slot |-> slots, order |-> order, pool |-> c.pool, nextSlot |-> s]
                 EXCEPT !.pool = [@ EXCEPT ![s] = b], !.nextSlot = @ + 1]
      BY <3>1, <3>2, Zenon
    <3> QED BY <3>3
  <2>2. s \in Slot /\ s + 1 \in 0 .. CacheSize /\ s \in Nat
    BY <1>1, <1>2, <1>4, <1>6 DEF CacheFull, Slot
  <2> HIDE DEF d, s
  <2>3. /\ order \in Seq(Name) /\ DOMAIN order = 1 .. Len(c.order) + 1
        /\ DOMAIN c.order = 1 .. Len(c.order) /\ Len(c.order) \in Nat
        /\ order[1] = n
        /\ \A i \in 2 .. Len(c.order) + 1 : order[i] = c.order[i - 1]
    BY <1>2
  <2> HIDE DEF order
  <2>4. /\ slots \in [Name -> Slot \cup {NoSlot}] /\ pool \in [Slot -> data]
        /\ slots[n] = s /\ pool[s] = b
        /\ \A m \in Name : m # n => slots[m] = c.slot[m]
        /\ \A k \in Slot : k # s => pool[k] = c.pool[k]
    BY <1>2, <2>2
  <2> HIDE DEF slots, pool
  <2>5. CachedNames(d) = CachedNames(c) \cup {n}
    BY <1>3, <1>4, <2>1, <2>2, <2>4 DEF CachedNames
  <2>6. Cardinality(CachedNames(d)) = s + 1
    <3>1. Cardinality(CachedNames(c) \cup {n}) = Cardinality(CachedNames(c)) + 1
      BY <1>3, FS_AddElement
    <3> QED BY <1>1, <2>5, <3>1 DEF s
  <2>7. \A i \in DOMAIN order : slots[order[i]] # NoSlot
    <3> TAKE i \in DOMAIN order
    <3>1. CASE i = 1
      BY <1>4, <2>2, <2>3, <2>4, <3>1
    <3>2. CASE i # 1
      <4>1. i - 1 \in DOMAIN c.order /\ order[i] = c.order[i - 1]
        BY <2>3, <3>2
      <4>2. order[i] \in Name /\ order[i] # n /\ c.slot[order[i]] # NoSlot
        BY <1>1, <1>2, <1>3, <4>1
      <4> QED BY <2>4, <4>2
    <3> QED BY <3>1, <3>2
  <2>8. \A m \in CachedNames(d) : \E i \in DOMAIN order : order[i] = m
    <3> TAKE m \in CachedNames(d)
    <3>1. CASE m = n
      BY <2>3, <3>1
    <3>2. CASE m # n
      <4>1. PICK j \in DOMAIN c.order : c.order[j] = m
        BY <1>1, <2>5, <3>2
      <4>2. j + 1 \in DOMAIN order /\ order[j + 1] = m
        BY <2>3, <4>1
      <4> QED BY <4>2
    <3> QED BY <3>1, <3>2
  <2>9. \A i, j \in DOMAIN order : order[i] = order[j] => i = j
    <3>1. \A i \in DOMAIN order : i # 1 => order[i] # n
      <4> TAKE i \in DOMAIN order
      <4> HAVE i # 1
      <4>1. i - 1 \in DOMAIN c.order /\ order[i] = c.order[i - 1]
        BY <2>3
      <4> QED BY <1>1, <1>3, <4>1
    <3> SUFFICES ASSUME NEW i \in DOMAIN order, NEW j \in DOMAIN order,
                        order[i] = order[j], i # 1, j # 1
                 PROVE  i = j
      BY <2>3, <3>1
    <3>2. /\ i - 1 \in DOMAIN c.order /\ order[i] = c.order[i - 1]
          /\ j - 1 \in DOMAIN c.order /\ order[j] = c.order[j - 1]
      <4>1. \A k \in DOMAIN order : k # 1 => k - 1 \in DOMAIN c.order /\ order[k] = c.order[k - 1]
        BY <2>3
      <4> QED BY <4>1
    <3>3. \A k, l \in DOMAIN c.order : c.order[k] = c.order[l] => k = l
      BY <1>1
    <3>4. c.order[i - 1] = c.order[j - 1]
      BY <3>2
    <3>5. i - 1 = j - 1
      BY <3>2, <3>3, <3>4
    <3> QED BY <2>3, <3>5
  <2>10. \A m \in CachedNames(c) : c.slot[m] \in Nat /\ c.slot[m] < s
    BY <1>1, <1>2, <1>3 DEF CachedNames, Slot, s
  <2>11. \A m, k \in CachedNames(d) : slots[m] = slots[k] => m = k
    BY <1>1, <1>3, <2>2, <2>4, <2>5, <2>10
  <2>12. \A m \in CachedNames(d) : slots[m] < s + 1
    BY <1>3, <2>2, <2>4, <2>5, <2>10
  <2>13. WellFormed(d, data)
    <3>1. d \in CacheType(data)
      BY <2>1, <2>2, <2>3, <2>4 DEF CacheType
    <3>2. d.slot = slots /\ d.order = order /\ d.nextSlot = s + 1
      BY <2>1
    <3> QED BY <2>6, <2>7, <2>8, <2>9, <2>11, <2>12, <3>1, <3>2 DEF WellFormed
  <2>14. ExistsInCache(d, n) /\ d.pool[d.slot[n]] = b
    BY <1>4, <2>1, <2>2, <2>4 DEF ExistsInCache
  <2>15. \A m \in CachedNames(d) :
           m = n \/ (m \in CachedNames(c) /\ d.pool[d.slot[m]] = c.pool[c.slot[m]])
    <3> TAKE m \in CachedNames(d)
    <3>1. CASE m # n
      <4>1. m \in CachedNames(c) /\ slots[m] = c.slot[m] /\ c.slot[m] \in Slot
        BY <1>2, <1>3, <2>4, <2>5, <3>1 DEF CachedNames
      <4> QED BY <2>1, <2>2, <2>4, <2>10, <4>1
    <3> QED BY <3>1
  <2> QED BY <2>13, <2>14, <2>15 DEF d
<1> QED BY <1>5, <1>6 DEF d

-----------------------------------------------------------------------------
(***************************************************************************)
(* The inductive invariant.                                                *)
(***************************************************************************)

(* One connection is served at a time. MCStorageRace.cfg shows that two    *)
(* data threads break the theorems below.                                  *)
SingleThread == \A s, t \in DataThread : s = t

(* The part of the current container that is in use, and what its file, if *)
(* the container was read back from one, holds of it.                      *)
FrontierInv ==
  up => /\ used < MaxContainerSize
        /\ \A n \in Name : containers[n] # NoFile => n <= current
        /\ containers[current] # NoFile =>
             \A i \in Position : containers[current][i] # Zero =>
               i < used /\ body[i] = containers[current][i]

(* An entry of the index points below the frontier, or is the one whose    *)
(* used_ += length is still to come.                                       *)
IndexInv ==
  up => \A h \in Chunk : fp2ChunkDB[h] # NoEntry =>
          /\ fp2ChunkDB[h].container <= current
          /\ fp2ChunkDB[h].container = current =>
               \/ fp2ChunkDB[h].offset + fp2ChunkDB[h].length <= used
               \/ \E t \in DataThread : pc[t] = "inserted" /\ key[t] = fp2ChunkDB[h]

(* What a stopped server leaves on disk for the next one.                  *)
DownInv ==
  ~ up => /\ storageConfig # NoConfig
          /\ storageConfig.used < MaxContainerSize
          /\ containers[storageConfig.name] # NoFile
          /\ \A n \in Name : containers[n] # NoFile => n <= storageConfig.name
          /\ \A i \in Position :
               storageConfig.used <= i => containers[storageConfig.name][i] = Zero
          /\ \A h \in Chunk : fp2ChunkDB[h] # NoEntry =>
               /\ fp2ChunkDB[h].container <= storageConfig.name
               /\ fp2ChunkDB[h].container = storageConfig.name =>
                    fp2ChunkDB[h].offset + fp2ChunkDB[h].length <= storageConfig.used
          /\ CachedNames(cache) = {}
          /\ \A t \in DataThread : pc[t] = "idle"

(* A thread between writeContainer and used_ += length.                    *)
StoringInv ==
  \A t \in DataThread : pc[t] \in {"written", "inserted"} =>
    /\ key[t].container = current
    /\ key[t].offset = used
    /\ used + key[t].length < MaxContainerSize
    /\ Holds(body, key[t], chunk[t])
    /\ pc[t] = "inserted" => fp2ChunkDB[chunk[t]] = key[t]

(* A thread between the query and the copy.                                *)
RestoringInv ==
  \A t \in DataThread :
    /\ pc[t] \in {"queried", "copyCurrent", "copyCached", "copyLoaded"} =>
         fp2ChunkDB[chunk[t]] = key[t]
    /\ pc[t] = "copyCurrent" => key[t].container = current
    /\ pc[t] \in {"copyCached", "copyLoaded"} => key[t].container # current
    /\ pc[t] = "copyCached" => ExistsInCache(cache, key[t].container)
    /\ pc[t] = "copyLoaded" => /\ ~ ExistsInCache(cache, key[t].container)
                               /\ containers[key[t].container] # NoFile
                               /\ readContainer = containers[key[t].container]

(* A cached container is a sealed one and its slot holds its file.         *)
CacheInv ==
  /\ WellFormed(cache, Body)
  /\ \A n \in CachedNames(cache) :
       n < current /\ cache.pool[cache.slot[n]] = containers[n]

IInv == /\ TypeOK /\ IndexedChunksReadable /\ NeverWrongBytes
        /\ FrontierInv /\ IndexInv /\ DownInv /\ StoringInv /\ RestoringInv /\ CacheInv
-----------------------------------------------------------------------------
(* memcpy into a body changes no byte before the offset and puts the chunk *)
(* at the offset.                                                          *)
LEMMA CopyInProperties ==
  ASSUME NEW b \in Body, NEW o \in Nat, NEW h \in Chunk, o + ChunkSize[h] <= BodySize
  PROVE  /\ CopyIn(b, o, h) \in Body
         /\ \A i \in Position : i < o => CopyIn(b, o, h)[i] = b[i]
         /\ \A k \in 0 .. ChunkSize[h] - 1 :
              o + k \in Position /\ CopyIn(b, o, h)[o + k] = <<h, k>>
<1>1. ChunkSize[h] \in Nat /\ BodySize \in Nat
  BY StorageAssumption
<1>2. CopyIn(b, o, h) \in Body
  <2> SUFFICES ASSUME NEW i \in Position
               PROVE  (IF o <= i /\ i < o + ChunkSize[h] THEN <<h, i - o>> ELSE b[i]) \in Byte
    BY DEF CopyIn, Body
  <2>1. CASE o <= i /\ i < o + ChunkSize[h]
    BY <1>1, <2>1 DEF Byte, Position
  <2>2. CASE ~ (o <= i /\ i < o + ChunkSize[h])
    BY <2>2 DEF Body
  <2> QED BY <2>1, <2>2
<1>3. \A i \in Position : i < o => CopyIn(b, o, h)[i] = b[i]
  BY <1>1 DEF CopyIn, Position
<1>4. ASSUME NEW k \in 0 .. ChunkSize[h] - 1
      PROVE  o + k \in Position /\ CopyIn(b, o, h)[o + k] = <<h, k>>
  <2>1. o + k \in Position /\ o <= o + k /\ o + k < o + ChunkSize[h] /\ (o + k) - o = k
    BY <1>1 DEF Position
  <2> QED BY <2>1 DEF CopyIn
<1> QED BY <1>2, <1>3, <1>4

(* A saved and reloaded body has the bytes below its used size.            *)
LEMMA PrefixProperties ==
  ASSUME NEW b \in Body, NEW size \in Nat
  PROVE  /\ Prefix(b, size) \in Body
         /\ \A i \in Position : i < size => Prefix(b, size)[i] = b[i]
         /\ \A i \in Position : size <= i => Prefix(b, size)[i] = Zero
BY StorageAssumption DEF Prefix, Body, Byte, Position

(* A chunk stays where it is in a body that agrees below the chunk's end.  *)
LEMMA HoldsKept ==
  ASSUME NEW b, NEW c, NEW l \in Location, NEW h \in Chunk, Holds(b, l, h),
         \A i \in Position : i < l.offset + l.length => c[i] = b[i]
  PROVE  Holds(c, l, h)
<1>1. /\ l.length = ChunkSize[h] /\ l.offset + l.length <= BodySize
      /\ l.offset \in Nat /\ l.length \in Nat /\ BodySize \in Nat
  BY StorageAssumption DEF Holds, Location
<1>2. ASSUME NEW i \in 0 .. ChunkSize[h] - 1
      PROVE  c[l.offset + i] = <<h, i>>
  <2>1. l.offset + i \in Position /\ l.offset + i < l.offset + l.length
    BY <1>1 DEF Position
  <2>2. b[l.offset + i] = <<h, i>>
    BY DEF Holds
  <2> QED BY <2>1, <2>2
<1> QED BY <1>1, <1>2 DEF Holds

(* Copying a chunk out of where it stands gives its bytes.                 *)
LEMMA HoldsGivesBytes ==
  ASSUME NEW b, NEW l, NEW h \in Chunk, Holds(b, l, h)
  PROVE  CopyOut(b, l) = ChunkBytes[h]
BY DEF Holds, CopyOut, ChunkBytes
-----------------------------------------------------------------------------
(* The fresh store satisfies the invariant.                                *)
LEMMA InitIInv == Init => IInv
<1> SUFFICES ASSUME Init PROVE IInv
  OBVIOUS
<1> USE DEF Init
<1>1. BlankBody \in Body
  BY DEF BlankBody, Body, Byte
<1>2. WellFormed(cache, Body)
  BY <1>1, EmptyCacheWellFormed
<1>3. CachedNames(cache) = {}
  BY DEF CachedNames, EmptyCache
<1>4. 0 \in Name
  BY StorageAssumption
<1>5. TypeOK
  BY <1>1, <1>2, <1>4, StorageAssumption
  DEF TypeOK, WellFormed, Location, ProgramPoint
<1>6. FrontierInv /\ IndexInv /\ DownInv /\ StoringInv /\ RestoringInv
  BY StorageAssumption
  DEF FrontierInv, IndexInv, DownInv, StoringInv, RestoringInv
<1>7. CacheInv
  BY <1>2, <1>3 DEF CacheInv
<1>8. IndexedChunksReadable /\ NeverWrongBytes
  BY DEF IndexedChunksReadable, NeverWrongBytes
<1> QED BY <1>5, <1>6, <1>7, <1>8 DEF IInv
-----------------------------------------------------------------------------
(* A chunk is appended above the frontier: nothing indexed is below it.    *)
LEMMA AppendIInv ==
  ASSUME IInv, SingleThread, NEW t \in DataThread, NEW h \in Chunk, AppendToContainer(t, h)
  PROVE  IInv'
<1> DEFINE l == [container |-> current, offset |-> used, length |-> ChunkSize[h]]
           b == CopyIn(body, used, h)
<1>1. /\ up /\ pc[t] = "idle" /\ ChunkSize[h] + used < MaxContainerSize
      /\ body' = b /\ key' = [key EXCEPT ![t] = l] /\ chunk' = [chunk EXCEPT ![t] = h]
      /\ pc' = [pc EXCEPT ![t] = "written"]
      /\ UNCHANGED <<fp2ChunkDB, containers, storageConfig, up, current, used>>
      /\ UNCHANGED <<readContainer, cache, reply>>
  BY DEF AppendToContainer, Idle, durable
<1>2. TypeOK
  BY DEF IInv
<1>3. /\ used \in Nat /\ ChunkSize[h] \in Nat /\ BodySize \in Nat
      /\ used + ChunkSize[h] < MaxContainerSize /\ used + ChunkSize[h] <= BodySize
      /\ MaxContainerSize \in Nat
  BY <1>1, <1>2, StorageAssumption DEF TypeOK
<1>4. l \in Location
  BY <1>2, <1>3 DEF TypeOK, Location
<1>5. /\ b \in Body
      /\ \A i \in Position : i < used => b[i] = body[i]
      /\ \A k \in 0 .. ChunkSize[h] - 1 : used + k \in Position /\ b[used + k] = <<h, k>>
  BY <1>2, <1>3, CopyInProperties DEF TypeOK
<1>6. Holds(b, l, h)
  BY <1>3, <1>5 DEF Holds
<1> HIDE DEF l, b
<1>7. TypeOK'
  BY <1>1, <1>2, <1>4, <1>5 DEF TypeOK, ProgramPoint
<1>8. \A s \in DataThread : s = t
  BY DEF SingleThread
<1>9. key'[t] = l /\ chunk'[t] = h /\ pc'[t] = "written"
  BY <1>1, <1>2 DEF TypeOK
<1>10. \A g \in Chunk : fp2ChunkDB[g] # NoEntry =>
         /\ fp2ChunkDB[g] \in Location
         /\ fp2ChunkDB[g].container <= current
         /\ fp2ChunkDB[g].container = current =>
              fp2ChunkDB[g].offset + fp2ChunkDB[g].length <= used
  BY <1>1, <1>2, <1>8 DEF IInv, IndexInv, TypeOK
<1>11. IndexedChunksReadable'
  <2> SUFFICES ASSUME NEW g \in Chunk, fp2ChunkDB[g] # NoEntry
               PROVE  LET m == fp2ChunkDB[g]
                      IN  ContainerBytes(m.container)' # NoFile
                          /\ Holds(ContainerBytes(m.container)', m, g)
    BY <1>1 DEF IndexedChunksReadable, ContainerBytes
  <2> DEFINE m == fp2ChunkDB[g]
  <2>1. m \in Location /\ ContainerBytes(m.container) # NoFile
        /\ Holds(ContainerBytes(m.container), m, g)
    BY <1>10 DEF IInv, IndexedChunksReadable
  <2>2. CASE m.container = current
    <3>1. Holds(body, m, g) /\ m.offset + m.length <= used
      BY <1>1, <1>10, <2>1, <2>2 DEF ContainerBytes
    <3>2. \A i \in Position : i < m.offset + m.length => b[i] = body[i]
      BY <1>3, <1>5, <2>1, <3>1 DEF Position, Location
    <3>3. Holds(b, m, g)
      BY <2>1, <3>1, <3>2, HoldsKept
    <3>4. ContainerBytes(m.container)' = b
      BY <1>1, <2>2 DEF ContainerBytes
    <3>5. b # NoFile
      BY <1>5, StorageAssumption DEF Body, Byte, Position
    <3> QED BY <3>3, <3>4, <3>5
  <2>3. CASE m.container # current
    BY <1>1, <2>1, <2>3 DEF ContainerBytes
  <2> QED BY <2>2, <2>3
<1>12. NeverWrongBytes'
  BY <1>1 DEF IInv, NeverWrongBytes
<1>13. FrontierInv'
  BY <1>1, <1>5 DEF IInv, FrontierInv
<1>14. IndexInv'
  BY <1>1, <1>10 DEF IndexInv
<1>15. DownInv'
  BY <1>1 DEF DownInv
<1>16. StoringInv'
  BY <1>1, <1>3, <1>6, <1>8, <1>9 DEF StoringInv, l
<1>17. RestoringInv'
  BY <1>8, <1>9 DEF RestoringInv
<1>18. CacheInv'
  BY <1>1 DEF IInv, CacheInv, CachedNames
<1> QED BY <1>7, <1>11, <1>12, <1>13, <1>14, <1>15, <1>16, <1>17, <1>18 DEF IInv
(* A rotation saves everything indexed of the current container, and the   *)
(* next container holds nothing yet.                                       *)
LEMMA RotateIInv ==
  ASSUME IInv, SingleThread, NEW t \in DataThread, NEW h \in Chunk, RotateContainer(t, h)
  PROVE  IInv'
<1> DEFINE l == [container |-> current + 1, offset |-> 0, length |-> ChunkSize[h]]
           b == CopyIn(body, 0, h)
           f == Prefix(body, used)
<1>1. /\ up /\ pc[t] = "idle" /\ current < LastContainer
      /\ containers' = [containers EXCEPT ![current] = f]
      /\ current' = current + 1 /\ used' = 0
      /\ body' = b /\ key' = [key EXCEPT ![t] = l] /\ chunk' = [chunk EXCEPT ![t] = h]
      /\ pc' = [pc EXCEPT ![t] = "written"]
      /\ UNCHANGED <<fp2ChunkDB, storageConfig, up, readContainer, cache, reply>>
  BY DEF RotateContainer, Idle
<1>2. TypeOK
  BY DEF IInv
<1>3. /\ used \in Nat /\ ChunkSize[h] \in Nat /\ BodySize \in Nat /\ LastContainer \in Nat
      /\ 0 + ChunkSize[h] < MaxContainerSize /\ 0 + ChunkSize[h] <= BodySize
      /\ MaxContainerSize \in Nat \ {0} /\ Name = 0 .. LastContainer
  BY <1>2, StorageAssumption DEF TypeOK
<1>4. /\ current \in Name /\ current + 1 \in Name /\ l \in Location
      /\ \A n \in Name : n <= current => n # current + 1
  BY <1>1, <1>2, <1>3 DEF TypeOK, Location
<1>5. /\ b \in Body
      /\ \A k \in 0 .. ChunkSize[h] - 1 : 0 + k \in Position /\ b[0 + k] = <<h, k>>
  <2>1. body \in Body /\ 0 \in Nat /\ 0 + ChunkSize[h] <= BodySize
    BY <1>2, <1>3 DEF TypeOK
  <2> QED BY <2>1, CopyInProperties, Zenon
<1>6. Holds(b, l, h)
  BY <1>3, <1>5 DEF Holds
<1>7. /\ f \in Body
      /\ \A i \in Position : i < used => f[i] = body[i]
  BY <1>2, <1>3, PrefixProperties DEF TypeOK
<1> HIDE DEF l, b, f
<1>8. TypeOK'
  BY <1>1, <1>2, <1>4, <1>5, <1>7 DEF TypeOK, ProgramPoint
<1>9. \A s \in DataThread : s = t
  BY DEF SingleThread
<1>10. key'[t] = l /\ chunk'[t] = h /\ pc'[t] = "written"
  BY <1>1, <1>2 DEF TypeOK
<1>11. \A g \in Chunk : fp2ChunkDB[g] # NoEntry =>
         /\ fp2ChunkDB[g] \in Location
         /\ fp2ChunkDB[g].container <= current
         /\ fp2ChunkDB[g].container = current =>
              fp2ChunkDB[g].offset + fp2ChunkDB[g].length <= used
  BY <1>1, <1>2, <1>9 DEF IInv, IndexInv, TypeOK
<1>12. IndexedChunksReadable'
  <2> SUFFICES ASSUME NEW g \in Chunk, fp2ChunkDB[g] # NoEntry
               PROVE  LET m == fp2ChunkDB[g]
                      IN  ContainerBytes(m.container)' # NoFile
                          /\ Holds(ContainerBytes(m.container)', m, g)
    BY <1>1 DEF IndexedChunksReadable, ContainerBytes
  <2> DEFINE m == fp2ChunkDB[g]
  <2>1. m \in Location /\ ContainerBytes(m.container) # NoFile
        /\ Holds(ContainerBytes(m.container), m, g)
    BY <1>11 DEF IInv, IndexedChunksReadable
  <2>2. m.container \in Name /\ m.container # current'
        /\ ContainerBytes(m.container)' = containers'[m.container]
    BY <1>1, <1>4, <1>11, <2>1 DEF ContainerBytes, Location
  <2>3. CASE m.container = current
    <3>1. Holds(body, m, g) /\ m.offset + m.length <= used
      BY <1>1, <1>11, <2>1, <2>3 DEF ContainerBytes
    <3>2. \A i \in Position : i < m.offset + m.length => f[i] = body[i]
      BY <1>3, <1>7, <2>1, <3>1 DEF Position, Location
    <3>3. Holds(f, m, g)
      BY <2>1, <3>1, <3>2, HoldsKept
    <3>4. containers'[m.container] = f
      BY <1>1, <1>2, <2>2, <2>3 DEF TypeOK
    <3>5. f # NoFile
      BY <1>7, StorageAssumption DEF Body, Byte, Position
    <3> QED BY <2>2, <3>3, <3>4, <3>5
  <2>4. CASE m.container # current
    <3>1. containers'[m.container] = containers[m.container]
      BY <1>1, <1>2, <2>2, <2>4 DEF TypeOK
    <3>2. ContainerBytes(m.container) = containers[m.container]
      BY <2>4 DEF ContainerBytes
    <3> QED BY <2>1, <2>2, <3>1, <3>2
  <2> QED BY <2>3, <2>4
<1>13. NeverWrongBytes'
  BY <1>1 DEF IInv, NeverWrongBytes
<1>14. FrontierInv'
  <2>1. \A n \in Name : containers'[n] # NoFile => n <= current
    BY <1>1, <1>2, <1>3, <1>4 DEF IInv, FrontierInv, TypeOK
  <2>2. containers'[current + 1] = NoFile
    BY <1>3, <1>4, <2>1
  <2>3. \A n \in Name : n <= current => n <= current + 1
    BY <1>3, <1>4
  <2> QED BY <1>1, <1>3, <2>1, <2>2, <2>3 DEF FrontierInv
<1>15. IndexInv'
  <2>1. \A g \in Chunk : fp2ChunkDB[g] # NoEntry =>
          fp2ChunkDB[g].container \in Name /\ fp2ChunkDB[g].container <= current
    BY <1>11 DEF Location
  <2>2. \A n \in Name : n <= current => n <= current + 1 /\ n # current + 1
    BY <1>3, <1>4
  <2> QED BY <1>1, <2>1, <2>2 DEF IndexInv
<1>16. DownInv'
  BY <1>1 DEF DownInv
<1>17. StoringInv'
  BY <1>1, <1>3, <1>6, <1>9, <1>10 DEF StoringInv, l
<1>18. RestoringInv'
  BY <1>9, <1>10 DEF RestoringInv
<1>19. CacheInv'
  <2>1. \A n \in CachedNames(cache) : n \in Name /\ n < current /\ n < current + 1
                                      /\ n # current
    BY <1>3, <1>4 DEF IInv, CacheInv, CachedNames
  <2>2. \A n \in CachedNames(cache) : containers'[n] = containers[n]
    BY <1>1, <1>2, <2>1 DEF TypeOK
  <2>3. CachedNames(cache)' = CachedNames(cache)
    BY <1>1 DEF CachedNames
  <2> QED BY <1>1, <2>1, <2>2, <2>3 DEF IInv, CacheInv
<1> QED BY <1>8, <1>12, <1>13, <1>14, <1>15, <1>16, <1>17, <1>18, <1>19 DEF IInv

(* Indexing the chunk just written: it stands at the frontier.             *)
LEMMA InsertIInv ==
  ASSUME IInv, SingleThread, NEW t \in DataThread, InsertChunk(t)
  PROVE  IInv'
<1> DEFINE h == chunk[t]
           l == key[t]
<1>1. /\ up /\ pc[t] = "written"
      /\ fp2ChunkDB' = [fp2ChunkDB EXCEPT ![h] = l]
      /\ pc' = [pc EXCEPT ![t] = "inserted"]
      /\ UNCHANGED <<containers, storageConfig, up, current, used, body>>
      /\ UNCHANGED <<readContainer, cache, chunk, key, reply>>
  BY DEF InsertChunk, process
<1>2. TypeOK
  BY DEF IInv
<1>3. h \in Chunk /\ l \in Location /\ l # NoEntry
  BY <1>2, StorageAssumption DEF TypeOK, Location
<1>4. /\ l.container = current /\ l.offset = used
      /\ used + l.length < MaxContainerSize /\ Holds(body, l, h)
  BY <1>1 DEF IInv, StoringInv
<1> HIDE DEF h, l
<1>5. TypeOK'
  BY <1>1, <1>2, <1>3 DEF TypeOK, ProgramPoint
<1>6. \A s \in DataThread : s = t
  BY DEF SingleThread
<1>7. /\ fp2ChunkDB'[h] = l /\ pc'[t] = "inserted"
      /\ \A g \in Chunk : g # h => fp2ChunkDB'[g] = fp2ChunkDB[g]
  BY <1>1, <1>2, <1>3 DEF TypeOK
<1>8. IndexedChunksReadable'
  <2> SUFFICES ASSUME NEW g \in Chunk, fp2ChunkDB'[g] # NoEntry
               PROVE  LET m == fp2ChunkDB'[g]
                      IN  ContainerBytes(m.container) # NoFile
                          /\ Holds(ContainerBytes(m.container), m, g)
    BY <1>1 DEF IndexedChunksReadable, ContainerBytes, Holds
  <2>1. CASE g = h
    <3>1. body # NoFile
      BY <1>2, StorageAssumption DEF TypeOK, Body, Byte, Position
    <3> QED BY <1>1, <1>4, <1>7, <2>1, <3>1 DEF ContainerBytes
  <2>2. CASE g # h
    BY <1>1, <1>7, <2>2 DEF IInv, IndexedChunksReadable, ContainerBytes
  <2> QED BY <2>1, <2>2
<1>9. NeverWrongBytes' /\ FrontierInv'
  BY <1>1 DEF IInv, NeverWrongBytes, FrontierInv
<1>10. IndexInv'
  <2> SUFFICES ASSUME NEW g \in Chunk, fp2ChunkDB'[g] # NoEntry
               PROVE  /\ fp2ChunkDB'[g].container <= current
                      /\ fp2ChunkDB'[g].container = current =>
                           \/ fp2ChunkDB'[g].offset + fp2ChunkDB'[g].length <= used
                           \/ \E s \in DataThread : pc'[s] = "inserted" /\ key[s] = fp2ChunkDB'[g]
    BY <1>1 DEF IndexInv
  <2>1. CASE g = h
    BY <1>2, <1>4, <1>7, <2>1, StorageAssumption DEF l, TypeOK
  <2>2. CASE g # h
    BY <1>1, <1>6, <1>7, <2>2 DEF IInv, IndexInv
  <2> QED BY <2>1, <2>2
<1>11. DownInv' /\ RestoringInv'
  BY <1>1, <1>6, <1>7 DEF DownInv, RestoringInv
<1>12. StoringInv'
  BY <1>1, <1>4, <1>6, <1>7 DEF StoringInv, h, l
<1>13. CacheInv'
  BY <1>1 DEF IInv, CacheInv, CachedNames
<1> QED BY <1>5, <1>8, <1>9, <1>10, <1>11, <1>12, <1>13 DEF IInv

(* Advancing the frontier puts the chunk just indexed below it.            *)
LEMMA AdvanceIInv ==
  ASSUME IInv, SingleThread, NEW t \in DataThread, AdvanceUsed(t)
  PROVE  IInv'
<1> DEFINE l == key[t]
<1>1. /\ up /\ pc[t] = "inserted" /\ used' = used + l.length
      /\ pc' = [pc EXCEPT ![t] = "idle"]
      /\ UNCHANGED <<fp2ChunkDB, containers, storageConfig, up, current, body>>
      /\ UNCHANGED <<readContainer, cache, chunk, key, reply>>
  BY DEF AdvanceUsed, durable
<1>2. TypeOK
  BY DEF IInv
<1>3. /\ l \in Location /\ l.length \in Nat /\ used \in Nat
      /\ l.container = current /\ l.offset = used /\ used + l.length < MaxContainerSize
  BY <1>1, <1>2 DEF IInv, StoringInv, TypeOK, Location
<1> HIDE DEF l
<1>4. TypeOK'
  BY <1>1, <1>2, <1>3 DEF TypeOK, ProgramPoint
<1>5. \A s \in DataThread : s = t
  BY DEF SingleThread
<1>6. pc'[t] = "idle"
  BY <1>1, <1>2 DEF TypeOK
<1>7. IndexedChunksReadable' /\ NeverWrongBytes'
  BY <1>1 DEF IInv, IndexedChunksReadable, ContainerBytes, NeverWrongBytes
<1>8. FrontierInv'
  <2>1. \A i \in Position : i < used => i < used + l.length
    BY <1>3, StorageAssumption DEF Position
  <2>2. used + l.length < MaxContainerSize
    BY <1>3
  <2> QED BY <1>1, <2>1, <2>2 DEF IInv, FrontierInv
<1>9. IndexInv'
  <2> SUFFICES ASSUME NEW g \in Chunk, fp2ChunkDB[g] # NoEntry,
                      fp2ChunkDB[g].container = current
               PROVE  fp2ChunkDB[g].offset + fp2ChunkDB[g].length <= used + l.length
    BY <1>1 DEF IInv, IndexInv
  <2>1. fp2ChunkDB[g] \in Location
    BY <1>2 DEF TypeOK
  <2>2. CASE fp2ChunkDB[g].offset + fp2ChunkDB[g].length <= used
    BY <1>3, <2>1, <2>2 DEF Location
  <2>3. CASE fp2ChunkDB[g] = l
    BY <1>3, <2>3
  <2> QED BY <1>1, <1>5, <2>2, <2>3 DEF IInv, IndexInv, l
<1>10. DownInv' /\ StoringInv' /\ RestoringInv'
  BY <1>1, <1>5, <1>6 DEF DownInv, StoringInv, RestoringInv
<1>11. CacheInv'
  BY <1>1 DEF IInv, CacheInv, CachedNames
<1> QED BY <1>4, <1>7, <1>8, <1>9, <1>10, <1>11 DEF IInv
(* A step that leaves the store alone keeps what the invariant says of it. *)
LEMMA QuietStepIInv ==
  ASSUME IInv, up,
         UNCHANGED <<fp2ChunkDB, containers, storageConfig, up, current, used, body>>,
         \A s \in DataThread : pc[s] = "inserted" => pc'[s] = "inserted" /\ key'[s] = key[s],
         TypeOK', NeverWrongBytes', StoringInv', RestoringInv', CacheInv'
  PROVE  IInv'
<1>1. IndexedChunksReadable'
  BY DEF IInv, IndexedChunksReadable, ContainerBytes
<1>2. FrontierInv' /\ DownInv'
  BY DEF IInv, FrontierInv, DownInv
<1>3. IndexInv'
  BY DEF IInv, IndexInv
<1> QED BY <1>1, <1>2, <1>3 DEF IInv

(* Sending the chunk, or zeros, is never sending wrong bytes.              *)
LEMMA SendProperties ==
  ASSUME TypeOK, NeverWrongBytes, NEW t \in DataThread, NEW h \in Chunk, NEW d,
         d = ChunkBytes[h] \/ d = ZeroBytes[h], Send(t, h, d)
  PROVE  /\ reply' \in [DataThread -> Reply \cup {NoReply}]
         /\ NeverWrongBytes'
<1>1. ChunkSize[h] \in Nat
  BY StorageAssumption
<1>2. ChunkBytes[h] \in [0 .. ChunkSize[h] - 1 -> Byte]
  BY <1>1, StorageAssumption DEF ChunkBytes, Byte, Position
<1>3. ZeroBytes[h] \in [0 .. ChunkSize[h] - 1 -> Byte]
  BY <1>1 DEF ZeroBytes, Byte
<1>4. [chunk |-> h, data |-> d] \in Reply
  BY <1>2, <1>3 DEF Reply
<1>5. reply \in [DataThread -> Reply \cup {NoReply}]
  BY DEF TypeOK
<1>6. reply' = [reply EXCEPT ![t] = [chunk |-> h, data |-> d]]
  BY DEF Send
<1>7. reply' \in [DataThread -> Reply \cup {NoReply}]
  BY <1>4, <1>5, <1>6
<1>8. NeverWrongBytes'
  <2> SUFFICES ASSUME NEW s \in DataThread, reply'[s] # NoReply
               PROVE  reply'[s].data \in {ChunkBytes[reply'[s].chunk], ZeroBytes[reply'[s].chunk]}
    BY DEF NeverWrongBytes
  <2>1. CASE s = t
    BY <1>5, <1>6, <2>1
  <2>2. CASE s # t
    BY <1>5, <1>6, <2>2 DEF NeverWrongBytes
  <2> QED BY <2>1, <2>2
<1> QED BY <1>7, <1>8

(* A restoring thread's entry still tells where its chunk is.              *)
LEMMA RestoringHolds ==
  ASSUME IInv, up, NEW t \in DataThread,
         pc[t] \in {"queried", "copyCurrent", "copyCached", "copyLoaded"}
  PROVE  /\ chunk[t] \in Chunk /\ key[t] \in Location /\ fp2ChunkDB[chunk[t]] = key[t]
         /\ ContainerBytes(key[t].container) # NoFile
         /\ Holds(ContainerBytes(key[t].container), key[t], chunk[t])
         /\ key[t].container <= current
         /\ CopyOut(ContainerBytes(key[t].container), key[t]) = ChunkBytes[chunk[t]]
<1>1. chunk[t] \in Chunk /\ key[t] \in Location /\ fp2ChunkDB[chunk[t]] = key[t]
  BY DEF IInv, TypeOK, RestoringInv
<1>2. key[t] # NoEntry
  BY <1>1, StorageAssumption DEF Location
<1>3. /\ ContainerBytes(key[t].container) # NoFile
      /\ Holds(ContainerBytes(key[t].container), key[t], chunk[t])
  BY <1>1, <1>2 DEF IInv, IndexedChunksReadable
<1>4. key[t].container <= current
  BY <1>1, <1>2 DEF IInv, IndexInv
<1> QED BY <1>1, <1>3, <1>4, HoldsGivesBytes

(* The steps of a restore, and a store that fails to index its chunk.      *)
LEMMA RestoreIInv ==
  ASSUME IInv, SingleThread, NEW t \in DataThread, InsertFails(t) \/ RestoreStep(t)
  PROVE  IInv'
<1>1. TypeOK /\ NeverWrongBytes /\ StoringInv /\ RestoringInv /\ CacheInv
  BY DEF IInv
<1>2. \A s \in DataThread : s = t
  BY DEF SingleThread
<1>3. CASE InsertFails(t)
  <2>1. /\ up /\ pc[t] = "written" /\ pc' = [pc EXCEPT ![t] = "idle"]
        /\ UNCHANGED <<fp2ChunkDB, containers, storageConfig, up, current, used, body>>
        /\ UNCHANGED <<readContainer, cache, chunk, key, reply>>
    BY <1>3 DEF InsertFails, durable, process
  <2>2. TypeOK'
    BY <1>1, <2>1 DEF TypeOK, ProgramPoint
  <2>3. pc'[t] = "idle"
    BY <1>1, <2>1 DEF TypeOK
  <2>4. NeverWrongBytes' /\ StoringInv' /\ RestoringInv'
    BY <1>1, <1>2, <2>1, <2>3 DEF NeverWrongBytes, StoringInv, RestoringInv
  <2>5. CacheInv'
    BY <1>1, <2>1 DEF CacheInv, CachedNames
  <2> QED BY <1>2, <2>1, <2>2, <2>4, <2>5, QuietStepIInv
<1>4. ASSUME NEW h \in Chunk, RestoreMissing(t, h)
      PROVE  IInv'
  <2>1. /\ up /\ Send(t, h, ZeroBytes[h])
        /\ UNCHANGED <<fp2ChunkDB, containers, storageConfig, up, current, used, body>>
        /\ UNCHANGED <<readContainer, cache, pc, chunk, key>>
    BY <1>4 DEF RestoreMissing, Idle, durable, process
  <2>2. reply' \in [DataThread -> Reply \cup {NoReply}] /\ NeverWrongBytes'
    BY <1>1, <2>1, SendProperties
  <2>3. TypeOK'
    BY <1>1, <2>1, <2>2 DEF TypeOK
  <2>4. StoringInv' /\ RestoringInv'
    BY <1>1, <2>1 DEF StoringInv, RestoringInv
  <2>5. CacheInv'
    BY <1>1, <2>1 DEF CacheInv, CachedNames
  <2> QED BY <2>1, <2>2, <2>3, <2>4, <2>5, QuietStepIInv
<1>5. ASSUME NEW h \in Chunk, QueryChunk(t, h)
      PROVE  IInv'
  <2>1. /\ up /\ pc[t] = "idle" /\ fp2ChunkDB[h] # NoEntry
        /\ key' = [key EXCEPT ![t] = fp2ChunkDB[h]] /\ chunk' = [chunk EXCEPT ![t] = h]
        /\ pc' = [pc EXCEPT ![t] = "queried"]
        /\ UNCHANGED <<fp2ChunkDB, containers, storageConfig, up, current, used, body>>
        /\ UNCHANGED <<readContainer, cache, reply>>
    BY <1>5 DEF QueryChunk, Idle, durable, process
  <2>2. TypeOK'
    BY <1>1, <2>1 DEF TypeOK, ProgramPoint
  <2>3. pc'[t] = "queried" /\ key'[t] = fp2ChunkDB[h] /\ chunk'[t] = h
    BY <1>1, <2>1 DEF TypeOK
  <2>4. NeverWrongBytes' /\ StoringInv' /\ RestoringInv'
    BY <1>1, <1>2, <2>1, <2>3 DEF NeverWrongBytes, StoringInv, RestoringInv
  <2>5. CacheInv'
    BY <1>1, <2>1 DEF CacheInv, CachedNames
  <2> QED BY <1>2, <2>1, <2>2, <2>4, <2>5, QuietStepIInv
<1>6. CASE ChooseCurrent(t)
  <2>1. /\ up /\ pc[t] = "queried" /\ key[t].container = current
        /\ pc' = [pc EXCEPT ![t] = "copyCurrent"]
        /\ UNCHANGED <<fp2ChunkDB, containers, storageConfig, up, current, used, body>>
        /\ UNCHANGED <<readContainer, cache, chunk, key, reply>>
    BY <1>6 DEF ChooseCurrent, durable, process
  <2>2. TypeOK'
    BY <1>1, <2>1 DEF TypeOK, ProgramPoint
  <2>3. pc'[t] = "copyCurrent"
    BY <1>1, <2>1 DEF TypeOK
  <2>4. NeverWrongBytes' /\ StoringInv' /\ RestoringInv'
    BY <1>1, <1>2, <2>1, <2>3 DEF NeverWrongBytes, StoringInv, RestoringInv
  <2>5. CacheInv'
    BY <1>1, <2>1 DEF CacheInv, CachedNames
  <2> QED BY <1>2, <2>1, <2>2, <2>4, <2>5, QuietStepIInv
<1>7. CASE ChooseCached(t)
  <2> DEFINE n == key[t].container
             c == GetFromCache(cache, n)
  <2>1. /\ up /\ pc[t] = "queried" /\ n # current /\ ExistsInCache(cache, n)
        /\ cache' = c /\ pc' = [pc EXCEPT ![t] = "copyCached"]
        /\ UNCHANGED <<fp2ChunkDB, containers, storageConfig, up, current, used, body>>
        /\ UNCHANGED <<readContainer, chunk, key, reply>>
    BY <1>7 DEF ChooseCached, durable
  <2>2. n \in Name
    BY <1>1 DEF TypeOK, Location
  <2>3. WellFormed(c, Body) /\ c.slot = cache.slot /\ c.pool = cache.pool
    BY <1>1, <2>1, <2>2, GetKeepsWellFormed DEF CacheInv
  <2> HIDE DEF c
  <2>4. TypeOK'
    BY <1>1, <2>1, <2>3 DEF TypeOK, ProgramPoint, WellFormed
  <2>5. pc'[t] = "copyCached"
    BY <1>1, <2>1 DEF TypeOK
  <2>6. NeverWrongBytes' /\ StoringInv' /\ RestoringInv'
    BY <1>1, <1>2, <2>1, <2>3, <2>5
    DEF NeverWrongBytes, StoringInv, RestoringInv, ExistsInCache
  <2>7. CacheInv'
    BY <1>1, <2>1, <2>3 DEF CacheInv, CachedNames
  <2> QED BY <1>2, <2>1, <2>4, <2>6, <2>7, QuietStepIInv
<1>8. CASE LoadContainer(t)
  <2> DEFINE n == key[t].container
  <2>1. /\ up /\ pc[t] = "queried" /\ n # current /\ ~ ExistsInCache(cache, n)
        /\ containers[n] # NoFile
        /\ readContainer' = containers[n] /\ pc' = [pc EXCEPT ![t] = "copyLoaded"]
        /\ UNCHANGED <<fp2ChunkDB, containers, storageConfig, up, current, used, body>>
        /\ UNCHANGED <<cache, chunk, key, reply>>
    BY <1>8 DEF LoadContainer, durable
  <2>2. n \in Name
    BY <1>1 DEF TypeOK, Location
  <2>3. TypeOK'
    BY <1>1, <2>1, <2>2 DEF TypeOK, ProgramPoint
  <2>4. pc'[t] = "copyLoaded"
    BY <1>1, <2>1 DEF TypeOK
  <2>5. NeverWrongBytes' /\ StoringInv' /\ RestoringInv'
    BY <1>1, <1>2, <2>1, <2>4 DEF NeverWrongBytes, StoringInv, RestoringInv
  <2>6. CacheInv'
    BY <1>1, <2>1 DEF CacheInv, CachedNames
  <2> QED BY <1>2, <2>1, <2>3, <2>5, <2>6, QuietStepIInv
<1>9. CASE CopyCurrent(t)
  <2>1. /\ up /\ pc[t] = "copyCurrent" /\ pc' = [pc EXCEPT ![t] = "idle"]
        /\ Send(t, chunk[t], CopyOut(body, key[t]))
        /\ UNCHANGED <<fp2ChunkDB, containers, storageConfig, up, current, used, body>>
        /\ UNCHANGED <<readContainer, cache, chunk, key>>
    BY <1>9 DEF CopyCurrent, durable, process
  <2>2. ContainerBytes(key[t].container) = body
    BY <1>1, <2>1 DEF RestoringInv, ContainerBytes
  <2>3. chunk[t] \in Chunk /\ CopyOut(body, key[t]) = ChunkBytes[chunk[t]]
    BY <2>1, <2>2, RestoringHolds
  <2>4. reply' \in [DataThread -> Reply \cup {NoReply}] /\ NeverWrongBytes'
    BY <1>1, <2>1, <2>3, SendProperties
  <2>5. TypeOK'
    BY <1>1, <2>1, <2>4 DEF TypeOK, ProgramPoint
  <2>6. pc'[t] = "idle"
    BY <1>1, <2>1 DEF TypeOK
  <2>7. StoringInv' /\ RestoringInv'
    BY <1>2, <2>6 DEF StoringInv, RestoringInv
  <2>8. CacheInv'
    BY <1>1, <2>1 DEF CacheInv, CachedNames
  <2> QED BY <1>2, <2>1, <2>4, <2>5, <2>7, <2>8, QuietStepIInv
<1>10. CASE CopyCached(t)
  <2> DEFINE n == key[t].container
             d == CopyOut(cache.pool[cache.slot[n]], key[t])
  <2>1. /\ up /\ pc[t] = "copyCached" /\ pc' = [pc EXCEPT ![t] = "idle"]
        /\ Send(t, chunk[t], d)
        /\ UNCHANGED <<fp2ChunkDB, containers, storageConfig, up, current, used, body>>
        /\ UNCHANGED <<readContainer, cache, chunk, key>>
    BY <1>10 DEF CopyCached, durable, process
  <2>2. n # current /\ n \in CachedNames(cache)
    BY <1>1, <2>1 DEF RestoringInv, ExistsInCache, CachedNames, TypeOK, Location
  <2>3. cache.pool[cache.slot[n]] = ContainerBytes(n)
    BY <1>1, <2>2 DEF CacheInv, ContainerBytes
  <2>4. chunk[t] \in Chunk /\ d = ChunkBytes[chunk[t]]
    BY <2>1, <2>3, RestoringHolds
  <2> HIDE DEF d
  <2>5. reply' \in [DataThread -> Reply \cup {NoReply}] /\ NeverWrongBytes'
    BY <1>1, <2>1, <2>4, SendProperties
  <2>6. TypeOK'
    BY <1>1, <2>1, <2>5 DEF TypeOK, ProgramPoint
  <2>7. pc'[t] = "idle"
    BY <1>1, <2>1 DEF TypeOK
  <2>8. StoringInv' /\ RestoringInv'
    BY <1>2, <2>7 DEF StoringInv, RestoringInv
  <2>9. CacheInv'
    BY <1>1, <2>1 DEF CacheInv, CachedNames
  <2> QED BY <1>2, <2>1, <2>5, <2>6, <2>8, <2>9, QuietStepIInv
<1>11. CASE CopyLoaded(t)
  <2> DEFINE n == key[t].container
             c == InsertToCache(cache, n, readContainer)
  <2>1. /\ up /\ pc[t] = "copyLoaded" /\ pc' = [pc EXCEPT ![t] = "idle"]
        /\ Send(t, chunk[t], CopyOut(readContainer, key[t])) /\ cache' = c
        /\ UNCHANGED <<fp2ChunkDB, containers, storageConfig, up, current, used, body>>
        /\ UNCHANGED <<readContainer, chunk, key>>
    BY <1>11 DEF CopyLoaded, durable
  <2>2. /\ n # current /\ ~ ExistsInCache(cache, n) /\ readContainer = containers[n]
        /\ n \in Name /\ readContainer \in Body
    BY <1>1, <2>1 DEF RestoringInv, TypeOK, Location
  <2>3. readContainer = ContainerBytes(n)
    BY <2>2 DEF ContainerBytes
  <2>4. /\ chunk[t] \in Chunk /\ CopyOut(readContainer, key[t]) = ChunkBytes[chunk[t]]
        /\ n <= current
    BY <2>1, <2>3, RestoringHolds
  <2>5. n < current
    BY <1>1, <2>2, <2>4, StorageAssumption DEF TypeOK
  <2>6. /\ WellFormed(c, Body) /\ c.pool[c.slot[n]] = readContainer
        /\ \A m \in CachedNames(c) :
             m = n \/ (m \in CachedNames(cache) /\ c.pool[c.slot[m]] = cache.pool[cache.slot[m]])
    <3>1. WellFormed(cache, Body)
      BY <1>1 DEF CacheInv
    <3> HIDE DEF n
    <3> QED BY <2>2, <3>1, InsertKeepsWellFormed
  <2> HIDE DEF c
  <2>7. reply' \in [DataThread -> Reply \cup {NoReply}] /\ NeverWrongBytes'
    BY <1>1, <2>1, <2>4, SendProperties
  <2>8. TypeOK'
    BY <1>1, <2>1, <2>6, <2>7 DEF TypeOK, ProgramPoint, WellFormed
  <2>9. pc'[t] = "idle"
    BY <1>1, <2>1 DEF TypeOK
  <2>10. StoringInv' /\ RestoringInv'
    BY <1>2, <2>9 DEF StoringInv, RestoringInv
  <2>11. CacheInv'
    <3>1. WellFormed(cache', Body)
      BY <2>1, <2>6
    <3>2. \A m \in CachedNames(c) : m < current /\ c.pool[c.slot[m]] = containers[m]
      BY <1>1, <2>2, <2>5, <2>6 DEF CacheInv
    <3> QED BY <2>1, <3>1, <3>2 DEF CacheInv, CachedNames
  <2> QED BY <1>2, <2>1, <2>7, <2>8, <2>10, <2>11, QuietStepIInv
<1> QED BY <1>3, <1>4, <1>5, <1>6, <1>7, <1>8, <1>9, <1>10, <1>11 DEF RestoreStep
-----------------------------------------------------------------------------
(* A stop saves the current container below its frontier, and its file     *)
(* then holds everything the index knows of it.                            *)
LEMMA ShutdownIInv ==
  ASSUME IInv, Shutdown
  PROVE  IInv'
<1> DEFINE f == Prefix(body, used)
<1>1. /\ up /\ \A t \in DataThread : pc[t] = "idle"
      /\ storageConfig' = [name |-> current, used |-> used]
      /\ containers' = [containers EXCEPT ![current] = f]
      /\ up' = FALSE /\ current' = 0 /\ used' = 0 /\ body' = BlankBody
      /\ readContainer' = BlankBody /\ cache' = EmptyCache(BlankBody)
      /\ pc' = [t \in DataThread |-> "idle"]
      /\ reply' = [t \in DataThread |-> NoReply]
      /\ UNCHANGED <<fp2ChunkDB, chunk, key>>
  BY DEF Shutdown, Interrupt, LoseMemory
<1>2. TypeOK /\ FrontierInv /\ IndexInv
  BY DEF IInv
<1>3. /\ current \in Name /\ used \in Nat /\ 0 \in Name /\ Name \subseteq Nat
      /\ MaxContainerSize \in Nat
  BY <1>2, StorageAssumption DEF TypeOK
<1>4. /\ f \in Body
      /\ \A i \in Position : i < used => f[i] = body[i]
      /\ \A i \in Position : used <= i => f[i] = Zero
  BY <1>2, PrefixProperties DEF TypeOK
<1>5. f # NoFile
  BY <1>4, StorageAssumption DEF Body, Byte, Position
<1> HIDE DEF f
<1>6. BlankBody \in Body
  BY DEF BlankBody, Body, Byte
<1>7. WellFormed(cache', Body) /\ CachedNames(cache') = {}
  BY <1>1, <1>6, EmptyCacheWellFormed DEF CachedNames, EmptyCache
<1>8. storageConfig' \in [name : Name, used : Nat] \cup {NoConfig}
  BY <1>1, <1>3
<1>9. TypeOK'
  BY <1>1, <1>2, <1>3, <1>4, <1>6, <1>7, <1>8 DEF TypeOK, ProgramPoint, WellFormed
<1>10. /\ storageConfig' # NoConfig
       /\ storageConfig'.name = current /\ storageConfig'.used = used
  BY <1>1, <1>3, StorageAssumption
<1>11. containers'[current] = f /\ \A n \in Name : n # current => containers'[n] = containers[n]
  BY <1>1, <1>2, <1>3 DEF TypeOK
<1>12. \A g \in Chunk : fp2ChunkDB[g] # NoEntry =>
         /\ fp2ChunkDB[g] \in Location
         /\ fp2ChunkDB[g].container <= current
         /\ fp2ChunkDB[g].container = current =>
              fp2ChunkDB[g].offset + fp2ChunkDB[g].length <= used
  BY <1>1, <1>2 DEF IndexInv, TypeOK
<1>13. IndexedChunksReadable'
  <2> SUFFICES ASSUME NEW g \in Chunk, fp2ChunkDB[g] # NoEntry
               PROVE  LET m == fp2ChunkDB[g]
                      IN  ContainerBytes(m.container)' # NoFile
                          /\ Holds(ContainerBytes(m.container)', m, g)
    BY <1>1 DEF IndexedChunksReadable, ContainerBytes
  <2> DEFINE m == fp2ChunkDB[g]
  <2>1. m \in Location /\ ContainerBytes(m.container) # NoFile
        /\ Holds(ContainerBytes(m.container), m, g)
    BY <1>12 DEF IInv, IndexedChunksReadable
  <2>2. m.container \in Name /\ ContainerBytes(m.container)' = containers'[m.container]
    BY <1>1, <2>1 DEF ContainerBytes, Location
  <2>3. CASE m.container = current
    <3>1. Holds(body, m, g) /\ m.offset + m.length <= used
      BY <1>1, <1>12, <2>1, <2>3 DEF ContainerBytes
    <3>2. m.offset \in Nat /\ m.length \in Nat
      BY <2>1 DEF Location
    <3>3. \A i \in Position : i < m.offset + m.length => f[i] = body[i]
      BY <1>3, <1>4, <3>1, <3>2 DEF Position
    <3>4. Holds(f, m, g)
      BY <2>1, <3>1, <3>3, HoldsKept
    <3> QED BY <1>5, <1>11, <2>2, <2>3, <3>4
  <2>4. CASE m.container # current
    BY <1>1, <1>11, <2>1, <2>2, <2>4 DEF ContainerBytes
  <2> QED BY <2>3, <2>4
<1>14. NeverWrongBytes'
  BY <1>1 DEF NeverWrongBytes
<1>15. DownInv'
  <2>1. \A n \in Name : containers'[n] # NoFile => n <= current
    BY <1>1, <1>2, <1>3, <1>11 DEF FrontierInv
  <2>2. used < MaxContainerSize
    BY <1>1, <1>2 DEF FrontierInv
  <2>3. \A t \in DataThread : pc'[t] = "idle"
    BY <1>1
  <2>4. \A i \in Position : used <= i => containers'[current][i] = Zero
    BY <1>4, <1>11
  <2>5. fp2ChunkDB' = fp2ChunkDB
    BY <1>1
  <2> QED BY <1>5, <1>7, <1>10, <1>11, <1>12, <2>1, <2>2, <2>3, <2>4, <2>5 DEF DownInv
<1>16. FrontierInv' /\ IndexInv'
  BY <1>1 DEF FrontierInv, IndexInv
<1>17. StoringInv' /\ RestoringInv'
  BY <1>1 DEF StoringInv, RestoringInv
<1>18. CacheInv'
  BY <1>7 DEF CacheInv
<1> QED BY <1>9, <1>13, <1>14, <1>15, <1>16, <1>17, <1>18 DEF IInv

(* A start reads back the container the stop saved, and goes on filling it *)
(* where the stop left it.                                                 *)
LEMMA StartIInv ==
  ASSUME IInv, Start
  PROVE  IInv'
<1>1. /\ TypeOK /\ DownInv /\ ~ up /\ storageConfig # NoConfig
      /\ containers[storageConfig.name] # NoFile
  BY DEF IInv, DownInv, Start
<1> DEFINE n == storageConfig.name
           u == storageConfig.used
           b == Prefix(containers[n], u)
<1>2. /\ up' = TRUE /\ current' = n /\ used' = u /\ body' = b
      /\ UNCHANGED <<fp2ChunkDB, containers, storageConfig, readContainer, cache>>
      /\ UNCHANGED <<pc, chunk, key, reply>>
  BY <1>1 DEF Start, durable, threads
<1>3. /\ n \in Name /\ u \in Nat /\ u < MaxContainerSize /\ containers[n] \in Body
      /\ Name \subseteq Nat
  BY <1>1, StorageAssumption DEF TypeOK, DownInv
<1>4. /\ b \in Body
      /\ \A i \in Position : i < u => b[i] = containers[n][i]
      /\ \A i \in Position : u <= i => b[i] = Zero
  BY <1>3, PrefixProperties
<1>5. /\ \A m \in Name : containers[m] # NoFile => m <= n
      /\ \A i \in Position : u <= i => containers[n][i] = Zero
      /\ \A h \in Chunk : fp2ChunkDB[h] # NoEntry =>
           /\ fp2ChunkDB[h].container <= n
           /\ fp2ChunkDB[h].container = n => fp2ChunkDB[h].offset + fp2ChunkDB[h].length <= u
      /\ CachedNames(cache) = {}
      /\ \A t \in DataThread : pc[t] = "idle"
  BY <1>1 DEF DownInv
<1>6. \A i \in Position : b[i] = containers[n][i]
  <2> TAKE i \in Position
  <2>1. i \in Nat
    BY StorageAssumption DEF Position
  <2> HIDE DEF b
  <2>2. i < u \/ u <= i
    BY <1>3, <2>1
  <2> QED BY <1>4, <1>5, <2>2
<1> HIDE DEF b, n, u
<1>7. TypeOK'
  BY <1>1, <1>2, <1>3, <1>4 DEF TypeOK
<1>8. IndexedChunksReadable'
  <2> SUFFICES ASSUME NEW g \in Chunk, fp2ChunkDB[g] # NoEntry
               PROVE  LET m == fp2ChunkDB[g]
                      IN  ContainerBytes(m.container)' # NoFile
                          /\ Holds(ContainerBytes(m.container)', m, g)
    BY <1>2 DEF IndexedChunksReadable, ContainerBytes
  <2> DEFINE m == fp2ChunkDB[g]
  <2>1. /\ containers[m.container] # NoFile
        /\ Holds(containers[m.container], m, g)
    BY <1>1 DEF IInv, IndexedChunksReadable, ContainerBytes
  <2>2. m \in Location
    BY <1>1 DEF TypeOK
  <2>3. CASE m.container = n
    <3>1. Holds(b, m, g)
      BY <1>6, <2>1, <2>2, <2>3, HoldsKept
    <3>2. b # NoFile
      BY <1>4, StorageAssumption DEF Body, Byte, Position
    <3> QED BY <1>2, <2>3, <3>1, <3>2 DEF ContainerBytes
  <2>4. CASE m.container # n
    BY <1>2, <2>1, <2>4 DEF ContainerBytes
  <2> QED BY <2>3, <2>4
<1>9. NeverWrongBytes'
  BY <1>2 DEF IInv, NeverWrongBytes
<1>10. FrontierInv'
  <2>1. \A i \in Position : containers[n][i] # Zero => i < u /\ b[i] = containers[n][i]
    <3> SUFFICES ASSUME NEW i \in Position, containers[n][i] # Zero
                 PROVE  i < u
      BY <1>6
    <3>1. i \in Nat
      BY StorageAssumption DEF Position
    <3> QED BY <1>3, <1>5, <3>1
  <2> QED BY <1>2, <1>3, <1>5, <2>1 DEF FrontierInv
<1>11. IndexInv'
  BY <1>2, <1>5 DEF IndexInv
<1>12. DownInv' /\ StoringInv' /\ RestoringInv'
  BY <1>2, <1>5 DEF DownInv, StoringInv, RestoringInv
<1>13. CacheInv'
  BY <1>2, <1>5 DEF IInv, CacheInv, CachedNames
<1> QED BY <1>7, <1>8, <1>9, <1>10, <1>11, <1>12, <1>13 DEF IInv

(* The invariant is inductive.                                             *)
LEMMA NextIInv == IInv /\ SingleThread /\ [Next]_vars => IInv'
<1> SUFFICES ASSUME IInv, SingleThread, [Next]_vars PROVE IInv'
  OBVIOUS
<1>1. ASSUME NEW t \in DataThread, StoreStep(t) PROVE IInv'
  BY <1>1, AppendIInv, RotateIInv, InsertIInv, AdvanceIInv, RestoreIInv DEF StoreStep
<1>2. ASSUME NEW t \in DataThread, RestoreStep(t) PROVE IInv'
  BY <1>2, RestoreIInv
<1>3. CASE Shutdown
  BY <1>3, ShutdownIInv
<1>4. CASE Start
  BY <1>4, StartIInv
<1>5. CASE UNCHANGED vars
  BY <1>5 DEF vars, durable, process, threads, IInv, TypeOK, IndexedChunksReadable,
     ContainerBytes, NeverWrongBytes, FrontierInv, IndexInv, DownInv, StoringInv,
     RestoringInv, CacheInv, CachedNames
<1> QED BY <1>1, <1>2, <1>3, <1>4, <1>5 DEF Next
-----------------------------------------------------------------------------
(* The inductive invariant holds in every reachable state of the store.    *)
THEOREM InductiveInvariant == ASSUME SingleThread PROVE Spec => []IInv
<1>1. IInv /\ [Next]_vars => IInv'
  BY NextIInv
<1> QED BY <1>1, InitIInv, PTL DEF Spec

(* Type correctness.                                                       *)
THEOREM TypeCorrect == ASSUME SingleThread PROVE Spec => []TypeOK
<1>1. IInv => TypeOK
  BY DEF IInv
<1> QED BY <1>1, InductiveInvariant, PTL

(* No store, failed store, rotation or restart loses an indexed chunk.     *)
THEOREM IndexSafe == ASSUME SingleThread PROVE Spec => []IndexedChunksReadable
<1>1. IInv => IndexedChunksReadable
  BY DEF IInv
<1> QED BY <1>1, InductiveInvariant, PTL

(* A client receives the chunk it asked for, or zeros.                     *)
THEOREM RestoreSafe == ASSUME SingleThread PROVE Spec => []NeverWrongBytes
<1>1. IInv => NeverWrongBytes
  BY DEF IInv
<1> QED BY <1>1, InductiveInvariant, PTL

(* The cache never serves the container being filled, nor bytes that       *)
(* differ from the file.                                                   *)
THEOREM CacheSafe == ASSUME SingleThread PROVE Spec => []CacheCoherent
<1>1. ASSUME IInv PROVE CacheCoherent
  <2> DEFINE S == CachedNames(cache)
             q == cache.order
  <2>1. WellFormed(cache, Body) /\ current \in Nat /\ Name \subseteq Nat
    BY <1>1, StorageAssumption DEF IInv, CacheInv, TypeOK
  <2>2. /\ q \in Seq(Name) /\ Len(q) \in Nat /\ DOMAIN q = 1 .. Len(q)
        /\ \A i \in DOMAIN q : q[i] \in S
        /\ \A n \in S : \E i \in DOMAIN q : q[i] = n
        /\ \A i, j \in DOMAIN q : q[i] = q[j] => i = j
        /\ \A m, n \in S : cache.slot[m] = cache.slot[n] => m = n
    BY <2>1 DEF WellFormed, CacheType, CachedNames
  <2>3. \A n \in S : n \in Name /\ n < current /\ cache.pool[cache.slot[n]] = containers[n]
    BY <1>1 DEF IInv, CacheInv, CachedNames
  <2> HIDE DEF S, q
  <2>4. {q[i] : i \in DOMAIN q} = S
    BY <2>2
  <2>5. q \in Bijection(1 .. Len(q), S)
    BY <2>2 DEF Bijection, Injection, Surjection, IsInjective
  <2>6. Len(q) = Cardinality(S)
    BY <2>2, <2>5, FS_CountingElements DEF ExistsBijection
  <2>7. \A n \in S : n # current /\ cache.pool[cache.slot[n]] = containers[n]
    BY <2>1, <2>3
  <2> QED BY <2>2, <2>4, <2>6, <2>7 DEF CacheCoherent, S, q
<1> QED BY <1>1, InductiveInvariant, PTL
-----------------------------------------------------------------------------
(* Saving a container never replaces a byte its file already has.          *)
THEOREM FilesOnlyGrow == ASSUME SingleThread PROVE Spec => ContainerFilesOnlyGrow
<1> DEFINE Grows == \A n \in Name : containers[n] # NoFile =>
                      /\ containers'[n] # NoFile
                      /\ \A i \in Position : containers[n][i] # Zero =>
                           containers'[n][i] = containers[n][i]
<1>1. ASSUME IInv, up, containers' = [containers EXCEPT ![current] = Prefix(body, used)]
      PROVE  Grows
  <2>1. TypeOK /\ FrontierInv
    BY <1>1 DEF IInv
  <2>2. /\ Prefix(body, used) \in Body
        /\ \A i \in Position : i < used => Prefix(body, used)[i] = body[i]
    BY <2>1, PrefixProperties DEF TypeOK
  <2>3. Prefix(body, used) # NoFile
    BY <2>2, StorageAssumption DEF Body, Byte, Position
  <2> SUFFICES ASSUME NEW n \in Name, containers[n] # NoFile
               PROVE  /\ containers'[n] # NoFile
                      /\ \A i \in Position : containers[n][i] # Zero =>
                           containers'[n][i] = containers[n][i]
    OBVIOUS
  <2>4. CASE n = current
    <3>1. containers'[n] = Prefix(body, used)
      BY <1>1, <2>1, <2>4 DEF TypeOK
    <3>2. \A i \in Position : containers[n][i] # Zero => i < used /\ body[i] = containers[n][i]
      BY <1>1, <2>1, <2>4 DEF FrontierInv
    <3> QED BY <2>2, <2>3, <3>1, <3>2
  <2>5. CASE n # current
    BY <1>1, <2>1, <2>5 DEF TypeOK
  <2> QED BY <2>4, <2>5
<1>2. IInv /\ [Next]_vars => [Grows]_containers
  <2> SUFFICES ASSUME IInv, [Next]_vars, containers' # containers PROVE Grows
    OBVIOUS
  <2>1. ASSUME NEW t \in DataThread, StoreStep(t) PROVE Grows
    <3>1. PICK h \in Chunk : RotateContainer(t, h)
      BY <2>1 DEF StoreStep, AppendToContainer, InsertChunk, InsertFails, AdvanceUsed, durable
    <3>2. up /\ containers' = [containers EXCEPT ![current] = Prefix(body, used)]
      BY <3>1 DEF RotateContainer, Idle
    <3> QED BY <1>1, <3>2
  <2>2. CASE Shutdown
    <3>1. up /\ containers' = [containers EXCEPT ![current] = Prefix(body, used)]
      BY <2>2 DEF Shutdown, Interrupt
    <3> QED BY <1>1, <3>1
  <2>3. CASE (\E t \in DataThread : RestoreStep(t)) \/ Start \/ UNCHANGED vars
    BY <2>3 DEF RestoreStep, RestoreMissing, QueryChunk, ChooseCurrent, ChooseCached,
       LoadContainer, CopyCurrent, CopyCached, CopyLoaded, Start, vars, durable
  <2> QED BY <2>1, <2>2, <2>3 DEF Next
<1> QED BY <1>2, InductiveInvariant, PTL DEF Spec, ContainerFilesOnlyGrow
-----------------------------------------------------------------------------
(* Whichever source a restore chose, it copies from where the bytes are.   *)
LEMMA CopySources ==
  ASSUME IInv, NEW t \in DataThread, CopyCurrent(t) \/ CopyCached(t) \/ CopyLoaded(t)
  PROVE  Send(t, chunk[t], CopyOut(ContainerBytes(key[t].container), key[t]))
<1>1. TypeOK /\ RestoringInv /\ CacheInv
  BY DEF IInv
<1>2. CASE CopyCurrent(t)
  BY <1>1, <1>2 DEF CopyCurrent, RestoringInv, ContainerBytes
<1>3. CASE CopyCached(t)
  <2>1. pc[t] = "copyCached" /\ key[t].container \in Name
    BY <1>1, <1>3 DEF CopyCached, TypeOK, Location
  <2>2. key[t].container # current /\ key[t].container \in CachedNames(cache)
    BY <1>1, <2>1 DEF RestoringInv, ExistsInCache, CachedNames
  <2>3. cache.pool[cache.slot[key[t].container]] = ContainerBytes(key[t].container)
    BY <1>1, <2>2 DEF CacheInv, ContainerBytes
  <2> QED BY <1>3, <2>3 DEF CopyCached
<1>4. CASE CopyLoaded(t)
  BY <1>1, <1>4 DEF CopyLoaded, RestoringInv, ContainerBytes
<1> QED BY <1>2, <1>3, <1>4

(* The storage server is the chunk store it promises to be.                *)
THEOREM Refinement == ASSUME SingleThread PROVE Spec => ImplementsChunkStore
<1> DEFINE S == {h \in Chunk : fp2ChunkDB[h] # NoEntry}
<1>1. Init => Abstract!Init
  BY DEF Init, Abstract!Init
<1>2. IInv /\ [Next]_vars => [Abstract!Next]_<<S, reply>>
  <2> SUFFICES ASSUME IInv, [Next]_vars
               PROVE  Abstract!Next \/ UNCHANGED <<S, reply>>
    OBVIOUS
  <2>1. TypeOK /\ RestoringInv
    BY DEF IInv
  <2>2. ASSUME NEW t \in DataThread, StoreStep(t)
        PROVE  Abstract!Next \/ UNCHANGED <<S, reply>>
    <3>1. CASE InsertChunk(t)
      <4>1. /\ fp2ChunkDB' = [fp2ChunkDB EXCEPT ![chunk[t]] = key[t]]
            /\ UNCHANGED reply
        BY <3>1 DEF InsertChunk
      <4>2. chunk[t] \in Chunk /\ key[t] # NoEntry
        BY <2>1, StorageAssumption DEF TypeOK, Location
      <4>3. S' = S \cup {chunk[t]}
        BY <2>1, <4>1, <4>2 DEF TypeOK
      <4>4. PICK h \in Chunk : h = chunk[t]
        BY <4>2
      <4>5. Abstract!Put(h)
        BY <4>1, <4>3, <4>4 DEF Abstract!Put
      <4> QED BY <4>5 DEF Abstract!Next
    <3>2. CASE ~ InsertChunk(t)
      BY <2>2, <3>2 DEF StoreStep, AppendToContainer, RotateContainer, InsertFails,
         AdvanceUsed, durable
    <3> QED BY <3>1, <3>2
  <2>3. ASSUME NEW t \in DataThread, RestoreStep(t)
        PROVE  Abstract!Next \/ UNCHANGED <<S, reply>>
    <3>1. CASE \E h \in Chunk : RestoreMissing(t, h)
      <4>1. PICK h \in Chunk : RestoreMissing(t, h)
        BY <3>1
      <4>2. /\ h \notin S /\ S' = S
            /\ reply' = [reply EXCEPT ![t] = [chunk |-> h, data |-> ZeroBytes[h]]]
        BY <4>1 DEF RestoreMissing, Send, durable
      <4>3. Abstract!Get(t, h)
        BY <4>2 DEF Abstract!Get
      <4> QED BY <4>3 DEF Abstract!Next
    <3>2. ASSUME CopyCurrent(t) \/ CopyCached(t) \/ CopyLoaded(t)
          PROVE  Abstract!Next
      <4>1. /\ chunk[t] \in Chunk /\ fp2ChunkDB[chunk[t]] = key[t] /\ key[t] # NoEntry
            /\ CopyOut(ContainerBytes(key[t].container), key[t]) = ChunkBytes[chunk[t]]
        <5>1. up /\ pc[t] \in {"copyCurrent", "copyCached", "copyLoaded"}
          BY <3>2 DEF CopyCurrent, CopyCached, CopyLoaded
        <5>2. /\ chunk[t] \in Chunk /\ key[t] \in Location /\ fp2ChunkDB[chunk[t]] = key[t]
              /\ CopyOut(ContainerBytes(key[t].container), key[t]) = ChunkBytes[chunk[t]]
          BY <5>1, RestoringHolds
        <5> QED BY <5>2, StorageAssumption DEF Location
      <4>2. Send(t, chunk[t], CopyOut(ContainerBytes(key[t].container), key[t]))
        BY <3>2, CopySources
      <4>3. UNCHANGED fp2ChunkDB
        BY <3>2 DEF CopyCurrent, CopyCached, CopyLoaded, durable
      <4>4. reply' = [reply EXCEPT ![t] = [chunk |-> chunk[t], data |-> ChunkBytes[chunk[t]]]]
        BY <4>1, <4>2 DEF Send
      <4>5. chunk[t] \in S /\ S' = S
        BY <4>1, <4>3
      <4>6. Abstract!Get(t, chunk[t])
        BY <4>4, <4>5 DEF Abstract!Get
      <4> QED BY <4>1, <4>6 DEF Abstract!Next
    <3>3. CASE \/ \E h \in Chunk : QueryChunk(t, h)
               \/ ChooseCurrent(t) \/ ChooseCached(t) \/ LoadContainer(t)
      BY <3>3 DEF QueryChunk, ChooseCurrent, ChooseCached, LoadContainer, durable
    <3> QED BY <2>3, <3>1, <3>2, <3>3 DEF RestoreStep
  <2>4. CASE Shutdown
    <3>1. UNCHANGED fp2ChunkDB /\ reply' = [t \in DataThread |-> NoReply]
      BY <2>4 DEF Shutdown, Interrupt, LoseMemory
    <3> QED BY <3>1 DEF Abstract!Next, Abstract!Restart
  <2>5. CASE Start \/ UNCHANGED vars
    BY <2>5 DEF Start, vars, durable, threads
  <2> QED BY <2>2, <2>3, <2>4, <2>5 DEF Next
<1> QED BY <1>1, <1>2, InductiveInvariant, PTL DEF Spec, ImplementsChunkStore, Abstract!Spec
=============================================================================
