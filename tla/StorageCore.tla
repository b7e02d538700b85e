---------------------------- MODULE StorageCore -----------------------------
(***************************************************************************)
(* The chunk store of the storage server: the containers, the index        *)
(* fp2ChunkDB and the read path (server/storageCore.cpp), driven by the    *)
(* data threads the server starts, one per connection (DataSR::runData),   *)
(* and stopped and started again (server/ServerMain.cpp).                  *)
(*                                                                         *)
(* In the default build (MULTI_CLIENT_UPLOAD_TEST == 0) no lock protects   *)
(* StorageCore, so each access of a thread to the shared state is a step:  *)
(*   storeChunk  writeContainer ; fp2ChunkDB.insert ; used_ += length      *)
(*   restoreChunk  fp2ChunkDB.query ; choice of the source ; memcpy.       *)
(*                                                                         *)
(* A container name is a number: next_permutation gives the next one.      *)
(* A byte is the pair <<chunk, position>> it comes from, or Zero.          *)
(***************************************************************************)
EXTENDS ContainerCache

CONSTANTS Chunk,             \* chunk hashes; a hash stands for its content
          ChunkSize,         \* length of each chunk
          MaxContainerSize,  \* maxContainerSize_ (SPConfig._maxContainerSize)
          BodySize,          \* size of Container::body_
          DataThread,        \* threads running DataSR::runData
          LastContainer,     \* bound: containers 0 .. LastContainer
          Zero, NoEntry, NoFile, NoConfig, NoReply

Position == 0 .. BodySize - 1
Byte == (Chunk \X Position) \cup {Zero}
Body == [Position -> Byte]
Location == [container : Name, offset : Nat, length : Nat]

(* Chunks are at most MAX_CHUNK_SIZE (16 KB), containers 8 MB and bodies   *)
(* 16 MB, so a chunk always fits in an empty container.                    *)
ASSUME StorageAssumption ==
  /\ MaxContainerSize \in Nat \ {0} /\ BodySize \in Nat /\ LastContainer \in Nat
  /\ MaxContainerSize <= BodySize
  /\ ChunkSize \in [Chunk -> Nat \ {0}]
  /\ \A h \in Chunk : ChunkSize[h] < MaxContainerSize
  /\ Name = 0 .. LastContainer
  /\ Zero \notin Chunk \X Position
  /\ NoEntry \notin Location
  /\ NoFile \notin Body
  /\ NoConfig \notin [name : Name, used : Nat]

VARIABLES
  (* durable *)
  fp2ChunkDB,     \* chunk hash -> where the chunk is, in LevelDB
  containers,     \* container files
  storageConfig,  \* .StorageConfig: name and used size of the last container
  (* the server process *)
  up,             \* the process runs
  current,        \* lastContainerFileName_
  used,           \* currentContainer_.used_
  body,           \* currentContainer_.body_
  readContainer,  \* currentReadContainer_, shared by the threads
  cache,          \* containerCache
  (* the data threads *)
  pc,             \* where the thread is
  chunk,          \* the chunk it stores or restores
  key,            \* its keyForChunkHashDB_t
  reply           \* what it last sent to its client

durable == <<fp2ChunkDB, containers, storageConfig>>
process == <<up, current, used, body, readContainer, cache>>
threads == <<pc, chunk, key, reply>>
vars == <<durable, process, threads>>
-----------------------------------------------------------------------------
Reply == [chunk : Chunk, data : UNION {[0 .. ChunkSize[h] - 1 -> Byte] : h \in Chunk}]

BlankBody == [i \in Position |-> Zero]
ChunkBytes == [h \in Chunk |-> [i \in 0 .. ChunkSize[h] - 1 |-> <<h, i>>]]
ZeroBytes == [h \in Chunk |-> [i \in 0 .. ChunkSize[h] - 1 |-> Zero]]

(* memcpy of chunk h into b at offset; memcpy of l's bytes out of b.       *)
CopyIn(b, offset, h) ==
  [i \in Position |-> IF offset <= i /\ i < offset + ChunkSize[h]
                      THEN <<h, i - offset>> ELSE b[i]]
CopyOut(b, l) == [i \in 0 .. l.length - 1 |-> b[l.offset + i]]

(* Container::saveTOFile writes the first `size' bytes of a body; reading  *)
(* as many bytes back leaves the rest of a fresh body zero.                *)
Prefix(b, size) == [i \in Position |-> IF i < size THEN b[i] ELSE Zero]

Idle(t) == up /\ pc[t] = "idle"
-----------------------------------------------------------------------------
(* writeContainer when the chunk fits: it is copied at used_, which is     *)
(* only advanced later, by AdvanceUsed.                                    *)
AppendToContainer(t, h) ==
  /\ Idle(t)
  /\ ChunkSize[h] + used < MaxContainerSize
  /\ body' = CopyIn(body, used, h)
  /\ key' = [key EXCEPT ![t] = [container |-> current, offset |-> used,
                                length |-> ChunkSize[h]]]
  /\ chunk' = [chunk EXCEPT ![t] = h]
  /\ pc' = [pc EXCEPT ![t] = "written"]
  /\ UNCHANGED <<durable, up, current, used, readContainer, cache, reply>>

(* With a bug: the size of the full container is kept for the next one.    *)
RotateContainerKeepsUsed(t, h) ==
  /\ Idle(t)
  /\ ChunkSize[h] + used >= MaxContainerSize
  /\ current < LastContainer
  /\ containers' = [containers EXCEPT ![current] = Prefix(body, used)]
  /\ current' = current + 1
  /\ body' = CopyIn(body, 0, h)
  /\ key' = [key EXCEPT ![t] = [container |-> current + 1, offset |-> used,
                                length |-> ChunkSize[h]]]
  /\ chunk' = [chunk EXCEPT ![t] = h]
  /\ pc' = [pc EXCEPT ![t] = "written"]
  /\ UNCHANGED <<fp2ChunkDB, storageConfig, up, used, readContainer, cache, reply>>

(* writeContainer when it does not: the current container goes to its      *)
(* file and the chunk is the first of the next one.                        *)
RotateContainer(t, h) ==
  /\ Idle(t)
  /\ ChunkSize[h] + used >= MaxContainerSize
  /\ current < LastContainer
  /\ containers' = [containers EXCEPT ![current] = Prefix(body, used)]
  /\ current' = current + 1
  /\ used' = 0
  /\ body' = CopyIn(body, 0, h)
  /\ key' = [key EXCEPT ![t] = [container |-> current + 1, offset |-> 0,
                                length |-> ChunkSize[h]]]
  /\ chunk' = [chunk EXCEPT ![t] = h]
  /\ pc' = [pc EXCEPT ![t] = "written"]
  /\ UNCHANGED <<fp2ChunkDB, storageConfig, up, readContainer, cache, reply>>

(* fp2ChunkDB.insert succeeds; a chunk already indexed is moved.           *)
InsertChunk(t) ==
  /\ up /\ pc[t] = "written"
  /\ fp2ChunkDB' = [fp2ChunkDB EXCEPT ![chunk[t]] = key[t]]
  /\ pc' = [pc EXCEPT ![t] = "inserted"]
  /\ UNCHANGED <<containers, storageConfig, process, chunk, key, reply>>

(* It fails: storeChunk returns false before used_ is advanced, and the    *)
(* thread leaves; a later connection takes its place.                      *)
InsertFails(t) ==
  /\ up /\ pc[t] = "written"
  /\ pc' = [pc EXCEPT ![t] = "idle"]
  /\ UNCHANGED <<durable, process, chunk, key, reply>>

(* currentContainer_.used_ += key.length.                                  *)
AdvanceUsed(t) ==
  /\ up /\ pc[t] = "inserted"
  /\ used' = used + key[t].length
  /\ pc' = [pc EXCEPT ![t] = "idle"]
  /\ UNCHANGED <<durable, up, current, body, readContainer, cache, chunk, key, reply>>
-----------------------------------------------------------------------------
Send(t, h, data) == reply' = [reply EXCEPT ![t] = [chunk |-> h, data |-> data]]

(* With a bug: a failed read of the index counts as a chunk not stored.    *)
RestoreMissingAnyway(t, h) ==
  /\ Idle(t)
  /\ Send(t, h, ZeroBytes[h])
  /\ UNCHANGED <<durable, process, pc, chunk, key>>

(* restoreChunk finds no entry: zeros are sent in place of the chunk.      *)
RestoreMissing(t, h) ==
  /\ Idle(t)
  /\ fp2ChunkDB[h] = NoEntry
  /\ Send(t, h, ZeroBytes[h])
  /\ UNCHANGED <<durable, process, pc, chunk, key>>

(* It finds one and takes a copy of it.                                    *)
QueryChunk(t, h) ==
  /\ Idle(t)
  /\ fp2ChunkDB[h] # NoEntry
  /\ key' = [key EXCEPT ![t] = fp2ChunkDB[h]]
  /\ chunk' = [chunk EXCEPT ![t] = h]
  /\ pc' = [pc EXCEPT ![t] = "queried"]
  /\ UNCHANGED <<durable, process, reply>>

(* readContainer compares the entry's name with the current one.           *)
ChooseCurrent(t) ==
  /\ up /\ pc[t] = "queried"
  /\ key[t].container = current
  /\ pc' = [pc EXCEPT ![t] = "copyCurrent"]
  /\ UNCHANGED <<durable, process, chunk, key, reply>>

(* existsInCache and getFromCache.                                         *)
ChooseCached(t) ==
  /\ up /\ pc[t] = "queried"
  /\ key[t].container # current
  /\ ExistsInCache(cache, key[t].container)
  /\ cache' = GetFromCache(cache, key[t].container)
  /\ pc' = [pc EXCEPT ![t] = "copyCached"]
  /\ UNCHANGED <<durable, up, current, used, body, readContainer, chunk, key, reply>>

(* The file is read into currentReadContainer_, whichever thread reads;    *)
(* the bytes left beyond its end are never looked at. Failing to open it   *)
(* has no action: IndexedChunksReadable says it is there.                  *)
LoadContainer(t) ==
  /\ up /\ pc[t] = "queried"
  /\ key[t].container # current
  /\ ~ ExistsInCache(cache, key[t].container)
  /\ containers[key[t].container] # NoFile
  /\ readContainer' = containers[key[t].container]
  /\ pc' = [pc EXCEPT ![t] = "copyLoaded"]
  /\ UNCHANGED <<durable, up, current, used, body, cache, chunk, key, reply>>

CopyCurrent(t) ==
  /\ up /\ pc[t] = "copyCurrent"
  /\ Send(t, chunk[t], CopyOut(body, key[t]))
  /\ pc' = [pc EXCEPT ![t] = "idle"]
  /\ UNCHANGED <<durable, process, chunk, key>>

CopyCached(t) ==
  /\ up /\ pc[t] = "copyCached"
  /\ Send(t, chunk[t], CopyOut(cache.pool[cache.slot[key[t].container]], key[t]))
  /\ pc' = [pc EXCEPT ![t] = "idle"]
  /\ UNCHANGED <<durable, process, chunk, key>>

CopyLoaded(t) ==
  /\ up /\ pc[t] = "copyLoaded"
  /\ Send(t, chunk[t], CopyOut(readContainer, key[t]))
  /\ cache' = InsertToCache(cache, key[t].container, readContainer)
  /\ pc' = [pc EXCEPT ![t] = "idle"]
  /\ UNCHANGED <<durable, up, current, used, body, readContainer, chunk, key>>
-----------------------------------------------------------------------------
(* A process that is not running has no memory: its variables are blank.   *)
LoseMemory ==
  /\ up' = FALSE /\ current' = 0 /\ used' = 0 /\ body' = BlankBody
  /\ readContainer' = BlankBody /\ cache' = EmptyCache(BlankBody)
  /\ pc' = [t \in DataThread |-> "idle"]
  /\ reply' = [t \in DataThread |-> NoReply]
  /\ UNCHANGED <<chunk, key>>

(* SIGINT runs CTRLC, which deletes the StorageCore: the destructor writes *)
(* .StorageConfig and the current container, and the process exits.        *)
Interrupt ==
  /\ up
  /\ storageConfig' = [name |-> current, used |-> used]
  /\ containers' = [containers EXCEPT ![current] = Prefix(body, used)]
  /\ LoseMemory
  /\ UNCHANGED fp2ChunkDB

(* The operator stops the server while no connection is served.            *)
Shutdown == Interrupt /\ \A t \in DataThread : pc[t] = "idle"

(* The process dies without running the handler.                           *)
Kill == up /\ LoseMemory /\ UNCHANGED durable

(* With a bug: the used size is not read back.                             *)
StartForgetsUsed ==
  /\ ~ up
  /\ up' = TRUE
  /\ UNCHANGED used
  /\ IF storageConfig = NoConfig
     THEN UNCHANGED <<current, body>>
     ELSE /\ current' = storageConfig.name
          /\ body' = IF containers[storageConfig.name] = NoFile THEN body
                     ELSE Prefix(containers[storageConfig.name], storageConfig.used)
  /\ UNCHANGED <<durable, readContainer, cache, threads>>

(* The constructor: the last container is read back, if there was one.     *)
Start ==
  /\ ~ up
  /\ up' = TRUE
  /\ IF storageConfig = NoConfig
     THEN UNCHANGED <<current, used, body>>
     ELSE /\ current' = storageConfig.name
          /\ used' = storageConfig.used
          /\ body' = IF containers[storageConfig.name] = NoFile THEN body
                     ELSE Prefix(containers[storageConfig.name], storageConfig.used)
  /\ UNCHANGED <<durable, readContainer, cache, threads>>
-----------------------------------------------------------------------------
Init ==
  /\ fp2ChunkDB = [h \in Chunk |-> NoEntry]
  /\ containers = [n \in Name |-> NoFile]
  /\ storageConfig = NoConfig
  /\ up = TRUE /\ current = 0 /\ used = 0 /\ body = BlankBody
  /\ readContainer = BlankBody /\ cache = EmptyCache(BlankBody)
  /\ pc = [t \in DataThread |-> "idle"]
  /\ chunk \in [DataThread -> Chunk]
  /\ key = [t \in DataThread |-> [container |-> 0, offset |-> 0, length |-> 0]]
  /\ reply = [t \in DataThread |-> NoReply]

StoreStep(t) ==
  \/ \E h \in Chunk : AppendToContainer(t, h) \/ RotateContainer(t, h)
  \/ InsertChunk(t) \/ InsertFails(t) \/ AdvanceUsed(t)

RestoreStep(t) ==
  \/ \E h \in Chunk : RestoreMissing(t, h) \/ QueryChunk(t, h)
  \/ ChooseCurrent(t) \/ ChooseCached(t) \/ LoadContainer(t)
  \/ CopyCurrent(t) \/ CopyCached(t) \/ CopyLoaded(t)

Next == \/ \E t \in DataThread : StoreStep(t) \/ RestoreStep(t)
        \/ Shutdown
        \/ Start

Spec == Init /\ [][Next]_vars

(* The same server when it can also die, or be interrupted in the middle   *)
(* of a request.                                                           *)
CrashSpec == Init /\ [][Next \/ Interrupt \/ Kill]_vars
-----------------------------------------------------------------------------
ProgramPoint == {"idle", "written", "inserted", "queried",
                 "copyCurrent", "copyCached", "copyLoaded"}

(* Every variable has its type; an offset in use lies inside a body.       *)
TypeOK ==
  /\ fp2ChunkDB \in [Chunk -> Location \cup {NoEntry}]
  /\ containers \in [Name -> Body \cup {NoFile}]
  /\ storageConfig \in [name : Name, used : Nat] \cup {NoConfig}
  /\ up \in BOOLEAN /\ current \in Name /\ used \in Nat
  /\ body \in Body /\ readContainer \in Body
  /\ cache \in CacheType(Body)
  /\ pc \in [DataThread -> ProgramPoint]
  /\ chunk \in [DataThread -> Chunk]
  /\ key \in [DataThread -> Location]
  /\ reply \in [DataThread -> Reply \cup {NoReply}]

(* The bytes of chunk h stand at location l of b.                          *)
Holds(b, l, h) ==
  /\ l.length = ChunkSize[h]
  /\ l.offset + l.length <= BodySize
  /\ \A i \in 0 .. ChunkSize[h] - 1 : b[l.offset + i] = <<h, i>>

(* Where a container's bytes are: in memory while the server runs and the  *)
(* container is the current one, in its file otherwise.                    *)
ContainerBytes(n) == IF up /\ n = current THEN body ELSE containers[n]

(* A chunk the index knows (so that deduplication tells clients not to     *)
(* send it again, DedupCore::dedupByHash) is where the index says it is,   *)
(* across container rotations and restarts: no store, failed store or      *)
(* restart overwrites or loses it.                                         *)
IndexedChunksReadable ==
  \A h \in Chunk : fp2ChunkDB[h] # NoEntry =>
    LET l == fp2ChunkDB[h]
    IN  ContainerBytes(l.container) # NoFile /\ Holds(ContainerBytes(l.container), l, h)

(* The cache never serves the container that is still being filled, nor    *)
(* bytes that differ from the file, two containers never share a slot, and *)
(* the recency list names exactly the cached containers.                   *)
CacheCoherent ==
  /\ \A n \in CachedNames(cache) :
       n # current /\ cache.pool[cache.slot[n]] = containers[n]
  /\ \A m, n \in CachedNames(cache) : cache.slot[m] = cache.slot[n] => m = n
  /\ {cache.order[i] : i \in DOMAIN cache.order} = CachedNames(cache)
  /\ Len(cache.order) = Cardinality(CachedNames(cache))

(* What a client receives for a chunk is the chunk, or zeros if the index  *)
(* had no entry for it: never bytes of another chunk.                      *)
NeverWrongBytes ==
  \A t \in DataThread : reply[t] # NoReply =>
    reply[t].data \in {ChunkBytes[reply[t].chunk], ZeroBytes[reply[t].chunk]}

(* A container file only grows: once a chunk's byte is saved at a position *)
(* of a file, no later save (saveTOFile truncates whatever file bears the  *)
(* name) and no reuse of a container name replaces it, in this run of the  *)
(* server or in the next.                                                  *)
ContainerFilesOnlyGrow ==
  [][\A n \in Name : containers[n] # NoFile =>
       /\ containers'[n] # NoFile
       /\ \A i \in Position : containers[n][i] # Zero =>
            containers'[n][i] = containers[n][i]]_containers

(* The server is the chunk store it promises to be.                        *)
Abstract == INSTANCE ChunkStore WITH
  stored <- {h \in Chunk : fp2ChunkDB[h] # NoEntry},
  Content <- ChunkBytes, Blank <- ZeroBytes

ImplementsChunkStore == Abstract!Spec
=============================================================================
