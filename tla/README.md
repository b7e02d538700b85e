# FeatureSpy in TLA+

FeatureSpy is an encrypted deduplicating store that looks for clients that
probe it with many similar chunks. A client cuts a file into chunks, asks a key
manager for a key per chunk, encrypts, proves ownership of the encrypted chunks
to the storage server from inside an enclave, and sends the chunks the server
lacks with a recipe of the file. The server keeps chunks in containers, and
recipes in files. All of it is in `Prototype/`; `Simulator/` holds offline trace
analysis.

This directory holds TLA+ models of that prototype, what TLC checks about them
on small instances, and what TLAPS proves about them for all sizes.
`PROJECT.json` maps each definition to the lines it models, and lists the runs,
the hazards, the findings, the theorems, and for each checked property a
plausible bug of the code that makes it fail.

To check a run, `tlc -config MCStorage.cfg MCStorage`; to check the proofs,
`tlapm StorageProofs.tla`. Paths below are under `Prototype/`. The models are of
the build the repository configures in `include/systemSettings.hpp`:
`KEY_GEN_METHOD_TYPE` is `KEY_GEN_SGX_CTR`, `MULTI_CLIENT_UPLOAD_TEST` is 0 (the
server's locks are compiled out), `TRACE_DRIVEN_TEST` is 1,
`STORAGE_CORE_READ_CACHE` is 1 and `ENCLAVE_SEALED_INIT_ENABLE` is 1.

## The system

Three programs, `client-sgx`, `server-sgx` and `keymanager-sgx`, talk over
SSL connections. The client has three: to the key manager, to the server's
proof-of-ownership port (`DataSR::runPow`) and to its data port
(`DataSR::runData`). The server starts one thread per connection.

| component | code | state | operations | correct when |
|---|---|---|---|---|
| chunk store | `src/server/storageCore.cpp`, `src/util/cache.cpp`, `include/lruCache.hpp`, `src/util/database.cpp` | containers in memory and in files, `fp2ChunkDB` (LevelDB), `.StorageConfig`, a cache of containers | store a chunk, restore a chunk, stop, start | what the index knows can be read back, across rotations and restarts |
| recipe store | the same class | a file per name, appended to | store, size, read | a file's recipe is the one uploaded |
| server main loop, connections | `src/server/ServerMain.cpp`, `src/util/ssl.cpp` | two ports, the threads, the descriptors | accept, handshake, start a thread | a client's two connections are paired, everyone is served |
| server sessions | `src/server/dataSR.cpp` | per connection: the window of a restore, the session of a client | one case per message | every request is answered, in order |
| deduplication check | `src/server/dedupCore.cpp` | none (reads `fp2ChunkDB`) | which hashes of a batch are missing | the answer is still true when the recipe arrives |
| chunker | `src/client/chunker.cpp` | the block read, the unfinished chunk, the rolling hash | variable size, fixed size, traces | the chunks are the file, cut at boundaries its bytes define |
| feature extraction | `src/client/fingerprinter.cpp` | a thread's array of fingerprints | one chunk | a feature is a function of the chunk |
| key client | `src/client/keyClient.cpp` | a batch; nonce and counter, kept in `.keyGenStore` | log in, exchange keys, save | its counter is the one the enclave uses |
| encoder, ciphers | `src/client/encoder.cpp`, `src/util/cryptoPrimitive.cpp` | none | encrypt, hash | |
| PoW client | `src/enclave/src/powClient.cpp`, `src/enclave/pow_enclave/` | a batch, the session key, its sealed copy, the prefix counts | start, prove a batch, seal | the chunks the server lacks are marked; uploads of similar chunks are stopped |
| PoW server | `src/enclave/src/powServer.cpp`, `DataSR::runPow` | sessions by client | attest, log in, verify, log out | only an attested client gets answers |
| sender | `src/client/sender.cpp` | a batch of chunks, the recipe entries, the head | send chunks, recipe, end | the recipe is complete and in order |
| restore client | `src/client/recvDecode.cpp`, `src/client/retriever.cpp` | recipe, counts, a queue | receive and decrypt, write | the file comes back byte for byte |
| key manager | `src/keymanage/keyServer.cpp`, `src/enclave/km_enclave/` | counters and nonces by client, masks made ahead | log in, generate keys, make masks, log out | both ends derive the same masks |
| key renewal | `src/enclave/src/kmClient.cpp`, `src/enclave/src/kmServer.cpp`, threads of `keyServer.cpp` and `dataSR.cpp` | secrets and a countdown at both ends | attest, hash the session key, expire | both ends derive the same session key |
| simulator | `Simulator/simCode/` | none | chunk, extract, count windows, detection rate | it predicts what the prototype detects |
| configuration, SGX and IAS utilities | `src/util/configure.cpp`, `src/enclave/utils/` | none that a property is about | | |

What makes the behaviour hard:

* Concurrency. The client's upload runs six kinds of threads joined by bounded
  lock-free queues (`include/messageQueue.hpp`) and `done_` flags; several
  fingerprinters share a queue. The server's data threads share one `StorageCore`
  with no lock. The key manager's threads update session keys and make masks
  while clients log in and ask for keys; the storage server renews the same keys
  on a clock of its own. The messages of a client that was killed are handled by
  a thread of their own while its next run has begun.
* Crashes. The server keeps the current container and the client sessions in
  memory; a SIGINT handler and the destructor alone save the container. The
  client's key counter is saved at the end of an upload, the enclave's is not
  saved; the client's PoW key is sealed, the server's is not kept.
* Order. The recipe head, chunks and batches take different ways through the
  pipeline; a recipe entry is an index into it for ever. Chunks are stored before
  the recipe because one connection carries both.
* Limits. Queues of 5000, batches of 4096 and 1000, containers of 8 MB with a
  strict bound, a cache with as many slots as LRU entries, reads of 256 MB,
  16-bit hashes, a window of 16000 chunks that ends inside a batch, and a process's
  descriptors, of which none is given back.

`PROJECT.json` lists each of these as a hazard at its line, with the properties
that cover it, or with a note that says why none does.

## Modules

| module | models | state and actions |
|---|---|---|
| `ContainerCache` | `cache.cpp`, `lruCache.hpp` | a record: pool of containers, slot of each name, recency order. `ExistsInCache`, `GetFromCache`, `InsertToCache` as operators |
| `ChunkStore` | the promise of the chunk store | the set of stored chunks and each session's reply; a store adds a chunk or fails, a restore returns the chunk or blanks, stopping the server loses nothing |
| `StorageCore` | `storageCore.cpp` with the threads of `ServerMain.cpp` | durable state, process memory, program counter of each data thread. One action per access to shared state |
| `UploadPipeline` | `clientMain.cpp -s`, the client's threads, `DedupCore`, `runData`'s upload messages | queues, `done_` flags, each thread's batch and place in its loop; one action per queue operation, exchange or message; a key exchange, a send or a store that fails, a proof that is refused or never answered |
| `RestorePath` | `clientMain.cpp -r`, `RecvDecode`, `Retriever`, the recipe files, `runData`'s download messages | the two directions of each connection, `runData`'s locals, the client's two threads; one action per message or queue operation; the connection lost, the file uploaded again |
| `Chunker` | `chunker.cpp` | the block read, the unfinished chunk, the rolling hash, the chunks cut; one action per read, per byte or per cut |
| `Features` | `fingerprinter.cpp`; the Simulator's chunker and `FeatureGen` | operators over what `Chunker` has cut: the list of fingerprints, the array on the stack, the features |
| `PrefixDetector` | `ecall_calcmac`, `process_signedHash`, `powClient`'s answer to a refusal | the chunks of an upload, the enclave's table and counter, the batch; a chunk counted, a batch judged |
| `WindowCheck` | the Simulator's `windowCheck`, `snapCheck`, `processWindowCheckResult`, `genDetectionRate` | operators on a snapshot |
| `Detection` | | `PrefixDetector` and `WindowCheck` on the same chunks |
| `KeyService` | `keyClient.cpp`; `runKeyGenerateThread`, `runCTRModeMaskGenerate`, the renewal and attestation threads of `keyServer.cpp`; `km_enclave.cpp`'s client table, masks and key generation | clients, connections, threads, flags and locks of the key server, the enclave. One action per part of a handler between two places where a thread can wait |
| `KeyRenewal` | `kmClient::init`, `kmServer::authkm`, `runSessionKeyUpdate`, `runRAwithSPRequest`, `runKeyServerSessionKeyUpdate`, `runKeyServerRemoteAttestation` | the link and its message, the secrets and countdowns of both ends, the key exchange key and the flag that gives it out, the count of the key server's clients; one action per message, timer, login or part of an update |
| `PowSession` | `powClient`'s constructor, proofs, end and sealed file; `runPow` and `powServer` | client runs, connections with a message each way, sessions, sealed files; one action per request, answer, kill, stop and start |
| `Connections` | `ServerMain.cpp`'s loop, `ssl.cpp`, the connections of a run of the client | backlogs, the main loop's place, threads, descriptors; one action per connect, accept, handshake and end |
| `StorageProofs`, `UploadProofs`, `RestoreProofs`, `ChunkerProofs`, `DetectorProofs`, `KeyProofs`, `PowProofs`, `ConnectionsProofs` | | the proofs about the modules they extend: `DetectorProofs` about `PrefixDetector`, `WindowCheck` and `Detection`, `KeyProofs` about `KeyService` and `KeyRenewal` (whose specification is `RenewalSpec`, so that one module can extend both) |
| `MCStorage`, `MCUpload`, `MCRestore`, `MCChunker`, `MCDetect`, `MCKeys`, `MCRenewal`, `MCPow`, `MCConnections` | | the values of constants for TLC |

How they fit: `StorageCore` extends `ContainerCache` and implements `ChunkStore`.
`UploadPipeline` stores chunks as a set, which is what `ChunkStore` lets it rely
on, and `RestorePath` takes from the store either the chunk or zeros, which is
`NeverWrongBytes`. `Features` extends `Chunker`, whose chunks it describes.
`UploadPipeline` starts where `Chunker` ends: with numbered chunks and a head that
counts them (`ChunksAreFile`). `RestorePath` starts where `UploadPipeline` ends:
with a recipe that lists the chunks in file order (`RecipeComplete`). A run of the
client opens its connections in `Connections`, starts its PoW session in
`PowSession` and fetches the key exchange key there; `KeyRenewal` says which key
that is, `KeyService` what is done under it, and when a renewal of it may come
between a client's login and its requests. `PrefixDetector` decides which proofs
`UploadPipeline` sees refused.

### How steps were chosen

`StorageCore`. A data thread holds no lock, so each of its accesses to shared
memory is a step. A store is `AppendToContainer` or `RotateContainer`
(`writeContainer`), then `InsertChunk` or `InsertFails` (`fp2ChunkDB.insert`),
then `AdvanceUsed`, which comes last in the code too. A restore is `QueryChunk` or
`RestoreMissing`, then `ChooseCurrent`, `ChooseCached` or `LoadContainer` (the
three branches of `readContainer`), then a copy. `Shutdown` is the destructor,
between requests; `Interrupt` is the destructor in the middle of one, `Kill` a
process that dies, or that `exit(1)` in `ssl.cpp` ends: it runs no destructor of
`ServerMain`'s heap objects. These two are in `CrashSpec` only. Container names are
permutations of a string, enumerated by `next_permutation`: a number here. Bytes
are pairs of a chunk and a position, so that a wrong byte shows.

`UploadPipeline`. Five things may fail, each at any moment (`failed`): a key exchange
(`ExchangeFails`), a proof (`ProofFails`), the answer to one (`AnswerLost`), a send
(`SendFails`) and the store of a chunk (`StoreFails`). When the answer is lost,
`sendEnclaveSignedHash` returns false, which `powClient` ignores, and `netstatus` says
what it said for the batch before: the batch goes on with whatever flags the stack
held, or is given up. A send that fails ends the sender, since the recipe and the end
flag go the same way. A store that fails ends `runData` without an answer: the rest of
the connection is never read. A thread's loop body looks at its flag, takes at most
one item and may act on a batch. `NoticeDone` sets `JobDoneFlag`; `Extract` takes an
item; what follows is pushed by `Push`, one item a step, when there is room
(`insertMQ` spins). The chunks the server lacks come back as an array of flags of
which `dedupByHash` writes only the true ones, so the others are a choice in
`ProveOwnership`. `Chunk_t.type` is never initialised, so `Init` chooses the chunks
that bear the mark already. A client that races another for the same chunk
(`dedupCore.cpp:38`) stores it twice, under one hash: the store's set is the same, so
there is one client here.

`RestorePath`. `runData` answers a message in one step, but the recipe answer
reads the file twice with a send between, and is two. `RecvDecode::run` takes a
message and pushes its chunks one at a time. A hash stands for content and for
key: decrypting with another key gives `Garbage`, and so do the zeros sent for a
missing chunk. IDs count from 1 in the model. `Lose` cuts a connection at any
moment; what was on its way is gone. `StoreAgain` is a later upload under a
file's name, up to `MaxUploads` in all: the recipe file then holds the recipes one
after the other.

`Chunker`, `Features`. Bytes, powers, moduli, masks and read size are constants.
The hash is computed as the code does, with a table that removes a byte, in the
width the code keeps it (`FpMod` for `uint16_t winFp`, `PolyMod` for the table). A
trace line is the size of the chunk it stands for. `fpListGen` fills a local array
from entry `SubWindow` on; the entries before it are what the thread's stack held,
one of `Stacks`. The model takes the array to have the same place in every call, as
the compiled loop gives it.

`PrefixDetector`. A call of `ecall_calcmac` is the counting of its batch's chunks,
one after the other, and a verdict; the table and the counter outlive it.

`KeyService`. A key stream is named by its key, nonce and counter, so a mask is a
record of where it starts and how long it is, and two ends agree when the records do.
Locks that a handler takes and gives back inside one step are not shown; the waits,
`clientThreadCount_`, `offlineGenerateFlag_` and the state of the attestation, are.
`ecall_keygen_ctr` reads `offlineFlag` twice, for the request (`KeygenStart`) and for
the reply (`KeygenMask`), and masks may be made between the two. A client killed while
it saves leaves a `.keyGenStore` cut short (`torn`), and exits at every later upload
(`LoginFails`). `blame` is a history variable: per client, what has happened that is
known to break the agreement of its present session. Its four values are "staleMasks"
(a reply is masked with masks that are not those the client's counters point into),
"endOfMasks" (a reply reaches beyond the masks made ahead, `km_enclave.cpp:316` and
`:375`), "lostNonce" (the two ends of a login keep different nonces), and "overtaken"
(a thread of an earlier connection handles a message of it).

`KeyRenewal`. A session key is an attestation and a number of hashes. Any message
of an attestation may be refused; some refusals send an error, some send nothing,
and the link is then "silent" for good, as no connection of this protocol is
closed. The storage server's renewal is four steps: it looks at the flag, takes the
key back and reads the secrets, writes the key (`ServerWriteKey`), raises the flag
(`ServerRenew`); an expiry may fall between any two. With n = 0 its key is made of a
buffer nothing was written to (`Uninitialised`). A thread of the key server is counted
before its client's login and after it (`entering`, `serving`); the two early returns
before the login is over leave it counted (`ClientLeavesEarly`). The object the key
server listens on is deleted by the first renewed attestation (`DeleteListener`); to
use or delete it after that may work or end the process.

`PowSession`. A connection is one run of a client; at most one message is on its
way in each direction, as both ends wait for answers. `Kill` leaves the request
of the killed run to be handled at any later time. The causes are "restart" (the
server has lost its sessions) and "overtaken" (a message of a killed run was
handled after the next run opened). A call that ends the process by an uncaught
exception or a null pointer is `Die`. A lost connection is no refusal: the client
ignores what `sendEnclaveSignedHash` returns, and goes on or ends as its stale
`netstatus` says (`TakeVerdict`).

`Connections`. The handshake of a client ends when the main thread takes its
connection; until then it is in the backlog of its port. A handshake fails because
the client died in it or because the server does not accept its certificate
(`HandshakeFails`), and `ServerStops` is every end of the server that lies elsewhere:
SIGINT, the connections to the key server, an exception in `runPow`. After any of them
nothing is said of the server; the clients still have to come to their ends.

## Runs

| run | specification | shows |
|---|---|---|
| `MCStorage` | one data thread, no crash | the index, the files, the cache and the current container stay in step; a restore gives the chunk or zeros; files only grow; the server implements `ChunkStore` |
| `MCStorageRace` | two data threads | violation: a chunk is copied over another that the index keeps |
| `MCStorageCrash` | one data thread, `Interrupt` and `Kill` | violation: a server killed before its first shutdown starts over without a `.StorageConfig`, and the next shutdown truncates a container file that is in use |
| `MCUpload` | a server that has the first content; a key exchange, a proof, the answer to one, a send or a store may fail | nothing is lost, doubled or out of order but one refused batch; the server has each chunk of a stored recipe unless `powClient` overlooked it, and while no answer is lost it overlooks no more chunks than were known; no circle of threads waits, and all threads end, unless something failed |
| `MCUploadKnown` | a server that has some | violation: a chunk the server lacks is not sent |
| `MCChunker` | all short files, files a read cuts, fixed sizes, short traces | chunks are the file but for what is named; boundaries depend on the chunk alone; a seed on the content and the stack; what the Simulator computes of it |
| `MCRestore` | a file that may come late and be uploaded up to three times, an unknown chunk, a connection lost at any point | each restore writes the first upload; the server's window stays in the list; both ends come to an end, but for one thread |
| `MCDetect` | every upload of up to eight of four chunks | accepted windows hold at most twice the threshold; the tumbling windows decide exactly; what the simulator says of the same chunks |
| `MCKeys` | two clients, three connections, a fault | both ends of a session stay on one counter; keys that pass their HMAC are right, but for four causes |
| `MCRenewal` | four attestations, refusals, both clocks, a client | both ends hold the secrets of one attestation; after equally many renewals their keys are equal exactly when the counters are and the last was not that of n = 0; no key of expired secrets is given out but by a renewal that was under way; a renewal asked for ends, or the key server waits for ever for a client that left it early, or is dead of its deleted listener |
| `MCPow` | four runs of a client, two faults | an uploading client is trusted under its own key; the server dies only of overtaken messages or lost sessions; each run ends |
| `MCConnections` | two users, two runs each, a kill, few descriptors | the ports never cross clients; everyone is served while the server is there, and nobody waits for it once it is gone |

The two storage violation runs check a property that `MCStorage` checks of the
system without that fault; `MCUploadKnown` checks what `OnlyOverlookedMissing`
weakens, and `NewFileRestorable` says when it holds after all. The
findings in `PROJECT.json` quote the text each one disagrees with. The fault is never
in the model's environment alone: a second client, a kill and a chunk the server knows
are ordinary for this program.

Elsewhere a property holds up to causes that it names, and the causes are states
of the model that its mutants cannot fake. These are departures from what one
would expect of the code that no line of the repository promises otherwise:

* `chunker.cpp:361`: a read zeroes what is unfinished of a chunk (`ChunksAreFile`).
* `chunker.cpp:267`: `retSize` of the last fixed size block is used before it is
  set, so its first chunk is empty (`ChunksAreFile`).
* `fingerprinter.cpp:135`: 64 entries of an array never written enter a seed
  (`SeedOfContent`).
* `storageCore.cpp:193`: a second upload's recipe goes after the first's, which
  alone is restored (`RestoreExact`).
* `recvDecode.cpp:320`: after a lost connection the writing thread waits for ever
  (`Termination` of `RestorePath`).
* `keyClient.cpp:283`: after a failed key exchange the sender waits for ever;
  `powClient.cpp:146`: after a refused proof a recipe without the rest is stored;
  `dataSR.cpp:131`: after a failed store the sender waits for the end flag, and
  `sender.cpp:465`: after a failed send the threads before it may spin on full queues
  (`Termination`, `RecipeComplete`).
* `powClient.cpp:152`: after a lost answer chunks the server lacks may go unmarked in
  any number (`OnlyOverlookedMissing`).
* `km_enclave.cpp:105`, `:316`, `keyServer.cpp:324`, `keyClient.cpp:166`: the four
  causes of wrong keys (`OnlyKnownCauses`).
* `dataSR.cpp:665`: a second attestation resets one countdown of two, so the two
  ends' keys part (`SameSecrets` says exactly when they are equal).
* `dataSR.cpp:642`: the renewal of n = 0, the last that the countdown allows, hashes an
  uninitialised buffer on the storage server, so the keys part (`SameSecrets`).
* `keyServer.cpp:405`, `:409`: a client that leaves before its login is over stays
  counted, and a new attestation waits for it for ever (`keyServer.cpp:90`);
  `keyServer.cpp:110`: the object that listens for requests is deleted after the first
  renewed attestation, which may end the key server. `RenewalEnds` says that nothing
  else becomes of a request.
* `dataSR.cpp:730`: a renewal under way when the secrets expire raises the flag over
  zeros or over a key of the old secrets (`KeyOfSession`).
* `dataSR.cpp:406`, `:541`, `:553`, `powServer.cpp:89`: a restarted server, and
  messages of a killed run (`SessionKeysAgree`, `RunsEnd`, `DiesOnlyOvertaken`).
* `ServerMain.cpp:82`: one client can leave the server waiting (`EveryoneServed`);
  `ssl.cpp:167`, `:174`, `dataSR.cpp:84`: or end it, which no property rules out.
* `genDetectionRate.cpp:44`: the simulator counts the threshold itself as a
  detection, the enclave does not (`SimulatorAgrees`).

### Bounds

* `MCStorage`: two chunks of one and two bytes, containers of at most three
  bytes (the bound 4 is strict), `LastContainer` 3, `CacheSize` 2. A container
  may be filled by one to three chunks, full or not. Four containers, of which one
  is current, leave three in files, one more than the cache holds: it evicts.
  `LastContainer` guards `RotateContainer`; at the bound, restores and restarts
  go on.
* `MCUpload`: four chunks, two equal, queues of two, key batches of two, PoW and
  send batches of three. Every queue fills; every kind of batch is closed full and
  closed short; two fingerprinters reorder. Nothing in the code depends on a
  length beyond these comparisons. The server has the first chunk's content, so
  the first batch mixes what it has with what it lacks and a chunk is overlooked;
  `MCUploadKnown`, two chunks of which one is known, is the smallest upload where
  that leaves a recipe that cannot be restored (`RecipeRestorable`).
* `MCRestore`: batches of two and files of 0 to 6 chunks: below, at and above the
  batch and its multiples. `UintMod` is 16 where the code has 2^32; the assumption
  `RestoreAssumption` requires a list and a batch to stay below it, as a recipe's
  32-bit count does. `MaxUploads` 3: up to two later uploads, so that one can come
  after a restore of a file of two. `WireCapacity` 2 makes `send` block. One client is
  enough: restores share only recipe files, which they do not change. The proofs are
  for any number.
* `MCChunker`: all files of up to nine bytes of three values, minimum 4, average
  5, maximum 6, window 2. Nine bytes hold a first chunk of any size and a second of
  four or five, where state carried over would show. `PolyMod` 16 and `FpMod` 8
  keep the code's relation, a table modulo a larger power of two than the hash kept.
  `ReadSize` 10 is crossed by the longer files. The feature window is 3, below the
  smallest chunk, and `LowMod` 4 is below `SubMod` 16 as 2^32 is below 2^64.
* `MCDetect`: four chunks, two of one indicator; each column the simulator
  prints of them differs from the next; a window
  of five and batches of two, so that windows end inside batches; threshold two;
  eight chunks, so that a burst can lie across two windows.
* `MCKeys`: two clients, since one's login folds the other's counters; requests of
  three hashes, 12 counters, against masks for 20: one request is covered, the
  second not, and a request may be when its reply is not. Three connections, one
  fault (`MaxFault`: a kill, a renewal or an attestation), `MaxCounter` 24 for two
  requests. Clients and nonces are symmetric; the run checks no liveness.
* `MCRenewal`: a countdown of three, so that it can end; four attestations, so that a
  renewed one is renewed, with the object the key server listens on already deleted;
  one client connection, which is what an attestation waits for.
* `MCPow`: one client, as sessions are by client and no step touches two; four
  runs: one to attest, one to unseal, one killed, one after; two faults; two batches,
  so that there is one after a lost answer.
* `MCConnections`: two users, so that connections can cross; two runs each; one
  kill; five descriptors where four runs need eight.
* Deadlock is checked in `MCStorage`. The other systems end, or come to a bound, so
  their configurations turn it off; their liveness properties say they end well.

### Fairness

* `UploadPipeline`, `RestorePath`: weak fairness of each thread, separately, and of
  the server's thread: the operating systems schedule runnable threads, the queues
  spin and do not sleep, and the server answers. Nobody is forced to upload a
  recipe, and nothing has to fail.
* `KeyRenewal`: weak fairness of the attestation's steps at both ends, of clients
  that log in or leave and then end, and of `Expire`, whose timer goes off in the end.
  `RenewalEnds` assumes that no end gives up an attestation.
* `PowSession`: weak fairness of each client's steps and of each thread's. Nobody is
  obliged to start a client, to kill one or to restart the server.
* `Connections`: weak fairness of the main loop, of each running client and of each
  thread.

Strong fairness is nowhere needed: no two threads compete for something that is
taken back, as a queue that has room keeps it until its one kind of writer pushes
(with two fingerprinters either one's push is progress).

## Proofs

`StorageProofs` proves of `StorageCore!Spec`, for every
number and size of chunks, container size, cache size and number of containers:

* `TypeCorrect`, `IndexSafe`, `CacheSafe`: the invariants of `MCStorage`;
* `RestoreSafe` (`NeverWrongBytes`): a reply is the chunk asked for or zeros. The
  run has it in the refinement: `ChunkStore` replies nothing else;
* `FilesOnlyGrow`: its action property;
* `Refinement`: the server implements `ChunkStore`. Initial states map to initial
  states; each step maps to a step of `ChunkStore` or to a stutter.

They assume `SingleThread`, at most one data thread at a time, which
`MCStorageRace` shows they need, and `Spec`, where the server stops between
requests, which `MCStorageCrash` shows is needed. The constants are assumed as
`StorageAssumption` and `CacheAssumption` name it; `ChunkSize[h] <
MaxContainerSize <= BodySize` is what makes a chunk fit.

None of the properties is inductive. `IInv` adds:

* `FrontierInv`: `used` is below the bound, no file has a name later than the
  current one, and what the current container has in its file, if it was read back
  from one, lies below `used` and is still in memory. Without it a rotation could
  reuse a name or save less than the file has;
* `IndexInv`: an entry points to a container up to the current one, and one of the
  current container ends at or before `used`, so that the next copy spares it,
  unless its thread has yet to advance `used`;
* `DownInv`: a stopped server's `.StorageConfig` and files say what memory would;
* `StoringInv`: between `writeContainer` and `used_ +=` the bytes at the thread's
  key are the chunk and fit, and the index, once it has the entry, has this one;
* `RestoringInv`: between the query and the copy, the source that was chosen still
  holds the chunk;
* `CacheInv`: the cache is well formed (`WellFormed`: one slot per name, the
  recency list names just those, each operation keeps it so) and each cached
  container equals its file.

There is one lemma per action (`AppendIInv`, `RotateIInv`, ...) and lemmas on
copying bytes in and out (`CopyInProperties`, `HoldsKept`, `HoldsGivesBytes`).

`ChunkerProofs` proves of `Chunker!Spec`, for every file, window, modulus and size
that `ChunkerAssumption` and `FeaturesAssumption` allow, all six invariants of the
run: `TypeCorrect`, `ChunksBounded` (the empty chunk of a short fixed size block
included), `ChunksAreTheFile` (`ChunksAreFile`), `ContentDecides`
(`ContentDefined`), and the two of `Features`, `SeedIsOfContent` (`SeedOfContent`) and
`SimulatorCutsAlike` (`SimulatorFeatures`). Four invariants carry them:

* `IInv`: the types, and that an unfinished chunk is shorter than the maximum, so that
  one more byte fits, and that only variable size chunking leaves one;
* `FileInv`: the chunks cut, followed by the unfinished one, are what has been read,
  but for the zeros that a read leaves where an unfinished chunk lay; a zeroed chunk is
  a chunk a read came into;
* `HashInv`: `winFp` is the polynomial of the bytes in the window, modulo `FpMod`,
  though the code rolls it with a table of powers modulo `PolyMod`; so a boundary is
  decided by the last `Window` bytes of a chunk alone;
* `SimInv`: after as many bytes the Simulator has cut the same chunks, has the same
  `winFp` and holds the same unfinished chunk, or holds it already zeroed when the
  client's next step is a read: `ChunkingWithID` takes a block's last byte and the
  read after it in one step.

That a rolled hash is the polynomial of its window is arithmetic with congruences:
rolling takes a byte out by a table modulo a multiple of the hash's modulus. Those
lemmas are about any base and modulus, and serve the chunker's window (`FpMod` divides
`PolyMod`) and the one of the features (`SubMod` both times). For a feature, the list
is the windows' fingerprints after the entries never written (`ListEntries`), in
which an earlier, longer chunk has left nothing below the length of this one; and what
`Target` ends with is a greatest of the list or the 0 it starts with (`TargetWins`).

`DetectorProofs` proves of `PrefixDetector!Spec`, for all chunks, windows, thresholds
and batches:

* `TypeCorrect`;
* `SimilarChunksBounded`. The enclave's tables are cut at multiples of the window,
  the counts since the last cut are those of the table, a stretch of one window's
  length meets at most two cuts' intervals, and in each at most `Threshold` accepted
  chunks share an indicator. The invariant carries the set of cuts (`cuts`, a history
  variable) and the bound on each closed interval;
* `DetectsExactly` (`DetectExact`). The last cut is a multiple of the window
  (`Aligned`), so the table counts the tumbling window the next chunk falls into
  (`OpenWindow`), and the flag goes up with the chunk that makes it overfull;
* `SimulatorPredicts` (`SimulatorAgrees`), about the recursive definitions of
  `WindowCheck`. After k chunks the simulator's rows are those of the full windows, each
  with its highest count, and its tables count the open one (`Kept`, by induction,
  lemmas `KeptStart` and `KeptStep`); hence what its fraction is (`FractionRead`), to be
  compared with the enclave's count by `DetectExact`. A snapshot that fits in a window
  never closes one before its end (`OneWindow`).

A recursive function has the values its definition says only if some function has
them. `Recursion` proves that there is one, from the least-number principle (`Least`,
the library's well-founded order on the numbers); induction is then stated over a set
instead of a predicate (`Induction`), which needs no operator as a parameter. The
chunker's powers and the simulator's loops rest on it.

`KeyProofs` proves of `KeyService!Spec`, for any number of clients, requests, hashes,
masks, connections and faults that the assumptions allow, `TypeCorrect`,
`InStepHolds` (`InStep`) and `OnlyKnownCausesHolds` (`OnlyKnownCauses`). `IInv` again
has parts that hold whatever happens (`Carried`, `Conversation`: one message on its
way, of the connection and the request the client is at) and parts that hold as long
as a client has no cause: both ends have the same nonce (`SameNonce`), the same counter
but for the reply on its way (`SameCounter`), and the streams a reply is masked with are
those the client will make (`SameStreams`). Making masks
folds the counters of every entry: `Bystander` says what any step leaves of a client
that takes no part in it, its nonce and the sum of its counters among it, unless the
step gives that client a cause.

It proves of `KeyRenewal!RenewalSpec` `RenewalTypes` (`RenewalTypeOK`),
`SecretsAgree` (`SameSecrets`) and `KeysWithdrawn` (`KeyOfSession`), for every
countdown, number of attestations and number of clients. The invariant `RInv` follows
an attestation message by message (`Arrived`, `Attesting`), ties both countdowns to
the number of renewals as long as there has been one attestation (`FirstTimes`; after
a second one the countdowns part, which is the hazard named above), says what each
end's key is made of after a renewal, n = 0 included (`KeysMade`), and that after an
expiry the flag is down with no renewal under way unless one was then (`Withdrawn`).

`RestoreProofs` proves of `RestorePath!Spec`, for every set of recipes, batch
number, queue, wire and number of clients that `RestoreAssumption` allows:

* `TypesKept`: the type invariant, the queue's capacity and the window's width
  among it;
* `RestoresExactly`: `RestoreExact`, with connections lost at any moment and later
  uploads under the same name;
* `WindowStaysInside`: `WindowInsideList`, the 32-bit subtraction included;
* `DeadlockFree` (`NoDeadlock`): the data thread, main, the receiving and the writing
  thread never all wait before the end of the restore;
* `Ordered`: the invariant they follow from.

`IInv` has a conjunct per client. Its parts say which messages may be on their way
when (`Requests`, `Responses`, `Phases`: a conversation never has a response the
client does not wait for), that both ends' lists are the beginning of the recipe
file, and `InRow`: the chunks written, queued, being decrypted and on their way are,
in this order, one stretch of the list up to the server's count. A lost connection
drops the tail of that stretch, a message adds to it at its end, and a step of the
client moves a chunk across a border inside it (lemmas `RowTail`, `RowAppend`,
`RowLost`); `RestoreExact` reads its beginning. There is one lemma per action.

`DeadlockFree` needs more than that order: that somebody has the next word. `Going`
says it of each client whose connection is kept: who waits for a size or a recipe has
a message on its way or the data thread between its two reads, a client that has gone
has left its goodbye as the last request, and chunks not served yet are asked for.
When the client has nothing to take, `InRow` makes what it received what the server
restored (`AllTaken`), so that chunks are either still to come or all there; a full
queue never stops the receiving thread together with the writing one (`QueueMoves`).
The one wait that is an end is the one of `Termination`: a lost connection leaves the
writing thread waiting. That the `Waits` operators say when each thread's actions are
disabled is again a statement about `ENABLED`, read off the guards; on the instance
`Termination` shows that nothing else stops a restore.

`StoreAgain`'s guard, no upload between `runData`'s two reads of the recipe file, is
an assumption of the model that these theorems inherit.

`ConnectionsProofs` proves of `Connections!Spec`, for any number of users, runs,
kills and descriptors, `TypeCorrect`, `NeverCrosses` (`TakesPairs`) and the invariant
they follow from, `InTurn`.
`TakesPairs` speaks of the main loop only; `IInv` adds what the clients do: a
connection is queued once and by a run that has begun, an open connection tells how
far its client's run is, and a client is between its two connections only while the
main loop waits for it at the second port. So whoever is first in the other queue at
that moment is the client just taken, or a run that died there.

`PowProofs` proves of `PowSession!Spec`, for any number of clients, runs, proofs and
faults, `TypeCorrect`, `KeysAgree` (`SessionKeysAgree`) and `DiesOfNothingElse`
(`DiesOnlyOvertaken`). The type invariant bounds the keys by the connections: each
session key was asked for on a connection of its own (`OneEach`), so there are no more
of them (`KeysMade`). `IInv` has two parts per client. `Conversation` holds
whatever happens: one request or one answer on its way at most, the request the one
the client waits for, and `msg3` under the key of its enclave. `Agreement` holds while
the client has no cause: its sealed key is that of the entry, which is trusted; it
has no entry between LOGOUT and MSG01; after MSG2 the entry is that of the key. A
thread whose client has gone on to another connection either leaves the entry alone
or gives the client a cause (lemma `ServerTurn`), and that is where a LOGOUT or an
MSG01 of a killed run falls. The theorem on the server's death is then that none of
its three ways to die is open to a message of a connection that is not overtaken.

`UploadProofs` proves of `UploadPipeline!Spec`, for every file, number of
fingerprinters and capacity that `PipelineAssumption` allows, `TypeCorrect`,
`FlagsAreFinal` (`DoneIsFinal`), `InOnePlace` (`OnePlaceEach`),
`RecipesComplete` (`RecipeComplete`), and the theorems below, with exchanges and
proofs, sends and stores that fail at any moment. `IInv` has these parts:

* `Counted`: the counter of the fingerprinters is the number of those that have left
  their loop, so that whoever sees it full knows that all have;
* `Ends`: a chain along the stages. A thread that has left its loop, and has not
  failed, found its queue done and empty; a queue is done only when the thread that
  fills it has ended with empty hands. `EndsNext` has a case per action;
* `Conserved`: all queues, hands, batches and the recipe list are one function
  (`Contents`) in which an item occurs at most once, and at least once when it was cut
  and no proof was refused. A step moves an item from one holder to another
  (`Moved`), hands a batch on in some order (`Passed`), adds an item (`Added`), takes
  the head away (`Taken`) or drops a batch (`Emptied`), and each is a lemma about
  functions;
* `Sent`: every recipe on the data connection is right. When the sender closes,
  `Ends` says that every other holder is empty (`AllArrived`), `Conserved` that the
  list then has each chunk once, and a sorted list of 1 to n without repetition is
  1, 2, ..., n (`Counting`, by cardinalities in place of an induction).

`std::sort` is the set of its possible results (`Sorted`): the arrangements of a
list that are in order.

What becomes of the chunks themselves is a second invariant, `SentInv`. The history
variable `overlooked` holds the chunks the server asked for and `powClient` did not
mark, since it looks at as many flags of a batch as chunks are asked for and not at
as many as there are; no action reads it.

* `Answered`: behind its proof a chunk is marked, or the server has its content, or it
  was overlooked, whatever flags came back (`AnsweredMeans`). `Shipped`: once listed,
  a marked chunk is in the sender's batch, on the data connection or stored.
  `Preceded`: on the connection it is before the recipe. `LastSent` empties the batch
  before the recipe is sent. So a recipe on the server lists chunks that are there or
  were overlooked: `OnlyTheseMissing`.
* `FromHere`: what the server has it had, or it is the content of a proven chunk.
  `Outnumbered`, while no answer is lost: chunks overlooked and contents new to the
  server are together no more than the chunks proven. `BatchCounts` is the step: with
  c lacking among n, at most n - c are beyond the place where `powClient` stops
  looking. At the end of the file this is `BehindKnownOnly`: no more chunks are
  overlooked than the file has beyond its new contents. It is the second half of
  `OnlyOverlookedMissing`.
* `NewFileRestorable` follows: a file of different chunks, all new to the server, is
  restorable (`RecipeRestorable`) as soon as its recipe is there, whatever else fails,
  while no answer to a proof is lost. Its hypothesis is
  the count of `BehindKnownOnly`, and `MCUploadKnown` shows that one known chunk
  suffices to break it.

That an upload ends is a liveness property, which TLC checks; what it rests on is
proved. `DeadlockFree` (`NoDeadlock`): if no thread can move and every message is
read, the upload is over, or what has failed excuses it. The sender has ended, and
then `Ends` goes back along the stages, or it waits; then `powClient` cannot be
spinning and has not ended (`DoneAtExit`), so it waits, and so on to the chunker,
which can move. The last fingerprinter to end sets the done flag because the counter
is then full (`LastSetsDone`). `Progress` (`WorkShrinks`): each step, failures
included, lessens the natural number `Work`, which weighs every item by how far it is
from the server and every thread by its turns; the theorem holds of every step, so no
run repeats it. What is left to TLC is the step from these two and weak fairness to
`Termination`, and with it that a thread stands still for no other reason than those
`Stuck` lists, which is a statement about `ENABLED`.

Only model-checked: liveness under fairness (`Termination`, `EveryoneServed`,
`RunsEnd` and the others), as `ENABLED` and fairness are out of the prover's reach.
`RecipeRestorable` is false in general (`MCUploadKnown`).

## What is not modelled

* The framing of messages (`ssl.cpp`: a length and its bytes): a connection is a
  FIFO of messages, or in `PowSession` one message each way.
* Ciphers and hashes inside: encryption is exact under its own key and garbage under
  another, a hash of features is injective, a MAC is checked or not.
* The configuration reader, whose values are the constants; Intel's attestation
  utilities and sample code (`src/enclave/utils/`), whose verdicts are choices.
* The Simulator's programs that mix and swap the snapshots it is run on: they
  prepare inputs and have no counterpart in the prototype.
* `RecvDecode::recvFileHead`, which nothing calls.
* Two data threads beyond the first violation: `currentReadContainer_` is one
  buffer for all of them (`storageCore.cpp:408`), and the LRU list is reordered
  under a shared lock. `MCStorageRace` stops at the first thing that breaks; a torn
  list is undefined behaviour.
* An upload between the two reads of a recipe file (`dataSR.cpp:226`): the second
  read writes past a buffer sized by the first.
* After a lost answer (`powClient.cpp:152`) the uninitialised count of chunks to upload
  may be larger than the batch: the loop then reads and writes past both arrays,
  undefined behaviour that may end the client. The model takes any flags of the batch.
* Running out of container names (`next_permutation` at its end) and of disk.

## What is left

Two clients on `UploadPipeline` and one `StorageCore`, once the race of
`MCStorageRace` has a lock.
