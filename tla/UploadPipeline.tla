--------------------------- MODULE UploadPipeline ---------------------------
(***************************************************************************)
(* One upload of a client (client-sgx -s file): the threads clientMain.cpp *)
(* starts, the bounded queues between them and the flags that end them     *)
(*                                                                         *)
(*   chunker -> fingerprinters -> keyClient -> encoder -> powClient        *)
(*           -> sender                                                     *)
(*                                                                         *)
(* and what the storage server does with the result: it answers the proof  *)
(* of ownership of a batch with the chunks it lacks, and it stores chunks  *)
(* and the recipe in the order of the data connection.                     *)
(*                                                                         *)
(* A chunk is its ID; the recipe head the chunker sends last is the item   *)
(* after them. A thread's loop is                                          *)
(*   if (done_ && isEmpty()) JobDoneFlag = true; if (extractMQ(x)) ...;    *)
(*   if (a batch is full || JobDoneFlag) ...; if (JobDoneFlag) ...         *)
(* and pc tells how far its end is: "run" with the flag unset, "last" with *)
(* the flag set, "closing" after the flag's last batch, "exit".            *)
(***************************************************************************)
EXTENDS Naturals, Sequences, FiniteSets, Functions

CONSTANTS FileLength,     \* chunks of the file
          Content,        \* chunk hashes
          ContentOf,      \* the hash of each chunk
          FpThread,       \* fingerprinter threads (_keySeedGenFeatureThreadNumber)
          QueueCapacity,  \* capacity<5000> of messageQueue
          KeyBatch,       \* chunks per key exchange: keyBatchSize_ / 2
          PowBatch,       \* chunks per proof of ownership (powBatchSize)
          SendBatch,      \* chunks per message to the server (sendBatchSize)
          Indexed,        \* hashes the server already has
          NoRecipe

ASSUME PipelineAssumption ==
  /\ FileLength \in Nat
  /\ ContentOf \in [1 .. FileLength -> Content]
  /\ IsFiniteSet(FpThread) /\ FpThread # {}
  /\ FpThread \cap {"keyClient", "encoder", "powClient", "sender"} = {}
  /\ QueueCapacity \in Nat \ {0} /\ KeyBatch \in Nat \ {0}
  /\ PowBatch \in Nat \ {0} /\ SendBatch \in Nat \ {0}
  /\ Indexed \subseteq Content
  /\ NoRecipe \notin [entries : Seq(1 .. FileLength), head : BOOLEAN]

ChunkID == 1 .. FileLength
RecipeHead == FileLength + 1
Item == 1 .. RecipeHead

Stage == {"fingerprint", "key", "encode", "pow", "send"}
Worker == FpThread \cup {"keyClient", "encoder", "powClient", "sender"}

(* The queue a thread reads and the queue it fills.                        *)
In == [w \in Worker |->
         CASE w = "keyClient" -> "key" [] w = "encoder" -> "encode"
           [] w = "powClient" -> "pow" [] w = "sender" -> "send"
           [] OTHER -> "fingerprint"]
Out == [w \in Worker \ {"sender"} |->
         CASE w = "keyClient" -> "encode" [] w = "encoder" -> "pow"
           [] w = "powClient" -> "send" [] OTHER -> "key"]

VARIABLES
  cut,         \* items the chunker has inserted
  queue,       \* messageQueue of each stage
  done,        \* done_ of each stage's queue
  finished,    \* jobDoneFlagCounterForFpGen_
  pc,          \* how far each thread is
  outbox,      \* what a thread has yet to insert into the next queue
  keyBatch,    \* KeyClient's batchList
  powBatch,    \* powClient's batchChunk
  needUpload,  \* chunks whose type is CHUNK_TYPE_NEED_UPLOAD
  sendBatch,   \* chunks in the sender's sendChunkBatchBuffer
  recipeList,  \* the sender's recipe entries
  head,        \* the sender has the recipe head (fileRecipe)
  wire,        \* messages on the data connection
  stored,      \* the hashes the server indexes
  recipe,      \* the recipe file on the server
  overlooked,  \* history: chunks the server asked for and powClient did not mark
  failed       \* what has failed: a key exchange, a proof of ownership or its
               \* answer, the server's store, the connection to the server

client == <<keyBatch, powBatch, needUpload, sendBatch, recipeList, head>>
server == <<stored, recipe, overlooked>>
vars == <<cut, queue, done, finished, pc, outbox, client, wire, server, failed>>
-----------------------------------------------------------------------------
Room(s) == Len(queue[s]) < QueueCapacity
Insert(s, x) == queue' = [queue EXCEPT ![s] = Append(@, x)]

(* A thread that reaches the top of its loop: nothing left to insert, no   *)
(* full batch to handle.                                                   *)
AtTop(w) ==
  /\ outbox[w] = << >>
  /\ w = "keyClient" => Len(keyBatch) < KeyBatch
  /\ w = "powClient" => Len(powBatch) < PowBatch
  /\ w = "sender" => Len(sendBatch) < SendBatch

(* extractMQ takes the oldest item; with JobDoneFlag set it fails, since   *)
(* the queue was found empty after done_ was (DoneIsFinal).                *)
Extract(w) ==
  /\ pc[w] = "run" /\ AtTop(w)
  /\ queue[In[w]] # << >>
  /\ queue' = [queue EXCEPT ![In[w]] = Tail(@)]

-----------------------------------------------------------------------------
(* The chunker inserts the chunks in order, then the recipe head, then     *)
(* sets done_. insertMQ spins while the queue is full.                     *)
Cut ==
  /\ cut < RecipeHead
  /\ Room("fingerprint")
  /\ Insert("fingerprint", cut + 1)
  /\ cut' = cut + 1
  /\ UNCHANGED <<done, finished, pc, outbox, client, wire, server, failed>>

ChunkerDone ==
  /\ cut = RecipeHead /\ ~ done["fingerprint"]
  /\ done' = [done EXCEPT !["fingerprint"] = TRUE]
  /\ UNCHANGED <<cut, queue, finished, pc, outbox, client, wire, server, failed>>

(* With a bug: the result of the lock-free push is ignored.                *)
PushUnbounded(w) ==
  /\ outbox[w] # << >>
  /\ Insert(Out[w], outbox[w][1])
  /\ outbox' = [outbox EXCEPT ![w] = Tail(@)]
  /\ UNCHANGED <<cut, done, finished, pc, client, wire, server, failed>>

(* insertMQ of the next item into the next queue.                          *)
Push(w) ==
  /\ outbox[w] # << >>
  /\ Room(Out[w])
  /\ Insert(Out[w], outbox[w][1])
  /\ outbox' = [outbox EXCEPT ![w] = Tail(@)]
  /\ UNCHANGED <<cut, done, finished, pc, client, wire, server, failed>>

(* The thread finds done_ set and its queue empty: JobDoneFlag = true. A   *)
(* fingerprinter also counts itself, under mutexFpGenJobFlag_.             *)
NoticeDone(w) ==
  /\ pc[w] = "run" /\ AtTop(w)
  /\ done[In[w]] /\ queue[In[w]] = << >>
  /\ pc' = [pc EXCEPT ![w] = "last"]
  /\ finished' = IF w \in FpThread THEN finished + 1 ELSE finished
  /\ UNCHANGED <<cut, queue, done, outbox, client, wire, server, failed>>

(* A fingerprinter and the encoder hand each item on; the recipe head goes *)
(* through KeyClient and powClient untouched.                              *)
Relay(w) ==
  /\ Extract(w)
  /\ w \in FpThread \cup {"encoder"} \/ queue[In[w]][1] = RecipeHead
  /\ outbox' = [outbox EXCEPT ![w] = <<queue[In[w]][1]>>]
  /\ UNCHANGED <<cut, done, finished, pc, client, wire, server, failed>>

(* With a bug: the first fingerprinter to end does not wait for the others.*)
FinishFirst(w) ==
  /\ w # "sender" /\ outbox[w] = << >>
  /\ \/ w \in FpThread \cup {"encoder"} /\ pc[w] = "last"
     \/ w = "keyClient" /\ pc[w] = "last" /\ keyBatch = << >>
     \/ w = "powClient" /\ pc[w] = "closing"
  /\ done' = [done EXCEPT ![Out[w]] = TRUE]
  /\ pc' = [pc EXCEPT ![w] = "exit"]
  /\ UNCHANGED <<cut, queue, finished, outbox, client, wire, server, failed>>

(* With a bug: the counter is compared with the number of other threads.   *)
FinishMiscounts(w) ==
  /\ w # "sender" /\ outbox[w] = << >>
  /\ \/ w \in FpThread \cup {"encoder"} /\ pc[w] = "last"
     \/ w = "keyClient" /\ pc[w] = "last" /\ keyBatch = << >>
     \/ w = "powClient" /\ pc[w] = "closing"
  /\ done' = IF w \in FpThread /\ finished # Cardinality(FpThread) - 1 THEN done
             ELSE [done EXCEPT ![Out[w]] = TRUE]
  /\ pc' = [pc EXCEPT ![w] = "exit"]
  /\ UNCHANGED <<cut, queue, finished, outbox, client, wire, server, failed>>

(* The end of a thread that hands on what it reads: the next queue's       *)
(* done_ is set; of the fingerprinters, by those that see the counter full.*)
Finish(w) ==
  /\ w # "sender" /\ outbox[w] = << >>
  /\ \/ w \in FpThread \cup {"encoder"} /\ pc[w] = "last"
     \/ w = "keyClient" /\ pc[w] = "last" /\ keyBatch = << >>
     \/ w = "powClient" /\ pc[w] = "closing"
  /\ done' = IF w \in FpThread /\ finished # Cardinality(FpThread) THEN done
             ELSE [done EXCEPT ![Out[w]] = TRUE]
  /\ pc' = [pc EXCEPT ![w] = "exit"]
  /\ UNCHANGED <<cut, queue, finished, outbox, client, wire, server, failed>>
-----------------------------------------------------------------------------
TakeForKey ==
  /\ Extract("keyClient")
  /\ queue["key"][1] # RecipeHead
  /\ keyBatch' = Append(keyBatch, queue["key"][1])
  /\ UNCHANGED <<cut, done, finished, pc, outbox, powBatch, needUpload, sendBatch,
                 recipeList, head, wire, server, failed>>

(* With a bug: the batch is due when it holds one chunk too many.          *)
KeyBatchDueLate ==
  \/ pc["keyClient"] = "run" /\ Len(keyBatch) > KeyBatch
  \/ pc["keyClient"] = "last" /\ keyBatch # << >>

KeyBatchDue ==
  \/ pc["keyClient"] = "run" /\ Len(keyBatch) = KeyBatch
  \/ pc["keyClient"] = "last" /\ keyBatch # << >>

(* std::sort of a list of chunks by their IDs.                             *)
Sorted(list) ==
  {[i \in DOMAIN list |-> list[p[i]]] :
     p \in {q \in Bijection(DOMAIN list, DOMAIN list) :
             \A i, j \in DOMAIN list : i < j => list[q[i]] <= list[q[j]]}}

(* The key server answers for the whole batch, which goes on sorted by ID. *)
ExchangeKeys ==
  /\ outbox["keyClient"] = << >> /\ KeyBatchDue
  /\ \E batch \in Sorted(keyBatch) : outbox' = [outbox EXCEPT !["keyClient"] = batch]
  /\ keyBatch' = << >>
  /\ UNCHANGED <<cut, queue, done, finished, pc, powBatch, needUpload, sendBatch,
                 recipeList, head, wire, server, failed>>

(* keyExchange fails: run returns, and nobody sets the encoder's done_.    *)
ExchangeFails ==
  /\ outbox["keyClient"] = << >> /\ KeyBatchDue
  /\ pc' = [pc EXCEPT !["keyClient"] = "exit"]
  /\ failed' = failed \cup {"key"}
  /\ UNCHANGED <<cut, queue, done, finished, outbox, client, wire, server>>
-----------------------------------------------------------------------------
TakeForPow ==
  /\ Extract("powClient")
  /\ queue["pow"][1] # RecipeHead
  /\ powBatch' = Append(powBatch, queue["pow"][1])
  /\ UNCHANGED <<cut, done, finished, pc, outbox, keyBatch, needUpload, sendBatch,
                 recipeList, head, wire, server, failed>>

PowBatchDue == /\ pc["powClient"] \in {"run", "last"} /\ outbox["powClient"] = << >>
               /\ Len(powBatch) = PowBatch \/ pc["powClient"] = "last"

AfterBatch(w) == pc' = [pc EXCEPT ![w] = IF @ = "last" THEN "closing" ELSE @]

(* With a bug: batchChunk is not cleared after a batch.                    *)
ProveOwnershipKeepsBatch ==
  /\ PowBatchDue
  /\ needUpload' = needUpload \cup {powBatch[i] : i \in DOMAIN powBatch}
  /\ outbox' = [outbox EXCEPT !["powClient"] = powBatch]
  /\ AfterBatch("powClient")
  /\ UNCHANGED <<cut, queue, done, finished, keyBatch, powBatch, sendBatch, recipeList,
                 head, wire, server, failed>>

(* dedupByHash: the places in the batch of the chunks the server lacks.    *)
DedupByHash(batch) == {i \in DOMAIN batch : ContentOf[batch[i]] \notin stored}

(* The batch goes on to the sender, more of its chunks marked.             *)
HandOn(marked) ==
  /\ needUpload' = needUpload \cup {powBatch[i] : i \in marked}
  /\ overlooked' =
       overlooked \cup ({powBatch[i] : i \in DedupByHash(powBatch)} \ needUpload')
  /\ outbox' = [outbox EXCEPT !["powClient"] = powBatch]
  /\ powBatch' = << >>
  /\ AfterBatch("powClient")
  /\ UNCHANGED <<cut, queue, done, finished, keyBatch, sendBatch, recipeList, head,
                 wire, stored, recipe>>

(* With a bug: one flag less than that is looked at.                       *)
ProveOwnershipLooksShort ==
  /\ PowBatchDue
  /\ LET lacking == DedupByHash(powBatch)
     IN  \E stack \in SUBSET (DOMAIN powBatch \ lacking) :
           HandOn({i \in lacking \cup stack : i < Cardinality(lacking)})
  /\ UNCHANGED failed

(* dedupByHash counts the hashes it does not find and sets their flags; it *)
(* leaves the flags of the others as the server's stack has them. Then     *)
(* run looks at as many flags as there are chunks to upload.               *)
ProveOwnership ==
  /\ PowBatchDue
  /\ LET lacking == DedupByHash(powBatch)
     IN  \E stack \in SUBSET (DOMAIN powBatch \ lacking) :
           HandOn({i \in lacking \cup stack : i <= Cardinality(lacking)})
  /\ UNCHANGED failed

(* The connection is lost before the answer. run looks at netstatus, which *)
(* still says SUCCESS from the batch before or was never set, and takes    *)
(* the count and the flags from its own stack.                             *)
AnswerLost ==
  /\ PowBatchDue
  /\ \E marked \in SUBSET DOMAIN powBatch : HandOn(marked)
  /\ failed' = failed \cup {"answer"}

(* The enclave or the server refuses the batch, or the answer is lost and  *)
(* netstatus was never SUCCESS: run leaves its loop.                       *)
ProofFails ==
  /\ PowBatchDue
  /\ powBatch' = << >>
  /\ pc' = [pc EXCEPT !["powClient"] = "closing"]
  /\ failed' = failed \cup {"pow"}
  /\ UNCHANGED <<cut, queue, done, finished, outbox, keyBatch, needUpload, sendBatch,
                 recipeList, head, wire, server>>
-----------------------------------------------------------------------------
TakeForSend ==
  /\ Extract("sender")
  /\ LET x == queue["send"][1]
     IN  IF x = RecipeHead
         THEN head' = TRUE /\ UNCHANGED <<sendBatch, recipeList>>
         ELSE /\ recipeList' = Append(recipeList, x)
              /\ sendBatch' = IF x \in needUpload THEN Append(sendBatch, x) ELSE sendBatch
              /\ UNCHANGED head
  /\ UNCHANGED <<cut, done, finished, pc, outbox, keyBatch, powBatch, needUpload,
                 wire, server, failed>>

SendDue == \/ pc["sender"] = "run" /\ Len(sendBatch) = SendBatch
           \/ pc["sender"] = "last"

(* With a bug: the chunks left when the job is done are not sent.          *)
SendChunksFullOnly ==
  /\ SendDue
  /\ wire' = IF Len(sendBatch) = SendBatch
             THEN Append(wire, [kind |-> "chunks", ids |-> sendBatch, head |-> FALSE])
             ELSE wire
  /\ sendBatch' = << >>
  /\ AfterBatch("sender")
  /\ UNCHANGED <<cut, queue, done, finished, outbox, keyBatch, powBatch, needUpload,
                 recipeList, head, server, failed>>

(* sendChunkList, when the batch is full or the job is done.               *)
SendChunks ==
  /\ SendDue
  /\ wire' = Append(wire, [kind |-> "chunks", ids |-> sendBatch, head |-> FALSE])
  /\ sendBatch' = << >>
  /\ AfterBatch("sender")
  /\ UNCHANGED <<cut, queue, done, finished, outbox, keyBatch, powBatch, needUpload,
                 recipeList, head, server, failed>>

(* With a bug: the entries keep the order in which they arrived.           *)
SendRecipeUnsorted ==
  /\ pc["sender"] = "closing"
  /\ wire' = Append(wire, [kind |-> "recipe", ids |-> recipeList, head |-> head])
  /\ pc' = [pc EXCEPT !["sender"] = "ending"]
  /\ UNCHANGED <<cut, queue, done, finished, outbox, client, server, failed>>

(* sendRecipe sorts the entries by chunk ID.                               *)
SendRecipe ==
  /\ pc["sender"] = "closing"
  /\ \E entries \in Sorted(recipeList) :
       wire' = Append(wire, [kind |-> "recipe", ids |-> entries, head |-> head])
  /\ pc' = [pc EXCEPT !["sender"] = "ending"]
  /\ UNCHANGED <<cut, queue, done, finished, outbox, client, server, failed>>

(* sendEndFlag returns true when the data thread has read everything before the *)
(* CLIENT_EXIT it answers.                                                 *)
SendEnd ==
  /\ pc["sender"] = "ending" /\ wire = << >>
  /\ pc' = [pc EXCEPT !["sender"] = "exit"]
  /\ UNCHANGED <<cut, queue, done, finished, outbox, client, wire, server, failed>>

(* The server is gone or closes the connection: a send or the answer to    *)
(* the end flag fails, and with it all that is left to send. run returns.  *)
SendFails ==
  /\ SendDue \/ pc["sender"] \in {"closing", "ending"}
  /\ pc' = [pc EXCEPT !["sender"] = "exit"]
  /\ failed' = failed \cup {"server"}
  /\ UNCHANGED <<cut, queue, done, finished, outbox, client, wire, server>>

(* DataSR::runData handles the next message.                               *)
Serve ==
  /\ wire # << >> /\ "store" \notin failed
  /\ wire' = Tail(wire)
  /\ LET m == wire[1]
     IN  IF m.kind = "chunks"
         THEN /\ stored' = stored \cup {ContentOf[m.ids[i]] : i \in DOMAIN m.ids}
              /\ UNCHANGED recipe
         ELSE /\ recipe' = [entries |-> m.ids, head |-> m.head]
              /\ UNCHANGED stored
  /\ UNCHANGED <<cut, queue, done, finished, pc, outbox, client, overlooked, failed>>

(* storeChunk fails for a chunk of the message: those before it are        *)
(* stored, and runData returns without an answer or a close. Nobody reads  *)
(* the connection any more.                                                *)
StoreFails ==
  /\ wire # << >> /\ "store" \notin failed
  /\ \E n \in DOMAIN wire[1].ids :
       /\ wire[1].kind = "chunks"
       /\ stored' = stored \cup {ContentOf[wire[1].ids[i]] : i \in 1 .. n - 1}
  /\ failed' = failed \cup {"store"}
  /\ UNCHANGED <<cut, queue, done, finished, pc, outbox, client, wire, recipe, overlooked>>
-----------------------------------------------------------------------------
(* No code sets Chunk_t.type before powClient does: the chunker's stack    *)
(* decides which chunks already bear CHUNK_TYPE_NEED_UPLOAD.               *)
Init ==
  /\ cut = 0
  /\ queue = [s \in Stage |-> << >>]
  /\ done = [s \in Stage |-> FALSE]
  /\ finished = 0
  /\ pc = [w \in Worker |-> "run"]
  /\ outbox = [w \in Worker |-> << >>]
  /\ keyBatch = << >> /\ powBatch = << >> /\ sendBatch = << >> /\ recipeList = << >>
  /\ needUpload \in SUBSET ChunkID
  /\ head = FALSE
  /\ wire = << >>
  /\ stored = Indexed
  /\ recipe = NoRecipe
  /\ overlooked = {}
  /\ failed = {}

Chunker == Cut \/ ChunkerDone
Fingerprinter(w) == Push(w) \/ NoticeDone(w) \/ Relay(w) \/ Finish(w)
KeyClient == \/ Push("keyClient") \/ NoticeDone("keyClient") \/ Relay("keyClient")
             \/ Finish("keyClient") \/ TakeForKey \/ ExchangeKeys \/ ExchangeFails
Encoder == Push("encoder") \/ NoticeDone("encoder") \/ Relay("encoder") \/ Finish("encoder")
PowClient == \/ Push("powClient") \/ NoticeDone("powClient") \/ Relay("powClient")
             \/ Finish("powClient") \/ TakeForPow \/ ProveOwnership
             \/ AnswerLost \/ ProofFails
Sender == \/ NoticeDone("sender") \/ TakeForSend \/ SendChunks \/ SendRecipe \/ SendEnd
          \/ SendFails

Next == \/ Chunker \/ (\E w \in FpThread : Fingerprinter(w))
        \/ KeyClient \/ Encoder \/ PowClient \/ Sender \/ Serve \/ StoreFails

(* The threads are scheduled by the operating system, the server answers;  *)
(* nothing has to fail.                                                    *)
Fairness == /\ WF_vars(Chunker) /\ \A w \in FpThread : WF_vars(Fingerprinter(w))
            /\ WF_vars(KeyClient) /\ WF_vars(Encoder) /\ WF_vars(PowClient)
            /\ WF_vars(Sender) /\ WF_vars(Serve)

Spec == Init /\ [][Next]_vars /\ Fairness
-----------------------------------------------------------------------------
Batches == [keyClient |-> keyBatch, powClient |-> powBatch, sender |-> recipeList]

(* Every variable has its type; a queue never holds more than its capacity *)
(* and a batch never more than its buffer was allocated for.               *)
TypeOK ==
  /\ cut \in 0 .. RecipeHead
  /\ \A s \in Stage : Len(queue[s]) <= QueueCapacity /\ queue[s] \in Seq(Item)
  /\ done \in [Stage -> BOOLEAN]
  /\ finished \in 0 .. Cardinality(FpThread)
  /\ pc \in [Worker -> {"run", "last", "closing", "ending", "exit"}]
  /\ outbox \in [Worker -> Seq(Item)]
  /\ keyBatch \in Seq(ChunkID) /\ Len(keyBatch) <= KeyBatch
  /\ powBatch \in Seq(ChunkID) /\ Len(powBatch) <= PowBatch
  /\ sendBatch \in Seq(ChunkID) /\ Len(sendBatch) <= SendBatch
  /\ recipeList \in Seq(ChunkID)
  /\ needUpload \subseteq ChunkID /\ overlooked \subseteq ChunkID /\ head \in BOOLEAN
  /\ stored \subseteq Content
  /\ failed \subseteq {"key", "pow", "answer", "store", "server"}
  /\ recipe # NoRecipe => recipe \in [entries : Seq(ChunkID), head : BOOLEAN]

(* A done_ flag is set only when every item has passed: the stages before  *)
(* have nothing left in a queue, in a batch or in the hands of any of      *)
(* their threads. Otherwise the next thread ends and an item is lost, as   *)
(* it is when powClient leaves its loop for a refused batch.               *)
DoneIsFinal ==
  /\ done["fingerprint"] => cut = RecipeHead
  /\ \A w \in Worker \ {"sender"} :
       done[Out[w]] /\ ~ (w = "powClient" /\ "pow" \in failed) =>
         done[In[w]] /\ queue[In[w]] = << >> /\ outbox[w] = << >>
  /\ done["encode"] => keyBatch = << >>
  /\ done["send"] => powBatch = << >>

(* Where an item is: in a queue, in a thread's hands, in a batch, or in    *)
(* the recipe.                                                             *)
Places(x) ==
  (UNION {{<<s, i>> : i \in {j \in DOMAIN queue[s] : queue[s][j] = x}} : s \in Stage})
  \cup (UNION {{<<w, "out", i>> : i \in {j \in DOMAIN outbox[w] : outbox[w][j] = x}}
                 : w \in Worker})
  \cup (UNION {{<<b, "batch", i>> : i \in {j \in DOMAIN Batches[b] : Batches[b][j] = x}}
                 : b \in DOMAIN Batches})

(* A chunk the chunker has cut is in exactly one place: with several       *)
(* fingerprinters on one queue and batches that are copied on, none is in  *)
(* the recipe twice, and none is dropped but those of one refused batch.   *)
OnePlaceEach ==
  LET missing == {x \in ChunkID : x <= cut /\ Places(x) = {}}
  IN  /\ \A x \in ChunkID : Cardinality(Places(x)) <= (IF x <= cut THEN 1 ELSE 0)
      /\ Cardinality(missing) <= (IF "pow" \in failed THEN PowBatch ELSE 0)

(* The recipe the server gets lists the file's chunks in file order, with  *)
(* the head, however the fingerprinters reordered them; after a refused    *)
(* proof it is sent all the same, in order, with some of them.             *)
RecipeComplete ==
  recipe # NoRecipe =>
    /\ "pow" \notin failed => recipe = [entries |-> [i \in ChunkID |-> i], head |-> TRUE]
    /\ \A i, j \in DOMAIN recipe.entries : i < j => recipe.entries[i] < recipe.entries[j]

(* When the server has a recipe it has every chunk the recipe lists: a     *)
(* restore that starts then finds them all.                                *)
RecipeRestorable ==
  recipe # NoRecipe =>
    \A i \in DOMAIN recipe.entries : ContentOf[recipe.entries[i]] \in stored

(* A chunk the recipe lists is on the server or was overlooked, and those  *)
(* overlooked are no more than the chunks beyond one for each content that *)
(* was new to the server when the upload began, unless an answer was lost. *)
MissingOverlooked ==
  recipe # NoRecipe =>
    \A i \in DOMAIN recipe.entries :
      ContentOf[recipe.entries[i]] \in stored \/ recipe.entries[i] \in overlooked
OverlookedBehindKnown ==
  "answer" \notin failed =>
    Cardinality(overlooked)
      <= FileLength - Cardinality({ContentOf[x] : x \in ChunkID} \ Indexed)

(* No more is lost than that: every chunk the client marks gets to the     *)
(* server before the recipe, and powClient, which looks at as many flags   *)
(* as chunks were asked for, overlooks one only behind flags of chunks     *)
(* the server had, one for one.                                            *)
OnlyOverlookedMissing == MissingOverlooked /\ OverlookedBehindKnown

(* Why a thread does not move: it has ended, waits for an item or for the   *)
(* end of its queue, spins on a full queue, or waits for the server.       *)
Waits(w) == pc[w] = "run" /\ AtTop(w) /\ queue[In[w]] = << >> /\ ~ done[In[w]]
Spins(w) == w # "sender" /\ outbox[w] # << >> /\ ~ Room(Out[w])
Stuck(w) == \/ pc[w] = "exit" \/ Waits(w) \/ Spins(w)
            \/ w = "sender" /\ pc[w] = "ending" /\ wire # << >>
ChunkerStuck == IF cut < RecipeHead THEN ~ Room("fingerprint") ELSE done["fingerprint"]

ThreadsEnded == failed \ {"answer"} # {} \/ \A w \in Worker : pc[w] = "exit"
RecipeSent == \/ failed \cap {"key", "store", "server"} # {}
              \/ pc["sender"] = "exit" /\ recipe # NoRecipe

(* The threads never wait in a circle, each for an item, for room or for a *)
(* done flag of another: when none can move and the server has read every  *)
(* message, the upload is over.                                            *)
NoDeadlock ==
  ChunkerStuck /\ (\A w \in Worker : Stuck(w)) /\ wire = << >>
    => ThreadsEnded /\ RecipeSent

(* How far an item is from the server, summed over the items, and how far  *)
(* the threads are from their ends.                                        *)
After == [run |-> {"last", "closing", "ending", "exit"},
          last |-> {"closing", "ending", "exit"}, closing |-> {"ending", "exit"},
          ending |-> {"exit"}, exit |-> {}]
Ahead == {e \in Worker \X {"last", "closing", "ending", "exit"} : e[2] \in After[pc[e[1]]]}
InHand == {w \in FpThread : outbox[w] # << >>}
AtClientFront ==
  14 * (RecipeHead - cut) + 13 * Len(queue["fingerprint"]) + 12 * Cardinality(InHand)
AtKeyClient ==
  11 * Len(queue["key"]) + 10 * Len(keyBatch) + 9 * Len(outbox["keyClient"])
AtEncoder == 8 * Len(queue["encode"]) + 7 * Len(outbox["encoder"])
AtPowClient ==
  6 * Len(queue["pow"]) + 5 * Len(powBatch) + 4 * Len(outbox["powClient"])
AtSender == 3 * Len(queue["send"]) + 2 * Len(sendBatch) + Len(wire)
StoreTurn == IF "store" \in failed THEN 0 ELSE 1
Turns == 2 * Cardinality(Ahead) + (IF done["fingerprint"] THEN 0 ELSE 1) + StoreTurn
Work == AtClientFront + AtKeyClient + AtEncoder + AtPowClient + AtSender + Turns

(* No step of any thread undoes another: each brings an item nearer to the *)
(* server or a thread nearer to its end, failures included, so that an     *)
(* upload cannot go on for ever in whatever order its threads run.         *)
WorkShrinks == [][Work' < Work]_vars

(* Every thread of the upload ends, so that the client's join returns,     *)
(* unless something fails. After a refused proof the sender ends all the   *)
(* same and the server has its recipe. After a failed key exchange the     *)
(* sender waits for items, after a failed store for the answer to its end  *)
(* flag, and when the server is lost it ends without a recipe.             *)
Termination == <>ThreadsEnded /\ <>RecipeSent
=============================================================================
