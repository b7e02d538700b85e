----------------------------- MODULE RestorePath -----------------------------
(***************************************************************************)
(* A restore (client-sgx -r file): the recipe files of the storage server  *)
(* (storageCore.cpp), the data thread that serves the client               *)
(* (DataSR::runData), and the client's two threads, RecvDecode::run, which *)
(* receives and decrypts chunks, and Retriever::run, which writes them.    *)
(*                                                                         *)
(*   client                              server                            *)
(*   recipe wanted               -->                                       *)
(*                               <--     its size, or no such file         *)
(*                               <--     the recipe                        *)
(*   the decrypted chunk list    -->                                       *)
(*   chunks wanted               -->                                       *)
(*                               <--     the chunks, in batches            *)
(*                                                                         *)
(* A recipe is the sequence of its chunk hashes, of which the head gives   *)
(* the number; a hash stands for the chunk's content and for its key. What *)
(* restoreRecipeAndChunk gives for a hash is in StorageCore: the chunk, or *)
(* zeros if the index does not know it.                                    *)
(***************************************************************************)
EXTENDS Integers, Sequences

CONSTANTS FileName, Chunk,
          Recipes,        \* the recipes that may be uploaded
          Indexed,        \* the hashes in fp2ChunkDB
          Client,         \* restoring clients, each with its data thread
          FileOf,         \* the file each restores
          BatchNumber,    \* restoreChunkBatchNumber_ (sendChunkBatchSize)
          QueueCapacity,  \* capacity<5000> of messageQueue
          WireCapacity,   \* responses a connection holds before send blocks
          MaxUploads,     \* uploads of one name in a behaviour
          UintMod,        \* 2^32: startID_ and endID_ are uint32_t
          Zeros, Garbage

ASSUME RestoreAssumption ==
  /\ Recipes \subseteq Seq(Chunk)
  /\ Indexed \subseteq Chunk
  /\ FileOf \in [Client -> FileName]
  /\ {BatchNumber, QueueCapacity, WireCapacity} \subseteq Nat \ {0}
  /\ MaxUploads \in Nat
  /\ UintMod \in Nat \ {0} /\ \A r \in Recipes : Len(r) + BatchNumber < UintMod
  /\ Zeros \notin Chunk /\ Garbage \notin Chunk /\ Zeros # Garbage

VARIABLES
  recipeFile,  \* what each recipe file holds: recipes, one after the other
  request,     \* c: the messages on their way to the server
  response,    \* c: those on their way to the client
  session,     \* c: the local variables of runData
  client,      \* c: the client process
  broken       \* the clients whose connection is lost

vars == <<recipeFile, request, response, session, client, broken>>

(* at: "recv" | "recipe" (between the two reads of the recipe file) |      *)
(* "chunks" (in the loop over batches) | "exit". head is the first recipe  *)
(* of the file read, of which restoredFileRecipe_ is the head.             *)
NewSession == [at |-> "recv", file |-> "none", size |-> 0, head |-> << >>, list |-> << >>,
               start |-> 0, end |-> 0, restored |-> 0]

(* main: "init" | "size" | "recipe" | "threads" | "done" | "failed";       *)
(* recv and retr tell how far the two threads are, received and output     *)
(* what each has counted, todo the rest of the response being decrypted.   *)
NewClient == [main |-> "init", recv |-> "ask", retr |-> "run", list |-> << >>,
              received |-> 0, todo |-> << >>, queue |-> << >>, output |-> << >>]
-----------------------------------------------------------------------------
Size(rs) == LET n[i \in 0 .. Len(rs)] == IF i = 0 THEN 0 ELSE n[i - 1] + 1 + Len(rs[i])
            IN  n[Len(rs)]

(* ssl::send: on a lost connection nothing is sent, and nobody waits.      *)
SendRequest(c, m) ==
  request' = IF c \in broken THEN request ELSE [request EXCEPT ![c] = Append(@, m)]
SendResponse(c, m) ==
  \/ c \in broken /\ UNCHANGED response
  \/ /\ c \notin broken /\ Len(response[c]) < WireCapacity
     /\ response' = [response EXCEPT ![c] = Append(@, m)]

(* A connection is lost, and with it the end of what is on its way.        *)
Lose(c) ==
  /\ c \notin broken /\ broken' = broken \cup {c}
  /\ \E i \in 0 .. Len(request[c]), j \in 0 .. Len(response[c]) :
       /\ request' = [request EXCEPT ![c] = SubSeq(@, 1, i)]
       /\ response' = [response EXCEPT ![c] = SubSeq(@, 1, j)]
  /\ UNCHANGED <<recipeFile, session, client>>

(* storeRecipes, for a name fileName2metaDB does not have yet.             *)
StoreRecipe(f, r) ==
  /\ recipeFile[f] = << >>
  /\ recipeFile' = [recipeFile EXCEPT ![f] = <<r>>]
  /\ UNCHANGED <<broken, request, response, session, client>>

(* For a name it has, the file is opened with ios::app. An upload between  *)
(* the two reads of a restore is left out: the second read then writes     *)
(* beyond the buffer that was sized by the first.                          *)
StoreAgain(f, r) ==
  /\ \A c \in Client : session[c].at = "recipe" => session[c].file # f
  /\ recipeFile[f] # << >> /\ Len(recipeFile[f]) < MaxUploads
  /\ recipeFile' = [recipeFile EXCEPT ![f] = Append(@, r)]
  /\ UNCHANGED <<broken, request, response, session, client>>
-----------------------------------------------------------------------------
Receives(c, type) ==
  /\ session[c].at = "recv" /\ request[c] # << >> /\ request[c][1].type = type
  /\ request' = [request EXCEPT ![c] = Tail(@)]

(* CLIENT_DOWNLOAD_ENCRYPTED_RECIPE: restoreRecipesSize, and its answer.   *)
ServeRecipeSize(c) ==
  /\ Receives(c, "recipe")
  /\ LET f == request[c][1].file
         found == recipeFile[f] # << >>
     IN  /\ SendResponse(c, [type |-> "size", found |-> found])
         /\ session' = [session EXCEPT
              ![c] = IF found THEN [@ EXCEPT !.at = "recipe", !.file = f,
                                             !.size = Size(recipeFile[f])]
                     ELSE @]
  /\ UNCHANGED <<broken, recipeFile, client>>

(* restoreRecipes reads the file anew; the message's dataSize is the size  *)
(* read before.                                                            *)
ServeRecipe(c) ==
  /\ session[c].at = "recipe"
  /\ LET rs == recipeFile[session[c].file]
     IN  /\ SendResponse(c, [type |-> "recipe", size |-> session[c].size, recipes |-> rs])
         /\ session' = [session EXCEPT ![c].at = "recv", ![c].head = rs[1]]
  /\ UNCHANGED <<broken, recipeFile, request, client>>

(* CLIENT_UPLOAD_DECRYPTED_RECIPE, and the list that follows it.           *)
ServeList(c) ==
  /\ Receives(c, "list")
  /\ session' = [session EXCEPT ![c].list = request[c][1].list]
  /\ UNCHANGED <<broken, recipeFile, response, client>>

(* CLIENT_DOWNLOAD_CHUNK_WITH_RECIPE, before its loop.                     *)
ServeChunks(c) ==
  /\ Receives(c, "chunks")
  /\ LET total == Len(session[c].head)
     IN  session' = [session EXCEPT
           ![c].at = "chunks",
           ![c].end = IF total < BatchNumber THEN (total - 1) % UintMod ELSE @]
  /\ UNCHANGED <<broken, recipeFile, response, client>>

Restored(h) == IF h \in Indexed THEN h ELSE Zeros

(* With a bug: whole batches to the end.                                   *)
NextEndWhole(end, remain) == end + BatchNumber

(* With a bug: the window stays for the chunks that do not fill a batch.   *)
NextEndStops(end, remain) == end + (IF remain < BatchNumber THEN 0 ELSE BatchNumber)

(* endID_ after a batch, when remain chunks are left.                      *)
NextEnd(end, remain) == end + (IF remain < BatchNumber THEN remain ELSE BatchNumber)

(* With a bug: the window is moved on by whole batches.                    *)
ServeBatchRepeatsLast(c) ==
  /\ session[c].at = "chunks" /\ session[c].restored # Len(session[c].head)
  /\ LET s == session[c]
         n == (s.end - s.start) % UintMod
         restored == s.restored + n
     IN  /\ SendResponse(c, [type |-> "chunks", chunks |->
              [i \in 1 .. n |-> [id |-> s.start + i, data |-> Restored(s.list[s.start + i])]]])
         /\ session' = [session EXCEPT
              ![c].restored = restored,
              ![c].start = IF s.end = 0 THEN 0 ELSE s.end - 1,
              ![c].end = NextEnd(s.end, Len(s.head) - restored)]
  /\ UNCHANGED <<broken, recipeFile, request, client>>

(* restoreRecipeAndChunk for the chunks from startID_ to endID_ - 1, and   *)
(* the window of the next batch. IDs count from 1 here.                    *)
ServeBatch(c) ==
  /\ session[c].at = "chunks" /\ session[c].restored # Len(session[c].head)
  /\ LET s == session[c]
         n == (s.end - s.start) % UintMod
         restored == s.restored + n
     IN  /\ SendResponse(c, [type |-> "chunks", chunks |->
              [i \in 1 .. n |-> [id |-> s.start + i, data |-> Restored(s.list[s.start + i])]]])
         /\ session' = [session EXCEPT
              ![c].restored = restored,
              ![c].start = s.end,
              ![c].end = NextEnd(s.end, Len(s.head) - restored)]
  /\ UNCHANGED <<broken, recipeFile, request, client>>

BatchesDone(c) ==
  /\ session[c].at = "chunks" /\ session[c].restored = Len(session[c].head)
  /\ session' = [session EXCEPT ![c].at = "recv"]
  /\ UNCHANGED <<broken, recipeFile, request, response, client>>

(* CLIENT_EXIT, or the connection closed by a client that exits.           *)
ServeExit(c) ==
  /\ Receives(c, "exit")
  /\ session' = [session EXCEPT ![c].at = "exit"]
  /\ UNCHANGED <<broken, recipeFile, response, client>>

(* recv fails: the data thread returns, wherever the client is.            *)
ServeLost(c) ==
  /\ c \in broken /\ session[c].at = "recv" /\ request[c] = << >>
  /\ session' = [session EXCEPT ![c].at = "exit"]
  /\ UNCHANGED <<broken, recipeFile, request, response, client>>
-----------------------------------------------------------------------------
Takes(c, type) ==
  /\ response[c] # << >> /\ response[c][1].type = type
  /\ response' = [response EXCEPT ![c] = Tail(@)]

(* RecvDecode::processRecipe asks for the recipe.                          *)
AskRecipe(c) ==
  /\ client[c].main = "init"
  /\ SendRequest(c, [type |-> "recipe", file |-> FileOf[c]])
  /\ client' = [client EXCEPT ![c].main = "size"]
  /\ UNCHANGED <<broken, recipeFile, response, session>>

(* No such file: exit(0), which closes the connection.                     *)
GetSize(c) ==
  /\ client[c].main = "size" /\ Takes(c, "size")
  /\ IF response[c][1].found
     THEN client' = [client EXCEPT ![c].main = "recipe"] /\ UNCHANGED request
     ELSE /\ client' = [client EXCEPT ![c].main = "failed"]
          /\ SendRequest(c, [type |-> "exit"])
  /\ UNCHANGED <<broken, recipeFile, session>>

(* The size received is compared with the size announced; the head tells   *)
(* how many entries of what follows to decrypt, and the list goes back.    *)
GetRecipe(c) ==
  /\ client[c].main = "recipe" /\ Takes(c, "recipe")
  /\ LET m == response[c][1]
     IN  IF m.size = Size(m.recipes)
         THEN /\ client' = [client EXCEPT ![c].main = "threads", ![c].list = m.recipes[1]]
              /\ SendRequest(c, [type |-> "list", list |-> m.recipes[1]])
         ELSE /\ client' = [client EXCEPT ![c].main = "failed"]
              /\ SendRequest(c, [type |-> "exit"])
  /\ UNCHANGED <<broken, recipeFile, session>>

(* RecvDecode::run asks for the chunks.                                    *)
AskChunks(c) ==
  /\ client[c].main = "threads" /\ client[c].recv = "ask"
  /\ SendRequest(c, [type |-> "chunks"])
  /\ client' = [client EXCEPT ![c].recv = "run"]
  /\ UNCHANGED <<broken, recipeFile, response, session>>

(* It takes a response when it has handed on the one before.               *)
TakeBatch(c) ==
  /\ client[c].recv = "run" /\ client[c].todo = << >>
  /\ client[c].received < Len(client[c].list)
  /\ Takes(c, "chunks")
  /\ LET m == response[c][1]
     IN  client' = [client EXCEPT ![c].todo = m.chunks,
                                  ![c].received = @ + Len(m.chunks)]
  /\ UNCHANGED <<broken, recipeFile, request, session>>

(* A chunk is decrypted with the key of the recipe entry its ID names,     *)
(* what is sent in place of a missing one too.                             *)
Decrypt(c, x) == IF x.data = client[c].list[x.id] THEN x.data ELSE Garbage

(* With a bug: the result of the lock-free push is ignored.                *)
PushChunkUnbounded(c) ==
  /\ client[c].todo # << >>
  /\ client' = [client EXCEPT
       ![c].todo = Tail(@),
       ![c].queue = Append(@, Decrypt(c, client[c].todo[1]))]
  /\ UNCHANGED <<broken, recipeFile, request, response, session>>

(* insertMQ, which spins while the queue is full.                          *)
PushChunk(c) ==
  /\ client[c].todo # << >> /\ Len(client[c].queue) < QueueCapacity
  /\ client' = [client EXCEPT
       ![c].todo = Tail(@),
       ![c].queue = Append(@, Decrypt(c, client[c].todo[1]))]
  /\ UNCHANGED <<broken, recipeFile, request, response, session>>

(* recv fails, or send has: processRecipe is false and the client exits,   *)
(* RecvDecode::run returns.                                                *)
LostServer(c) ==
  /\ c \in broken /\ response[c] = << >>
  /\ \/ /\ client[c].main \in {"init", "size", "recipe"}
        /\ client' = [client EXCEPT ![c].main = "failed"]
     \/ /\ client[c].main = "threads" /\ client[c].recv = "ask"
        /\ client' = [client EXCEPT ![c].recv = "exit"]
     \/ /\ client[c].recv = "run" /\ client[c].todo = << >>
        /\ client[c].received < Len(client[c].list)
        /\ client' = [client EXCEPT ![c].recv = "exit"]
  /\ UNCHANGED <<broken, recipeFile, request, response, session>>

RecvDone(c) ==
  /\ client[c].recv = "run" /\ client[c].todo = << >>
  /\ client[c].received >= Len(client[c].list)
  /\ client' = [client EXCEPT ![c].recv = "exit"]
  /\ UNCHANGED <<broken, recipeFile, request, response, session>>

(* Retriever::run writes chunks in the order of the queue, as many as the  *)
(* recipe head tells.                                                      *)
Write(c) ==
  /\ client[c].main = "threads" /\ client[c].retr = "run"
  /\ Len(client[c].output) < Len(client[c].list)
  /\ client[c].queue # << >>
  /\ client' = [client EXCEPT ![c].output = Append(@, client[c].queue[1]),
                              ![c].queue = Tail(@)]
  /\ UNCHANGED <<broken, recipeFile, request, response, session>>

RetrDone(c) ==
  /\ client[c].main = "threads" /\ client[c].retr = "run"
  /\ Len(client[c].output) >= Len(client[c].list)
  /\ client' = [client EXCEPT ![c].retr = "exit"]
  /\ UNCHANGED <<broken, recipeFile, request, response, session>>

(* main joins the threads; the destructor of RecvDecode says goodbye.      *)
Join(c) ==
  /\ client[c].main = "threads" /\ client[c].recv = "exit" /\ client[c].retr = "exit"
  /\ client' = [client EXCEPT ![c].main = "done"]
  /\ SendRequest(c, [type |-> "exit"])
  /\ UNCHANGED <<broken, recipeFile, response, session>>
-----------------------------------------------------------------------------
Init ==
  /\ recipeFile = [f \in FileName |-> << >>]
  /\ request = [c \in Client |-> << >>]
  /\ response = [c \in Client |-> << >>]
  /\ session = [c \in Client |-> NewSession]
  /\ client = [c \in Client |-> NewClient]
  /\ broken = {}

DataThread(c) ==
  \/ ServeRecipeSize(c) \/ ServeRecipe(c) \/ ServeList(c)
  \/ ServeChunks(c) \/ ServeBatch(c) \/ BatchesDone(c) \/ ServeExit(c) \/ ServeLost(c)
Main(c) == AskRecipe(c) \/ GetSize(c) \/ GetRecipe(c) \/ Join(c)
RecvDecode(c) == AskChunks(c) \/ TakeBatch(c) \/ PushChunk(c) \/ RecvDone(c) \/ LostServer(c)
Retriever(c) == Write(c) \/ RetrDone(c)

Next ==
  \/ \E f \in FileName, r \in Recipes : StoreRecipe(f, r) \/ StoreAgain(f, r)
  \/ \E c \in Client : Lose(c)
  \/ \E c \in Client : DataThread(c) \/ Main(c) \/ RecvDecode(c) \/ Retriever(c)

(* The operating systems schedule the threads; nobody has to upload, and   *)
(* no connection has to be lost.                                           *)
Fairness == \A c \in Client : /\ WF_vars(DataThread(c)) /\ WF_vars(Main(c))
                              /\ WF_vars(RecvDecode(c)) /\ WF_vars(Retriever(c))

Spec == Init /\ [][Next]_vars /\ Fairness

-----------------------------------------------------------------------------
Data == Chunk \cup {Garbage}

(* Every variable has its type; the queue stays within its capacity and    *)
(* the window of a session within 32 bits.                                 *)
TypeOK ==
  /\ \A f \in FileName : \A i \in DOMAIN recipeFile[f] : recipeFile[f][i] \in Recipes
  /\ \A c \in Client :
       /\ session[c].at \in {"recv", "recipe", "chunks", "exit"}
       /\ session[c].start \in 0 .. UintMod - 1 /\ session[c].end \in 0 .. UintMod - 1
       /\ client[c].main \in {"init", "size", "recipe", "threads", "done", "failed"}
       /\ client[c].recv \in {"ask", "run", "exit"} /\ client[c].retr \in {"run", "exit"}
       /\ client[c].queue \in Seq(Data) /\ Len(client[c].queue) <= QueueCapacity
       /\ client[c].output \in Seq(Data)
  /\ broken \subseteq Client

(* What a restore has written so far is the beginning of the file as it    *)
(* was uploaded first under its name, whatever was uploaded under it       *)
(* later, each chunk once and in its place, but for chunks the server      *)
(* never got; when the client ends well it is all of it, and a client      *)
(* whose connection is lost never ends well with less.                     *)
RestoreExact ==
  \A c \in Client : client[c].main \in {"threads", "done"} =>
    LET r == recipeFile[FileOf[c]][1]
        out == client[c].output
    IN  /\ Len(out) <= Len(r) /\ \A i \in DOMAIN out : out[i] = IF r[i] \in Indexed THEN r[i] ELSE Garbage
        /\ client[c].main = "done" => Len(out) = Len(r)

(* While batches are left the server's window lies inside the client's     *)
(* list, and starts where the last batch ended: nothing beyond the list is *)
(* read, and every chunk is in one batch.                                  *)
WindowInsideList ==
  \A c \in Client : LET s == session[c] IN
    s.at = "chunks" /\ s.restored # Len(s.head) =>
      s.start = s.restored /\ s.start <= s.end /\ s.end <= Len(s.list)

(* Every data thread ends, and every client: one whose connection is kept  *)
(* fails or has its file, one that loses it exits, unless it has its list  *)
(* of chunks: then the receiving thread ends and the writing thread waits  *)
(* for chunks that nobody will hand it.                                    *)
Ended(c) ==
  /\ session[c].at = "exit"
  /\ \/ client[c].main \in {"done", "failed"}
     \/ /\ c \in broken /\ client[c].main = "threads"
        /\ client[c].recv = "exit" /\ client[c].retr = "run"
        /\ client[c].queue = << >> /\ Len(client[c].output) < Len(client[c].list)

Termination == \A c \in Client : <>[]Ended(c)

(* What a thread may wait for: a message, room in the connection or in the *)
(* queue, a chunk in the queue, another thread's end.                      *)
SendBlocked(c) == c \notin broken /\ Len(response[c]) >= WireCapacity
NextIs(c, type) == response[c] # << >> /\ response[c][1].type = type
HungUp(c) == c \in broken /\ response[c] = << >>

DataThreadWaits(c) ==
  \/ session[c].at = "exit"
  \/ session[c].at = "recv" /\ request[c] = << >> /\ c \notin broken
  \/ /\ SendBlocked(c)
     /\ \/ session[c].at = "recv" /\ request[c] # << >> /\ request[c][1].type = "recipe"
        \/ session[c].at = "recipe"
        \/ session[c].at = "chunks" /\ session[c].restored # Len(session[c].head)
MainWaits(c) ==
  \/ client[c].main \in {"done", "failed"}
  \/ client[c].main = "size" /\ ~ NextIs(c, "size") /\ ~ HungUp(c)
  \/ client[c].main = "recipe" /\ ~ NextIs(c, "recipe") /\ ~ HungUp(c)
  \/ client[c].main = "threads" /\ (client[c].recv # "exit" \/ client[c].retr # "exit")
RecvDecodeWaits(c) ==
  \/ client[c].main # "threads" \/ client[c].recv = "exit"
  \/ /\ client[c].recv = "run"
     /\ \/ client[c].todo # << >> /\ Len(client[c].queue) >= QueueCapacity
        \/ /\ client[c].todo = << >> /\ client[c].received < Len(client[c].list)
           /\ ~ NextIs(c, "chunks") /\ ~ HungUp(c)
RetrieverWaits(c) ==
  \/ client[c].main # "threads" \/ client[c].retr = "exit"
  \/ client[c].queue = << >> /\ Len(client[c].output) < Len(client[c].list)

(* A restore does not deadlock, between the ends of its connection or the  *)
(* threads of its client, with the connection lost at any moment and the   *)
(* queue or the connection full: when all four threads wait, it has ended. *)
NoDeadlock ==
  \A c \in Client :
    DataThreadWaits(c) /\ MainWaits(c) /\ RecvDecodeWaits(c) /\ RetrieverWaits(c) => Ended(c)
=============================================================================
