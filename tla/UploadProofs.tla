---------------------------- MODULE UploadProofs ----------------------------
(***************************************************************************)
(* What holds of UploadPipeline for any number of chunks, fingerprinters,  *)
(* and sizes of queues and batches: no done_ flag comes before an item it  *)
(* should come after, every chunk is in one place, and the recipe is the   *)
(* file in order.                                                          *)
(***************************************************************************)
EXTENDS UploadPipeline, FiniteSetTheorems, TLAPS

Message == [kind : {"chunks", "recipe"}, ids : Seq(ChunkID), head : BOOLEAN]

Types ==
  /\ TypeOK
  /\ queue \in [Stage -> Seq(Item)]
  /\ wire \in Seq(Message)

(* jobDoneFlagCounterForFpGen_ counts the fingerprinters that have found   *)
(* their queue done and empty.                                             *)
Counted == finished = Cardinality({w \in FpThread : pc[w] # "run"})

(* The thread has given up.                                                *)
Failed(w) == \/ w = "keyClient" /\ "key" \in failed
             \/ w = "powClient" /\ "pow" \in failed
             \/ w = "sender" /\ "server" \in failed

(* What the flags and the ends of the threads say of what is before them.  *)
Ends ==
  /\ done["fingerprint"] => cut = RecipeHead
  /\ \A w \in Worker : pc[w] # "run" /\ ~ Failed(w)
                         => done[In[w]] /\ queue[In[w]] = << >>
  /\ \A w \in FpThread \cup {"encoder"} :
       pc[w] \in {"run", "last", "exit"} /\ (pc[w] # "run" => outbox[w] = << >>)
  /\ pc["keyClient"] \in {"run", "last", "exit"}
  /\ pc["keyClient"] = "exit" => /\ outbox["keyClient"] = << >>
                                 /\ "key" \in failed \/ keyBatch = << >>
  /\ pc["powClient"] \in {"run", "last", "closing", "exit"}
  /\ pc["powClient"] \in {"last", "exit"} => outbox["powClient"] = << >>
  /\ pc["powClient"] \in {"closing", "exit"} => powBatch = << >>
  /\ "key" \in failed => pc["keyClient"] = "exit"
  /\ "pow" \in failed => pc["powClient"] \in {"closing", "exit"}
  /\ "server" \in failed => pc["sender"] = "exit"
  /\ done["key"] => \A w \in FpThread : pc[w] # "run"
  /\ done["encode"] => pc["keyClient"] = "exit" /\ "key" \notin failed
  /\ done["pow"] => pc["encoder"] = "exit"
  /\ done["send"] => pc["powClient"] = "exit"

(* Whatever holds items: a queue, the hands of a thread, a batch.          *)
Holder == ({"queue"} \X Stage) \cup ({"out"} \X Worker)
          \cup ({"batch"} \X {"keyClient", "powClient", "sender"})
Hold(q, o, kb, pb, rl) ==
  [h \in Holder |-> IF h[1] = "queue" THEN q[h[2]]
                    ELSE IF h[1] = "out" THEN o[h[2]]
                    ELSE IF h[2] = "keyClient" THEN kb
                    ELSE IF h[2] = "powClient" THEN pb ELSE rl]
Contents == Hold(queue, outbox, keyBatch, powBatch, recipeList)

Held(C) == {x \in Item : \E h \in Holder : \E i \in DOMAIN C[h] : C[h][i] = x}
Once(C) == \A h, g \in Holder : \A i \in DOMAIN C[h], j \in DOMAIN C[g] :
             C[h][i] = C[g][j] => h = g /\ i = j

(* What was cut is held, once, or has reached the sender (the head), or    *)
(* was in the one batch whose proof was refused.                           *)
Missing == {x \in ChunkID : x <= cut /\ x \notin Held(Contents)}
Conserved ==
  /\ Once(Contents)
  /\ \A x \in Held(Contents) : x <= cut /\ (x = RecipeHead => ~ head)
  /\ head => cut = RecipeHead
  /\ cut = RecipeHead => head \/ RecipeHead \in Held(Contents)
  /\ IF "pow" \in failed THEN Cardinality(Missing) <= PowBatch ELSE Missing = {}

(* A recipe as the server should get it.                                   *)
Right(entries, hd) ==
  /\ "pow" \notin failed => entries = [i \in ChunkID |-> i] /\ hd = TRUE
  /\ \A i, j \in DOMAIN entries : i < j => entries[i] < entries[j]
Sent ==
  /\ \A i \in DOMAIN wire : wire[i].kind = "recipe" => Right(wire[i].ids, wire[i].head)
  /\ recipe # NoRecipe => Right(recipe.entries, recipe.head)

(* Nothing is ever in the sender's hands: what it reads it lists at once.  *)
Idle == outbox["sender"] = << >>

IInv == Types /\ Counted /\ Idle /\ Ends /\ Conserved /\ Sent
-----------------------------------------------------------------------------
LEMMA InOut ==
  /\ In \in [Worker -> Stage] /\ Out \in [Worker \ {"sender"} -> Stage]
  /\ In["keyClient"] = "key" /\ In["encoder"] = "encode"
  /\ In["powClient"] = "pow" /\ In["sender"] = "send"
  /\ Out["keyClient"] = "encode" /\ Out["encoder"] = "pow" /\ Out["powClient"] = "send"
  /\ \A w \in FpThread : In[w] = "fingerprint" /\ Out[w] = "key"
                         /\ w \in Worker \ {"sender", "keyClient", "encoder", "powClient"}
<1>1. \A w \in FpThread : w \notin {"keyClient", "encoder", "powClient", "sender"}
  BY PipelineAssumption
<1>2. \A w \in Worker : In[w] = (CASE w = "keyClient" -> "key" [] w = "encoder" -> "encode"
           [] w = "powClient" -> "pow" [] w = "sender" -> "send"
           [] OTHER -> "fingerprint")
  BY DEF In
<1>3. \A w \in Worker \ {"sender"} :
        Out[w] = (CASE w = "keyClient" -> "encode" [] w = "encoder" -> "pow"
           [] w = "powClient" -> "send" [] OTHER -> "key")
  BY DEF Out
<1>4. In = [w \in Worker |-> In[w]] /\ Out = [w \in Worker \ {"sender"} |-> Out[w]]
  BY DEF In, Out
<1>5. \A w \in Worker : In[w] \in Stage
  BY <1>2 DEF Stage
<1>6. \A w \in Worker \ {"sender"} : Out[w] \in Stage
  BY <1>3 DEF Stage
<1>7. /\ In \in [Worker -> Stage] /\ Out \in [Worker \ {"sender"} -> Stage]
  BY <1>4, <1>5, <1>6
<1>8. /\ In["keyClient"] = "key" /\ In["encoder"] = "encode"
      /\ In["powClient"] = "pow" /\ In["sender"] = "send"
      /\ Out["keyClient"] = "encode" /\ Out["encoder"] = "pow" /\ Out["powClient"] = "send"
  BY <1>2, <1>3 DEF Worker
<1>9. \A w \in FpThread : In[w] = "fingerprint" /\ Out[w] = "key"
                         /\ w \in Worker \ {"sender", "keyClient", "encoder", "powClient"}
  BY <1>1, <1>2, <1>3 DEF Worker
<1> QED BY <1>7, <1>8, <1>9

(* The actions, those that several threads share taken together.           *)
LEMMA Actions ==
  ASSUME Next
  PROVE  \/ Cut \/ ChunkerDone \/ TakeForKey \/ ExchangeKeys \/ ExchangeFails
         \/ TakeForPow \/ ProveOwnership \/ AnswerLost \/ ProofFails
         \/ TakeForSend \/ SendChunks \/ SendRecipe \/ SendEnd \/ SendFails \/ Serve
         \/ StoreFails
         \/ \E w \in Worker \ {"sender"} : Push(w) \/ Relay(w) \/ Finish(w)
         \/ \E w \in Worker : NoticeDone(w)
<1>1. /\ FpThread \cup {"keyClient", "encoder", "powClient"} \subseteq Worker \ {"sender"}
      /\ "sender" \in Worker
  BY InOut DEF Worker
<1> QED BY <1>1 DEF Next, Chunker, Fingerprinter, KeyClient, Encoder, PowClient, Sender

(* The batch goes on with the server's answer or without it.               *)
LEMMA AnsweredMeans ==
  ASSUME ProveOwnership \/ AnswerLost
  PROVE  /\ PowBatchDue /\ \E marked \in SUBSET DOMAIN powBatch : HandOn(marked)
         /\ failed' = failed \/ failed' = failed \cup {"answer"}
<1>1. CASE ProveOwnership
  <2> DEFINE lacking == DedupByHash(powBatch)
  <2>1. PICK stack \in SUBSET (DOMAIN powBatch \ lacking) :
          HandOn({i \in lacking \cup stack : i <= Cardinality(lacking)})
    BY <1>1 DEF ProveOwnership
  <2>2. {i \in lacking \cup stack : i <= Cardinality(lacking)} \in SUBSET DOMAIN powBatch
    BY DEF DedupByHash
  <2> QED BY <1>1, <2>1, <2>2 DEF ProveOwnership
<1>2. CASE AnswerLost
  BY <1>2 DEF AnswerLost
<1> QED BY <1>1, <1>2

(* The elements of a sequence.                                             *)
LEMMA ElementsOf ==
  ASSUME NEW S, NEW s \in Seq(S), NEW i \in DOMAIN s
  PROVE  s[i] \in S
  OBVIOUS

(* The first numbers, counted.                                             *)
LEMMA UpTo ==
  ASSUME NEW n \in Nat
  PROVE  IsFiniteSet(1 .. n) /\ Cardinality(1 .. n) = n
<1>1. 1 \in Int /\ n \in Int
  OBVIOUS
<1>2. IsFiniteSet(1 .. n) /\ Cardinality(1 .. n) = IF 1 > n THEN 0 ELSE n - 1 + 1
  BY <1>1, FS_Interval
<1>3. (IF 1 > n THEN 0 ELSE n - 1 + 1) = n
  OBVIOUS
<1> QED BY <1>2, <1>3

(* std::sort keeps the elements, each as often as it was there.            *)
LEMMA SortedMeans ==
  ASSUME NEW S \in SUBSET Nat, NEW list \in Seq(S), NEW t \in Sorted(list)
  PROVE  /\ t \in Seq(S) /\ Len(t) = Len(list) /\ DOMAIN t = DOMAIN list
         /\ \A i, j \in DOMAIN t : i < j => t[i] <= t[j]
         /\ \A i \in DOMAIN t : \E j \in DOMAIN list : t[i] = list[j]
         /\ \A j \in DOMAIN list : \E i \in DOMAIN t : t[i] = list[j]
         /\ (\A i, j \in DOMAIN list : list[i] = list[j] => i = j)
              => \A i, j \in DOMAIN t : t[i] = t[j] => i = j
<1> DEFINE D == DOMAIN list
<1>1. PICK p \in Bijection(D, D) :
        /\ t = [i \in D |-> list[p[i]]]
        /\ \A i, j \in D : i < j => list[p[i]] <= list[p[j]]
  BY DEF Sorted
<1>2. /\ p \in [D -> D]
      /\ \A i, j \in D : p[i] = p[j] => i = j
      /\ \A j \in D : \E i \in D : p[i] = j
  BY DEF Bijection, Injection, Surjection, IsInjective
<1>3. D = 1 .. Len(list) /\ Len(list) \in Nat /\ \A i \in D : list[i] \in S
  OBVIOUS
<1>4. t \in [D -> S] /\ DOMAIN t = D /\ \A i \in D : t[i] = list[p[i]]
  BY <1>1, <1>2, <1>3
<1>5. t \in Seq(S) /\ Len(t) = Len(list)
  BY <1>3, <1>4
<1> HIDE DEF D
<1>6. \A i, j \in D : i < j => t[i] <= t[j]
  BY <1>1, <1>4
<1>7. \A i \in D : \E j \in D : t[i] = list[j]
  BY <1>2, <1>4
<1>8. \A j \in D : \E i \in D : t[i] = list[j]
  BY <1>2, <1>4
<1>9. (\A i, j \in D : list[i] = list[j] => i = j) => \A i, j \in D : t[i] = t[j] => i = j
  BY <1>2, <1>4
<1> QED BY <1>4, <1>5, <1>6, <1>7, <1>8, <1>9 DEF D
-----------------------------------------------------------------------------
LEMMA CountedNext ==
  ASSUME Types, Counted, [Next]_vars
  PROVE  Counted' /\ finished' \in 0 .. Cardinality(FpThread)
<1> DEFINE Ended == {w \in FpThread : pc[w] # "run"}
<1>1. IsFiniteSet(FpThread)
  BY PipelineAssumption
<1>2. Ended \subseteq FpThread /\ Ended' \subseteq FpThread
  OBVIOUS
<1>3. /\ IsFiniteSet(Ended) /\ IsFiniteSet(Ended')
      /\ Cardinality(Ended') \in 0 .. Cardinality(FpThread)
      /\ Cardinality(Ended) \in Nat
  BY <1>1, <1>2, FS_Subset, FS_CardinalityType
<1>4. Counted'
  <2>1. ASSUME NEW w \in FpThread, NoticeDone(w)
        PROVE  Counted'
    <3>1. /\ pc[w] = "run" /\ pc' = [pc EXCEPT ![w] = "last"] /\ finished' = finished + 1
      BY <2>1 DEF NoticeDone
    <3>2. Ended' = Ended \cup {w} /\ w \notin Ended
      BY <3>1, InOut DEF Types, TypeOK
    <3>3. Cardinality(Ended') = Cardinality(Ended) + 1
      BY <1>3, <3>2, FS_AddElement
    <3> QED BY <3>1, <3>3 DEF Counted
  <2>2. ASSUME finished' = finished, \A w \in FpThread : pc[w] # "run" <=> pc'[w] # "run"
        PROVE  Counted'
    <3>1. Ended' = Ended
      BY <2>2
    <3> QED BY <2>2, <3>1 DEF Counted
  <2>3. ASSUME NEW w \in Worker, w \notin FpThread, NEW x,
               finished' = finished, pc' = [pc EXCEPT ![w] = x]
        PROVE  Counted'
    BY <2>2, <2>3, InOut DEF Types, TypeOK
  <2>4. {"keyClient", "powClient", "sender"} \subseteq Worker
        /\ {"keyClient", "powClient", "sender"} \cap FpThread = {}
    BY InOut DEF Worker
  <2>5. ASSUME NEW w \in Worker \ {"sender"}, Push(w) \/ Relay(w) \/ Finish(w)
        PROVE  Counted'
    <3>1. finished' = finished
      BY <2>5 DEF Push, Relay, Finish
    <3>2. CASE Push(w) \/ Relay(w)
      BY <2>2, <3>1, <3>2 DEF Push, Relay
    <3>3. CASE Finish(w)
      <4>1. pc' = [pc EXCEPT ![w] = "exit"] /\ (w \in FpThread => pc[w] = "last")
        BY <3>3, InOut DEF Finish
      <4>2. \A v \in FpThread : pc[v] # "run" <=> pc'[v] # "run"
        BY <4>1, InOut DEF Types, TypeOK
      <4> QED BY <2>2, <3>1, <4>2
    <3> QED BY <2>5, <3>2, <3>3
  <2>6. ASSUME NEW w \in Worker \ FpThread, NoticeDone(w)
        PROVE  Counted'
    BY <2>3, <2>6 DEF NoticeDone
  <2>7. CASE \/ Cut \/ ChunkerDone \/ TakeForKey \/ ExchangeKeys \/ TakeForPow
             \/ TakeForSend \/ Serve \/ StoreFails \/ UNCHANGED vars
    BY <2>2, <2>7 DEF Cut, ChunkerDone, TakeForKey, ExchangeKeys, TakeForPow, TakeForSend,
       Serve, StoreFails, vars
  <2>8. CASE ExchangeFails
    BY <2>3, <2>4, <2>8 DEF ExchangeFails
  <2>9. CASE ProveOwnership \/ AnswerLost \/ ProofFails
    BY <2>3, <2>4, <2>9 DEF ProveOwnership, AnswerLost, HandOn, ProofFails, AfterBatch
  <2>10. CASE SendChunks \/ SendRecipe \/ SendEnd \/ SendFails
    BY <2>3, <2>4, <2>10 DEF SendChunks, SendRecipe, SendEnd, SendFails, AfterBatch
  <2> QED BY <2>1, <2>5, <2>6, <2>7, <2>8, <2>9, <2>10, Actions
<1> QED BY <1>3, <1>4 DEF Counted

(* The pieces of the type invariant, by what changes them.                 *)
ThreadTypes ==
  /\ cut \in 0 .. RecipeHead
  /\ done \in [Stage -> BOOLEAN]
  /\ pc \in [Worker -> {"run", "last", "closing", "ending", "exit"}]
  /\ failed \subseteq {"key", "pow", "answer", "store", "server"}
  /\ needUpload \subseteq ChunkID /\ overlooked \subseteq ChunkID /\ head \in BOOLEAN
QueueTypes ==
  /\ queue \in [Stage -> Seq(Item)]
  /\ \A s \in Stage : Len(queue[s]) <= QueueCapacity
  /\ outbox \in [Worker -> Seq(Item)]
BatchTypes ==
  /\ keyBatch \in Seq(ChunkID) /\ Len(keyBatch) <= KeyBatch
  /\ powBatch \in Seq(ChunkID) /\ Len(powBatch) <= PowBatch
  /\ sendBatch \in Seq(ChunkID) /\ Len(sendBatch) <= SendBatch
  /\ recipeList \in Seq(ChunkID)
ServerTypes ==
  /\ wire \in Seq(Message)
  /\ stored \subseteq Content
  /\ recipe # NoRecipe => recipe \in [entries : Seq(ChunkID), head : BOOLEAN]

LEMMA TypeParts ==
  Types <=> /\ ThreadTypes /\ QueueTypes /\ BatchTypes /\ ServerTypes
            /\ finished \in 0 .. Cardinality(FpThread)
BY DEF Types, TypeOK, ThreadTypes, QueueTypes, BatchTypes, ServerTypes

LEMMA Numbers ==
  /\ FileLength \in Nat /\ RecipeHead \in Item /\ RecipeHead \notin ChunkID
  /\ Item = ChunkID \cup {RecipeHead} /\ Item \subseteq Nat
  /\ QueueCapacity \in Nat \ {0} /\ KeyBatch \in Nat \ {0}
  /\ PowBatch \in Nat \ {0} /\ SendBatch \in Nat \ {0}
BY PipelineAssumption DEF RecipeHead, ChunkID, Item

LEMMA ThreadTypesNext ==
  ASSUME Types, [Next]_vars
  PROVE  ThreadTypes'
<1> USE TypeParts DEF ThreadTypes, server
<1>1. \A w \in Worker \ {"sender"} : Out[w] \in Stage
  BY InOut
<1>2. {"keyClient", "powClient", "sender"} \subseteq Worker
  BY DEF Worker
<1>3. CASE Cut
  BY <1>3, Numbers DEF Cut, RecipeHead, client
<1>4. CASE ChunkerDone
  BY <1>4 DEF ChunkerDone, client, Stage
<1>5. CASE \/ TakeForKey \/ ExchangeKeys \/ TakeForPow \/ Serve \/ StoreFails
           \/ UNCHANGED vars
  BY <1>5 DEF TakeForKey, ExchangeKeys, TakeForPow, Serve, StoreFails, vars, client
<1>6. CASE ExchangeFails
  BY <1>2, <1>6 DEF ExchangeFails, client
<1>7. CASE ProveOwnership \/ AnswerLost
  <2>1. \A i \in DOMAIN powBatch : powBatch[i] \in ChunkID
    BY DEF BatchTypes
  <2>5. PICK marked \in SUBSET DOMAIN powBatch : HandOn(marked)
    BY <1>7, AnsweredMeans
  <2>2. needUpload' \subseteq ChunkID /\ overlooked' \subseteq ChunkID
    <3>1. needUpload' = needUpload \cup {powBatch[i] : i \in marked}
      BY <2>5 DEF HandOn
    <3>2. overlooked' = overlooked \cup ({powBatch[i] : i \in DedupByHash(powBatch)} \ needUpload')
      BY <2>5 DEF HandOn
    <3>3. DedupByHash(powBatch) \subseteq DOMAIN powBatch
      BY DEF DedupByHash
    <3>4. needUpload' \subseteq ChunkID
      BY <2>1, <3>1
    <3>5. overlooked' \subseteq ChunkID
      BY <2>1, <3>2, <3>3
    <3> QED BY <3>4, <3>5
  <2>3. pc' \in [Worker -> {"run", "last", "closing", "ending", "exit"}]
    <3>1. pc' = pc \/ pc' = [pc EXCEPT !["powClient"] = "closing"]
      BY <2>5 DEF HandOn, AfterBatch
    <3> QED BY <1>2, <3>1
  <2>4. /\ UNCHANGED <<cut, done, head>>
        /\ failed' \subseteq {"key", "pow", "answer", "store", "server"}
    <3>1. UNCHANGED <<cut, done, head>>
      BY <2>5 DEF HandOn
    <3>2. failed' = failed \/ failed' = failed \cup {"answer"}
      BY <1>7, AnsweredMeans
    <3> QED BY <3>1, <3>2
  <2> QED BY <2>2, <2>3, <2>4
<1>8. CASE ProofFails
  BY <1>2, <1>8 DEF ProofFails
<1>9. CASE TakeForSend
  BY <1>9 DEF TakeForSend
<1>10. CASE SendChunks \/ SendRecipe \/ SendEnd \/ SendFails
  BY <1>2, <1>10 DEF SendChunks, SendRecipe, SendEnd, SendFails, AfterBatch, client
<1>11. ASSUME NEW w \in Worker \ {"sender"}, Push(w) \/ Relay(w) \/ Finish(w)
       PROVE  ThreadTypes'
  BY <1>1, <1>11 DEF Push, Relay, Finish, client
<1>12. ASSUME NEW w \in Worker, NoticeDone(w)
       PROVE  ThreadTypes'
  BY <1>12 DEF NoticeDone, client
<1> QED BY <1>3, <1>4, <1>5, <1>6, <1>7, <1>8, <1>9, <1>10, <1>11, <1>12, Actions

(* A thread takes the head of its queue.                                   *)
LEMMA ExtractMeans ==
  ASSUME Types, NEW w \in Worker, Extract(w)
  PROVE  /\ In[w] \in Stage /\ queue[In[w]] # << >> /\ queue[In[w]][1] \in Item
         /\ queue'[In[w]] = Tail(queue[In[w]]) /\ queue'[In[w]] \in Seq(Item)
         /\ Len(queue'[In[w]]) < Len(queue[In[w]])
         /\ Len(queue[In[w]]) <= QueueCapacity
         /\ \A s \in Stage : s # In[w] => queue'[s] = queue[s]
         /\ queue' \in [Stage -> Seq(Item)]
         /\ \A s \in Stage : Len(queue'[s]) <= QueueCapacity
         /\ pc[w] = "run" /\ outbox[w] = << >>
<1>1. In[w] \in Stage /\ queue \in [Stage -> Seq(Item)] /\ queue[In[w]] # << >>
      /\ queue' = [queue EXCEPT ![In[w]] = Tail(@)]
      /\ \A s \in Stage : Len(queue[s]) <= QueueCapacity
      /\ pc[w] = "run" /\ outbox[w] = << >>
  BY InOut, TypeParts DEF Extract, QueueTypes, AtTop
<1>2. \A q \in Seq(Item) : q # << >> => /\ q[1] \in Item /\ Tail(q) \in Seq(Item)
                                      /\ Len(Tail(q)) = Len(q) - 1 /\ Len(q) \in Nat
  OBVIOUS
<1>3. queue[In[w]] \in Seq(Item)
  BY <1>1
<1>4. Len(Tail(queue[In[w]])) <= QueueCapacity
  BY <1>1, <1>2, <1>3, Numbers
<1> QED BY <1>1, <1>2, <1>3, <1>4

LEMMA QueueTypesNext ==
  ASSUME Types, [Next]_vars
  PROVE  QueueTypes'
<1> USE TypeParts
<1>1. {"keyClient", "powClient", "sender"} \subseteq Worker
  BY DEF Worker
<1>2. ASSUME NEW s \in Stage, NEW x \in Item, Room(s), Insert(s, x)
      PROVE  /\ queue' \in [Stage -> Seq(Item)]
             /\ \A r \in Stage : Len(queue'[r]) <= QueueCapacity
  <2>1. /\ Append(queue[s], x) \in Seq(Item) /\ Len(Append(queue[s], x)) <= QueueCapacity
    BY <1>2, Numbers DEF QueueTypes, Room
  <2> QED BY <1>2, <2>1 DEF QueueTypes, Insert
<1>3. CASE Cut
  <2>1. cut + 1 \in Item /\ "fingerprint" \in Stage
    BY <1>3, Numbers DEF Cut, ThreadTypes, Item, RecipeHead, Stage
  <2> QED BY <1>2, <1>3, <2>1 DEF Cut, QueueTypes
<1>4. CASE \/ ChunkerDone \/ ExchangeFails \/ ProofFails \/ SendChunks \/ SendRecipe
           \/ SendEnd \/ SendFails \/ Serve \/ StoreFails \/ UNCHANGED vars
  BY <1>4 DEF ChunkerDone, ExchangeFails, ProofFails, SendChunks, SendRecipe,
     SendEnd, SendFails,
     Serve, StoreFails, vars, QueueTypes
<1>5. CASE TakeForKey \/ TakeForPow \/ TakeForSend
  <2>1. PICK w \in Worker : Extract(w) /\ outbox' = outbox
    BY <1>1, <1>5 DEF TakeForKey, TakeForPow, TakeForSend
  <2> QED BY <2>1, ExtractMeans DEF QueueTypes
<1>6. CASE ExchangeKeys
  <2>1. PICK batch \in Sorted(keyBatch) : outbox' = [outbox EXCEPT !["keyClient"] = batch]
    BY <1>6 DEF ExchangeKeys
  <2>2. batch \in Seq(ChunkID) /\ ChunkID \subseteq Item
    BY <2>1, SortedMeans, Numbers DEF BatchTypes, ChunkID
  <2>3. batch \in Seq(Item)
    BY <2>2
  <2> QED BY <1>6, <2>1, <2>3 DEF ExchangeKeys, QueueTypes
<1>7. CASE ProveOwnership \/ AnswerLost
  <2>1. powBatch \in Seq(ChunkID) /\ ChunkID \subseteq Item
    BY Numbers DEF BatchTypes
  <2>2. powBatch \in Seq(Item)
    BY <2>1
  <2> QED BY <1>7, <2>2 DEF ProveOwnership, AnswerLost, HandOn, QueueTypes
<1>8. ASSUME NEW w \in Worker \ {"sender"}, Push(w)
      PROVE  QueueTypes'
  <2>1. outbox[w] \in Seq(Item) /\ outbox[w] # << >> /\ Out[w] \in Stage
    BY <1>8, InOut DEF Push, QueueTypes
  <2>2. outbox[w][1] \in Item /\ Tail(outbox[w]) \in Seq(Item)
    BY <2>1
  <2> QED BY <1>2, <1>8, <2>1, <2>2 DEF Push, QueueTypes
<1>9. ASSUME NEW w \in Worker \ {"sender"}, Relay(w)
      PROVE  QueueTypes'
  BY <1>9, ExtractMeans DEF Relay, QueueTypes
<1>10. ASSUME NEW w \in Worker \ {"sender"}, Finish(w)
       PROVE  QueueTypes'
  BY <1>10 DEF Finish, QueueTypes
<1>11. ASSUME NEW w \in Worker, NoticeDone(w)
       PROVE  QueueTypes'
  BY <1>11 DEF NoticeDone, QueueTypes
<1> QED BY <1>3, <1>4, <1>5, <1>6, <1>7, <1>8, <1>9, <1>10, <1>11, Actions

LEMMA BatchTypesNext ==
  ASSUME Types, [Next]_vars
  PROVE  BatchTypes'
<1> USE TypeParts
<1>1. {"keyClient", "powClient", "sender"} \subseteq Worker
  BY DEF Worker
<1>2. << >> \in Seq(ChunkID) /\ Len(<< >>) = 0
  OBVIOUS
<1>3. \A q \in Seq(ChunkID), x \in ChunkID, n \in Nat :
        Len(q) < n => Append(q, x) \in Seq(ChunkID) /\ Len(Append(q, x)) <= n
  OBVIOUS
<1>4. CASE TakeForKey
  <2>1. queue["key"][1] \in ChunkID /\ Len(keyBatch) < KeyBatch
    <3>1. Extract("keyClient") /\ queue["key"][1] # RecipeHead /\ In["keyClient"] = "key"
      BY <1>4, InOut DEF TakeForKey
    <3>2. queue["key"][1] \in Item
      BY <1>1, <3>1, ExtractMeans
    <3>3. Len(keyBatch) < KeyBatch
      BY <3>1 DEF Extract, AtTop
    <3> QED BY <3>1, <3>2, <3>3, Numbers
  <2> QED BY <1>3, <1>4, <2>1, Numbers DEF TakeForKey, BatchTypes
<1>5. CASE TakeForPow
  <2>1. Extract("powClient") /\ queue["pow"][1] # RecipeHead /\ In["powClient"] = "pow"
    BY <1>5, InOut DEF TakeForPow
  <2>2. queue["pow"][1] \in Item
    BY <1>1, <2>1, ExtractMeans
  <2>3. queue["pow"][1] \in ChunkID /\ Len(powBatch) < PowBatch
    BY <2>1, <2>2, Numbers DEF Extract, AtTop
  <2> QED BY <1>3, <1>5, <2>3, Numbers DEF TakeForPow, BatchTypes
<1>6. CASE TakeForSend
  <2>1. /\ queue["send"][1] \in Item /\ Len(sendBatch) < SendBatch
    BY <1>1, <1>6, ExtractMeans, InOut DEF TakeForSend, Extract, AtTop
  <2>2. queue["send"][1] # RecipeHead => queue["send"][1] \in ChunkID
    BY <2>1, Numbers
  <2>3. \A q \in Seq(ChunkID), x \in ChunkID : Append(q, x) \in Seq(ChunkID)
    OBVIOUS
  <2> QED BY <1>3, <1>6, <2>1, <2>2, <2>3, Numbers DEF TakeForSend, BatchTypes
<1>7. CASE ExchangeKeys \/ ProveOwnership \/ AnswerLost \/ ProofFails \/ SendChunks
  <2>1. CASE ExchangeKeys
    BY <1>2, <2>1, Numbers DEF ExchangeKeys, BatchTypes
  <2>2. CASE ProveOwnership \/ AnswerLost \/ ProofFails
    <3>1. powBatch' = << >> /\ UNCHANGED <<keyBatch, sendBatch, recipeList>>
      BY <2>2 DEF ProveOwnership, AnswerLost, HandOn, ProofFails
    <3> QED BY <1>2, <3>1, Numbers DEF BatchTypes
  <2>3. CASE SendChunks
    <3>1. sendBatch' = << >> /\ UNCHANGED <<keyBatch, powBatch, recipeList>>
      BY <2>3 DEF SendChunks
    <3> QED BY <1>2, <3>1, Numbers DEF BatchTypes
  <2> QED BY <1>7, <2>1, <2>2, <2>3
<1>8. CASE \/ Cut \/ ChunkerDone \/ ExchangeFails \/ SendRecipe \/ SendEnd
           \/ SendFails \/ Serve \/ StoreFails \/ UNCHANGED vars
  BY <1>8 DEF Cut, ChunkerDone, ExchangeFails, SendRecipe, SendEnd, SendFails, Serve,
     StoreFails, vars, client, BatchTypes
<1>9. ASSUME NEW w \in Worker, NoticeDone(w) \/ Push(w) \/ Relay(w) \/ Finish(w)
      PROVE  BatchTypes'
  BY <1>9 DEF NoticeDone, Push, Relay, Finish, client, BatchTypes
<1> QED BY <1>4, <1>5, <1>6, <1>7, <1>8, <1>9, Actions

LEMMA ServerTypesNext ==
  ASSUME Types, [Next]_vars
  PROVE  ServerTypes'
<1> USE TypeParts
<1>1. ASSUME NEW m \in Message, wire' = Append(wire, m), UNCHANGED server
      PROVE  ServerTypes'
  BY <1>1 DEF ServerTypes, server
<1>2. CASE SendChunks
  <2>1. [kind |-> "chunks", ids |-> sendBatch, head |-> FALSE] \in Message
    BY DEF Message, BatchTypes
  <2> QED BY <1>1, <1>2, <2>1 DEF SendChunks
<1>3. CASE SendRecipe
  <2>1. PICK entries \in Sorted(recipeList) :
          wire' = Append(wire, [kind |-> "recipe", ids |-> entries, head |-> head])
    BY <1>3 DEF SendRecipe
  <2>2. ChunkID \subseteq Nat /\ recipeList \in Seq(ChunkID)
    BY Numbers DEF BatchTypes
  <2>3. entries \in Seq(ChunkID)
    BY <2>1, <2>2, SortedMeans
  <2>4. [kind |-> "recipe", ids |-> entries, head |-> head] \in Message
    BY <2>3 DEF Message, ThreadTypes
  <2> QED BY <1>1, <1>3, <2>1, <2>4 DEF SendRecipe
<1>4. CASE Serve
  <2>1. wire[1] \in Message /\ Tail(wire) \in Seq(Message)
    BY <1>4 DEF Serve, ServerTypes
  <2>2. \A i \in DOMAIN wire[1].ids : ContentOf[wire[1].ids[i]] \in Content
    <3>1. wire[1].ids \in Seq(ChunkID)
      BY <2>1 DEF Message
    <3> QED BY <3>1, PipelineAssumption DEF ChunkID
  <2>3. CASE wire[1].kind = "chunks"
    BY <1>4, <2>1, <2>2, <2>3 DEF Serve, ServerTypes
  <2>4. CASE wire[1].kind # "chunks"
    BY <1>4, <2>1, <2>4 DEF Serve, ServerTypes, Message
  <2> QED BY <2>3, <2>4
<1>5. CASE \/ Cut \/ ChunkerDone \/ TakeForKey \/ ExchangeKeys \/ ExchangeFails
           \/ TakeForPow \/ ProveOwnership \/ AnswerLost \/ ProofFails
           \/ TakeForSend \/ SendEnd \/ SendFails
           \/ UNCHANGED vars
  BY <1>5 DEF Cut, ChunkerDone, TakeForKey, ExchangeKeys, ExchangeFails, TakeForPow,
     ProveOwnership, AnswerLost, HandOn, ProofFails, TakeForSend, SendEnd, SendFails,
     vars, server, ServerTypes
<1>6. ASSUME NEW w \in Worker, NoticeDone(w) \/ Push(w) \/ Relay(w) \/ Finish(w)
      PROVE  ServerTypes'
  BY <1>6 DEF NoticeDone, Push, Relay, Finish, server, ServerTypes
<1>7. CASE StoreFails
  <2>1. wire[1] \in Message /\ \A i \in DOMAIN wire[1].ids : wire[1].ids[i] \in ChunkID
    <3>1. wire[1] \in Message
      BY <1>7 DEF StoreFails, ServerTypes
    <3> QED BY <3>1 DEF Message
  <2>2. PICK n \in DOMAIN wire[1].ids :
          stored' = stored \cup {ContentOf[wire[1].ids[i]] : i \in 1 .. n - 1}
    BY <1>7 DEF StoreFails
  <2>3. DOMAIN wire[1].ids = 1 .. Len(wire[1].ids) /\ Len(wire[1].ids) \in Nat
    BY <2>1 DEF Message
  <2>4. \A i \in 1 .. n - 1 : i \in DOMAIN wire[1].ids
    BY <2>3
  <2>5. \A i \in 1 .. n - 1 : ContentOf[wire[1].ids[i]] \in Content
    BY <2>1, <2>4, PipelineAssumption DEF ChunkID
  <2> QED BY <1>7, <2>2, <2>5 DEF StoreFails, ServerTypes
<1> QED BY <1>2, <1>3, <1>4, <1>5, <1>6, <1>7, Actions

LEMMA TypesNext ==
  ASSUME Types, Counted, [Next]_vars
  PROVE  Types'
<1>1. finished' \in 0 .. Cardinality(FpThread)
  BY CountedNext
<1>2. ThreadTypes' /\ QueueTypes' /\ BatchTypes' /\ ServerTypes'
  BY ThreadTypesNext, QueueTypesNext, BatchTypesNext, ServerTypesNext
<1> QED BY <1>1, <1>2 DEF Types, TypeOK, ThreadTypes, QueueTypes, BatchTypes, ServerTypes
-----------------------------------------------------------------------------
(* Whoever fills a queue that is done has ended, with empty hands.         *)
LEMMA BehindDone ==
  ASSUME Types, Ends, NEW w \in Worker \ {"sender"}, done[Out[w]]
  PROVE  /\ outbox[w] = << >> /\ pc[w] # "run"
         /\ ~ Failed(w) => done[In[w]] /\ queue[In[w]] = << >>
<1>1. w \in FpThread \cup {"keyClient", "encoder", "powClient"}
  BY DEF Worker
<1>2. CASE w \in FpThread
  BY <1>2, InOut DEF Ends
<1>3. CASE w = "encoder"
  BY <1>3, InOut DEF Ends
<1>4. CASE w = "keyClient"
  BY <1>4, InOut DEF Ends
<1>5. CASE w = "powClient"
  BY <1>5, InOut DEF Ends
<1> QED BY <1>1, <1>2, <1>3, <1>4, <1>5

(* A step in which no thread comes closer to its end.                      *)
LEMMA EndsKept ==
  ASSUME Types, Ends, UNCHANGED <<pc, done>>,
         \A x \in {"key", "pow", "server"} : x \in failed' <=> x \in failed,
         \A r \in Stage : done[r] /\ queue[r] = << >> => queue'[r] = << >>,
         cut = RecipeHead => cut' = RecipeHead,
         \A w \in Worker :
           \/ outbox'[w] = << >>
           \/ outbox[w] # << >>
           \/ pc[w] = "run"
           \/ w = "keyClient" /\ pc[w] = "last",
         pc["powClient"] \in {"closing", "exit"} => powBatch' = powBatch,
         pc["keyClient"] = "exit" => keyBatch' = keyBatch
  PROVE  Ends'
<1>1. \A w \in Worker : In[w] \in Stage
  BY InOut
<1>2. {"keyClient", "encoder", "powClient"} \cup FpThread \subseteq Worker
  BY DEF Worker
<1>3. /\ \A w \in Worker : pc'[w] # "run" /\ ~ Failed(w)'
                          => done'[In[w]] /\ queue'[In[w]] = << >>
  BY <1>1 DEF Ends, Failed
<1>4. \A w \in FpThread \cup {"encoder"} :
        pc'[w] \in {"run", "last", "exit"} /\ (pc'[w] # "run" => outbox'[w] = << >>)
  BY <1>2, InOut DEF Ends
<1>5. pc["keyClient"] = "exit" => outbox'["keyClient"] = << >>
  BY <1>2 DEF Ends
<1>6. pc["powClient"] \in {"last", "exit"} => outbox'["powClient"] = << >>
  BY <1>2 DEF Ends
<1> QED BY <1>3, <1>4, <1>5, <1>6 DEF Ends

(* An item goes to a queue that is not done.                               *)
LEMMA InsertKeeps ==
  ASSUME Types, NEW r \in Stage, NEW x, Insert(r, x), ~ done[r]
  PROVE  \A q \in Stage : done[q] /\ queue[q] = << >> => queue'[q] = << >>
BY DEF Types, Insert

LEMMA EndsNext ==
  ASSUME Types, Counted, Ends, [Next]_vars
  PROVE  Ends'
<1>1. {"keyClient", "encoder", "powClient", "sender"} \cup FpThread \subseteq Worker
  BY DEF Worker
<1>2. ASSUME NEW w \in Worker, Extract(w)
      PROVE  \A r \in Stage : done[r] /\ queue[r] = << >> => queue'[r] = << >>
  BY <1>2, ExtractMeans
<1>3. CASE Cut
  <2>1. "fingerprint" \in Stage /\ ~ done["fingerprint"]
    BY <1>3, Numbers, TypeParts DEF Cut, Ends, Stage, ThreadTypes, Item
  <2>2. \A r \in Stage : done[r] /\ queue[r] = << >> => queue'[r] = << >>
    BY <1>3, <2>1, InsertKeeps DEF Cut
  <2>3. /\ UNCHANGED <<pc, done, failed>> /\ UNCHANGED <<outbox, keyBatch, powBatch>>
        /\ cut # RecipeHead
    BY <1>3, Numbers, TypeParts DEF Cut, client, ThreadTypes, Item
  <2> QED BY <2>2, <2>3, EndsKept
<1>4. CASE ChunkerDone
  <2>1. /\ cut = RecipeHead /\ done' = [done EXCEPT !["fingerprint"] = TRUE]
        /\ UNCHANGED <<cut, queue, pc, outbox, keyBatch, powBatch, failed>>
    BY <1>4 DEF ChunkerDone, client
  <2>2. /\ \A r \in Stage : r # "fingerprint" => done'[r] = done[r]
        /\ \A r \in Stage : done[r] => done'[r]
    BY <2>1, TypeParts DEF ThreadTypes
  <2>3. \A w \in Worker : pc'[w] # "run" /\ ~ Failed(w)'
                         => done'[In[w]] /\ queue'[In[w]] = << >>
    BY <2>1, <2>2, InOut DEF Ends, Failed
  <2> QED BY <2>1, <2>2, <2>3 DEF Ends, Stage
<1>5. CASE TakeForKey \/ TakeForPow \/ TakeForSend
  <2>1. PICK w \in Worker : Extract(w) /\ outbox' = outbox /\ pc[w] = "run"
                           /\ (w # "keyClient" => keyBatch' = keyBatch)
                           /\ (w # "powClient" => powBatch' = powBatch)
    BY <1>1, <1>5 DEF TakeForKey, TakeForPow, TakeForSend, Extract
  <2>2. UNCHANGED <<cut, pc, done, failed>>
    BY <1>5 DEF TakeForKey, TakeForPow, TakeForSend
  <2> QED BY <1>2, <2>1, <2>2, EndsKept
<1>6. CASE ExchangeKeys
  <2>1. PICK batch : outbox' = [outbox EXCEPT !["keyClient"] = batch]
    BY <1>6 DEF ExchangeKeys
  <2>2. /\ UNCHANGED <<cut, queue, pc, done, failed, powBatch>>
        /\ pc["keyClient"] \in {"run", "last"}
    BY <1>6 DEF ExchangeKeys, KeyBatchDue
  <2>3. \A w \in Worker : w # "keyClient" => outbox'[w] = outbox[w]
    BY <2>1, TypeParts DEF QueueTypes
  <2> QED BY <2>2, <2>3, EndsKept
<1>7. CASE ExchangeFails
  <2>1. /\ pc["keyClient"] \in {"run", "last"} /\ outbox["keyClient"] = << >>
        /\ pc' = [pc EXCEPT !["keyClient"] = "exit"] /\ failed' = failed \cup {"key"}
        /\ UNCHANGED <<cut, queue, done, outbox, keyBatch, powBatch>>
    BY <1>7 DEF ExchangeFails, KeyBatchDue, client
  <2>2. /\ pc'["keyClient"] = "exit" /\ "key" \in failed'
        /\ \A w \in Worker : w # "keyClient" => pc'[w] = pc[w]
        /\ "pow" \in failed' <=> "pow" \in failed
    BY <1>1, <2>1, TypeParts DEF ThreadTypes
  <2>3. \A w \in Worker : pc'[w] # "run" /\ ~ Failed(w)'
                         => done'[In[w]] /\ queue'[In[w]] = << >>
    BY <2>1, <2>2 DEF Ends, Failed
  <2>4. ~ done["encode"]
    BY <2>1 DEF Ends
  <2> QED BY <1>1, <2>1, <2>2, <2>3, <2>4, InOut DEF Ends
<1>8. CASE ProveOwnership \/ AnswerLost
  <2>1. /\ pc["powClient"] \in {"run", "last"} /\ powBatch' = << >>
        /\ pc' = [pc EXCEPT !["powClient"] = IF @ = "last" THEN "closing" ELSE @]
        /\ outbox' = [outbox EXCEPT !["powClient"] = powBatch]
        /\ UNCHANGED <<cut, queue, done, keyBatch>>
        /\ failed' = failed \/ failed' = failed \cup {"answer"}
    BY <1>8, AnsweredMeans DEF HandOn, PowBatchDue, AfterBatch
  <2>2. /\ pc["powClient"] = "run" => pc'["powClient"] = "run"
        /\ pc["powClient"] = "last" => pc'["powClient"] = "closing"
        /\ \A w \in Worker : w # "powClient" => pc'[w] = pc[w] /\ outbox'[w] = outbox[w]
    BY <1>1, <2>1, TypeParts DEF ThreadTypes, QueueTypes
  <2>3. \A w \in Worker : pc'[w] # "run" /\ ~ Failed(w)'
                         => done'[In[w]] /\ queue'[In[w]] = << >>
    BY <2>1, <2>2 DEF Ends, Failed
  <2> QED BY <1>1, <2>1, <2>2, <2>3, InOut DEF Ends
<1>9. CASE ProofFails
  <2>1. /\ pc["powClient"] \in {"run", "last"} /\ powBatch' = << >>
        /\ outbox["powClient"] = << >>
        /\ pc' = [pc EXCEPT !["powClient"] = "closing"] /\ failed' = failed \cup {"pow"}
        /\ UNCHANGED <<cut, queue, done, outbox, keyBatch>>
    BY <1>9 DEF ProofFails, PowBatchDue
  <2>2. /\ pc'["powClient"] = "closing" /\ "pow" \in failed'
        /\ \A w \in Worker : w # "powClient" => pc'[w] = pc[w]
        /\ "key" \in failed' <=> "key" \in failed
    BY <1>1, <2>1, TypeParts DEF ThreadTypes
  <2>3. \A w \in Worker : pc'[w] # "run" /\ ~ Failed(w)'
                         => done'[In[w]] /\ queue'[In[w]] = << >>
    BY <2>1, <2>2 DEF Ends, Failed
  <2> QED BY <1>1, <2>1, <2>2, <2>3, InOut DEF Ends
<1>10. CASE SendChunks \/ SendRecipe \/ SendEnd \/ SendFails
  <2>1. PICK x : pc' = [pc EXCEPT !["sender"] = x]
    BY <1>10 DEF SendChunks, SendRecipe, SendEnd, SendFails, AfterBatch
  <2>2. /\ UNCHANGED <<cut, queue, done, outbox, keyBatch, powBatch>>
        /\ failed' = failed \/ failed' = failed \cup {"server"}
    BY <1>10 DEF SendChunks, SendRecipe, SendEnd, SendFails, client
  <2>3. /\ \A w \in Worker : w # "sender" => pc'[w] = pc[w]
        /\ pc'["sender"] # "run" => pc["sender"] # "run" \/ "server" \in failed'
    BY <1>1, <1>10, TypeParts
       DEF ThreadTypes, SendChunks, SendRecipe, SendEnd, SendFails, AfterBatch
  <2>4. \A w \in Worker : pc'[w] # "run" /\ ~ Failed(w)'
                         => done'[In[w]] /\ queue'[In[w]] = << >>
    BY <2>2, <2>3 DEF Ends, Failed
  <2>5. "server" \in failed' => pc'["sender"] = "exit"
    <3>1. CASE SendChunks \/ SendRecipe
      BY <3>1 DEF SendChunks, SendDue, SendRecipe, Ends
    <3>2. CASE SendEnd \/ SendFails
      BY <1>1, <3>2, TypeParts DEF ThreadTypes, SendEnd, SendFails
    <3> QED BY <1>10, <3>1, <3>2
  <2>6. "key" \in failed' <=> "key" \in failed
    BY <2>2
  <2>7. "pow" \in failed' <=> "pow" \in failed
    BY <2>2
  <2> QED BY <1>1, <2>2, <2>3, <2>4, <2>5, <2>6, <2>7, InOut DEF Ends
<1>11. CASE Serve \/ StoreFails \/ UNCHANGED vars
  BY <1>11, EndsKept DEF Serve, StoreFails, vars, client
<1>12. ASSUME NEW w \in Worker \ {"sender"}, Push(w)
       PROVE  Ends'
  <2>1. /\ outbox[w] # << >> /\ Insert(Out[w], outbox[w][1])
        /\ outbox' = [outbox EXCEPT ![w] = Tail(@)]
        /\ UNCHANGED <<cut, done, pc, keyBatch, powBatch, failed>>
    BY <1>12 DEF Push, client
  <2>2. ~ done[Out[w]] /\ Out[w] \in Stage
    BY <2>1, BehindDone, InOut
  <2>3. \A v \in Worker : v # w => outbox'[v] = outbox[v]
    BY <2>1, TypeParts DEF QueueTypes
  <2>4. \A r \in Stage : done[r] /\ queue[r] = << >> => queue'[r] = << >>
    BY <2>1, <2>2, InsertKeeps
  <2> QED BY <2>1, <2>3, <2>4, EndsKept
<1>13. ASSUME NEW w \in Worker \ {"sender"}, Relay(w)
       PROVE  Ends'
  <2>1. /\ Extract(w) /\ pc[w] = "run"
        /\ UNCHANGED <<cut, done, pc, keyBatch, powBatch, failed>>
    BY <1>13 DEF Relay, Extract, client
  <2>2. \A v \in Worker : v # w => outbox'[v] = outbox[v]
    BY <1>13, TypeParts DEF QueueTypes, Relay
  <2> QED BY <1>2, <2>1, <2>2, EndsKept
<1>14. ASSUME NEW w \in Worker \ {"sender"}, Finish(w)
       PROVE  Ends'
  <2>1. /\ outbox[w] = << >> /\ pc' = [pc EXCEPT ![w] = "exit"]
        /\ UNCHANGED <<cut, queue, outbox, keyBatch, powBatch, failed>>
        /\ w \in FpThread \cup {"encoder"} => pc[w] = "last"
        /\ w = "keyClient" => pc[w] = "last" /\ keyBatch = << >>
        /\ w = "powClient" => pc[w] = "closing"
    BY <1>14, InOut DEF Finish, client
  <2>2. pc'[w] = "exit" /\ \A v \in Worker : v # w => pc'[v] = pc[v]
    BY <2>1, TypeParts DEF ThreadTypes
  <2>3. /\ \A r \in Stage : r # Out[w] => done'[r] = done[r]
        /\ \A r \in Stage : done[r] => done'[r]
    BY <1>14, TypeParts, InOut DEF Finish, ThreadTypes
  <2>4. w \in FpThread /\ done'["key"] => done["key"] \/ finished = Cardinality(FpThread)
    BY <1>14, InOut DEF Finish
  <2>5. \A v \in Worker : pc'[v] # "run" /\ ~ Failed(v)'
                         => done'[In[v]] /\ queue'[In[v]] = << >>
    <3>1. pc[w] # "run"
      BY <2>1 DEF Worker
    <3> QED BY <2>1, <2>2, <2>3, <3>1, InOut DEF Ends, Failed
  <2>6. \A v \in FpThread \cup {"encoder"} :
          pc'[v] \in {"run", "last", "exit"} /\ (pc'[v] # "run" => outbox'[v] = << >>)
    BY <1>1, <2>1, <2>2 DEF Ends
  <2>7. done'["key"] => \A v \in FpThread : pc'[v] # "run"
    <3>1. done["key"] => \A v \in FpThread : pc'[v] # "run"
      BY <1>1, <2>2 DEF Ends
    <3>2. finished = Cardinality(FpThread) => \A v \in FpThread : pc[v] # "run"
      <4> DEFINE Ended == {v \in FpThread : pc[v] # "run"}
      <4>1. Ended \in SUBSET FpThread /\ IsFiniteSet(FpThread)
        BY PipelineAssumption
      <4>2. Cardinality(FpThread) = Cardinality(Ended) => FpThread = Ended
        BY <4>1, FS_Subset
      <4> QED BY <4>2 DEF Counted
    <3>3. w \in FpThread \/ done'["key"] = done["key"]
      BY <2>3, InOut DEF Worker, Stage
    <3> QED BY <1>1, <2>2, <2>4, <3>1, <3>2, <3>3
  <2>8. w \in {"keyClient", "encoder", "powClient"} \/ w \in FpThread
    BY DEF Worker
  <2>9. CASE w \in FpThread
    <3>1. \A r \in Stage : r # "key" => done'[r] = done[r]
      BY <2>3, <2>9, InOut
    <3>2. \A v \in {"keyClient", "encoder", "powClient"} : pc'[v] = pc[v]
      BY <1>1, <2>2, <2>9, InOut
    <3> QED BY <1>1, <2>1, <2>5, <2>6, <2>7, <3>1, <3>2 DEF Ends, Stage
  <2>10. CASE w = "encoder"
    BY <1>1, <2>1, <2>2, <2>3, <2>5, <2>6, <2>7, <2>10, InOut DEF Ends, Stage
  <2>11. CASE w = "keyClient"
    <3>1. "key" \notin failed
      BY <2>1, <2>11 DEF Ends
    <3> QED BY <1>1, <2>1, <2>2, <2>3, <2>5, <2>6, <2>7, <2>11, <3>1, InOut DEF Ends, Stage
  <2>12. CASE w = "powClient"
    BY <1>1, <2>1, <2>2, <2>3, <2>5, <2>6, <2>7, <2>12, InOut DEF Ends, Stage
  <2> QED BY <2>8, <2>9, <2>10, <2>11, <2>12
<1>15. ASSUME NEW w \in Worker, NoticeDone(w)
       PROVE  Ends'
  <2>1. /\ pc[w] = "run" /\ outbox[w] = << >> /\ done[In[w]] /\ queue[In[w]] = << >>
        /\ pc' = [pc EXCEPT ![w] = "last"]
        /\ UNCHANGED <<cut, queue, done, outbox, keyBatch, powBatch, failed>>
    BY <1>15 DEF NoticeDone, AtTop, client
  <2>2. pc'[w] = "last" /\ \A v \in Worker : v # w => pc'[v] = pc[v]
    BY <2>1, TypeParts DEF ThreadTypes
  <2>3. \A v \in Worker : pc'[v] # "run" /\ ~ Failed(v)'
                         => done'[In[v]] /\ queue'[In[v]] = << >>
    BY <2>1, <2>2 DEF Ends, Failed
  <2>4. \A v \in FpThread \cup {"encoder"} :
          pc'[v] \in {"run", "last", "exit"} /\ (pc'[v] # "run" => outbox'[v] = << >>)
    BY <1>1, <2>1, <2>2 DEF Ends
  <2>5. /\ w = "keyClient" => "key" \notin failed /\ ~ done["encode"]
        /\ w = "powClient" => "pow" \notin failed /\ ~ done["send"]
        /\ w = "encoder" => ~ done["pow"]
    BY <2>1 DEF Ends
  <2> QED BY <1>1, <2>1, <2>2, <2>3, <2>4, <2>5 DEF Ends
<1> QED BY <1>3, <1>4, <1>5, <1>6, <1>7, <1>8, <1>9, <1>10, <1>11, <1>12, <1>13, <1>14,
           <1>15, Actions

(* Every stage before a done_ flag has let go of everything.               *)
LEMMA EndsMean == Types /\ Ends => DoneIsFinal
<1> SUFFICES ASSUME Types, Ends
             PROVE  DoneIsFinal
  OBVIOUS
<1>1. done["fingerprint"] => cut = RecipeHead
  BY DEF Ends
<1>2. ASSUME NEW w \in Worker \ {"sender"}, done[Out[w]], ~ (w = "powClient" /\ "pow" \in failed)
      PROVE  done[In[w]] /\ queue[In[w]] = << >> /\ outbox[w] = << >>
  <2>1. ~ Failed(w)
    BY <1>2, InOut DEF Failed, Ends
  <2> QED BY <1>2, <2>1, BehindDone
<1>3. (done["encode"] => keyBatch = << >>) /\ (done["send"] => powBatch = << >>)
  BY DEF Ends
<1> QED BY <1>1, <1>2, <1>3 DEF DoneIsFinal
-----------------------------------------------------------------------------
(* What a step makes of the holders: the head of one is taken away, an     *)
(* item is added at the end of one, or one is emptied.                     *)
AfterTake(C, h) == [C EXCEPT ![h] = Tail(@)]
AfterAdd(C, g, x) == [C EXCEPT ![g] = Append(@, x)]
AfterMove(C, h, g) == AfterAdd(AfterTake(C, h), g, C[h][1])

LEMMA Taken ==
  ASSUME NEW C \in [Holder -> Seq(Item)], Once(C), NEW h \in Holder, C[h] # << >>
  PROVE  /\ AfterTake(C, h) \in [Holder -> Seq(Item)]
         /\ AfterTake(C, h)[h] = Tail(C[h])
         /\ \A f \in Holder : f # h => AfterTake(C, h)[f] = C[f]
         /\ Once(AfterTake(C, h)) /\ Held(AfterTake(C, h)) = Held(C) \ {C[h][1]}
<1> DEFINE D == AfterTake(C, h)
<1>0. /\ Tail(C[h]) \in Seq(Item)
      /\ D \in [Holder -> Seq(Item)] /\ D[h] = Tail(C[h])
      /\ \A f \in Holder : f # h => D[f] = C[f]
  <2>1. Tail(C[h]) \in Seq(Item)
    OBVIOUS
  <2> QED BY <2>1 DEF AfterTake
<1> HIDE DEF D
<1>1. /\ 1 \in DOMAIN C[h]
      /\ \A i \in DOMAIN D[h] : i + 1 \in DOMAIN C[h] /\ D[h][i] = C[h][i + 1] /\ i + 1 # 1
      /\ \A i \in DOMAIN C[h] : i # 1 => i - 1 \in DOMAIN D[h] /\ D[h][i - 1] = C[h][i]
      /\ \A i, j \in DOMAIN D[h] : i + 1 = j + 1 => i = j
  BY <1>0
<1>2. Once(D)
  <2> SUFFICES ASSUME NEW f \in Holder, NEW g \in Holder, NEW i \in DOMAIN D[f],
                      NEW j \in DOMAIN D[g], D[f][i] = D[g][j]
               PROVE  f = g /\ i = j
    BY DEF Once
  <2>1. CASE f = h /\ g = h
    BY <1>0, <1>1, <2>1 DEF Once
  <2>2. CASE f = h /\ g # h
    BY <1>0, <1>1, <2>2 DEF Once
  <2>3. CASE f # h /\ g = h
    BY <1>0, <1>1, <2>3 DEF Once
  <2>4. CASE f # h /\ g # h
    BY <1>0, <2>4 DEF Once
  <2> QED BY <2>1, <2>2, <2>3, <2>4
<1>3. C[h][1] \notin Held(D)
  <2> SUFFICES ASSUME NEW f \in Holder, NEW i \in DOMAIN D[f], D[f][i] = C[h][1]
               PROVE  FALSE
    BY DEF Held
  <2>1. CASE f = h
    BY <1>0, <1>1, <2>1 DEF Once
  <2>2. CASE f # h
    BY <1>0, <1>1, <2>2 DEF Once
  <2> QED BY <2>1, <2>2
<1>4. ASSUME NEW x \in Item, x # C[h][1]
      PROVE  x \in Held(D) <=> x \in Held(C)
  <2>1. ASSUME NEW f \in Holder, NEW i \in DOMAIN D[f], D[f][i] = x
        PROVE  \E j \in DOMAIN C[f] : C[f][j] = x
    <3>1. CASE f = h
      <4>1. i + 1 \in DOMAIN C[h] /\ C[h][i + 1] = x
        BY <1>0, <1>1, <2>1, <3>1
      <4> QED BY <3>1, <4>1
    <3>2. CASE f # h
      BY <1>0, <2>1, <3>2
    <3> QED BY <3>1, <3>2
  <2>2. ASSUME NEW f \in Holder, NEW i \in DOMAIN C[f], C[f][i] = x
        PROVE  \E j \in DOMAIN D[f] : D[f][j] = x
    <3>1. CASE f = h
      <4>1. i # 1
        BY <1>4, <2>2, <3>1
      <4>2. i - 1 \in DOMAIN D[h] /\ D[h][i - 1] = x
        BY <1>0, <1>1, <2>2, <3>1, <4>1
      <4> QED BY <3>1, <4>2
    <3>2. CASE f # h
      BY <1>0, <2>2, <3>2
    <3> QED BY <3>1, <3>2
  <2> QED BY <2>1, <2>2 DEF Held
<1>5. Held(D) \subseteq Item /\ Held(C) \subseteq Item
  BY DEF Held
<1> QED BY <1>0, <1>2, <1>3, <1>4, <1>5 DEF D

(* An item nobody held added at the end of one.                            *)
LEMMA Added ==
  ASSUME NEW C \in [Holder -> Seq(Item)], Once(C), NEW g \in Holder, NEW x \in Item \ Held(C)
  PROVE  Once(AfterAdd(C, g, x)) /\ Held(AfterAdd(C, g, x)) = Held(C) \cup {x}
<1> DEFINE D == AfterAdd(C, g, x)
<1>0. /\ D \in [Holder -> Seq(Item)] /\ D[g] = Append(C[g], x)
      /\ \A f \in Holder : f # g => D[f] = C[f]
  <2>1. Append(C[g], x) \in Seq(Item)
    OBVIOUS
  <2> QED BY <2>1 DEF AfterAdd
<1> HIDE DEF D
<1> DEFINE n == Len(C[g]) + 1
<1>1. /\ n \in DOMAIN D[g] /\ D[g][n] = x /\ n \notin DOMAIN C[g]
      /\ \A i \in DOMAIN D[g] : i # n => i \in DOMAIN C[g] /\ D[g][i] = C[g][i]
      /\ \A i \in DOMAIN C[g] : i \in DOMAIN D[g] /\ D[g][i] = C[g][i]
  BY <1>0
<1> HIDE DEF n
<1>2. \A f \in Holder : \A i \in DOMAIN D[f] :
        \/ f = g /\ i = n
        \/ i \in DOMAIN C[f] /\ D[f][i] = C[f][i] /\ D[f][i] # x
  BY <1>0, <1>1 DEF Held
<1>3. Once(D)
  BY <1>0, <1>1, <1>2 DEF Once
<1>4. x \in Held(D)
  BY <1>1 DEF Held
<1>5. ASSUME NEW y \in Item, y # x
      PROVE  y \in Held(D) <=> y \in Held(C)
  <2>1. ASSUME NEW f \in Holder, NEW i \in DOMAIN D[f], D[f][i] = y
        PROVE  \E j \in DOMAIN C[f] : C[f][j] = y
    BY <1>0, <1>1, <1>2, <1>5, <2>1
  <2>2. ASSUME NEW f \in Holder, NEW i \in DOMAIN C[f], C[f][i] = y
        PROVE  \E j \in DOMAIN D[f] : D[f][j] = y
    <3>1. CASE f = g
      BY <1>0, <1>1, <2>2, <3>1
    <3>2. CASE f # g
      BY <1>0, <2>2, <3>2
    <3> QED BY <3>1, <3>2
  <2> QED BY <2>1, <2>2 DEF Held
<1>6. Held(D) \subseteq Item /\ Held(C) \subseteq Item
  BY DEF Held
<1> QED BY <1>3, <1>4, <1>5, <1>6 DEF D

LEMMA Moved ==
  ASSUME NEW C \in [Holder -> Seq(Item)], Once(C),
         NEW h \in Holder, NEW g \in Holder, C[h] # << >>
  PROVE  Once(AfterMove(C, h, g)) /\ Held(AfterMove(C, h, g)) = Held(C)
<1>1. C[h][1] \in Item /\ 1 \in DOMAIN C[h]
  OBVIOUS
<1>2. C[h][1] \in Held(C)
  BY <1>1 DEF Held
<1>3. /\ AfterTake(C, h) \in [Holder -> Seq(Item)]
      /\ Once(AfterTake(C, h)) /\ Held(AfterTake(C, h)) = Held(C) \ {C[h][1]}
  BY Taken
<1> DEFINE M == AfterTake(C, h)
           x == C[h][1]
<1>4. x \in Item \ Held(M) /\ M \in [Holder -> Seq(Item)] /\ Once(M)
  BY <1>1, <1>3
<1>5. AfterMove(C, h, g) = AfterAdd(M, g, x)
  BY DEF AfterMove
<1>6. Held(M) = Held(C) \ {x} /\ x \in Held(C)
  BY <1>2, <1>3
<1> HIDE DEF M, x
<1>7. Once(AfterAdd(M, g, x)) /\ Held(AfterAdd(M, g, x)) = Held(M) \cup {x}
  BY <1>4, Added
<1> QED BY <1>5, <1>6, <1>7

(* A whole batch handed to a thread with empty hands, in some order.       *)
PassedOn(C, D, h, g) ==
  /\ h # g /\ C[g] = << >> /\ D[h] = << >>
  /\ \A f \in Holder : f # h /\ f # g => D[f] = C[f]
  /\ \A i \in DOMAIN D[g] : \E j \in DOMAIN C[h] : D[g][i] = C[h][j]
  /\ \A j \in DOMAIN C[h] : \E i \in DOMAIN D[g] : D[g][i] = C[h][j]
  /\ (\A i, j \in DOMAIN C[h] : C[h][i] = C[h][j] => i = j)
       => \A i, j \in DOMAIN D[g] : D[g][i] = D[g][j] => i = j

LEMMA Passed ==
  ASSUME NEW C \in [Holder -> Seq(Item)], NEW D \in [Holder -> Seq(Item)], Once(C),
         NEW h \in Holder, NEW g \in Holder, PassedOn(C, D, h, g)
  PROVE  Once(D) /\ Held(D) = Held(C)
<1> USE DEF PassedOn
<1>1. \A i \in DOMAIN D[h] : FALSE
  OBVIOUS
<1>2. \A i \in DOMAIN C[g] : FALSE
  OBVIOUS
<1>3. \A i, j \in DOMAIN D[g] : D[g][i] = D[g][j] => i = j
  <2>1. \A i, j \in DOMAIN C[h] : C[h][i] = C[h][j] => i = j
    <3> HIDE DEF PassedOn
    <3> SUFFICES ASSUME NEW i \in DOMAIN C[h], NEW j \in DOMAIN C[h], C[h][i] = C[h][j]
                 PROVE  i = j
      OBVIOUS
    <3> QED BY DEF Once
  <2> QED BY <2>1
<1>4. Once(D)
  <2> SUFFICES ASSUME NEW e \in Holder, NEW f \in Holder, NEW i \in DOMAIN D[e],
                      NEW j \in DOMAIN D[f], D[e][i] = D[f][j]
               PROVE  e = f /\ i = j
    BY DEF Once
  <2>1. e # h /\ f # h
    BY <1>1
  <2>2. CASE e = g /\ f = g
    BY <1>3, <2>2
  <2>3. CASE e = g /\ f # g
    BY <2>1, <2>3 DEF Once
  <2>4. CASE e # g /\ f = g
    BY <2>1, <2>4 DEF Once
  <2>5. CASE e # g /\ f # g
    BY <2>1, <2>5 DEF Once
  <2> QED BY <2>2, <2>3, <2>4, <2>5
<1>5. ASSUME NEW x \in Held(D)
      PROVE  x \in Held(C)
  <2>4. PICK f \in Holder : \E i \in DOMAIN D[f] : D[f][i] = x
    BY DEF Held
  <2>1. PICK i \in DOMAIN D[f] : D[f][i] = x
    BY <2>4
  <2>2. CASE f = g
    BY <2>1, <2>2 DEF Held
  <2>3. CASE f # g
    BY <1>1, <2>1, <2>3 DEF Held
  <2> QED BY <2>2, <2>3
<1>6. ASSUME NEW x \in Held(C)
      PROVE  x \in Held(D)
  <2>4. PICK f \in Holder : \E i \in DOMAIN C[f] : C[f][i] = x
    BY DEF Held
  <2>1. PICK i \in DOMAIN C[f] : C[f][i] = x
    BY <2>4
  <2>2. CASE f = h
    BY <2>1, <2>2 DEF Held
  <2>3. CASE f # h
    BY <1>2, <2>1, <2>3 DEF Held
  <2> QED BY <2>2, <2>3
<1> QED BY <1>4, <1>5, <1>6

(* What each holder holds.                                                 *)
LEMMA HoldIs ==
  ASSUME NEW q, NEW o, NEW kb, NEW pb, NEW rl
  PROVE  /\ \A s \in Stage : <<"queue", s>> \in Holder /\ Hold(q, o, kb, pb, rl)[<<"queue", s>>] = q[s]
         /\ \A w \in Worker : <<"out", w>> \in Holder /\ Hold(q, o, kb, pb, rl)[<<"out", w>>] = o[w]
         /\ <<"batch", "keyClient">> \in Holder
         /\ Hold(q, o, kb, pb, rl)[<<"batch", "keyClient">>] = kb
         /\ <<"batch", "powClient">> \in Holder
         /\ Hold(q, o, kb, pb, rl)[<<"batch", "powClient">>] = pb
         /\ <<"batch", "sender">> \in Holder
         /\ Hold(q, o, kb, pb, rl)[<<"batch", "sender">>] = rl
         /\ (q \in [Stage -> Seq(Item)] /\ o \in [Worker -> Seq(Item)]
             /\ kb \in Seq(Item) /\ pb \in Seq(Item) /\ rl \in Seq(Item))
              => Hold(q, o, kb, pb, rl) \in [Holder -> Seq(Item)]
<1> DEFINE C == Hold(q, o, kb, pb, rl)
<1>1. /\ \A s \in Stage : <<"queue", s>> \in Holder
      /\ \A w \in Worker : <<"out", w>> \in Holder
      /\ \A b \in {"keyClient", "powClient", "sender"} : <<"batch", b>> \in Holder
  BY DEF Holder
<1>2. \A h \in Holder : C[h] = IF h[1] = "queue" THEN q[h[2]]
                    ELSE IF h[1] = "out" THEN o[h[2]]
                    ELSE IF h[2] = "keyClient" THEN kb
                    ELSE IF h[2] = "powClient" THEN pb ELSE rl
  BY DEF Hold
<1>3. \A s \in Stage : C[<<"queue", s>>] = q[s]
  BY <1>1, <1>2
<1>4. \A w \in Worker : C[<<"out", w>>] = o[w]
  BY <1>1, <1>2
<1>5. C[<<"batch", "keyClient">>] = kb /\ C[<<"batch", "powClient">>] = pb
      /\ C[<<"batch", "sender">>] = rl
  BY <1>1, <1>2
<1>6. ASSUME q \in [Stage -> Seq(Item)], o \in [Worker -> Seq(Item)],
             kb \in Seq(Item), pb \in Seq(Item), rl \in Seq(Item)
      PROVE  C \in [Holder -> Seq(Item)]
  <2>1. \A h \in Holder : C[h] \in Seq(Item)
    <3> TAKE h \in Holder
    <3>1. CASE h \in {"queue"} \X Stage
      BY <1>2, <1>6, <3>1
    <3>2. CASE h \in {"out"} \X Worker
      BY <1>2, <1>6, <3>2
    <3>3. CASE h \in {"batch"} \X {"keyClient", "powClient", "sender"}
      BY <1>2, <1>6, <3>3
    <3> QED BY <3>1, <3>2, <3>3 DEF Holder
  <2>2. C = [h \in Holder |-> C[h]]
    BY DEF Hold
  <2> HIDE DEF C
  <2> QED BY <2>1, <2>2
<1> QED BY <1>1, <1>3, <1>4, <1>5, <1>6
-----------------------------------------------------------------------------
(* A batch dropped.                                                        *)
AfterClear(C, h) == [C EXCEPT ![h] = << >>]

LEMMA Emptied ==
  ASSUME NEW C \in [Holder -> Seq(Item)], Once(C), NEW h \in Holder
  PROVE  /\ Once(AfterClear(C, h))
         /\ Held(AfterClear(C, h)) \subseteq Held(C)
         /\ Held(C) \ Held(AfterClear(C, h)) \subseteq Range(C[h])
<1> DEFINE D == AfterClear(C, h)
<1>0. D[h] = << >> /\ \A f \in Holder : f # h => D[f] = C[f]
  BY DEF AfterClear
<1> HIDE DEF D
<1>1. \A i \in DOMAIN D[h] : FALSE
  BY <1>0
<1>2. \A f \in Holder : \A i \in DOMAIN D[f] : i \in DOMAIN C[f] /\ D[f][i] = C[f][i]
  BY <1>0, <1>1
<1>3. \A f \in Holder : f # h => \A i \in DOMAIN C[f] : i \in DOMAIN D[f] /\ D[f][i] = C[f][i]
  BY <1>0
<1>4. Once(D)
  BY <1>2 DEF Once
<1>5. Held(D) \subseteq Held(C)
  BY <1>2 DEF Held
<1>6. \A x \in Held(C) \ Held(D) : \E i \in DOMAIN C[h] : C[h][i] = x
  BY <1>3 DEF Held
<1>7. Held(C) \ Held(D) \subseteq Range(C[h])
  BY <1>6 DEF Range
<1> QED BY <1>4, <1>5, <1>7 DEF D

(* The holders before and after a step.                                    *)
LEMMA Contained ==
  ASSUME Types, Types'
  PROVE  /\ Contents \in [Holder -> Seq(Item)] /\ Contents' \in [Holder -> Seq(Item)]
         /\ \A s \in Stage : /\ <<"queue", s>> \in Holder
                             /\ Contents[<<"queue", s>>] = queue[s]
                             /\ Contents'[<<"queue", s>>] = queue'[s]
         /\ \A w \in Worker : /\ <<"out", w>> \in Holder
                              /\ Contents[<<"out", w>>] = outbox[w]
                              /\ Contents'[<<"out", w>>] = outbox'[w]
         /\ \A b \in {"keyClient", "powClient", "sender"} : <<"batch", b>> \in Holder
         /\ Contents[<<"batch", "keyClient">>] = keyBatch
         /\ Contents'[<<"batch", "keyClient">>] = keyBatch'
         /\ Contents[<<"batch", "powClient">>] = powBatch
         /\ Contents'[<<"batch", "powClient">>] = powBatch'
         /\ Contents[<<"batch", "sender">>] = recipeList
         /\ Contents'[<<"batch", "sender">>] = recipeList'
<1> \A q \in Seq(ChunkID) : q \in Seq(Item)
  BY Numbers
<1>1. /\ queue \in [Stage -> Seq(Item)] /\ outbox \in [Worker -> Seq(Item)]
      /\ keyBatch \in Seq(Item) /\ powBatch \in Seq(Item) /\ recipeList \in Seq(Item)
  BY DEF Types, TypeOK
<1>2. /\ queue' \in [Stage -> Seq(Item)] /\ outbox' \in [Worker -> Seq(Item)]
      /\ keyBatch' \in Seq(Item) /\ powBatch' \in Seq(Item) /\ recipeList' \in Seq(Item)
  BY DEF Types, TypeOK
<1>3. Contents = Hold(queue, outbox, keyBatch, powBatch, recipeList)
  BY DEF Contents
<1>4. Contents' = Hold(queue', outbox', keyBatch', powBatch', recipeList')
  BY DEF Contents, Hold
<1>5. Contents \in [Holder -> Seq(Item)]
  BY <1>1, <1>3, HoldIs
<1>6. Contents' \in [Holder -> Seq(Item)]
  BY <1>2, <1>4, HoldIs
<1>7. /\ \A s \in Stage : <<"queue", s>> \in Holder /\ Contents[<<"queue", s>>] = queue[s]
      /\ \A w \in Worker : <<"out", w>> \in Holder /\ Contents[<<"out", w>>] = outbox[w]
      /\ Contents[<<"batch", "keyClient">>] = keyBatch
      /\ Contents[<<"batch", "powClient">>] = powBatch
      /\ Contents[<<"batch", "sender">>] = recipeList
  BY <1>3, HoldIs
<1>8. /\ \A s \in Stage : Contents'[<<"queue", s>>] = queue'[s]
      /\ \A w \in Worker : Contents'[<<"out", w>>] = outbox'[w]
      /\ Contents'[<<"batch", "keyClient">>] = keyBatch'
      /\ Contents'[<<"batch", "powClient">>] = powBatch'
      /\ Contents'[<<"batch", "sender">>] = recipeList'
  BY <1>4, HoldIs
<1>9. \A b \in {"keyClient", "powClient", "sender"} : <<"batch", b>> \in Holder
  BY DEF Holder
<1> QED BY <1>5, <1>6, <1>7, <1>8, <1>9

(* What a step leaves alone.                                               *)
Untouched(H) ==
  /\ \A s \in Stage : <<"queue", s>> \in H \/ queue'[s] = queue[s]
  /\ \A w \in Worker : <<"out", w>> \in H \/ outbox'[w] = outbox[w]
  /\ <<"batch", "keyClient">> \in H \/ keyBatch' = keyBatch
  /\ <<"batch", "powClient">> \in H \/ powBatch' = powBatch
  /\ <<"batch", "sender">> \in H \/ recipeList' = recipeList

LEMMA SameElse ==
  ASSUME Types, Types', NEW H, Untouched(H)
  PROVE  \A f \in Holder \ H : Contents'[f] = Contents[f]
<1> SUFFICES ASSUME NEW f \in Holder \ H
             PROVE  Contents'[f] = Contents[f]
  OBVIOUS
<1> USE DEF Untouched
<1>1. CASE f \in {"queue"} \X Stage
  <2>1. PICK s \in Stage : f = <<"queue", s>>
    BY <1>1
  <2> QED BY <2>1, Contained
<1>2. CASE f \in {"out"} \X Worker
  <2>1. PICK w \in Worker : f = <<"out", w>>
    BY <1>2
  <2> QED BY <2>1, Contained
<1>3. CASE f \in {"batch"} \X {"keyClient", "powClient", "sender"}
  <2>1. PICK b \in {"keyClient", "powClient", "sender"} : f = <<"batch", b>>
    BY <1>3
  <2> QED BY <2>1, Contained
<1> QED BY <1>1, <1>2, <1>3 DEF Holder

(* A step that only moves what is held.                                    *)
LEMMA ConservedKept ==
  ASSUME Conserved, Once(Contents'),
         Held(Contents') = Held(Contents),
         cut' = cut, head' = head, "pow" \in failed' <=> "pow" \in failed
  PROVE  Conserved'
<1>1. Missing' = Missing
  BY DEF Missing, Held
<1> QED BY <1>1 DEF Conserved

LEMMA ConservedSame ==
  ASSUME Conserved, UNCHANGED <<cut, queue, outbox, keyBatch, powBatch, recipeList, head>>,
         "pow" \in failed' <=> "pow" \in failed
  PROVE  Conserved'
<1>1. Contents' = Contents
  BY DEF Contents, Hold
<1>2. Once(Contents')
  BY <1>1 DEF Conserved
<1>3. Held(Contents') = Held(Contents)
  BY <1>1
<1> QED BY <1>2, <1>3, ConservedKept

LEMMA ConservedMoved ==
  ASSUME Types, Types', Conserved, NEW h \in Holder, NEW g \in Holder, h # g,
         Contents[h] # << >>, Contents'[h] = Tail(Contents[h]),
         Contents'[g] = Append(Contents[g], Contents[h][1]),
         \A f \in Holder : f # h /\ f # g => Contents'[f] = Contents[f],
         cut' = cut, head' = head, failed' = failed
  PROVE  Conserved'
<1>1. Contents \in [Holder -> Seq(Item)] /\ Contents' \in [Holder -> Seq(Item)]
      /\ Once(Contents)
  BY Contained DEF Conserved
<1>2. AfterMove(Contents, h, g) = Contents'
  <2> DEFINE M == AfterTake(Contents, h)
             x == Contents[h][1]
             D == [M EXCEPT ![g] = Append(@, x)]
  <2>1. /\ M \in [Holder -> Seq(Item)] /\ M[h] = Contents'[h] /\ M[g] = Contents[g]
        /\ \A f \in Holder : f # h => M[f] = Contents[f]
    BY <1>1, Taken
  <2>2. AfterMove(Contents, h, g) = D /\ Contents'[g] = Append(Contents[g], x)
    BY DEF AfterMove, AfterAdd
  <2> HIDE DEF M, x
  <2>3. \A f \in Holder : D[f] = Contents'[f]
    BY <2>1, <2>2
  <2>4. D = [f \in Holder |-> D[f]] /\ Contents' = [f \in Holder |-> Contents'[f]]
    BY <1>1, <2>1
  <2> HIDE DEF D
  <2> QED BY <2>2, <2>3, <2>4
<1>3. Once(Contents') /\ Held(Contents') = Held(Contents)
  BY <1>1, <1>2, Moved
<1> QED BY <1>3, ConservedKept
-----------------------------------------------------------------------------
LEMMA ConservedPassed ==
  ASSUME Types, Types', Conserved, NEW h \in Holder, NEW g \in Holder,
         PassedOn(Contents, Contents', h, g), cut' = cut, head' = head,
         "pow" \in failed' <=> "pow" \in failed
  PROVE  Conserved'
<1>1. Contents \in [Holder -> Seq(Item)] /\ Contents' \in [Holder -> Seq(Item)]
      /\ Once(Contents)
  BY Contained DEF Conserved
<1>2. Once(Contents') /\ Held(Contents') = Held(Contents)
  BY <1>1, Passed
<1> QED BY <1>2, ConservedKept

LEMMA ConservedNext ==
  ASSUME Types, Types', Ends, Conserved, [Next]_vars
  PROVE  Conserved'
<1>1. /\ {"keyClient", "encoder", "powClient", "sender"} \subseteq Worker
      /\ {"fingerprint", "key", "encode", "pow", "send"} = Stage
  BY DEF Worker, Stage
<1>2. /\ Contents \in [Holder -> Seq(Item)] /\ Contents' \in [Holder -> Seq(Item)]
      /\ Once(Contents) /\ Held(Contents) \subseteq Item
  BY Contained DEF Conserved, Held
<1>3. CASE Cut
  <2> DEFINE g == <<"queue", "fingerprint">>
             x == cut + 1
  <2>1. /\ cut < RecipeHead /\ cut \in Nat /\ cut' = x /\ x \in Item /\ ~ head
        /\ \A y \in Held(Contents) : y <= cut
        /\ UNCHANGED <<outbox, keyBatch, powBatch, recipeList, head, failed>>
        /\ queue' = [queue EXCEPT !["fingerprint"] = Append(@, x)]
    <3>1. /\ cut < RecipeHead /\ cut' = x
          /\ queue' = [queue EXCEPT !["fingerprint"] = Append(@, x)]
          /\ UNCHANGED <<outbox, keyBatch, powBatch, recipeList, head, failed>>
      BY <1>3 DEF Cut, Insert, client
    <3>2. cut \in Nat
      BY Numbers DEF Types, TypeOK
    <3>3. x \in Item
      BY <3>1, <3>2, Numbers DEF Item
    <3>4. ~ head /\ \A y \in Held(Contents) : y <= cut
      BY <3>1, <3>2, Numbers DEF Conserved
    <3> QED BY <3>1, <3>2, <3>3, <3>4
  <2>2. x \in Item \ Held(Contents)
    BY <2>1
  <2>3. /\ queue'["fingerprint"] = Append(queue["fingerprint"], x)
        /\ \A s \in Stage : s # "fingerprint" => queue'[s] = queue[s]
    BY <1>1, <2>1 DEF Types
  <2>4. /\ Contents'[g] = Append(Contents[g], x) /\ g \in Holder
    BY <1>1, <2>3, Contained
  <2>5. \A f \in Holder \ {g} : Contents'[f] = Contents[f]
    <3>1. Untouched({g})
      BY <2>1, <2>3 DEF Untouched
    <3> QED BY <3>1, SameElse
  <2> HIDE DEF g
  <2>6. Contents' = AfterAdd(Contents, g, x)
    BY <1>2, <2>4, <2>5 DEF AfterAdd
  <2>7. Once(Contents') /\ Held(Contents') = Held(Contents) \cup {x}
    <3> HIDE DEF x
    <3>1. Once(AfterAdd(Contents, g, x)) /\ Held(AfterAdd(Contents, g, x)) = Held(Contents) \cup {x}
      BY <1>2, <2>2, <2>4, Added
    <3> QED BY <2>6, <3>1
  <2>8. Missing' = {y \in ChunkID : y <= cut' /\ y \notin Held(Contents')}
    BY DEF Missing, Held
  <2>9. Missing' = Missing
    <3>1. ASSUME NEW y \in ChunkID
          PROVE  y <= cut' /\ y \notin Held(Contents') <=> y <= cut /\ y \notin Held(Contents)
      <4>1. y \in Nat /\ (y <= x <=> y <= cut \/ y = x) /\ (y <= cut => y # x)
        BY <2>1, Numbers
      <4> QED BY <2>1, <2>7, <4>1
    <3> QED BY <2>8, <3>1 DEF Missing
  <2>10. ASSUME NEW y \in Held(Contents')
         PROVE  y <= cut' /\ (y = RecipeHead => ~ head')
    <3>1. y = x \/ y \in Held(Contents)
      BY <2>7
    <3>2. y \in Nat /\ (y = x \/ y <= cut)
      BY <1>2, <2>1, <3>1, Numbers
    <3> QED BY <2>1, <3>2
  <2>11. cut' = RecipeHead => RecipeHead \in Held(Contents')
    BY <2>1, <2>7
  <2>12. IF "pow" \in failed THEN Cardinality(Missing) <= PowBatch ELSE Missing = {}
    BY DEF Conserved
  <2> QED BY <2>1, <2>7, <2>9, <2>10, <2>11, <2>12 DEF Conserved
<1>4. ASSUME NEW w \in Worker, NEW g \in Holder, Extract(w), g # <<"queue", In[w]>>,
             Contents'[g] = Append(Contents[g], queue[In[w]][1]),
             Untouched({g, <<"queue", In[w]>>}), UNCHANGED <<cut, head, failed>>
      PROVE  Conserved'
  <2> DEFINE h == <<"queue", In[w]>>
  <2>1. /\ h \in Holder /\ Contents[h] = queue[In[w]] /\ Contents[h] # << >>
        /\ Contents'[h] = Tail(Contents[h])
        /\ Contents'[g] = Append(Contents[g], Contents[h][1])
    BY <1>4, ExtractMeans, Contained
  <2>2. \A f \in Holder : f # h /\ f # g => Contents'[f] = Contents[f]
    BY <1>4, SameElse
  <2>3. h # g
    BY <1>4
  <2> HIDE DEF h
  <2> QED BY <1>4, <2>1, <2>2, <2>3, ConservedMoved
<1> DEFINE Taking(w, g) == /\ Extract(w) /\ g \in Holder /\ g # <<"queue", In[w]>>
                           /\ Contents'[g] = Append(Contents[g], queue[In[w]][1])
                           /\ Untouched({g, <<"queue", In[w]>>})
                           /\ UNCHANGED <<cut, head, failed>>
<1>0. \A w \in Worker : \A g \in Holder : Taking(w, g) => Conserved'
  BY <1>4
<1> HIDE DEF Taking
<1>5. CASE TakeForKey
  <2>1. /\ Extract("keyClient") /\ keyBatch' = Append(keyBatch, queue["key"][1])
        /\ UNCHANGED <<cut, outbox, powBatch, recipeList, head, failed>>
    BY <1>5 DEF TakeForKey
  <2>2. Untouched({<<"batch", "keyClient">>, <<"queue", "key">>})
    BY <1>1, <2>1, ExtractMeans, InOut DEF Untouched
  <2>3. Taking("keyClient", <<"batch", "keyClient">>)
    BY <1>1, <2>1, <2>2, Contained, InOut DEF Taking
  <2> QED BY <1>0, <1>1, <2>3, Contained
<1>6. CASE TakeForPow
  <2>1. /\ Extract("powClient") /\ powBatch' = Append(powBatch, queue["pow"][1])
        /\ UNCHANGED <<cut, outbox, keyBatch, recipeList, head, failed>>
    BY <1>6 DEF TakeForPow
  <2>2. Untouched({<<"batch", "powClient">>, <<"queue", "pow">>})
    BY <1>1, <2>1, ExtractMeans, InOut DEF Untouched
  <2>3. Taking("powClient", <<"batch", "powClient">>)
    BY <1>1, <2>1, <2>2, Contained, InOut DEF Taking
  <2> QED BY <1>0, <1>1, <2>3, Contained
<1>7. CASE TakeForSend
  <2>1. /\ Extract("sender") /\ UNCHANGED <<cut, outbox, keyBatch, powBatch, failed>>
        /\ IF queue["send"][1] = RecipeHead
           THEN head' = TRUE /\ UNCHANGED recipeList
           ELSE recipeList' = Append(recipeList, queue["send"][1]) /\ UNCHANGED head
    BY <1>7 DEF TakeForSend
  <2>2. CASE queue["send"][1] # RecipeHead
    <3>1. recipeList' = Append(recipeList, queue["send"][1]) /\ UNCHANGED head
      BY <2>1, <2>2
    <3>2. Untouched({<<"batch", "sender">>, <<"queue", "send">>})
      BY <1>1, <2>1, ExtractMeans, InOut DEF Untouched
    <3>3. Taking("sender", <<"batch", "sender">>)
      BY <1>1, <2>1, <3>1, <3>2, Contained, InOut DEF Taking
    <3> QED BY <1>0, <1>1, <3>3, Contained
  <2>3. CASE queue["send"][1] = RecipeHead
    <3> DEFINE h == <<"queue", "send">>
    <3>1. /\ queue["send"] # << >> /\ queue'["send"] = Tail(queue["send"])
          /\ \A s \in Stage : s # "send" => queue'[s] = queue[s]
      BY <1>1, <2>1, ExtractMeans, InOut
    <3>2. /\ h \in Holder /\ Contents[h] = queue["send"] /\ Contents[h] # << >>
          /\ Contents'[h] = Tail(Contents[h]) /\ Contents[h][1] = RecipeHead
      BY <1>1, <2>3, <3>1, Contained
    <3>3. \A f \in Holder : f # h => Contents'[f] = Contents[f]
      <4>1. head' = TRUE /\ UNCHANGED recipeList
        BY <2>1, <2>3
      <4>2. Untouched({h})
        BY <2>1, <3>1, <4>1 DEF Untouched
      <4> QED BY <4>2, SameElse
    <3>4. 1 \in DOMAIN Contents[h]
      BY <1>2, <3>2
    <3> HIDE DEF h
    <3>5. Contents' = AfterTake(Contents, h)
      BY <1>2, <3>2, <3>3 DEF AfterTake
    <3>6. Once(Contents') /\ Held(Contents') = Held(Contents) \ {RecipeHead}
      BY <1>2, <3>2, <3>5, Taken
    <3>7. RecipeHead \in Held(Contents)
      BY <3>2, <3>4, Numbers DEF Held
    <3>8. cut' = cut /\ cut = RecipeHead /\ head' = TRUE /\ failed' = failed
      BY <2>1, <2>3, <3>7, Numbers DEF Conserved, Types, TypeOK
    <3>9. Missing' = Missing
      BY <3>6, <3>8, Numbers DEF Missing
    <3> QED BY <3>6, <3>8, <3>9 DEF Conserved
  <2> QED BY <2>2, <2>3
<1>8. CASE ExchangeKeys
  <2>1. PICK batch \in Sorted(keyBatch) : outbox' = [outbox EXCEPT !["keyClient"] = batch]
    BY <1>8 DEF ExchangeKeys
  <2>2. /\ outbox["keyClient"] = << >> /\ keyBatch' = << >>
        /\ UNCHANGED <<cut, queue, powBatch, recipeList, head, failed>>
    BY <1>8 DEF ExchangeKeys
  <2>3. outbox'["keyClient"] = batch /\ \A v \in Worker : v # "keyClient" => outbox'[v] = outbox[v]
    BY <1>1, <2>1 DEF Types, TypeOK
  <2> DEFINE h == <<"batch", "keyClient">>
             g == <<"out", "keyClient">>
  <2>4. /\ h \in Holder /\ g \in Holder /\ h # g /\ Contents[h] = keyBatch /\ Contents'[g] = batch
        /\ Contents[g] = << >> /\ Contents'[h] = << >>
    BY <1>1, <2>2, <2>3, Contained
  <2>5. \A f \in Holder : f # h /\ f # g => Contents'[f] = Contents[f]
    <3>1. Untouched({h, g})
      BY <2>2, <2>3 DEF Untouched
    <3> QED BY <3>1, SameElse
  <2>6. /\ \A i \in DOMAIN batch : \E j \in DOMAIN keyBatch : batch[i] = keyBatch[j]
        /\ \A j \in DOMAIN keyBatch : \E i \in DOMAIN batch : batch[i] = keyBatch[j]
        /\ (\A i, j \in DOMAIN keyBatch : keyBatch[i] = keyBatch[j] => i = j)
              => \A i, j \in DOMAIN batch : batch[i] = batch[j] => i = j
    <3>1. keyBatch \in Seq(ChunkID) /\ ChunkID \in SUBSET Nat
      BY Numbers DEF Types, TypeOK
    <3>2. batch \in Sorted(keyBatch)
      BY <2>1
    <3>3. DOMAIN batch = DOMAIN keyBatch
      BY <3>1, <3>2, SortedMeans
    <3>4. \A i \in DOMAIN batch : \E j \in DOMAIN keyBatch : batch[i] = keyBatch[j]
      BY <3>1, <3>2, SortedMeans
    <3>5. \A j \in DOMAIN keyBatch : \E i \in DOMAIN batch : batch[i] = keyBatch[j]
      BY <3>1, <3>2, SortedMeans
    <3>6. (\A i, j \in DOMAIN keyBatch : keyBatch[i] = keyBatch[j] => i = j)
             => \A i, j \in DOMAIN batch : batch[i] = batch[j] => i = j
      BY <3>1, <3>2, SortedMeans
    <3> QED BY <3>4, <3>5, <3>6
  <2> HIDE DEF h, g
  <2>7. PassedOn(Contents, Contents', h, g)
    BY <2>4, <2>5, <2>6 DEF PassedOn
  <2> QED BY <2>2, <2>4, <2>7, ConservedPassed
<1>9. CASE ProveOwnership \/ AnswerLost
  <2>1. /\ outbox["powClient"] = << >> /\ powBatch' = << >>
        /\ outbox' = [outbox EXCEPT !["powClient"] = powBatch]
        /\ UNCHANGED <<cut, queue, keyBatch, recipeList, head>>
        /\ failed' = failed \/ failed' = failed \cup {"answer"}
    BY <1>9, AnsweredMeans DEF HandOn, PowBatchDue
  <2>2. outbox'["powClient"] = powBatch
        /\ \A v \in Worker : v # "powClient" => outbox'[v] = outbox[v]
    BY <1>1, <2>1 DEF Types, TypeOK
  <2> DEFINE h == <<"batch", "powClient">>
             g == <<"out", "powClient">>
  <2>3. /\ h \in Holder /\ g \in Holder /\ h # g /\ Contents'[g] = Contents[h]
        /\ Contents[g] = << >> /\ Contents'[h] = << >>
    BY <1>1, <2>1, <2>2, Contained
  <2>4. \A f \in Holder : f # h /\ f # g => Contents'[f] = Contents[f]
    <3>1. Untouched({h, g})
      BY <2>1, <2>2 DEF Untouched
    <3> QED BY <3>1, SameElse
  <2> HIDE DEF h, g
  <2>5. PassedOn(Contents, Contents', h, g)
    BY <2>3, <2>4 DEF PassedOn
  <2> QED BY <2>1, <2>3, <2>5, ConservedPassed
<1>10. CASE ProofFails
  <2>1. /\ pc["powClient"] \in {"run", "last"} /\ powBatch' = << >>
        /\ failed' = failed \cup {"pow"}
        /\ UNCHANGED <<cut, queue, outbox, keyBatch, recipeList, head>>
    BY <1>10 DEF ProofFails, PowBatchDue
  <2>2. Missing = {}
    BY <2>1 DEF Ends, Conserved
  <2> DEFINE h == <<"batch", "powClient">>
  <2>3. h \in Holder /\ Contents[h] = powBatch /\ Contents'[h] = << >>
    BY <1>1, <2>1, Contained
  <2>4. \A f \in Holder : f # h => Contents'[f] = Contents[f]
    <3>1. Untouched({h})
      BY <2>1 DEF Untouched
    <3> QED BY <3>1, SameElse
  <2> HIDE DEF h
  <2>5. /\ Once(Contents') /\ Held(Contents') \subseteq Held(Contents)
        /\ Held(Contents) \ Held(Contents') \subseteq Range(powBatch)
    <3>1. Contents' = AfterClear(Contents, h)
      BY <1>2, <2>3, <2>4 DEF AfterClear
    <3>2. /\ Once(AfterClear(Contents, h)) /\ Held(AfterClear(Contents, h)) \subseteq Held(Contents)
          /\ Held(Contents) \ Held(AfterClear(Contents, h)) \subseteq Range(Contents[h])
      BY <1>2, <2>3, Emptied
    <3> QED BY <2>3, <3>1, <3>2
  <2>6. powBatch \in Seq(ChunkID) /\ Len(powBatch) <= PowBatch /\ PowBatch \in Nat
    BY Numbers DEF Types, TypeOK
  <2>7. Missing' \subseteq {powBatch[i] : i \in 1 .. Len(powBatch)}
    BY <2>1, <2>2, <2>5, <2>6 DEF Missing, Range
  <2>8. Cardinality(Missing') <= PowBatch
    <3> DEFINE B == {powBatch[i] : i \in 1 .. Len(powBatch)}
    <3>1. /\ IsFiniteSet(1 .. Len(powBatch)) /\ Cardinality(1 .. Len(powBatch)) = Len(powBatch)
      <4>1. Len(powBatch) \in Nat
        BY <2>6
      <4> QED BY <4>1, UpTo
    <3>2. [i \in 1 .. Len(powBatch) |-> powBatch[i]] \in Surjection(1 .. Len(powBatch), B)
      BY DEF Surjection
    <3>3. IsFiniteSet(B) /\ Cardinality(B) <= Len(powBatch)
      BY <3>1, <3>2, FS_Surjection
    <3>4. IsFiniteSet(Missing') /\ Cardinality(Missing') <= Cardinality(B)
          /\ Cardinality(Missing') \in Nat /\ Cardinality(B) \in Nat
      BY <2>7, <3>3, FS_Subset, FS_CardinalityType
    <3> QED BY <2>6, <3>3, <3>4
  <2>9. RecipeHead \in Held(Contents) => RecipeHead \in Held(Contents')
    BY <2>5, <2>6, Numbers DEF Range
  <2>10. "pow" \in failed'
    BY <2>1
  <2> QED BY <2>1, <2>5, <2>8, <2>9, <2>10 DEF Conserved
<1>11. ASSUME NEW w \in Worker \ {"sender"}, Relay(w)
       PROVE  Conserved'
  <2>1. /\ Extract(w) /\ outbox[w] = << >>
        /\ outbox' = [outbox EXCEPT ![w] = <<queue[In[w]][1]>>]
        /\ UNCHANGED <<cut, keyBatch, powBatch, recipeList, head, failed>>
    BY <1>11 DEF Relay, Extract, AtTop, client
  <2>2. outbox'[w] = <<queue[In[w]][1]>> /\ \A v \in Worker : v # w => outbox'[v] = outbox[v]
    BY <2>1 DEF Types, TypeOK
  <2>3. outbox'[w] = Append(outbox[w], queue[In[w]][1])
    BY <2>1, <2>2
  <2>4. Untouched({<<"out", w>>, <<"queue", In[w]>>})
    BY <2>1, <2>2, ExtractMeans DEF Untouched
  <2>5. Taking(w, <<"out", w>>)
    BY <2>1, <2>3, <2>4, Contained DEF Taking
  <2> QED BY <1>0, <2>5, Contained
<1>12. ASSUME NEW w \in Worker \ {"sender"}, Push(w)
       PROVE  Conserved'
  <2> DEFINE h == <<"out", w>>
             g == <<"queue", Out[w]>>
  <2>1. /\ outbox[w] # << >> /\ Out[w] \in Stage
        /\ queue' = [queue EXCEPT ![Out[w]] = Append(@, outbox[w][1])]
        /\ outbox' = [outbox EXCEPT ![w] = Tail(@)]
        /\ UNCHANGED <<cut, keyBatch, powBatch, recipeList, head, failed>>
    BY <1>12, InOut DEF Push, Insert, client
  <2>2. /\ queue'[Out[w]] = Append(queue[Out[w]], outbox[w][1])
        /\ \A s \in Stage : s # Out[w] => queue'[s] = queue[s]
        /\ outbox'[w] = Tail(outbox[w]) /\ \A v \in Worker : v # w => outbox'[v] = outbox[v]
    BY <2>1 DEF Types, TypeOK
  <2>3. /\ h \in Holder /\ g \in Holder /\ h # g /\ Contents[h] # << >>
        /\ Contents'[h] = Tail(Contents[h]) /\ Contents'[g] = Append(Contents[g], Contents[h][1])
    BY <2>1, <2>2, Contained
  <2>4. \A f \in Holder : f # h /\ f # g => Contents'[f] = Contents[f]
    <3>1. Untouched({h, g})
      BY <2>1, <2>2 DEF Untouched
    <3> QED BY <3>1, SameElse
  <2> HIDE DEF h, g
  <2> QED BY <2>1, <2>3, <2>4, ConservedMoved
<1>13. CASE \/ ChunkerDone \/ SendChunks \/ SendRecipe \/ SendEnd \/ SendFails
            \/ Serve \/ StoreFails \/ UNCHANGED vars
  BY <1>13, ConservedSame DEF ChunkerDone, SendChunks, SendRecipe, SendEnd,
     SendFails, Serve, StoreFails, vars, client
<1>14. CASE ExchangeFails
  BY <1>14, ConservedSame DEF ExchangeFails, client
<1>15. ASSUME NEW w \in Worker, NoticeDone(w) \/ Finish(w)
       PROVE  Conserved'
  BY <1>15, ConservedSame DEF NoticeDone, Finish, client
<1> QED BY <1>3, <1>5, <1>6, <1>7, <1>8, <1>9, <1>10, <1>11, <1>12, <1>13, <1>14, <1>15, Actions
-----------------------------------------------------------------------------
LEMMA IdleNext ==
  ASSUME Types, Idle, [Next]_vars
  PROVE  Idle'
<1>1. ASSUME NEW w \in Worker \ {"sender"}, NEW x, outbox' = [outbox EXCEPT ![w] = x]
      PROVE  Idle'
  BY <1>1 DEF Idle, Types, TypeOK, Worker
<1>2. "keyClient" \in Worker \ {"sender"} /\ "powClient" \in Worker \ {"sender"}
  BY DEF Worker
<1>3. CASE ExchangeKeys \/ ProveOwnership \/ AnswerLost
  BY <1>1, <1>2, <1>3 DEF ExchangeKeys, ProveOwnership, AnswerLost, HandOn
<1>4. ASSUME NEW w \in Worker \ {"sender"}, Push(w) \/ Relay(w) \/ Finish(w)
      PROVE  Idle'
  BY <1>1, <1>4 DEF Push, Relay, Finish, Idle
<1>5. ASSUME NEW w \in Worker, NoticeDone(w)
      PROVE  Idle'
  BY <1>5 DEF NoticeDone, Idle
<1>6. CASE \/ Cut \/ ChunkerDone \/ TakeForKey \/ ExchangeFails \/ TakeForPow \/ ProofFails
           \/ TakeForSend \/ SendChunks \/ SendRecipe \/ SendEnd \/ SendFails
           \/ Serve \/ StoreFails \/ UNCHANGED vars
  BY <1>6 DEF Cut, ChunkerDone, TakeForKey, ExchangeFails, TakeForPow, ProofFails, TakeForSend,
     SendChunks, SendRecipe, SendEnd, SendFails, Serve, StoreFails, vars, Idle
<1> QED BY <1>3, <1>4, <1>5, <1>6, Actions

(* A list of 1 .. n in increasing order is the list of the first n         *)
(* numbers: i items are at most t[i], and n - t[i] are above it.           *)
LEMMA Counting ==
  ASSUME NEW n \in Nat, NEW t \in Seq(1 .. n),
         \A i, j \in DOMAIN t : i < j => t[i] < t[j],
         \A x \in 1 .. n : \E i \in DOMAIN t : t[i] = x
  PROVE  t = [i \in 1 .. n |-> i]
<1> DEFINE m == Len(t)
<1>1. /\ m \in Nat /\ DOMAIN t = 1 .. m /\ t \in [1 .. m -> 1 .. n]
      /\ \A i \in 1 .. m : t[i] \in Nat /\ 1 <= t[i] /\ t[i] <= n
  <2>1. m \in Nat /\ DOMAIN t = 1 .. m /\ t \in [1 .. m -> 1 .. n]
    OBVIOUS
  <2>2. ASSUME NEW i \in 1 .. m PROVE t[i] \in Nat /\ 1 <= t[i] /\ t[i] <= n
    <3>1. t[i] \in 1 .. n
      BY <2>1
    <3> QED BY <3>1
  <2> QED BY <2>1, <2>2
<1>2. ASSUME NEW i \in 1 .. m, NEW j \in 1 .. m, t[i] = t[j]
      PROVE  i = j
  <2>1. /\ i < j => t[i] < t[j]
        /\ j < i => t[j] < t[i]
    BY <1>1
  <2>2. i \in Int /\ j \in Int /\ t[i] \in Nat /\ t[j] \in Nat
    BY <1>1
  <2> DEFINE x == t[i] y == t[j]
  <2>3. /\ x \in Nat /\ y \in Nat /\ x = y /\ i \in Int /\ j \in Int
        /\ (i < j => x < y) /\ (j < i => y < x)
    BY <1>2, <2>1, <2>2
  <2> HIDE DEF x, y
  <2> QED BY <2>3
<1>3. m = n
  <2>1. t \in Injection(1 .. m, 1 .. n) /\ t \in Surjection(1 .. m, 1 .. n)
    BY <1>1, <1>2 DEF Injection, IsInjective, Surjection
  <2>2. /\ IsFiniteSet(1 .. m) /\ Cardinality(1 .. m) = m
        /\ IsFiniteSet(1 .. n) /\ Cardinality(1 .. n) = n
    <3> HIDE DEF m
    <3> QED BY <1>1, UpTo
  <2> HIDE DEF m
  <2> QED BY <2>1, <2>2, FS_Injection
<1> HIDE DEF m
<1>4. ASSUME NEW i \in 1 .. m
      PROVE  t[i] = i
  <2>1. t[i] \in Nat /\ i \in Nat /\ i <= m /\ 1 <= i /\ t[i] <= n
    BY <1>1
  <2>2. i <= t[i]
    <3> DEFINE f == [j \in 1 .. i |-> t[j]]
    <3>1. \A j \in 1 .. i : j \in 1 .. m /\ t[j] \in 1 .. t[i]
      <4> TAKE j \in 1 .. i
      <4>1. j \in 1 .. m /\ (j = i \/ j < i)
        BY <1>1, <2>1
      <4>2. t[j] \in Nat /\ 1 <= t[j] /\ (j = i \/ t[j] < t[i])
        BY <1>1, <4>1
      <4> QED BY <2>1, <4>1, <4>2
    <3>2. f \in Injection(1 .. i, 1 .. t[i])
      BY <1>2, <3>1 DEF Injection, IsInjective
    <3>3. /\ IsFiniteSet(1 .. i) /\ Cardinality(1 .. i) = i
          /\ IsFiniteSet(1 .. t[i]) /\ Cardinality(1 .. t[i]) = t[i]
      <4>1. i \in Int /\ t[i] \in Int /\ 1 \in Int /\ ~ (1 > i) /\ ~ (1 > t[i])
            /\ i - 1 + 1 = i /\ t[i] - 1 + 1 = t[i]
        BY <1>1, <2>1
      <4> QED BY <4>1, FS_Interval
    <3> HIDE DEF f
    <3> QED BY <3>2, <3>3, FS_Injection
  <2>3. t[i] <= i
    <3> DEFINE f == [j \in i .. m |-> t[j]]
    <3>1. \A j \in i .. m : j \in 1 .. m /\ t[j] \in t[i] .. n
      <4> TAKE j \in i .. m
      <4>1. j \in 1 .. m /\ (j = i \/ i < j)
        BY <1>1, <2>1
      <4>2. t[j] \in Nat /\ t[j] <= n /\ (j = i \/ t[i] < t[j])
        BY <1>1, <4>1
      <4> QED BY <2>1, <4>1, <4>2
    <3>2. f \in Injection(i .. m, t[i] .. n)
      BY <1>2, <3>1 DEF Injection, IsInjective
    <3>3. /\ IsFiniteSet(i .. m) /\ Cardinality(i .. m) = m - i + 1
          /\ IsFiniteSet(t[i] .. n) /\ Cardinality(t[i] .. n) = n - t[i] + 1
      <4>1. i \in Int /\ m \in Int /\ t[i] \in Int /\ n \in Int /\ ~ (i > m) /\ ~ (t[i] > n)
        BY <1>1, <2>1
      <4> QED BY <4>1, FS_Interval
    <3> HIDE DEF f
    <3>4. m - i + 1 <= n - t[i] + 1
      BY <3>2, <3>3, FS_Injection
    <3> QED BY <1>1, <1>3, <2>1, <3>4
  <2> QED BY <2>1, <2>2, <2>3
<1> QED BY <1>1, <1>3, <1>4
-----------------------------------------------------------------------------
(* What has reached the closing sender, when no proof was refused, is all  *)
(* there is.                                                               *)
LEMMA AllArrived ==
  ASSUME Types, Ends, Idle, pc["sender"] # "run", failed \cap {"pow", "server"} = {}
  PROVE  /\ cut = RecipeHead
         /\ \A h \in Holder \ {<<"batch", "sender">>} : Contents[h] = << >>
<1>1. {"keyClient", "encoder", "powClient", "sender"} \subseteq Worker
  BY DEF Worker
<1>2. done["send"] /\ queue["send"] = << >>
  BY <1>1, InOut DEF Ends, Failed
<1>3. /\ pc["powClient"] = "exit" /\ outbox["powClient"] = << >> /\ powBatch = << >>
      /\ done["pow"] /\ queue["pow"] = << >>
  BY <1>1, <1>2, InOut DEF Ends, Failed
<1>4. /\ pc["encoder"] = "exit" /\ outbox["encoder"] = << >>
      /\ done["encode"] /\ queue["encode"] = << >>
  BY <1>1, <1>3, InOut DEF Ends, Failed
<1>5. /\ pc["keyClient"] = "exit" /\ outbox["keyClient"] = << >> /\ keyBatch = << >>
      /\ done["key"] /\ queue["key"] = << >>
  BY <1>1, <1>4, InOut DEF Ends, Failed
<1>6. \A w \in FpThread : /\ outbox[w] = << >>
                          /\ done["fingerprint"] /\ queue["fingerprint"] = << >>
  BY <1>5, InOut DEF Ends, Failed
<1>7. cut = RecipeHead /\ queue["fingerprint"] = << >>
  BY <1>6, PipelineAssumption DEF Ends
<1>8. \A s \in Stage : queue[s] = << >>
  BY <1>2, <1>3, <1>4, <1>5, <1>7 DEF Stage
<1>9. \A w \in Worker : outbox[w] = << >>
  BY <1>3, <1>4, <1>5, <1>6 DEF Worker, Idle
<1>10. \A h \in Holder \ {<<"batch", "sender">>} : Contents[h] = << >>
  <2> TAKE h \in Holder \ {<<"batch", "sender">>}
  <2>1. CASE h \in {"queue"} \X Stage
    <3>1. PICK s \in Stage : h = <<"queue", s>>
      BY <2>1
    <3> QED BY <1>8, <3>1, HoldIs DEF Contents
  <2>2. CASE h \in {"out"} \X Worker
    <3>1. PICK w \in Worker : h = <<"out", w>>
      BY <2>2
    <3> QED BY <1>9, <3>1, HoldIs DEF Contents
  <2>3. CASE h \in {"batch"} \X {"keyClient", "powClient", "sender"}
    <3>1. h = <<"batch", "keyClient">> \/ h = <<"batch", "powClient">>
      BY <2>3
    <3> QED BY <1>3, <1>5, <3>1, HoldIs DEF Contents
  <2> QED BY <2>1, <2>2, <2>3 DEF Holder
<1> QED BY <1>7, <1>10

(* The recipe the sender sends is a right one.                             *)
LEMMA RecipeRight ==
  ASSUME Types, Ends, Idle, Conserved, pc["sender"] = "closing",
         NEW entries \in Sorted(recipeList)
  PROVE  Right(entries, head)
<1> DEFINE g == <<"batch", "sender">>
<1>1. /\ recipeList \in Seq(ChunkID) /\ ChunkID \in SUBSET Nat /\ FileLength \in Nat
      /\ ChunkID = 1 .. FileLength /\ head \in BOOLEAN
  BY Numbers DEF Types, TypeOK, ChunkID
<1>2. /\ entries \in Seq(ChunkID) /\ DOMAIN entries = DOMAIN recipeList
      /\ \A i, j \in DOMAIN entries : i < j => entries[i] <= entries[j]
  BY <1>1, SortedMeans
<1>3. \A j \in DOMAIN recipeList : \E i \in DOMAIN entries : entries[i] = recipeList[j]
  BY <1>1, SortedMeans
<1>4. (\A i, j \in DOMAIN recipeList : recipeList[i] = recipeList[j] => i = j)
         => \A i, j \in DOMAIN entries : entries[i] = entries[j] => i = j
  BY <1>1, SortedMeans
<1>5. g \in Holder /\ Contents[g] = recipeList
  BY HoldIs DEF Contents
<1>6. \A i, j \in DOMAIN recipeList : recipeList[i] = recipeList[j] => i = j
  <2>1. \A i, j \in DOMAIN Contents[g] : Contents[g][i] = Contents[g][j] => i = j
    BY <1>5 DEF Conserved, Once
  <2> HIDE DEF g
  <2> QED BY <1>5, <2>1
<1> HIDE DEF g
<1>7. ASSUME NEW i \in DOMAIN entries, NEW j \in DOMAIN entries, i < j
      PROVE  entries[i] < entries[j]
  <2>1. i # j /\ entries[i] <= entries[j]
    <3>1. i \in Nat /\ j \in Nat
      BY <1>2
    <3> QED BY <1>2, <1>7, <3>1
  <2>2. entries[i] # entries[j]
    BY <1>4, <1>6, <2>1
  <2>3. entries[i] \in Nat /\ entries[j] \in Nat
    <3>1. entries[i] \in ChunkID /\ entries[j] \in ChunkID
      BY <1>2, ElementsOf
    <3> QED BY <1>1, <3>1
  <2> QED BY <2>1, <2>2, <2>3
<1>8. ASSUME "pow" \notin failed
      PROVE  entries = [i \in ChunkID |-> i] /\ head = TRUE
  <2>1. cut = RecipeHead /\ \A h \in Holder \ {g} : Contents[h] = << >>
    BY <1>8, AllArrived DEF g, Ends
  <2>2. \A h \in Holder : h # g => \A i \in DOMAIN Contents[h] : FALSE
    BY <2>1
  <2>3. \A x \in Held(Contents) : \E j \in DOMAIN recipeList : recipeList[j] = x
    <3> TAKE x \in Held(Contents)
    <3>1. PICK h \in Holder : \E i \in DOMAIN Contents[h] : Contents[h][i] = x
      BY DEF Held
    <3>2. h = g
      BY <2>2, <3>1
    <3> QED BY <1>5, <3>1, <3>2
  <2>4. RecipeHead \notin Held(Contents)
    <3>1. \A j \in DOMAIN recipeList : recipeList[j] \in ChunkID
      BY <1>1
    <3> QED BY <2>3, <3>1, Numbers
  <2>5. head = TRUE
    BY <1>1, <2>1, <2>4 DEF Conserved
  <2>6. ChunkID \subseteq Held(Contents)
    <3>1. Missing = {}
      BY <1>8 DEF Conserved
    <3>2. \A x \in ChunkID : x <= cut
      BY <1>1, <2>1 DEF RecipeHead
    <3> QED BY <3>1, <3>2 DEF Missing
  <2>7. \A x \in 1 .. FileLength : \E i \in DOMAIN entries : entries[i] = x
    <3> TAKE x \in 1 .. FileLength
    <3>1. PICK j \in DOMAIN recipeList : recipeList[j] = x
      BY <1>1, <2>3, <2>6
    <3> QED BY <1>3, <3>1
  <2>8. entries \in Seq(1 .. FileLength)
    BY <1>1, <1>2
  <2>9. entries = [i \in 1 .. FileLength |-> i]
    BY <1>1, <1>7, <2>7, <2>8, Counting
  <2> QED BY <1>1, <2>5, <2>9
<1> QED BY <1>7, <1>8 DEF Right

(* What has failed stays so.                                               *)
LEMMA FailedStays ==
  ASSUME [Next]_vars
  PROVE  failed \subseteq failed'
<1>1. failed \subseteq failed'
  <2>1. CASE \/ Cut \/ ChunkerDone \/ TakeForKey \/ ExchangeKeys \/ ExchangeFails
             \/ TakeForPow \/ ProveOwnership \/ AnswerLost \/ ProofFails
             \/ TakeForSend \/ SendChunks
             \/ SendRecipe \/ SendEnd \/ SendFails \/ Serve \/ StoreFails
             \/ UNCHANGED vars
    BY <2>1 DEF Cut, ChunkerDone, TakeForKey, ExchangeKeys, ExchangeFails, TakeForPow,
       ProveOwnership, AnswerLost, HandOn, ProofFails, TakeForSend, SendChunks,
       SendRecipe, SendEnd, SendFails, Serve, StoreFails, vars
  <2>2. ASSUME NEW w \in Worker, NoticeDone(w) \/ Push(w) \/ Relay(w) \/ Finish(w)
        PROVE  failed' = failed
    BY <2>2 DEF NoticeDone, Push, Relay, Finish
  <2> QED BY <2>1, <2>2, Actions
<1> QED BY <1>1

(* A recipe that was right stays so: a refused proof asks less of it.      *)
LEMMA RightKept ==
  ASSUME [Next]_vars, NEW entries, NEW hd, Right(entries, hd)
  PROVE  Right(entries, hd)'
BY FailedStays DEF Right

LEMMA SentNext ==
  ASSUME Types, Ends, Idle, Conserved, Sent, [Next]_vars
  PROVE  Sent'
<1>1. wire \in Seq(Message)
  BY DEF Types
<1>2. ASSUME NEW m \in Message, wire' = Append(wire, m), UNCHANGED <<recipe, failed>>,
             m.kind = "recipe" => Right(m.ids, m.head)
      PROVE  Sent'
  <2>1. \A i \in DOMAIN wire' : (i \in DOMAIN wire /\ wire'[i] = wire[i]) \/ wire'[i] = m
    BY <1>1, <1>2
  <2>2. ASSUME NEW i \in DOMAIN wire', wire'[i].kind = "recipe"
        PROVE  Right(wire'[i].ids, wire'[i].head)
    BY <1>2, <2>1, <2>2 DEF Sent
  <2> QED BY <1>2, <2>2 DEF Sent, Right
<1>3. CASE SendChunks
  <2>1. [kind |-> "chunks", ids |-> sendBatch, head |-> FALSE] \in Message
    BY DEF Message, Types, TypeOK
  <2> QED BY <1>2, <1>3, <2>1 DEF SendChunks, server
<1>4. CASE SendRecipe
  <2>1. PICK entries \in Sorted(recipeList) :
          wire' = Append(wire, [kind |-> "recipe", ids |-> entries, head |-> head])
    BY <1>4 DEF SendRecipe
  <2>2. Right(entries, head)
    BY <1>4, <2>1, RecipeRight DEF SendRecipe
  <2>3. entries \in Seq(ChunkID)
    <3>1. ChunkID \in SUBSET Nat /\ recipeList \in Seq(ChunkID)
      BY Numbers DEF Types, TypeOK
    <3> QED BY <2>1, <3>1, SortedMeans
  <2>4. [kind |-> "recipe", ids |-> entries, head |-> head] \in Message
    BY <2>3 DEF Message, Types, TypeOK
  <2> QED BY <1>2, <1>4, <2>1, <2>2, <2>4 DEF SendRecipe, server
<1>5. CASE Serve
  <2>1. /\ wire # << >> /\ wire' = Tail(wire) /\ failed' = failed
        /\ \/ recipe' = recipe
           \/ wire[1].kind # "chunks" /\ recipe' = [entries |-> wire[1].ids, head |-> wire[1].head]
    BY <1>5 DEF Serve
  <2>2. /\ 1 \in DOMAIN wire /\ wire[1] \in Message
        /\ \A i \in DOMAIN wire' : i + 1 \in DOMAIN wire /\ wire'[i] = wire[i + 1]
    BY <1>1, <2>1
  <2>3. wire[1].kind # "chunks" => wire[1].kind = "recipe"
    BY <2>2 DEF Message
  <2>4. ASSUME NEW i \in DOMAIN wire', wire'[i].kind = "recipe"
        PROVE  Right(wire'[i].ids, wire'[i].head)
    BY <2>2, <2>4 DEF Sent
  <2>5. recipe' # NoRecipe => Right(recipe'.entries, recipe'.head)
    BY <2>1, <2>2, <2>3 DEF Sent
  <2> QED BY <2>1, <2>4, <2>5 DEF Sent, Right
<1>6. ASSUME UNCHANGED <<wire, recipe>>
      PROVE  Sent'
  <2>1. ASSUME NEW i \in DOMAIN wire, wire[i].kind = "recipe"
        PROVE  Right(wire[i].ids, wire[i].head)'
    BY <1>6, <2>1, RightKept DEF Sent, Right
  <2>2. recipe # NoRecipe => Right(recipe.entries, recipe.head)'
    BY <1>6, RightKept DEF Sent, Right
  <2> QED BY <1>6, <2>1, <2>2 DEF Sent
<1>7. CASE \/ Cut \/ ChunkerDone \/ TakeForKey \/ ExchangeKeys \/ ExchangeFails
           \/ TakeForPow \/ ProveOwnership \/ AnswerLost \/ ProofFails
           \/ TakeForSend \/ SendEnd \/ SendFails \/ StoreFails
           \/ UNCHANGED vars
  BY <1>6, <1>7 DEF Cut, ChunkerDone, TakeForKey, ExchangeKeys, ExchangeFails, TakeForPow,
     ProveOwnership, AnswerLost, HandOn, ProofFails, TakeForSend, SendEnd, SendFails,
     StoreFails, server, vars
<1>8. ASSUME NEW w \in Worker, NoticeDone(w) \/ Push(w) \/ Relay(w) \/ Finish(w)
      PROVE  Sent'
  BY <1>6, <1>8 DEF NoticeDone, Push, Relay, Finish, server
<1> QED BY <1>3, <1>4, <1>5, <1>7, <1>8, Actions
-----------------------------------------------------------------------------
LEMMA InitIInv == Init => IInv
<1> SUFFICES ASSUME Init
             PROVE  IInv
  OBVIOUS
<1> USE DEF Init
<1>1. Types
  <2>1. << >> \in Seq(Item) /\ << >> \in Seq(ChunkID) /\ << >> \in Seq(Message) /\ Len(<< >>) = 0
    OBVIOUS
  <2>2. /\ QueueCapacity \in Nat /\ KeyBatch \in Nat /\ PowBatch \in Nat /\ SendBatch \in Nat
        /\ RecipeHead \in Nat /\ Indexed \subseteq Content
    BY Numbers, PipelineAssumption DEF RecipeHead
  <2>3. Cardinality(FpThread) \in Nat
    BY PipelineAssumption, FS_CardinalityType
  <2>4. ThreadTypes
    <3>1. cut \in 0 .. RecipeHead /\ done \in [Stage -> BOOLEAN]
      BY <2>2
    <3>2. pc \in [Worker -> {"run", "last", "closing", "ending", "exit"}]
      OBVIOUS
    <3>3. /\ failed \subseteq {"key", "pow"} /\ head \in BOOLEAN
          /\ needUpload \subseteq ChunkID /\ overlooked \subseteq ChunkID
      OBVIOUS
    <3> QED BY <3>1, <3>2, <3>3 DEF ThreadTypes
  <2>5. QueueTypes
    BY <2>1, <2>2 DEF QueueTypes
  <2>6. BatchTypes /\ ServerTypes
    BY <2>1, <2>2 DEF BatchTypes, ServerTypes
  <2>7. finished \in 0 .. Cardinality(FpThread)
    BY <2>3
  <2> QED BY <2>4, <2>5, <2>6, <2>7, TypeParts
<1>2. Counted
  <2>1. {w \in FpThread : pc[w] # "run"} = {}
    BY InOut
  <2> QED BY <2>1, FS_EmptySet DEF Counted
<1>3. Idle /\ Ends
  <2>1. {"keyClient", "encoder", "powClient", "sender"} \cup FpThread \subseteq Worker
    BY DEF Worker
  <2> QED BY <2>1 DEF Ends, Failed, Idle, Stage
<1>4. Conserved
  <2>1. \A h \in Holder : Contents[h] = << >>
    <3> TAKE h \in Holder
    <3>1. CASE h \in {"queue"} \X Stage
      BY <3>1 DEF Contents, Hold
    <3>2. CASE h \in {"out"} \X Worker
      BY <3>2 DEF Contents, Hold
    <3>3. CASE h \in {"batch"} \X {"keyClient", "powClient", "sender"}
      BY <3>3 DEF Contents, Hold
    <3> QED BY <3>1, <3>2, <3>3 DEF Holder
  <2>2. \A h \in Holder : \A i \in DOMAIN Contents[h] : FALSE
    BY <2>1
  <2>3. Once(Contents) /\ Held(Contents) = {}
    BY <2>2 DEF Once, Held
  <2>4. RecipeHead # 0 /\ Missing = {}
    BY Numbers DEF Missing, ChunkID, RecipeHead
  <2> QED BY <2>3, <2>4 DEF Conserved
<1>5. Sent
  BY DEF Sent
<1> QED BY <1>1, <1>2, <1>3, <1>4, <1>5 DEF IInv

LEMMA NextIInv == IInv /\ [Next]_vars => IInv'
<1> SUFFICES ASSUME Types, Counted, Idle, Ends, Conserved, Sent, [Next]_vars
             PROVE  IInv'
  BY DEF IInv
<1>1. Types'
  BY TypesNext
<1>2. Counted' /\ Idle' /\ Ends' /\ Sent'
  BY CountedNext, IdleNext, EndsNext, SentNext
<1>3. Conserved'
  BY <1>1, ConservedNext
<1> QED BY <1>1, <1>2, <1>3 DEF IInv

(* The inductive invariant holds of every behaviour.                       *)
THEOREM Invariance == Spec => []IInv
BY InitIInv, NextIInv, PTL DEF Spec

(* Every variable keeps its type, a queue its capacity and a batch its     *)
(* buffer, whatever the sizes.                                             *)
THEOREM TypeCorrect == Spec => []TypeOK
<1>1. IInv => TypeOK
  BY DEF IInv, Types
<1> QED BY <1>1, Invariance, PTL

(* However many threads and however small the queues, no done_ flag is set *)
(* before what it speaks of has passed.                                    *)
THEOREM FlagsAreFinal == Spec => []DoneIsFinal
<1>1. IInv => DoneIsFinal
  BY EndsMean DEF IInv
<1> QED BY <1>1, Invariance, PTL

(* A recipe that reaches the server is the file in file order with its     *)
(* head, and after a refused proof still in order.                         *)
THEOREM RecipesComplete == Spec => []RecipeComplete
<1>1. IInv => RecipeComplete
  <2> SUFFICES ASSUME Types, Sent, recipe # NoRecipe
               PROVE  /\ "pow" \notin failed =>
                           recipe = [entries |-> [i \in ChunkID |-> i], head |-> TRUE]
                      /\ \A i, j \in DOMAIN recipe.entries :
                           i < j => recipe.entries[i] < recipe.entries[j]
    BY DEF IInv, RecipeComplete
  <2>1. Right(recipe.entries, recipe.head)
    BY DEF Sent
  <2>2. recipe \in [entries : Seq(ChunkID), head : BOOLEAN]
    BY DEF Types, TypeOK
  <2>3. recipe = [entries |-> recipe.entries, head |-> recipe.head]
    BY <2>2
  <2> QED BY <2>1, <2>3 DEF Right
<1> QED BY <1>1, Invariance, PTL
-----------------------------------------------------------------------------
(* The place an item has at index i of holder h.                           *)
PlaceAt(h, i) == IF h[1] = "queue" THEN <<h[2], i>> ELSE <<h[2], h[1], i>>

(* Places, by the kind of holder.                                          *)
QueuePlaces(x, s) == {<<s, i>> : i \in {j \in DOMAIN queue[s] : queue[s][j] = x}}
OutPlaces(x, w) == {<<w, "out", i>> : i \in {j \in DOMAIN outbox[w] : outbox[w][j] = x}}
BatchPlaces(x, b) ==
  {<<b, "batch", i>> : i \in {j \in DOMAIN Batches[b] : Batches[b][j] = x}}

LEMMA PlacesByHolder ==
  ASSUME NEW x, NEW p
  PROVE  p \in Places(x) <=> \/ \E s \in Stage : p \in QueuePlaces(x, s)
                             \/ \E w \in Worker : p \in OutPlaces(x, w)
                             \/ \E b \in DOMAIN Batches : p \in BatchPlaces(x, b)
<1>1. Places(x) = (UNION {QueuePlaces(x, s) : s \in Stage})
                  \cup (UNION {OutPlaces(x, w) : w \in Worker})
                  \cup (UNION {BatchPlaces(x, b) : b \in DOMAIN Batches})
  BY DEF Places, QueuePlaces, OutPlaces, BatchPlaces
<1> QED BY <1>1

LEMMA PlacesAre ==
  ASSUME NEW x
  PROVE  /\ \A p \in Places(x) : \E h \in Holder : \E i \in DOMAIN Contents[h] :
              Contents[h][i] = x /\ p = PlaceAt(h, i)
         /\ x \in Held(Contents) => Places(x) # {}
<1>1. /\ DOMAIN Batches = {"keyClient", "powClient", "sender"}
      /\ Batches["keyClient"] = keyBatch /\ Batches["powClient"] = powBatch
      /\ Batches["sender"] = recipeList
  BY DEF Batches
<1>2. /\ \A s \in Stage : <<"queue", s>> \in Holder /\ Contents[<<"queue", s>>] = queue[s]
      /\ \A w \in Worker : <<"out", w>> \in Holder /\ Contents[<<"out", w>>] = outbox[w]
  BY HoldIs DEF Contents
<1>3. \A b \in DOMAIN Batches : <<"batch", b>> \in Holder /\ Contents[<<"batch", b>>] = Batches[b]
  BY <1>1, HoldIs DEF Contents
<1>4. ASSUME NEW p \in Places(x)
      PROVE  \E h \in Holder : \E i \in DOMAIN Contents[h] :
               Contents[h][i] = x /\ p = PlaceAt(h, i)
  <2>1. \/ \E s \in Stage : p \in QueuePlaces(x, s)
        \/ \E w \in Worker : p \in OutPlaces(x, w)
        \/ \E b \in DOMAIN Batches : p \in BatchPlaces(x, b)
    BY PlacesByHolder
  <2>2. ASSUME NEW s \in Stage, NEW i \in DOMAIN queue[s], queue[s][i] = x, p = <<s, i>>
        PROVE  \E h \in Holder : \E j \in DOMAIN Contents[h] :
                 Contents[h][j] = x /\ p = PlaceAt(h, j)
    <3>1. /\ <<"queue", s>> \in Holder /\ i \in DOMAIN Contents[<<"queue", s>>]
          /\ Contents[<<"queue", s>>][i] = x /\ p = PlaceAt(<<"queue", s>>, i)
      BY <1>2, <2>2 DEF PlaceAt
    <3> QED BY <3>1
  <2>3. ASSUME NEW w \in Worker, NEW i \in DOMAIN outbox[w], outbox[w][i] = x,
               p = <<w, "out", i>>
        PROVE  \E h \in Holder : \E j \in DOMAIN Contents[h] :
                 Contents[h][j] = x /\ p = PlaceAt(h, j)
    <3>1. /\ <<"out", w>> \in Holder /\ i \in DOMAIN Contents[<<"out", w>>]
          /\ Contents[<<"out", w>>][i] = x /\ p = PlaceAt(<<"out", w>>, i)
      BY <1>2, <2>3 DEF PlaceAt
    <3> QED BY <3>1
  <2>4. ASSUME NEW b \in DOMAIN Batches, NEW i \in DOMAIN Batches[b], Batches[b][i] = x,
               p = <<b, "batch", i>>
        PROVE  \E h \in Holder : \E j \in DOMAIN Contents[h] :
                 Contents[h][j] = x /\ p = PlaceAt(h, j)
    <3>1. /\ <<"batch", b>> \in Holder /\ i \in DOMAIN Contents[<<"batch", b>>]
          /\ Contents[<<"batch", b>>][i] = x /\ p = PlaceAt(<<"batch", b>>, i)
      BY <1>3, <2>4 DEF PlaceAt
    <3> QED BY <3>1
  <2>5. ASSUME NEW s \in Stage, p \in QueuePlaces(x, s)
        PROVE  \E i \in DOMAIN queue[s] : queue[s][i] = x /\ p = <<s, i>>
    BY <2>5 DEF QueuePlaces
  <2>6. ASSUME NEW w \in Worker, p \in OutPlaces(x, w)
        PROVE  \E i \in DOMAIN outbox[w] : outbox[w][i] = x /\ p = <<w, "out", i>>
    BY <2>6 DEF OutPlaces
  <2>7. ASSUME NEW b \in DOMAIN Batches, p \in BatchPlaces(x, b)
        PROVE  \E i \in DOMAIN Batches[b] : Batches[b][i] = x /\ p = <<b, "batch", i>>
    BY <2>7 DEF BatchPlaces
  <2> QED BY <2>1, <2>2, <2>3, <2>4, <2>5, <2>6, <2>7
<1>5. ASSUME x \in Held(Contents)
      PROVE  Places(x) # {}
  <2>1. PICK h \in Holder : \E i \in DOMAIN Contents[h] : Contents[h][i] = x
    BY <1>5 DEF Held
  <2>2. PICK i \in DOMAIN Contents[h] : Contents[h][i] = x
    BY <2>1
  <2>3. CASE h \in {"queue"} \X Stage
    <3>1. PICK s \in Stage : h = <<"queue", s>>
      BY <2>3
    <3>2. i \in DOMAIN queue[s] /\ queue[s][i] = x
      BY <1>2, <2>2, <3>1
    <3>3. <<s, i>> \in QueuePlaces(x, s)
      BY <3>2 DEF QueuePlaces
    <3>4. <<s, i>> \in Places(x)
      BY <3>3, PlacesByHolder
    <3> QED BY <3>4
  <2>4. CASE h \in {"out"} \X Worker
    <3>1. PICK w \in Worker : h = <<"out", w>>
      BY <2>4
    <3>2. i \in DOMAIN outbox[w] /\ outbox[w][i] = x
      BY <1>2, <2>2, <3>1
    <3>3. <<w, "out", i>> \in OutPlaces(x, w)
      BY <3>2 DEF OutPlaces
    <3>4. <<w, "out", i>> \in Places(x)
      BY <3>3, PlacesByHolder
    <3> QED BY <3>4
  <2>5. CASE h \in {"batch"} \X {"keyClient", "powClient", "sender"}
    <3>1. PICK b \in DOMAIN Batches : h = <<"batch", b>>
      BY <1>1, <2>5
    <3>2. i \in DOMAIN Batches[b] /\ Batches[b][i] = x
      BY <1>3, <2>2, <3>1
    <3>3. <<b, "batch", i>> \in BatchPlaces(x, b)
      BY <3>2 DEF BatchPlaces
    <3>4. <<b, "batch", i>> \in Places(x)
      BY <3>3, PlacesByHolder
    <3> QED BY <3>4
  <2> QED BY <2>3, <2>4, <2>5 DEF Holder
<1> QED BY <1>4, <1>5

(* Whatever the threads do, a chunk the chunker has cut is in one place,   *)
(* and only those of one refused batch are in none.                        *)
THEOREM InOnePlace == Spec => []OnePlaceEach
<1>1. IInv => OnePlaceEach
  <2> SUFFICES ASSUME Types, Conserved
               PROVE  OnePlaceEach
    BY DEF IInv
  <2> DEFINE missing == {x \in ChunkID : x <= cut /\ Places(x) = {}}
  <2>1. ASSUME NEW x \in ChunkID
        PROVE  Cardinality(Places(x)) <= (IF x <= cut THEN 1 ELSE 0)
    <3>1. ASSUME NEW p \in Places(x), NEW q \in Places(x)
          PROVE  p = q /\ x <= cut
      <4>1. PICK h \in Holder : \E i \in DOMAIN Contents[h] :
              Contents[h][i] = x /\ p = PlaceAt(h, i)
        BY PlacesAre
      <4>2. PICK i \in DOMAIN Contents[h] : Contents[h][i] = x /\ p = PlaceAt(h, i)
        BY <4>1
      <4>3. PICK g \in Holder : \E j \in DOMAIN Contents[g] :
              Contents[g][j] = x /\ q = PlaceAt(g, j)
        BY PlacesAre
      <4>4. PICK j \in DOMAIN Contents[g] : Contents[g][j] = x /\ q = PlaceAt(g, j)
        BY <4>3
      <4>5. h = g /\ i = j
        BY <4>2, <4>4 DEF Conserved, Once
      <4>6. x \in Held(Contents)
        BY <4>2, Numbers DEF Held
      <4> QED BY <4>2, <4>4, <4>5, <4>6 DEF Conserved
    <3>2. CASE Places(x) = {}
      BY <3>2, FS_EmptySet
    <3>3. CASE Places(x) # {}
      <4>1. PICK p : p \in Places(x)
        BY <3>3
      <4>2. Places(x) = {p} /\ x <= cut
        BY <3>1, <4>1
      <4>3. Cardinality(Places(x)) = 1
        BY <4>2, FS_Singleton
      <4> QED BY <4>2, <4>3
    <3> QED BY <3>2, <3>3
  <2>2. missing \subseteq Missing
    BY PlacesAre DEF Missing
  <2>3. IsFiniteSet(Missing)
    <3>1. IsFiniteSet(ChunkID)
      BY Numbers, FS_Interval DEF ChunkID
    <3> QED BY <3>1, FS_Subset DEF Missing
  <2>4. /\ Cardinality(missing) <= Cardinality(Missing)
        /\ Cardinality(missing) \in Nat /\ Cardinality(Missing) \in Nat
    BY <2>2, <2>3, FS_Subset, FS_CardinalityType
  <2>5. Cardinality(missing) <= (IF "pow" \in failed THEN PowBatch ELSE 0)
    <3>1. CASE "pow" \in failed
      BY <2>4, <3>1, Numbers DEF Conserved
    <3>2. CASE "pow" \notin failed
      <4>1. missing = {}
        BY <2>2, <3>2 DEF Conserved
      <4> QED BY <3>2, <4>1, FS_EmptySet
    <3> QED BY <3>1, <3>2
  <2> QED BY <2>1, <2>5 DEF OnePlaceEach
<1> QED BY <1>1, Invariance, PTL
-----------------------------------------------------------------------------
(* What becomes of a chunk behind its proof of ownership: it is marked, or *)
(* the server has its content, or it is overlooked; and a marked chunk is  *)
(* in the sender's batch or on its way when it is in the recipe.           *)
Elements(s) == {s[i] : i \in DOMAIN s}
Proven == ChunkID \cap (Elements(queue["send"]) \cup Elements(outbox["powClient"])
                        \cup Elements(recipeList))
Settled(x) == ContentOf[x] \in stored \/ x \in overlooked
OnWire(x) == \E j \in DOMAIN wire : wire[j].kind = "chunks" /\ x \in Elements(wire[j].ids)
Before(x, n) == \E j \in DOMAIN wire :
                  j < n /\ wire[j].kind = "chunks" /\ x \in Elements(wire[j].ids)

Answered == \A x \in Proven : x \in needUpload \/ Settled(x)
Shipped == \A x \in Elements(recipeList) :
             Settled(x) \/ x \in Elements(sendBatch) \/ OnWire(x)
Preceded == \A j \in DOMAIN wire : wire[j].kind = "recipe" =>
              \A x \in Elements(wire[j].ids) : Settled(x) \/ Before(x, j)
Arrived == recipe # NoRecipe => \A x \in Elements(recipe.entries) : Settled(x)
LastSent == pc["sender"] \in {"closing", "ending"} => sendBatch = << >>
Listed == /\ Elements(sendBatch) \subseteq Elements(recipeList)
          /\ \A j \in DOMAIN wire :
               wire[j].kind = "chunks" => Elements(wire[j].ids) \subseteq Elements(recipeList)

(* What the server has it had, or it is of a chunk whose proof is over; so *)
(* a batch with as many known chunks has as many more chunks than new      *)
(* contents, and no more are overlooked than are known.                    *)
ContentsOf(S) == {ContentOf[x] : x \in S}
NewOf(S) == ContentsOf(S) \ Indexed
FromHere == stored \subseteq Indexed \cup ContentsOf(Proven)
Outnumbered ==
  "answer" \notin failed =>
    Cardinality(overlooked) + Cardinality(NewOf(Proven)) <= Cardinality(Proven)

SentInv == /\ Answered /\ Shipped /\ Preceded /\ Arrived /\ LastSent /\ Listed
           /\ FromHere /\ Outnumbered

shipment == <<queue["send"], outbox["powClient"], recipeList, needUpload, stored, overlooked,
              sendBatch, wire, recipe, pc["sender"]>>

LEMMA ElementsFacts ==
  ASSUME NEW S, NEW s \in Seq(S)
  PROVE  /\ Elements(s) \subseteq S
         /\ \A x \in S : Elements(Append(s, x)) = Elements(s) \cup {x}
         /\ s # << >> => /\ s[1] \in S /\ Tail(s) \in Seq(S)
                         /\ Elements(s) = {s[1]} \cup Elements(Tail(s))
<1>1. /\ Len(s) \in Nat /\ DOMAIN s = 1 .. Len(s) /\ \A i \in 1 .. Len(s) : s[i] \in S
  OBVIOUS
<1>2. Elements(s) \subseteq S
  BY <1>1 DEF Elements
<1>3. ASSUME NEW x \in S PROVE Elements(Append(s, x)) = Elements(s) \cup {x}
  <2>1. /\ DOMAIN Append(s, x) = 1 .. Len(s) + 1 /\ Append(s, x)[Len(s) + 1] = x
        /\ \A i \in 1 .. Len(s) : Append(s, x)[i] = s[i]
    BY <1>1
  <2>2. 1 .. Len(s) + 1 = (1 .. Len(s)) \cup {Len(s) + 1}
    BY <1>1
  <2> QED BY <1>1, <2>1, <2>2 DEF Elements
<1>4. ASSUME s # << >>
      PROVE  s[1] \in S /\ Tail(s) \in Seq(S) /\ Elements(s) = {s[1]} \cup Elements(Tail(s))
  <2>1. 1 \in 1 .. Len(s) /\ Tail(s) \in Seq(S) /\ DOMAIN Tail(s) = 1 .. Len(s) - 1
    BY <1>1, <1>4
  <2>2. \A i \in 1 .. Len(s) - 1 : Tail(s)[i] = s[i + 1] /\ i + 1 \in 1 .. Len(s)
    BY <1>1, <1>4
  <2>3. \A i \in 1 .. Len(s) : i = 1 \/ (i - 1 \in 1 .. Len(s) - 1 /\ (i - 1) + 1 = i)
    BY <1>1
  <2>4. \A i \in 1 .. Len(s) : i = 1 \/ (i - 1 \in DOMAIN Tail(s) /\ s[i] = Tail(s)[i - 1])
    BY <2>1, <2>2, <2>3
  <2>5. ASSUME NEW x \in Elements(s) PROVE x \in {s[1]} \cup Elements(Tail(s))
    <3>1. PICK i \in DOMAIN s : x = s[i]
      BY DEF Elements
    <3>2. i = 1 \/ (i - 1 \in DOMAIN Tail(s) /\ s[i] = Tail(s)[i - 1])
      BY <1>1, <2>4, <3>1
    <3>3. \A j \in DOMAIN Tail(s) : Tail(s)[j] \in Elements(Tail(s))
      BY DEF Elements
    <3> QED BY <3>1, <3>2, <3>3
  <2>6. ASSUME NEW x \in {s[1]} \cup Elements(Tail(s)) PROVE x \in Elements(s)
    BY <1>1, <2>1, <2>2 DEF Elements
  <2>7. s[1] \in S
    BY <1>1, <2>1
  <2> QED BY <2>1, <2>5, <2>6, <2>7
<1> QED BY <1>2, <1>3, <1>4

LEMMA ElementsOfShort ==
  Elements(<< >>) = {} /\ \A x : Elements(<<x>>) = {x}
<1>1. DOMAIN << >> = {} /\ \A x : DOMAIN <<x>> = {1} /\ <<x>>[1] = x
  OBVIOUS
<1> QED BY <1>1 DEF Elements

(* The steps by which a chunk behind its proof, or what is known of it,    *)
(* changes.                                                                *)
LEMMA ShipmentSteps ==
  ASSUME Types, [Next]_vars
  PROVE  \/ UNCHANGED shipment \/ Push("powClient") \/ Relay("powClient")
         \/ ProveOwnership \/ AnswerLost
         \/ TakeForSend \/ SendChunks \/ SendRecipe \/ SendEnd \/ SendFails
         \/ Serve \/ StoreFails \/ NoticeDone("sender")
<1>1. /\ queue \in [Stage -> Seq(Item)] /\ outbox \in [Worker -> Seq(Item)]
      /\ pc \in [Worker -> {"run", "last", "closing", "ending", "exit"}]
      /\ done \in [Stage -> BOOLEAN]
  BY DEF Types, TypeOK
<1>2. /\ {"keyClient", "encoder", "powClient", "sender"} \subseteq Worker
      /\ {"fingerprint", "key", "encode", "pow", "send"} = Stage
      /\ \A w \in Worker : w \in FpThread \/ w \in {"keyClient", "encoder", "powClient", "sender"}
  BY DEF Worker, Stage
<1>3. \A w \in Worker \ {"sender"} :
        /\ Out[w] \in Stage /\ In[w] \in Stage \ {"send"}
        /\ w # "powClient" => Out[w] # "send"
  BY <1>2, InOut
<1>4. CASE Cut \/ ChunkerDone
  BY <1>1, <1>2, <1>4 DEF Cut, ChunkerDone, Insert, shipment, client, server
<1>5. CASE TakeForKey \/ TakeForPow
  BY <1>1, <1>2, <1>3, <1>5, InOut DEF TakeForKey, TakeForPow, Extract, shipment, server
<1>6. CASE ExchangeKeys \/ ExchangeFails \/ ProofFails
  BY <1>1, <1>2, <1>6 DEF ExchangeKeys, ExchangeFails, ProofFails, shipment, client, server
<1>7. ASSUME NEW w \in Worker \ {"sender"}, w # "powClient", Push(w)
      PROVE  UNCHANGED shipment
  BY <1>1, <1>2, <1>3, <1>7 DEF Push, Insert, shipment, client, server
<1>8. ASSUME NEW w \in Worker \ {"sender"}, w # "powClient", Relay(w)
      PROVE  UNCHANGED shipment
  BY <1>1, <1>2, <1>3, <1>8 DEF Relay, Extract, shipment, client, server
<1>9. ASSUME NEW w \in Worker \ {"sender"}, Finish(w)
      PROVE  UNCHANGED shipment
  BY <1>1, <1>2, <1>9 DEF Finish, shipment, client, server
<1>10. ASSUME NEW w \in Worker, w # "sender", NoticeDone(w)
      PROVE  UNCHANGED shipment
  BY <1>1, <1>2, <1>10 DEF NoticeDone, shipment, client, server
<1>11. CASE UNCHANGED vars
  BY <1>11 DEF vars, shipment, client, server
<1> QED BY <1>4, <1>5, <1>6, <1>7, <1>8, <1>9, <1>10, <1>11, Actions

(* What the sender and powClient hold, in sets.                            *)
LEMMA ShipmentTypes ==
  ASSUME Types
  PROVE  /\ queue["send"] \in Seq(Item) /\ outbox["powClient"] \in Seq(Item)
         /\ recipeList \in Seq(ChunkID) /\ recipeList \in Seq(Item)
         /\ sendBatch \in Seq(ChunkID) /\ powBatch \in Seq(ChunkID)
         /\ wire \in Seq(Message) /\ Len(wire) \in Nat
         /\ \A j \in DOMAIN wire : /\ j \in Nat /\ j <= Len(wire)
                                   /\ wire[j].ids \in Seq(ChunkID)
                                   /\ wire[j].kind \in {"chunks", "recipe"}
         /\ ChunkID \subseteq Item
         /\ queue \in [Stage -> Seq(Item)] /\ outbox \in [Worker -> Seq(Item)]
         /\ pc \in [Worker -> {"run", "last", "closing", "ending", "exit"}]
         /\ {"send", "pow"} \subseteq Stage /\ {"powClient", "sender"} \subseteq Worker
<1>1. {"send", "pow"} \subseteq Stage /\ {"powClient", "sender"} \subseteq Worker
  BY DEF Stage, Worker
<1>2. ChunkID \subseteq Item
  BY Numbers
<1>3. recipeList \in Seq(ChunkID) /\ wire \in Seq(Message)
  BY DEF Types, TypeOK
<1>4. \A s \in Seq(ChunkID) : s \in Seq(Item)
  BY <1>2
<1>5. \A j \in DOMAIN wire : j \in Nat /\ j <= Len(wire) /\ wire[j] \in Message
  BY <1>3
<1>6. /\ queue["send"] \in Seq(Item) /\ outbox["powClient"] \in Seq(Item)
      /\ queue \in [Stage -> Seq(Item)] /\ outbox \in [Worker -> Seq(Item)]
      /\ sendBatch \in Seq(ChunkID) /\ powBatch \in Seq(ChunkID)
      /\ pc \in [Worker -> {"run", "last", "closing", "ending", "exit"}]
  BY <1>1 DEF Types, TypeOK
<1>7. \A j \in DOMAIN wire : wire[j].ids \in Seq(ChunkID) /\ wire[j].kind \in {"chunks", "recipe"}
  BY <1>5 DEF Message
<1>8. recipeList \in Seq(Item) /\ Len(wire) \in Nat
  BY <1>3, <1>4
<1> QED BY <1>1, <1>2, <1>3, <1>5, <1>6, <1>7, <1>8

(* What a proof of ownership does with the chunks of its batch.            *)
LEMMA ProvenByBatch ==
  ASSUME Types, Conserved, ProveOwnership \/ AnswerLost
  PROVE  /\ Proven' = Proven \cup Elements(powBatch)
         /\ Proven \cap Elements(powBatch) = {}
         /\ \A i, j \in DOMAIN powBatch : powBatch[i] = powBatch[j] => i = j
<1>1. /\ outbox["powClient"] = << >> /\ outbox'["powClient"] = powBatch
      /\ queue' = queue /\ recipeList' = recipeList
  BY ShipmentTypes DEF ProveOwnership, AnswerLost, HandOn, PowBatchDue
<1>2. Elements(powBatch) \subseteq ChunkID
  BY ShipmentTypes, ElementsFacts
<1>3. Proven' = Proven \cup Elements(powBatch)
  BY <1>1, <1>2, ElementsOfShort DEF Proven
<1>4. /\ <<"batch", "powClient">> \in Holder /\ Contents[<<"batch", "powClient">>] = powBatch
      /\ <<"queue", "send">> \in Holder /\ Contents[<<"queue", "send">>] = queue["send"]
      /\ <<"batch", "sender">> \in Holder /\ Contents[<<"batch", "sender">>] = recipeList
  BY HoldIs, ShipmentTypes DEF Contents
<1>5. /\ <<"batch", "powClient">> # <<"queue", "send">>
      /\ <<"batch", "powClient">> # <<"batch", "sender">>
  OBVIOUS
<1>6. \A g \in Holder : \A i \in DOMAIN powBatch, j \in DOMAIN Contents[g] :
        powBatch[i] = Contents[g][j] => g = <<"batch", "powClient">> /\ i = j
  BY <1>4 DEF Conserved, Once
<1>7. \A i, j \in DOMAIN powBatch : powBatch[i] = powBatch[j] => i = j
  BY <1>4, <1>6
<1>8. /\ Elements(powBatch) \cap Elements(queue["send"]) = {}
      /\ Elements(powBatch) \cap Elements(recipeList) = {}
  BY <1>4, <1>5, <1>6 DEF Elements
<1>9. Proven \cap Elements(powBatch) = {}
  BY <1>1, <1>8, ElementsOfShort DEF Proven
<1> QED BY <1>3, <1>7, <1>9

LEMMA ProvenKept ==
  ASSUME Types, [Next]_vars, ~ (ProveOwnership \/ AnswerLost)
  PROVE  Proven' = Proven
<1>0. RecipeHead \notin ChunkID /\ RecipeHead \in Item
  BY Numbers
<1>1. CASE UNCHANGED shipment
  BY <1>1 DEF shipment, Proven
<1>2. CASE Push("powClient")
  <2>1. /\ outbox["powClient"] # << >> /\ recipeList' = recipeList
        /\ outbox'["powClient"] = Tail(outbox["powClient"])
        /\ queue'["send"] = Append(queue["send"], outbox["powClient"][1])
    BY <1>2, ShipmentTypes, InOut DEF Push, Insert, client
  <2>2. /\ outbox["powClient"][1] \in Item
        /\ Elements(outbox["powClient"])
             = {outbox["powClient"][1]} \cup Elements(Tail(outbox["powClient"]))
    BY <2>1, ShipmentTypes, ElementsFacts
  <2>3. Elements(queue'["send"]) = Elements(queue["send"]) \cup {outbox["powClient"][1]}
    BY <2>1, <2>2, ShipmentTypes, ElementsFacts
  <2> QED BY <2>1, <2>2, <2>3 DEF Proven
<1>3. CASE Relay("powClient")
  <2>1. "powClient" \notin FpThread \cup {"encoder"}
    BY PipelineAssumption
  <2>2. /\ outbox["powClient"] = << >> /\ recipeList' = recipeList
        /\ outbox'["powClient"] = <<RecipeHead>>
        /\ queue'["send"] = queue["send"]
    BY <1>3, <2>1, ShipmentTypes, InOut DEF Relay, Extract, AtTop, client
  <2> QED BY <1>0, <2>2, ElementsOfShort DEF Proven
<1>4. CASE TakeForSend
  <2>1. /\ queue["send"] # << >> /\ queue'["send"] = Tail(queue["send"]) /\ outbox' = outbox
        /\ IF queue["send"][1] = RecipeHead THEN recipeList' = recipeList
           ELSE recipeList' = Append(recipeList, queue["send"][1])
    BY <1>4, ShipmentTypes, InOut DEF TakeForSend, Extract
  <2>2. /\ queue["send"][1] \in Item
        /\ Elements(queue["send"]) = {queue["send"][1]} \cup Elements(Tail(queue["send"]))
    BY <2>1, ShipmentTypes, ElementsFacts
  <2>3. CASE queue["send"][1] = RecipeHead
    BY <1>0, <2>1, <2>2, <2>3 DEF Proven
  <2>4. CASE queue["send"][1] # RecipeHead
    <3>1. Elements(recipeList') = Elements(recipeList) \cup {queue["send"][1]}
      <4>1. recipeList \in Seq(Item) /\ queue["send"][1] \in Item
        BY <2>2, ShipmentTypes
      <4>2. Elements(Append(recipeList, queue["send"][1]))
              = Elements(recipeList) \cup {queue["send"][1]}
        BY <4>1, ElementsFacts
      <4> QED BY <2>1, <2>4, <4>2
    <3> QED BY <2>1, <2>2, <3>1 DEF Proven
  <2> QED BY <2>3, <2>4
<1>5. CASE SendChunks \/ SendRecipe \/ SendEnd \/ SendFails \/ Serve
           \/ StoreFails \/ NoticeDone("sender")
  BY <1>5 DEF SendChunks, SendRecipe, SendEnd, SendFails, Serve, StoreFails, NoticeDone,
     client, Proven
<1> QED BY <1>1, <1>2, <1>3, <1>4, <1>5, ShipmentSteps
-----------------------------------------------------------------------------
(* Nothing that is known of a chunk is forgotten.                          *)
LEMMA SettledStays ==
  ASSUME Types, [Next]_vars
  PROVE  /\ stored \subseteq stored' /\ overlooked \subseteq overlooked'
         /\ needUpload \subseteq needUpload'
         /\ \A x : Settled(x) => Settled(x)'
<1>1. stored \subseteq stored' /\ overlooked \subseteq overlooked' /\ needUpload \subseteq needUpload'
  <2>1. CASE UNCHANGED shipment
    BY <2>1 DEF shipment
  <2>2. CASE ProveOwnership \/ AnswerLost
    BY <2>2 DEF ProveOwnership, AnswerLost, HandOn
  <2>3. CASE Serve \/ StoreFails
    BY <2>3 DEF Serve, StoreFails, client
  <2>4. CASE \/ Push("powClient") \/ Relay("powClient") \/ TakeForSend \/ SendChunks
             \/ SendRecipe \/ SendEnd \/ SendFails \/ NoticeDone("sender")
    BY <2>4 DEF Push, Relay, TakeForSend, SendChunks, SendRecipe, SendEnd, SendFails,
       NoticeDone, client, server
  <2> QED BY <2>1, <2>2, <2>3, <2>4, ShipmentSteps
<1> QED BY <1>1 DEF Settled

(* What only the sender and the server change.                             *)
LEMMA SenderOnly ==
  ASSUME Types, [Next]_vars, ~ TakeForSend, ~ SendChunks, ~ SendRecipe, ~ Serve
  PROVE  UNCHANGED <<recipeList, sendBatch, wire, recipe>> /\ (stored' = stored \/ StoreFails)
<1>1. CASE UNCHANGED shipment
  BY <1>1 DEF shipment
<1>2. CASE \/ Push("powClient") \/ Relay("powClient") \/ ProveOwnership \/ AnswerLost
           \/ SendEnd \/ SendFails \/ StoreFails \/ NoticeDone("sender")
  BY <1>2 DEF Push, Relay, ProveOwnership, AnswerLost, HandOn, SendEnd, SendFails,
     StoreFails, NoticeDone, client, server
<1> QED BY <1>1, <1>2, ShipmentSteps

LEMMA AnsweredNext ==
  ASSUME Types, Conserved, Answered, [Next]_vars
  PROVE  Answered'
<1>1. ASSUME NEW x \in Proven PROVE x \in needUpload' \/ Settled(x)'
  BY <1>1, SettledStays DEF Answered
<1>2. CASE ProveOwnership \/ AnswerLost
  <2>1. Proven' = Proven \cup Elements(powBatch)
    BY <1>2, ProvenByBatch
  <2>2. ASSUME NEW x \in Elements(powBatch) PROVE x \in needUpload' \/ Settled(x)'
    <3>1. PICK i \in DOMAIN powBatch : x = powBatch[i]
      BY DEF Elements
    <3>2. CASE ContentOf[x] \in stored
      BY <3>2, SettledStays DEF Settled
    <3>3. CASE ContentOf[x] \notin stored
      <4>1. i \in DedupByHash(powBatch)
        BY <3>1, <3>3 DEF DedupByHash
      <4>2. overlooked' = overlooked \cup
              ({powBatch[k] : k \in DedupByHash(powBatch)} \ needUpload')
        BY <1>2 DEF ProveOwnership, AnswerLost, HandOn
      <4> QED BY <3>1, <4>1, <4>2 DEF Settled
    <3> QED BY <3>2, <3>3
  <2> QED BY <1>1, <2>1, <2>2 DEF Answered
<1>3. CASE ~ (ProveOwnership \/ AnswerLost)
  BY <1>1, <1>3, ProvenKept DEF Answered
<1> QED BY <1>2, <1>3

(* A message added, and the first one taken.                               *)
LEMMA WireAppended ==
  ASSUME Types, NEW m \in Message, wire' = Append(wire, m)
  PROVE  /\ DOMAIN wire' = 1 .. Len(wire) + 1 /\ wire'[Len(wire) + 1] = m
         /\ \A j \in DOMAIN wire : j \in DOMAIN wire' /\ wire'[j] = wire[j]
         /\ \A j \in DOMAIN wire' : j \in DOMAIN wire \/ j = Len(wire) + 1
         /\ Len(wire') = Len(wire) + 1
         /\ \A x : OnWire(x) => OnWire(x)' /\ \A n : n = Len(wire) + 1 => Before(x, n)'
         /\ \A x, n : Before(x, n) => Before(x, n)'
<1>1. wire \in Seq(Message) /\ Len(wire) \in Nat /\ DOMAIN wire = 1 .. Len(wire)
  BY DEF Types
<1>2. /\ DOMAIN wire' = 1 .. Len(wire) + 1 /\ wire'[Len(wire) + 1] = m
      /\ \A j \in DOMAIN wire : j \in DOMAIN wire' /\ wire'[j] = wire[j]
      /\ \A j \in DOMAIN wire' : j \in DOMAIN wire \/ j = Len(wire) + 1
      /\ Len(wire') = Len(wire) + 1
  BY <1>1
<1>3. ASSUME NEW x, NEW n, Before(x, n) PROVE Before(x, n)'
  BY <1>2, <1>3 DEF Before
<1>4. ASSUME NEW x, OnWire(x) PROVE OnWire(x)' /\ \A n : n = Len(wire) + 1 => Before(x, n)'
  <2>1. PICK j \in DOMAIN wire : wire[j].kind = "chunks" /\ x \in Elements(wire[j].ids)
    BY <1>4 DEF OnWire
  <2>2. j < Len(wire) + 1 /\ j \in DOMAIN wire' /\ wire'[j] = wire[j]
    BY <1>1, <1>2
  <2> QED BY <2>1, <2>2 DEF OnWire, Before
<1> QED BY <1>2, <1>3, <1>4

LEMMA WireServed ==
  ASSUME Types, Serve
  PROVE  /\ 1 \in DOMAIN wire
         /\ \A j \in DOMAIN wire' :
              j \in Nat /\ j + 1 \in DOMAIN wire /\ wire'[j] = wire[j + 1]
         /\ Len(wire) \in Nat /\ Len(wire') + 1 = Len(wire)
         /\ \A x : OnWire(x) => Settled(x)' \/ OnWire(x)'
         /\ \A n \in Nat : \A x : Before(x, n + 1) => Settled(x)' \/ Before(x, n)'
<1>1. /\ wire \in Seq(Message) /\ Len(wire) \in Nat /\ DOMAIN wire = 1 .. Len(wire)
      /\ wire # << >> /\ wire' = Tail(wire)
  BY DEF Types, Serve
<1>2. /\ 1 \in DOMAIN wire
      /\ \A j \in DOMAIN wire' :
           j \in Nat /\ j + 1 \in DOMAIN wire /\ wire'[j] = wire[j + 1]
      /\ Len(wire') + 1 = Len(wire)
      /\ \A j \in DOMAIN wire : j = 1 \/ (j - 1 \in DOMAIN wire' /\ wire'[j - 1] = wire[j])
  BY <1>1
<1>3. ASSUME NEW x, NEW j \in DOMAIN wire, wire[j].kind = "chunks", x \in Elements(wire[j].ids)
      PROVE  \/ Settled(x)'
             \/ j - 1 \in DOMAIN wire' /\ wire'[j - 1] = wire[j]
  <2>1. CASE j = 1
    <3>1. stored' = stored \cup {ContentOf[wire[1].ids[i]] : i \in DOMAIN wire[1].ids}
      BY <1>3, <2>1 DEF Serve
    <3>2. PICK i \in DOMAIN wire[1].ids : x = wire[1].ids[i]
      BY <1>3, <2>1 DEF Elements
    <3> QED BY <3>1, <3>2 DEF Settled
  <2>2. CASE j # 1
    BY <1>2, <2>2
  <2> QED BY <2>1, <2>2
<1>4. ASSUME NEW x, OnWire(x) PROVE Settled(x)' \/ OnWire(x)'
  BY <1>3, <1>4 DEF OnWire
<1>5. ASSUME NEW n \in Nat, NEW x, Before(x, n + 1)
      PROVE  Settled(x)' \/ Before(x, n)'
  <2>1. PICK j \in DOMAIN wire :
          j < n + 1 /\ wire[j].kind = "chunks" /\ x \in Elements(wire[j].ids)
    BY <1>5 DEF Before
  <2>2. j - 1 < n
    BY <1>1, <2>1
  <2> QED BY <1>3, <2>1, <2>2 DEF Before
<1> QED BY <1>1, <1>2, <1>4, <1>5

(* The messages the sender adds.                                           *)
LEMMA SenderMessages ==
  ASSUME Types
  PROVE  /\ SendChunks =>
              /\ [kind |-> "chunks", ids |-> sendBatch, head |-> FALSE] \in Message
              /\ wire' = Append(wire, [kind |-> "chunks", ids |-> sendBatch, head |-> FALSE])
              /\ sendBatch' = << >> /\ UNCHANGED <<recipeList, stored, overlooked, recipe>>
         /\ SendRecipe => \E entries \in Seq(ChunkID) :
              /\ Elements(entries) \subseteq Elements(recipeList)
              /\ [kind |-> "recipe", ids |-> entries, head |-> head] \in Message
              /\ wire' = Append(wire, [kind |-> "recipe", ids |-> entries, head |-> head])
              /\ pc["sender"] = "closing"
              /\ UNCHANGED <<sendBatch, recipeList, stored, overlooked, recipe>>
<1>1. head \in BOOLEAN /\ sendBatch \in Seq(ChunkID) /\ recipeList \in Seq(ChunkID)
  BY DEF Types, TypeOK
<1>2. ASSUME SendChunks
      PROVE  /\ [kind |-> "chunks", ids |-> sendBatch, head |-> FALSE] \in Message
             /\ wire' = Append(wire, [kind |-> "chunks", ids |-> sendBatch, head |-> FALSE])
             /\ sendBatch' = << >> /\ UNCHANGED <<recipeList, stored, overlooked, recipe>>
  BY <1>1, <1>2 DEF SendChunks, Message, server
<1>3. ASSUME SendRecipe
      PROVE  \E entries \in Seq(ChunkID) :
               /\ Elements(entries) \subseteq Elements(recipeList)
               /\ [kind |-> "recipe", ids |-> entries, head |-> head] \in Message
               /\ wire' = Append(wire, [kind |-> "recipe", ids |-> entries, head |-> head])
               /\ pc["sender"] = "closing"
               /\ UNCHANGED <<sendBatch, recipeList, stored, overlooked, recipe>>
  <2>1. PICK entries \in Sorted(recipeList) :
          wire' = Append(wire, [kind |-> "recipe", ids |-> entries, head |-> head])
    BY <1>3 DEF SendRecipe
  <2>2. ChunkID \in SUBSET Nat
    BY Numbers
  <2>3. /\ entries \in Seq(ChunkID)
        /\ \A i \in DOMAIN entries : \E j \in DOMAIN recipeList : entries[i] = recipeList[j]
    BY <1>1, <2>2, SortedMeans
  <2>4. Elements(entries) \subseteq Elements(recipeList)
    BY <2>3 DEF Elements
  <2>5. [kind |-> "recipe", ids |-> entries, head |-> head] \in Message
    BY <1>1, <2>3 DEF Message
  <2>6. pc["sender"] = "closing" /\ UNCHANGED <<sendBatch, recipeList, stored, overlooked, recipe>>
    BY <1>3 DEF SendRecipe, client, server
  <2> QED BY <2>1, <2>3, <2>4, <2>5, <2>6
<1> QED BY <1>2, <1>3

(* The sender takes the recipe head or a chunk.                            *)
LEMMA SenderTakes ==
  ASSUME Types, TakeForSend
  PROVE  /\ pc["sender"] = "run" /\ pc' = pc
         /\ UNCHANGED <<wire, recipe, stored, overlooked>>
         /\ \/ UNCHANGED <<sendBatch, recipeList>>
            \/ \E x \in Proven :
                 /\ Elements(recipeList') = Elements(recipeList) \cup {x}
                 /\ Elements(sendBatch')
                      = Elements(sendBatch) \cup (IF x \in needUpload THEN {x} ELSE {})
<1>1. /\ queue["send"] # << >> /\ pc["sender"] = "run" /\ pc' = pc
      /\ UNCHANGED <<wire, recipe, stored, overlooked>>
  BY InOut DEF TakeForSend, Extract, server
<1>2. CASE queue["send"][1] = RecipeHead
  BY <1>1, <1>2 DEF TakeForSend
<1>3. CASE queue["send"][1] # RecipeHead
  <2> DEFINE x == queue["send"][1]
  <2>1. x \in Item /\ x \in Elements(queue["send"])
    BY <1>1, ShipmentTypes, ElementsFacts
  <2>2. x \in ChunkID /\ x \in Proven
    BY <1>3, <2>1, Numbers DEF Proven
  <2>3. /\ recipeList' = Append(recipeList, x)
        /\ sendBatch' = IF x \in needUpload THEN Append(sendBatch, x) ELSE sendBatch
    BY <1>3 DEF TakeForSend
  <2> HIDE DEF x
  <2>4. recipeList \in Seq(ChunkID) /\ sendBatch \in Seq(ChunkID)
    BY ShipmentTypes
  <2>5. Elements(Append(recipeList, x)) = Elements(recipeList) \cup {x}
    BY <2>2, <2>4, ElementsFacts
  <2>6. Elements(Append(sendBatch, x)) = Elements(sendBatch) \cup {x}
    BY <2>2, <2>4, ElementsFacts
  <2> QED BY <1>1, <2>2, <2>3, <2>5, <2>6
<1> QED BY <1>2, <1>3

LEMMA ShippedNext ==
  ASSUME Types, Answered, Shipped, [Next]_vars
  PROVE  Shipped'
<1>1. \A x : Settled(x) => Settled(x)'
  BY SettledStays
<1>2. CASE TakeForSend
  <2>1. wire' = wire
    BY <1>2, SenderTakes
  <2>2. \A x : OnWire(x) => OnWire(x)'
    BY <2>1 DEF OnWire
  <2>3. CASE UNCHANGED <<sendBatch, recipeList>>
    BY <1>1, <2>2, <2>3 DEF Shipped
  <2>4. ASSUME NEW y \in Proven,
               Elements(recipeList') = Elements(recipeList) \cup {y},
               Elements(sendBatch')
                 = Elements(sendBatch) \cup (IF y \in needUpload THEN {y} ELSE {})
        PROVE  Shipped'
    <3>1. Settled(y)' \/ y \in Elements(sendBatch')
      BY <1>1, <2>4 DEF Answered
    <3>2. ASSUME NEW x \in Elements(recipeList)
          PROVE  Settled(x)' \/ x \in Elements(sendBatch') \/ OnWire(x)'
      BY <1>1, <2>2, <2>4, <3>2 DEF Shipped
    <3> QED BY <2>4, <3>1, <3>2 DEF Shipped
  <2> QED BY <1>2, <2>3, <2>4, SenderTakes
<1>3. CASE SendChunks
  <2> DEFINE m == [kind |-> "chunks", ids |-> sendBatch, head |-> FALSE]
  <2>1. m \in Message /\ wire' = Append(wire, m) /\ recipeList' = recipeList
    BY <1>3, SenderMessages
  <2>2. /\ Len(wire) + 1 \in DOMAIN wire' /\ wire'[Len(wire) + 1] = m
        /\ \A x : OnWire(x) => OnWire(x)'
    <3>1. Len(wire) + 1 \in 1 .. Len(wire) + 1
      BY ShipmentTypes
    <3> HIDE DEF m
    <3> QED BY <2>1, <3>1, WireAppended
  <2>3. ASSUME NEW x \in Elements(sendBatch) PROVE OnWire(x)'
    BY <2>2 DEF OnWire
  <2> QED BY <1>1, <2>1, <2>2, <2>3 DEF Shipped
<1>4. CASE SendRecipe
  <2>1. PICK m \in Message : wire' = Append(wire, m) /\ UNCHANGED <<recipeList, sendBatch>>
    BY <1>4, SenderMessages
  <2> QED BY <1>1, <2>1, WireAppended DEF Shipped
<1>5. CASE Serve
  <2>1. UNCHANGED <<recipeList, sendBatch>>
    BY <1>5 DEF Serve, client
  <2> QED BY <1>1, <1>5, <2>1, WireServed DEF Shipped
<1>6. CASE ~ TakeForSend /\ ~ SendChunks /\ ~ SendRecipe /\ ~ Serve
  <2>1. UNCHANGED <<recipeList, sendBatch, wire>>
    BY <1>6, SenderOnly
  <2>2. \A x : OnWire(x) => OnWire(x)'
    BY <2>1 DEF OnWire
  <2> QED BY <1>1, <2>1, <2>2 DEF Shipped
<1> QED BY <1>2, <1>3, <1>4, <1>5, <1>6

LEMMA LastSentNext ==
  ASSUME Types, LastSent, [Next]_vars
  PROVE  LastSent'
<1>1. pc \in [Worker -> {"run", "last", "closing", "ending", "exit"}] /\ "sender" \in Worker
  BY ShipmentTypes
<1>2. CASE UNCHANGED shipment
  BY <1>2 DEF shipment, LastSent
<1>3. CASE SendChunks
  BY <1>3 DEF SendChunks, LastSent
<1>4. CASE SendRecipe \/ SendEnd \/ SendFails
  BY <1>1, <1>4 DEF SendRecipe, SendEnd, SendFails, client, LastSent
<1>5. CASE TakeForSend
  BY <1>1, <1>5, SenderTakes DEF LastSent
<1>6. CASE NoticeDone("sender")
  BY <1>1, <1>6 DEF NoticeDone, LastSent
<1>7. CASE Serve \/ StoreFails \/ Push("powClient") \/ Relay("powClient")
  BY <1>7 DEF Serve, StoreFails, Push, Relay, client, LastSent
<1>8. CASE ProveOwnership \/ AnswerLost
  BY <1>1, <1>8 DEF ProveOwnership, AnswerLost, HandOn, AfterBatch, LastSent
<1> QED BY <1>2, <1>3, <1>4, <1>5, <1>6, <1>7, <1>8, ShipmentSteps

LEMMA PrecededNext ==
  ASSUME Types, Shipped, Preceded, LastSent, [Next]_vars
  PROVE  Preceded'
<1>1. \A x : Settled(x) => Settled(x)'
  BY SettledStays
<1>2. ASSUME NEW m \in Message, wire' = Append(wire, m),
             m.kind = "recipe" =>
               \A x \in Elements(m.ids) : Settled(x) \/ OnWire(x)
      PROVE  Preceded'
  <2>1. /\ \A j \in DOMAIN wire' : j \in DOMAIN wire \/ j = Len(wire) + 1
        /\ \A j \in DOMAIN wire : wire'[j] = wire[j]
        /\ wire'[Len(wire) + 1] = m
        /\ \A x : OnWire(x) => \A n : n = Len(wire) + 1 => Before(x, n)'
        /\ \A x, n : Before(x, n) => Before(x, n)'
    BY <1>2, WireAppended
  <2>2. ASSUME NEW j \in DOMAIN wire', wire'[j].kind = "recipe", NEW x \in Elements(wire'[j].ids)
        PROVE  Settled(x)' \/ Before(x, j)'
    <3>1. CASE j \in DOMAIN wire
      <4>1. Settled(x) \/ Before(x, j)
        BY <2>1, <2>2, <3>1 DEF Preceded
      <4> QED BY <1>1, <2>1, <4>1
    <3>2. CASE j = Len(wire) + 1
      <4>1. Settled(x) \/ OnWire(x)
        BY <1>2, <2>1, <2>2, <3>2
      <4> QED BY <1>1, <2>1, <3>2, <4>1
    <3> QED BY <2>1, <3>1, <3>2
  <2> QED BY <2>2 DEF Preceded
<1>3. CASE SendChunks
  <2>1. [kind |-> "chunks", ids |-> sendBatch, head |-> FALSE].kind # "recipe"
    OBVIOUS
  <2> QED BY <1>2, <1>3, <2>1, SenderMessages
<1>4. CASE SendRecipe
  <2>1. PICK entries \in Seq(ChunkID) :
          /\ Elements(entries) \subseteq Elements(recipeList)
          /\ [kind |-> "recipe", ids |-> entries, head |-> head] \in Message
          /\ wire' = Append(wire, [kind |-> "recipe", ids |-> entries, head |-> head])
          /\ pc["sender"] = "closing"
    BY <1>4, SenderMessages
  <2>2. Elements(sendBatch) = {}
    BY <2>1, ElementsOfShort DEF LastSent
  <2>3. \A x \in Elements(entries) : Settled(x) \/ OnWire(x)
    BY <2>1, <2>2 DEF Shipped
  <2> QED BY <1>2, <2>1, <2>3
<1>5. CASE Serve
  <2>1. ASSUME NEW j \in DOMAIN wire', wire'[j].kind = "recipe", NEW x \in Elements(wire'[j].ids)
        PROVE  Settled(x)' \/ Before(x, j)'
    <3>1. j \in Nat /\ j + 1 \in DOMAIN wire /\ wire'[j] = wire[j + 1]
      BY <1>5, WireServed
    <3>2. Settled(x) \/ Before(x, j + 1)
      BY <2>1, <3>1 DEF Preceded
    <3>3. Before(x, j + 1) => Settled(x)' \/ Before(x, j)'
      BY <1>5, <3>1, WireServed
    <3> QED BY <1>1, <3>2, <3>3
  <2> QED BY <2>1 DEF Preceded
<1>6. CASE ~ SendChunks /\ ~ SendRecipe /\ ~ Serve
  <2>1. wire' = wire
    BY <1>6, SenderOnly, SenderTakes
  <2>2. \A x, n : Before(x, n) => Before(x, n)'
    BY <2>1 DEF Before
  <2> QED BY <1>1, <2>1, <2>2 DEF Preceded
<1> QED BY <1>3, <1>4, <1>5, <1>6

LEMMA ArrivedNext ==
  ASSUME Types, Preceded, Arrived, [Next]_vars
  PROVE  Arrived'
<1>1. \A x : Settled(x) => Settled(x)'
  BY SettledStays
<1>2. CASE Serve /\ wire[1].kind # "chunks"
  <2>1. recipe' = [entries |-> wire[1].ids, head |-> wire[1].head]
    BY <1>2 DEF Serve
  <2>2. 1 \in DOMAIN wire /\ wire[1].kind = "recipe"
    BY <1>2, WireServed, ShipmentTypes
  <2>3. ASSUME NEW x \in Elements(wire[1].ids) PROVE Settled(x)
    <3>1. ~ Before(x, 1)
      <4>1. \A j \in DOMAIN wire : j \in Nat /\ j # 0
        BY DEF Types
      <4> QED BY <4>1 DEF Before
    <3> QED BY <2>2, <2>3, <3>1 DEF Preceded
  <2> QED BY <1>1, <2>1, <2>3 DEF Arrived
<1>3. CASE ~ (Serve /\ wire[1].kind # "chunks")
  <2>1. recipe' = recipe
    <3>1. CASE Serve
      BY <1>3, <3>1 DEF Serve
    <3>2. CASE TakeForSend
      BY <3>2, SenderTakes
    <3>3. CASE SendChunks \/ SendRecipe
      BY <3>3, SenderMessages
    <3>4. CASE ~ TakeForSend /\ ~ SendChunks /\ ~ SendRecipe /\ ~ Serve
      BY <3>4, SenderOnly
    <3> QED BY <3>1, <3>2, <3>3, <3>4
  <2> QED BY <1>1, <2>1 DEF Arrived
<1> QED BY <1>2, <1>3

LEMMA ListedNext ==
  ASSUME Types, Listed, [Next]_vars
  PROVE  Listed'
<1>1. CASE TakeForSend
  <2>1. /\ wire' = wire /\ Elements(recipeList) \subseteq Elements(recipeList')
        /\ Elements(sendBatch') \subseteq Elements(recipeList')
    <3>1. Elements(sendBatch) \subseteq Elements(recipeList)
      BY DEF Listed
    <3>2. CASE UNCHANGED <<sendBatch, recipeList>>
      BY <1>1, <3>1, <3>2, SenderTakes
    <3>3. ASSUME NEW x \in Proven,
                 Elements(recipeList') = Elements(recipeList) \cup {x},
                 Elements(sendBatch')
                   = Elements(sendBatch) \cup (IF x \in needUpload THEN {x} ELSE {})
          PROVE  /\ Elements(recipeList) \subseteq Elements(recipeList')
                 /\ Elements(sendBatch') \subseteq Elements(recipeList')
      BY <3>1, <3>3
    <3> QED BY <1>1, <3>2, <3>3, SenderTakes
  <2> QED BY <2>1 DEF Listed
<1>2. CASE SendChunks
  <2> DEFINE m == [kind |-> "chunks", ids |-> sendBatch, head |-> FALSE]
  <2>1. m \in Message /\ wire' = Append(wire, m) /\ recipeList' = recipeList /\ sendBatch' = << >>
    BY <1>2, SenderMessages
  <2>2. /\ \A j \in DOMAIN wire' : j \in DOMAIN wire \/ j = Len(wire) + 1
        /\ \A j \in DOMAIN wire : wire'[j] = wire[j]
        /\ wire'[Len(wire) + 1] = m
    BY <2>1, WireAppended
  <2> QED BY <2>1, <2>2, ElementsOfShort DEF Listed
<1>3. CASE SendRecipe
  <2>1. PICK m \in Message : /\ wire' = Append(wire, m) /\ m.kind = "recipe"
                             /\ UNCHANGED <<recipeList, sendBatch>>
    BY <1>3, SenderMessages
  <2>2. /\ \A j \in DOMAIN wire' : j \in DOMAIN wire \/ j = Len(wire) + 1
        /\ \A j \in DOMAIN wire : wire'[j] = wire[j]
        /\ wire'[Len(wire) + 1] = m
    BY <2>1, WireAppended
  <2> QED BY <2>1, <2>2 DEF Listed
<1>4. CASE Serve
  <2>1. UNCHANGED <<recipeList, sendBatch>>
    BY <1>4 DEF Serve, client
  <2> QED BY <1>4, <2>1, WireServed DEF Listed
<1>5. CASE ~ TakeForSend /\ ~ SendChunks /\ ~ SendRecipe /\ ~ Serve
  BY <1>5, SenderOnly DEF Listed
<1> QED BY <1>1, <1>2, <1>3, <1>4, <1>5

LEMMA FromHereNext ==
  ASSUME Types, Conserved, Listed, FromHere, [Next]_vars
  PROVE  FromHere'
<1>1. Proven \subseteq Proven'
  BY ProvenByBatch, ProvenKept
<1>2. ContentsOf(Proven) \subseteq ContentsOf(Proven')
  BY <1>1 DEF ContentsOf
<1>3. CASE (Serve /\ wire[1].kind = "chunks") \/ StoreFails
  <2>1. stored' \subseteq stored \cup {ContentOf[wire[1].ids[i]] : i \in DOMAIN wire[1].ids}
    <3>1. CASE Serve
      BY <1>3, <3>1 DEF Serve, StoreFails
    <3>2. CASE StoreFails
      <4>1. PICK n \in DOMAIN wire[1].ids :
              stored' = stored \cup {ContentOf[wire[1].ids[i]] : i \in 1 .. n - 1}
        BY <3>2 DEF StoreFails
      <4>2. wire[1].ids \in Seq(ChunkID)
        BY <3>2, ShipmentTypes DEF StoreFails
      <4>3. 1 .. n - 1 \subseteq DOMAIN wire[1].ids
        BY <4>2
      <4> QED BY <4>1, <4>3
    <3> QED BY <1>3, <3>1, <3>2
  <2>2. 1 \in DOMAIN wire /\ wire[1].kind = "chunks"
    BY <1>3, ShipmentTypes DEF Serve, StoreFails
  <2>3. Elements(wire[1].ids) \subseteq Elements(recipeList)
    BY <2>2 DEF Listed
  <2>4. Elements(recipeList) \subseteq Proven
    <3>1. recipeList \in Seq(ChunkID)
      BY ShipmentTypes
    <3>2. Elements(recipeList) \subseteq ChunkID
      BY <3>1, ElementsFacts
    <3> QED BY <3>2 DEF Proven
  <2>5. ASSUME NEW i \in DOMAIN wire[1].ids
        PROVE  ContentOf[wire[1].ids[i]] \in ContentsOf(Proven)
    <3>1. wire[1].ids[i] \in Proven
      BY <2>3, <2>4, <2>5 DEF Elements
    <3> QED BY <3>1 DEF ContentsOf
  <2> QED BY <1>2, <2>1, <2>5 DEF FromHere
<1>4. CASE ~ ((Serve /\ wire[1].kind = "chunks") \/ StoreFails)
  <2>1. stored' = stored
    <3>1. CASE Serve
      BY <1>4, <3>1 DEF Serve
    <3>2. CASE TakeForSend
      BY <3>2, SenderTakes
    <3>3. CASE SendChunks \/ SendRecipe
      BY <3>3, SenderMessages
    <3>4. CASE ~ TakeForSend /\ ~ SendChunks /\ ~ SendRecipe /\ ~ Serve
      BY <1>4, <3>4, SenderOnly
    <3> QED BY <3>1, <3>2, <3>3, <3>4
  <2> QED BY <1>2, <2>1 DEF FromHere
<1> QED BY <1>3, <1>4
-----------------------------------------------------------------------------
(* Sets of chunks and their contents are finite, and there are no more     *)
(* contents than chunks.                                                   *)
LEMMA ChunkSets ==
  ASSUME NEW S \in SUBSET ChunkID
  PROVE  /\ IsFiniteSet(S) /\ Cardinality(S) \in Nat
         /\ IsFiniteSet(ContentsOf(S)) /\ Cardinality(ContentsOf(S)) \in Nat
         /\ Cardinality(ContentsOf(S)) <= Cardinality(S)
         /\ IsFiniteSet(NewOf(S)) /\ Cardinality(NewOf(S)) \in Nat
         /\ Cardinality(NewOf(S)) <= Cardinality(S)
<1>1. IsFiniteSet(ChunkID)
  BY Numbers, FS_Interval DEF ChunkID
<1>2. IsFiniteSet(S) /\ Cardinality(S) \in Nat
  BY <1>1, FS_Subset, FS_CardinalityType
<1>3. [x \in S |-> ContentOf[x]] \in Surjection(S, ContentsOf(S))
  BY DEF Surjection, ContentsOf
<1>4. /\ IsFiniteSet(ContentsOf(S)) /\ Cardinality(ContentsOf(S)) <= Cardinality(S)
      /\ Cardinality(ContentsOf(S)) \in Nat
  BY <1>2, <1>3, FS_Surjection, FS_CardinalityType
<1>5. /\ IsFiniteSet(NewOf(S)) /\ Cardinality(NewOf(S)) <= Cardinality(ContentsOf(S))
      /\ Cardinality(NewOf(S)) \in Nat
  BY <1>4, FS_Subset, FS_CardinalityType DEF NewOf
<1> QED BY <1>2, <1>4, <1>5

LEMMA UnionBound ==
  ASSUME NEW S, NEW T, NEW U, IsFiniteSet(S), IsFiniteSet(T), U \subseteq S \cup T
  PROVE  /\ IsFiniteSet(U) /\ Cardinality(U) \in Nat
         /\ Cardinality(U) <= Cardinality(S) + Cardinality(T)
<1>1. /\ IsFiniteSet(S \cup T)
      /\ Cardinality(S \cup T) = Cardinality(S) + Cardinality(T) - Cardinality(S \cap T)
  BY FS_Union
<1>2. /\ IsFiniteSet(U) /\ Cardinality(U) <= Cardinality(S \cup T)
      /\ IsFiniteSet(S \cap T)
  BY <1>1, FS_Subset, FS_Intersection
<1>3. /\ Cardinality(U) \in Nat /\ Cardinality(S \cap T) \in Nat
      /\ Cardinality(S) \in Nat /\ Cardinality(T) \in Nat /\ Cardinality(S \cup T) \in Nat
  BY <1>1, <1>2, FS_CardinalityType
<1> QED BY <1>1, <1>2, <1>3

(* Of the places of a batch of n, those in L that are beyond the first |L| *)
(* are no more than those that are not in L.                               *)
LEMMA BeyondCount ==
  ASSUME NEW n \in Nat, NEW L \in SUBSET (1 .. n)
  PROVE  /\ IsFiniteSet(L) /\ Cardinality(L) \in Nat /\ Cardinality(L) <= n
         /\ IsFiniteSet(L \ (1 .. Cardinality(L)))
         /\ Cardinality(L \ (1 .. Cardinality(L))) \in Nat
         /\ Cardinality(L \ (1 .. Cardinality(L))) <= n - Cardinality(L)
<1> DEFINE c == Cardinality(L)
           F == 1 .. c
<1>1. \A k \in Nat : IsFiniteSet(1 .. k) /\ Cardinality(1 .. k) = k
  BY UpTo
<1>2. IsFiniteSet(1 .. n) /\ Cardinality(1 .. n) = n
  BY <1>1
<1>3. IsFiniteSet(L) /\ c \in Nat /\ c <= n
  BY <1>2, FS_Subset, FS_CardinalityType
<1>4. IsFiniteSet(F) /\ Cardinality(F) = c
  BY <1>1, <1>3
<1>5. F \ L \subseteq (1 .. n) \ L
  BY <1>3
<1> HIDE DEF c, F
<1>6. /\ IsFiniteSet(L \ F) /\ Cardinality(L \ F) = Cardinality(L) - Cardinality(L \cap F)
      /\ IsFiniteSet(F \ L) /\ Cardinality(F \ L) = Cardinality(F) - Cardinality(F \cap L)
      /\ IsFiniteSet((1 .. n) \ L)
      /\ Cardinality((1 .. n) \ L) = Cardinality(1 .. n) - Cardinality((1 .. n) \cap L)
  BY <1>2, <1>3, <1>4, FS_Difference
<1>7. F \cap L = L \cap F /\ (1 .. n) \cap L = L
  OBVIOUS
<1>8. Cardinality(F \ L) <= Cardinality((1 .. n) \ L)
  BY <1>5, <1>6, FS_Subset
<1>9. Cardinality(L \ F) \in Nat /\ Cardinality(L \cap F) \in Nat
  BY <1>3, <1>6, FS_Intersection, FS_CardinalityType
<1>10. Cardinality(L) = c
  BY DEF c
<1>11. Cardinality(L \ F) <= n - c
  BY <1>2, <1>3, <1>4, <1>6, <1>7, <1>8, <1>9, <1>10
<1> QED BY <1>3, <1>6, <1>9, <1>11 DEF c, F

(* The chunks of a proof: n are proven, c of them lacking; no more than    *)
(* n - c are overlooked and no more than c contents are new.               *)
LEMMA BatchCounts ==
  ASSUME Types, Conserved, FromHere, ProveOwnership
  PROVE  \E n \in Nat, c \in Nat :
           /\ Cardinality(overlooked') <= Cardinality(overlooked) + (n - c)
           /\ Cardinality(NewOf(Proven')) <= Cardinality(NewOf(Proven)) + c
           /\ Cardinality(Proven') = Cardinality(Proven) + n
<1> DEFINE n == Len(powBatch)
           L == DedupByHash(powBatch)
           c == Cardinality(L)
           N == {powBatch[i] : i \in L \ (1 .. c)}
           K == {powBatch[i] : i \in L}
<1>1. /\ n \in Nat /\ DOMAIN powBatch = 1 .. n /\ \A i \in 1 .. n : powBatch[i] \in ChunkID
      /\ L \in SUBSET (1 .. n)
  BY ShipmentTypes DEF DedupByHash
<1>2. /\ IsFiniteSet(L) /\ c \in Nat /\ c <= n
      /\ IsFiniteSet(L \ (1 .. c)) /\ Cardinality(L \ (1 .. c)) <= n - c
      /\ Cardinality(L \ (1 .. c)) \in Nat
  BY <1>1, BeyondCount
<1>3. overlooked \in SUBSET ChunkID /\ Proven \in SUBSET ChunkID /\ Proven' \in SUBSET ChunkID
  BY DEF Types, TypeOK, Proven
<1>4. overlooked' \subseteq overlooked \cup N
  <2>1. PICK stack \in SUBSET (DOMAIN powBatch \ L) :
          needUpload' = needUpload \cup {powBatch[i] : i \in {j \in L \cup stack : j <= c}}
    BY DEF ProveOwnership, HandOn
  <2>2. overlooked' = overlooked \cup (K \ needUpload')
    BY DEF ProveOwnership, HandOn
  <2>3. ASSUME NEW x \in K, x \notin needUpload' PROVE x \in N
    <3>1. PICK i \in L : x = powBatch[i]
      OBVIOUS
    <3>2. ~ (i <= c)
      BY <2>1, <2>3, <3>1
    <3>3. i \notin 1 .. c
      BY <1>1, <1>2, <3>2
    <3> QED BY <3>1, <3>3
  <2> QED BY <2>2, <2>3
<1>5. IsFiniteSet(N) /\ Cardinality(N) \in Nat /\ Cardinality(N) <= n - c
  <2>1. [i \in L \ (1 .. c) |-> powBatch[i]] \in Surjection(L \ (1 .. c), N)
    BY DEF Surjection
  <2>2. IsFiniteSet(N) /\ Cardinality(N) <= Cardinality(L \ (1 .. c)) /\ Cardinality(N) \in Nat
    <3> HIDE DEF N, L, c
    <3> QED BY <1>2, <2>1, FS_Surjection, FS_CardinalityType
  <2> HIDE DEF n, c, L, N
  <2> QED BY <1>1, <1>2, <2>2
<1>6. IsFiniteSet(ContentsOf(K)) /\ Cardinality(ContentsOf(K)) <= c
  <2>1. [i \in L |-> powBatch[i]] \in Surjection(L, K)
    BY DEF Surjection
  <2>2. K \in SUBSET ChunkID
    BY <1>1
  <2> HIDE DEF K, L, n
  <2>3. Cardinality(K) <= c
    BY <1>2, <2>1, FS_Surjection
  <2>4. /\ IsFiniteSet(ContentsOf(K)) /\ Cardinality(ContentsOf(K)) <= Cardinality(K)
        /\ Cardinality(ContentsOf(K)) \in Nat /\ Cardinality(K) \in Nat
    BY <2>2, ChunkSets
  <2> HIDE DEF c
  <2> QED BY <1>2, <2>3, <2>4
<1>7. NewOf(Proven') \subseteq NewOf(Proven) \cup ContentsOf(K)
  <2>1. Proven' = Proven \cup Elements(powBatch)
    BY ProvenByBatch
  <2>2. ASSUME NEW x \in Elements(powBatch), ContentOf[x] \notin Indexed
        PROVE  ContentOf[x] \in NewOf(Proven) \cup ContentsOf(K)
    <3>1. PICK i \in DOMAIN powBatch : x = powBatch[i]
      BY DEF Elements
    <3>2. CASE i \in L
      BY <3>1, <3>2 DEF ContentsOf
    <3>3. CASE i \notin L
      <4>1. ContentOf[x] \in stored
        BY <3>1, <3>3 DEF DedupByHash
      <4> QED BY <2>2, <4>1 DEF FromHere, NewOf
    <3> QED BY <3>2, <3>3
  <2> HIDE DEF K
  <2> QED BY <2>1, <2>2 DEF NewOf, ContentsOf
<1>8. Cardinality(Proven') = Cardinality(Proven) + n
  <2> DEFINE B == Elements(powBatch)
  <2>1. Proven' = Proven \cup B /\ Proven \cap B = {}
    BY ProvenByBatch
  <2>2. [i \in 1 .. n |-> powBatch[i]] \in Bijection(1 .. n, B)
    <3>1. \A i, j \in 1 .. n : powBatch[i] = powBatch[j] => i = j
      BY <1>1, ProvenByBatch
    <3>2. B = {powBatch[i] : i \in 1 .. n}
      BY <1>1 DEF Elements
    <3> HIDE DEF n, B
    <3> QED BY <3>1, <3>2 DEF Bijection, Injection, Surjection, IsInjective
  <2>3. IsFiniteSet(1 .. n) /\ Cardinality(1 .. n) = n
    <3>1. 1 \in Int /\ n \in Int /\ (1 > n => n = 0) /\ n - 1 + 1 = n
      BY <1>1
    <3> HIDE DEF n
    <3> QED BY <3>1, FS_Interval
  <2>4. IsFiniteSet(B) /\ Cardinality(B) = n
    <3> HIDE DEF n, B
    <3> QED BY <2>2, <2>3, FS_Bijection DEF ExistsBijection
  <2>5. IsFiniteSet(Proven) /\ Cardinality(Proven) \in Nat
    BY <1>3, ChunkSets
  <2> HIDE DEF n, B
  <2>6. Cardinality(Proven \cup B) = Cardinality(Proven) + n - Cardinality({})
    BY <2>1, <2>4, <2>5, FS_Union
  <2> QED BY <1>1, <2>1, <2>5, <2>6, FS_EmptySet
<1>9. Cardinality(overlooked') <= Cardinality(overlooked) + (n - c)
  <2> HIDE DEF n, c, N
  <2>1. IsFiniteSet(overlooked) /\ Cardinality(overlooked) \in Nat
    BY <1>3, ChunkSets
  <2>2. /\ Cardinality(overlooked') <= Cardinality(overlooked) + Cardinality(N)
        /\ Cardinality(overlooked') \in Nat
    BY <1>4, <1>5, <2>1, UnionBound
  <2> QED BY <1>1, <1>2, <1>5, <2>1, <2>2
<1>10. Cardinality(NewOf(Proven')) <= Cardinality(NewOf(Proven)) + c
  <2> HIDE DEF c, K
  <2>1. IsFiniteSet(NewOf(Proven)) /\ Cardinality(NewOf(Proven)) \in Nat
    BY <1>3, ChunkSets
  <2>2. /\ Cardinality(NewOf(Proven')) <= Cardinality(NewOf(Proven)) + Cardinality(ContentsOf(K))
        /\ Cardinality(NewOf(Proven')) \in Nat /\ Cardinality(ContentsOf(K)) \in Nat
    BY <1>6, <1>7, <2>1, UnionBound, FS_CardinalityType
  <2> QED BY <1>2, <1>6, <2>1, <2>2
<1> HIDE DEF n, c
<1> QED BY <1>1, <1>2, <1>8, <1>9, <1>10

LEMMA OutnumberedNext ==
  ASSUME Types, Types', Conserved, FromHere, Outnumbered, [Next]_vars
  PROVE  Outnumbered'
<1>1. /\ overlooked \in SUBSET ChunkID /\ overlooked' \in SUBSET ChunkID
      /\ Proven \in SUBSET ChunkID /\ Proven' \in SUBSET ChunkID
  BY DEF Types, TypeOK, Proven
<1>2. /\ Cardinality(overlooked) \in Nat /\ Cardinality(overlooked') \in Nat
      /\ Cardinality(NewOf(Proven)) \in Nat /\ Cardinality(NewOf(Proven')) \in Nat
      /\ Cardinality(Proven) \in Nat /\ Cardinality(Proven') \in Nat
  BY <1>1, ChunkSets
<1>3. CASE ProveOwnership
  <2>1. PICK n \in Nat, c \in Nat :
           /\ Cardinality(overlooked') <= Cardinality(overlooked) + (n - c)
           /\ Cardinality(NewOf(Proven')) <= Cardinality(NewOf(Proven)) + c
           /\ Cardinality(Proven') = Cardinality(Proven) + n
    BY <1>3, BatchCounts
  <2>2. failed' = failed
    BY <1>3 DEF ProveOwnership
  <2>3. "answer" \notin failed' =>
          Cardinality(overlooked') + Cardinality(NewOf(Proven')) <= Cardinality(Proven')
    BY <1>2, <2>1, <2>2 DEF Outnumbered
  <2> QED BY <2>3 DEF Outnumbered, NewOf, ContentsOf
<1>4. CASE ~ (ProveOwnership \/ AnswerLost)
  <2>1. overlooked' = overlooked
    <3>1. CASE UNCHANGED shipment
      BY <3>1 DEF shipment
    <3>2. CASE Serve \/ StoreFails
      BY <3>2 DEF Serve, StoreFails
    <3>3. CASE \/ Push("powClient") \/ Relay("powClient") \/ TakeForSend \/ SendChunks
               \/ SendRecipe \/ SendEnd \/ SendFails \/ NoticeDone("sender")
      BY <3>3 DEF Push, Relay, TakeForSend, SendChunks, SendRecipe, SendEnd,
         SendFails, NoticeDone, server
    <3> QED BY <1>4, <3>1, <3>2, <3>3, ShipmentSteps
  <2>2. "answer" \notin failed' => "answer" \notin failed
    BY FailedStays
  <2> QED BY <1>4, <2>1, <2>2, ProvenKept DEF Outnumbered, NewOf, ContentsOf
<1>5. CASE AnswerLost
  BY <1>5 DEF AnswerLost, Outnumbered
<1> QED BY <1>3, <1>4, <1>5

LEMMA InitSentInv == Init => SentInv
<1> SUFFICES ASSUME Init PROVE SentInv
  OBVIOUS
<1>1. /\ queue["send"] = << >> /\ outbox["powClient"] = << >> /\ recipeList = << >>
      /\ sendBatch = << >> /\ wire = << >> /\ recipe = NoRecipe /\ stored = Indexed
      /\ overlooked = {} /\ pc["sender"] = "run"
  BY DEF Init, Stage, Worker
<1>2. Elements(<< >>) = {} /\ Proven = {} /\ DOMAIN wire = {}
  BY <1>1, ElementsOfShort DEF Proven
<1>3. NewOf(Proven) = {} /\ Cardinality({}) = 0
  BY <1>2, FS_EmptySet DEF NewOf, ContentsOf
<1>4. Outnumbered
  <2>1. /\ Cardinality(overlooked) = 0 /\ Cardinality(Proven) = 0
        /\ Cardinality(NewOf(Proven)) = 0
    BY <1>1, <1>2, <1>3
  <2> QED BY <2>1 DEF Outnumbered
<1>5. Answered /\ Shipped /\ Preceded /\ Arrived
  BY <1>1, <1>2 DEF Answered, Shipped, Preceded, Arrived
<1>6. LastSent /\ Listed /\ FromHere
  BY <1>1, <1>2 DEF LastSent, Listed, FromHere
<1> QED BY <1>4, <1>5, <1>6 DEF SentInv

LEMMA NextSentInv == IInv /\ IInv' /\ SentInv /\ [Next]_vars => SentInv'
<1> SUFFICES ASSUME Types, Types', Conserved, SentInv, [Next]_vars
             PROVE  SentInv'
  BY DEF IInv
<1>1. Answered' /\ Shipped' /\ Preceded' /\ Arrived'
  BY AnsweredNext, ShippedNext, PrecededNext, ArrivedNext DEF SentInv
<1>2. LastSent' /\ Listed'
  BY LastSentNext, ListedNext DEF SentInv
<1>3. FromHere' /\ Outnumbered'
  BY FromHereNext, OutnumberedNext DEF SentInv
<1> QED BY <1>1, <1>2, <1>3 DEF SentInv

(* What is known of the chunks behind their proof holds of every behaviour.*)
LEMMA Shipments == Spec => []SentInv
BY Invariance, InitSentInv, NextSentInv, PTL DEF Spec

(* As many chunks as the server knew, by its index or by the file's own    *)
(* repetitions, may be overlooked, and no more.                            *)
LEMMA BehindKnownOnly == IInv /\ SentInv => OverlookedBehindKnown
<1> SUFFICES ASSUME Types, Outnumbered, "answer" \notin failed
             PROVE  OverlookedBehindKnown
  BY DEF IInv, SentInv, OverlookedBehindKnown
<1>1. /\ overlooked \in SUBSET ChunkID /\ Proven \in SUBSET ChunkID
      /\ ChunkID \ Proven \in SUBSET ChunkID /\ ChunkID \in SUBSET ChunkID
  BY DEF Types, TypeOK, Proven
<1>2. \A S \in SUBSET ChunkID :
        /\ IsFiniteSet(S) /\ Cardinality(S) \in Nat
        /\ IsFiniteSet(NewOf(S)) /\ Cardinality(NewOf(S)) \in Nat
        /\ Cardinality(NewOf(S)) <= Cardinality(S)
  BY ChunkSets
<1>3. FileLength \in Nat /\ Cardinality(ChunkID) = FileLength
  <2>1. 1 \in Int /\ FileLength \in Int /\ (1 > FileLength => FileLength = 0)
        /\ FileLength - 1 + 1 = FileLength /\ FileLength \in Nat
    BY Numbers
  <2> QED BY <2>1, FS_Interval DEF ChunkID
<1>4. NewOf(ChunkID) \subseteq NewOf(Proven) \cup NewOf(ChunkID \ Proven)
  BY DEF NewOf, ContentsOf
<1>5. Cardinality(NewOf(ChunkID)) <= Cardinality(NewOf(Proven)) + Cardinality(NewOf(ChunkID \ Proven))
  BY <1>1, <1>2, <1>4, UnionBound
<1>6. ChunkID \cap Proven = Proven
  BY DEF Proven
<1>7. Cardinality(ChunkID \ Proven) = FileLength - Cardinality(Proven)
  BY <1>1, <1>2, <1>3, <1>6, FS_Difference
<1>8. Cardinality(overlooked) + Cardinality(NewOf(Proven)) <= Cardinality(Proven)
  BY DEF Outnumbered
<1>9. Cardinality(overlooked) <= FileLength - Cardinality(NewOf(ChunkID))
  <2>1. /\ Cardinality(NewOf(Proven)) \in Nat /\ Cardinality(NewOf(ChunkID)) \in Nat
        /\ Cardinality(Proven) \in Nat /\ Cardinality(ChunkID \ Proven) \in Nat
        /\ Cardinality(overlooked) \in Nat /\ Cardinality(NewOf(ChunkID \ Proven)) \in Nat
        /\ Cardinality(NewOf(ChunkID \ Proven)) <= Cardinality(ChunkID \ Proven)
    BY <1>1, <1>2
  <2> QED BY <2>1, <1>3, <1>5, <1>7, <1>8
<1> QED BY <1>9 DEF OverlookedBehindKnown, NewOf, ContentsOf

(* Whatever the sizes, the interleaving and what powClient's stack held,   *)
(* a chunk that a recipe lists is on the server when the recipe is, unless *)
(* powClient overlooked it, and it overlooks no more than were known when  *)
(* every proof was answered.                                               *)
THEOREM OnlyTheseMissing == Spec => []OnlyOverlookedMissing
<1>1. SentInv => MissingOverlooked
  BY DEF SentInv, Arrived, Settled, Elements, MissingOverlooked
<1>2. IInv /\ SentInv => OnlyOverlookedMissing
  BY <1>1, BehindKnownOnly DEF OnlyOverlookedMissing
<1> QED BY <1>2, Invariance, Shipments, PTL

(* A file whose contents are all different and all new to the server is    *)
(* restorable as soon as its recipe is there, whatever fails on the way    *)
(* but the answer to a proof.                                              *)
THEOREM NewFileRestorable ==
  ASSUME Cardinality({ContentOf[x] : x \in ChunkID} \ Indexed) = FileLength
  PROVE  Spec => []("answer" \notin failed => RecipeRestorable)
<1>1. TypeOK /\ OnlyOverlookedMissing => ("answer" \notin failed => RecipeRestorable)
  <2> SUFFICES ASSUME TypeOK, MissingOverlooked, OverlookedBehindKnown, "answer" \notin failed
               PROVE  RecipeRestorable
    BY DEF OnlyOverlookedMissing
  <2>1. overlooked \in SUBSET ChunkID /\ FileLength \in Nat
    BY Numbers DEF TypeOK
  <2>2. IsFiniteSet(overlooked) /\ Cardinality(overlooked) \in Nat
    BY <2>1, ChunkSets
  <2>3. Cardinality(overlooked) = 0
    BY <2>1, <2>2 DEF OverlookedBehindKnown
  <2>4. overlooked = {}
    BY <2>2, <2>3, FS_EmptySet
  <2> QED BY <2>4 DEF MissingOverlooked, RecipeRestorable
<1> QED BY <1>1, TypeCorrect, OnlyTheseMissing, PTL
-----------------------------------------------------------------------------
(* How threads come to an end: what each has in hand, that its done flag   *)
(* is set when it ends, and that the sender's recipe is on its way.        *)
OneInHand == \A w \in FpThread : Len(outbox[w]) <= 1
DoneAtExit == \A w \in {"keyClient", "encoder", "powClient"} :
                pc[w] = "exit" => done[Out[w]] \/ (w = "keyClient" /\ "key" \in failed)
LastSetsDone == (\A w \in FpThread : pc[w] = "exit") => done["key"]
RecipeOnItsWay ==
  pc["sender"] \in {"ending", "exit"} /\ "server" \notin failed =>
    recipe # NoRecipe \/ \E j \in DOMAIN wire : wire[j].kind = "recipe"

EndInv == OneInHand /\ DoneAtExit /\ LastSetsDone /\ RecipeOnItsWay

(* What a step does to the flags and to the threads' ends.                 *)
LEMMA EndSteps ==
  ASSUME Types, [Next]_vars
  PROVE  /\ \A s \in Stage : done[s] => done'[s]
         /\ failed \subseteq failed'
         /\ \A w \in Worker \ {"sender"} :
              pc'[w] = "exit" => \/ pc[w] = "exit" \/ Finish(w)
                                 \/ w = "keyClient" /\ ExchangeFails
<1>1. /\ done \in [Stage -> BOOLEAN]
      /\ pc \in [Worker -> {"run", "last", "closing", "ending", "exit"}]
  BY DEF Types, TypeOK
<1>2. /\ {"keyClient", "encoder", "powClient", "sender"} \subseteq Worker
      /\ \A w \in Worker \ {"sender"} : Out[w] \in Stage
  BY InOut DEF Worker
<1>3. CASE \/ Cut \/ TakeForKey \/ TakeForPow \/ TakeForSend \/ ExchangeKeys \/ Serve
           \/ StoreFails \/ UNCHANGED vars
  BY <1>3 DEF Cut, TakeForKey, TakeForPow, TakeForSend, ExchangeKeys, Serve,
     StoreFails, vars
<1>4. CASE ChunkerDone
  BY <1>1, <1>4 DEF ChunkerDone
<1>5. CASE ExchangeFails
  BY <1>1, <1>2, <1>5 DEF ExchangeFails
<1>6. CASE ProveOwnership \/ AnswerLost
  BY <1>1, <1>2, <1>6 DEF ProveOwnership, AnswerLost, HandOn, AfterBatch
<1>7. CASE ProofFails
  BY <1>1, <1>2, <1>7 DEF ProofFails
<1>8. CASE SendChunks \/ SendRecipe \/ SendEnd \/ SendFails
  BY <1>1, <1>2, <1>8 DEF SendChunks, SendRecipe, SendEnd, SendFails, AfterBatch
<1>9. ASSUME NEW v \in Worker \ {"sender"}, Push(v) \/ Relay(v)
      PROVE  UNCHANGED <<done, failed, pc>>
  BY <1>9 DEF Push, Relay
<1>10. ASSUME NEW v \in Worker \ {"sender"}, Finish(v)
       PROVE  /\ \A s \in Stage : done[s] => done'[s]
              /\ failed' = failed
              /\ \A w \in Worker : w # v => pc'[w] = pc[w]
  BY <1>1, <1>2, <1>10 DEF Finish
<1>11. ASSUME NEW v \in Worker, NoticeDone(v)
       PROVE  /\ UNCHANGED <<done, failed>>
              /\ \A w \in Worker : pc'[w] = "exit" => pc[w] = "exit"
  BY <1>1, <1>11 DEF NoticeDone
<1> QED BY <1>3, <1>4, <1>5, <1>6, <1>7, <1>8, <1>9, <1>10, <1>11, Actions

LEMMA OneInHandNext ==
  ASSUME Types, OneInHand, [Next]_vars
  PROVE  OneInHand'
<1>1. /\ outbox \in [Worker -> Seq(Item)] /\ FpThread \subseteq Worker
      /\ \A w \in FpThread : w # "keyClient" /\ w # "powClient"
      /\ {"keyClient", "powClient"} \subseteq Worker
  BY InOut DEF Types, TypeOK, Worker
<1>2. \A q \in Seq(Item) : q # << >> => Len(Tail(q)) <= Len(q)
  OBVIOUS
<1>3. \A x : Len(<<x>>) = 1
  OBVIOUS
<1>4. \A w \in FpThread : outbox[w] \in Seq(Item) /\ Len(outbox[w]) \in Nat /\ Len(outbox[w]) <= 1
  BY <1>1 DEF OneInHand
<1>5. ASSUME UNCHANGED outbox PROVE OneInHand'
  BY <1>5 DEF OneInHand
<1>6. CASE ExchangeKeys
  <2>1. \A w \in FpThread : outbox'[w] = outbox[w]
    BY <1>1, <1>6 DEF ExchangeKeys
  <2> QED BY <2>1 DEF OneInHand
<1>7. CASE ProveOwnership \/ AnswerLost
  <2>1. \A w \in FpThread : outbox'[w] = outbox[w]
    BY <1>1, <1>7 DEF ProveOwnership, AnswerLost, HandOn
  <2> QED BY <2>1 DEF OneInHand
<1>8. ASSUME NEW v \in Worker \ {"sender"}, Push(v)
      PROVE  OneInHand'
  <2>1. outbox' = [outbox EXCEPT ![v] = Tail(@)] /\ outbox[v] # << >>
    BY <1>8 DEF Push
  <2>2. \A w \in FpThread : outbox'[w] = outbox[w] \/ (outbox'[w] = Tail(outbox[w]) /\ w = v)
    <3> TAKE w \in FpThread
    <3>1. w \in Worker
      BY <1>1
    <3> QED BY <1>1, <2>1, <3>1
  <2>3. \A w \in FpThread : Len(outbox'[w]) <= 1
    <3> TAKE w \in FpThread
    <3>1. CASE outbox'[w] = outbox[w]
      BY <3>1 DEF OneInHand
    <3>2. CASE outbox'[w] = Tail(outbox[w]) /\ w = v
      BY <1>4, <2>1, <3>2
    <3> QED BY <2>2, <3>1, <3>2
  <2> QED BY <2>3 DEF OneInHand
<1>9. ASSUME NEW v \in Worker \ {"sender"}, Relay(v)
      PROVE  OneInHand'
  <2>1. outbox' = [outbox EXCEPT ![v] = <<queue[In[v]][1]>>]
    BY <1>9 DEF Relay
  <2>2. \A w \in FpThread : outbox'[w] = outbox[w] \/ outbox'[w] = <<queue[In[v]][1]>>
    BY <1>1, <2>1
  <2>3. \A w \in FpThread : Len(outbox'[w]) <= 1
    <3> TAKE w \in FpThread
    <3>1. CASE outbox'[w] = outbox[w]
      BY <3>1 DEF OneInHand
    <3>2. CASE outbox'[w] = <<queue[In[v]][1]>>
      BY <1>3, <3>2
    <3> QED BY <2>2, <3>1, <3>2
  <2> QED BY <2>3 DEF OneInHand
<1>10. CASE \/ Cut \/ ChunkerDone \/ TakeForKey \/ TakeForPow \/ TakeForSend \/ ExchangeFails
            \/ ProofFails \/ SendChunks \/ SendRecipe \/ SendEnd \/ SendFails
            \/ Serve \/ StoreFails \/ UNCHANGED vars
  BY <1>5, <1>10 DEF Cut, ChunkerDone, TakeForKey, TakeForPow, TakeForSend, ExchangeFails,
     ProofFails, SendChunks, SendRecipe, SendEnd, SendFails, Serve, StoreFails, vars
<1>11. ASSUME NEW v \in Worker, NoticeDone(v) \/ Finish(v)
       PROVE  OneInHand'
  BY <1>5, <1>11 DEF NoticeDone, Finish
<1> QED BY <1>6, <1>7, <1>8, <1>9, <1>10, <1>11, Actions

LEMMA DoneAtExitNext ==
  ASSUME Types, DoneAtExit, [Next]_vars
  PROVE  DoneAtExit'
<1> SUFFICES ASSUME NEW w \in {"keyClient", "encoder", "powClient"}, pc'[w] = "exit"
             PROVE  done'[Out[w]] \/ (w = "keyClient" /\ "key" \in failed')
  BY DEF DoneAtExit
<1>1. w \in Worker \ {"sender"} /\ Out[w] \in Stage /\ w \notin FpThread
  BY InOut DEF Worker
<1>2. CASE pc[w] = "exit"
  BY <1>1, <1>2, EndSteps DEF DoneAtExit
<1>3. CASE Finish(w)
  <2>1. done' = [done EXCEPT ![Out[w]] = TRUE] /\ done \in [Stage -> BOOLEAN]
    BY <1>1, <1>3 DEF Finish, Types, TypeOK
  <2> QED BY <1>1, <2>1
<1>4. CASE w = "keyClient" /\ ExchangeFails
  BY <1>4 DEF ExchangeFails
<1> QED BY <1>1, <1>2, <1>3, <1>4, EndSteps

(* The last fingerprinter to end sees the counter full.                    *)
LEMMA LastSetsDoneNext ==
  ASSUME Types, Counted, Ends, LastSetsDone, [Next]_vars
  PROVE  LastSetsDone'
<1> SUFFICES ASSUME \A w \in FpThread : pc'[w] = "exit"
             PROVE  done'["key"]
  BY DEF LastSetsDone
<1>1. "key" \in Stage /\ FpThread \subseteq Worker \ {"sender"}
  BY InOut DEF Stage
<1>2. CASE \A w \in FpThread : pc[w] = "exit"
  BY <1>1, <1>2, EndSteps DEF LastSetsDone
<1>3. ASSUME NEW v \in FpThread, pc[v] # "exit"
      PROVE  done'["key"]
  <2>1. Finish(v)
    BY <1>1, <1>3, InOut, EndSteps
  <2>2. /\ pc' = [pc EXCEPT ![v] = "exit"] /\ pc[v] = "last"
        /\ Out[v] = "key"
    BY <2>1, InOut DEF Finish
  <2>3. \A w \in FpThread : pc[w] # "run"
    BY <1>1, <2>2 DEF Types, TypeOK
  <2>4. {w \in FpThread : pc[w] # "run"} = FpThread
    BY <2>3
  <2>5. finished = Cardinality(FpThread)
    BY <2>4 DEF Counted
  <2>6. done' = [done EXCEPT !["key"] = TRUE]
    BY <2>1, <2>2, <2>5 DEF Finish
  <2> QED BY <1>1, <2>6 DEF Types, TypeOK
<1> QED BY <1>2, <1>3

LEMMA RecipeOnItsWayNext ==
  ASSUME Types, RecipeOnItsWay, [Next]_vars
  PROVE  RecipeOnItsWay'
<1> DEFINE Coming == recipe # NoRecipe \/ \E j \in DOMAIN wire : wire[j].kind = "recipe"
<1>1. /\ pc \in [Worker -> {"run", "last", "closing", "ending", "exit"}]
      /\ {"keyClient", "encoder", "powClient", "sender"} \subseteq Worker
      /\ wire \in Seq(Message)
  BY DEF Types, TypeOK, Worker
<1>2. ASSUME UNCHANGED <<wire, recipe>>,
             pc'["sender"] \in {"ending", "exit"} => pc["sender"] \in {"ending", "exit"}
      PROVE  RecipeOnItsWay'
  BY <1>2, FailedStays DEF RecipeOnItsWay
<1>3. CASE SendRecipe
  <2>1. PICK m \in Message : wire' = Append(wire, m) /\ m.kind = "recipe"
    BY <1>3, SenderMessages
  <2>2. /\ Len(wire) + 1 \in DOMAIN wire' /\ wire'[Len(wire) + 1] = m
    BY <1>1, <2>1
  <2> QED BY <2>1, <2>2 DEF RecipeOnItsWay
<1>4. CASE SendChunks
  <2>1. PICK m \in Message : wire' = Append(wire, m) /\ recipe' = recipe
    BY <1>4, SenderMessages
  <2>2. \A j \in DOMAIN wire : j \in DOMAIN wire' /\ wire'[j] = wire[j]
    BY <1>1, <2>1
  <2>3. pc'["sender"] \in {"ending", "exit"} => pc["sender"] \in {"ending", "exit"}
    BY <1>1, <1>4 DEF SendChunks, AfterBatch
  <2> QED BY <2>1, <2>2, <2>3, FailedStays DEF RecipeOnItsWay
<1>5. CASE SendEnd
  <2>1. pc["sender"] = "ending" /\ UNCHANGED <<wire, recipe>>
    BY <1>5 DEF SendEnd, server
  <2> QED BY <1>2, <2>1
<1>11. CASE SendFails
  BY <1>11 DEF SendFails, RecipeOnItsWay
<1>6. CASE Serve
  <2>1. wire # << >> /\ wire' = Tail(wire) /\ pc' = pc
    BY <1>6 DEF Serve
  <2>2. /\ wire[1] \in Message
        /\ \A j \in DOMAIN wire : j = 1 \/ (j - 1 \in DOMAIN wire' /\ wire'[j - 1] = wire[j])
    BY <1>1, <2>1
  <2>3. CASE wire[1].kind = "recipe"
    <3>1. recipe' = [entries |-> wire[1].ids, head |-> wire[1].head]
      BY <1>6, <2>3 DEF Serve
    <3>2. recipe' \in [entries : Seq(ChunkID), head : BOOLEAN]
      BY <2>2, <3>1 DEF Message
    <3>3. recipe' # NoRecipe
      BY <3>2, PipelineAssumption DEF ChunkID
    <3> QED BY <3>3 DEF RecipeOnItsWay
  <2>4. CASE wire[1].kind # "recipe"
    <3>1. recipe' = recipe
      BY <1>6, <2>2, <2>4 DEF Serve, Message
    <3>2. ASSUME NEW j \in DOMAIN wire, wire[j].kind = "recipe"
          PROVE  \E i \in DOMAIN wire' : wire'[i].kind = "recipe"
      BY <2>2, <2>4, <3>2
    <3> QED BY <2>1, <3>1, <3>2, FailedStays DEF RecipeOnItsWay
  <2> QED BY <2>3, <2>4
<1>7. CASE \/ Cut \/ ChunkerDone \/ TakeForKey \/ TakeForPow \/ TakeForSend \/ ExchangeKeys
           \/ StoreFails \/ UNCHANGED vars
  <2>1. UNCHANGED <<pc, wire, recipe>>
    BY <1>7 DEF Cut, ChunkerDone, TakeForKey, TakeForPow, TakeForSend, ExchangeKeys,
       StoreFails, vars, server
  <2> QED BY <1>2, <2>1
<1>8. CASE ExchangeFails \/ ProveOwnership \/ AnswerLost \/ ProofFails
  <2>1. UNCHANGED <<wire, recipe>> /\ pc'["sender"] = pc["sender"]
    BY <1>1, <1>8 DEF ExchangeFails, ProveOwnership, AnswerLost, HandOn, ProofFails,
       AfterBatch, server
  <2> QED BY <1>2, <2>1
<1>9. ASSUME NEW v \in Worker \ {"sender"}, Push(v) \/ Relay(v) \/ Finish(v)
      PROVE  RecipeOnItsWay'
  <2>1. UNCHANGED <<wire, recipe>> /\ pc'["sender"] = pc["sender"]
    BY <1>1, <1>9 DEF Push, Relay, Finish, server
  <2> QED BY <1>2, <2>1
<1>10. ASSUME NEW v \in Worker, NoticeDone(v)
       PROVE  RecipeOnItsWay'
  <2>1. /\ UNCHANGED <<wire, recipe>>
        /\ pc'["sender"] = pc["sender"] \/ pc'["sender"] = "last"
    BY <1>1, <1>10 DEF NoticeDone, server
  <2> QED BY <1>2, <2>1
<1> QED BY <1>3, <1>4, <1>5, <1>6, <1>7, <1>8, <1>9, <1>10, <1>11, Actions

LEMMA InitEndInv == Init => EndInv
<1> SUFFICES ASSUME Init PROVE EndInv
  OBVIOUS
<1>1. {"keyClient", "encoder", "powClient", "sender"} \cup FpThread \subseteq Worker
  BY DEF Worker
<1>2. /\ \A w \in Worker : pc[w] = "run" /\ outbox[w] = << >>
      /\ Len(<< >>) = 0
  BY DEF Init
<1>3. PICK w \in FpThread : TRUE
  BY PipelineAssumption
<1> QED BY <1>1, <1>2, <1>3 DEF EndInv, OneInHand, DoneAtExit, LastSetsDone, RecipeOnItsWay

LEMMA NextEndInv == IInv /\ EndInv /\ [Next]_vars => EndInv'
BY OneInHandNext, DoneAtExitNext, LastSetsDoneNext, RecipeOnItsWayNext DEF IInv, EndInv

LEMMA Endings == Spec => []EndInv
BY Invariance, InitEndInv, NextEndInv, PTL DEF Spec

(* The upload does not deadlock, whatever its sizes: of threads that stand *)
(* still each waits for the one before it, up to the chunker, which can    *)
(* move, or one has ended and set its done flag, or the key exchange has   *)
(* failed. A failed store keeps its message on the wire.                   *)
THEOREM DeadlockFree == Spec => []NoDeadlock
<1>1. IInv /\ EndInv => NoDeadlock
  <2> SUFFICES ASSUME Types, Ends, Idle, EndInv, ChunkerStuck, wire = << >>,
                      \A w \in Worker : Stuck(w)
               PROVE  ThreadsEnded /\ RecipeSent
    BY DEF IInv, NoDeadlock
  <2>1. /\ {"keyClient", "encoder", "powClient", "sender"} \cup FpThread = Worker
        /\ {"keyClient", "encoder", "powClient"} \cup FpThread \subseteq Worker \ {"sender"}
        /\ "fingerprint" \in Stage
    BY InOut DEF Worker, Stage
  <2>2. \A s \in Stage : queue[s] = << >> => Room(s)
    BY Numbers DEF Room
  <2>3. \A w \in Worker \ {"sender"} :
          Out[w] \in Stage /\ queue[Out[w]] = << >> => pc[w] = "exit" \/ Waits(w)
    BY <2>2 DEF Stuck, Spins
  <2>4. Out["keyClient"] = "encode" /\ Out["encoder"] = "pow" /\ Out["powClient"] = "send"
        /\ In["keyClient"] = "key" /\ In["encoder"] = "encode" /\ In["powClient"] = "pow"
        /\ In["sender"] = "send" /\ {"key", "encode", "pow", "send"} \subseteq Stage
        /\ \A w \in FpThread : In[w] = "fingerprint" /\ Out[w] = "key"
    BY InOut DEF Stage
  <2>5. CASE pc["sender"] = "exit"
    <3>1. recipe # NoRecipe \/ "server" \in failed
      BY <2>5 DEF EndInv, RecipeOnItsWay
    <3>2. CASE failed \ {"answer"} # {}
      BY <2>5, <3>1, <3>2 DEF ThreadsEnded, RecipeSent
    <3>3. CASE failed \ {"answer"} = {}
      <4>1. \A w \in Worker : pc[w] # "run" => done[In[w]]
        BY <3>3 DEF Ends, Failed
      <4>2. done["send"]
        BY <2>1, <2>4, <2>5, <4>1
      <4>3. pc["powClient"] = "exit" /\ done["pow"]
        BY <2>1, <2>4, <4>1, <4>2 DEF Ends
      <4>4. pc["encoder"] = "exit" /\ done["encode"]
        BY <2>1, <2>4, <4>1, <4>3 DEF Ends
      <4>5. pc["keyClient"] = "exit" /\ done["key"]
        BY <2>1, <2>4, <4>1, <4>4 DEF Ends
      <4>6. \A w \in FpThread : pc[w] \in {"last", "exit"} /\ outbox[w] = << >>
        BY <4>5 DEF Ends
      <4>7. \A w \in FpThread : pc[w] = "exit"
        BY <2>1, <4>6 DEF Stuck, Waits, Spins
      <4>8. \A w \in Worker : pc[w] = "exit"
        BY <2>1, <2>5, <4>3, <4>4, <4>5, <4>7
      <4> QED BY <2>5, <3>1, <4>8 DEF ThreadsEnded, RecipeSent
    <3> QED BY <3>2, <3>3
  <2>6. CASE pc["sender"] # "exit"
    <3>1. queue["send"] = << >> /\ ~ done["send"]
      BY <2>1, <2>4, <2>6 DEF Stuck, Waits, Spins
    <3>2. queue["pow"] = << >> /\ ~ done["pow"]
      BY <2>1, <2>3, <2>4, <3>1 DEF EndInv, DoneAtExit, Waits
    <3>3. queue["encode"] = << >> /\ ~ done["encode"]
      BY <2>1, <2>3, <2>4, <3>2 DEF EndInv, DoneAtExit, Waits
    <3>4. CASE "key" \in failed
      BY <3>4 DEF ThreadsEnded, RecipeSent
    <3>5. CASE "key" \notin failed
      <4>1. queue["key"] = << >> /\ ~ done["key"]
        BY <2>1, <2>3, <2>4, <3>3, <3>5 DEF EndInv, DoneAtExit, Waits
      <4>2. PICK w \in FpThread : pc[w] # "exit"
        BY <4>1 DEF EndInv, LastSetsDone
      <4>3. queue["fingerprint"] = << >> /\ ~ done["fingerprint"]
        BY <2>1, <2>3, <2>4, <4>1, <4>2 DEF Waits
      <4> QED BY <2>1, <2>2, <4>3 DEF ChunkerStuck
    <3> QED BY <3>4, <3>5
  <2> QED BY <2>5, <2>6
<1> QED BY <1>1, Invariance, Endings, PTL
-----------------------------------------------------------------------------
(* The summands of Work are numbers.                                       *)
LEMMA WorkTypes ==
  ASSUME Types
  PROVE  /\ cut \in Nat /\ RecipeHead \in Nat /\ done["fingerprint"] \in BOOLEAN
         /\ \A s \in Stage : Len(queue[s]) \in Nat
         /\ \A w \in Worker : Len(outbox[w]) \in Nat
         /\ Len(keyBatch) \in Nat /\ Len(powBatch) \in Nat /\ Len(sendBatch) \in Nat
         /\ Len(wire) \in Nat
         /\ IsFiniteSet(Ahead) /\ Cardinality(Ahead) \in Nat
         /\ IsFiniteSet(InHand) /\ Cardinality(InHand) \in Nat
<1>1. /\ cut \in Nat /\ RecipeHead \in Nat /\ done["fingerprint"] \in BOOLEAN
  BY Numbers DEF Types, TypeOK, Stage
<1>2. /\ \A s \in Stage : queue[s] \in Seq(Item)
      /\ \A w \in Worker : outbox[w] \in Seq(Item)
      /\ keyBatch \in Seq(ChunkID) /\ powBatch \in Seq(ChunkID) /\ sendBatch \in Seq(ChunkID)
      /\ wire \in Seq(Message)
  BY DEF Types, TypeOK
<1>3. IsFiniteSet(Ahead) /\ Cardinality(Ahead) \in Nat
  <2> DEFINE P == {"last", "closing", "ending", "exit"}
             N == {"keyClient", "encoder", "powClient", "sender"}
  <2>1. IsFiniteSet(P) /\ IsFiniteSet(N)
    <3>1. IsFiniteSet({}) /\ \A S, x : IsFiniteSet(S) => IsFiniteSet(S \cup {x})
      BY FS_EmptySet, FS_AddElement
    <3>2. P = {} \cup {"last"} \cup {"closing"} \cup {"ending"} \cup {"exit"}
      OBVIOUS
    <3>3. N = {} \cup {"keyClient"} \cup {"encoder"} \cup {"powClient"} \cup {"sender"}
      OBVIOUS
    <3>4. IsFiniteSet({} \cup {"last"} \cup {"closing"} \cup {"ending"} \cup {"exit"})
      BY <3>1
    <3>5. IsFiniteSet({} \cup {"keyClient"} \cup {"encoder"} \cup {"powClient"} \cup {"sender"})
      BY <3>1
    <3> QED BY <3>2, <3>3, <3>4, <3>5
  <2> HIDE DEF P, N
  <2>2. IsFiniteSet(Worker)
    <3>1. Worker = FpThread \cup N
      BY DEF Worker, N
    <3> QED BY <2>1, <3>1, FS_Union, PipelineAssumption
  <2>3. IsFiniteSet(Worker \X P)
    BY <2>1, <2>2, FS_Product
  <2>4. Ahead \in SUBSET (Worker \X P)
    BY DEF Ahead, P
  <2> QED BY <2>3, <2>4, FS_Subset, FS_CardinalityType
<1>4. IsFiniteSet(InHand) /\ Cardinality(InHand) \in Nat
  <2>1. InHand \in SUBSET FpThread /\ IsFiniteSet(FpThread)
    BY PipelineAssumption DEF InHand
  <2> QED BY <2>1, FS_Subset, FS_CardinalityType
<1> QED BY <1>1, <1>2, <1>3, <1>4

LEMMA AfterIs ==
  /\ After["run"] = {"last", "closing", "ending", "exit"}
  /\ After["last"] = {"closing", "ending", "exit"} /\ After["closing"] = {"ending", "exit"}
  /\ After["ending"] = {"exit"} /\ After["exit"] = {}
BY DEF After

(* A thread that goes on has less ahead of it.                             *)
LEMMA Nearer ==
  ASSUME Types, NEW w \in Worker, NEW p \in After[pc[w]], pc' = [pc EXCEPT ![w] = p]
  PROVE  Cardinality(Ahead') < Cardinality(Ahead) /\ Cardinality(Ahead') \in Nat
<1>1. pc \in [Worker -> {"run", "last", "closing", "ending", "exit"}]
  BY DEF Types, TypeOK
<1>2. /\ p \in {"last", "closing", "ending", "exit"}
      /\ After[p] \subseteq After[pc[w]] /\ p \notin After[p]
  BY <1>1, AfterIs
<1>3. pc'[w] = p /\ \A v \in Worker : v # w => pc'[v] = pc[v]
  BY <1>1
<1>4. Ahead' \subseteq Ahead
  BY <1>2, <1>3 DEF Ahead
<1>5. <<w, p>> \in Ahead /\ <<w, p>> \notin Ahead'
  BY <1>2, <1>3 DEF Ahead
<1>6. Ahead' \in SUBSET Ahead /\ Ahead # Ahead' /\ IsFiniteSet(Ahead)
      /\ Cardinality(Ahead) \in Nat
  BY <1>4, <1>5, WorkTypes
<1>7. /\ Cardinality(Ahead') <= Cardinality(Ahead) /\ IsFiniteSet(Ahead')
      /\ Cardinality(Ahead) # Cardinality(Ahead')
  BY <1>6, FS_Subset
<1>8. Cardinality(Ahead') \in Nat
  BY <1>7, FS_CardinalityType
<1> QED BY <1>6, <1>7, <1>8

(* An item inserted, and one extracted.                                    *)
LEMMA QueueLengths ==
  ASSUME Types, NEW s \in Stage
  PROVE  /\ \A x \in Item : Insert(s, x) =>
              /\ Len(queue'[s]) = Len(queue[s]) + 1
              /\ \A r \in Stage : r # s => Len(queue'[r]) = Len(queue[r])
         /\ queue[s] # << >> /\ queue' = [queue EXCEPT ![s] = Tail(@)] =>
              /\ Len(queue'[s]) = Len(queue[s]) - 1
              /\ \A r \in Stage : r # s => Len(queue'[r]) = Len(queue[r])
<1>1. queue \in [Stage -> Seq(Item)] /\ queue[s] \in Seq(Item)
  BY DEF Types
<1>2. \A x \in Item : Len(Append(queue[s], x)) = Len(queue[s]) + 1
  BY <1>1
<1>3. queue[s] # << >> => Len(Tail(queue[s])) = Len(queue[s]) - 1
  BY <1>1
<1> QED BY <1>1, <1>2, <1>3 DEF Insert

LEMMA Lengths ==
  ASSUME Types
  PROVE  /\ Len(queue["fingerprint"]) \in Nat /\ Len(queue["key"]) \in Nat
         /\ Len(queue["encode"]) \in Nat /\ Len(queue["pow"]) \in Nat
         /\ Len(queue["send"]) \in Nat
         /\ Len(outbox["keyClient"]) \in Nat /\ Len(outbox["encoder"]) \in Nat
         /\ Len(outbox["powClient"]) \in Nat
         /\ Len(keyBatch) \in Nat /\ Len(powBatch) \in Nat /\ Len(sendBatch) \in Nat
         /\ Len(wire) \in Nat /\ Cardinality(InHand) \in Nat
BY WorkTypes DEF Stage, Worker

LEMMA StageNames ==
  /\ {"fingerprint", "key", "encode", "pow", "send"} = Stage
  /\ {"keyClient", "encoder", "powClient", "sender"} \subseteq Worker
  /\ FpThread \subseteq Worker \ {"keyClient", "encoder", "powClient", "sender"}
  /\ Worker = FpThread \cup {"keyClient", "encoder", "powClient", "sender"}
BY InOut DEF Stage, Worker

(* The pieces of Work that many steps leave alone.                         *)
LEMMA SameAhead == ASSUME UNCHANGED pc PROVE Ahead' = Ahead
BY DEF Ahead
LEMMA SameInHand ==
  ASSUME \A w \in FpThread : outbox'[w] = outbox[w]
  PROVE  InHand' = InHand
BY DEF InHand

(* The numbers that Work adds up, each under a name.                       *)
NFp == Len(queue["fingerprint"])
NKey == Len(queue["key"])
NEncode == Len(queue["encode"])
NPow == Len(queue["pow"])
NSend == Len(queue["send"])
OKey == Len(outbox["keyClient"])
OEncoder == Len(outbox["encoder"])
OPow == Len(outbox["powClient"])
BKey == Len(keyBatch)
BPow == Len(powBatch)
BSend == Len(sendBatch)
NWire == Len(wire)
NHand == Cardinality(InHand)

LEMMA Numerals ==
  ASSUME Types
  PROVE  /\ NFp \in Nat /\ NKey \in Nat /\ NEncode \in Nat /\ NPow \in Nat /\ NSend \in Nat
         /\ OKey \in Nat /\ OEncoder \in Nat /\ OPow \in Nat
         /\ BKey \in Nat /\ BPow \in Nat /\ BSend \in Nat /\ NWire \in Nat /\ NHand \in Nat
         /\ cut \in Nat /\ RecipeHead \in Nat
BY Lengths, WorkTypes DEF NFp, NKey, NEncode, NPow, NSend, OKey, OEncoder, OPow, BKey, BPow,
   BSend, NWire, NHand

LEMMA FrontIs ==
  /\ AtClientFront = 14 * (RecipeHead - cut) + 13 * NFp + 12 * NHand
  /\ AtClientFront' = 14 * (RecipeHead - cut') + 13 * NFp' + 12 * NHand'
BY DEF AtClientFront, NFp, NHand, RecipeHead

LEMMA KeyIs ==
  /\ AtKeyClient = 11 * NKey + 10 * BKey + 9 * OKey
  /\ AtKeyClient' = 11 * NKey' + 10 * BKey' + 9 * OKey'
BY DEF AtKeyClient, NKey, BKey, OKey

LEMMA EncoderIs ==
  /\ AtEncoder = 8 * NEncode + 7 * OEncoder
  /\ AtEncoder' = 8 * NEncode' + 7 * OEncoder'
BY DEF AtEncoder, NEncode, OEncoder

LEMMA PowIs ==
  /\ AtPowClient = 6 * NPow + 5 * BPow + 4 * OPow
  /\ AtPowClient' = 6 * NPow' + 5 * BPow' + 4 * OPow'
BY DEF AtPowClient, NPow, BPow, OPow

LEMMA SenderIs ==
  /\ AtSender = 3 * NSend + 2 * BSend + NWire
  /\ AtSender' = 3 * NSend' + 2 * BSend' + NWire'
BY DEF AtSender, NSend, BSend, NWire

(* A store that has failed stays so, and only a failure of it counts.      *)
LEMMA StoreTurns ==
  /\ StoreTurn \in {0, 1} /\ StoreTurn' \in {0, 1}
  /\ "store" \notin failed \/ "store" \in failed' => StoreTurn' <= StoreTurn
  /\ UNCHANGED failed => StoreTurn' = StoreTurn
BY DEF StoreTurn

LEMMA Summands ==
  ASSUME Types
  PROVE  /\ AtClientFront \in Int /\ AtKeyClient \in Int /\ AtEncoder \in Int
         /\ AtPowClient \in Int /\ AtSender \in Int /\ Turns \in Int
<1>1. AtClientFront \in Int
  BY Numerals, FrontIs
<1>2. AtKeyClient \in Int
  BY Numerals, KeyIs
<1>3. AtEncoder \in Int
  BY Numerals, EncoderIs
<1>4. AtPowClient \in Int
  BY Numerals, PowIs
<1>5. AtSender \in Int
  BY Numerals, SenderIs
<1>6. Turns \in Int
  BY WorkTypes, StoreTurns DEF Turns
<1> QED BY <1>1, <1>2, <1>3, <1>4, <1>5, <1>6

(* A step by which a thread goes on in its loop, and nothing else grows by *)
(* more than a message.                                                    *)
LEMMA TurnShrinks ==
  ASSUME Types, NEW w \in Worker, NEW p \in After[pc[w]], pc' = [pc EXCEPT ![w] = p],
         done'["fingerprint"] = done["fingerprint"],
         "store" \notin failed \/ "store" \in failed'
  PROVE  Turns' \in Int /\ Turns' + 1 < Turns
<1>1. Cardinality(Ahead') < Cardinality(Ahead) /\ Cardinality(Ahead') \in Nat
  BY Nearer
<1>2. Cardinality(Ahead) \in Nat
  BY WorkTypes
<1>3. 2 * Cardinality(Ahead') + 1 < 2 * Cardinality(Ahead)
  BY <1>1, <1>2
<1>4. CASE done["fingerprint"]
  BY <1>1, <1>2, <1>3, <1>4, StoreTurns DEF Turns
<1>5. CASE ~ done["fingerprint"]
  BY <1>1, <1>2, <1>3, <1>5, StoreTurns DEF Turns
<1> QED BY <1>4, <1>5

(* An item handed on to the next queue, and one taken from a queue.        *)
LEMMA PushShrinks ==
  ASSUME Types, OneInHand, NEW w \in Worker \ {"sender"}, Push(w)
  PROVE  Work' < Work
<1>1. /\ outbox \in [Worker -> Seq(Item)] /\ outbox[w] \in Seq(Item) /\ outbox[w] # << >>
      /\ outbox' = [outbox EXCEPT ![w] = Tail(@)] /\ Insert(Out[w], outbox[w][1])
      /\ UNCHANGED <<cut, done, pc, keyBatch, powBatch, sendBatch, wire, failed>>
  BY DEF Push, Types, TypeOK, client
<1>2. /\ outbox[w][1] \in Item /\ Len(Tail(outbox[w])) = Len(outbox[w]) - 1
      /\ Len(outbox[w]) \in Nat
  BY <1>1
<1>3. /\ Len(outbox'[w]) = Len(outbox[w]) - 1
      /\ \A v \in Worker : v # w => outbox'[v] = outbox[v]
  BY <1>1, <1>2
<1>4. Out[w] \in Stage
  BY InOut
<1>5. /\ Len(queue'[Out[w]]) = Len(queue[Out[w]]) + 1
      /\ \A r \in Stage : r # Out[w] => Len(queue'[r]) = Len(queue[r])
  BY <1>1, <1>2, <1>4, QueueLengths
<1>6. Turns' = Turns
  BY <1>1, SameAhead, StoreTurns DEF Turns
<1>7. CASE w \in FpThread
  <2>1. Out[w] = "key" /\ w \notin {"keyClient", "encoder", "powClient"}
    BY <1>7, InOut
  <2>2. outbox'[w] = << >>
    <3>1. Len(outbox[w]) <= 1
      BY <1>7 DEF OneInHand
    <3>2. Tail(outbox[w]) \in Seq(Item) /\ Len(Tail(outbox[w])) = 0
      BY <1>1, <1>2, <3>1
    <3>3. \A q \in Seq(Item) : Len(q) = 0 => q = << >>
      OBVIOUS
    <3>4. Tail(outbox[w]) = << >>
      BY <3>2, <3>3
    <3> QED BY <1>1, <3>4
  <2>3. InHand' = InHand \ {w} /\ w \in InHand
    BY <1>1, <1>3, <1>7, <2>2, StageNames DEF InHand
  <2>4. Cardinality(InHand') = Cardinality(InHand) - 1 /\ Cardinality(InHand) \in Nat
    BY <2>3, WorkTypes, FS_RemoveElement
  <2>5. Len(queue'["fingerprint"]) = Len(queue["fingerprint"])
    BY <1>5, <2>1, StageNames
  <2>6. AtClientFront' = AtClientFront - 12
    <3>1. cut' = cut /\ NFp' = NFp /\ NHand' = NHand - 1
      BY <1>1, <2>4, <2>5 DEF NFp, NHand
    <3> QED BY <3>1, Numerals, FrontIs
  <2>7. AtKeyClient' = AtKeyClient + 11
    <3>1. Len(queue'["key"]) = Len(queue["key"]) + 1 /\ outbox'["keyClient"] = outbox["keyClient"]
      BY <1>3, <1>5, <2>1, StageNames
    <3>2. NKey' = NKey + 1 /\ BKey' = BKey /\ OKey' = OKey
      BY <1>1, <3>1 DEF NKey, BKey, OKey
    <3> QED BY <3>2, Numerals, KeyIs
  <2>8. UNCHANGED <<AtEncoder, AtPowClient, AtSender>>
    BY <1>1, <1>3, <1>5, <2>1, StageNames DEF AtEncoder, AtPowClient, AtSender
  <2> QED BY <1>6, <2>6, <2>7, <2>8, Summands DEF Work
<1>8. CASE w \notin FpThread
  <2>1. UNCHANGED AtClientFront
    <3>1. InHand' = InHand
      BY <1>3, <1>8, StageNames, SameInHand
    <3>2. Len(queue'["fingerprint"]) = Len(queue["fingerprint"])
      BY <1>5, <1>8, InOut, StageNames
    <3> QED BY <1>1, <3>1, <3>2 DEF AtClientFront
  <2>2. CASE w = "keyClient"
    <3>1. /\ Len(queue'["encode"]) = Len(queue["encode"]) + 1
          /\ \A r \in Stage : r # "encode" => Len(queue'[r]) = Len(queue[r])
          /\ UNCHANGED <<outbox["encoder"], outbox["powClient"]>>
      BY <1>3, <1>5, <2>2, InOut, StageNames
    <3>2. AtKeyClient' = AtKeyClient - 9
      <4>1. NKey' = NKey /\ BKey' = BKey /\ OKey' = OKey - 1
        BY <1>1, <1>3, <2>2, <3>1, StageNames DEF NKey, BKey, OKey
      <4> QED BY <4>1, Numerals, KeyIs
    <3>3. AtEncoder' = AtEncoder + 8
      <4>1. NEncode' = NEncode + 1 /\ OEncoder' = OEncoder
        BY <3>1 DEF NEncode, OEncoder
      <4> QED BY <4>1, Numerals, EncoderIs
    <3>4. UNCHANGED <<AtPowClient, AtSender>>
      BY <1>1, <3>1, StageNames DEF AtPowClient, AtSender
    <3> QED BY <1>6, <2>1, <3>2, <3>3, <3>4, Summands DEF Work
  <2>3. CASE w = "encoder"
    <3>1. /\ Len(queue'["pow"]) = Len(queue["pow"]) + 1
          /\ \A r \in Stage : r # "pow" => Len(queue'[r]) = Len(queue[r])
          /\ UNCHANGED <<outbox["keyClient"], outbox["powClient"]>>
      BY <1>3, <1>5, <2>3, InOut, StageNames
    <3>2. AtEncoder' = AtEncoder - 7
      <4>1. NEncode' = NEncode /\ OEncoder' = OEncoder - 1
        BY <1>3, <2>3, <3>1, StageNames DEF NEncode, OEncoder
      <4> QED BY <4>1, Numerals, EncoderIs
    <3>3. AtPowClient' = AtPowClient + 6
      <4>1. NPow' = NPow + 1 /\ BPow' = BPow /\ OPow' = OPow
        BY <1>1, <3>1 DEF NPow, BPow, OPow
      <4> QED BY <4>1, Numerals, PowIs
    <3>4. UNCHANGED <<AtKeyClient, AtSender>>
      BY <1>1, <3>1, StageNames DEF AtKeyClient, AtSender
    <3> QED BY <1>6, <2>1, <3>2, <3>3, <3>4, Summands DEF Work
  <2>4. CASE w = "powClient"
    <3>1. /\ Len(queue'["send"]) = Len(queue["send"]) + 1
          /\ \A r \in Stage : r # "send" => Len(queue'[r]) = Len(queue[r])
          /\ UNCHANGED <<outbox["keyClient"], outbox["encoder"]>>
      BY <1>3, <1>5, <2>4, InOut, StageNames
    <3>2. AtPowClient' = AtPowClient - 4
      <4>1. NPow' = NPow /\ BPow' = BPow /\ OPow' = OPow - 1
        BY <1>1, <1>3, <2>4, <3>1, StageNames DEF NPow, BPow, OPow
      <4> QED BY <4>1, Numerals, PowIs
    <3>3. AtSender' = AtSender + 3
      <4>1. NSend' = NSend + 1 /\ BSend' = BSend /\ NWire' = NWire
        BY <1>1, <3>1 DEF NSend, BSend, NWire
      <4> QED BY <4>1, Numerals, SenderIs
    <3>4. UNCHANGED <<AtKeyClient, AtEncoder>>
      BY <1>1, <3>1, StageNames DEF AtKeyClient, AtEncoder
    <3> QED BY <1>6, <2>1, <3>2, <3>3, <3>4, Summands DEF Work
  <2> QED BY <1>8, <2>2, <2>3, <2>4, StageNames
<1> QED BY <1>7, <1>8

LEMMA RelayShrinks ==
  ASSUME Types, NEW w \in Worker \ {"sender"}, Relay(w)
  PROVE  Work' < Work
<1>1. /\ outbox \in [Worker -> Seq(Item)] /\ outbox[w] = << >>
      /\ outbox' = [outbox EXCEPT ![w] = <<queue[In[w]][1]>>]
      /\ queue[In[w]] # << >> /\ queue' = [queue EXCEPT ![In[w]] = Tail(@)]
      /\ UNCHANGED <<cut, done, pc, keyBatch, powBatch, sendBatch, wire, failed>>
  BY DEF Relay, Extract, AtTop, Types, TypeOK, client
<1>2. /\ outbox'[w] = <<queue[In[w]][1]>> /\ outbox'[w] # << >>
      /\ Len(outbox'[w]) = 1 /\ Len(outbox[w]) = 0
      /\ \A v \in Worker : v # w => outbox'[v] = outbox[v]
  BY <1>1
<1>3. In[w] \in Stage
  BY InOut
<1>4. /\ Len(queue'[In[w]]) = Len(queue[In[w]]) - 1
      /\ \A r \in Stage : r # In[w] => Len(queue'[r]) = Len(queue[r])
  BY <1>1, <1>3, QueueLengths
<1>5. Turns' = Turns
  BY <1>1, SameAhead, StoreTurns DEF Turns
<1>6. CASE w \in FpThread
  <2>1. In[w] = "fingerprint" /\ w \notin {"keyClient", "encoder", "powClient"}
    BY <1>6, InOut
  <2>2. InHand' = InHand \cup {w} /\ w \notin InHand
    BY <1>1, <1>2, <1>6, StageNames DEF InHand
  <2>3. Cardinality(InHand') = Cardinality(InHand) + 1 /\ Cardinality(InHand) \in Nat
    BY <2>2, WorkTypes, FS_AddElement
  <2>4. Len(queue'["fingerprint"]) = Len(queue["fingerprint"]) - 1
    BY <1>4, <2>1
  <2>5. AtClientFront' = AtClientFront - 1
    <3>1. cut' = cut /\ NFp' = NFp - 1 /\ NHand' = NHand + 1
      BY <1>1, <2>3, <2>4 DEF NFp, NHand
    <3> QED BY <3>1, Numerals, FrontIs
  <2>6. UNCHANGED <<AtKeyClient, AtEncoder, AtPowClient, AtSender>>
    BY <1>1, <1>2, <1>4, <2>1, StageNames DEF AtKeyClient, AtEncoder, AtPowClient, AtSender
  <2> QED BY <1>5, <2>5, <2>6, Summands DEF Work
<1>7. CASE w \notin FpThread
  <2>1. UNCHANGED AtClientFront
    <3>1. InHand' = InHand
      BY <1>2, <1>7, StageNames, SameInHand
    <3>2. In[w] # "fingerprint"
      BY <1>7, InOut, StageNames
    <3>3. Len(queue'["fingerprint"]) = Len(queue["fingerprint"])
      BY <1>4, <3>2, StageNames
    <3> QED BY <1>1, <3>1, <3>3 DEF AtClientFront
  <2>2. CASE w = "keyClient"
    <3>1. /\ Len(queue'["key"]) = Len(queue["key"]) - 1
          /\ \A r \in Stage : r # "key" => Len(queue'[r]) = Len(queue[r])
          /\ UNCHANGED <<outbox["encoder"], outbox["powClient"]>>
      BY <1>2, <1>4, <2>2, InOut, StageNames
    <3>2. AtKeyClient' = AtKeyClient - 2
      <4>1. NKey' = NKey - 1 /\ BKey' = BKey /\ OKey' = OKey + 1
        BY <1>1, <1>2, <2>2, <3>1 DEF NKey, BKey, OKey
      <4> QED BY <4>1, Numerals, KeyIs
    <3>3. UNCHANGED <<AtEncoder, AtPowClient, AtSender>>
      BY <1>1, <3>1, StageNames DEF AtEncoder, AtPowClient, AtSender
    <3> QED BY <1>5, <2>1, <3>2, <3>3, Summands DEF Work
  <2>3. CASE w = "encoder"
    <3>1. /\ Len(queue'["encode"]) = Len(queue["encode"]) - 1
          /\ \A r \in Stage : r # "encode" => Len(queue'[r]) = Len(queue[r])
          /\ UNCHANGED <<outbox["keyClient"], outbox["powClient"]>>
      BY <1>2, <1>4, <2>3, InOut, StageNames
    <3>2. Len(outbox'["encoder"]) = 1 /\ Len(outbox["encoder"]) = 0
      BY <1>2, <2>3
    <3>3. AtEncoder' = AtEncoder - 1
      <4>1. NEncode' = NEncode - 1 /\ OEncoder' = OEncoder + 1
        BY <3>2, <3>1, StageNames DEF NEncode, OEncoder
      <4> QED BY <4>1, Numerals, EncoderIs
    <3>4. UNCHANGED <<AtKeyClient, AtPowClient, AtSender>>
      BY <1>1, <3>1, StageNames DEF AtKeyClient, AtPowClient, AtSender
    <3> QED BY <1>5, <2>1, <3>3, <3>4, Summands DEF Work
  <2>4. CASE w = "powClient"
    <3>1. /\ Len(queue'["pow"]) = Len(queue["pow"]) - 1
          /\ \A r \in Stage : r # "pow" => Len(queue'[r]) = Len(queue[r])
          /\ UNCHANGED <<outbox["keyClient"], outbox["encoder"]>>
      BY <1>2, <1>4, <2>4, InOut, StageNames
    <3>2. AtPowClient' = AtPowClient - 2
      <4>1. NPow' = NPow - 1 /\ BPow' = BPow /\ OPow' = OPow + 1
        BY <1>1, <1>2, <2>4, <3>1 DEF NPow, BPow, OPow
      <4> QED BY <4>1, Numerals, PowIs
    <3>3. UNCHANGED <<AtKeyClient, AtEncoder, AtSender>>
      BY <1>1, <3>1, StageNames DEF AtKeyClient, AtEncoder, AtSender
    <3> QED BY <1>5, <2>1, <3>2, <3>3, Summands DEF Work
  <2> QED BY <1>7, <2>2, <2>3, <2>4, StageNames
<1> QED BY <1>6, <1>7

(* A step that leaves what the stages hold, and one that leaves the turns. *)
LEMMA SameParts ==
  /\ UNCHANGED <<cut, queue, outbox>> => UNCHANGED AtClientFront
  /\ UNCHANGED <<queue, outbox, keyBatch>> => UNCHANGED AtKeyClient
  /\ UNCHANGED <<queue, outbox>> => UNCHANGED AtEncoder
  /\ UNCHANGED <<queue, outbox, powBatch>> => UNCHANGED AtPowClient
  /\ UNCHANGED <<queue, sendBatch, wire>> => UNCHANGED AtSender
  /\ UNCHANGED <<pc, done, failed>> => UNCHANGED Turns
BY DEF AtClientFront, AtKeyClient, AtEncoder, AtPowClient, AtSender, Turns, StoreTurn, Ahead,
       InHand

LEMMA CutShrinks ==
  ASSUME Types, Cut \/ ChunkerDone
  PROVE  Work' < Work
<1>1. CASE Cut
  <2>1. /\ cut' = cut + 1 /\ cut + 1 \in Item /\ Insert("fingerprint", cut + 1)
        /\ UNCHANGED <<done, pc, outbox, keyBatch, powBatch, sendBatch, wire, failed>>
    BY <1>1, Numbers DEF Cut, client, Types, TypeOK, Item, RecipeHead
  <2>2. /\ Len(queue'["fingerprint"]) = Len(queue["fingerprint"]) + 1
        /\ \A r \in Stage : r # "fingerprint" => Len(queue'[r]) = Len(queue[r])
    BY <2>1, QueueLengths, StageNames
  <2>3. AtClientFront' = AtClientFront - 1
    <3>1. cut' = cut + 1 /\ NFp' = NFp + 1 /\ NHand' = NHand
      BY <2>1, <2>2 DEF NFp, NHand, InHand
    <3> QED BY <3>1, Numerals, FrontIs
  <2>4. UNCHANGED <<AtKeyClient, AtEncoder, AtPowClient, AtSender>>
    BY <2>1, <2>2, StageNames DEF AtKeyClient, AtEncoder, AtPowClient, AtSender
  <2>9. UNCHANGED <<Turns>>
    BY <2>1, SameParts
  <2> QED BY <2>3, <2>4, <2>9, Summands DEF Work
<1>2. CASE ChunkerDone
  <2>1. /\ ~ done["fingerprint"] /\ done'["fingerprint"]
        /\ UNCHANGED <<cut, queue, pc, outbox, keyBatch, powBatch, sendBatch, wire, failed>>
    BY <1>2, StageNames DEF ChunkerDone, client, Types, TypeOK
  <2>2. Ahead' = Ahead /\ Cardinality(Ahead) \in Nat
    BY <2>1, WorkTypes, SameAhead
  <2>3. Turns' = Turns - 1
    BY <2>1, <2>2, StoreTurns DEF Turns
  <2>9. UNCHANGED <<AtClientFront, AtKeyClient, AtEncoder, AtPowClient, AtSender>>
    BY <2>1, SameParts
  <2> QED BY <2>3, <2>9, Summands DEF Work
<1> QED BY <1>1, <1>2

(* A chunk that goes into a batch.                                         *)
LEMMA TakeShrinks ==
  ASSUME Types, TakeForKey \/ TakeForPow \/ TakeForSend
  PROVE  Work' < Work
<1>1. /\ keyBatch \in Seq(ChunkID) /\ powBatch \in Seq(ChunkID) /\ sendBatch \in Seq(ChunkID)
      /\ \A s \in Stage : queue[s] \in Seq(Item)
  BY DEF Types, TypeOK
<1>2. \A b, x : b \in Seq(ChunkID) /\ x \in ChunkID => Len(Append(b, x)) = Len(b) + 1
  OBVIOUS
<1>3. ASSUME NEW w \in Worker, Extract(w)
      PROVE  /\ In[w] \in Stage /\ queue[In[w]][1] \in Item
             /\ Len(queue'[In[w]]) = Len(queue[In[w]]) - 1
             /\ \A r \in Stage : r # In[w] => Len(queue'[r]) = Len(queue[r])
  <2>1. In[w] \in Stage /\ queue[In[w]][1] \in Item
    BY <1>3, ExtractMeans
  <2>2. queue[In[w]] # << >> /\ queue' = [queue EXCEPT ![In[w]] = Tail(@)]
    BY <1>3 DEF Extract
  <2> QED BY <2>1, <2>2, QueueLengths
<1>4. CASE TakeForKey
  <2>1. /\ Extract("keyClient") /\ queue["key"][1] # RecipeHead
        /\ keyBatch' = Append(keyBatch, queue["key"][1])
        /\ UNCHANGED <<cut, done, pc, outbox, powBatch, sendBatch, wire, failed>>
    BY <1>4 DEF TakeForKey
  <2>2. /\ queue["key"][1] \in Item /\ Len(queue'["key"]) = Len(queue["key"]) - 1
        /\ \A r \in Stage : r # "key" => Len(queue'[r]) = Len(queue[r])
    BY <1>3, <2>1, InOut, StageNames
  <2>3. Len(keyBatch') = Len(keyBatch) + 1
    BY <1>1, <1>2, <2>1, <2>2, Numbers
  <2>4. AtKeyClient' = AtKeyClient - 1
    <3>1. NKey' = NKey - 1 /\ BKey' = BKey + 1 /\ OKey' = OKey
      BY <2>1, <2>2, <2>3 DEF NKey, BKey, OKey
    <3> QED BY <3>1, Numerals, KeyIs
  <2>5. UNCHANGED <<AtClientFront, AtEncoder, AtPowClient, AtSender>>
    BY <2>1, <2>2, StageNames DEF AtClientFront, AtEncoder, AtPowClient, AtSender, InHand
  <2>9. UNCHANGED <<Turns>>
    BY <2>1, SameParts
  <2> QED BY <2>4, <2>5, <2>9, Summands DEF Work
<1>5. CASE TakeForPow
  <2>1. /\ Extract("powClient") /\ queue["pow"][1] # RecipeHead
        /\ powBatch' = Append(powBatch, queue["pow"][1])
        /\ UNCHANGED <<cut, done, pc, outbox, keyBatch, sendBatch, wire, failed>>
    BY <1>5 DEF TakeForPow
  <2>2. /\ queue["pow"][1] \in Item /\ Len(queue'["pow"]) = Len(queue["pow"]) - 1
        /\ \A r \in Stage : r # "pow" => Len(queue'[r]) = Len(queue[r])
    BY <1>3, <2>1, InOut, StageNames
  <2>3. Len(powBatch') = Len(powBatch) + 1
    BY <1>1, <1>2, <2>1, <2>2, Numbers
  <2>4. AtPowClient' = AtPowClient - 1
    <3>1. NPow' = NPow - 1 /\ BPow' = BPow + 1 /\ OPow' = OPow
      BY <2>1, <2>2, <2>3 DEF NPow, BPow, OPow
    <3> QED BY <3>1, Numerals, PowIs
  <2>5. UNCHANGED <<AtClientFront, AtKeyClient, AtEncoder, AtSender>>
    BY <2>1, <2>2, StageNames DEF AtClientFront, AtKeyClient, AtEncoder, AtSender, InHand
  <2>9. UNCHANGED <<Turns>>
    BY <2>1, SameParts
  <2> QED BY <2>4, <2>5, <2>9, Summands DEF Work
<1>6. CASE TakeForSend
  <2>1. /\ Extract("sender") /\ UNCHANGED <<cut, done, pc, outbox, keyBatch, powBatch, wire, failed>>
        /\ \/ sendBatch' = sendBatch
           \/ /\ queue["send"][1] # RecipeHead
              /\ sendBatch' = Append(sendBatch, queue["send"][1])
    BY <1>6 DEF TakeForSend
  <2>2. /\ queue["send"][1] \in Item /\ Len(queue'["send"]) = Len(queue["send"]) - 1
        /\ \A r \in Stage : r # "send" => Len(queue'[r]) = Len(queue[r])
    BY <1>3, <2>1, InOut, StageNames
  <2>3. Len(sendBatch') = Len(sendBatch) \/ Len(sendBatch') = Len(sendBatch) + 1
    BY <1>1, <1>2, <2>1, <2>2, Numbers
  <2>4. AtSender' < AtSender /\ AtSender' \in Int
    <3>1. NSend' = NSend - 1 /\ (BSend' = BSend \/ BSend' = BSend + 1) /\ NWire' = NWire
      BY <2>1, <2>2, <2>3 DEF NSend, BSend, NWire
    <3> QED BY <3>1, Numerals, SenderIs
  <2>5. UNCHANGED <<AtClientFront, AtKeyClient, AtEncoder, AtPowClient>>
    BY <2>1, <2>2, StageNames DEF AtClientFront, AtKeyClient, AtEncoder, AtPowClient, InHand
  <2>9. UNCHANGED <<Turns>>
    BY <2>1, SameParts
  <2> QED BY <2>4, <2>5, <2>9, Summands DEF Work
<1> QED BY <1>4, <1>5, <1>6

(* A thread that finds its queue done, ends, or gives up.                  *)
LEMMA EndShrinks ==
  ASSUME Types, NEW w \in Worker,
         NoticeDone(w) \/ (w # "sender" /\ Finish(w)) \/ (w = "keyClient" /\ ExchangeFails)
           \/ (w = "sender" /\ (SendEnd \/ SendFails))
  PROVE  Work' < Work
<1>1. UNCHANGED <<cut, queue, outbox, keyBatch, powBatch, sendBatch, wire>>
  BY DEF NoticeDone, Finish, ExchangeFails, SendEnd, SendFails, client
<1>2. done'["fingerprint"] = done["fingerprint"]
  <2>1. CASE w # "sender" /\ Finish(w)
    <3>1. w \in Worker \ {"sender"} /\ Out[w] # "fingerprint"
      BY <2>1, InOut, StageNames
    <3>2. done \in [Stage -> BOOLEAN] /\ "fingerprint" \in Stage
      BY StageNames DEF Types, TypeOK
    <3>3. done' = done \/ done' = [done EXCEPT ![Out[w]] = TRUE]
      BY <2>1 DEF Finish
    <3> QED BY <3>1, <3>2, <3>3
  <2>2. CASE ~ (w # "sender" /\ Finish(w))
    BY <2>2 DEF NoticeDone, ExchangeFails, SendEnd, SendFails
  <2> QED BY <2>1, <2>2
<1>3. PICK p \in After[pc[w]] : pc' = [pc EXCEPT ![w] = p]
  <2>1. CASE NoticeDone(w)
    BY <2>1, AfterIs DEF NoticeDone
  <2>2. CASE w # "sender" /\ Finish(w)
    BY <2>2, AfterIs DEF Finish
  <2>3. CASE w = "sender" /\ SendEnd
    BY <2>3, AfterIs DEF SendEnd
  <2>4. CASE w = "keyClient" /\ ExchangeFails
    BY <2>4, AfterIs DEF ExchangeFails, KeyBatchDue
  <2>5. CASE w = "sender" /\ SendFails
    BY <2>5, AfterIs DEF SendFails, SendDue
  <2> QED BY <2>1, <2>2, <2>3, <2>4, <2>5
<1>4. Turns' \in Int /\ Turns' + 1 < Turns
  <2>1. failed \subseteq failed'
    BY DEF NoticeDone, Finish, ExchangeFails, SendEnd, SendFails
  <2> QED BY <1>2, <1>3, <2>1, TurnShrinks
<1>9. UNCHANGED <<AtClientFront, AtKeyClient, AtEncoder, AtPowClient, AtSender>>
  BY <1>1, SameParts
<1> QED BY <1>4, <1>9, Summands DEF Work

(* A batch that goes on, whole, to be handed on item by item.              *)
LEMMA BatchShrinks ==
  ASSUME Types, ExchangeKeys \/ ProveOwnership \/ AnswerLost \/ ProofFails
  PROVE  Work' < Work
<1>1. /\ outbox \in [Worker -> Seq(Item)] /\ keyBatch \in Seq(ChunkID)
      /\ powBatch \in Seq(ChunkID) /\ ChunkID \subseteq Nat /\ Len(<< >>) = 0
      /\ pc \in [Worker -> {"run", "last", "closing", "ending", "exit"}]
  BY Numbers DEF Types, TypeOK
<1>2. \A b \in Seq(ChunkID) : b # << >> => Len(b) > 0
  OBVIOUS
<1>3. CASE ExchangeKeys
  <2>1. PICK batch \in Sorted(keyBatch) : outbox' = [outbox EXCEPT !["keyClient"] = batch]
    BY <1>3 DEF ExchangeKeys
  <2>2. Len(batch) = Len(keyBatch)
    BY <1>1, <2>1, SortedMeans
  <2>3. /\ outbox["keyClient"] = << >> /\ keyBatch' = << >>
        /\ Len(keyBatch) = KeyBatch \/ keyBatch # << >>
        /\ UNCHANGED <<cut, queue, done, pc, powBatch, sendBatch, wire, failed>>
    BY <1>3 DEF ExchangeKeys, KeyBatchDue
  <2>4. Len(keyBatch) > 0
    BY <1>1, <1>2, <2>3, Numbers
  <2>5. /\ Len(outbox'["keyClient"]) = Len(keyBatch) /\ Len(outbox["keyClient"]) = 0
        /\ \A w \in Worker : w # "keyClient" => outbox'[w] = outbox[w]
    BY <1>1, <2>1, <2>2, <2>3, StageNames
  <2>6. AtKeyClient' = AtKeyClient - BKey /\ BKey > 0 /\ BKey \in Nat
    <3>1. /\ NKey' = NKey /\ BKey' = 0 /\ OKey' = BKey /\ OKey = 0 /\ BKey > 0
      BY <1>1, <2>3, <2>4, <2>5 DEF NKey, BKey, OKey
    <3> QED BY <3>1, Numerals, KeyIs
  <2>7. UNCHANGED AtClientFront
    BY <2>3, <2>5, StageNames, SameInHand DEF AtClientFront
  <2>8. UNCHANGED <<AtEncoder, AtPowClient>>
    BY <2>3, <2>5, StageNames DEF AtEncoder, AtPowClient
  <2>9. UNCHANGED <<AtSender, Turns>>
    BY <2>3, SameParts
  <2> QED BY <2>6, <2>7, <2>8, <2>9, Summands DEF Work
<1>4. CASE ProveOwnership \/ AnswerLost
  <2>1. /\ outbox' = [outbox EXCEPT !["powClient"] = powBatch] /\ powBatch' = << >>
        /\ outbox["powClient"] = << >> /\ pc["powClient"] \in {"run", "last"}
        /\ Len(powBatch) = PowBatch \/ pc["powClient"] = "last"
        /\ AfterBatch("powClient")
        /\ ("store" \in failed' <=> "store" \in failed)
        /\ UNCHANGED <<cut, queue, done, keyBatch, sendBatch, wire>>
    BY <1>4 DEF ProveOwnership, AnswerLost, HandOn, PowBatchDue
  <2>2. /\ Len(outbox'["powClient"]) = Len(powBatch) /\ Len(outbox["powClient"]) = 0
        /\ \A w \in Worker : w # "powClient" => outbox'[w] = outbox[w]
    BY <1>1, <2>1, StageNames
  <2>3. AtPowClient' = AtPowClient - BPow /\ BPow \in Nat
    <3>1. /\ NPow' = NPow /\ BPow' = 0 /\ OPow' = BPow /\ OPow = 0
      BY <1>1, <2>1, <2>2 DEF NPow, BPow, OPow
    <3> QED BY <3>1, Numerals, PowIs
  <2>4. UNCHANGED AtClientFront
    BY <2>1, <2>2, StageNames, SameInHand DEF AtClientFront
  <2>5. UNCHANGED <<AtKeyClient, AtEncoder, AtSender>>
    BY <2>1, <2>2, StageNames DEF AtKeyClient, AtEncoder, AtSender
  <2>6. CASE pc["powClient"] = "last"
    <3>1. pc' = [pc EXCEPT !["powClient"] = "closing"] /\ "closing" \in After[pc["powClient"]]
      BY <2>1, <2>6, AfterIs DEF AfterBatch
    <3>2. Turns' \in Int /\ Turns' + 1 < Turns
      BY <2>1, <3>1, StageNames, TurnShrinks
    <3> QED BY <2>3, <2>4, <2>5, <3>2, Summands DEF Work
  <2>7. CASE pc["powClient"] = "run"
    <3>1. pc' = pc
      BY <1>1, <2>1, <2>7 DEF AfterBatch
    <3>2. BPow > 0
      BY <2>1, <2>7, Numbers DEF BPow
    <3>9. UNCHANGED <<Turns>>
      BY <2>1, <3>1, SameAhead DEF Turns, StoreTurn
    <3> QED BY <2>3, <2>4, <2>5, <3>2, <3>9, Summands DEF Work
  <2> QED BY <2>1, <2>6, <2>7
<1>5. CASE ProofFails
  <2>1. /\ powBatch' = << >> /\ pc' = [pc EXCEPT !["powClient"] = "closing"]
        /\ pc["powClient"] \in {"run", "last"} /\ failed \subseteq failed'
        /\ UNCHANGED <<cut, queue, done, outbox, keyBatch, sendBatch, wire>>
    BY <1>5 DEF ProofFails, PowBatchDue
  <2>2. AtPowClient' <= AtPowClient /\ AtPowClient' \in Int
    <3>1. NPow' = NPow /\ BPow' = 0 /\ OPow' = OPow
      BY <1>1, <2>1 DEF NPow, BPow, OPow
    <3> QED BY <3>1, Numerals, PowIs
  <2>3. "closing" \in After[pc["powClient"]]
    BY <2>1, AfterIs
  <2>4. Turns' \in Int /\ Turns' + 1 < Turns
    BY <2>1, <2>3, StageNames, TurnShrinks
  <2>9. UNCHANGED <<AtClientFront, AtKeyClient, AtEncoder, AtSender>>
    BY <2>1, SameParts
  <2> QED BY <2>2, <2>4, <2>9, Summands DEF Work
<1> QED BY <1>3, <1>4, <1>5

(* A message sent, and one handled.                                        *)
LEMMA MessageShrinks ==
  ASSUME Types, SendChunks \/ SendRecipe \/ Serve \/ StoreFails
  PROVE  Work' < Work
<1>1. /\ wire \in Seq(Message) /\ sendBatch \in Seq(ChunkID) /\ Len(<< >>) = 0
      /\ pc \in [Worker -> {"run", "last", "closing", "ending", "exit"}]
  BY DEF Types, TypeOK
<1>2. \A m \in Message : Len(Append(wire, m)) = Len(wire) + 1
  BY <1>1
<1>3. CASE SendChunks
  <2>1. /\ Len(sendBatch) = SendBatch \/ pc["sender"] = "last"
        /\ AfterBatch("sender") /\ sendBatch' = << >>
        /\ UNCHANGED <<cut, queue, done, outbox, keyBatch, powBatch, failed>>
    BY <1>3 DEF SendChunks, SendDue
  <2>2. Len(wire') = Len(wire) + 1
    BY <1>2, <1>3, SenderMessages
  <2>3. AtSender' = AtSender + 1 - 2 * BSend /\ BSend \in Nat
    <3>1. NSend' = NSend /\ BSend' = 0 /\ NWire' = NWire + 1
      BY <1>1, <2>1, <2>2 DEF NSend, BSend, NWire
    <3> QED BY <3>1, Numerals, SenderIs
  <2>4. CASE pc["sender"] = "last"
    <3>1. pc' = [pc EXCEPT !["sender"] = "closing"] /\ "closing" \in After[pc["sender"]]
      BY <2>1, <2>4, AfterIs DEF AfterBatch
    <3>2. Turns' \in Int /\ Turns' + 1 < Turns
      BY <2>1, <3>1, StageNames, TurnShrinks
    <3>3. AtSender' <= AtSender + 1 /\ AtSender' \in Int
      BY <2>3, Summands
    <3>9. UNCHANGED <<AtClientFront, AtKeyClient, AtEncoder, AtPowClient>>
      BY <2>1, SameParts
    <3> QED BY <3>2, <3>3, <3>9, Summands DEF Work
  <2>5. CASE pc["sender"] # "last"
    <3>1. pc' = pc
      BY <1>1, <2>1, <2>5 DEF AfterBatch
    <3>2. BSend > 0
      BY <2>1, <2>5, Numbers DEF BSend
    <3>3. AtSender' < AtSender /\ AtSender' \in Int
      BY <2>3, <3>2, Summands
    <3>9. UNCHANGED <<AtClientFront, AtKeyClient, AtEncoder, AtPowClient, Turns>>
      BY <2>1, <3>1, SameParts
    <3> QED BY <3>3, <3>9, Summands DEF Work
  <2> QED BY <2>4, <2>5
<1>4. CASE SendRecipe
  <2>1. /\ pc["sender"] = "closing" /\ pc' = [pc EXCEPT !["sender"] = "ending"]
        /\ UNCHANGED <<cut, queue, done, outbox, keyBatch, powBatch, sendBatch, failed>>
    BY <1>4 DEF SendRecipe, client
  <2>2. Len(wire') = Len(wire) + 1
    BY <1>2, <1>4, SenderMessages
  <2>3. AtSender' = AtSender + 1
    <3>1. NSend' = NSend /\ BSend' = BSend /\ NWire' = NWire + 1
      BY <2>1, <2>2 DEF NSend, BSend, NWire
    <3> QED BY <3>1, Numerals, SenderIs
  <2>4. "ending" \in After[pc["sender"]]
    BY <2>1, AfterIs
  <2>5. Turns' \in Int /\ Turns' + 1 < Turns
    BY <2>1, <2>4, StageNames, TurnShrinks
  <2>9. UNCHANGED <<AtClientFront, AtKeyClient, AtEncoder, AtPowClient>>
    BY <2>1, SameParts
  <2> QED BY <2>3, <2>5, <2>9, Summands DEF Work
<1>5. CASE Serve
  <2>1. UNCHANGED <<cut, queue, done, pc, outbox, keyBatch, powBatch, sendBatch, failed>>
    BY <1>5 DEF Serve, client
  <2>2. Len(wire) \in Nat /\ Len(wire') + 1 = Len(wire)
    BY <1>5, WireServed
  <2>3. AtSender' = AtSender - 1
    <3>1. NSend' = NSend /\ BSend' = BSend /\ NWire' + 1 = NWire /\ NWire' \in Int
      <4>1. Len(wire') = Len(wire) - 1
        BY <1>1, <1>5 DEF Serve
      <4> QED BY <2>1, <2>2, <4>1 DEF NSend, BSend, NWire
    <3> QED BY <3>1, Numerals, SenderIs
  <2>9. UNCHANGED <<AtClientFront, AtKeyClient, AtEncoder, AtPowClient, Turns>>
    BY <2>1, SameParts
  <2> QED BY <2>3, <2>9, Summands DEF Work
<1>6. CASE StoreFails
  <2>1. /\ "store" \notin failed /\ "store" \in failed'
        /\ UNCHANGED <<cut, queue, done, pc, outbox, keyBatch, powBatch, sendBatch, wire>>
    BY <1>6 DEF StoreFails, client
  <2>2. Turns' = Turns - 1
    <3>1. StoreTurn = 1 /\ StoreTurn' = 0
      BY <2>1 DEF StoreTurn
    <3>2. Ahead' = Ahead /\ Cardinality(Ahead) \in Nat
      BY <2>1, WorkTypes, SameAhead
    <3> QED BY <2>1, <3>1, <3>2 DEF Turns
  <2>9. UNCHANGED <<AtClientFront, AtKeyClient, AtEncoder, AtPowClient, AtSender>>
    BY <2>1, SameParts
  <2> QED BY <2>2, <2>9, Summands DEF Work
<1> QED BY <1>3, <1>4, <1>5, <1>6

(* Every step of an upload takes some of its work away, whatever its sizes *)
(* and whatever fails. With DeadlockFree that is why it terminates.        *)
THEOREM Progress == Spec => WorkShrinks
<1>1. IInv /\ EndInv /\ [Next]_vars => [Work' < Work]_vars
  <2> SUFFICES ASSUME Types, OneInHand, Next
               PROVE  Work' < Work
    BY DEF IInv, EndInv
  <2>1. ASSUME NEW w \in Worker \ {"sender"}, Push(w) \/ Relay(w) \/ Finish(w)
        PROVE  Work' < Work
    BY <2>1, PushShrinks, RelayShrinks, EndShrinks
  <2>2. CASE ExchangeFails \/ SendEnd \/ SendFails
    BY <2>2, StageNames, EndShrinks
  <2>3. ASSUME NEW w \in Worker, NoticeDone(w)
        PROVE  Work' < Work
    BY <2>3, EndShrinks
  <2> QED BY <2>1, <2>2, <2>3, Actions, CutShrinks, TakeShrinks, BatchShrinks, MessageShrinks
<1> QED BY <1>1, Invariance, Endings, PTL DEF Spec, WorkShrinks
=============================================================================
