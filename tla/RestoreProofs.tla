---------------------------- MODULE RestoreProofs ----------------------------
(***************************************************************************)
(* Proofs about RestorePath: what a restore writes is what was uploaded,   *)
(* the server's window stays inside the list, and the threads of a restore *)
(* do not wait for each other for ever, for every recipe, batch size,      *)
(* queue and number of clients, with lost connections and later uploads.  *)
(*                                                                         *)
(* A client is seen together with its connection, its data thread and its  *)
(* recipe file: s, k, q, a and rs below stand for session[c], client[c],   *)
(* request[c], response[c] and recipeFile[FileOf[c]]. The argument has two *)
(* parts. The conversation keeps its order: which messages may be on their *)
(* way when, and that recipe and list reach the other end before anything  *)
(* is asked by them (Requests, Responses, Phases). And the chunks from the *)
(* first one written to the last one sent are in one row: written, in the  *)
(* queue, being decrypted, in the batches on their way (InRow).            *)
(***************************************************************************)
EXTENDS RestorePath, SequenceTheorems, TLAPS

Sizes == {Size(rs) : rs \in Seq(Recipes)} \cup {0}
Sent == [id : Nat, data : Chunk \cup {Zeros}]

Requested == [type : {"recipe"}, file : FileName]
               \cup [type : {"list"}, list : Seq(Chunk)]
               \cup [type : {"chunks", "exit"}]
Responded == [type : {"size"}, found : BOOLEAN]
               \cup [type : {"recipe"}, size : Sizes, recipes : Seq(Recipes)]
               \cup [type : {"chunks"}, chunks : Seq(Sent)]
Session == [at : {"recv", "recipe", "chunks", "exit"}, file : FileName \cup {"none"},
            size : Sizes, head : Seq(Chunk), list : Seq(Chunk),
            start : 0 .. UintMod - 1, end : 0 .. UintMod - 1, restored : Nat]
Process == [main : {"init", "size", "recipe", "threads", "done", "failed"},
            recv : {"ask", "run", "exit"}, retr : {"run", "exit"}, list : Seq(Chunk),
            received : Nat, todo : Seq(Sent), queue : Seq(Data), output : Seq(Data)]

Types ==
  /\ recipeFile \in [FileName -> Seq(Recipes)]
  /\ request \in [Client -> Seq(Requested)]
  /\ response \in [Client -> Seq(Responded)]
  /\ session \in [Client -> Session]
  /\ client \in [Client -> Process]
  /\ \A c \in Client : Len(client[c].queue) <= QueueCapacity
  /\ broken \subseteq Client
-----------------------------------------------------------------------------
Link(c) == IF c \in broken THEN "lost" ELSE "kept"

Has(r) == IF r \in Indexed THEN r ELSE Garbage
Unserved(s) == s.start = 0 /\ s.end = 0 /\ s.restored = 0
Unfetched(k) == k.received = 0 /\ k.todo = << >> /\ k.queue = << >> /\ k.output = << >>
WithList(k) == k.main \in {"threads", "done"}

Requests(f, s, k, q, a, rs, link) == \A i \in DOMAIN q :
  /\ q[i].type = "recipe" =>
       /\ Len(q) = 1 /\ q[i].file = f /\ a = << >> /\ s.at = "recv"
       /\ k.main = "size" \/ (k.main = "failed" /\ link = "lost")
  /\ q[i].type = "list" =>
       /\ i = 1 /\ q[i].list = rs[1] /\ s.at = "recv" /\ WithList(k)
  /\ q[i].type = "chunks" =>
       /\ s.at = "recv" /\ WithList(k) /\ k.recv # "ask" /\ Unserved(s)
       /\ (i = 1 /\ s.list = rs[1]) \/ (i = 2 /\ q[1].type = "list")
  /\ q[i].type = "exit" => i = Len(q) /\ k.main \in {"done", "failed"}

Responses(s, k, q, a, rs) == \A i \in DOMAIN a :
  /\ a[i].type = "size" =>
       /\ i = 1 /\ k.main = "size"
       /\ a[i] = [type |-> "size", found |-> TRUE] \/ (Len(a) = 1 /\ s.at # "recipe")
  /\ a[i].type = "recipe" =>
       /\ i = Len(a) /\ s.at \in {"recv", "exit"}
       /\ \/ k.main = "size" /\ i = 2 /\ a[1].type = "size"
          \/ k.main = "recipe" /\ i = 1
       /\ rs # << >> /\ a[i].recipes # << >> /\ a[i].recipes[1] = rs[1] /\ s.head = rs[1]
  /\ a[i].type = "chunks" => WithList(k)

Phases(f, s, k, q, a, rs, link) ==
  /\ k.main = "init" => q = << >> /\ a = << >> /\ s.at \in {"recv", "exit"}
  /\ k.main = "size" /\ q # << >> => q[1].type = "recipe"
  /\ k.main = "size" /\ a # << >> => a[1].type = "size"
  /\ k.main = "recipe" => q = << >>
  /\ ~ WithList(k) => /\ Unserved(s) /\ s.at # "chunks"
                      /\ Unfetched(k) /\ k.recv = "ask" /\ k.retr = "run"
  /\ s.at = "recipe" =>
       /\ k.main \in {"size", "recipe"} \/ (k.main = "failed" /\ link = "lost")
       /\ rs # << >> /\ s.file = f
       /\ Len(a) <= 1 /\ (k.main = "recipe" => a = << >>)
       /\ k.main = "size" /\ link = "kept" => a # << >>
  /\ s.at = "exit" => k.main \in {"done", "failed"} \/ link = "lost"

(* The batches on their way, a, are the chunks of r from one number to     *)
(* another, unless some are lost; batch i starts after chunk p[i].         *)
InRow(from, to, a, r, link) ==
  \E p \in [1 .. Len(a) + 1 -> 0 .. Len(r)] :
    /\ p[1] = from
    /\ \A i \in 1 .. Len(a) + 1 : p[i] <= to
    /\ link = "kept" => p[Len(a) + 1] = to
    /\ \A i \in DOMAIN a :
         /\ p[i + 1] = p[i] + Len(a[i].chunks)
         /\ \A j \in DOMAIN a[i].chunks :
              a[i].chunks[j] = [id |-> p[i] + j, data |-> Restored(r[p[i] + j])]

Taken(k, rs) ==
  /\ Len(k.output) + Len(k.queue) + Len(k.todo) = k.received /\ k.received <= Len(rs[1])
  /\ \A i \in DOMAIN k.output : k.output[i] = Has(rs[1][i])
  /\ \A i \in DOMAIN k.queue : k.queue[i] = Has(rs[1][Len(k.output) + i])
  /\ \A i \in DOMAIN k.todo : LET n == Len(k.output) + Len(k.queue) + i IN
       k.todo[i] = [id |-> n, data |-> Restored(rs[1][n])]

Window(s) ==
  /\ s.start = s.restored /\ s.restored <= Len(s.head)
  /\ s.at = "chunks" /\ s.restored # Len(s.head) => s.start <= s.end /\ s.end <= Len(s.head)

Threads(s, k, q, a, rs, link) == WithList(k) =>
  /\ rs # << >> /\ k.list = rs[1] /\ s.head = rs[1] /\ s.at # "recipe"
  /\ s.at = "chunks" => s.list = rs[1] /\ k.recv # "ask"
  /\ k.recv = "ask" => k.main = "threads" /\ Unserved(s) /\ Unfetched(k) /\ a = << >>
  /\ k.recv = "ask" /\ link = "kept" => \/ q = << >> /\ s.list = rs[1]
                                        \/ Len(q) = 1 /\ q[1].type = "list"
  /\ Window(s)
  /\ InRow(k.received, s.restored, a, rs[1], link)
  /\ Taken(k, rs)
  /\ k.retr = "exit" => Len(k.output) = Len(rs[1])
  /\ k.main = "done" => k.retr = "exit"

Exact(f, s, k, q, a, rs, link) ==
  /\ Requests(f, s, k, q, a, rs, link)
  /\ Responses(s, k, q, a, rs)
  /\ Phases(f, s, k, q, a, rs, link)
  /\ Threads(s, k, q, a, rs, link)

Conversation(c) ==
  Exact(FileOf[c], session[c], client[c], request[c], response[c], recipeFile[FileOf[c]], Link(c))

IInv == Types /\ \A c \in Client : Conversation(c)
-----------------------------------------------------------------------------
(* Nobody has asked for anything.                                          *)
LEMMA InitInv == Init => IInv
<1> SUFFICES ASSUME Init PROVE IInv
  OBVIOUS
<1> USE DEF Init, NewSession, NewClient
<1>1. Types
  <2>1. NewSession \in Session
    BY RestoreAssumption DEF Session, Sizes, RestoreAssumption
  <2>2. NewClient \in Process
    BY DEF Process
  <2>3. Len(NewClient.queue) <= QueueCapacity
    BY RestoreAssumption DEF RestoreAssumption
  <2> QED
    BY <2>1, <2>2, <2>3 DEF Types
<1>2. ASSUME NEW c \in Client PROVE Conversation(c)
  <2>1. Len(request[c]) = 0 /\ Len(response[c]) = 0
    OBVIOUS
  <2> QED
    BY <2>1 DEF Conversation, Exact, Requests, Responses, Phases, Threads, WithList,
               Unserved, Unfetched, Link
<1> QED
  BY <1>1, <1>2 DEF IInv

(* A step of client c, of its connection or of its data thread has to be   *)
(* looked at for c only.                                                   *)
Moves(c) ==
  /\ recipeFile' = recipeFile /\ broken' = broken
  /\ session' \in [Client -> Session] /\ client' \in [Client -> Process]
  /\ request' \in [Client -> Seq(Requested)] /\ response' \in [Client -> Seq(Responded)]
  /\ Len(client'[c].queue) <= QueueCapacity
  /\ \A d \in Client \ {c} : /\ session'[d] = session[d] /\ client'[d] = client[d]
                             /\ request'[d] = request[d] /\ response'[d] = response[d]

(* A step of one client keeps the conversations of the others.             *)
LEMMA OneClient ==
  ASSUME NEW c \in Client, IInv, Moves(c),
         Exact(FileOf[c], session'[c], client'[c], request'[c], response'[c],
               recipeFile[FileOf[c]], Link(c))
  PROVE  IInv'
<1>1. Types'
  BY DEF Types, Moves, IInv
<1>2. ASSUME NEW d \in Client \ {c} PROVE Conversation(d)'
  BY <1>2 DEF IInv, Conversation, Moves, Link
<1>3. Conversation(c)'
  BY DEF Conversation, Moves, Link
<1> QED
  BY <1>1, <1>2, <1>3 DEF IInv

(* The types of what belongs to a client.                                  *)
LEMMA OfClient ==
  ASSUME Types, NEW c \in Client
  PROVE  /\ session[c] \in Session /\ client[c] \in Process
         /\ request[c] \in Seq(Requested) /\ response[c] \in Seq(Responded)
         /\ recipeFile[FileOf[c]] \in Seq(Recipes)
         /\ FileOf[c] \in FileName
         /\ Link(c) \in {"lost", "kept"}
  BY RestoreAssumption DEF Types, RestoreAssumption, Link

(* A sequence after one more element.                                      *)
LEMMA Appended ==
  ASSUME NEW S, NEW q \in Seq(S), NEW m \in S
  PROVE  /\ Append(q, m) \in Seq(S) /\ Len(Append(q, m)) = Len(q) + 1
         /\ DOMAIN Append(q, m) = 1 .. Len(q) + 1
         /\ \A i \in DOMAIN q : Append(q, m)[i] = q[i]
         /\ Append(q, m)[Len(q) + 1] = m
  OBVIOUS

(* A sequence without its first element.                                   *)
LEMMA WithoutFirst ==
  ASSUME NEW S, NEW q \in Seq(S), q # << >>
  PROVE  /\ Tail(q) \in Seq(S) /\ Len(Tail(q)) = Len(q) - 1
         /\ DOMAIN Tail(q) = 1 .. Len(q) - 1 /\ 1 \in DOMAIN q /\ q[1] \in S
         /\ \A i \in DOMAIN Tail(q) : Tail(q)[i] = q[i + 1]
  OBVIOUS

(* The beginning of a sequence.                                            *)
LEMMA CutShort ==
  ASSUME NEW S, NEW q \in Seq(S), NEW n \in 0 .. Len(q)
  PROVE  /\ SubSeq(q, 1, n) \in Seq(S) /\ Len(SubSeq(q, 1, n)) = n
         /\ DOMAIN SubSeq(q, 1, n) = 1 .. n /\ 1 .. n \subseteq DOMAIN q
         /\ \A i \in 1 .. n : SubSeq(q, 1, n)[i] = q[i]
  OBVIOUS

(* A request reaches the connection, unless it is lost.                    *)
LEMMA SendsRequest ==
  ASSUME Types, NEW c \in Client, NEW m \in Requested, SendRequest(c, m)
  PROVE  /\ request' \in [Client -> Seq(Requested)]
         /\ \A d \in Client \ {c} : request'[d] = request[d]
         /\ Link(c) = "lost" => request'[c] = request[c]
         /\ Link(c) = "kept" => request'[c] = Append(request[c], m)
  BY DEF Types, SendRequest, Link

(* A response reaches the connection, unless it is lost.                   *)
LEMMA SendsResponse ==
  ASSUME Types, NEW c \in Client, NEW m \in Responded, SendResponse(c, m)
  PROVE  /\ response' \in [Client -> Seq(Responded)]
         /\ \A d \in Client \ {c} : response'[d] = response[d]
         /\ Link(c) = "lost" => response'[c] = response[c]
         /\ Link(c) = "kept" => response'[c] = Append(response[c], m)
<1>1. CASE c \in broken /\ UNCHANGED response
  BY <1>1 DEF Types, Link
<1>2. CASE c \notin broken /\ response' = [response EXCEPT ![c] = Append(@, m)]
  BY <1>2 DEF Types, Link
<1> QED
  BY <1>1, <1>2 DEF SendResponse

(* The data thread has taken a request off the connection.                 *)
LEMMA Received ==
  ASSUME Types, NEW c \in Client, NEW t, Receives(c, t)
  PROVE  /\ session[c].at = "recv" /\ request[c] # << >>
         /\ 1 \in DOMAIN request[c] /\ request[c][1].type = t
         /\ request' \in [Client -> Seq(Requested)]
         /\ \A d \in Client \ {c} : request'[d] = request[d]
         /\ request'[c] = Tail(request[c])
  BY WithoutFirst DEF Types, Receives

(* The client has taken a response off the connection.                     *)
LEMMA Took ==
  ASSUME Types, NEW c \in Client, NEW t, Takes(c, t)
  PROVE  /\ response[c] # << >> /\ 1 \in DOMAIN response[c] /\ response[c][1].type = t
         /\ response' \in [Client -> Seq(Responded)]
         /\ \A d \in Client \ {c} : response'[d] = response[d]
         /\ response'[c] = Tail(response[c])
  BY WithoutFirst DEF Types, Takes

(* A step of the client of c, which may send and may take.                 *)
LEMMA ClientMoves ==
  ASSUME Types, NEW c \in Client, NEW k \in Process, Len(k.queue) <= QueueCapacity,
         client' = [client EXCEPT ![c] = k],
         recipeFile' = recipeFile, broken' = broken, session' = session,
         request' \in [Client -> Seq(Requested)],
         \A d \in Client \ {c} : request'[d] = request[d],
         response' \in [Client -> Seq(Responded)],
         \A d \in Client \ {c} : response'[d] = response[d]
  PROVE  Moves(c)
<1>1. /\ client' \in [Client -> Process] /\ client'[c] = k
      /\ \A d \in Client \ {c} : client'[d] = client[d]
  BY DEF Types
<1>2. session' \in [Client -> Session] /\ \A d \in Client \ {c} : session'[d] = session[d]
  BY DEF Types
<1> QED
  BY <1>1, <1>2 DEF Moves

(* Where the client has come does not change what it has queued.           *)
LEMMA NewPhase ==
  ASSUME Types, NEW c \in Client, NEW phase,
         client' = [client EXCEPT ![c].main = phase]
  PROVE  /\ client' = [client EXCEPT ![c] = client'[c]]
         /\ Len(client'[c].queue) <= QueueCapacity
<1>1. client[c] \in Process /\ Len(client[c].queue) <= QueueCapacity
  BY DEF Types
<1>2. client'[c] = [client[c] EXCEPT !.main = phase]
  BY DEF Types
<1>3. client'[c].queue = client[c].queue
  BY <1>1, <1>2 DEF Process
<1>4. client' = [client EXCEPT ![c] = client'[c]]
  BY <1>2
<1> QED
  BY <1>1, <1>3, <1>4

(* The recipe is asked for when nothing else is on its way.                *)
LEMMA AskRecipeInv ==
  ASSUME IInv, NEW c \in Client, AskRecipe(c)
  PROVE  IInv'
<1> DEFINE m == [type |-> "recipe", file |-> FileOf[c]]
           s == session[c] k == client[c] q == request[c] a == response[c]
           rs == recipeFile[FileOf[c]] k2 == client'[c] q2 == request'[c]
<1>1. /\ Types /\ Exact(FileOf[c], s, k, q, a, rs, Link(c))
      /\ s \in Session /\ k \in Process /\ q \in Seq(Requested) /\ m \in Requested
  BY OfClient DEF IInv, Conversation, Requested
<1>2. /\ q = << >> /\ a = << >> /\ s.at \in {"recv", "exit"}
      /\ Unserved(s) /\ Unfetched(k) /\ k.recv = "ask" /\ k.retr = "run"
      /\ s.at = "exit" => Link(c) = "lost"
  BY <1>1 DEF AskRecipe, Exact, Phases, WithList
<1>3. q2 = q \/ (Link(c) = "kept" /\ q2 = Append(q, m))
  BY <1>1, SendsRequest DEF AskRecipe, Link
<1>4. Len(q2) = 0 \/ (Len(q2) = 1 /\ q2[1] = m /\ Link(c) = "kept")
  <2> HIDE DEF q2, m, q
  <2> QED
    BY <1>1, <1>2, <1>3, Appended
<1>5. k2 = [k EXCEPT !.main = "size"] /\ k2 \in Process
  BY <1>1 DEF AskRecipe, Types, Process
<1>6. Moves(c)
  <2>1. /\ SendRequest(c, m) /\ client' = [client EXCEPT ![c].main = "size"]
        /\ recipeFile' = recipeFile /\ broken' = broken /\ session' = session
        /\ response' = response
    BY DEF AskRecipe
  <2>2. /\ request' \in [Client -> Seq(Requested)]
        /\ \A d \in Client \ {c} : request'[d] = request[d]
    BY <1>1, <2>1, SendsRequest
  <2>3. response' \in [Client -> Seq(Responded)]
    BY <1>1, <2>1 DEF Types
  <2>4. client' = [client EXCEPT ![c] = k2] /\ Len(k2.queue) <= QueueCapacity
    BY <1>1, <2>1, NewPhase
  <2> HIDE DEF m, k, s, q, a, rs, k2, q2
  <2> QED
    BY <1>1, <1>5, <2>1, <2>2, <2>3, <2>4, ClientMoves
<1>7. Exact(FileOf[c], s, k2, q2, a, rs, Link(c))
  <2>1. k2.main = "size" /\ k2.recv = "ask" /\ k2.retr = "run" /\ Unfetched(k2)
    BY <1>1, <1>2, <1>5 DEF Process, Unfetched
  <2> HIDE DEF m, s, k, q, a, rs, k2, q2
  <2>2. Requests(FileOf[c], s, k2, q2, a, rs, Link(c))
    BY <1>2, <1>4, <2>1 DEF m, Requests, q2
  <2>3. Responses(s, k2, q2, a, rs)
    BY <1>2 DEF Responses
  <2>4. Phases(FileOf[c], s, k2, q2, a, rs, Link(c))
    BY <1>2, <1>4, <2>1 DEF Phases, WithList, m, q2
  <2>5. Threads(s, k2, q2, a, rs, Link(c))
    BY <2>1 DEF Threads, WithList
  <2> QED
    BY <2>2, <2>3, <2>4, <2>5 DEF Exact
<1> QED
  BY <1>6, <1>7, OneClient DEF AskRecipe

(* Nothing on its way, nothing served: an empty row.                       *)
LEMMA EmptyRow ==
  ASSUME NEW r \in Seq(Chunk), NEW a, Len(a) = 0, DOMAIN a = {}, NEW link
  PROVE  InRow(0, 0, a, r, link)
<1> DEFINE p == [i \in 1 .. Len(a) + 1 |-> 0]
<1>1. p \in [1 .. Len(a) + 1 -> 0 .. Len(r)] /\ p[1] = 0 /\ p[Len(a) + 1] = 0
  OBVIOUS
<1>2. /\ \A i \in 1 .. Len(a) + 1 : p[i] <= 0
      /\ link = "kept" => p[Len(a) + 1] = 0
      /\ \A i \in DOMAIN a :
         /\ p[i + 1] = p[i] + Len(a[i].chunks)
         /\ \A j \in DOMAIN a[i].chunks :
              a[i].chunks[j] = [id |-> p[i] + j, data |-> Restored(r[p[i] + j])]
  BY <1>1
<1> HIDE DEF p
<1> QED
  BY <1>1, <1>2 DEF InRow

(* The first recipe of a file that has one.                                *)
LEMMA FirstRecipe ==
  ASSUME NEW rs \in Seq(Recipes), rs # << >>
  PROVE  rs[1] \in Recipes /\ rs[1] \in Seq(Chunk) /\ Len(rs[1]) \in Nat
  BY RestoreAssumption DEF RestoreAssumption

(* What unsigned arithmetic gives.                                         *)
LEMMA Modulo ==
  ASSUME NEW x \in Int
  PROVE  x % UintMod \in 0 .. UintMod - 1 /\ (x \in 0 .. UintMod - 1 => x % UintMod = x)
<1>1. UintMod \in Nat \ {0}
  BY RestoreAssumption DEF RestoreAssumption
<1> QED
  BY <1>1

(* The types of what messages carry.                                       *)
LEMMA OfType ==
  ASSUME NEW m
  PROVE  /\ m \in Requested /\ m.type = "list" => m.list \in Seq(Chunk)
         /\ m \in Requested /\ m.type = "recipe" => m.file \in FileName
         /\ m \in Responded /\ m.type = "recipe" => m.recipes \in Seq(Recipes)
         /\ m \in Responded /\ m.type = "chunks" => m.chunks \in Seq(Sent)
  BY DEF Requested, Responded

(* The size arrives, and with it the answer to the only request there was. *)
LEMMA GetSizeInv ==
  ASSUME IInv, NEW c \in Client, GetSize(c)
  PROVE  IInv'
<1> DEFINE m == [type |-> "exit"]
           s == session[c] k == client[c] q == request[c] a == response[c]
           rs == recipeFile[FileOf[c]] k2 == client'[c] q2 == request'[c] a2 == response'[c]
<1>1. /\ Types /\ Exact(FileOf[c], s, k, q, a, rs, Link(c))
      /\ s \in Session /\ k \in Process /\ q \in Seq(Requested) /\ m \in Requested
      /\ a \in Seq(Responded)
  BY OfClient DEF IInv, Conversation, Requested
<1>2. a # << >> /\ 1 \in DOMAIN a /\ a[1].type = "size" /\ a2 = Tail(a)
  BY <1>1, Took DEF GetSize
<1>3. /\ a2 \in Seq(Responded) /\ Len(a2) = Len(a) - 1 /\ DOMAIN a2 = 1 .. Len(a) - 1
      /\ \A i \in DOMAIN a2 : a2[i] = a[i + 1] /\ i + 1 \in DOMAIN a
  BY <1>1, <1>2, WithoutFirst
<1>4. k.main = "size" /\ Len(q) = 0 /\ q = << >>
  BY <1>1, <1>2 DEF GetSize, Exact, Phases, Requests
<1>5. CASE a[1].found
  <2>0. client' = [client EXCEPT ![c].main = "recipe"] /\ request' = request
    BY <1>5, Zenon DEF GetSize
  <2>1. k2 = [k EXCEPT !.main = "recipe"] /\ k2 \in Process /\ q2 = q
    BY <1>1, <2>0 DEF Types, Process
  <2>2. Moves(c)
    <3>1. /\ Takes(c, "size") /\ recipeFile' = recipeFile /\ broken' = broken
          /\ session' = session
      BY DEF GetSize
    <3>2. /\ response' \in [Client -> Seq(Responded)]
          /\ \A d \in Client \ {c} : response'[d] = response[d]
      BY <1>1, <3>1, Took
    <3>3. request' \in [Client -> Seq(Requested)]
      BY <1>1, <2>0 DEF Types
    <3>4. client' = [client EXCEPT ![c] = k2] /\ Len(k2.queue) <= QueueCapacity
      BY <1>1, <2>0, NewPhase
    <3> HIDE DEF m, s, k, q, a, rs, k2, q2, a2
    <3> QED
      BY <1>1, <2>0, <2>1, <3>1, <3>2, <3>3, <3>4, ClientMoves
  <2>3. /\ k2.main = "recipe" /\ k2.recv = k.recv /\ k2.retr = k.retr /\ (Unfetched(k) => Unfetched(k2))
    BY <1>1, <2>1 DEF Process, Unfetched
  <2> HIDE DEF m, s, k, q, a, rs, k2, q2, a2
  <2>4. Requests(FileOf[c], s, k2, q2, a2, rs, Link(c))
    BY <1>4, <2>1 DEF Requests
  <2>5. Responses(s, k2, q2, a2, rs)
    BY <1>1, <1>3, <1>4, <2>3 DEF Exact, Responses, WithList
  <2>6. Phases(FileOf[c], s, k2, q2, a2, rs, Link(c))
    BY <1>1, <1>3, <1>4, <2>1, <2>3 DEF Exact, Phases, WithList
  <2>7. Threads(s, k2, q2, a2, rs, Link(c))
    BY <2>3 DEF Threads, WithList
  <2>8. Exact(FileOf[c], s, k2, q2, a2, rs, Link(c))
    BY <2>4, <2>5, <2>6, <2>7 DEF Exact
  <2> QED
    BY <2>2, <2>8, OneClient DEF GetSize, s, k2, q2, a2, rs
<1>6. CASE ~ a[1].found
  <2>0. /\ client' = [client EXCEPT ![c].main = "failed"] /\ SendRequest(c, m)
        /\ Takes(c, "size") /\ UNCHANGED <<broken, recipeFile, session>>
    BY <1>6, Zenon DEF GetSize
  <2>1. k2 = [k EXCEPT !.main = "failed"] /\ k2 \in Process
    BY <1>1, <2>0 DEF Types, Process
  <2>2. Moves(c)
    <3>1. /\ response' \in [Client -> Seq(Responded)]
          /\ \A d \in Client \ {c} : response'[d] = response[d]
      BY <1>1, <2>0, Took
    <3>2. /\ request' \in [Client -> Seq(Requested)]
          /\ \A d \in Client \ {c} : request'[d] = request[d]
      BY <1>1, <2>0, SendsRequest
    <3>3. client' = [client EXCEPT ![c] = k2] /\ Len(k2.queue) <= QueueCapacity
      BY <1>1, <2>0, NewPhase
    <3> HIDE DEF m, s, k, q, a, rs, k2, q2, a2
    <3> QED
      BY <1>1, <2>0, <2>1, <3>1, <3>2, <3>3, ClientMoves
  <2>3. /\ k2.main = "failed" /\ k2.recv = k.recv /\ k2.retr = k.retr /\ (Unfetched(k) => Unfetched(k2))
    BY <1>1, <2>1 DEF Process, Unfetched
  <2>9. q2 = q \/ q2 = Append(q, m)
    BY <1>1, <2>0, SendsRequest DEF Link
  <2>10. s.at # "recipe" /\ Len(a) = 1
    BY <1>1, <1>2, <1>6 DEF Exact, Responses
  <2> HIDE DEF m, s, k, q, a, rs, k2, q2, a2
  <2>11. DOMAIN q2 = 1 .. Len(q2) /\ (Len(q2) = 0 \/ (Len(q2) = 1 /\ q2[1] = m))
    BY <1>1, <1>4, <2>9, Appended
  <2>4. Requests(FileOf[c], s, k2, q2, a2, rs, Link(c))
    BY <2>3, <2>11 DEF Requests, m
  <2>5. Responses(s, k2, q2, a2, rs)
    BY <1>3, <2>10 DEF Responses
  <2>6. Phases(FileOf[c], s, k2, q2, a2, rs, Link(c))
    BY <1>1, <1>3, <1>4, <2>3, <2>10 DEF Exact, Phases, WithList
  <2>7. Threads(s, k2, q2, a2, rs, Link(c))
    BY <2>3 DEF Threads, WithList
  <2>8. Exact(FileOf[c], s, k2, q2, a2, rs, Link(c))
    BY <2>4, <2>5, <2>6, <2>7 DEF Exact
  <2> QED
    BY <2>2, <2>8, OneClient DEF GetSize, s, k2, q2, a2, rs
<1> QED
  BY <1>5, <1>6

(* The receiving thread has all: nothing of the row changes.               *)
LEMMA RecvDoneInv ==
  ASSUME IInv, NEW c \in Client, RecvDone(c)
  PROVE  IInv'
<1> DEFINE s == session[c] k == client[c] q == request[c] a == response[c]
           rs == recipeFile[FileOf[c]] k2 == client'[c]
<1>1. /\ Types /\ Exact(FileOf[c], s, k, q, a, rs, Link(c))
      /\ s \in Session /\ k \in Process /\ rs \in Seq(Recipes)
      /\ q \in Seq(Requested) /\ a \in Seq(Responded)
  BY OfClient DEF IInv, Conversation
<1>2. k2 = [k EXCEPT !.recv = "exit"] /\ k2 \in Process
  BY <1>1 DEF RecvDone, Types, Process
<1>3. /\ k.recv = "run" /\ k2.main = k.main /\ k2.recv = "exit" /\ k2.list = k.list
      /\ k2.retr = k.retr /\ k2.received = k.received
      /\ k2.todo = k.todo /\ k2.queue = k.queue /\ k2.output = k.output
  BY <1>1, <1>2 DEF RecvDone, Process
<1>8. Moves(c)
  BY <1>1, <1>2, <1>3 DEF RecvDone, Types, Moves
<1>9. Exact(FileOf[c], s, k2, q, a, rs, Link(c))
  <2> HIDE DEF s, k, q, a, rs, k2
  <2>6. Requests(FileOf[c], s, k2, q, a, rs, Link(c))
    BY <1>1, <1>3 DEF Exact, Requests, WithList
  <2>7. Responses(s, k2, q, a, rs)
    BY <1>1, <1>3 DEF Exact, Responses, WithList
  <2>8. Phases(FileOf[c], s, k2, q, a, rs, Link(c))
    BY <1>1, <1>3 DEF Exact, Phases, WithList
  <2>9. Threads(s, k2, q, a, rs, Link(c))
    BY <1>1, <1>3 DEF Exact, Threads, WithList, Taken
  <2> QED
    BY <2>6, <2>7, <2>8, <2>9 DEF Exact
<1> QED
  BY <1>8, <1>9, OneClient DEF RecvDone

(* The writing thread ends with as many chunks as the recipe has.          *)
LEMMA RetrDoneInv ==
  ASSUME IInv, NEW c \in Client, RetrDone(c)
  PROVE  IInv'
<1> DEFINE s == session[c] k == client[c] q == request[c] a == response[c]
           rs == recipeFile[FileOf[c]] k2 == client'[c]
<1>1. /\ Types /\ Exact(FileOf[c], s, k, q, a, rs, Link(c))
      /\ s \in Session /\ k \in Process /\ rs \in Seq(Recipes)
      /\ q \in Seq(Requested) /\ a \in Seq(Responded)
  BY OfClient DEF IInv, Conversation
<1>2. k2 = [k EXCEPT !.retr = "exit"] /\ k2 \in Process
  BY <1>1 DEF RetrDone, Types, Process
<1>3. /\ k2.main = k.main /\ k2.recv = k.recv /\ k2.list = k.list
      /\ k2.retr = "exit" /\ k2.received = k.received
      /\ k2.todo = k.todo /\ k2.queue = k.queue /\ k2.output = k.output
      /\ k.main = "threads" /\ Len(k.output) >= Len(k.list)
  BY <1>1, <1>2 DEF RetrDone, Process
<1>8. Moves(c)
  BY <1>1, <1>2, <1>3 DEF RetrDone, Types, Moves
<1>9. Exact(FileOf[c], s, k2, q, a, rs, Link(c))
  <2> HIDE DEF s, k, q, a, rs, k2
  <2>1. Len(k.output) = Len(rs[1])
    BY <1>1, <1>3, FirstRecipe DEF Exact, Threads, Taken, WithList, Process
  <2>6. Requests(FileOf[c], s, k2, q, a, rs, Link(c))
    BY <1>1, <1>3 DEF Exact, Requests, WithList
  <2>7. Responses(s, k2, q, a, rs)
    BY <1>1, <1>3 DEF Exact, Responses, WithList
  <2>8. Phases(FileOf[c], s, k2, q, a, rs, Link(c))
    BY <1>1, <1>3 DEF Exact, Phases, WithList
  <2>9. Threads(s, k2, q, a, rs, Link(c))
    BY <1>1, <1>3, <2>1 DEF Exact, Threads, WithList, Taken, Unfetched
  <2> QED
    BY <2>6, <2>7, <2>8, <2>9 DEF Exact
<1> QED
  BY <1>8, <1>9, OneClient DEF RetrDone

(* The chunks are asked for behind the list, or when the server has it.    *)
LEMMA AskChunksInv ==
  ASSUME IInv, NEW c \in Client, AskChunks(c)
  PROVE  IInv'
<1> DEFINE s == session[c] k == client[c] q == request[c] a == response[c]
           rs == recipeFile[FileOf[c]] k2 == client'[c] q2 == request'[c]
           m == [type |-> "chunks"]
<1>1. /\ Types /\ Exact(FileOf[c], s, k, q, a, rs, Link(c))
      /\ s \in Session /\ k \in Process /\ rs \in Seq(Recipes)
      /\ q \in Seq(Requested) /\ a \in Seq(Responded)
  BY OfClient DEF IInv, Conversation
<1>2. k2 = [k EXCEPT !.recv = "run"] /\ k2 \in Process /\ m \in Requested
  BY <1>1 DEF AskChunks, Types, Process, Requested
<1>3. /\ k2.main = k.main /\ k2.recv = "run" /\ k2.list = k.list
      /\ k2.retr = k.retr /\ k2.received = k.received
      /\ k2.todo = k.todo /\ k2.queue = k.queue /\ k2.output = k.output
      /\ k.main = "threads" /\ k.recv = "ask"
  BY <1>1, <1>2 DEF AskChunks, Process
<1>4. q2 = q \/ (Link(c) = "kept" /\ q2 = Append(q, m))
  BY <1>1, <1>2, SendsRequest DEF AskChunks, Link
<1>8. Moves(c)
  BY <1>1, <1>2, <1>3, SendsRequest DEF AskChunks, Types, Moves
<1>9. Exact(FileOf[c], s, k2, q2, a, rs, Link(c))
  <2> HIDE DEF m, s, k, q, a, rs, k2, q2
  <2>1. \A i \in DOMAIN q : q[i].type = "list" /\ i = 1 /\ s.at = "recv"
    BY <1>1, <1>3 DEF Exact, Requests, Requested
  <2>2. ASSUME q2 = Append(q, m), Link(c) = "kept"
        PROVE  Requests(FileOf[c], s, k2, q2, a, rs, Link(c))
    <3>1. s.at = "recv"
      BY <1>1, <1>3, <2>2 DEF Exact, Threads, Phases, WithList, Session
    <3>2. /\ DOMAIN q2 = 1 .. Len(q) + 1 /\ q2[Len(q) + 1] = m
          /\ \A i \in DOMAIN q : q2[i] = q[i]
      BY <1>1, <1>2, <2>2, Appended
    <3>3. Unserved(s) /\ \/ Len(q) = 0 /\ s.list = rs[1]
                         \/ Len(q) = 1 /\ q[1].type = "list"
      BY <1>1, <1>3, <2>2 DEF Exact, Threads, WithList
    <3>4. \A i \in DOMAIN q2 : i \in DOMAIN q \/ (i = Len(q) + 1 /\ q2[i].type = "chunks")
      BY <1>1, <3>2 DEF m
    <3> QED
      BY <1>1, <1>3, <2>1, <3>1, <3>2, <3>3, <3>4 DEF Exact, Requests, WithList
  <2>6. Requests(FileOf[c], s, k2, q2, a, rs, Link(c))
    <3>1. CASE q2 = q
      BY <1>1, <1>3, <3>1 DEF Exact, Requests, WithList
    <3> QED
      BY <1>4, <2>2, <3>1
  <2>7. Responses(s, k2, q2, a, rs)
    BY <1>1, <1>3 DEF Exact, Responses, WithList
  <2>8. Phases(FileOf[c], s, k2, q2, a, rs, Link(c))
    BY <1>1, <1>3 DEF Exact, Phases, WithList
  <2>9. Threads(s, k2, q2, a, rs, Link(c))
    BY <1>1, <1>3 DEF Exact, Threads, WithList, Taken
  <2> QED
    BY <2>6, <2>7, <2>8, <2>9 DEF Exact
<1> QED
  BY <1>8, <1>9, OneClient DEF AskChunks

(* The data thread leaves its loop.                                        *)
LEMMA BatchesDoneInv ==
  ASSUME IInv, NEW c \in Client, BatchesDone(c)
  PROVE  IInv'
<1> DEFINE s == session[c] k == client[c] q == request[c] a == response[c]
           rs == recipeFile[FileOf[c]] s2 == session'[c]
<1>1. /\ Types /\ Exact(FileOf[c], s, k, q, a, rs, Link(c))
      /\ s \in Session /\ k \in Process /\ rs \in Seq(Recipes)
      /\ q \in Seq(Requested) /\ a \in Seq(Responded)
  BY OfClient DEF IInv, Conversation
<1>2. s2 = [s EXCEPT !.at = "recv"] /\ s2 \in Session
  BY <1>1 DEF BatchesDone, Types, Session
<1>3. /\ s.at = "chunks" /\ s2.at = "recv" /\ s2.list = s.list /\ s2.head = s.head
      /\ s2.start = s.start /\ s2.end = s.end /\ s2.restored = s.restored
  BY <1>1, <1>2 DEF BatchesDone, Session
<1>8. Moves(c)
  BY <1>1, <1>2 DEF BatchesDone, Types, Moves
<1>9. Exact(FileOf[c], s2, k, q, a, rs, Link(c))
  <2> HIDE DEF s, k, q, a, rs, s2
  <2>6. Requests(FileOf[c], s2, k, q, a, rs, Link(c))
    BY <1>1, <1>3 DEF Exact, Requests, Phases
  <2>7. Responses(s2, k, q, a, rs)
    BY <1>1, <1>3 DEF Exact, Responses, Phases
  <2>8. Phases(FileOf[c], s2, k, q, a, rs, Link(c))
    BY <1>1, <1>3 DEF Exact, Phases
  <2>9. Threads(s2, k, q, a, rs, Link(c))
    BY <1>1, <1>3 DEF Exact, Threads, Window, Phases
  <2> QED
    BY <2>6, <2>7, <2>8, <2>9 DEF Exact
<1> QED
  BY <1>8, <1>9, OneClient DEF BatchesDone

(* Goodbye is the last message there is.                                   *)
LEMMA ServeExitInv ==
  ASSUME IInv, NEW c \in Client, ServeExit(c)
  PROVE  IInv'
<1> DEFINE s == session[c] k == client[c] q == request[c] a == response[c]
           rs == recipeFile[FileOf[c]] s2 == session'[c] q2 == request'[c]
<1>1. /\ Types /\ Exact(FileOf[c], s, k, q, a, rs, Link(c))
      /\ s \in Session /\ k \in Process /\ rs \in Seq(Recipes)
      /\ q \in Seq(Requested) /\ a \in Seq(Responded)
  BY OfClient DEF IInv, Conversation
<1>2. s2 = [s EXCEPT !.at = "exit"] /\ s2 \in Session
  BY <1>1 DEF ServeExit, Types, Session
<1>3. /\ s.at = "recv" /\ 1 \in DOMAIN q /\ q # << >> /\ q2 = Tail(q)
      /\ q[1].type = "exit"
  BY <1>1, Received DEF ServeExit
<1>4. /\ q2 \in Seq(Requested) /\ Len(q2) = Len(q) - 1 /\ DOMAIN q2 = 1 .. Len(q) - 1
      /\ \A i \in DOMAIN q2 : q2[i] = q[i + 1] /\ i + 1 \in DOMAIN q
  BY <1>1, <1>3, WithoutFirst
<1>5. /\ s2.at = "exit" /\ s2.list = s.list /\ s2.head = s.head
      /\ s2.start = s.start /\ s2.end = s.end /\ s2.restored = s.restored
  BY <1>1, <1>2 DEF Session
<1>8. Moves(c)
  BY <1>1, <1>2, Received DEF ServeExit, Types, Moves
<1>9. Exact(FileOf[c], s2, k, q2, a, rs, Link(c))
  <2> HIDE DEF s, k, q, a, rs, s2, q2
  <2>1. Len(q) = 1 /\ k.main \in {"done", "failed"}
    BY <1>1, <1>3 DEF Exact, Requests
  <2>6. Requests(FileOf[c], s2, k, q2, a, rs, Link(c))
    BY <1>4, <2>1 DEF Requests
  <2>7. Responses(s2, k, q2, a, rs)
    BY <1>1, <1>3, <1>5 DEF Exact, Responses
  <2>8. Phases(FileOf[c], s2, k, q2, a, rs, Link(c))
    BY <1>1, <1>3, <1>4, <1>5, <2>1 DEF Exact, Phases, Unserved
  <2>9. Threads(s2, k, q2, a, rs, Link(c))
    BY <1>1, <1>3, <1>4, <1>5, <2>1 DEF Exact, Threads, Window, Unserved
  <2> QED
    BY <2>6, <2>7, <2>8, <2>9 DEF Exact
<1> QED
  BY <1>8, <1>9, OneClient DEF ServeExit

(* The data thread of a lost connection ends.                              *)
LEMMA ServeLostInv ==
  ASSUME IInv, NEW c \in Client, ServeLost(c)
  PROVE  IInv'
<1> DEFINE s == session[c] k == client[c] q == request[c] a == response[c]
           rs == recipeFile[FileOf[c]] s2 == session'[c]
<1>1. /\ Types /\ Exact(FileOf[c], s, k, q, a, rs, Link(c))
      /\ s \in Session /\ k \in Process /\ rs \in Seq(Recipes)
      /\ q \in Seq(Requested) /\ a \in Seq(Responded)
  BY OfClient DEF IInv, Conversation
<1>2. s2 = [s EXCEPT !.at = "exit"] /\ s2 \in Session
  BY <1>1 DEF ServeLost, Types, Session
<1>3. /\ s.at = "recv" /\ q = << >> /\ Link(c) = "lost"
      /\ s2.at = "exit" /\ s2.list = s.list /\ s2.head = s.head
      /\ s2.start = s.start /\ s2.end = s.end /\ s2.restored = s.restored
  BY <1>1, <1>2 DEF ServeLost, Session, Link
<1>8. Moves(c)
  BY <1>1, <1>2 DEF ServeLost, Types, Moves
<1>9. Exact(FileOf[c], s2, k, q, a, rs, Link(c))
  <2> HIDE DEF s, k, q, a, rs, s2
  <2>6. Requests(FileOf[c], s2, k, q, a, rs, Link(c))
    BY <1>3 DEF Requests
  <2>7. Responses(s2, k, q, a, rs)
    BY <1>1, <1>3 DEF Exact, Responses
  <2>8. Phases(FileOf[c], s2, k, q, a, rs, Link(c))
    BY <1>1, <1>3 DEF Exact, Phases, Unserved
  <2>9. Threads(s2, k, q, a, rs, Link(c))
    BY <1>1, <1>3 DEF Exact, Threads, Window, Unserved
  <2> QED
    BY <2>6, <2>7, <2>8, <2>9 DEF Exact
<1> QED
  BY <1>8, <1>9, OneClient DEF ServeLost

(* The list that arrives is the first recipe of the file.                  *)
LEMMA ServeListInv ==
  ASSUME IInv, NEW c \in Client, ServeList(c)
  PROVE  IInv'
<1> DEFINE s == session[c] k == client[c] q == request[c] a == response[c]
           rs == recipeFile[FileOf[c]] s2 == session'[c] q2 == request'[c]
<1>1. /\ Types /\ Exact(FileOf[c], s, k, q, a, rs, Link(c))
      /\ s \in Session /\ k \in Process /\ rs \in Seq(Recipes)
      /\ q \in Seq(Requested) /\ a \in Seq(Responded)
  BY OfClient DEF IInv, Conversation
<1>3. /\ s.at = "recv" /\ 1 \in DOMAIN q /\ q # << >> /\ q2 = Tail(q)
      /\ q[1].type = "list"
  BY <1>1, Received DEF ServeList
<1>2. s2 = [s EXCEPT !.list = q[1].list] /\ s2 \in Session
  <2>1. q[1] \in Requested /\ q[1].list \in Seq(Chunk)
    BY <1>1, <1>3, OfType
  <2>2. s2 = [s EXCEPT !.list = q[1].list]
    BY <1>1 DEF ServeList, Types
  <2> QED
    BY <1>1, <2>1, <2>2 DEF Session
<1>4. /\ q2 \in Seq(Requested) /\ Len(q2) = Len(q) - 1 /\ DOMAIN q2 = 1 .. Len(q) - 1
      /\ \A i \in DOMAIN q2 : q2[i] = q[i + 1] /\ i + 1 \in DOMAIN q
  BY <1>1, <1>3, WithoutFirst
<1>5. /\ s2.at = "recv" /\ s2.list = q[1].list /\ s2.head = s.head /\ s2.file = s.file
      /\ s2.start = s.start /\ s2.end = s.end /\ s2.restored = s.restored
  BY <1>1, <1>2, <1>3 DEF Session
<1>8. Moves(c)
  BY <1>1, <1>2, Received DEF ServeList, Types, Moves
<1>9. Exact(FileOf[c], s2, k, q2, a, rs, Link(c))
  <2> HIDE DEF s, k, q, a, rs, s2, q2
  <2>1. s2.list = rs[1] /\ WithList(k)
    BY <1>1, <1>3, <1>5 DEF Exact, Requests
  <2>6. Requests(FileOf[c], s2, k, q2, a, rs, Link(c))
    BY <1>1, <1>3, <1>4, <1>5, <2>1 DEF Exact, Requests, Unserved
  <2>7. Responses(s2, k, q2, a, rs)
    BY <1>1, <1>3, <1>5, <2>1 DEF Exact, Responses
  <2>8. Phases(FileOf[c], s2, k, q2, a, rs, Link(c))
    BY <1>1, <1>3, <1>5, <2>1 DEF Exact, Phases, WithList
  <2>9. Threads(s2, k, q2, a, rs, Link(c))
    BY <1>1, <1>3, <1>4, <1>5, <2>1 DEF Exact, Threads, Window, Unserved
  <2> QED
    BY <2>6, <2>7, <2>8, <2>9 DEF Exact
<1> QED
  BY <1>8, <1>9, OneClient DEF ServeList

(* The first window: the whole list if it is shorter than a batch, less    *)
(* one chunk, and nothing otherwise.                                       *)
LEMMA ServeChunksInv ==
  ASSUME IInv, NEW c \in Client, ServeChunks(c)
  PROVE  IInv'
<1> DEFINE s == session[c] k == client[c] q == request[c] a == response[c]
           rs == recipeFile[FileOf[c]] s2 == session'[c] q2 == request'[c]
<1>1. /\ Types /\ Exact(FileOf[c], s, k, q, a, rs, Link(c))
      /\ s \in Session /\ k \in Process /\ rs \in Seq(Recipes)
      /\ q \in Seq(Requested) /\ a \in Seq(Responded)
  BY OfClient DEF IInv, Conversation
<1>3. /\ s.at = "recv" /\ 1 \in DOMAIN q /\ q # << >> /\ q2 = Tail(q)
      /\ q[1].type = "chunks"
  BY <1>1, Received DEF ServeChunks
<1>4. /\ q2 \in Seq(Requested) /\ Len(q2) = Len(q) - 1 /\ DOMAIN q2 = 1 .. Len(q) - 1
      /\ \A i \in DOMAIN q2 : q2[i] = q[i + 1] /\ i + 1 \in DOMAIN q
  BY <1>1, <1>3, WithoutFirst
<1>2. /\ s2 \in Session
      /\ s2.at = "chunks" /\ s2.list = s.list /\ s2.head = s.head
      /\ s2.start = s.start /\ s2.restored = s.restored
      /\ s2.end = IF Len(s.head) < BatchNumber THEN (Len(s.head) - 1) % UintMod ELSE s.end
  <2>1. s2 = [s EXCEPT !.at = "chunks",
                       !.end = IF Len(s.head) < BatchNumber THEN (Len(s.head) - 1) % UintMod
                               ELSE s.end]
    BY <1>1 DEF ServeChunks, Types
  <2>2. (Len(s.head) - 1) % UintMod \in 0 .. UintMod - 1
    <3>1. s.head \in Seq(Chunk)
      BY <1>1 DEF Session
    <3> DEFINE x == Len(s.head) - 1
    <3>2. x \in Int
      BY <3>1
    <3> HIDE DEF x
    <3>3. x % UintMod \in 0 .. UintMod - 1
      BY <3>2, Modulo
    <3> QED
      BY <3>3 DEF x
  <2> QED
    BY <1>1, <2>1, <2>2 DEF Session
<1>8. Moves(c)
  BY <1>1, <1>2, Received DEF ServeChunks, Types, Moves
<1>9. Exact(FileOf[c], s2, k, q2, a, rs, Link(c))
  <2> HIDE DEF s, k, q, a, rs, s2, q2
  <2>1. /\ WithList(k) /\ k.recv # "ask" /\ Unserved(s) /\ s.list = rs[1]
        /\ rs # << >> /\ s.head = rs[1]
    BY <1>1, <1>3 DEF Exact, Requests, Threads
  <2>2. \A i \in DOMAIN q2 : q2[i].type = "exit"
    BY <1>1, <1>3, <1>4 DEF Exact, Requests, Requested
  <2>3. Window(s2)
    <3>1. Len(s.head) \in Nat /\ Len(s.head) + BatchNumber < UintMod
      BY <1>1, <2>1, FirstRecipe, RestoreAssumption DEF RestoreAssumption
    <3>2. Len(s.head) > 0 => (Len(s.head) - 1) % UintMod = Len(s.head) - 1
      <4>1. BatchNumber \in Nat \ {0} /\ UintMod \in Nat
        BY RestoreAssumption DEF RestoreAssumption
      <4>2. Len(s.head) > 0 => Len(s.head) - 1 \in 0 .. UintMod - 1
        BY <3>1, <4>1
      <4> QED
        BY <3>1, <4>2, Modulo
    <3> QED
      BY <1>2, <2>1, <3>1, <3>2 DEF Window, Unserved
  <2>6. Requests(FileOf[c], s2, k, q2, a, rs, Link(c))
    BY <1>1, <1>4, <2>2 DEF Exact, Requests
  <2>7. Responses(s2, k, q2, a, rs)
    BY <1>1, <2>1 DEF Exact, Responses, WithList
  <2>8. Phases(FileOf[c], s2, k, q2, a, rs, Link(c))
    BY <1>1, <1>2, <2>1 DEF Exact, Phases, WithList
  <2>9. Threads(s2, k, q2, a, rs, Link(c))
    BY <1>1, <1>2, <2>1, <2>3 DEF Exact, Threads
  <2> QED
    BY <2>6, <2>7, <2>8, <2>9 DEF Exact
<1> QED
  BY <1>8, <1>9, OneClient DEF ServeChunks

(* Only one request for a recipe is ever on its way.                       *)
LEMMA ServeRecipeSizeInv ==
  ASSUME IInv, NEW c \in Client, ServeRecipeSize(c)
  PROVE  IInv'
<1> DEFINE s == session[c] k == client[c] q == request[c] a == response[c]
           rs == recipeFile[FileOf[c]] s2 == session'[c] q2 == request'[c] a2 == response'[c]
           m == [type |-> "size", found |-> rs # << >>]
<1>1. /\ Types /\ Exact(FileOf[c], s, k, q, a, rs, Link(c))
      /\ s \in Session /\ k \in Process /\ rs \in Seq(Recipes)
      /\ q \in Seq(Requested) /\ a \in Seq(Responded)
  BY OfClient DEF IInv, Conversation
<1>3. /\ s.at = "recv" /\ 1 \in DOMAIN q /\ q # << >> /\ q2 = Tail(q)
      /\ q[1].type = "recipe"
  BY <1>1, Received DEF ServeRecipeSize
<1>2. /\ Len(q) = 1 /\ q[1].file = FileOf[c] /\ a = << >> /\ ~ WithList(k)
      /\ k.main = "size" \/ (k.main = "failed" /\ Link(c) = "lost")
  BY <1>1, <1>3 DEF Exact, Requests, WithList
<1>4. /\ m \in Responded /\ SendResponse(c, m)
      /\ session' = [session EXCEPT
           ![c] = IF rs # << >> THEN [@ EXCEPT !.at = "recipe", !.file = FileOf[c],
                                               !.size = Size(rs)]
                  ELSE @]
  BY <1>2 DEF ServeRecipeSize, Responded
<1>5. /\ s2 \in Session
      /\ s2.head = s.head /\ s2.list = s.list
      /\ s2.start = s.start /\ s2.end = s.end /\ s2.restored = s.restored
      /\ rs = << >> => s2.at = "recv"
      /\ rs # << >> => s2.at = "recipe" /\ s2.file = FileOf[c]
  <2>1. Size(rs) \in Sizes /\ FileOf[c] \in FileName
    BY <1>1, OfClient DEF Sizes
  <2>2. s2 = IF rs # << >> THEN [s EXCEPT !.at = "recipe", !.file = FileOf[c], !.size = Size(rs)]
             ELSE s
    BY <1>1, <1>4 DEF Types
  <2> HIDE DEF s2, s, rs
  <2> QED
    BY <1>1, <1>3, <2>1, <2>2 DEF Session
<1>6. /\ Link(c) \in {"lost", "kept"}
      /\ Link(c) = "lost" => a2 = a
      /\ Link(c) = "kept" => a2 = Append(a, m)
  BY <1>1, <1>4, SendsResponse DEF Link
<1>8. Moves(c)
  BY <1>1, <1>4, <1>5, Received, SendsResponse DEF ServeRecipeSize, Types, Moves
<1>9. Exact(FileOf[c], s2, k, q2, a2, rs, Link(c))
  <2> HIDE DEF m, s, k, q, a, rs, s2, q2, a2
  <2>1. DOMAIN q2 = {} /\ q2 = << >>
    BY <1>1, <1>2, <1>3, WithoutFirst
  <2>2. /\ DOMAIN a2 = 1 .. Len(a2)
        /\ \/ Link(c) = "lost" /\ a2 = << >> /\ Len(a2) = 0
           \/ Len(a2) = 1 /\ a2[1] = m /\ k.main = "size"
    <3>1. CASE Link(c) = "lost"
      BY <1>2, <1>6, <3>1
    <3>2. CASE Link(c) = "kept"
      <4>1. Len(a) = 0 /\ k.main = "size"
        BY <1>2, <3>2
      <4> QED
        BY <1>1, <1>4, <1>6, <3>2, <4>1, Appended
    <3> QED
      BY <1>6, <3>1, <3>2
  <2>3. m.type = "size" /\ (rs # << >> => m = [type |-> "size", found |-> TRUE])
    BY DEF m
  <2>6. Requests(FileOf[c], s2, k, q2, a2, rs, Link(c))
    BY <2>1 DEF Requests
  <2>7. Responses(s2, k, q2, a2, rs)
    <3> SUFFICES ASSUME Len(a2) = 1 PROVE Responses(s2, k, q2, a2, rs)
      BY <2>2 DEF Responses
    <3> QED
      BY <1>5, <2>2, <2>3 DEF Responses
  <2>8. Phases(FileOf[c], s2, k, q2, a2, rs, Link(c))
    BY <1>1, <1>2, <1>5, <2>1, <2>2, <2>3 DEF Exact, Phases, Unserved, WithList
  <2>9. Threads(s2, k, q2, a2, rs, Link(c))
    BY <1>2 DEF Threads
  <2> QED
    BY <2>6, <2>7, <2>8, <2>9 DEF Exact
<1> QED
  BY <1>8, <1>9, OneClient DEF ServeRecipeSize

(* The recipe goes behind its size, and the server keeps its head.         *)
LEMMA ServeRecipeInv ==
  ASSUME IInv, NEW c \in Client, ServeRecipe(c)
  PROVE  IInv'
<1> DEFINE s == session[c] k == client[c] q == request[c] a == response[c]
           rs == recipeFile[FileOf[c]] s2 == session'[c] a2 == response'[c]
           m == [type |-> "recipe", size |-> s.size, recipes |-> rs]
<1>1. /\ Types /\ Exact(FileOf[c], s, k, q, a, rs, Link(c))
      /\ s \in Session /\ k \in Process /\ rs \in Seq(Recipes)
      /\ q \in Seq(Requested) /\ a \in Seq(Responded)
  BY OfClient DEF IInv, Conversation
<1>2. /\ s.at = "recipe" /\ ~ WithList(k) /\ rs # << >> /\ s.file = FileOf[c]
      /\ Len(a) <= 1 /\ (k.main = "recipe" => a = << >>)
      /\ k.main \in {"size", "recipe"} \/ (k.main = "failed" /\ Link(c) = "lost")
      /\ k.main = "size" /\ a # << >> => a[1].type = "size"
      /\ k.main = "size" /\ Link(c) = "kept" => a # << >>
  BY <1>1 DEF ServeRecipe, Exact, Phases, Threads
<1>3. /\ m \in Responded /\ SendResponse(c, m)
      /\ session' = [session EXCEPT ![c].at = "recv", ![c].head = rs[1]]
  BY <1>1, <1>2 DEF ServeRecipe, Responded, Session
<1>4. /\ s2 \in Session /\ s2.at = "recv" /\ s2.head = rs[1] /\ s2.list = s.list
      /\ s2.start = s.start /\ s2.end = s.end /\ s2.restored = s.restored
  <2>1. s2 = [s EXCEPT !.at = "recv", !.head = rs[1]]
    BY <1>1, <1>3 DEF Types
  <2> QED
    BY <1>1, <1>2, <2>1, FirstRecipe DEF Session
<1>5. /\ Link(c) \in {"lost", "kept"}
      /\ Link(c) = "lost" => a2 = a
      /\ Link(c) = "kept" => a2 = Append(a, m)
  BY <1>1, <1>3, SendsResponse DEF Link
<1>8. Moves(c)
  BY <1>1, <1>3, <1>4, SendsResponse DEF ServeRecipe, Types, Moves
<1>9. Exact(FileOf[c], s2, k, q, a2, rs, Link(c))
  <2> HIDE DEF m, s, k, q, a, rs, s2, a2
  <2>1. \A i \in DOMAIN q : q[i].type = "exit"
    BY <1>1, <1>2 DEF Exact, Requests, Requested
  <2>2. \A i \in DOMAIN a : a[i].type = "size" /\ i = 1
    BY <1>1, <1>2 DEF Exact, Responses, Responded
  <2>0. DOMAIN a = 1 .. Len(a) /\ Len(a) \in Nat /\ (a # << >> => Len(a) # 0)
    BY <1>1
  <2>3. ASSUME Link(c) = "lost" PROVE Responses(s2, k, q, a2, rs)
    BY <1>1, <1>2, <1>4, <1>5, <2>0, <2>2, <2>3 DEF Exact, Responses
  <2>4. ASSUME Link(c) = "kept" PROVE Responses(s2, k, q, a2, rs)
    <3>1. /\ DOMAIN a2 = 1 .. Len(a) + 1 /\ Len(a2) = Len(a) + 1 /\ a2[Len(a) + 1] = m
          /\ \A i \in DOMAIN a : a2[i] = a[i]
      BY <1>1, <1>3, <1>5, <2>4, Appended
    <3>2. m.type = "recipe" /\ m.recipes = rs
      BY DEF m
    <3>3. CASE k.main = "size"
      <4>0. Len(a) = 1 /\ 1 \in DOMAIN a
        BY <1>2, <2>0, <2>4, <3>3
      <4>1. a[1] = [type |-> "size", found |-> TRUE]
        BY <1>1, <1>2, <2>2, <4>0 DEF Exact, Responses
      <4> QED
        <5>1. DOMAIN a2 = {1, 2} /\ a2[1] = a[1] /\ a2[2] = m /\ Len(a2) = 2
          BY <3>1, <4>0
        <5>2. /\ a2[1] = [type |-> "size", found |-> TRUE] /\ a2[1].type = "size"
              /\ a2[2].type = "recipe" /\ a2[2].recipes = rs
          BY <3>2, <4>1, <5>1
        <5> QED
          BY <1>2, <1>4, <3>3, <5>1, <5>2 DEF Responses
    <3>4. CASE k.main = "recipe"
      <4>1. Len(a) = 0
        BY <1>2, <3>4
      <4> QED
        BY <1>2, <1>4, <2>0, <3>1, <3>2, <3>4, <4>1 DEF Responses
    <3> QED
      BY <1>2, <2>4, <3>3, <3>4
  <2>6. Requests(FileOf[c], s2, k, q, a2, rs, Link(c))
    BY <1>1, <2>1 DEF Exact, Requests
  <2>7. Responses(s2, k, q, a2, rs)
    BY <1>5, <2>3, <2>4
  <2>8. Phases(FileOf[c], s2, k, q, a2, rs, Link(c))
    <3>1. k.main = "size" /\ a2 # << >> => a2[1].type = "size"
      BY <1>1, <1>2, <1>3, <1>5, Appended
    <3> QED
      BY <1>1, <1>2, <1>4, <3>1 DEF Exact, Phases, Unserved, WithList
  <2>9. Threads(s2, k, q, a2, rs, Link(c))
    BY <1>2 DEF Threads
  <2> QED
    BY <2>6, <2>7, <2>8, <2>9 DEF Exact
<1> QED
  BY <1>8, <1>9, OneClient DEF ServeRecipe

(* The client says goodbye behind all it has asked for.                    *)
LEMMA JoinInv ==
  ASSUME IInv, NEW c \in Client, Join(c)
  PROVE  IInv'
<1> DEFINE s == session[c] k == client[c] q == request[c] a == response[c]
           rs == recipeFile[FileOf[c]] k2 == client'[c] q2 == request'[c]
           m == [type |-> "exit"]
<1>1. /\ Types /\ Exact(FileOf[c], s, k, q, a, rs, Link(c))
      /\ s \in Session /\ k \in Process /\ rs \in Seq(Recipes)
      /\ q \in Seq(Requested) /\ a \in Seq(Responded)
  BY OfClient DEF IInv, Conversation
<1>2. k2 = [k EXCEPT !.main = "done"] /\ k2 \in Process /\ m \in Requested
  BY <1>1 DEF Join, Types, Process, Requested
<1>3. /\ k.main = "threads" /\ k.recv = "exit" /\ k.retr = "exit"
      /\ k2.main = "done" /\ k2.recv = "exit" /\ k2.list = k.list
      /\ k2.retr = k.retr /\ k2.received = k.received
      /\ k2.todo = k.todo /\ k2.queue = k.queue /\ k2.output = k.output
  BY <1>1, <1>2 DEF Join, Process
<1>4. q2 = q \/ q2 = Append(q, m)
  BY <1>1, <1>2, SendsRequest DEF Join, Link
<1>8. Moves(c)
  <2>1. /\ SendRequest(c, m) /\ client' = [client EXCEPT ![c].main = "done"]
        /\ recipeFile' = recipeFile /\ broken' = broken /\ session' = session
        /\ response' = response
    BY DEF Join
  <2>2. /\ request' \in [Client -> Seq(Requested)]
        /\ \A d \in Client \ {c} : request'[d] = request[d]
    BY <1>1, <1>2, <2>1, SendsRequest
  <2>3. response' \in [Client -> Seq(Responded)]
    BY <1>1, <2>1 DEF Types
  <2>4. client' = [client EXCEPT ![c] = k2] /\ Len(k2.queue) <= QueueCapacity
    BY <1>1, <2>1, NewPhase
  <2> HIDE DEF m, k, s, q, a, rs, k2, q2
  <2> QED
    BY <1>1, <1>2, <2>1, <2>2, <2>3, <2>4, ClientMoves
<1>9. Exact(FileOf[c], s, k2, q2, a, rs, Link(c))
  <2> HIDE DEF m, s, k, q, a, rs, k2, q2
  <2>1. \A i \in DOMAIN q : q[i].type \in {"list", "chunks"}
    BY <1>1, <1>3 DEF Exact, Requests, Requested
  <2>2. \A i \in DOMAIN a : a[i].type = "chunks"
    BY <1>1, <1>3 DEF Exact, Responses, Responded
  <2>3. ASSUME q2 = Append(q, m) PROVE Requests(FileOf[c], s, k2, q2, a, rs, Link(c))
    <3>1. /\ DOMAIN q2 = 1 .. Len(q) + 1 /\ q2[Len(q) + 1].type = "exit" /\ Len(q2) = Len(q) + 1
          /\ DOMAIN q = 1 .. Len(q) /\ Len(q) \in Nat
          /\ \A i \in DOMAIN q : q2[i] = q[i]
      BY <1>1, <1>2, <2>3, Appended DEF m
    <3>2. \A i \in DOMAIN q2 : (i \in DOMAIN q /\ q2[i] = q[i]) \/ i = Len(q2)
      BY <3>1
    <3>3. \A i \in DOMAIN q2 : q2[i].type \in {"list", "chunks"} \/ (q2[i].type = "exit" /\ i = Len(q2))
      BY <2>1, <3>1, <3>2
    <3>4. \A i \in DOMAIN q2 : q2[i].type # "exit" => i \in DOMAIN q /\ q2[i] = q[i]
      BY <3>1, <3>2
    <3>5. \A i \in DOMAIN q2 : q2[i].type = "chunks" => (i = 2 /\ q[1].type = "list" => q2[1].type = "list")
      BY <3>1, <3>4
    <3> QED
      BY <1>1, <1>3, <3>3, <3>4, <3>5 DEF Exact, Requests, WithList
  <2>6. Requests(FileOf[c], s, k2, q2, a, rs, Link(c))
    <3>1. CASE q2 = q
      BY <1>1, <1>3, <2>1, <3>1 DEF Exact, Requests, WithList
    <3> QED
      BY <1>4, <2>3, <3>1
  <2>7. Responses(s, k2, q2, a, rs)
    BY <1>1, <1>3, <2>2 DEF Exact, Responses, WithList
  <2>8. Phases(FileOf[c], s, k2, q2, a, rs, Link(c))
    BY <1>1, <1>3 DEF Exact, Phases, WithList
  <2>9. Threads(s, k2, q2, a, rs, Link(c))
    BY <1>1, <1>3 DEF Exact, Threads, WithList, Taken
  <2> QED
    BY <2>6, <2>7, <2>8, <2>9 DEF Exact
<1> QED
  BY <1>8, <1>9, OneClient DEF Join

(* A chunk moves from the queue to the end of the output.                  *)
LEMMA WriteInv ==
  ASSUME IInv, NEW c \in Client, Write(c)
  PROVE  IInv'
<1> DEFINE s == session[c] k == client[c] q == request[c] a == response[c]
           rs == recipeFile[FileOf[c]] k2 == client'[c]
<1>1. /\ Types /\ Exact(FileOf[c], s, k, q, a, rs, Link(c))
      /\ s \in Session /\ k \in Process /\ rs \in Seq(Recipes)
      /\ q \in Seq(Requested) /\ a \in Seq(Responded)
  BY OfClient DEF IInv, Conversation
<1>2. /\ k.main = "threads" /\ k.retr = "run" /\ k.queue # << >>
      /\ k2 = [k EXCEPT !.output = Append(@, k.queue[1]), !.queue = Tail(@)]
  BY <1>1 DEF Write, Types
<1>3. /\ k.output \in Seq(Data) /\ k.queue \in Seq(Data) /\ k.queue[1] \in Data
      /\ Append(k.output, k.queue[1]) \in Seq(Data) /\ Tail(k.queue) \in Seq(Data)
  BY <1>1, <1>2, Appended, WithoutFirst DEF Process
<1>4. /\ k2 \in Process /\ k2.main = k.main /\ k2.recv = k.recv /\ k2.list = k.list
      /\ k2.retr = k.retr /\ k2.received = k.received /\ k2.todo = k.todo
      /\ k2.output = Append(k.output, k.queue[1]) /\ k2.queue = Tail(k.queue)
  BY <1>1, <1>2, <1>3 DEF Process
<1>5. /\ Len(k2.output) = Len(k.output) + 1 /\ Len(k2.queue) = Len(k.queue) - 1
      /\ DOMAIN k2.output = 1 .. Len(k.output) + 1 /\ DOMAIN k2.queue = 1 .. Len(k.queue) - 1
      /\ Len(k.output) \in Nat /\ Len(k.queue) \in Nat
      /\ DOMAIN k.output = 1 .. Len(k.output) /\ DOMAIN k.queue = 1 .. Len(k.queue)
      /\ \A i \in DOMAIN k.output : k2.output[i] = k.output[i]
      /\ k2.output[Len(k.output) + 1] = k.queue[1]
      /\ \A i \in DOMAIN k2.queue : k2.queue[i] = k.queue[i + 1]
  BY <1>2, <1>3, <1>4, Appended, WithoutFirst
<1>7. /\ Len(k2.output) + Len(k2.queue) = Len(k.output) + Len(k.queue)
      /\ \A i \in Nat : Len(k2.output) + i = Len(k.output) + (i + 1)
  <2> DEFINE n == Len(k.output) n2 == Len(k.queue) m1 == Len(k2.output) m2 == Len(k2.queue)
  <2>1. n \in Nat /\ n2 \in Nat /\ m1 = n + 1 /\ m2 = n2 - 1
    BY <1>5
  <2> HIDE DEF n, n2, m1, m2
  <2>2. m1 + m2 = n + n2 /\ \A i \in Nat : m1 + i = n + (i + 1)
    BY <2>1
  <2> QED
    BY <2>2 DEF n, n2, m1, m2
<1>6. Len(k2.queue) <= QueueCapacity
  BY <1>1, <1>5, RestoreAssumption DEF Types, RestoreAssumption
<1>8. Moves(c)
  BY <1>1, <1>4, <1>6 DEF Write, Types, Moves
<1>9. Exact(FileOf[c], s, k2, q, a, rs, Link(c))
  <2> HIDE DEF s, k, q, a, rs, k2
  <2>1. k.recv # "ask" /\ rs # << >> /\ Taken(k, rs)
    BY <1>1, <1>2 DEF Exact, Threads, WithList, Unfetched
  <2>2. Taken(k2, rs)
    <3>4. Len(k2.output) + Len(k2.queue) = Len(k.output) + Len(k.queue)
      BY <1>7
    <3>1. /\ Len(k2.output) + Len(k2.queue) + Len(k2.todo) = k2.received
          /\ k2.received <= Len(rs[1])
      BY <1>4, <2>1, <3>4 DEF Taken
    <3>2. \A i \in DOMAIN k2.output : k2.output[i] = Has(rs[1][i])
      <4>1. k.queue[1] = Has(rs[1][Len(k.output) + 1])
        BY <1>2, <1>3, <1>5, <2>1, WithoutFirst DEF Taken
      <4> QED
        <5>1. \A i \in DOMAIN k.output : k.output[i] = Has(rs[1][i])
          BY <2>1 DEF Taken
        <5> SUFFICES ASSUME NEW i \in DOMAIN k2.output
                     PROVE  k2.output[i] = Has(rs[1][i])
          OBVIOUS
        <5>2. i \in DOMAIN k.output \/ i = Len(k.output) + 1
          BY <1>5
        <5> QED
          BY <1>5, <4>1, <5>1, <5>2
    <3>3. \A i \in DOMAIN k2.queue : k2.queue[i] = Has(rs[1][Len(k2.output) + i])
      <4> SUFFICES ASSUME NEW i \in DOMAIN k2.queue
                   PROVE  k2.queue[i] = Has(rs[1][Len(k2.output) + i])
        OBVIOUS
      <4>1. i \in Nat /\ i + 1 \in DOMAIN k.queue /\ k2.queue[i] = k.queue[i + 1]
        BY <1>5
      <4>2. k.queue[i + 1] = Has(rs[1][Len(k.output) + (i + 1)])
        BY <2>1, <4>1 DEF Taken
      <4>3. Len(k.output) + (i + 1) = Len(k2.output) + i
        BY <1>7, <4>1
      <4> QED
        BY <4>1, <4>2, <4>3
    <3> QED
      BY <1>4, <2>1, <3>1, <3>2, <3>3, <3>4 DEF Taken
  <2>6. Requests(FileOf[c], s, k2, q, a, rs, Link(c))
    BY <1>1, <1>4 DEF Exact, Requests, WithList
  <2>7. Responses(s, k2, q, a, rs)
    BY <1>1, <1>4 DEF Exact, Responses, WithList
  <2>8. Phases(FileOf[c], s, k2, q, a, rs, Link(c))
    BY <1>1, <1>2, <1>4 DEF Exact, Phases, WithList
  <2>9. Threads(s, k2, q, a, rs, Link(c))
    BY <1>1, <1>2, <1>4, <2>1, <2>2 DEF Exact, Threads, WithList
  <2> QED
    BY <2>6, <2>7, <2>8, <2>9 DEF Exact
<1> QED
  BY <1>8, <1>9, OneClient DEF Write

(* A client that has lost its server keeps what it has.                    *)
LEMMA LostServerInv ==
  ASSUME IInv, NEW c \in Client, LostServer(c)
  PROVE  IInv'
<1> DEFINE s == session[c] k == client[c] q == request[c] a == response[c]
           rs == recipeFile[FileOf[c]] k2 == client'[c]
<1>1. /\ Types /\ Exact(FileOf[c], s, k, q, a, rs, Link(c))
      /\ s \in Session /\ k \in Process /\ rs \in Seq(Recipes)
      /\ q \in Seq(Requested) /\ a \in Seq(Responded)
  BY OfClient DEF IInv, Conversation
<1>2. /\ k2 \in Process /\ Link(c) = "lost" /\ a = << >>
      /\ k2.list = k.list /\ k2.retr = k.retr /\ k2.received = k.received
      /\ k2.todo = k.todo /\ k2.queue = k.queue /\ k2.output = k.output
      /\ \/ /\ k.main \in {"init", "size", "recipe"}
            /\ k2.main = "failed" /\ k2.recv = k.recv
         \/ /\ k.main = "threads" /\ k.recv = "ask"
            /\ k2.main = "threads" /\ k2.recv = "exit"
         \/ k.recv = "run" /\ k2.main = k.main /\ k2.recv = "exit"
  <2>1. \/ k.main \in {"init", "size", "recipe"} /\ k2 = [k EXCEPT !.main = "failed"]
        \/ k.main = "threads" /\ k.recv = "ask" /\ k2 = [k EXCEPT !.recv = "exit"]
        \/ k.recv = "run" /\ k2 = [k EXCEPT !.recv = "exit"]
    BY <1>1 DEF LostServer, Types
  <2>2. Link(c) = "lost" /\ a = << >>
    BY DEF LostServer, Link
  <2> HIDE DEF k2, k
  <2> QED
    BY <1>1, <2>1, <2>2 DEF Process
<1>8. Moves(c)
  BY <1>1, <1>2 DEF LostServer, Types, Moves
<1>9. Exact(FileOf[c], s, k2, q, a, rs, Link(c))
  <2> HIDE DEF s, k, q, a, rs, k2
  <2>6. Requests(FileOf[c], s, k2, q, a, rs, Link(c))
    BY <1>1, <1>2 DEF Exact, Requests, WithList
  <2>7. Responses(s, k2, q, a, rs)
    BY <1>1, <1>2 DEF Responses
  <2>8. Phases(FileOf[c], s, k2, q, a, rs, Link(c))
    BY <1>1, <1>2 DEF Exact, Phases, WithList, Unfetched
  <2>9. Threads(s, k2, q, a, rs, Link(c))
    BY <1>1, <1>2 DEF Exact, Threads, WithList, Taken, Unfetched
  <2> QED
    BY <2>6, <2>7, <2>8, <2>9 DEF Exact
<1> QED
  BY <1>8, <1>9, OneClient DEF LostServer

(* A chunk moves from the batch to the queue, decrypted with the key of    *)
(* its own place in the list.                                              *)
LEMMA PushChunkInv ==
  ASSUME IInv, NEW c \in Client, PushChunk(c)
  PROVE  IInv'
<1> DEFINE s == session[c] k == client[c] q == request[c] a == response[c]
           rs == recipeFile[FileOf[c]] k2 == client'[c] x == Decrypt(c, k.todo[1])
<1>1. /\ Types /\ Exact(FileOf[c], s, k, q, a, rs, Link(c))
      /\ s \in Session /\ k \in Process /\ rs \in Seq(Recipes)
      /\ q \in Seq(Requested) /\ a \in Seq(Responded)
  BY OfClient DEF IInv, Conversation
<1>2. /\ k.todo # << >> /\ Len(k.queue) < QueueCapacity
      /\ k2 = [k EXCEPT !.todo = Tail(@), !.queue = Append(@, x)]
  BY <1>1 DEF PushChunk, Types
<1>3. /\ k.recv # "ask" /\ WithList(k) /\ rs # << >> /\ k.list = rs[1] /\ Taken(k, rs)
  BY <1>1, <1>2 DEF Exact, Phases, Threads, Unfetched
<1>4. /\ k.output \in Seq(Data) /\ k.queue \in Seq(Data) /\ k.todo \in Seq(Sent)
      /\ DOMAIN k.output = 1 .. Len(k.output) /\ Len(k.output) \in Nat
      /\ DOMAIN k.queue = 1 .. Len(k.queue) /\ Len(k.queue) \in Nat
      /\ DOMAIN k.todo = 1 .. Len(k.todo) /\ Len(k.todo) \in Nat /\ Len(k.todo) # 0
  BY <1>1, <1>2 DEF Process
<1>5. rs[1] \in Seq(Chunk) /\ Len(rs[1]) \in Nat /\ DOMAIN rs[1] = 1 .. Len(rs[1])
  BY <1>1, <1>3, FirstRecipe
<1>6. \E n \in DOMAIN rs[1] : /\ n = Len(k.output) + Len(k.queue) + 1
                             /\ k.todo[1] = [id |-> n, data |-> Restored(rs[1][n])]
  <2> DEFINE n == Len(k.output) + Len(k.queue) + 1
  <2> HIDE DEF k, rs, x
  <2>1. n \in DOMAIN rs[1] /\ 1 \in DOMAIN k.todo
    BY <1>1, <1>3, <1>4, <1>5 DEF Taken, Process
  <2>2. k.todo[1] = [id |-> n, data |-> Restored(rs[1][n])]
    BY <1>3, <2>1 DEF Taken
  <2> QED
    BY <2>1, <2>2
<1>7. x = Has(rs[1][Len(k.output) + Len(k.queue) + 1]) /\ x \in Data
  <2>1. PICK n \in DOMAIN rs[1] : /\ n = Len(k.output) + Len(k.queue) + 1
                                 /\ k.todo[1] = [id |-> n, data |-> Restored(rs[1][n])]
    BY <1>6
  <2>2. rs[1][n] \in Chunk /\ k.list[n] = rs[1][n]
    BY <1>3, <1>5
  <2>3. x = IF Restored(rs[1][n]) = rs[1][n] THEN Restored(rs[1][n]) ELSE Garbage
    <3>1. k.todo[1].id = n /\ k.todo[1].data = Restored(rs[1][n])
      <4> HIDE DEF k, rs
      <4> QED
        BY <2>1
    <3>2. x = IF k.todo[1].data = k.list[k.todo[1].id] THEN k.todo[1].data ELSE Garbage
      BY DEF Decrypt
    <3> HIDE DEF k, rs, x
    <3> QED
      BY <2>2, <3>1, <3>2
  <2>4. x = Has(rs[1][n]) /\ x \in Data
    <3> HIDE DEF x, rs
    <3> QED
      BY <2>2, <2>3, RestoreAssumption DEF RestoreAssumption, Has, Restored, Data
  <2> QED
    BY <2>1, <2>4
<1>10. /\ k2 \in Process /\ k2.main = k.main /\ k2.recv = k.recv /\ k2.list = k.list
      /\ k2.retr = k.retr /\ k2.received = k.received /\ k2.output = k.output
      /\ k2.queue = Append(k.queue, x) /\ k2.todo = Tail(k.todo)
  <2>1. Append(k.queue, x) \in Seq(Data) /\ Tail(k.todo) \in Seq(Sent)
    BY <1>2, <1>4, <1>7, Appended, WithoutFirst
  <2> HIDE DEF k, k2, x
  <2> QED
    BY <1>1, <1>2, <2>1 DEF Process
<1>11. /\ Len(k2.queue) = Len(k.queue) + 1 /\ Len(k2.todo) = Len(k.todo) - 1
       /\ DOMAIN k2.queue = 1 .. Len(k.queue) + 1 /\ DOMAIN k2.todo = 1 .. Len(k.todo) - 1
       /\ \A i \in DOMAIN k.queue : k2.queue[i] = k.queue[i]
       /\ k2.queue[Len(k.queue) + 1] = x
       /\ \A i \in DOMAIN k2.todo : k2.todo[i] = k.todo[i + 1]
  <2> HIDE DEF x, k, k2
  <2>1. k.queue \in Seq(Data) /\ x \in Data /\ k2.queue = Append(k.queue, x)
    BY <1>4, <1>7, <1>10
  <2>2. k.todo \in Seq(Sent) /\ k.todo # << >> /\ k2.todo = Tail(k.todo)
    BY <1>2, <1>4, <1>10
  <2>3. /\ Len(k2.queue) = Len(k.queue) + 1
        /\ DOMAIN k2.queue = 1 .. Len(k.queue) + 1
        /\ \A i \in DOMAIN k.queue : k2.queue[i] = k.queue[i]
        /\ k2.queue[Len(k.queue) + 1] = x
    BY <2>1, Appended
  <2>4. /\ Len(k2.todo) = Len(k.todo) - 1
        /\ DOMAIN k2.todo = 1 .. Len(k.todo) - 1
        /\ \A i \in DOMAIN k2.todo : k2.todo[i] = k.todo[i + 1]
    BY <2>2, WithoutFirst
  <2> QED
    BY <2>3, <2>4
<1>12. /\ Len(k2.output) + Len(k2.queue) + Len(k2.todo)
             = Len(k.output) + Len(k.queue) + Len(k.todo)
       /\ Len(k2.queue) <= QueueCapacity
       /\ \A i \in Nat : Len(k2.output) + Len(k2.queue) + i
                            = Len(k.output) + Len(k.queue) + (i + 1)
  <2> DEFINE n == Len(k.output) n2 == Len(k.queue) n3 == Len(k.todo)
             m1 == Len(k2.output) m2 == Len(k2.queue) m3 == Len(k2.todo)
  <2>1. /\ n \in Nat /\ n2 \in Nat /\ n3 \in Nat
        /\ m1 = n /\ m2 = n2 + 1 /\ m3 = n3 - 1 /\ n2 < QueueCapacity
        /\ QueueCapacity \in Nat
    BY <1>2, <1>4, <1>10, <1>11, RestoreAssumption DEF RestoreAssumption
  <2> HIDE DEF n, n2, n3, m1, m2, m3
  <2>2. /\ m1 + m2 + m3 = n + n2 + n3 /\ m2 <= QueueCapacity
        /\ \A i \in Nat : m1 + m2 + i = n + n2 + (i + 1)
    BY <2>1
  <2> QED
    BY <2>2 DEF n, n2, n3, m1, m2, m3
<1>8. Moves(c)
  BY <1>1, <1>10, <1>12 DEF PushChunk, Types, Moves
<1>9. Exact(FileOf[c], s, k2, q, a, rs, Link(c))
  <2> HIDE DEF s, k, q, a, rs, k2
  <2> HIDE DEF x
  <2>2. Taken(k2, rs)
    <3>1. /\ Len(k2.output) + Len(k2.queue) + Len(k2.todo) = k2.received
          /\ k2.received <= Len(rs[1])
      BY <1>3, <1>10, <1>12 DEF Taken
    <3>2. \A i \in DOMAIN k2.output : k2.output[i] = Has(rs[1][i])
      BY <1>3, <1>10 DEF Taken
    <3>3. \A i \in DOMAIN k2.queue : k2.queue[i] = Has(rs[1][Len(k2.output) + i])
      <4>1. \A i \in DOMAIN k.queue : k2.queue[i] = Has(rs[1][Len(k2.output) + i])
        BY <1>3, <1>10, <1>11 DEF Taken
      <4>2. x = Has(rs[1][Len(k2.output) + (Len(k.queue) + 1)])
        <5>1. Len(k.output) + Len(k.queue) + 1 = Len(k.output) + (Len(k.queue) + 1)
          <6> DEFINE n == Len(k.output) n2 == Len(k.queue)
          <6>1. n \in Nat /\ n2 \in Nat
            BY <1>4
          <6> HIDE DEF n, n2
          <6>2. n + n2 + 1 = n + (n2 + 1)
            BY <6>1
          <6> QED
            BY <6>2 DEF n, n2
        <5> QED
          BY <1>7, <1>10, <5>1
      <4>3. \A i \in DOMAIN k2.queue : i \in DOMAIN k.queue \/ i = Len(k.queue) + 1
        BY <1>4, <1>11
      <4> QED
        BY <1>11, <4>1, <4>2, <4>3
    <3>4. \A i \in DOMAIN k2.todo : LET n == Len(k2.output) + Len(k2.queue) + i IN
            k2.todo[i] = [id |-> n, data |-> Restored(rs[1][n])]
      <4> SUFFICES ASSUME NEW i \in DOMAIN k2.todo
                   PROVE  LET n == Len(k2.output) + Len(k2.queue) + i IN
                            k2.todo[i] = [id |-> n, data |-> Restored(rs[1][n])]
        OBVIOUS
      <4>1. i \in Nat /\ i + 1 \in DOMAIN k.todo /\ k2.todo[i] = k.todo[i + 1]
        BY <1>4, <1>11
      <4>2. LET n == Len(k.output) + Len(k.queue) + (i + 1) IN
              k2.todo[i] = [id |-> n, data |-> Restored(rs[1][n])]
        BY <1>3, <4>1 DEF Taken
      <4> QED
        BY <1>12, <4>1, <4>2
    <3> QED
      BY <3>1, <3>2, <3>3, <3>4 DEF Taken
  <2>6. Requests(FileOf[c], s, k2, q, a, rs, Link(c))
    BY <1>1, <1>10 DEF Exact, Requests, WithList
  <2>7. Responses(s, k2, q, a, rs)
    BY <1>1, <1>10 DEF Exact, Responses, WithList
  <2>8. Phases(FileOf[c], s, k2, q, a, rs, Link(c))
    BY <1>1, <1>3, <1>10 DEF Exact, Phases, WithList
  <2>9. Threads(s, k2, q, a, rs, Link(c))
    BY <1>1, <1>3, <1>10, <2>2 DEF Exact, Threads, WithList
  <2> QED
    BY <2>6, <2>7, <2>8, <2>9 DEF Exact
<1> QED
  BY <1>8, <1>9, OneClient DEF PushChunk

(* The row without its first batch: this batch is the next chunks of r.    *)
LEMMA RowTail ==
  ASSUME NEW r \in Seq(Chunk), NEW a \in Seq(Responded), a # << >>, NEW link,
         a[1].chunks \in Seq(Sent),
         NEW from \in Nat, NEW to \in Nat, InRow(from, to, a, r, link)
  PROVE  LET from2 == from + Len(a[1].chunks) IN
         /\ from2 \in 0 .. Len(r) /\ from2 <= to
         /\ \A j \in DOMAIN a[1].chunks :
              a[1].chunks[j] = [id |-> from + j, data |-> Restored(r[from + j])]
         /\ InRow(from2, to, Tail(a), r, link)
<1> DEFINE from2 == from + Len(a[1].chunks) a2 == Tail(a)
<1>1. PICK p \in [1 .. Len(a) + 1 -> 0 .. Len(r)] :
         /\ p[1] = from
         /\ \A i \in 1 .. Len(a) + 1 : p[i] <= to
         /\ link = "kept" => p[Len(a) + 1] = to
         /\ \A i \in DOMAIN a :
              /\ p[i + 1] = p[i] + Len(a[i].chunks)
              /\ \A j \in DOMAIN a[i].chunks :
                   a[i].chunks[j] = [id |-> p[i] + j, data |-> Restored(r[p[i] + j])]
  BY DEF InRow
<1>2. /\ Len(a2) = Len(a) - 1 /\ DOMAIN a2 = 1 .. Len(a) - 1 /\ 1 \in DOMAIN a
      /\ \A i \in DOMAIN a2 : a2[i] = a[i + 1]
      /\ DOMAIN a = 1 .. Len(a) /\ Len(a) \in Nat /\ Len(a) # 0
  BY WithoutFirst
<1>3. /\ from2 \in 0 .. Len(r) /\ p[2] = from2 /\ from2 <= to
      /\ \A j \in DOMAIN a[1].chunks :
           a[1].chunks[j] = [id |-> from + j, data |-> Restored(r[from + j])]
  <2>1. /\ 1 \in DOMAIN a /\ 1 + 1 = 2 /\ 2 \in 1 .. Len(a) + 1
    BY <1>2
  <2>2. p[2] = from2
    BY <1>1, <2>1
  <2>3. p[2] \in 0 .. Len(r) /\ p[2] <= to
    BY <1>1, <2>1
  <2>4. \A j \in DOMAIN a[1].chunks :
           a[1].chunks[j] = [id |-> p[1] + j, data |-> Restored(r[p[1] + j])]
    BY <1>1, <2>1
  <2> HIDE DEF from2, a2
  <2> QED
    BY <1>1, <2>2, <2>3, <2>4
<1> DEFINE p2 == [i \in 1 .. Len(a2) + 1 |-> p[i + 1]]
<1>4. /\ p2 \in [1 .. Len(a2) + 1 -> 0 .. Len(r)] /\ p2[1] = from2
      /\ \A i \in 1 .. Len(a2) + 1 : p2[i] = p[i + 1] /\ i + 1 \in 1 .. Len(a) + 1
      /\ p2[Len(a2) + 1] = p[Len(a) + 1]
  <2> HIDE DEF a2, from2
  <2> QED
    BY <1>2, <1>3
<1>5. \A i \in DOMAIN a2 :
         /\ p2[i] = p[i + 1] /\ p2[i + 1] = p[(i + 1) + 1]
         /\ i + 1 \in DOMAIN a /\ a2[i] = a[i + 1]
  <2> HIDE DEF a2
  <2> QED
    BY <1>2
<1> HIDE DEF p2, a2, from2
<1>6. \A i \in DOMAIN a2 :
         /\ p2[i + 1] = p2[i] + Len(a2[i].chunks)
         /\ \A j \in DOMAIN a2[i].chunks :
              a2[i].chunks[j] = [id |-> p2[i] + j, data |-> Restored(r[p2[i] + j])]
  <2> SUFFICES ASSUME NEW i \in DOMAIN a2
               PROVE  /\ p2[i + 1] = p2[i] + Len(a2[i].chunks)
                      /\ \A j \in DOMAIN a2[i].chunks :
                           a2[i].chunks[j] = [id |-> p2[i] + j, data |-> Restored(r[p2[i] + j])]
    OBVIOUS
  <2>1. /\ p2[i] = p[i + 1] /\ p2[i + 1] = p[(i + 1) + 1]
        /\ i + 1 \in DOMAIN a /\ a2[i] = a[i + 1]
    BY <1>5
  <2>2. /\ p[(i + 1) + 1] = p[i + 1] + Len(a[i + 1].chunks)
        /\ \A j \in DOMAIN a[i + 1].chunks :
             a[i + 1].chunks[j] = [id |-> p[i + 1] + j, data |-> Restored(r[p[i + 1] + j])]
    BY <1>1, <2>1
  <2> QED
    BY <2>1, <2>2
<1>7. InRow(from2, to, a2, r, link)
  <2>1. \A i \in 1 .. Len(a2) + 1 : p2[i] <= to
    BY <1>1, <1>4
  <2>2. link = "kept" => p2[Len(a2) + 1] = to
    BY <1>1, <1>4
  <2> QED
    BY <1>4, <1>6, <2>1, <2>2 DEF InRow
<1> QED
  BY <1>3, <1>7 DEF from2, a2

(* The row with one more batch, if it is sent.                             *)
LEMMA RowAppend ==
  ASSUME NEW r \in Seq(Chunk), NEW a \in Seq(Responded), NEW link, NEW b \in Responded,
         NEW from \in Nat, NEW to \in Nat, NEW n \in Nat, to + n <= Len(r),
         b.chunks = [i \in 1 .. n |-> [id |-> to + i, data |-> Restored(r[to + i])]],
         InRow(from, to, a, r, link), link = "kept"
  PROVE  InRow(from, to + n, Append(a, b), r, link)
<1> DEFINE a2 == Append(a, b)
<1>1. PICK p \in [1 .. Len(a) + 1 -> 0 .. Len(r)] :
         /\ p[1] = from
         /\ \A i \in 1 .. Len(a) + 1 : p[i] <= to
         /\ p[Len(a) + 1] = to
         /\ \A i \in DOMAIN a :
              /\ p[i + 1] = p[i] + Len(a[i].chunks)
              /\ \A j \in DOMAIN a[i].chunks :
                   a[i].chunks[j] = [id |-> p[i] + j, data |-> Restored(r[p[i] + j])]
  BY DEF InRow
<1>2. /\ Len(a2) = Len(a) + 1 /\ DOMAIN a2 = 1 .. Len(a) + 1
      /\ \A i \in DOMAIN a : a2[i] = a[i]
      /\ a2[Len(a) + 1] = b
      /\ DOMAIN a = 1 .. Len(a) /\ Len(a) \in Nat
  BY Appended
<1> DEFINE p2 == [i \in 1 .. Len(a2) + 1 |-> IF i = Len(a2) + 1 THEN to + n ELSE p[i]]
<1> HIDE DEF a2
<1>3. /\ p2 \in [1 .. Len(a2) + 1 -> 0 .. Len(r)] /\ p2[1] = from
      /\ \A i \in 1 .. Len(a) + 1 : p2[i] = p[i]
      /\ p2[Len(a2) + 1] = to + n
      /\ \A i \in 1 .. Len(a2) + 1 : p2[i] <= to + n
  <2>1. Len(r) \in Nat /\ to + n \in 0 .. Len(r)
    OBVIOUS
  <2>2. p2 = [i \in 1 .. Len(a) + 2 |-> IF i = Len(a) + 2 THEN to + n ELSE p[i]]
    BY <1>2
  <2>3. \A i \in 1 .. Len(a) + 1 : i \in 1 .. Len(a) + 2 /\ i # Len(a) + 2
    BY <1>2
  <2>4. \A i \in 1 .. Len(a) + 2 : i \in 1 .. Len(a) + 1 \/ i = Len(a) + 2
    BY <1>2
  <2>5. Len(a) + 2 \in 1 .. Len(a) + 2 /\ Len(a2) + 1 = Len(a) + 2 /\ 1 \in 1 .. Len(a) + 1
    BY <1>2
  <2> HIDE DEF p2
  <2>6. \A i \in 1 .. Len(a) + 1 : p2[i] = p[i]
    BY <2>2, <2>3
  <2>7. p2[Len(a) + 2] = to + n
    BY <2>2, <2>5
  <2>8. p2 \in [1 .. Len(a) + 2 -> 0 .. Len(r)]
    <3>1. \A i \in 1 .. Len(a) + 2 : p2[i] \in 0 .. Len(r)
      BY <2>1, <2>4, <2>6, <2>7
    <3> QED
      BY <2>2, <3>1
  <2>9. \A i \in 1 .. Len(a) + 1 : p[i] \in Nat /\ p[i] <= to + n
    <3> SUFFICES ASSUME NEW i \in 1 .. Len(a) + 1 PROVE p[i] \in Nat /\ p[i] <= to + n
      OBVIOUS
    <3>1. p[i] \in 0 .. Len(r) /\ p[i] <= to
      BY <1>1
    <3> QED
      BY <2>1, <3>1
  <2>10. \A i \in 1 .. Len(a) + 2 : p2[i] <= to + n
    <3> SUFFICES ASSUME NEW i \in 1 .. Len(a) + 2 PROVE p2[i] <= to + n
      OBVIOUS
    <3>1. CASE i \in 1 .. Len(a) + 1
      BY <2>6, <2>9, <3>1
    <3>2. CASE i = Len(a) + 2
      <4>1. p2[i] = to + n /\ to + n \in Int
        BY <2>7, <3>2
      <4> QED
        BY <4>1
    <3> QED
      BY <2>4, <3>1, <3>2
  <2> QED
    BY <1>1, <2>5, <2>6, <2>7, <2>8, <2>10
<1>4. Len(b.chunks) = n /\ DOMAIN b.chunks = 1 .. n
  OBVIOUS
<1> HIDE DEF p2
<1>5. ASSUME NEW i \in DOMAIN a2
      PROVE  /\ p2[i + 1] = p2[i] + Len(a2[i].chunks)
             /\ \A j \in DOMAIN a2[i].chunks :
                  a2[i].chunks[j] = [id |-> p2[i] + j, data |-> Restored(r[p2[i] + j])]
  <2>1. CASE i \in DOMAIN a
    <3>1. a2[i] = a[i] /\ p2[i] = p[i] /\ p2[i + 1] = p[i + 1]
      BY <1>2, <1>3, <2>1
    <3>2. /\ p[i + 1] = p[i] + Len(a[i].chunks)
          /\ \A j \in DOMAIN a[i].chunks :
               a[i].chunks[j] = [id |-> p[i] + j, data |-> Restored(r[p[i] + j])]
      BY <1>1, <2>1
    <3> QED
      BY <3>1, <3>2
  <2>2. CASE i = Len(a) + 1
    <3>1. a2[i] = b /\ p2[i] = to /\ p2[i + 1] = to + n
      BY <1>1, <1>2, <1>3, <2>2
    <3>2. /\ to + n = to + Len(b.chunks)
          /\ \A j \in DOMAIN b.chunks :
               b.chunks[j] = [id |-> to + j, data |-> Restored(r[to + j])]
      BY <1>4
    <3> QED
      BY <3>1, <3>2
  <2>3. i \in DOMAIN a \/ i = Len(a) + 1
    BY <1>2
  <2> QED
    BY <2>1, <2>2, <2>3
<1> QED
  BY <1>3, <1>5 DEF InRow, a2

(* The row when the connection is lost: a part of it is left, and what is  *)
(* sent from now on never arrives.                                         *)
LEMMA RowLost ==
  ASSUME NEW r \in Seq(Chunk), NEW a \in Seq(Responded), NEW link, NEW n \in 0 .. Len(a),
         NEW from \in Nat, NEW to \in Nat, NEW to2 \in Nat, to <= to2,
         InRow(from, to, a, r, link)
  PROVE  InRow(from, to2, SubSeq(a, 1, n), r, "lost")
<1> DEFINE a2 == SubSeq(a, 1, n)
<1>1. PICK p \in [1 .. Len(a) + 1 -> 0 .. Len(r)] :
         /\ p[1] = from
         /\ \A i \in 1 .. Len(a) + 1 : p[i] <= to
         /\ \A i \in DOMAIN a :
              /\ p[i + 1] = p[i] + Len(a[i].chunks)
              /\ \A j \in DOMAIN a[i].chunks :
                   a[i].chunks[j] = [id |-> p[i] + j, data |-> Restored(r[p[i] + j])]
  BY DEF InRow
<1>2. /\ Len(a2) = n /\ DOMAIN a2 = 1 .. n
      /\ \A i \in 1 .. n : a2[i] = a[i] /\ i \in DOMAIN a
      /\ Len(a) \in Nat /\ n \in Nat /\ n <= Len(a)
  BY CutShort
<1> DEFINE p2 == [i \in 1 .. n + 1 |-> p[i]]
<1>3. /\ p2 \in [1 .. n + 1 -> 0 .. Len(r)] /\ p2[1] = from
      /\ \A i \in 1 .. n + 1 : p2[i] = p[i] /\ p2[i] <= to2
  <2>1. \A i \in 1 .. n + 1 : i \in 1 .. Len(a) + 1
    BY <1>2
  <2>2. \A i \in 1 .. n + 1 : p[i] \in 0 .. Len(r) /\ p[i] \in Int /\ p[i] <= to
    BY <1>1, <2>1
  <2>3. \A i \in 1 .. n + 1 : p[i] <= to2
    BY <2>2
  <2>4. 1 \in 1 .. n + 1
    BY <1>2
  <2> QED
    BY <1>1, <2>2, <2>3, <2>4
<1> HIDE DEF p2, a2
<1>4. \A i \in DOMAIN a2 : p2[i] = p[i] /\ p2[i + 1] = p[i + 1]
  BY <1>2, <1>3
<1>5. \A i \in DOMAIN a2 :
         /\ p2[i + 1] = p2[i] + Len(a2[i].chunks)
         /\ \A j \in DOMAIN a2[i].chunks :
              a2[i].chunks[j] = [id |-> p2[i] + j, data |-> Restored(r[p2[i] + j])]
  <2> SUFFICES ASSUME NEW i \in DOMAIN a2
               PROVE  /\ p2[i + 1] = p2[i] + Len(a2[i].chunks)
                      /\ \A j \in DOMAIN a2[i].chunks :
                           a2[i].chunks[j] = [id |-> p2[i] + j, data |-> Restored(r[p2[i] + j])]
    OBVIOUS
  <2>1. i \in DOMAIN a /\ a2[i] = a[i]
    BY <1>2
  <2>2. /\ p[i + 1] = p[i] + Len(a[i].chunks)
        /\ \A j \in DOMAIN a[i].chunks :
             a[i].chunks[j] = [id |-> p[i] + j, data |-> Restored(r[p[i] + j])]
    BY <1>1, <2>1
  <2> QED
    BY <1>4, <2>1, <2>2
<1>6. InRow(from, to2, a2, r, "lost")
  BY <1>2, <1>3, <1>5 DEF InRow
<1> QED
  BY <1>6 DEF a2

(* All of a sequence is the beginning of it.                               *)
LEMMA RowWhole ==
  ASSUME NEW a \in Seq(Responded)
  PROVE  SubSeq(a, 1, Len(a)) = a /\ Len(a) \in 0 .. Len(a)
  OBVIOUS

(* The batch taken is the next in the row.                                 *)
LEMMA TakeBatchInv ==
  ASSUME IInv, NEW c \in Client, TakeBatch(c)
  PROVE  IInv'
<1> DEFINE s == session[c] k == client[c] q == request[c] a == response[c]
           rs == recipeFile[FileOf[c]] k2 == client'[c] a2 == response'[c]
<1>1. /\ Types /\ Exact(FileOf[c], s, k, q, a, rs, Link(c))
      /\ s \in Session /\ k \in Process /\ rs \in Seq(Recipes)
      /\ q \in Seq(Requested) /\ a \in Seq(Responded)
  BY OfClient DEF IInv, Conversation
<1>2. /\ k.recv = "run" /\ k.todo = << >>
      /\ a # << >> /\ 1 \in DOMAIN a /\ a[1].type = "chunks" /\ a2 = Tail(a)
      /\ k2 = [k EXCEPT !.todo = a[1].chunks, !.received = @ + Len(a[1].chunks)]
  BY <1>1, Took DEF TakeBatch, Types
<1>3. /\ a2 \in Seq(Responded) /\ Len(a2) = Len(a) - 1 /\ DOMAIN a2 = 1 .. Len(a) - 1
      /\ \A i \in DOMAIN a2 : a2[i] = a[i + 1] /\ i + 1 \in DOMAIN a /\ i + 1 # 1
  BY <1>1, <1>2, WithoutFirst
<1>4. a[1].chunks \in Seq(Sent) /\ Len(a[1].chunks) \in Nat
  <2>1. a[1] \in Responded
    BY <1>1, <1>2
  <2> QED
    BY <1>2, <2>1, OfType
<1>5. /\ k2 \in Process /\ k2.main = k.main /\ k2.recv = k.recv /\ k2.list = k.list
      /\ k2.retr = k.retr /\ k2.received = k.received + Len(a[1].chunks)
      /\ k2.output = k.output /\ k2.queue = k.queue /\ k2.todo = a[1].chunks
  <2> DEFINE b == a[1].chunks n == Len(b)
  <2>1. k2 = [k EXCEPT !.todo = b, !.received = k.received + n]
    BY <1>2
  <2>2. b \in Seq(Sent) /\ n \in Nat
    BY <1>4
  <2> HIDE DEF k, k2, n, b
  <2>3. k.received + n \in Nat
    BY <1>1, <2>2 DEF Process
  <2>4. /\ k2 \in Process /\ k2.main = k.main /\ k2.recv = k.recv /\ k2.list = k.list
        /\ k2.retr = k.retr /\ k2.received = k.received + n
        /\ k2.output = k.output /\ k2.queue = k.queue /\ k2.todo = b
    BY <1>1, <2>1, <2>2, <2>3 DEF Process
  <2> QED
    BY <2>4 DEF b, n
<1>6. Len(k2.queue) <= QueueCapacity
  BY <1>1, <1>5 DEF Types
<1>7. /\ WithList(k) /\ rs # << >> /\ Taken(k, rs) /\ InRow(k.received, s.restored, a, rs[1], Link(c))
  BY <1>1, <1>2 DEF Exact, Responses, Threads
<1>8. Moves(c)
  BY <1>1, <1>5, <1>6, Took DEF TakeBatch, Types, Moves
<1>9. Exact(FileOf[c], s, k2, q, a2, rs, Link(c))
  <2> HIDE DEF s, k, q, a, rs, k2, a2
  <2>1. rs[1] \in Seq(Chunk) /\ k.received \in Nat /\ s.restored \in Nat
    BY <1>1, <1>7, FirstRecipe DEF Session, Process
  <2>2. /\ k2.received \in 0 .. Len(rs[1])
        /\ \A j \in DOMAIN a[1].chunks :
             a[1].chunks[j] = [id |-> k.received + j, data |-> Restored(rs[1][k.received + j])]
        /\ InRow(k2.received, s.restored, a2, rs[1], Link(c))
    <3>1. InRow(k.received, s.restored, a, rs[1], Link(c))
      BY <1>7
    <3> DEFINE n == Len(a[1].chunks)
    <3>2. /\ k.received + n \in 0 .. Len(rs[1])
          /\ \A j \in DOMAIN a[1].chunks :
               a[1].chunks[j] = [id |-> k.received + j, data |-> Restored(rs[1][k.received + j])]
          /\ InRow(k.received + n, s.restored, Tail(a), rs[1], Link(c))
      BY <1>1, <1>2, <1>4, <2>1, <3>1, RowTail
    <3>3. k2.received = k.received + n /\ a2 = Tail(a)
      BY <1>2, <1>5
    <3> HIDE DEF n
    <3> QED
      BY <3>2, <3>3
  <2>3. Taken(k2, rs)
    <3>1. Len(k.output) + Len(k.queue) = k.received /\ Len(k.output) + Len(k.queue) \in Nat
      <4> DEFINE n == Len(k.output) n2 == Len(k.queue)
      <4>1. n \in Nat /\ n2 \in Nat /\ n + n2 + 0 = k.received
        BY <1>1, <1>2, <1>7 DEF Taken, Process
      <4> HIDE DEF n, n2
      <4>2. n + n2 = k.received /\ n + n2 \in Nat
        BY <4>1
      <4> QED
        BY <4>2 DEF n, n2
    <3>2. /\ Len(k2.output) + Len(k2.queue) + Len(k2.todo) = k2.received
          /\ k2.received <= Len(rs[1])
      <4>1. Len(k2.output) + Len(k2.queue) = k.received
        BY <1>5, <3>1
      <4>2. k.received + Len(k2.todo) = k2.received
        BY <1>5
      <4>3. k2.received <= Len(rs[1])
        BY <2>1, <2>2
      <4> QED
        BY <4>1, <4>2, <4>3
    <3>3. /\ \A i \in DOMAIN k2.output : k2.output[i] = Has(rs[1][i])
          /\ \A i \in DOMAIN k2.queue : k2.queue[i] = Has(rs[1][Len(k2.output) + i])
      BY <1>5, <1>7 DEF Taken
    <3>4. \A i \in DOMAIN k2.todo : LET n == Len(k2.output) + Len(k2.queue) + i IN
            k2.todo[i] = [id |-> n, data |-> Restored(rs[1][n])]
      BY <1>5, <2>2, <3>1
    <3> QED
      BY <3>2, <3>3, <3>4 DEF Taken
  <2>6. Requests(FileOf[c], s, k2, q, a2, rs, Link(c))
    BY <1>1, <1>3, <1>5, <1>7 DEF Exact, Requests, WithList
  <2>7. Responses(s, k2, q, a2, rs)
    BY <1>1, <1>3, <1>5, <1>7 DEF Exact, Responses, WithList
  <2>8. Phases(FileOf[c], s, k2, q, a2, rs, Link(c))
    BY <1>1, <1>5, <1>7 DEF Exact, Phases, Threads, WithList
  <2>9. Threads(s, k2, q, a2, rs, Link(c))
    BY <1>1, <1>2, <1>5, <1>7, <2>2, <2>3 DEF Exact, Threads, WithList
  <2> QED
    BY <2>6, <2>7, <2>8, <2>9 DEF Exact
<1> QED
  BY <1>8, <1>9, OneClient DEF TakeBatch

(* The batch sent is the next in the row, and the next window is inside.   *)
LEMMA ServeBatchInv ==
  ASSUME IInv, NEW c \in Client, ServeBatch(c)
  PROVE  IInv'
<1> DEFINE s == session[c] k == client[c] q == request[c] a == response[c]
           rs == recipeFile[FileOf[c]] s2 == session'[c] a2 == response'[c]
           n == (s.end - s.start) % UintMod
           m == [type |-> "chunks", chunks |->
                  [i \in 1 .. n |-> [id |-> s.start + i, data |-> Restored(s.list[s.start + i])]]]
<1>1. /\ Types /\ Exact(FileOf[c], s, k, q, a, rs, Link(c))
      /\ s \in Session /\ k \in Process /\ rs \in Seq(Recipes)
      /\ q \in Seq(Requested) /\ a \in Seq(Responded)
  BY OfClient DEF IInv, Conversation
<1>2. /\ s.at = "chunks" /\ s.restored # Len(s.head)
      /\ SendResponse(c, m)
      /\ s2 = [s EXCEPT !.restored = s.restored + n, !.start = s.end,
                        !.end = NextEnd(s.end, Len(s.head) - (s.restored + n))]
  BY <1>1 DEF ServeBatch, Types
<1>3. /\ WithList(k) /\ rs # << >> /\ s.head = rs[1] /\ s.list = rs[1] /\ k.recv # "ask"
      /\ s.start = s.restored /\ s.start <= s.end /\ s.end <= Len(rs[1])
      /\ InRow(k.received, s.restored, a, rs[1], Link(c))
  BY <1>1, <1>2 DEF Exact, Phases, Threads, Window
<1>4. /\ rs[1] \in Seq(Chunk) /\ Len(rs[1]) \in Nat /\ DOMAIN rs[1] = 1 .. Len(rs[1])
      /\ BatchNumber \in Nat \ {0} /\ UintMod \in Nat /\ Len(rs[1]) + BatchNumber < UintMod
      /\ s.start \in Nat /\ s.end \in Nat /\ k.received \in Nat
  <2>1. rs[1] \in Recipes /\ rs[1] \in Seq(Chunk) /\ Len(rs[1]) \in Nat
    BY <1>1, <1>3, FirstRecipe
  <2>2. s.start \in 0 .. UintMod - 1 /\ s.end \in 0 .. UintMod - 1 /\ k.received \in Nat
    BY <1>1 DEF Session, Process
  <2> HIDE DEF rs, s, k
  <2>3. /\ BatchNumber \in Nat \ {0} /\ UintMod \in Nat
        /\ Len(rs[1]) + BatchNumber < UintMod
    BY <2>1, RestoreAssumption DEF RestoreAssumption
  <2> QED
    BY <2>1, <2>2, <2>3
<1>5. n = s.end - s.start /\ n \in Nat /\ s.restored + n = s.end
  <2>1. s.end - s.start \in 0 .. UintMod - 1
    BY <1>3, <1>4
  <2>2. n = s.end - s.start
    BY <2>1, Modulo
  <2> HIDE DEF n, s
  <2> QED
    BY <1>3, <1>4, <2>2
<1>6. /\ NextEnd(s.end, Len(rs[1]) - s.end) \in Nat
      /\ s.end <= NextEnd(s.end, Len(rs[1]) - s.end)
      /\ NextEnd(s.end, Len(rs[1]) - s.end) <= Len(rs[1])
  <2> HIDE DEF s, rs
  <2> QED
    BY <1>3, <1>4 DEF NextEnd
<1>7. /\ s2 \in Session /\ s2.at = "chunks" /\ s2.list = s.list /\ s2.head = s.head
      /\ s2.restored = s.end /\ s2.start = s.end
      /\ s2.end = NextEnd(s.end, Len(rs[1]) - s.end)
  <2> HIDE DEF s, s2, rs, n
  <2>1. s2 = [s EXCEPT !.restored = s.end, !.start = s.end,
                       !.end = NextEnd(s.end, Len(rs[1]) - s.end)]
    BY <1>2, <1>3, <1>5
  <2>2. NextEnd(s.end, Len(rs[1]) - s.end) \in 0 .. UintMod - 1
    BY <1>4, <1>6
  <2> QED
    BY <1>1, <1>2, <1>4, <2>1, <2>2 DEF Session
<1>10. /\ m \in Responded /\ m.type = "chunks"
       /\ m.chunks = [i \in 1 .. n |-> [id |-> s.restored + i,
                                         data |-> Restored(rs[1][s.restored + i])]]
  <2> DEFINE b == [i \in 1 .. n |-> [id |-> s.restored + i,
                                      data |-> Restored(rs[1][s.restored + i])]]
  <2>1. m = [type |-> "chunks", chunks |-> b]
    BY <1>3
  <2> HIDE DEF m, n, s, rs
  <2>2. ASSUME NEW i \in 1 .. n
        PROVE  [id |-> s.restored + i, data |-> Restored(rs[1][s.restored + i])] \in Sent
    <3>1. s.restored + i \in 1 .. Len(rs[1])
      BY <1>3, <1>4, <1>5
    <3>2. rs[1][s.restored + i] \in Chunk
      BY <1>4, <3>1
    <3>3. Restored(rs[1][s.restored + i]) \in Chunk \cup {Zeros}
      BY <3>2 DEF Restored
    <3> QED
      BY <1>4, <3>1, <3>3 DEF Sent
  <2>3. b \in Seq(Sent)
    <3>1. b \in [1 .. n -> Sent]
      BY <2>2
    <3> HIDE DEF b
    <3> QED
      BY <1>5, <3>1
  <2> HIDE DEF b
  <2>4. m \in Responded /\ m.type = "chunks" /\ m.chunks = b
    BY <2>1, <2>3 DEF Responded
  <2> QED
    BY <2>4 DEF b
<1>11. /\ Link(c) \in {"lost", "kept"}
       /\ Link(c) = "lost" => a2 = a
       /\ Link(c) = "kept" => a2 = Append(a, m)
  BY <1>1, <1>2, <1>10, SendsResponse DEF Link
<1>8. Moves(c)
  <2>1. SendResponse(c, m) /\ UNCHANGED <<broken, recipeFile, request, client>>
    BY <1>10 DEF ServeBatch
  <2>2. /\ response' \in [Client -> Seq(Responded)]
        /\ \A d \in Client \ {c} : response'[d] = response[d]
    BY <1>1, <1>10, <2>1, SendsResponse
  <2>3. session' \in [Client -> Session] /\ \A d \in Client \ {c} : session'[d] = session[d]
    BY <1>1, <1>7 DEF ServeBatch, Types
  <2> HIDE DEF m, n, s, k, q, a, rs, s2, a2
  <2> QED
    BY <1>1, <2>1, <2>2, <2>3 DEF Types, Moves
<1>9. Exact(FileOf[c], s2, k, q, a2, rs, Link(c))
  <2> HIDE DEF m, n, s, k, q, a, rs, s2, a2
  <2>1. InRow(k.received, s2.restored, a2, rs[1], Link(c))
    <3>1. CASE Link(c) = "kept"
      <4>1. InRow(k.received, s.restored + n, Append(a, m), rs[1], Link(c))
        <5>1. s.restored \in Nat /\ s.restored + n <= Len(rs[1])
          BY <1>3, <1>4, <1>5
        <5> QED
          BY <1>1, <1>3, <1>4, <1>5, <1>10, <3>1, <5>1, RowAppend
      <4> QED
        BY <1>5, <1>7, <1>11, <3>1, <4>1
    <3>2. CASE Link(c) = "lost"
      <4>1. SubSeq(a, 1, Len(a)) = a /\ Len(a) \in 0 .. Len(a)
        BY <1>1, RowWhole
      <4>2. s.restored \in Nat /\ s.restored <= s.end
        BY <1>3, <1>4
      <4>3. InRow(k.received, s.end, SubSeq(a, 1, Len(a)), rs[1], "lost")
        BY <1>1, <1>3, <1>4, <4>1, <4>2, RowLost
      <4> QED
        BY <1>7, <1>11, <3>2, <4>1, <4>3
    <3> QED
      BY <1>11, <3>1, <3>2
  <2>2. /\ DOMAIN a = 1 .. Len(a) /\ Len(a) \in Nat
        /\ \/ a2 = a
           \/ /\ Len(a2) = Len(a) + 1 /\ DOMAIN a2 = 1 .. Len(a) + 1 /\ a2[Len(a) + 1] = m
              /\ \A i \in DOMAIN a : a2[i] = a[i]
    <3>1. CASE a2 = a
      BY <1>1, <3>1
    <3>2. CASE a2 = Append(a, m)
      BY <1>1, <1>10, <3>2, Appended
    <3> QED
      BY <1>11, <3>1, <3>2
  <2>3. \A i \in DOMAIN a : a[i].type = "chunks"
    BY <1>1, <1>2, <1>3 DEF Exact, Responses, Responded, WithList
  <2>4. \A i \in DOMAIN a2 : a2[i].type = "chunks"
    BY <1>10, <2>2, <2>3
  <2>5. Window(s2)
    BY <1>3, <1>4, <1>6, <1>7 DEF Window
  <2>6. Requests(FileOf[c], s2, k, q, a2, rs, Link(c))
    BY <1>1, <1>2, <1>3, <1>7 DEF Exact, Requests
  <2>7. Responses(s2, k, q, a2, rs)
    BY <1>3, <2>4 DEF Responses
  <2>8. Phases(FileOf[c], s2, k, q, a2, rs, Link(c))
    BY <1>1, <1>3, <1>7 DEF Exact, Phases, WithList
  <2>9. Threads(s2, k, q, a2, rs, Link(c))
    BY <1>1, <1>3, <1>7, <2>1, <2>5 DEF Exact, Threads, WithList
  <2> QED
    BY <2>6, <2>7, <2>8, <2>9 DEF Exact
<1> QED
  BY <1>8, <1>9, OneClient DEF ServeBatch

(* The list the client goes by is the head the server goes by.             *)
LEMMA GetRecipeInv ==
  ASSUME IInv, NEW c \in Client, GetRecipe(c)
  PROVE  IInv'
<1> DEFINE s == session[c] k == client[c] q == request[c] a == response[c]
           rs == recipeFile[FileOf[c]] k2 == client'[c] q2 == request'[c] a2 == response'[c]
           m == [type |-> "list", list |-> rs[1]] m2 == [type |-> "exit"]
<1>1. /\ Types /\ Exact(FileOf[c], s, k, q, a, rs, Link(c))
      /\ s \in Session /\ k \in Process /\ rs \in Seq(Recipes)
      /\ q \in Seq(Requested) /\ a \in Seq(Responded)
  BY OfClient DEF IInv, Conversation
<1>2. /\ k.main = "recipe" /\ a # << >> /\ 1 \in DOMAIN a /\ a[1].type = "recipe"
      /\ a2 = Tail(a)
  BY <1>1, Took DEF GetRecipe
<1>3. /\ Len(a) = 1 /\ rs # << >> /\ a[1].recipes[1] = rs[1] /\ s.head = rs[1]
      /\ s.at \in {"recv", "exit"} /\ q = << >> /\ Unserved(s) /\ Unfetched(k)
      /\ k.recv = "ask" /\ k.retr = "run" /\ (s.at = "exit" => Link(c) = "lost")
  BY <1>1, <1>2 DEF Exact, Responses, Phases, WithList
<1>4. rs[1] \in Seq(Chunk)
  BY <1>1, <1>3, FirstRecipe
<1>5. /\ m \in Requested /\ m2 \in Requested
      /\ \/ SendRequest(c, m) /\ client' = [client EXCEPT ![c].main = "threads", ![c].list = rs[1]]
         \/ SendRequest(c, m2) /\ client' = [client EXCEPT ![c].main = "failed"]
  BY <1>3, <1>4 DEF GetRecipe, Requested
<1>6. /\ k2 \in Process /\ k2.recv = "ask" /\ k2.retr = "run" /\ Unfetched(k2)
      /\ \/ SendRequest(c, m) /\ k2.main = "threads" /\ k2.list = rs[1]
         \/ SendRequest(c, m2) /\ k2.main = "failed"
      /\ client' \in [Client -> Process]
      /\ \A d \in Client \ {c} : client'[d] = client[d]
  <2>1. \/ SendRequest(c, m) /\ k2 = [k EXCEPT !.main = "threads", !.list = rs[1]]
        \/ SendRequest(c, m2) /\ k2 = [k EXCEPT !.main = "failed"]
    BY <1>1, <1>5 DEF Types
  <2>2. /\ k2 \in Process /\ k2.recv = "ask" /\ k2.retr = "run" /\ Unfetched(k2)
        /\ \/ SendRequest(c, m) /\ k2.main = "threads" /\ k2.list = rs[1]
           \/ SendRequest(c, m2) /\ k2.main = "failed"
    <3> HIDE DEF k, k2, rs, m, m2
    <3> QED
      BY <1>1, <1>3, <1>4, <2>1 DEF Process, Unfetched
  <2>3. /\ client' \in [Client -> Process]
        /\ \A d \in Client \ {c} : client'[d] = client[d]
    BY <1>1, <1>5, <2>2 DEF Types
  <2> QED
    BY <2>2, <2>3
<1>7. /\ request' \in [Client -> Seq(Requested)]
      /\ \A d \in Client \ {c} : request'[d] = request[d]
      /\ Link(c) \in {"lost", "kept"}
      /\ \/ Link(c) = "lost" /\ q2 = q
         \/ Link(c) = "kept" /\ k2.main = "threads" /\ q2 = Append(q, m)
         \/ Link(c) = "kept" /\ k2.main = "failed" /\ q2 = Append(q, m2)
  BY <1>1, <1>5, <1>6, SendsRequest DEF Link
<1>10. /\ a2 = << >> /\ DOMAIN a2 = {} /\ Len(a2) = 0
       /\ DOMAIN q2 = 1 .. Len(q2)
       /\ \/ Link(c) = "lost" /\ q2 = << >> /\ Len(q2) = 0
          \/ k2.main = "threads" /\ Link(c) = "kept" /\ Len(q2) = 1 /\ q2[1] = m
          \/ k2.main = "failed" /\ Link(c) = "kept" /\ Len(q2) = 1 /\ q2[1] = m2
  <2>1. Len(q) = 0 /\ DOMAIN q = {}
    BY <1>3
  <2> HIDE DEF m, m2, q, q2, k2, a, a2
  <2> QED
    BY <1>1, <1>2, <1>3, <1>5, <1>7, <2>1, Appended, WithoutFirst
<1>11. Len(k2.queue) = 0 /\ Len(k2.output) = 0 /\ Len(k2.todo) = 0 /\ Len(k2.queue) <= QueueCapacity
  BY <1>6, RestoreAssumption DEF Unfetched, RestoreAssumption
<1>8. Moves(c)
  BY <1>1, <1>6, <1>7, <1>11, Took DEF GetRecipe, Types, Moves
<1>9. Exact(FileOf[c], s, k2, q2, a2, rs, Link(c))
  <2> HIDE DEF m, s, k, q, a, rs, k2, q2, a2
  <2> HIDE DEF m2
  <2>1. /\ m.type = "list" /\ m.list = rs[1] /\ m2.type = "exit"
    BY DEF m, m2
  <2>2. s.start = 0 /\ s.restored = 0 /\ Len(rs[1]) \in Nat
    BY <1>1, <1>3, <1>4 DEF Unserved
  <2>6. Requests(FileOf[c], s, k2, q2, a2, rs, Link(c))
    BY <1>3, <1>6, <1>10, <2>1 DEF Requests, WithList
  <2>7. Responses(s, k2, q2, a2, rs)
    BY <1>10 DEF Responses
  <2>8. Phases(FileOf[c], s, k2, q2, a2, rs, Link(c))
    BY <1>3, <1>6, <1>10 DEF Phases, WithList
  <2>9. Threads(s, k2, q2, a2, rs, Link(c))
    <3>1. InRow(k2.received, s.restored, a2, rs[1], Link(c))
      BY <1>4, <1>6, <1>10, <2>2, EmptyRow DEF Unfetched
    <3>2. Taken(k2, rs)
      BY <1>6, <1>11, <2>2 DEF Taken, Unfetched
    <3>3. Window(s)
      BY <1>3, <2>2 DEF Window
    <3> QED
      BY <1>3, <1>6, <1>10, <2>1, <3>1, <3>2, <3>3 DEF Threads, WithList
  <2> QED
    BY <2>6, <2>7, <2>8, <2>9 DEF Exact
<1> QED
  BY <1>8, <1>9, OneClient DEF GetRecipe

(* A connection is lost: what is left on it is a beginning of what was.    *)
LEMMA LoseInv ==
  ASSUME IInv, NEW c \in Client, Lose(c)
  PROVE  IInv'
<1> DEFINE s == session[c] k == client[c] q == request[c] a == response[c]
           rs == recipeFile[FileOf[c]] q2 == request'[c] a2 == response'[c]
<1>1. /\ Types /\ Exact(FileOf[c], s, k, q, a, rs, Link(c))
      /\ s \in Session /\ k \in Process /\ rs \in Seq(Recipes)
      /\ q \in Seq(Requested) /\ a \in Seq(Responded)
  BY OfClient DEF IInv, Conversation
<1>2. PICK n1 \in 0 .. Len(q), n2 \in 0 .. Len(a) :
        /\ request' = [request EXCEPT ![c] = SubSeq(@, 1, n1)]
        /\ response' = [response EXCEPT ![c] = SubSeq(@, 1, n2)]
  BY DEF Lose
<1>3. /\ broken' = broken \cup {c} /\ recipeFile' = recipeFile
      /\ session' = session /\ client' = client
  BY DEF Lose
<1>4. q2 = SubSeq(q, 1, n1) /\ a2 = SubSeq(a, 1, n2)
  BY <1>1, <1>2 DEF Types
<1>5. /\ q2 \in Seq(Requested) /\ Len(q2) = n1 /\ DOMAIN q2 = 1 .. n1
      /\ 1 .. n1 \subseteq DOMAIN q /\ \A i \in 1 .. n1 : q2[i] = q[i]
      /\ DOMAIN q = 1 .. Len(q) /\ Len(q) \in Nat
      /\ a2 \in Seq(Responded) /\ Len(a2) = n2 /\ DOMAIN a2 = 1 .. n2
      /\ 1 .. n2 \subseteq DOMAIN a /\ \A i \in 1 .. n2 : a2[i] = a[i]
      /\ DOMAIN a = 1 .. Len(a) /\ Len(a) \in Nat
  BY <1>1, <1>4, CutShort
<1>6. Types'
  BY <1>1, <1>2, <1>3, <1>4, <1>5 DEF Types
<1>7. ASSUME NEW d \in Client \ {c} PROVE Conversation(d)'
  <2>1. /\ request'[d] = request[d] /\ response'[d] = response[d]
        /\ (d \in broken') = (d \in broken)
    BY <1>1, <1>2, <1>3 DEF Types
  <2> QED
    BY <1>3, <2>1 DEF IInv, Conversation, Link
<1>8. Exact(FileOf[c], s, k, q2, a2, rs, "lost")
  <2> HIDE DEF s, k, q, a, rs, q2, a2
  <2>1. /\ Requests(FileOf[c], s, k, q, a, rs, Link(c)) /\ Responses(s, k, q, a, rs)
        /\ Phases(FileOf[c], s, k, q, a, rs, Link(c)) /\ Threads(s, k, q, a, rs, Link(c))
    BY <1>1 DEF Exact
  <2>2. \A i \in DOMAIN q2 : i \in DOMAIN q /\ q2[i] = q[i] /\ 1 \in DOMAIN q /\ q2[1] = q[1]
                             /\ (i = Len(q) => i = Len(q2)) /\ (Len(q) = 1 => Len(q2) = 1)
    BY <1>5
  <2>3. \A i \in DOMAIN a2 : i \in DOMAIN a /\ a2[i] = a[i] /\ 1 \in DOMAIN a /\ a2[1] = a[1]
                             /\ (i = Len(a) => i = Len(a2)) /\ (Len(a) = 1 => Len(a2) = 1)
    BY <1>5
  <2>4. (q = << >> => q2 = << >>) /\ (a = << >> => a2 = << >>) /\ Len(a2) <= Len(a)
    BY <1>1, <1>5
  <2>5. (q2 # << >> => 1 \in DOMAIN q2) /\ (a2 # << >> => 1 \in DOMAIN a2)
    BY <1>5
  <2>6. Requests(FileOf[c], s, k, q2, a2, rs, "lost")
    BY <2>1, <2>2, <2>4 DEF Requests
  <2>7. Responses(s, k, q2, a2, rs)
    BY <2>1, <2>3 DEF Responses
  <2>8. Phases(FileOf[c], s, k, q2, a2, rs, "lost")
    <3>1. q2 # << >> => q # << >> /\ q2[1] = q[1]
      BY <2>2, <2>4, <2>5
    <3>2. a2 # << >> => a # << >> /\ a2[1] = a[1]
      BY <2>3, <2>4, <2>5
    <3>3. Len(a) <= 1 => Len(a2) <= 1
      BY <1>5, <2>4
    <3> QED
      BY <2>1, <2>4, <3>1, <3>2, <3>3 DEF Phases
  <2>9. Threads(s, k, q2, a2, rs, "lost")
    <3>1. ASSUME WithList(k) PROVE InRow(k.received, s.restored, a2, rs[1], "lost")
      <4>1. /\ rs # << >> /\ InRow(k.received, s.restored, a, rs[1], Link(c))
            /\ k.received \in Nat /\ s.restored \in Nat /\ s.restored <= s.restored
        BY <1>1, <2>1, <3>1 DEF Threads, Session, Process
      <4>2. rs[1] \in Seq(Chunk)
        BY <1>1, <4>1, FirstRecipe
      <4>3. a2 = SubSeq(a, 1, n2) /\ n2 \in 0 .. Len(a)
        BY <1>2, <1>4 DEF a
      <4> QED
        BY <1>1, <4>1, <4>2, <4>3, RowLost
    <3> QED
      BY <2>1, <2>4, <3>1 DEF Threads
  <2> QED
    BY <2>6, <2>7, <2>8, <2>9 DEF Exact
<1>9. Conversation(c)'
  BY <1>3, <1>8 DEF Conversation, Link
<1> QED
  BY <1>6, <1>7, <1>9 DEF IInv

(* An upload leaves the first recipe of a file where it is.                *)
LEMMA Uploaded ==
  ASSUME NEW c \in Client, NEW s, NEW k, NEW q, NEW a, NEW rs, NEW rs2,
         rs # << >> => rs2 # << >> /\ rs2[1] = rs[1],
         Exact(FileOf[c], s, k, q, a, rs, Link(c))
  PROVE  Exact(FileOf[c], s, k, q, a, rs2, Link(c))
<1>1. /\ Requests(FileOf[c], s, k, q, a, rs, Link(c)) /\ Responses(s, k, q, a, rs)
      /\ Phases(FileOf[c], s, k, q, a, rs, Link(c)) /\ Threads(s, k, q, a, rs, Link(c))
  BY DEF Exact
<1>2. WithList(k) => rs # << >> /\ rs2 # << >> /\ rs2[1] = rs[1]
  BY <1>1 DEF Threads
<1>3. Requests(FileOf[c], s, k, q, a, rs2, Link(c))
  BY <1>1, <1>2 DEF Requests
<1>4. Responses(s, k, q, a, rs2)
  BY <1>1 DEF Responses
<1>5. Phases(FileOf[c], s, k, q, a, rs2, Link(c))
  BY <1>1 DEF Phases
<1>6. Threads(s, k, q, a, rs2, Link(c))
  BY <1>1, <1>2 DEF Threads, Taken
<1> QED
  BY <1>3, <1>4, <1>5, <1>6 DEF Exact

(* A later upload under the same name goes behind the first.               *)
LEMMA StoreInv ==
  ASSUME IInv, NEW f \in FileName, NEW r \in Recipes, StoreRecipe(f, r) \/ StoreAgain(f, r)
  PROVE  IInv'
<1>1. /\ Types /\ recipeFile[f] \in Seq(Recipes)
      /\ UNCHANGED <<broken, request, response, session, client>>
  BY DEF IInv, Types, StoreRecipe, StoreAgain
<1>2. /\ recipeFile'[f] \in Seq(Recipes)
      /\ recipeFile[f] # << >> => recipeFile'[f] # << >> /\ recipeFile'[f][1] = recipeFile[f][1]
      /\ recipeFile' = [recipeFile EXCEPT ![f] = recipeFile'[f]]
  <2>1. CASE StoreRecipe(f, r)
    BY <1>1, <2>1 DEF StoreRecipe, Types
  <2>2. CASE StoreAgain(f, r)
    <3>1. recipeFile' = [recipeFile EXCEPT ![f] = Append(recipeFile[f], r)]
      BY <2>2 DEF StoreAgain
    <3>2. recipeFile'[f] = Append(recipeFile[f], r)
      BY <1>1, <3>1 DEF Types
    <3>3. /\ Append(recipeFile[f], r) \in Seq(Recipes)
          /\ recipeFile[f] # << >> /\ 1 \in DOMAIN recipeFile[f]
          /\ Append(recipeFile[f], r)[1] = recipeFile[f][1]
          /\ Append(recipeFile[f], r) # << >>
      BY <1>1, <2>2 DEF StoreAgain
    <3> QED
      BY <3>1, <3>2, <3>3
  <2> QED
    BY <2>1, <2>2
<1>3. Types'
  BY <1>1, <1>2 DEF Types
<1>4. ASSUME NEW c \in Client PROVE Conversation(c)'
  <2>1. FileOf[c] \in FileName
    BY <1>1, OfClient
  <2>2. recipeFile[FileOf[c]] # << >> =>
          recipeFile'[FileOf[c]] # << >> /\ recipeFile'[FileOf[c]][1] = recipeFile[FileOf[c]][1]
    <3>1. CASE FileOf[c] = f
      BY <1>2, <3>1
    <3>2. CASE FileOf[c] # f
      <4>1. recipeFile'[FileOf[c]] = recipeFile[FileOf[c]]
        BY <1>1, <1>2, <2>1, <3>2 DEF Types
      <4> QED
        BY <4>1
    <3> QED
      BY <3>1, <3>2
  <2>3. Exact(FileOf[c], session[c], client[c], request[c], response[c],
              recipeFile'[FileOf[c]], Link(c))
    <3>1. Exact(FileOf[c], session[c], client[c], request[c], response[c],
                recipeFile[FileOf[c]], Link(c))
      BY DEF IInv, Conversation
    <3> DEFINE rs == recipeFile[FileOf[c]] rs2 == recipeFile'[FileOf[c]]
    <3>2. rs # << >> => rs2 # << >> /\ rs2[1] = rs[1]
      BY <2>2
    <3> HIDE DEF rs, rs2
    <3>3. Exact(FileOf[c], session[c], client[c], request[c], response[c], rs, Link(c))
      BY <3>1 DEF rs
    <3>4. Exact(FileOf[c], session[c], client[c], request[c], response[c], rs2, Link(c))
      BY <3>2, <3>3, Uploaded
    <3> QED
      BY <3>4 DEF rs2
  <2> QED
    BY <1>1, <2>3 DEF Conversation, Link
<1> QED
  BY <1>3, <1>4 DEF IInv

(* IInv is inductive.                                                      *)
LEMMA NextInv == IInv /\ [Next]_vars => IInv'
<1> SUFFICES ASSUME IInv, [Next]_vars PROVE IInv'
  OBVIOUS
<1>1. CASE UNCHANGED vars
  BY <1>1 DEF vars, IInv, Types, Conversation, Link
<1>2. ASSUME NEW f \in FileName, NEW r \in Recipes, StoreRecipe(f, r) \/ StoreAgain(f, r)
      PROVE  IInv'
  BY <1>2, StoreInv
<1>3. ASSUME NEW c \in Client, Lose(c) PROVE IInv'
  BY <1>3, LoseInv
<1>4. ASSUME NEW c \in Client, DataThread(c) PROVE IInv'
  BY <1>4, ServeRecipeSizeInv, ServeRecipeInv, ServeListInv, ServeChunksInv, ServeBatchInv,
     BatchesDoneInv, ServeExitInv, ServeLostInv DEF DataThread
<1>5. ASSUME NEW c \in Client, Main(c) PROVE IInv'
  BY <1>5, AskRecipeInv, GetSizeInv, GetRecipeInv, JoinInv DEF Main
<1>6. ASSUME NEW c \in Client, RecvDecode(c) PROVE IInv'
  BY <1>6, AskChunksInv, TakeBatchInv, PushChunkInv, RecvDoneInv, LostServerInv DEF RecvDecode
<1>7. ASSUME NEW c \in Client, Retriever(c) PROVE IInv'
  BY <1>7, WriteInv, RetrDoneInv DEF Retriever
<1> QED
  BY <1>1, <1>2, <1>3, <1>4, <1>5, <1>6, <1>7 DEF Next
-----------------------------------------------------------------------------
(* The conversation of every restore keeps its order, and its chunks are   *)
(* in one row from the first one written to the last one sent.             *)
THEOREM Ordered == Spec => []IInv
<1>1. Init => IInv
  BY InitInv
<1>2. IInv /\ [Next]_vars => IInv'
  BY NextInv
<1> QED
  BY <1>1, <1>2, PTL DEF Spec

(* Every variable keeps its type, the queue of chunks its capacity, and    *)
(* the bounds of a window 32 bits.                                         *)
THEOREM TypesKept == Spec => []TypeOK
<1>1. IInv => TypeOK
  <2> SUFFICES ASSUME IInv PROVE TypeOK
    OBVIOUS
  <2>1. ASSUME NEW f \in FileName, NEW i \in DOMAIN recipeFile[f]
        PROVE  recipeFile[f][i] \in Recipes
    <3>1. recipeFile[f] \in Seq(Recipes)
      BY DEF IInv, Types
    <3> QED
      BY <3>1
  <2>2. ASSUME NEW c \in Client
        PROVE  /\ session[c].at \in {"recv", "recipe", "chunks", "exit"}
               /\ session[c].start \in 0 .. UintMod - 1 /\ session[c].end \in 0 .. UintMod - 1
               /\ client[c].main \in {"init", "size", "recipe", "threads", "done", "failed"}
               /\ client[c].recv \in {"ask", "run", "exit"} /\ client[c].retr \in {"run", "exit"}
               /\ client[c].queue \in Seq(Data) /\ Len(client[c].queue) <= QueueCapacity
               /\ client[c].output \in Seq(Data)
    BY OfClient DEF IInv, Types, Session, Process
  <2> QED
    BY <2>1, <2>2 DEF TypeOK, IInv, Types
<1> QED
  BY <1>1, Ordered, PTL

(* What a restore writes is the file as it was first uploaded, up to where *)
(* it has come, and all of it when the client ends well: for every recipe, *)
(* batch size and capacity, with any number of clients, with connections   *)
(* lost at any moment and with later uploads of a file being restored.    *)
THEOREM RestoresExactly == Spec => []RestoreExact
<1>1. IInv => RestoreExact
  <2> SUFFICES ASSUME IInv, NEW c \in Client, client[c].main \in {"threads", "done"}
               PROVE  LET r == recipeFile[FileOf[c]][1]
                          out == client[c].output
                      IN  /\ Len(out) <= Len(r)
                          /\ \A i \in DOMAIN out :
                               out[i] = IF r[i] \in Indexed THEN r[i] ELSE Garbage
                          /\ client[c].main = "done" => Len(out) = Len(r)
    BY DEF RestoreExact
  <2> DEFINE r == recipeFile[FileOf[c]][1] k == client[c]
             n == Len(k.output) n2 == Len(k.queue) n3 == Len(k.todo) n4 == Len(r)
  <2>1. /\ Taken(k, recipeFile[FileOf[c]]) /\ recipeFile[FileOf[c]] # << >>
        /\ k.main = "done" => Len(k.output) = Len(r)
        /\ k \in Process
    BY OfClient DEF IInv, Conversation, Exact, Threads, WithList
  <2>2. n \in Nat /\ n2 \in Nat /\ n3 \in Nat /\ n4 \in Nat
    <3>1. k.output \in Seq(Data) /\ k.queue \in Seq(Data) /\ k.todo \in Seq(Sent)
      BY <2>1 DEF Process
    <3>2. recipeFile[FileOf[c]] \in Seq(Recipes)
      BY OfClient DEF IInv
    <3>3. r \in Seq(Chunk)
      BY <2>1, <3>2, FirstRecipe
    <3> HIDE DEF r, k
    <3> QED
      BY <3>1, <3>3
  <2>3. n + n2 + n3 = k.received /\ k.received <= n4
    BY <2>1 DEF Taken
  <2>4. n <= n4
    <3> HIDE DEF n, n2, n3, n4
    <3> QED
      BY <2>2, <2>3
  <2>5. \A i \in DOMAIN k.output : k.output[i] = IF r[i] \in Indexed THEN r[i] ELSE Garbage
    BY <2>1 DEF Taken, Has
  <2> QED
    BY <2>1, <2>4, <2>5
<1> QED
  BY <1>1, Ordered, PTL

(* The server never reads beyond the list it got from the client, and its  *)
(* batches follow one another without gap or overlap, 32-bit subtraction   *)
(* and all, whatever the batch size and the length of the list.            *)
THEOREM WindowStaysInside == Spec => []WindowInsideList
<1>1. IInv => WindowInsideList
  <2> SUFFICES ASSUME IInv, NEW c \in Client, session[c].at = "chunks",
                      session[c].restored # Len(session[c].head)
               PROVE  LET s == session[c] IN
                      s.start = s.restored /\ s.start <= s.end /\ s.end <= Len(s.list)
    BY DEF WindowInsideList
  <2> DEFINE s == session[c] rs == recipeFile[FileOf[c]]
  <2>1. s.list = rs[1] /\ s.head = rs[1] /\ Window(s)
    BY DEF IInv, Conversation, Exact, Phases, Threads
  <2> QED
    BY <2>1 DEF Window
<1> QED
  BY <1>1, Ordered, PTL
-----------------------------------------------------------------------------
(* How a restore keeps going while its connection is kept: an end that     *)
(* waits for a message has one on its way or is waited for itself, and a   *)
(* thread has ended only with everything handed on.                        *)
Goes(s, k, q, a, link) ==
  /\ k.recv = "exit" => k.todo = << >>
  /\ k.main = "done" => k.recv = "exit"
  /\ link = "kept" =>
       /\ s.at = "exit" => k.main \in {"done", "failed"}
       /\ k.main = "size" => q # << >> \/ a # << >>
       /\ k.main = "size" /\ a # << >> => ~ a[1].found \/ Len(a) > 1 \/ s.at = "recipe"
       /\ k.main = "recipe" => a # << >> \/ s.at = "recipe"
       /\ k.main \in {"done", "failed"} /\ s.at # "exit" => q # << >> /\ q[Len(q)].type = "exit"
       /\ k.recv = "run" /\ s.restored # Len(s.head) =>
            s.at = "chunks" \/ \E i \in DOMAIN q : q[i].type = "chunks"
       /\ k.recv = "exit" => k.received >= Len(k.list)

Going(c) == Goes(session[c], client[c], request[c], response[c], Link(c))
GoesOn(c) == Goes(session'[c], client'[c], request'[c], response'[c], Link(c))

(* Nothing else than the connection of c and its ends is changed.          *)
Alone(c) ==
  /\ broken' = broken
  /\ \A d \in Client \ {c} : /\ session'[d] = session[d] /\ client'[d] = client[d]
                             /\ request'[d] = request[d] /\ response'[d] = response[d]

(* What the invariant says of one client.                                  *)
LEMMA Talk ==
  ASSUME IInv, NEW c \in Client
  PROVE  /\ Types /\ session[c] \in Session /\ client[c] \in Process
         /\ request[c] \in Seq(Requested) /\ response[c] \in Seq(Responded)
         /\ recipeFile[FileOf[c]] \in Seq(Recipes) /\ Link(c) \in {"lost", "kept"}
         /\ Requests(FileOf[c], session[c], client[c], request[c], response[c],
                     recipeFile[FileOf[c]], Link(c))
         /\ Responses(session[c], client[c], request[c], response[c], recipeFile[FileOf[c]])
         /\ Phases(FileOf[c], session[c], client[c], request[c], response[c],
                   recipeFile[FileOf[c]], Link(c))
         /\ Threads(session[c], client[c], request[c], response[c],
                    recipeFile[FileOf[c]], Link(c))
BY OfClient DEF IInv, Conversation, Exact

(* Steps of the client's main thread.                                      *)
LEMMA MainGoes ==
  ASSUME IInv, NEW c \in Client, Going(c), Main(c)
  PROVE  GoesOn(c) /\ Alone(c)
<1> DEFINE s == session[c] k == client[c] q == request[c] a == response[c]
           k2 == client'[c] q2 == request'[c] a2 == response'[c] rs == recipeFile[FileOf[c]]
<1>1. /\ Types /\ s \in Session /\ k \in Process /\ q \in Seq(Requested) /\ a \in Seq(Responded)
      /\ Link(c) \in {"lost", "kept"} /\ Goes(s, k, q, a, Link(c)) /\ FileOf[c] \in FileName
  BY Talk, OfClient DEF Going
<1>2. /\ Responses(s, k, q, a, rs) /\ Phases(FileOf[c], s, k, q, a, rs, Link(c))
  BY Talk
<1>3. ASSUME NEW m \in Requested PROVE
        /\ Append(q, m) # << >> /\ Append(q, m)[Len(Append(q, m))] = m
  BY <1>1, Appended
<1>4. CASE AskRecipe(c)
  <2> DEFINE m == [type |-> "recipe", file |-> FileOf[c]]
  <2>1. m \in Requested /\ SendRequest(c, m)
    BY <1>1, <1>4 DEF AskRecipe, Requested
  <2>2. /\ k.main = "init" /\ k2 = [k EXCEPT !.main = "size"]
        /\ session'[c] = s /\ a2 = a /\ Alone(c)
    BY <1>1, <1>4, <2>1, SendsRequest DEF AskRecipe, Types, Alone
  <2>3. Link(c) = "kept" => q2 = Append(q, m)
    BY <1>1, <2>1, SendsRequest
  <2>4. /\ k2.main = "size" /\ k2.recv = "ask" /\ k.recv = "ask"
        /\ s.at \in {"recv", "exit"} /\ a = << >>
    BY <1>1, <1>2, <2>2 DEF Phases, WithList, Process
  <2>5. Link(c) = "kept" => q2 # << >> /\ s.at # "exit"
    BY <1>1, <1>3, <2>1, <2>2, <2>3 DEF Goes
  <2> QED BY <2>2, <2>4, <2>5 DEF Goes, GoesOn
<1>5. CASE GetSize(c)
  <2> DEFINE m == [type |-> "exit"]
  <2>1. /\ k.main = "size" /\ a # << >> /\ a[1].type = "size" /\ a2 = Tail(a)
        /\ session'[c] = s /\ Alone(c) /\ k.recv = "ask"
        /\ \/ a[1].found /\ k2 = [k EXCEPT !.main = "recipe"] /\ q2 = q
           \/ ~ a[1].found /\ k2 = [k EXCEPT !.main = "failed"] /\ SendRequest(c, m)
    <3>1. /\ k.main = "size" /\ Takes(c, "size") /\ session' = session /\ broken' = broken
      BY <1>5 DEF GetSize
    <3>2. /\ a # << >> /\ a[1].type = "size" /\ a2 = Tail(a)
          /\ \A d \in Client \ {c} : response'[d] = response[d]
      BY <1>1, <3>1, Took
    <3>3. k.recv = "ask"
      BY <1>2, <3>1 DEF Phases, WithList
    <3>4. m \in Requested
      BY DEF Requested
    <3>5. CASE a[1].found
      BY <1>1, <1>5, <3>1, <3>2, <3>3, <3>5 DEF GetSize, Types, Alone
    <3>6. CASE ~ a[1].found
      <4>1. SendRequest(c, m) /\ client' = [client EXCEPT ![c].main = "failed"]
        BY <1>5, <3>6 DEF GetSize
      <4>2. \A d \in Client \ {c} : request'[d] = request[d]
        BY <1>1, <3>4, <4>1, SendsRequest
      <4> QED BY <1>1, <3>1, <3>2, <3>3, <3>6, <4>1, <4>2 DEF Types, Alone
    <3> QED BY <3>5, <3>6
  <2>2. ASSUME ~ a[1].found, k2 = [k EXCEPT !.main = "failed"], SendRequest(c, m)
        PROVE  GoesOn(c)
    <3>1. m \in Requested /\ m.type = "exit"
      BY DEF Requested
    <3>2. Link(c) = "kept" => q2 # << >> /\ q2[Len(q2)].type = "exit"
      BY <1>1, <1>3, <2>2, <3>1, SendsRequest
    <3>3. k2.main = "failed" /\ k2.recv = "ask"
      BY <1>1, <2>1, <2>2 DEF Process
    <3> QED BY <2>1, <3>2, <3>3 DEF Goes, GoesOn
  <2>3. ASSUME a[1].found, k2 = [k EXCEPT !.main = "recipe"], q2 = q
        PROVE  GoesOn(c)
    <3>1. k2.main = "recipe" /\ k2.recv = "ask"
      BY <1>1, <2>1, <2>3 DEF Process
    <3>2. Link(c) = "kept" => s.at # "exit" /\ (Len(a) > 1 \/ s.at = "recipe")
      BY <1>1, <2>1, <2>3 DEF Goes
    <3>3. Len(a) > 1 => a2 # << >>
      <4>1. Len(a2) = Len(a) - 1 /\ Len(a) \in Nat
        BY <1>1, <2>1, WithoutFirst
      <4> QED BY <4>1
    <3> QED BY <2>1, <3>1, <3>2, <3>3 DEF Goes, GoesOn
  <2> QED BY <2>1, <2>2, <2>3
<1>6. CASE GetRecipe(c)
  <2>1. /\ k.main = "recipe" /\ Takes(c, "recipe") /\ session' = session /\ broken' = broken
    BY <1>6 DEF GetRecipe
  <2>2. /\ a # << >> /\ a2 = Tail(a) /\ 1 \in DOMAIN a /\ a[1].type = "recipe"
        /\ \A d \in Client \ {c} : response'[d] = response[d]
    BY <1>1, <2>1, Took
  <2>3. k.recv = "ask" /\ k.todo = << >>
    BY <1>2, <2>1 DEF Phases, WithList, Unfetched
  <2>4. a[1].recipes \in Seq(Recipes) /\ a[1].recipes # << >>
    BY <1>1, <1>2, <2>2, OfType DEF Responses
  <2>5. PICK m \in Requested :
          /\ SendRequest(c, m)
          /\ \/ /\ client' = [client EXCEPT ![c].main = "threads", ![c].list = a[1].recipes[1]]
             \/ /\ client' = [client EXCEPT ![c].main = "failed"] /\ m.type = "exit"
    <3>1. CASE a[1].size = Size(a[1].recipes)
      <4>1. [type |-> "list", list |-> a[1].recipes[1]] \in Requested
        BY <2>4, FirstRecipe DEF Requested
      <4> QED BY <1>6, <3>1, <4>1 DEF GetRecipe
    <3>2. CASE a[1].size # Size(a[1].recipes)
      <4>1. [type |-> "exit"] \in Requested
        BY DEF Requested
      <4> QED BY <1>6, <3>2, <4>1 DEF GetRecipe
    <3> QED BY <3>1, <3>2
  <2>6. /\ \A d \in Client \ {c} : request'[d] = request[d] /\ client'[d] = client[d]
        /\ Link(c) = "kept" => q2 # << >> /\ q2[Len(q2)] = m
    BY <1>1, <1>3, <2>5, SendsRequest DEF Types
  <2>7. Alone(c)
    BY <2>1, <2>2, <2>6 DEF Alone
  <2>8. /\ k2.recv = "ask"
        /\ k2.main = "threads" \/ (k2.main = "failed" /\ m.type = "exit")
    BY <1>1, <2>3, <2>5 DEF Types, Process
  <2>9. Link(c) = "kept" => s.at # "exit"
    BY <1>1, <2>1 DEF Goes
  <2> QED BY <2>1, <2>6, <2>7, <2>8, <2>9 DEF Goes, GoesOn
<1>7. CASE Join(c)
  <2> DEFINE m == [type |-> "exit"]
  <2>1. m \in Requested /\ SendRequest(c, m)
    BY <1>7 DEF Join, Requested
  <2>2. /\ k.main = "threads" /\ k.recv = "exit" /\ k2 = [k EXCEPT !.main = "done"]
        /\ session'[c] = s /\ a2 = a /\ Alone(c)
    BY <1>1, <1>7, <2>1, SendsRequest DEF Join, Types, Alone
  <2>3. Link(c) = "kept" => q2 # << >> /\ q2[Len(q2)].type = "exit"
    BY <1>1, <1>3, <2>1, SendsRequest
  <2>4. /\ k2.main = "done" /\ k2.recv = "exit" /\ k2.todo = k.todo
        /\ k2.received = k.received /\ k2.list = k.list
    BY <1>1, <2>2 DEF Process
  <2> QED BY <1>1, <2>2, <2>3, <2>4 DEF Goes, GoesOn
<1> QED BY <1>4, <1>5, <1>6, <1>7 DEF Main

(* Steps of the two threads that take the chunks.                          *)
LEMMA ThreadsGo ==
  ASSUME IInv, NEW c \in Client, Going(c), RecvDecode(c) \/ Retriever(c)
  PROVE  GoesOn(c) /\ Alone(c)
<1> DEFINE s == session[c] k == client[c] q == request[c] a == response[c]
           k2 == client'[c] q2 == request'[c] a2 == response'[c] rs == recipeFile[FileOf[c]]
<1>1. /\ Types /\ s \in Session /\ k \in Process /\ q \in Seq(Requested) /\ a \in Seq(Responded)
      /\ Link(c) \in {"lost", "kept"} /\ Goes(s, k, q, a, Link(c))
  BY Talk DEF Going
<1>2. /\ Phases(FileOf[c], s, k, q, a, rs, Link(c)) /\ Threads(s, k, q, a, rs, Link(c))
      /\ Responses(s, k, q, a, rs)
  BY Talk
<1>3. k.recv # "ask" \/ k.main = "threads" => WithList(k)
  BY <1>2 DEF Phases, WithList
<1>4. CASE AskChunks(c)
  <2> DEFINE m == [type |-> "chunks"]
  <2>1. m \in Requested /\ SendRequest(c, m)
    BY <1>4 DEF AskChunks, Requested
  <2>2. /\ k.main = "threads" /\ k2 = [k EXCEPT !.recv = "run"]
        /\ session'[c] = s /\ a2 = a /\ Alone(c)
    BY <1>1, <1>4, <2>1, SendsRequest DEF AskChunks, Types, Alone
  <2>3. k2.main = "threads" /\ k2.recv = "run"
    BY <1>1, <2>2 DEF Process
  <2>4. Link(c) = "kept" => \E i \in DOMAIN q2 : q2[i].type = "chunks"
    <3>1. Link(c) = "kept" => q2 = Append(q, m)
      BY <1>1, <2>1, SendsRequest
    <3>2. Append(q, m)[Len(q) + 1] = m /\ Len(q) + 1 \in DOMAIN Append(q, m)
      BY <1>1, <2>1, Appended
    <3> QED BY <3>1, <3>2
  <2> QED BY <1>1, <2>2, <2>3, <2>4 DEF Goes, GoesOn
<1>5. CASE TakeBatch(c)
  <2>1. /\ k.recv = "run" /\ Takes(c, "chunks")
        /\ client' = [client EXCEPT ![c].todo = a[1].chunks, ![c].received = @ + Len(a[1].chunks)]
        /\ broken' = broken /\ request' = request /\ session' = session
    BY <1>5 DEF TakeBatch
  <2>2. \A d \in Client \ {c} : response'[d] = response[d]
    BY <1>1, <2>1, Took
  <2>3. k2.main = k.main /\ k2.recv = "run"
    BY <1>1, <2>1 DEF Types, Process
  <2>4. k.main = "threads"
    BY <1>1, <1>3, <2>1 DEF Goes, WithList
  <2>5. Alone(c)
    BY <1>1, <2>1, <2>2 DEF Types, Alone
  <2> QED BY <1>1, <2>1, <2>3, <2>4, <2>5 DEF Goes, GoesOn
<1>6. CASE PushChunk(c)
  <2>1. k.todo # << >> /\ client' = [client EXCEPT ![c] = client'[c]]
    BY <1>1, <1>6 DEF PushChunk, Types
  <2>2. /\ k2.main = k.main /\ k2.recv = k.recv /\ k2.received = k.received /\ k2.list = k.list
    BY <1>1, <1>6 DEF PushChunk, Types, Process
  <2>3. s = session'[c] /\ q2 = q /\ a2 = a /\ Alone(c)
    BY <1>1, <1>6, <2>1 DEF PushChunk, Types, Alone
  <2> QED BY <1>1, <2>1, <2>2, <2>3 DEF Goes, GoesOn
<1>7. CASE LostServer(c)
  <2>1. /\ Link(c) = "lost" /\ session'[c] = s /\ Alone(c)
        /\ \/ k.main \in {"init", "size", "recipe"} /\ k2 = [k EXCEPT !.main = "failed"]
           \/ k.main = "threads" /\ k.recv = "ask" /\ k2 = [k EXCEPT !.recv = "exit"]
           \/ k.recv = "run" /\ k.todo = << >> /\ k2 = [k EXCEPT !.recv = "exit"]
    BY <1>1, <1>7 DEF LostServer, Types, Alone, Link
  <2>2. CASE k.main \in {"init", "size", "recipe"} /\ k2 = [k EXCEPT !.main = "failed"]
    <3>1. k2.main = "failed" /\ k2.recv = k.recv /\ k2.todo = k.todo
      BY <1>1, <2>2 DEF Process
    <3> QED BY <1>1, <2>1, <3>1 DEF Goes, GoesOn
  <2>3. CASE k.main = "threads" /\ k.recv = "ask" /\ k2 = [k EXCEPT !.recv = "exit"]
    <3>1. k.todo = << >>
      BY <1>2, <2>3 DEF Threads, WithList, Unfetched
    <3>2. k2.recv = "exit" /\ k2.todo = << >>
      BY <1>1, <2>3, <3>1 DEF Process
    <3> QED BY <2>1, <3>2 DEF Goes, GoesOn
  <2>4. CASE k.recv = "run" /\ k.todo = << >> /\ k2 = [k EXCEPT !.recv = "exit"]
    <3>1. k2.recv = "exit" /\ k2.todo = << >>
      BY <1>1, <2>4 DEF Process
    <3> QED BY <2>1, <3>1 DEF Goes, GoesOn
  <2> QED BY <2>1, <2>2, <2>3, <2>4
<1>8. CASE RecvDone(c)
  <2>1. /\ k.recv = "run" /\ k.todo = << >> /\ k.received >= Len(k.list)
        /\ k2 = [k EXCEPT !.recv = "exit"]
        /\ session'[c] = s /\ q2 = q /\ a2 = a /\ Alone(c)
    BY <1>1, <1>8 DEF RecvDone, Types, Alone
  <2>2. /\ k2.main = k.main /\ k2.recv = "exit" /\ k2.todo = << >>
        /\ k2.received = k.received /\ k2.list = k.list
    BY <1>1, <2>1 DEF Process
  <2> QED BY <1>1, <2>1, <2>2 DEF Goes, GoesOn
<1>9. CASE Write(c) \/ RetrDone(c)
  <2>1. /\ k2.main = k.main /\ k2.recv = k.recv /\ k2.todo = k.todo
        /\ k2.received = k.received /\ k2.list = k.list
    BY <1>1, <1>9 DEF Write, RetrDone, Types, Process
  <2>2. session'[c] = s /\ q2 = q /\ a2 = a /\ Alone(c)
    BY <1>1, <1>9 DEF Write, RetrDone, Types, Alone
  <2> QED BY <1>1, <2>1, <2>2 DEF Goes, GoesOn
<1> QED BY <1>4, <1>5, <1>6, <1>7, <1>8, <1>9 DEF RecvDecode, Retriever

(* Steps of the client's data thread.                                      *)
LEMMA DataGoes ==
  ASSUME IInv, IInv', NEW c \in Client, Going(c), DataThread(c)
  PROVE  GoesOn(c) /\ Alone(c)
<1> DEFINE s == session[c] k == client[c] q == request[c] a == response[c]
           s2 == session'[c] q2 == request'[c] a2 == response'[c] rs == recipeFile[FileOf[c]]
<1>1. /\ Types /\ s \in Session /\ k \in Process /\ q \in Seq(Requested) /\ a \in Seq(Responded)
      /\ Link(c) \in {"lost", "kept"} /\ Goes(s, k, q, a, Link(c)) /\ rs \in Seq(Recipes)
  BY Talk DEF Going
<1>2. /\ Requests(FileOf[c], s, k, q, a, rs, Link(c)) /\ Responses(s, k, q, a, rs)
      /\ Phases(FileOf[c], s, k, q, a, rs, Link(c)) /\ Threads(s, k, q, a, rs, Link(c))
  BY Talk
<1>3. ASSUME NEW t, Receives(c, t)
      PROVE  /\ s.at = "recv" /\ 1 \in DOMAIN q /\ q[1].type = t /\ q # << >> /\ q2 = Tail(q)
             /\ \A d \in Client \ {c} : request'[d] = request[d]
             /\ Len(q2) = Len(q) - 1 /\ Len(q) \in Nat /\ DOMAIN q2 = 1 .. Len(q) - 1
             /\ \A i \in DOMAIN q2 : q2[i] = q[i + 1]
  <2>1. /\ s.at = "recv" /\ 1 \in DOMAIN q /\ q[1].type = t /\ q # << >> /\ q2 = Tail(q)
        /\ \A d \in Client \ {c} : request'[d] = request[d]
    BY <1>1, <1>3, Received
  <2>2. /\ Len(Tail(q)) = Len(q) - 1 /\ Len(q) \in Nat /\ DOMAIN Tail(q) = 1 .. Len(q) - 1
        /\ \A i \in DOMAIN Tail(q) : Tail(q)[i] = q[i + 1]
    BY <1>1, <2>1, WithoutFirst
  <2> QED BY <2>1, <2>2
<1>4. ASSUME NEW t, Receives(c, t), t # "exit",
             Link(c) = "kept", k.main \in {"done", "failed"}
      PROVE  q2 # << >> /\ q2[Len(q2)].type = "exit"
  <2>1. q[Len(q)].type = "exit" /\ Len(q) # 1
    BY <1>1, <1>3, <1>4 DEF Goes
  <2>2. Len(q2) = Len(q) - 1 /\ Len(q) \in Nat /\ Len(q) # 0 /\ DOMAIN q2 = 1 .. Len(q) - 1
    BY <1>3, <1>4
  <2>3. Len(q2) \in DOMAIN q2 /\ Len(q2) + 1 = Len(q) /\ Len(q2) # 0
    <3> DEFINE n == Len(q) n2 == Len(q2)
    <3>1. n \in Nat /\ n # 0 /\ n # 1 /\ n2 = n - 1 /\ DOMAIN q2 = 1 .. n - 1
      BY <2>1, <2>2
    <3> HIDE DEF n, n2
    <3>2. n2 \in DOMAIN q2 /\ n2 + 1 = n /\ n2 # 0
      BY <3>1
    <3> QED BY <3>2 DEF n, n2
  <2>4. q2 # << >>
    BY <2>3
  <2> QED BY <1>3, <1>4, <2>1, <2>3, <2>4
<1>5. CASE ServeRecipeSize(c)
  <2> DEFINE found == rs # << >>  m == [type |-> "size", found |-> found]
  <2>1. /\ Receives(c, "recipe") /\ broken' = broken /\ client' = client
        /\ q[1].file = FileOf[c] /\ a = << >>
        /\ k.main = "size" \/ (k.main = "failed" /\ Link(c) = "lost")
    BY <1>2, <1>3, <1>5 DEF ServeRecipeSize, Requests
  <2>2. m \in Responded /\ SendResponse(c, m)
    BY <1>5, <2>1 DEF ServeRecipeSize, Responded
  <2>3. /\ \A d \in Client \ {c} : response'[d] = response[d]
        /\ Link(c) = "kept" => a2 = Append(a, m)
    BY <1>1, <2>2, SendsResponse
  <2>4. Link(c) = "kept" => a2 # << >> /\ (a2[1].found => found)
    <3> DEFINE b == Append(a, m)
    <3>1. b[Len(a) + 1] = m /\ Len(b) = Len(a) + 1 /\ Len(a) = 0
      BY <1>1, <2>1, <2>2, Appended
    <3> HIDE DEF b, a, m
    <3>2. b[1] = m /\ b # << >>
      BY <3>1
    <3> USE DEF b, a, m
    <3>3. m.found => found
      OBVIOUS
    <3> QED BY <2>3, <3>2, <3>3
  <2>5. /\ \A d \in Client \ {c} : session'[d] = session[d]
        /\ found => s2.at = "recipe"
        /\ s2.at # "exit"
    <3>1. s.at = "recv"
      BY <1>3, <2>1
    <3>2. CASE found
      BY <1>1, <1>5, <2>1, <3>1, <3>2 DEF ServeRecipeSize, Types, Session
    <3>3. CASE ~ found
      BY <1>1, <1>5, <2>1, <3>1, <3>3 DEF ServeRecipeSize, Types, Session
    <3> QED BY <3>2, <3>3
  <2>6. k.recv = "ask"
    BY <1>2, <2>1 DEF Phases, WithList
  <2>7. Alone(c)
    BY <1>3, <2>1, <2>3, <2>5 DEF Alone
  <2> QED BY <1>1, <2>1, <2>4, <2>5, <2>6, <2>7 DEF Goes, GoesOn
<1>6. CASE ServeRecipe(c)
  <2>1. /\ s.at = "recipe" /\ broken' = broken /\ client' = client /\ request' = request
        /\ s.file = FileOf[c] /\ rs # << >>
        /\ k.main \in {"size", "recipe"} \/ (k.main = "failed" /\ Link(c) = "lost")
        /\ k.recv = "ask"
    BY <1>2, <1>6 DEF ServeRecipe, Phases, WithList
  <2> DEFINE m == [type |-> "recipe", size |-> s.size, recipes |-> rs]
  <2>2. m \in Responded /\ SendResponse(c, m)
    BY <1>1, <1>6, <2>1 DEF ServeRecipe, Responded, Session
  <2>3. /\ \A d \in Client \ {c} : response'[d] = response[d]
        /\ Link(c) = "kept" => a2 = Append(a, m)
    BY <1>1, <2>2, SendsResponse
  <2>4. /\ \A d \in Client \ {c} : session'[d] = session[d]
        /\ s2.at = "recv"
    BY <1>1, <1>6 DEF ServeRecipe, Types, Session
  <2>5. Link(c) = "kept" => /\ a2 # << >> /\ Len(a2) = Len(a) + 1 /\ Len(a) \in Nat
                            /\ a2[Len(a2)] = m
    BY <1>1, <2>2, <2>3, Appended
  <2>6. Link(c) = "kept" /\ k.main = "size" => Len(a2) > 1
    <3>1. k.main = "size" /\ a2 # << >> => a2[1].type = "size"
      <4>1. Phases(FileOf[c], session'[c], client'[c], request'[c], response'[c],
                   (recipeFile[FileOf[c]])', Link(c)')
        BY Talk DEF IInv, Conversation, Exact
      <4> QED BY <2>1, <4>1 DEF Phases
    <3>2. m.type = "recipe"
      OBVIOUS
    <3> QED BY <2>5, <3>1, <3>2
  <2>7. Alone(c)
    BY <2>1, <2>3, <2>4 DEF Alone
  <2> QED BY <1>1, <2>1, <2>4, <2>5, <2>6, <2>7 DEF Goes, GoesOn
<1>7. CASE ServeList(c)
  <2>1. /\ Receives(c, "list") /\ broken' = broken /\ client' = client /\ response' = response
        /\ WithList(k) /\ s.at = "recv"
    BY <1>2, <1>3, <1>7 DEF ServeList, Requests
  <2>2. /\ \A d \in Client \ {c} : session'[d] = session[d]
        /\ s2.at = "recv" /\ s2.restored = s.restored /\ s2.head = s.head
    BY <1>1, <1>7, <2>1 DEF ServeList, Types, Session
  <2>3. Alone(c)
    BY <1>3, <2>1, <2>2 DEF Alone
  <2>4. ASSUME NEW i \in DOMAIN q, q[i].type = "chunks"
        PROVE  \E j \in DOMAIN q2 : q2[j].type = "chunks"
    <3>1. i # 1 /\ i \in 1 .. Len(q) /\ Len(q) \in Nat
      BY <1>1, <1>3, <2>1, <2>4
    <3>2. i - 1 \in DOMAIN q2 /\ i - 1 + 1 = i
      BY <1>3, <2>1, <3>1
    <3>3. q2[i - 1] = q[i]
      BY <1>3, <2>1, <3>2
    <3> QED BY <2>4, <3>2, <3>3
  <2>5. Link(c) = "kept" /\ k.main \in {"done", "failed"} => q2 # << >> /\ q2[Len(q2)].type = "exit"
    BY <1>4, <2>1
  <2> QED BY <1>1, <2>1, <2>2, <2>3, <2>4, <2>5 DEF Goes, GoesOn, WithList
<1>8. CASE ServeChunks(c)
  <2>1. /\ Receives(c, "chunks") /\ broken' = broken /\ client' = client /\ response' = response
        /\ WithList(k)
    BY <1>2, <1>3, <1>8 DEF ServeChunks, Requests
  <2>2. (\A d \in Client \ {c} : session'[d] = session[d]) /\ s2.at = "chunks"
    BY <1>1, <1>8 DEF ServeChunks, Types, Session
  <2>3. Alone(c)
    BY <1>3, <2>1, <2>2 DEF Alone
  <2>4. Link(c) = "kept" /\ k.main \in {"done", "failed"} => q2 # << >> /\ q2[Len(q2)].type = "exit"
    BY <1>4, <2>1
  <2> QED BY <1>1, <2>1, <2>2, <2>3, <2>4 DEF Goes, GoesOn, WithList
<1>9. CASE ServeBatch(c)
  <2>1. /\ s.at = "chunks" /\ broken' = broken /\ client' = client /\ request' = request
        /\ WithList(k)
    BY <1>2, <1>9 DEF ServeBatch, Phases
  <2>2. (\A d \in Client \ {c} : session'[d] = session[d]) /\ s2.at = "chunks"
    BY <1>1, <1>9 DEF ServeBatch, Types, Session
  <2>3. \A d \in Client \ {c} : response'[d] = response[d]
    BY <1>1, <1>9 DEF ServeBatch, SendResponse, Types
  <2>4. Alone(c)
    BY <2>1, <2>2, <2>3 DEF Alone
  <2> QED BY <1>1, <2>1, <2>2, <2>4 DEF Goes, GoesOn, WithList
<1>10. CASE BatchesDone(c)
  <2>1. /\ s.at = "chunks" /\ s.restored = Len(s.head) /\ broken' = broken /\ client' = client
        /\ request' = request /\ response' = response /\ WithList(k)
    BY <1>2, <1>10 DEF BatchesDone, Phases
  <2>2. /\ \A d \in Client \ {c} : session'[d] = session[d]
        /\ s2.at = "recv" /\ s2.restored = s.restored /\ s2.head = s.head
    BY <1>1, <1>10 DEF BatchesDone, Types, Session
  <2>3. Alone(c)
    BY <2>1, <2>2 DEF Alone
  <2> QED BY <1>1, <2>1, <2>2, <2>3 DEF Goes, GoesOn, WithList
<1>11. CASE ServeExit(c)
  <2>1. /\ Receives(c, "exit") /\ broken' = broken /\ client' = client /\ response' = response
        /\ k.main \in {"done", "failed"}
    BY <1>2, <1>3, <1>11 DEF ServeExit, Requests
  <2>2. (\A d \in Client \ {c} : session'[d] = session[d]) /\ s2.at = "exit"
    BY <1>1, <1>11 DEF ServeExit, Types, Session
  <2>3. Alone(c)
    BY <1>3, <2>1, <2>2 DEF Alone
  <2>4. k.recv # "run"
    BY <1>1, <1>2, <2>1 DEF Goes, Phases, WithList
  <2> QED BY <1>1, <2>1, <2>2, <2>3, <2>4 DEF Goes, GoesOn
<1>12. CASE ServeLost(c)
  <2>1. /\ Link(c) = "lost" /\ client'[c] = k /\ Alone(c)
    BY <1>1, <1>12 DEF ServeLost, Types, Alone, Link
  <2> QED BY <1>1, <2>1 DEF Goes, GoesOn
<1> QED BY <1>5, <1>6, <1>7, <1>8, <1>9, <1>10, <1>11, <1>12 DEF DataThread

(* A step of one client keeps the others going.                            *)
LEMMA OthersGo ==
  ASSUME NEW c \in Client, GoesOn(c), Alone(c), \A d \in Client : Going(d)
  PROVE  \A d \in Client : Going(d)'
<1>1. ASSUME NEW d \in Client \ {c} PROVE Going(d)'
  BY <1>1 DEF Alone, Going, Link
<1>2. Going(c)'
  BY DEF Alone, GoesOn, Going, Link
<1> QED BY <1>1, <1>2

(* While its connection is kept, each restore goes on.                     *)
LEMMA GoingOn == Spec => [](\A c \in Client : Going(c))
<1>1. Init => \A c \in Client : Going(c)
  BY DEF Init, NewSession, NewClient, Going, Goes
<1>2. IInv /\ IInv' /\ (\A c \in Client : Going(c)) /\ [Next]_vars => (\A c \in Client : Going(c))'
  <2> SUFFICES ASSUME IInv, IInv', \A c \in Client : Going(c), [Next]_vars
               PROVE  \A c \in Client : Going(c)'
    OBVIOUS
  <2>1. CASE UNCHANGED vars
    BY <2>1 DEF vars, Going, Link
  <2>2. ASSUME NEW f \in FileName, NEW r \in Recipes, StoreRecipe(f, r) \/ StoreAgain(f, r)
        PROVE  \A c \in Client : Going(c)'
    BY <2>2 DEF StoreRecipe, StoreAgain, Going, Link
  <2>3. ASSUME NEW c \in Client, Lose(c) PROVE \A d \in Client : Going(d)'
    <3>1. session' = session /\ client' = client /\ broken' = broken \cup {c}
      BY <2>3 DEF Lose
    <3>2. ASSUME NEW d \in Client \ {c} PROVE Going(d)'
      <4>1. request'[d] = request[d] /\ response'[d] = response[d]
        BY <2>3 DEF Lose, IInv, Types
      <4> QED BY <3>1, <3>2, <4>1 DEF Going, Link
    <3>3. Going(c)'
      BY <3>1 DEF Going, Goes, Link
    <3> QED BY <3>2, <3>3
  <2>4. ASSUME NEW c \in Client, DataThread(c) PROVE \A d \in Client : Going(d)'
    BY <2>4, DataGoes, OthersGo
  <2>5. ASSUME NEW c \in Client, Main(c) PROVE \A d \in Client : Going(d)'
    BY <2>5, MainGoes, OthersGo
  <2>6. ASSUME NEW c \in Client, RecvDecode(c) \/ Retriever(c) PROVE \A d \in Client : Going(d)'
    BY <2>6, ThreadsGo, OthersGo
  <2> QED BY <2>1, <2>2, <2>3, <2>4, <2>5, <2>6 DEF Next
<1> QED BY <1>1, <1>2, Ordered, PTL DEF Spec

(* The first message on the connection, by where the client is.            *)
LEMMA FirstResponse ==
  ASSUME IInv, NEW c \in Client, response[c] # << >>
  PROVE  /\ client[c].main = "size" => response[c][1].type = "size"
         /\ client[c].main = "recipe" => response[c][1].type = "recipe"
         /\ client[c].main \in {"threads", "done"} => response[c][1].type = "chunks"
<1> DEFINE s == session[c] k == client[c] q == request[c] a == response[c]
           rs == recipeFile[FileOf[c]]
<1>1. /\ a \in Seq(Responded) /\ Responses(s, k, q, a, rs)
      /\ Phases(FileOf[c], s, k, q, a, rs, Link(c))
  BY Talk
<1>2. 1 \in DOMAIN a /\ a[1] \in Responded
  BY <1>1, WithoutFirst
<1>3. a[1].type \in {"size", "recipe", "chunks"}
  BY <1>2 DEF Responded
<1> QED BY <1>1, <1>2, <1>3 DEF Responses, Phases, WithList

(* While the connection is kept and nothing is on it for the client, what  *)
(* the client has taken is what the server has sent.                       *)
LEMMA AllTaken ==
  ASSUME IInv, NEW c \in Client, WithList(client[c])
  PROVE  LET s == session[c] k == client[c] IN
         /\ k.received <= s.restored /\ s.restored <= Len(s.head)
         /\ Link(c) = "kept" /\ response[c] = << >> => k.received = s.restored
         /\ k.list = s.head /\ k.received <= Len(k.list)
         /\ Len(k.output) + Len(k.queue) + Len(k.todo) = k.received
         /\ k.retr = "exit" => Len(k.output) = Len(k.list)
         /\ Len(k.output) \in Nat /\ Len(k.queue) \in Nat /\ Len(k.todo) \in Nat
         /\ k.received \in Nat /\ s.restored \in Nat /\ Len(k.list) \in Nat
<1> DEFINE s == session[c] k == client[c] q == request[c] a == response[c]
           rs == recipeFile[FileOf[c]]
<1>1. /\ s \in Session /\ k \in Process /\ a \in Seq(Responded) /\ rs \in Seq(Recipes)
      /\ Threads(s, k, q, a, rs, Link(c))
  BY Talk
<1>2. /\ rs # << >> /\ k.list = rs[1] /\ s.head = rs[1] /\ Window(s) /\ Taken(k, rs)
      /\ InRow(k.received, s.restored, a, rs[1], Link(c))
      /\ k.retr = "exit" => Len(k.output) = Len(rs[1])
  BY <1>1 DEF Threads
<1>3. /\ Len(k.output) \in Nat /\ Len(k.queue) \in Nat /\ Len(k.todo) \in Nat
      /\ k.received \in Nat /\ s.restored \in Nat /\ Len(k.list) \in Nat
  <2>1. /\ k.output \in Seq(Data) /\ k.queue \in Seq(Data) /\ k.todo \in Seq(Sent)
        /\ k.list \in Seq(Chunk) /\ k.received \in Nat
    BY <1>1 DEF Process
  <2>2. s.restored \in Nat
    BY <1>1 DEF Session
  <2> HIDE DEF k, s
  <2> QED BY <2>1, <2>2
<1>4. PICK p \in [1 .. Len(a) + 1 -> 0 .. Len(rs[1])] :
        /\ p[1] = k.received
        /\ \A i \in 1 .. Len(a) + 1 : p[i] <= s.restored
        /\ Link(c) = "kept" => p[Len(a) + 1] = s.restored
  BY <1>2 DEF InRow
<1>5. Len(a) \in Nat /\ 1 \in 1 .. Len(a) + 1
  BY <1>1
<1>6. a = << >> => Len(a) + 1 = 1
  BY <1>1
<1>7. k.received <= s.restored /\ (Link(c) = "kept" /\ a = << >> => k.received = s.restored)
  BY <1>4, <1>5, <1>6
<1> QED BY <1>2, <1>3, <1>7 DEF Window, Taken

(* No full queue stops both threads of the client.                         *)
LEMMA QueueMoves ==
  ASSUME IInv, NEW c \in Client, client[c].main = "threads", RetrieverWaits(c),
         client[c].todo # << >>
  PROVE  Len(client[c].queue) < QueueCapacity
<1> DEFINE k == client[c]
<1>1. /\ Len(k.output) + Len(k.queue) + Len(k.todo) = k.received /\ k.received <= Len(k.list)
      /\ k.retr = "exit" => Len(k.output) = Len(k.list)
      /\ Len(k.output) \in Nat /\ Len(k.queue) \in Nat /\ Len(k.todo) \in Nat
      /\ Len(k.list) \in Nat /\ k.received \in Nat
  BY AllTaken DEF WithList
<1>2. Len(k.todo) # 0
  BY Talk DEF Process
<1>3. k.retr # "exit"
  <2> DEFINE out == Len(k.output) inQueue == Len(k.queue) left == Len(k.todo) all == Len(k.list)
             got == k.received
  <2>1. /\ out \in Nat /\ inQueue \in Nat /\ left \in Nat /\ all \in Nat /\ got \in Nat
        /\ out + inQueue + left = got /\ got <= all /\ left # 0
        /\ k.retr = "exit" => out = all
    BY <1>1, <1>2
  <2> HIDE DEF out, inQueue, left, all, got
  <2> QED BY <2>1
<1>4. k.queue = << >>
  BY <1>3 DEF RetrieverWaits
<1>5. Len(k.queue) = 0
  BY <1>4
<1> QED BY <1>5, RestoreAssumption DEF RestoreAssumption

(* A restore, whose connection may be lost at any moment, never stands     *)
(* still before its end, whatever the sizes of the queue, the connection   *)
(* and the batches: the data thread, main, and main's two threads do not   *)
(* all wait.                                                               *)
THEOREM DeadlockFree == Spec => []NoDeadlock
<1>1. IInv /\ (\A c \in Client : Going(c)) => NoDeadlock
  <2> SUFFICES ASSUME IInv, NEW c \in Client, Going(c), DataThreadWaits(c), MainWaits(c),
                      RecvDecodeWaits(c), RetrieverWaits(c)
               PROVE  Ended(c)
    BY DEF NoDeadlock
  <2> DEFINE s == session[c] k == client[c] q == request[c] a == response[c]
             rs == recipeFile[FileOf[c]]
  <2>1. /\ s \in Session /\ k \in Process /\ Goes(s, k, q, a, Link(c))
        /\ Requests(FileOf[c], s, k, q, a, rs, Link(c))
        /\ Phases(FileOf[c], s, k, q, a, rs, Link(c)) /\ Threads(s, k, q, a, rs, Link(c))
    BY Talk DEF Going
  <2>2. k.main \in {"size", "recipe", "threads", "done", "failed"}
    BY <2>1 DEF MainWaits, Process
  <2>3. k.main = "size" => a = << >> /\ Link(c) = "kept"
    BY FirstResponse DEF MainWaits, NextIs, HungUp, Link
  <2>4. k.main = "recipe" => a = << >> /\ Link(c) = "kept"
    BY FirstResponse DEF MainWaits, NextIs, HungUp, Link
  <2>5. k.main = "threads" => k.recv = "exit" \/
          (/\ k.recv = "run" /\ k.todo = << >> /\ k.received < Len(k.list)
           /\ a = << >> /\ Link(c) = "kept")
    <3> SUFFICES ASSUME k.main = "threads", k.recv # "exit"
                 PROVE  /\ k.recv = "run" /\ k.todo = << >> /\ k.received < Len(k.list)
                        /\ a = << >> /\ Link(c) = "kept"
      OBVIOUS
    <3>1. k.todo # << >> => ~ Len(k.queue) >= QueueCapacity
      <4>1. Len(k.queue) \in Nat /\ QueueCapacity \in Nat
        BY AllTaken, RestoreAssumption DEF RestoreAssumption, WithList
      <4> QED BY <4>1, QueueMoves
    <3>2. /\ k.recv = "run" /\ k.todo = << >> /\ k.received < Len(k.list)
          /\ ~ NextIs(c, "chunks") /\ ~ HungUp(c)
      BY <3>1 DEF RecvDecodeWaits
    <3> QED BY <3>2, FirstResponse DEF NextIs, HungUp, Link
  <2>6. CASE Link(c) = "lost"
    <3>1. s.at = "exit"
      BY <2>6 DEF DataThreadWaits, SendBlocked, Link
    <3>2. k.main \in {"threads", "done", "failed"}
      BY <2>2, <2>3, <2>4, <2>6
    <3>3. CASE k.main = "threads"
      <4>1. k.recv = "exit" /\ k.retr = "run"
        BY <2>1, <2>5, <2>6, <3>3 DEF MainWaits, Process
      <4>2. k.queue = << >> /\ Len(k.output) < Len(k.list)
        BY <3>3, <4>1 DEF RetrieverWaits
      <4> QED BY <2>6, <3>1, <3>3, <4>1, <4>2 DEF Ended, Link
    <3> QED BY <3>1, <3>2, <3>3 DEF Ended
  <2>7. CASE Link(c) = "kept"
    <3>1. a # << >> \/ ~ SendBlocked(c)
      <4>1. a = << >> => Len(a) = 0
        OBVIOUS
      <4> QED BY <4>1, RestoreAssumption DEF RestoreAssumption, SendBlocked
    <3>2. /\ s.at = "exit" => k.main \in {"done", "failed"}
          /\ k.main = "size" => q # << >> \/ a # << >>
          /\ k.main = "recipe" => a # << >> \/ s.at = "recipe"
          /\ k.main \in {"done", "failed"} /\ s.at # "exit" => q # << >>
          /\ k.recv = "run" /\ s.restored # Len(s.head) =>
               s.at = "chunks" \/ \E i \in DOMAIN q : q[i].type = "chunks"
          /\ k.recv = "exit" => k.received >= Len(k.list) /\ k.todo = << >>
          /\ k.main = "done" => k.recv = "exit"
      BY <2>1, <2>7 DEF Goes
    <3>3. k.main # "size"
      BY <2>3, <3>1, <3>2 DEF DataThreadWaits
    <3>4. k.main # "recipe"
      BY <2>4, <3>1, <3>2 DEF DataThreadWaits
    <3>5. k.main # "threads"
      <4> SUFFICES ASSUME k.main = "threads" PROVE FALSE
        OBVIOUS
      <4>1. /\ Len(k.output) + Len(k.queue) + Len(k.todo) = k.received
            /\ k.received <= Len(k.list) /\ k.list = s.head
            /\ a = << >> => k.received = s.restored
            /\ Len(k.output) \in Nat /\ Len(k.queue) \in Nat /\ Len(k.todo) \in Nat
            /\ k.received \in Nat /\ Len(k.list) \in Nat
        BY <2>7, AllTaken DEF WithList
      <4>2. CASE k.recv = "exit"
        <5>1. k.retr # "exit"
          BY <4>2 DEF MainWaits
        <5>2. k.queue = << >> /\ Len(k.output) < Len(k.list)
          BY <5>1 DEF RetrieverWaits
        <5>3. Len(k.queue) = 0 /\ Len(k.todo) = 0 /\ k.received >= Len(k.list)
          BY <3>2, <4>2, <5>2
        <5> DEFINE out == Len(k.output) inQueue == Len(k.queue) left == Len(k.todo)
                   all == Len(k.list) got == k.received
        <5>4. /\ out \in Nat /\ inQueue = 0 /\ left = 0 /\ all \in Nat /\ got \in Nat
              /\ out + inQueue + left = got /\ got >= all /\ out < all
          BY <4>1, <5>2, <5>3
        <5> HIDE DEF out, inQueue, left, all, got
        <5> QED BY <5>4
      <4>3. CASE k.recv # "exit"
        <5>1. k.recv = "run" /\ k.received < Len(k.list) /\ a = << >>
          BY <2>5, <4>3
        <5>2. s.restored # Len(s.head)
          BY <4>1, <5>1
        <5>3. CASE s.at = "chunks"
          BY <3>1, <5>1, <5>3 DEF DataThreadWaits
        <5>4. CASE \E i \in DOMAIN q : q[i].type = "chunks"
          <6>1. s.at = "recv" /\ q # << >>
            BY <2>1, <5>4 DEF Requests
          <6> QED BY <2>7, <3>1, <5>1, <6>1 DEF DataThreadWaits
        <5> QED BY <3>2, <5>1, <5>2, <5>3, <5>4
      <4> QED BY <4>2, <4>3
    <3>6. k.main \in {"done", "failed"}
      BY <2>2, <3>3, <3>4, <3>5
    <3>7. s.at = "exit"
      <4> SUFFICES ASSUME s.at # "exit" PROVE FALSE
        OBVIOUS
      <4>1. q # << >>
        BY <3>2, <3>6
      <4>2. ~ (s.at = "recv" /\ q[1].type = "recipe")
        <5>1. 1 \in DOMAIN q
          BY <4>1, Talk, WithoutFirst
        <5> QED BY <2>1, <2>7, <3>6, <5>1 DEF Requests
      <4>3. s.at # "recipe"
        BY <2>1, <2>7, <3>6 DEF Phases
      <4>4. s.at = "chunks" => s.restored = Len(s.head)
        <5> SUFFICES ASSUME s.at = "chunks" PROVE s.restored = Len(s.head)
          OBVIOUS
        <5>1. WithList(k) /\ k.main = "done"
          BY <2>1, <3>6 DEF Phases, WithList
        <5>2. /\ k.received <= s.restored /\ s.restored <= Len(s.head) /\ k.list = s.head
              /\ k.received \in Nat /\ s.restored \in Nat /\ Len(k.list) \in Nat
          BY <5>1, AllTaken
        <5>3. k.received >= Len(k.list)
          BY <3>2, <5>1
        <5> QED BY <5>2, <5>3
      <4> QED BY <4>1, <4>2, <4>3, <4>4 DEF DataThreadWaits
    <3> QED BY <3>6, <3>7 DEF Ended
  <2> QED BY <2>6, <2>7 DEF Link
<1> QED BY <1>1, Ordered, GoingOn, PTL
=============================================================================
