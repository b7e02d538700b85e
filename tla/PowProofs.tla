------------------------------- MODULE PowProofs -------------------------------
(***************************************************************************)
(* What holds of PowSession for any number of clients, runs, proofs and    *)
(* faults: a client that uploads and its server thread have one key, and   *)
(* the server dies of nothing but what the model names, unless the server  *)
(* has lost its sessions or a message of an earlier run has come in        *)
(* between.                                                                *)
(*                                                                         *)
(* Conversation says what may be on its way on a connection, whatever has  *)
(* happened; Agreement says how far the two ends agree at each point of    *)
(* it, as long as the cause of the client is empty.                        *)
(***************************************************************************)
EXTENDS PowSession, FiniteSetTheorems, TLAPS

Key == Nat \ {0}
Message(kinds) == [kind : kinds, key : Key \cup {Nothing}]
Opened == 1 .. Len(owner)

ClientTypes ==
  /\ cpc \in [Client -> Asks \cup {"off", "upload", "end", "sealing"}]
  /\ conn \in [Client -> Nat]
  /\ key \in [Client -> Key \cup {Nothing}]
  /\ startMethod \in [Client -> 0 .. 2]
  /\ sealed \in [Client -> Key \cup {Nothing, Torn}]

NetTypes ==
  /\ owner \in Seq(Client) /\ Len(owner) <= MaxRun
  /\ open \subseteq Opened /\ broken \subseteq Opened
  /\ up \in [Connection -> Message(Asks) \cup {Nothing}]
  /\ down \in [Connection -> Message(Answers) \cup {Nothing}]

ServerTypes ==
  /\ sessions \in [Client -> Nat \cup {Nothing}]
  /\ trusted \subseteq Key /\ attested \in Nat
  /\ thread \in [Connection -> {"none", "serve", "verify", "gone"}]
  /\ currentSession \in [Connection -> Nat \cup {Nothing}]
  /\ cause \in [Client -> SUBSET {"restart", "overtaken"}]

(* What holds of a connection by itself, open or left behind by a run that *)
(* was killed.                                                             *)
Line(t) ==
  /\ t \notin Opened => up[t] = Nothing /\ down[t] = Nothing /\ thread[t] = "none"
  /\ up[t] # Nothing /\ up[t].kind = "msg3" => up[t].key \in Key
  /\ down[t] # Nothing /\ down[t].kind = "msg2" => down[t].key \in Key
  /\ thread[t] = "verify" => up[t] # Nothing /\ up[t].kind = "msg3"
  /\ t \in broken => up[t] = Nothing /\ thread[t] \notin {"serve", "verify"}

(* How a run may stand at each point, and that it has one request or one   *)
(* answer on its way at most.                                              *)
Conversation(c) ==
  /\ cpc[c] = "off" => conn[c] = 0 /\ startMethod[c] = 0
  /\ cpc[c] # "off" =>
       /\ conn[c] \in Opened /\ owner[conn[c]] = c
       /\ up[conn[c]] # Nothing =>
            /\ up[conn[c]].kind = cpc[c] /\ down[conn[c]] = Nothing
            /\ cpc[c] = "msg3" => up[conn[c]].key = key[c]
       /\ cpc[c] \in {"logout", "login", "msg01", "msg3"}
            => startMethod[c] = 0 /\ sealed[c] = Nothing
       /\ cpc[c] = "loginSealed" => startMethod[c] = 1
       /\ cpc[c] \in {"getKey", "upload", "proof", "exit", "end"} => startMethod[c] \in {1, 2}
       /\ cpc[c] = "sealing" => startMethod[c] = 2
       /\ startMethod[c] = 1 => key[c] = sealed[c]
       /\ startMethod[c] # 0 \/ cpc[c] = "msg3" => key[c] \in Key

(* The server still has, and trusts, the session of this key.              *)
Held(c, k) == sessions[c] = k /\ k \in trusted

Agreement(c) ==
  cause[c] = {} =>
    /\ sealed[c] \in Key => Held(c, sealed[c])
    /\ cpc[c] # "off" =>
         /\ conn[c] \notin broken
         /\ startMethod[c] = 2 => Held(c, key[c])
         /\ startMethod[c] # 0 => \/ currentSession[conn[c]] = key[c]
                                  \/ cpc[c] = "loginSealed" /\ up[conn[c]] # Nothing
         /\ \/ cpc[c] = "logout" /\ up[conn[c]] = Nothing
            \/ cpc[c] = "login"
            \/ cpc[c] = "msg01" /\ up[conn[c]] # Nothing
            => sessions[c] = Nothing
         /\ cpc[c] = "msg01" /\ down[conn[c]] # Nothing /\ down[conn[c]].kind = "msg2"
            => sessions[c] = down[conn[c]].key
         /\ cpc[c] = "msg3" => sessions[c] = key[c]
         /\ cpc[c] = "msg3" /\ down[conn[c]] # Nothing /\ down[conn[c]].kind = "msg4"
            => key[c] \in trusted /\ currentSession[conn[c]] = key[c]

Types == ClientTypes /\ NetTypes /\ ServerTypes
IInv ==
  /\ Types
  /\ \A t \in Connection : Line(t)
  /\ \A c \in Client : Conversation(c) /\ Agreement(c)
-----------------------------------------------------------------------------
LEMMA InitIInv == Init => IInv
<1> SUFFICES ASSUME Init
             PROVE  IInv
  OBVIOUS
<1>1. << >> \in Seq(Client) /\ Len(<< >>) = 0
  OBVIOUS
<1>2. Types
  BY <1>1, PowAssumption DEF Init, Types, ClientTypes, NetTypes, ServerTypes, Asks
<1>3. ASSUME NEW t \in Connection
      PROVE  Line(t)
  BY DEF Init, Line
<1>4. ASSUME NEW c \in Client
      PROVE  Conversation(c) /\ Agreement(c)
  BY PowAssumption DEF Init, Conversation, Agreement, Key
<1> QED BY <1>2, <1>3, <1>4 DEF IInv

(* A message is something.                                                 *)
LEMMA MessageIs ==
  ASSUME NEW kinds, kinds \subseteq Asks \cup Answers, NEW kind \in kinds, NEW k \in Key \cup {Nothing}
  PROVE  /\ Request(kind, k) \in Message(kinds) /\ Request(kind, k) # Nothing
         /\ Request(kind, k).kind = kind /\ Request(kind, k).key = k
<1>1. Request(kind, k) \in [kind : Asks \cup Answers, key : Nat \cup {Nothing}]
  BY DEF Request, Key
<1> QED BY <1>1, PowAssumption DEF Request, Message

(* A client of which nothing changes, but that its cause may grow and the  *)
(* server may trust more.                                                  *)
LEMMA Kept ==
  ASSUME IInv, NEW c \in Client,
         cpc'[c] = cpc[c], conn'[c] = conn[c], key'[c] = key[c],
         startMethod'[c] = startMethod[c], sealed'[c] = sealed[c],
         cpc[c] # "off" =>
           /\ conn[c] \in Opened' /\ owner'[conn[c]] = owner[conn[c]]
           /\ up'[conn[c]] = up[conn[c]] /\ down'[conn[c]] = down[conn[c]],
         \/ cause'[c] # {}
         \/ /\ cause'[c] = cause[c] /\ sessions'[c] = sessions[c]
            /\ trusted \subseteq trusted'
            /\ cpc[c] # "off" =>
                 /\ conn[c] \in broken' => conn[c] \in broken
                 /\ currentSession'[conn[c]] = currentSession[conn[c]]
  PROVE  Conversation(c)' /\ Agreement(c)'
<1>1. Conversation(c) /\ Agreement(c)
  BY DEF IInv
<1>2. Conversation(c)'
  BY <1>1 DEF Conversation
<1>3. CASE cause'[c] # {}
  BY <1>2, <1>3 DEF Agreement
<1>4. CASE cause'[c] = {}
  <2>1. \A k : Held(c, k) => Held(c, k)'
    BY <1>4 DEF Held
  <2> QED BY <1>1, <1>2, <1>4, <2>1 DEF Agreement
<1> QED BY <1>3, <1>4

(* Where a running client is.                                              *)
LEMMA Where ==
  ASSUME IInv
  PROVE  /\ Opened \subseteq Connection
         /\ \A c \in Client : cpc[c] # "off" =>
              /\ conn[c] \in Opened /\ owner[conn[c]] = c /\ conn[c] \in Connection
              /\ cause[c] = {} => conn[c] \notin broken
<1>1. Len(owner) \in Nat /\ Len(owner) <= MaxRun /\ MaxRun \in Nat
  BY PowAssumption DEF IInv, Types, NetTypes
<1>2. Opened \subseteq Connection
  BY <1>1 DEF Opened, Connection
<1> QED BY <1>2 DEF IInv, Conversation, Agreement

(* The other clients hold what they held.                                  *)
Others(c) ==
  \A d \in Client : d # c => /\ cpc'[d] = cpc[d] /\ key'[d] = key[d]
                            /\ startMethod'[d] = startMethod[d]
                            /\ sealed'[d] = sealed[d]

(* A step of client c on its connection: nothing else changes.             *)
LEMMA ClientTurn ==
  ASSUME IInv, NEW c \in Client, cpc[c] # "off",
         UNCHANGED <<conn, owner, open, broken, serverVars, cause>>,
         \A d \in Client : d # c => /\ cpc'[d] = cpc[d] /\ key'[d] = key[d]
                                  /\ startMethod'[d] = startMethod[d]
                                  /\ sealed'[d] = sealed[d],
         \A t \in Connection : t # conn[c] => up'[t] = up[t] /\ down'[t] = down[t],
         Types', Line(conn[c])', Conversation(c)', Agreement(c)'
  PROVE  IInv'
<1>1. UNCHANGED <<sessions, trusted, attested, thread, currentSession, server>>
  BY DEF serverVars
<1>2. conn[c] \in Opened /\ owner[conn[c]] = c /\ Opened \subseteq Connection
  BY Where
<1>3. ASSUME NEW t \in Connection
      PROVE  Line(t)'
  <2>1. CASE t = conn[c]
    BY <2>1
  <2>2. CASE t # conn[c]
    BY <1>1, <2>2 DEF IInv, Line, Opened
  <2> QED BY <2>1, <2>2
<1>4. ASSUME NEW d \in Client
      PROVE  Conversation(d)' /\ Agreement(d)'
  <2>1. CASE d = c
    BY <2>1
  <2>2. CASE d # c
    <3>1. cpc[d] # "off" => /\ conn[d] \in Opened /\ owner[conn[d]] = d
                            /\ conn[d] # conn[c] /\ conn[d] \in Connection
      BY <1>2, <2>2 DEF IInv, Conversation
    <3> QED BY <1>1, <2>2, <3>1, Kept DEF Opened
  <2> QED BY <2>1, <2>2
<1> QED BY <1>3, <1>4 DEF IInv

(* A client that sends its next request, with what it then holds.          *)
LEMMA SendIInv ==
  ASSUME IInv, NEW c \in Client, cpc[c] # "off",
         NEW r \in Key \cup {Nothing}, Send(c, Request(cpc'[c], r)),
         ClientTypes', cpc'[c] \in Asks \ {"logout", "loginSealed"}, Others(c),
         conn' = conn, sealed' = sealed, serverVars' = serverVars, cause' = cause,
         up[conn[c]] = Nothing,
         cpc'[c] = "msg3" => r = key'[c] /\ key'[c] \in Key,
         cpc'[c] \in {"login", "msg01", "msg3"} => startMethod'[c] = 0 /\ sealed[c] = Nothing,
         cpc'[c] \in {"getKey", "proof", "exit"} => startMethod'[c] \in {1, 2},
         startMethod'[c] = 1 => key'[c] = sealed[c],
         startMethod'[c] # 0 => key'[c] \in Key,
         cause[c] = {} =>
           /\ startMethod'[c] = 2 => Held(c, key'[c])
           /\ startMethod'[c] # 0 => currentSession[conn[c]] = key'[c]
           /\ cpc'[c] \in {"login", "msg01"} => sessions[c] = Nothing
           /\ cpc'[c] = "msg3" => sessions[c] = key'[c]
  PROVE  IInv'
<1> DEFINE t == conn[c]
           request == Request(cpc'[c], r)
<1>1. UNCHANGED <<sessions, trusted, attested, thread, currentSession, server>>
  BY DEF serverVars
<1>2. /\ t \in Opened /\ owner[t] = c /\ t \in Connection
      /\ cause[c] = {} => t \notin broken
  BY Where
<1>3. /\ request \in Message(Asks) /\ request # Nothing
      /\ request.kind = cpc'[c] /\ request.key = r
  BY MessageIs
<1>4. /\ up' = [up EXCEPT ![t] = IF t \in broken THEN @ ELSE request]
      /\ down' = [down EXCEPT ![t] = Nothing]
      /\ UNCHANGED <<owner, open, broken>>
  BY DEF Send
<1>5. /\ up' \in [Connection -> Message(Asks) \cup {Nothing}]
      /\ down' \in [Connection -> Message(Answers) \cup {Nothing}]
      /\ up'[t] = (IF t \in broken THEN Nothing ELSE request) /\ down'[t] = Nothing
      /\ \A u \in Connection : u # t => up'[u] = up[u] /\ down'[u] = down[u]
  BY <1>2, <1>3, <1>4 DEF IInv, Types, NetTypes
<1>6. Types'
  <2>1. NetTypes'
    BY <1>4, <1>5 DEF IInv, Types, NetTypes, Opened
  <2>2. ServerTypes'
    BY <1>1 DEF IInv, Types, ServerTypes
  <2> QED BY <2>1, <2>2 DEF Types
<1>7. Line(t)'
  <2>1. thread[t] # "verify"
    BY <1>2 DEF IInv, Line
  <2> QED BY <1>1, <1>2, <1>3, <1>4, <1>5, <2>1 DEF IInv, Line, Opened
<1>8. Conversation(c)'
  BY <1>2, <1>3, <1>4, <1>5 DEF Conversation, Opened, Asks
<1>9. Agreement(c)'
  <2>1. \A x : Held(c, x)' <=> Held(c, x)
    BY <1>1 DEF Held
  <2>2. cause[c] = {} /\ sealed[c] \in Key => Held(c, sealed[c])
    BY DEF IInv, Agreement
  <2> QED BY <1>1, <1>2, <1>4, <1>5, <2>1, <2>2 DEF Agreement
<1> QED BY <1>4, <1>5, <1>6, <1>7, <1>8, <1>9, ClientTurn DEF Others

(* A client that takes an answer and asks for nothing.                     *)
LEMMA RestIInv ==
  ASSUME IInv, NEW c \in Client, cpc[c] # "off", cpc[c] # "loginSealed",
         ClientTypes', cpc'[c] \in {"upload", "end", "sealing"}, Others(c),
         conn' = conn, key' = key, startMethod' = startMethod,
         UNCHANGED <<owner, open, broken, up, serverVars, cause>>,
         down' = [down EXCEPT ![conn[c]] = Nothing] \/ down' = down,
         up[conn[c]] = Nothing,
         startMethod[c] # 0, cpc'[c] = "sealing" => startMethod[c] = 2,
         sealed'[c] = sealed[c] \/ (sealed'[c] = Torn /\ startMethod[c] = 2)
  PROVE  IInv'
<1> DEFINE t == conn[c]
<1>1. UNCHANGED <<sessions, trusted, attested, thread, currentSession, server>>
  BY DEF serverVars
<1>2. /\ t \in Opened /\ owner[t] = c /\ t \in Connection
      /\ cause[c] = {} => t \notin broken
      /\ startMethod[c] \in {1, 2} /\ key[c] \in Key
  BY Where DEF IInv, Conversation, Types, ClientTypes
<1>3. /\ down' \in [Connection -> Message(Answers) \cup {Nothing}]
      /\ down'[t] \in {down[t], Nothing}
      /\ \A u \in Connection : u # t => down'[u] = down[u]
  BY <1>2 DEF IInv, Types, NetTypes
<1>4. Types'
  <2>1. NetTypes'
    BY <1>3 DEF IInv, Types, NetTypes, Opened
  <2>2. ServerTypes'
    BY <1>1 DEF IInv, Types, ServerTypes
  <2> QED BY <2>1, <2>2 DEF Types
<1>5. Line(t)'
  BY <1>1, <1>2, <1>3 DEF IInv, Line, Opened
<1>6. Conversation(c)'
  BY <1>2 DEF IInv, Conversation, Opened
<1>7. Agreement(c)'
  <2>1. \A x : Held(c, x)' <=> Held(c, x)
    BY <1>1 DEF Held
  <2>2. sealed'[c] \in Key => sealed'[c] = sealed[c]
    BY PowAssumption DEF Key
  <2>3. Agreement(c)
    BY DEF IInv
  <2> QED BY <1>1, <1>2, <2>1, <2>2, <2>3 DEF Agreement
<1> QED BY <1>3, <1>4, <1>5, <1>6, <1>7, ClientTurn DEF Others

(* An answer has come, or the connection is lost: no request is on its way.*)
LEMMA ReplyMeans ==
  ASSUME IInv, NEW c \in Client, cpc[c] # "off", Reply(c) # Nothing
  PROVE  /\ up[conn[c]] = Nothing
         /\ cause[c] = {} => Reply(c) = down[conn[c]]
         /\ Reply(c).kind \in Answers => Reply(c) = down[conn[c]]
<1>1. conn[c] \in Connection /\ Line(conn[c]) /\ Conversation(c) /\ Agreement(c)
  BY Where DEF IInv
<1> QED BY <1>1 DEF Reply, Line, Conversation, Agreement, Lost, Answers

(* The process of a client ends, with its file as it was or with its key.  *)
LEMMA ExitIInv ==
  ASSUME IInv, NEW c \in Client, cpc[c] # "off", Exit(c), UNCHANGED cause,
         \/ UNCHANGED sealed
         \/ startMethod[c] = 2 /\ sealed' = [sealed EXCEPT ![c] = EnclaveSealedClose(c)]
  PROVE  IInv'
<1> DEFINE t == conn[c]
<1>1. /\ UNCHANGED <<sessions, trusted, attested, thread, currentSession, server>>
      /\ cpc' = [cpc EXCEPT ![c] = "off"] /\ conn' = [conn EXCEPT ![c] = 0]
      /\ key' = [key EXCEPT ![c] = Nothing]
      /\ startMethod' = [startMethod EXCEPT ![c] = 0]
      /\ open' = open \ {t} /\ down' = [down EXCEPT ![t] = Nothing]
      /\ UNCHANGED <<owner, broken, up>>
  BY DEF Exit, serverVars
<1>2. /\ t \in Opened /\ owner[t] = c /\ t \in Connection
      /\ startMethod[c] = 2 => key[c] \in Key
  BY Where DEF IInv, Conversation
<1>3. PICK f \in Key \cup {Nothing, Torn} :
        /\ sealed' = [sealed EXCEPT ![c] = f]
        /\ f = sealed[c] \/ (f = key[c] /\ startMethod[c] = 2)
  <2>1. sealed[c] \in Key \cup {Nothing, Torn} /\ sealed = [sealed EXCEPT ![c] = sealed[c]]
    BY DEF IInv, Types, ClientTypes
  <2> QED BY <1>2, <2>1 DEF EnclaveSealedClose
<1>4. f = sealed[c] \/ (f = key[c] /\ startMethod[c] = 2)
  BY <1>3
<1>5. /\ cpc'[c] = "off" /\ conn'[c] = 0 /\ startMethod'[c] = 0 /\ sealed'[c] = f
      /\ \A d \in Client : d # c => /\ cpc'[d] = cpc[d] /\ key'[d] = key[d]
                                  /\ startMethod'[d] = startMethod[d]
                                  /\ sealed'[d] = sealed[d] /\ conn'[d] = conn[d]
  BY <1>1, <1>3 DEF IInv, Types, ClientTypes
<1>6. /\ down' \in [Connection -> Message(Answers) \cup {Nothing}]
      /\ down'[t] = Nothing
      /\ \A u \in Connection : u # t => down'[u] = down[u]
  BY <1>1, <1>2 DEF IInv, Types, NetTypes
<1>7. Types'
  <2>1. ClientTypes'
    BY <1>1, <1>3, <1>4 DEF IInv, Types, ClientTypes
  <2>2. NetTypes'
    BY <1>1, <1>6 DEF IInv, Types, NetTypes, Opened
  <2>3. ServerTypes'
    BY <1>1 DEF IInv, Types, ServerTypes
  <2> QED BY <2>1, <2>2, <2>3 DEF Types
<1>8. ASSUME NEW u \in Connection
      PROVE  Line(u)'
  BY <1>1, <1>6 DEF IInv, Line, Opened
<1>9. ASSUME NEW d \in Client
      PROVE  Conversation(d)' /\ Agreement(d)'
  <2>1. CASE d = c
    <3>1. cause[c] = {} /\ f \in Key => Held(c, f)
      BY <1>4 DEF IInv, Agreement, Conversation
    <3>2. cause[c] = {} /\ f \in Key => Held(c, f)'
      BY <1>1, <3>1 DEF Held
    <3> QED BY <1>5, <2>1, <3>2 DEF Conversation, Agreement
  <2>2. CASE d # c
    <3>1. cpc[d] # "off" => /\ conn[d] \in Opened /\ owner[conn[d]] = d
                            /\ conn[d] # t /\ conn[d] \in Connection
      BY <1>2, <2>2, Where
    <3> QED BY <1>1, <1>5, <1>6, <2>2, <3>1, Kept DEF Opened
  <2> QED BY <2>1, <2>2
<1> QED BY <1>7, <1>8, <1>9 DEF IInv
-----------------------------------------------------------------------------
(* A run begins, on a connection nothing was sent on.                      *)
LEMMA StartIInv ==
  ASSUME IInv, NEW c \in Client, Start(c)
  PROVE  IInv'
<1> DEFINE t == Len(owner) + 1
           q == cpc'[c]
<1>1. /\ cpc[c] = "off" /\ t \in Connection
      /\ conn' = [conn EXCEPT ![c] = t]
      /\ owner' = Append(owner, c) /\ open' = open \cup {t}
      /\ thread' = [thread EXCEPT ![t] = "serve"]
      /\ up' = [up EXCEPT ![t] = Request(q, Nothing)]
      /\ UNCHANGED <<proofs, sealed, broken, down, server, sessions, trusted,
                     attested, currentSession, faults, cause>>
  BY DEF Start
<1>2. Len(owner) \in Nat /\ t \notin Opened /\ startMethod[c] = 0
  BY <1>1 DEF IInv, Types, NetTypes, Opened, Conversation
<1>3. /\ owner' \in Seq(Client) /\ Len(owner') = t /\ owner'[t] = c
      /\ \A i \in Opened : owner'[i] = owner[i]
      /\ Opened' = Opened \cup {t} /\ t <= MaxRun
  <2>1. /\ owner' \in Seq(Client) /\ Len(owner') = t /\ owner'[t] = c
        /\ \A i \in 1 .. Len(owner) : owner'[i] = owner[i]
    BY <1>1, <1>2 DEF IInv, Types, NetTypes
  <2> QED BY <1>1, <1>2, <2>1, PowAssumption DEF Opened, Connection
<1>4. /\ q \in Asks /\ q \in {"loginSealed", "logout"}
      /\ q = "loginSealed" => startMethod'[c] = 1 /\ key'[c] = sealed[c] /\ sealed[c] \in Key
      /\ q = "logout" => startMethod'[c] = 0 /\ sealed[c] = Nothing
      /\ ClientTypes'
      /\ \A d \in Client : d # c => /\ cpc'[d] = cpc[d] /\ key'[d] = key[d]
                                  /\ startMethod'[d] = startMethod[d] /\ conn'[d] = conn[d]
      /\ conn'[c] = t
  <2>1. ClientTypes /\ t \in Nat /\ sealed' = sealed
    BY <1>1, <1>2 DEF IInv, Types
  <2>2. CASE LoadSealedData(c)
    <3>1. sealed[c] \in Key
      BY <2>1, <2>2 DEF Start, PowEnclaveSealedInit, EnclaveSealedInit, LoadSealedData,
         ClientTypes
    <3>2. sealed[c] # Torn
      BY <3>1, PowAssumption DEF Key
    <3>3. /\ key' = [key EXCEPT ![c] = sealed[c]]
          /\ startMethod' = [startMethod EXCEPT ![c] = 1]
          /\ cpc' = [cpc EXCEPT ![c] = "loginSealed"]
      BY <2>2, <3>2 DEF Start, EnclaveSealedInit
    <3>4. q = "loginSealed"
      BY <2>1, <3>3 DEF ClientTypes
    <3> QED BY <1>1, <2>1, <3>1, <3>3, <3>4 DEF ClientTypes, Asks
  <2>3. CASE ~ LoadSealedData(c)
    <3>1. key' = key /\ startMethod' = startMethod /\ cpc' = [cpc EXCEPT ![c] = "logout"]
      BY <2>3 DEF Start
    <3>2. q = "logout" /\ sealed[c] = Nothing
      BY <2>1, <2>3, <3>1 DEF ClientTypes, LoadSealedData
    <3> QED BY <1>1, <1>2, <2>1, <3>1, <3>2 DEF ClientTypes, Asks
  <2> QED BY <2>2, <2>3
<1>5. /\ Request(q, Nothing) \in Message(Asks) /\ Request(q, Nothing) # Nothing
      /\ Request(q, Nothing).kind = q
  <2>1. q \in Asks
    BY <1>4
  <2> HIDE DEF q
  <2> QED BY <2>1, MessageIs
<1>6. /\ up'[t] = Request(q, Nothing) /\ up' \in [Connection -> Message(Asks) \cup {Nothing}]
      /\ \A u \in Connection : u # t => up'[u] = up[u] /\ thread'[u] = thread[u]
      /\ thread'[t] = "serve" /\ down'[t] = Nothing /\ t \notin broken
      /\ thread' \in [Connection -> {"none", "serve", "verify", "gone"}]
  BY <1>1, <1>2, <1>5 DEF IInv, Types, NetTypes, ServerTypes, Line
<1>7. Types'
  <2>1. NetTypes'
    BY <1>1, <1>3, <1>6 DEF IInv, Types, NetTypes
  <2>2. ServerTypes'
    BY <1>1, <1>6 DEF IInv, Types, ServerTypes
  <2> QED BY <1>4, <2>1, <2>2 DEF Types
<1>8. ASSUME NEW u \in Connection
      PROVE  Line(u)'
  <2>1. CASE u = t
    BY <1>1, <1>3, <1>4, <1>5, <1>6, <2>1 DEF Line
  <2>2. CASE u # t
    BY <1>1, <1>3, <1>6, <2>2 DEF IInv, Line
  <2> QED BY <2>1, <2>2
<1>9. ASSUME NEW d \in Client
      PROVE  Conversation(d)' /\ Agreement(d)'
  <2>1. CASE d = c
    <3>1. Conversation(c)'
      BY <1>1, <1>3, <1>4, <1>5, <1>6 DEF Conversation
    <3>2. cause[c] = {} /\ sealed[c] \in Key => Held(c, sealed[c])
      BY DEF IInv, Agreement
    <3>3. cause[c] = {} /\ sealed[c] \in Key => Held(c, sealed[c])'
      BY <1>1, <3>2 DEF Held
    <3>4. Agreement(c)'
      BY <1>1, <1>4, <1>5, <1>6, <3>3 DEF Agreement
    <3> QED BY <2>1, <3>1, <3>4
  <2>2. CASE d # c
    <3>1. cpc[d] # "off" => /\ conn[d] \in Opened /\ conn[d] # t
                            /\ conn[d] \in Connection
      BY <1>2, Where
    <3> QED BY <1>1, <1>3, <1>4, <1>6, <2>2, <3>1, Kept
  <2> QED BY <2>1, <2>2
<1> QED BY <1>7, <1>8, <1>9 DEF IInv

(* The next request, whatever the answer was.                              *)
LEMMA GoOnIInv ==
  ASSUME IInv, NEW c \in Client, GoOn(c)
  PROVE  IInv'
<1>1. /\ cpc[c] \in {"loginSealed", "logout", "login"} /\ Reply(c) # Nothing
      /\ cpc' = [cpc EXCEPT ![c] = IF cpc[c] = "loginSealed" THEN "getKey"
                                  ELSE IF cpc[c] = "logout" THEN "login" ELSE "msg01"]
      /\ Send(c, Request(cpc'[c], Nothing))
      /\ conn' = conn /\ key' = key /\ startMethod' = startMethod /\ sealed' = sealed
      /\ serverVars' = serverVars /\ cause' = cause
  <2>1. /\ DOMAIN NextRequest = {"loginSealed", "logout", "login"}
        /\ NextRequest["loginSealed"] = "getKey"
        /\ NextRequest["logout"] = "login" /\ NextRequest["login"] = "msg01"
    BY DEF NextRequest
  <2>2. /\ cpc[c] \in DOMAIN NextRequest /\ Reply(c) # Nothing
        /\ cpc' = [cpc EXCEPT ![c] = NextRequest[cpc[c]]]
        /\ Send(c, Request(cpc'[c], Nothing))
        /\ conn' = conn /\ key' = key /\ startMethod' = startMethod /\ sealed' = sealed
        /\ serverVars' = serverVars /\ cause' = cause
    BY DEF GoOn
  <2> QED BY <2>1, <2>2
<1>2. up[conn[c]] = Nothing /\ cpc[c] # "off"
  BY <1>1, ReplyMeans
<1>3. ClientTypes' /\ Others(c)
      /\ cpc'[c] = (IF cpc[c] = "loginSealed" THEN "getKey"
                   ELSE IF cpc[c] = "logout" THEN "login" ELSE "msg01")
  BY <1>1 DEF IInv, Types, ClientTypes, Others, Asks
<1>4. /\ cpc'[c] \in Asks \ {"logout", "loginSealed"} /\ cpc'[c] # "msg3"
      /\ cpc'[c] \in {"login", "msg01", "msg3"} => startMethod'[c] = 0 /\ sealed[c] = Nothing
      /\ cpc'[c] \in {"getKey", "proof", "exit"} => startMethod'[c] \in {1, 2}
      /\ startMethod'[c] = 1 => key'[c] = sealed[c]
      /\ startMethod'[c] # 0 => key'[c] \in Key
  BY <1>1, <1>3 DEF IInv, Conversation, Asks
<1>5. cause[c] = {} =>
        /\ startMethod'[c] = 2 => Held(c, key'[c])
        /\ startMethod'[c] # 0 => currentSession[conn[c]] = key'[c]
        /\ cpc'[c] \in {"login", "msg01"} => sessions[c] = Nothing
  BY <1>1, <1>2, <1>3 DEF IInv, Agreement
<1> QED BY <1>1, <1>2, <1>3, <1>4, <1>5, SendIInv

LEMMA TakeMsg2IInv ==
  ASSUME IInv, NEW c \in Client, TakeMsg2(c)
  PROVE  IInv'
<1> DEFINE k == Reply(c).key
<1>1. cpc[c] = "msg01" /\ Reply(c) # Nothing
  BY DEF TakeMsg2
<1>2. CASE Reply(c).kind # "msg2"
  BY <1>1, <1>2, ExitIInv DEF TakeMsg2
<1>3. CASE Reply(c).kind = "msg2"
  <2>1. Reply(c) = down[conn[c]] /\ up[conn[c]] = Nothing
    BY <1>1, <1>3, ReplyMeans DEF Answers
  <2>2. k \in Key
    BY <1>1, <1>3, <2>1, Where DEF IInv, Line
  <2>3. /\ key' = [key EXCEPT ![c] = k] /\ cpc' = [cpc EXCEPT ![c] = "msg3"]
        /\ Send(c, Request("msg3", k))
        /\ conn' = conn /\ startMethod' = startMethod /\ sealed' = sealed
        /\ serverVars' = serverVars /\ cause' = cause
    BY <1>3 DEF TakeMsg2
  <2>4. ClientTypes' /\ Others(c) /\ cpc'[c] = "msg3" /\ key'[c] = k
    BY <2>2, <2>3 DEF IInv, Types, ClientTypes, Others, Asks
  <2>5. startMethod'[c] = 0 /\ sealed[c] = Nothing
    BY <1>1, <2>3 DEF IInv, Conversation
  <2>6. cause[c] = {} => sessions[c] = k
    BY <1>1, <1>3, <2>1 DEF IInv, Agreement
  <2>7. cpc'[c] \in Asks \ {"logout", "loginSealed"} /\ Send(c, Request(cpc'[c], k))
    BY <2>3, <2>4 DEF Asks
  <2> QED BY <1>1, <2>1, <2>2, <2>3, <2>4, <2>5, <2>6, <2>7, SendIInv
<1> QED BY <1>2, <1>3

LEMMA TakeMsg4IInv ==
  ASSUME IInv, NEW c \in Client, TakeMsg4(c)
  PROVE  IInv'
<1>1. cpc[c] = "msg3" /\ Reply(c) # Nothing
  BY DEF TakeMsg4
<1>2. CASE Reply(c).kind # "msg4"
  BY <1>1, <1>2, ExitIInv DEF TakeMsg4
<1>3. CASE Reply(c).kind = "msg4"
  <2>1. Reply(c) = down[conn[c]] /\ up[conn[c]] = Nothing
    BY <1>1, <1>3, ReplyMeans DEF Answers
  <2>2. key[c] \in Key
    BY <1>1 DEF IInv, Conversation
  <2>3. /\ startMethod' = [startMethod EXCEPT ![c] = 2]
        /\ cpc' = [cpc EXCEPT ![c] = "getKey"]
        /\ Send(c, Request("getKey", Nothing))
        /\ conn' = conn /\ key' = key /\ sealed' = sealed
        /\ serverVars' = serverVars /\ cause' = cause
    BY <1>3 DEF TakeMsg4
  <2>4. ClientTypes' /\ Others(c) /\ cpc'[c] = "getKey" /\ startMethod'[c] = 2
    BY <2>3 DEF IInv, Types, ClientTypes, Others, Asks
  <2>5. cause[c] = {} => Held(c, key'[c]) /\ currentSession[conn[c]] = key'[c]
    BY <1>1, <1>3, <2>1, <2>3 DEF IInv, Agreement, Held
  <2>6. /\ cpc'[c] \in Asks \ {"logout", "loginSealed"}
        /\ Send(c, Request(cpc'[c], Nothing)) /\ key'[c] \in Key
    BY <2>2, <2>3, <2>4 DEF Asks
  <2> QED BY <1>1, <2>1, <2>3, <2>4, <2>5, <2>6, SendIInv
<1> QED BY <1>2, <1>3

(* The end of an upload, and its batches.                                  *)
LEMMA ProveIInv ==
  ASSUME IInv, NEW c \in Client, Prove(c)
  PROVE  IInv'
<1>1. /\ cpc[c] = "upload"
      /\ conn' = conn /\ key' = key /\ startMethod' = startMethod /\ sealed' = sealed
      /\ serverVars' = serverVars /\ cause' = cause
  BY DEF Prove
<1>2. /\ startMethod[c] \in {1, 2} /\ key[c] \in Key
      /\ startMethod[c] = 1 => key[c] = sealed[c]
  BY <1>1 DEF IInv, Conversation
<1>3. up[conn[c]] = Nothing
  <2>1. up[conn[c]] \in Message(Asks) \cup {Nothing}
    BY <1>1, Where DEF IInv, Types, NetTypes
  <2>2. up[conn[c]] # Nothing => up[conn[c]].kind = "upload"
    BY <1>1 DEF IInv, Conversation
  <2> QED BY <2>1, <2>2 DEF Message, Asks
<1>4. cause[c] = {} =>
        /\ startMethod[c] = 2 => Held(c, key[c])
        /\ currentSession[conn[c]] = key[c]
  BY <1>1, <1>2 DEF IInv, Agreement
<1>5. PICK r \in Key \cup {Nothing} :
        \/ cpc' = [cpc EXCEPT ![c] = "proof"] /\ Send(c, Request("proof", r))
        \/ cpc' = [cpc EXCEPT ![c] = "exit"] /\ Send(c, Request("exit", r))
  BY <1>2 DEF Prove
<1>6. /\ ClientTypes' /\ Others(c) /\ cpc'[c] \in {"proof", "exit"}
      /\ Send(c, Request(cpc'[c], r))
  BY <1>1, <1>5 DEF IInv, Types, ClientTypes, Others, Asks
<1>7. cpc'[c] \in Asks \ {"logout", "loginSealed"}
  BY <1>6 DEF Asks
<1> QED BY <1>1, <1>2, <1>3, <1>4, <1>6, <1>7, SendIInv

(* The answers after which a client asks for nothing at once.              *)
LEMMA TakeKeyIInv ==
  ASSUME IInv, NEW c \in Client, TakeKey(c) \/ TakeVerdict(c) \/ TakePermit(c)
  PROVE  IInv'
<1>1. /\ cpc[c] \in {"getKey", "proof", "exit"} /\ Reply(c) # Nothing
      /\ \/ cpc' = [cpc EXCEPT ![c] = "upload"]
         \/ cpc' = [cpc EXCEPT ![c] = "end"]
      /\ down' = [down EXCEPT ![conn[c]] = Nothing]
      /\ UNCHANGED <<owner, open, broken, up, serverVars, cause>>
      /\ conn' = conn /\ key' = key /\ startMethod' = startMethod /\ sealed' = sealed
  BY DEF TakeKey, TakeVerdict, TakePermit
<1>2. up[conn[c]] = Nothing /\ startMethod[c] # 0
  BY <1>1, ReplyMeans DEF IInv, Conversation
<1>3. ClientTypes' /\ Others(c) /\ cpc'[c] \in {"upload", "end"}
  BY <1>1 DEF IInv, Types, ClientTypes, Others
<1> QED BY <1>1, <1>2, <1>3, RestIInv

LEMMA OpenSealedIInv ==
  ASSUME IInv, NEW c \in Client, OpenSealed(c)
  PROVE  IInv'
<1>1. /\ cpc[c] = "end" /\ startMethod[c] = 2
      /\ cpc' = [cpc EXCEPT ![c] = "sealing"]
      /\ sealed' = [sealed EXCEPT ![c] = Torn]
      /\ UNCHANGED <<owner, open, broken, up, serverVars, cause>>
      /\ conn' = conn /\ key' = key /\ startMethod' = startMethod /\ down' = down
  BY DEF OpenSealed, netVars
<1>2. up[conn[c]] = Nothing
  <2>1. up[conn[c]] \in Message(Asks) \cup {Nothing}
    BY <1>1, Where DEF IInv, Types, NetTypes
  <2>2. up[conn[c]] # Nothing => up[conn[c]].kind = "end"
    BY <1>1 DEF IInv, Conversation
  <2> QED BY <2>1, <2>2 DEF Message, Asks
<1>3. ClientTypes' /\ Others(c) /\ cpc'[c] = "sealing" /\ sealed'[c] = Torn
  BY <1>1 DEF IInv, Types, ClientTypes, Others
<1> QED BY <1>1, <1>2, <1>3, RestIInv

LEMMA EndIInv ==
  ASSUME IInv, NEW c \in Client, End(c) \/ Kill(c)
  PROVE  IInv'
<1>1. CASE End(c)
  <2>1. cpc[c] \in {"end", "sealing"} /\ Exit(c) /\ UNCHANGED cause
    BY <1>1 DEF End
  <2>2. \/ UNCHANGED sealed
        \/ startMethod[c] = 2 /\ sealed' = [sealed EXCEPT ![c] = EnclaveSealedClose(c)]
    BY <1>1 DEF End, IInv, Conversation
  <2> QED BY <2>1, <2>2, ExitIInv
<1>2. CASE Kill(c)
  BY <1>2, ExitIInv DEF Kill
<1> QED BY <1>1, <1>2
-----------------------------------------------------------------------------
(* The messages of the other connections are left alone.                   *)
Apart(t) ==
  /\ UNCHANGED <<owner, open, broken>>
  /\ \A u \in Connection : u # t => up'[u] = up[u] /\ down'[u] = down[u]

LEMMA RespondMeans ==
  ASSUME IInv, NEW t \in Opened, NEW kind \in Answers, NEW k \in Key \cup {Nothing},
         Respond(t, kind, k)
  PROVE  /\ NetTypes' /\ Apart(t) /\ up'[t] = Nothing
         /\ \/ down'[t] = down[t]
            \/ down'[t] # Nothing /\ down'[t].kind = kind /\ down'[t].key = k
<1>1. /\ Request(kind, k) \in Message(Answers) /\ Request(kind, k) # Nothing
      /\ Request(kind, k).kind = kind /\ Request(kind, k).key = k
  <2>1. Answers \subseteq Asks \cup Answers
    OBVIOUS
  <2> QED BY <2>1, MessageIs
<1>2. t \in Connection /\ NetTypes
  BY Where DEF IInv, Types
<1> QED BY <1>1, <1>2 DEF Respond, NetTypes, Apart, Opened

LEMMA SilentMeans ==
  ASSUME IInv, NEW t \in Opened, Silent(t)
  PROVE  NetTypes' /\ Apart(t) /\ up'[t] = Nothing /\ down'[t] = down[t]
<1>1. t \in Connection /\ NetTypes
  BY Where DEF IInv, Types
<1> QED BY <1>1 DEF Silent, NetTypes, Apart, Opened

(* A step of thread t, which only touches its connection and the entry of  *)
(* its client: when the client has gone on to another one, the entry is as *)
(* it was or the client has a cause.                                       *)
LEMMA ServerTurn ==
  ASSUME IInv, NEW t \in Opened, NEW c \in Client, c = owner[t],
         clientVars' = clientVars, NetTypes', ServerTypes', Apart(t),
         thread[t] \in {"serve", "verify"},
         \A u \in Connection : u # t => /\ thread'[u] = thread[u]
                                      /\ currentSession'[u] = currentSession[u],
         \A d \in Client : d # c => /\ sessions'[d] = sessions[d]
                                    /\ cause'[d] = cause[d],
         trusted \subseteq trusted',
         \/ up'[t] = Nothing /\ thread'[t] # "verify"
         \/ up'[t] = up[t] /\ down'[t] = down[t]
            /\ (thread'[t] = "verify" => up[t] # Nothing /\ up[t].kind = "msg3"),
         \/ down'[t] = down[t]
         \/ down'[t] # Nothing /\ (down'[t].kind = "msg2" => down'[t].key \in Key),
         Overtaken(t) => \/ cause'[c] # {}
                         \/ /\ cause'[c] = cause[c]
                            /\ sessions'[c] = sessions[c],
         ~ Overtaken(t) => Agreement(c)'
  PROVE  IInv'
<1>1. /\ UNCHANGED <<cpc, conn, key, startMethod, sealed>>
      /\ UNCHANGED <<owner, open, broken>>
  BY DEF clientVars, Apart
<1>2. t \in Connection /\ t \notin broken
  BY Where DEF IInv, Types, NetTypes, Opened, Line
<1>3. Types'
  BY <1>1 DEF IInv, Types, ClientTypes
<1>4. ASSUME NEW u \in Connection
      PROVE  Line(u)'
  <2>1. CASE u = t
    <3>1. Line(t) /\ Opened' = Opened
      BY <1>1, <1>2 DEF IInv, Opened
    <3> QED BY <1>1, <1>2, <2>1, <3>1 DEF Line
  <2>2. CASE u # t
    BY <1>1, <2>2 DEF IInv, Line, Apart, Opened
  <2> QED BY <2>1, <2>2
<1>5. ASSUME NEW d \in Client
      PROVE  Conversation(d)' /\ Agreement(d)'
  <2>1. CASE d = c /\ ~ Overtaken(t)
    <3>1. Conversation(c) /\ conn[c] = t
      BY <1>2, <2>1 DEF IInv, Overtaken
    <3>2. Conversation(c)'
      BY <1>1, <3>1 DEF Conversation, Opened
    <3> QED BY <2>1, <3>2
  <2>2. CASE d = c /\ Overtaken(t)
    <3>1. cpc[d] # "off" => conn[d] \in Opened /\ conn[d] # t /\ conn[d] \in Connection
      BY <2>2, Where DEF Overtaken
    <3> QED BY <1>1, <2>2, <3>1, Kept DEF Apart, Opened
  <2>3. CASE d # c
    <3>1. cpc[d] # "off" => conn[d] \in Opened /\ conn[d] # t /\ conn[d] \in Connection
      BY <2>3, Where
    <3> QED BY <1>1, <2>3, <3>1, Kept DEF Apart, Opened
  <2> QED BY <2>1, <2>2, <2>3
<1> QED BY <1>3, <1>4, <1>5 DEF IInv

(* The client of a connection that is not overtaken waits for the answer   *)
(* to what the thread has taken.                                           *)
LEMMA Waits ==
  ASSUME IInv, NEW t \in Connection, thread[t] \in {"serve", "verify"}
  PROVE  /\ t \in Opened /\ owner[t] \in Client /\ t \notin broken
         /\ thread[t] = "verify" => up[t] # Nothing /\ up[t].kind = "msg3"
         /\ up[t] # Nothing /\ up[t].kind = "msg3" => up[t].key \in Key
         /\ ~ Overtaken(t) =>
              /\ conn[owner[t]] = t /\ cpc[owner[t]] # "off"
              /\ up[t] # Nothing => cpc[owner[t]] = up[t].kind /\ down[t] = Nothing
              /\ up[t] # Nothing /\ up[t].kind = "msg3" => up[t].key = key[owner[t]]
<1>1. Line(t)
  BY DEF IInv
<1>2. t \in Opened /\ owner[t] \in Client
  BY <1>1 DEF Line, IInv, Types, NetTypes, Opened
<1>3. t # 0
  BY DEF Connection
<1> QED BY <1>1, <1>2, <1>3 DEF IInv, Line, Conversation, Overtaken

(* The answers that change no session: to LOGIN, to a request for the key  *)
(* and to the end of an upload, and the end of a connection.               *)
LEMMA ServePlainIInv ==
  ASSUME IInv, NEW t \in Connection,
         ServeLogin(t) \/ ServeKey(t) \/ ServeExit(t) \/ Leave(t)
  PROVE  IInv'
<1>1. /\ thread[t] = "serve" /\ clientVars' = clientVars /\ thread'[t] # "verify"
      /\ thread' = thread \/ thread' = [thread EXCEPT ![t] = "gone"]
      /\ UNCHANGED <<sessions, trusted, attested, currentSession, cause>>
  BY DEF ServeLogin, ServeKey, ServeExit, Leave, Takes, serverVars, IInv, Types, ServerTypes
<1>2. t \in Opened /\ t \notin broken
  BY <1>1, Waits
<1>3. PICK c \in Client : c = owner[t]
  BY <1>1, Waits
<1>4. /\ NetTypes' /\ Apart(t) /\ up'[t] = Nothing
      /\ \/ down'[t] = down[t]
         \/ down'[t] # Nothing /\ down'[t].kind \in Answers \ {"msg2", "msg4"}
  <2>1. CASE Leave(t)
    <3>1. UNCHANGED <<owner, open, broken, up, down>> /\ up[t] = Nothing
      BY <2>1 DEF Leave, netVars
    <3>2. NetTypes
      BY DEF IInv, Types
    <3>3. NetTypes'
      BY <3>1, <3>2 DEF NetTypes, Opened
    <3> QED BY <3>1, <3>3 DEF Apart
  <2>2. CASE ServeLogin(t)
    <3>1. Respond(t, "success", Nothing)
      BY <2>2 DEF ServeLogin
    <3> QED BY <1>2, <3>1, RespondMeans DEF Answers
  <2>3. CASE ServeKey(t)
    <3>1. Respond(t, "key", Nothing) \/ Respond(t, "close", Nothing)
      BY <2>3 DEF ServeKey
    <3> QED BY <1>2, <3>1, RespondMeans DEF Answers
  <2>4. CASE ServeExit(t)
    <3>1. Respond(t, "permit", Nothing)
      BY <2>4 DEF ServeExit
    <3> QED BY <1>2, <3>1, RespondMeans DEF Answers
  <2> QED BY <2>1, <2>2, <2>3, <2>4
<1>5. ServerTypes'
  BY <1>1 DEF IInv, Types, ServerTypes
<1>6. ASSUME ~ Overtaken(t)
      PROVE  Agreement(c)'
  <2>1. /\ conn[c] = t /\ Agreement(c) /\ Conversation(c)
        /\ up[t] # Nothing => cpc[c] = up[t].kind /\ down[t] = Nothing
    BY <1>1, <1>3, <1>6, Waits DEF IInv
  <2>2. /\ UNCHANGED <<cpc, conn, key, startMethod, sealed, broken>>
        /\ \A k : Held(c, k)' <=> Held(c, k)
    BY <1>1, <1>4 DEF clientVars, Apart, Held
  <2>3. up[t] # Nothing => cpc[c] \notin {"logout", "loginSealed", "msg01", "msg3"}
    <3>1. up[t] # Nothing => up[t].kind \in {"login", "getKey", "exit"}
      BY DEF ServeLogin, ServeKey, ServeExit, Leave, Takes
    <3> QED BY <2>1, <3>1
  <2>4. up[t] = Nothing => up'[t] = up[t] /\ down'[t] = down[t]
    BY <1>4 DEF ServeLogin, ServeKey, ServeExit, Leave, Takes, netVars
  <2> QED BY <1>1, <1>2, <1>4, <2>1, <2>2, <2>3, <2>4 DEF Agreement
<1> QED BY <1>1, <1>2, <1>3, <1>4, <1>5, <1>6, ServerTurn DEF Answers, IInv, Types, ServerTypes

(* The entry of the client goes.                                           *)
LEMMA ServeLogoutIInv ==
  ASSUME IInv, NEW t \in Connection, ServeLogout(t)
  PROVE  IInv'
<1>1. /\ thread[t] = "serve" /\ clientVars' = clientVars
      /\ up[t] # Nothing /\ up[t].kind = "logout"
      /\ UNCHANGED <<trusted, attested, thread, currentSession>>
      /\ Respond(t, "success", Nothing)
  BY DEF ServeLogout, Takes
<1>2. t \in Opened /\ t \notin broken
  BY <1>1, Waits
<1>3. PICK c \in Client : c = owner[t]
  BY <1>1, Waits
<1>4. /\ NetTypes' /\ Apart(t) /\ up'[t] = Nothing
      /\ \/ down'[t] = down[t]
         \/ down'[t] # Nothing /\ down'[t].kind = "success"
  BY <1>1, <1>2, RespondMeans DEF Answers
<1>5. /\ sessions' = [sessions EXCEPT ![c] = Nothing]
      /\ cause' = IF Overtaken(t) THEN [cause EXCEPT ![c] = @ \cup {"overtaken"}] ELSE cause
  BY <1>3 DEF ServeLogout, Blame
<1>6. /\ ServerTypes' /\ sessions'[c] = Nothing
      /\ Overtaken(t) => cause'[c] # {}
      /\ ~ Overtaken(t) => cause'[c] = cause[c]
      /\ \A d \in Client : d # c => sessions'[d] = sessions[d] /\ cause'[d] = cause[d]
  BY <1>1, <1>5 DEF IInv, Types, ServerTypes
<1>7. ASSUME ~ Overtaken(t)
      PROVE  Agreement(c)'
  <2>1. /\ conn[c] = t /\ cpc[c] = "logout" /\ startMethod[c] = 0 /\ sealed[c] = Nothing
    BY <1>1, <1>3, <1>7, Waits DEF IInv, Conversation
  <2> QED BY <1>1, <1>2, <1>4, <1>6, <2>1, PowAssumption DEF Agreement, clientVars, Apart, Key
<1> QED BY <1>1, <1>2, <1>3, <1>4, <1>6, <1>7, ServerTurn

(* The thread takes the session of the client, if the server trusts it.    *)
LEMMA ServeLoginSealedIInv ==
  ASSUME IInv, NEW t \in Connection, ServeLoginSealed(t), sessions[owner[t]] # Null
  PROVE  IInv'
<1>1. PICK c \in Client : c = owner[t]
  BY Waits DEF ServeLoginSealed, Takes
<1> DEFINE s == sessions[c]
<1>2. /\ thread[t] = "serve" /\ clientVars' = clientVars
      /\ up[t] # Nothing /\ up[t].kind = "loginSealed"
      /\ UNCHANGED <<sessions, trusted, attested, thread, cause>>
      /\ currentSession' = IF s \in trusted THEN [currentSession EXCEPT ![t] = s]
                          ELSE currentSession
      /\ Respond(t, "success", Nothing) \/ Respond(t, "close", Nothing)
  BY <1>1 DEF ServeLoginSealed, Takes
<1>3. t \in Opened /\ t \notin broken
  BY <1>2, Waits
<1>4. /\ NetTypes' /\ Apart(t) /\ up'[t] = Nothing
      /\ \/ down'[t] = down[t]
         \/ down'[t] # Nothing /\ down'[t].kind \in {"success", "close"}
  BY <1>2, <1>3, RespondMeans DEF Answers
<1>5. /\ ServerTypes'
      /\ s \in trusted => currentSession'[t] = s
      /\ \A u \in Connection : u # t => currentSession'[u] = currentSession[u]
  BY <1>2 DEF IInv, Types, ServerTypes
<1>6. ASSUME ~ Overtaken(t)
      PROVE  Agreement(c)'
  <2>1. /\ conn[c] = t /\ cpc[c] = "loginSealed" /\ startMethod[c] = 1
        /\ key[c] = sealed[c] /\ key[c] \in Key /\ Agreement(c)
    BY <1>1, <1>2, <1>6, Waits DEF IInv, Conversation
  <2>2. cause[c] = {} => s = key[c] /\ s \in trusted /\ Held(c, sealed[c])
    BY <2>1 DEF Agreement, Held
  <2>3. Held(c, sealed[c])' <=> Held(c, sealed[c])
    BY <1>2 DEF Held, clientVars
  <2> QED BY <1>2, <1>3, <1>4, <1>5, <2>1, <2>2, <2>3 DEF Agreement, clientVars, Apart
<1> QED BY <1>1, <1>2, <1>3, <1>4, <1>5, <1>6, ServerTurn

(* A new session, if the client has no entry.                              *)
LEMMA ServeMsg01IInv ==
  ASSUME IInv, NEW t \in Connection, ServeMsg01(t)
  PROVE  IInv'
<1> DEFINE s == attested + 1
<1>1. /\ thread[t] = "serve" /\ clientVars' = clientVars
      /\ up[t] # Nothing /\ up[t].kind = "msg01"
      /\ UNCHANGED <<trusted, thread, currentSession>> /\ attested' = s
      /\ Respond(t, "msg2", s) \/ Respond(t, "resend", Nothing)
  BY DEF ServeMsg01, Takes
<1>2. t \in Opened /\ t \notin broken /\ s \in Key
  BY <1>1, Waits DEF IInv, Types, ServerTypes, Key
<1>3. PICK c \in Client : c = owner[t]
  BY <1>1, Waits
<1>4. /\ NetTypes' /\ Apart(t) /\ up'[t] = Nothing
      /\ \/ down'[t] = down[t]
         \/ /\ down'[t] # Nothing /\ down'[t].kind \in {"msg2", "resend"}
            /\ down'[t].kind = "msg2" => down'[t].key = s
  BY <1>1, <1>2, RespondMeans DEF Answers
<1>5. /\ sessions' = [sessions EXCEPT ![c] = IF sessions[c] = Nothing THEN s ELSE sessions[c]]
      /\ cause' = IF Overtaken(t) THEN [cause EXCEPT ![c] = @ \cup {"overtaken"}] ELSE cause
  BY <1>3 DEF ServeMsg01, Blame
<1>6. /\ ServerTypes'
      /\ sessions[c] = Nothing => sessions'[c] = s
      /\ Overtaken(t) => cause'[c] # {}
      /\ ~ Overtaken(t) => cause'[c] = cause[c]
      /\ \A d \in Client : d # c => sessions'[d] = sessions[d] /\ cause'[d] = cause[d]
  BY <1>1, <1>2, <1>5 DEF IInv, Types, ServerTypes, Key
<1>7. ASSUME ~ Overtaken(t)
      PROVE  Agreement(c)'
  <2>1. /\ conn[c] = t /\ cpc[c] = "msg01" /\ startMethod[c] = 0 /\ sealed[c] = Nothing
        /\ down[t] = Nothing
    BY <1>1, <1>3, <1>7, Waits DEF IInv, Conversation
  <2>2. cause[c] = {} => sessions[c] = Nothing
    BY <1>1, <2>1 DEF IInv, Agreement
  <2> QED BY <1>1, <1>2, <1>4, <1>6, <2>1, <2>2, PowAssumption
          DEF Agreement, clientVars, Apart, Key
<1> QED BY <1>1, <1>2, <1>3, <1>4, <1>6, <1>7, ServerTurn

(* msg3 of the session found, or of another one.                           *)
LEMMA ServeMsg3IInv ==
  ASSUME IInv, NEW t \in Connection, ServeMsg3(t), sessions[owner[t]] # Null
  PROVE  IInv'
<1>1. /\ thread[t] = "serve" /\ clientVars' = clientVars
      /\ up[t] # Nothing /\ up[t].kind = "msg3"
      /\ UNCHANGED <<sessions, trusted, attested, currentSession, cause>>
      /\ \/ thread' = [thread EXCEPT ![t] = "verify"] /\ UNCHANGED netVars
         \/ thread' = thread /\ Respond(t, "close", Nothing)
  BY DEF ServeMsg3, Takes, serverVars
<1>2. t \in Opened /\ t \notin broken
  BY <1>1, Waits
<1>3. PICK c \in Client : c = owner[t]
  BY <1>1, Waits
<1>4. /\ NetTypes' /\ Apart(t)
      /\ \/ up'[t] = Nothing /\ thread' = thread
         \/ up'[t] = up[t] /\ down'[t] = down[t]
      /\ \/ down'[t] = down[t]
         \/ down'[t] # Nothing /\ down'[t].kind = "close"
  <2>1. CASE thread' = [thread EXCEPT ![t] = "verify"] /\ UNCHANGED netVars
    <3>1. NetTypes
      BY DEF IInv, Types
    <3> QED BY <2>1, <3>1 DEF netVars, NetTypes, Apart, Opened
  <2>2. CASE thread' = thread /\ Respond(t, "close", Nothing)
    BY <1>2, <2>2, RespondMeans DEF Answers
  <2> QED BY <1>1, <2>1, <2>2
<1>5. /\ ServerTypes' /\ thread'[t] \in {"serve", "verify"}
      /\ \A u \in Connection : u # t => thread'[u] = thread[u]
  BY <1>1 DEF IInv, Types, ServerTypes
<1>6. ASSUME ~ Overtaken(t)
      PROVE  Agreement(c)'
  <2>1. /\ conn[c] = t /\ cpc[c] = "msg3" /\ startMethod[c] = 0 /\ sealed[c] = Nothing
        /\ down[t] = Nothing /\ Agreement(c)
    BY <1>1, <1>3, <1>6, Waits DEF IInv, Conversation
  <2> QED BY <1>1, <1>2, <1>4, <2>1, PowAssumption
          DEF Agreement, clientVars, Apart, Key
<1> QED BY <1>1, <1>2, <1>3, <1>4, <1>5, <1>6, ServerTurn

(* The attestation has succeeded, or not.                                  *)
LEMMA Msg3VerifiedIInv ==
  ASSUME IInv, NEW t \in Connection, Msg3Verified(t)
  PROVE  IInv'
<1> DEFINE s == up[t].key
<1>1. /\ thread[t] = "verify" /\ clientVars' = clientVars
      /\ thread' = [thread EXCEPT ![t] = "serve"] /\ attested' = attested
  BY DEF Msg3Verified
<1>2. /\ t \in Opened /\ t \notin broken /\ s \in Key
      /\ up[t] # Nothing /\ up[t].kind = "msg3"
  BY <1>1, Waits
<1>3. PICK c \in Client : c = owner[t]
  BY <1>1, Waits
<1>4. ~ Overtaken(t) =>
        /\ conn[c] = t /\ cpc[c] = "msg3" /\ startMethod[c] = 0 /\ sealed[c] = Nothing
        /\ key[c] = s /\ down[t] = Nothing /\ Agreement(c)
  BY <1>1, <1>2, <1>3, Waits DEF IInv, Conversation
<1>5. /\ thread'[t] = "serve"
      /\ \A u \in Connection : u # t => thread'[u] = thread[u]
      /\ thread' \in [Connection -> {"none", "serve", "verify", "gone"}]
  BY <1>1 DEF IInv, Types, ServerTypes
<1>6. CASE Respond(t, "close", Nothing) /\ UNCHANGED <<sessions, trusted, currentSession, cause>>
  <2>1. /\ NetTypes' /\ Apart(t) /\ up'[t] = Nothing
        /\ \/ down'[t] = down[t]
           \/ down'[t] # Nothing /\ down'[t].kind = "close"
    BY <1>2, <1>6, RespondMeans DEF Answers
  <2>2. ServerTypes'
    BY <1>1, <1>5, <1>6 DEF IInv, Types, ServerTypes
  <2>3. ASSUME ~ Overtaken(t)
        PROVE  Agreement(c)'
    BY <1>1, <1>2, <1>4, <1>6, <2>1, <2>3, PowAssumption DEF Agreement, clientVars, Apart, Key
  <2> QED BY <1>1, <1>2, <1>3, <1>5, <1>6, <2>1, <2>2, <2>3, ServerTurn
<1>7. CASE /\ trusted' = trusted \cup {s}
           /\ sessions' = [sessions EXCEPT ![c] = IF sessions[c] = Nothing THEN Null ELSE sessions[c]]
           /\ currentSession' = [currentSession EXCEPT ![t] = sessions'[c]]
           /\ Respond(t, "msg4", s)
           /\ cause' = IF ~ Overtaken(t) /\ sessions[c] = s
                       THEN [cause EXCEPT ![c] = {}]
                       ELSE [cause EXCEPT ![c] = @ \cup {"overtaken"}]
  <2>1. /\ NetTypes' /\ Apart(t) /\ up'[t] = Nothing
        /\ \/ down'[t] = down[t]
           \/ down'[t] # Nothing /\ down'[t].kind = "msg4"
    BY <1>2, <1>7, RespondMeans DEF Answers
  <2>2. /\ sessions' \in [Client -> Nat \cup {Nothing}]
        /\ sessions[c] = s => sessions'[c] = s
        /\ \A d \in Client : d # c => sessions'[d] = sessions[d]
    BY <1>2, <1>7, PowAssumption DEF IInv, Types, ServerTypes, Null, Key
  <2>3. /\ currentSession' \in [Connection -> Nat \cup {Nothing}]
        /\ currentSession'[t] = sessions'[c]
        /\ \A u \in Connection : u # t => currentSession'[u] = currentSession[u]
    BY <1>2, <1>7, <2>2, Where DEF IInv, Types, ServerTypes
  <2>4. /\ cause' \in [Client -> SUBSET {"restart", "overtaken"}]
        /\ ~ (~ Overtaken(t) /\ sessions[c] = s) => cause'[c] # {}
        /\ \A d \in Client : d # c => cause'[d] = cause[d]
    BY <1>7 DEF IInv, Types, ServerTypes
  <2>5. ServerTypes'
    BY <1>1, <1>2, <1>5, <1>7, <2>2, <2>3, <2>4 DEF IInv, Types, ServerTypes
  <2>6. ASSUME ~ Overtaken(t)
        PROVE  Agreement(c)'
    <3>1. CASE sessions[c] # s
      BY <2>4, <3>1 DEF Agreement
    <3>2. CASE sessions[c] = s
      BY <1>1, <1>2, <1>4, <1>7, <2>1, <2>2, <2>3, <2>6, <3>2, PowAssumption
         DEF Agreement, clientVars, Apart, Key
    <3> QED BY <3>1, <3>2
  <2>7. /\ up'[t] = Nothing /\ thread'[t] # "verify" /\ thread[t] \in {"serve", "verify"}
        /\ trusted \subseteq trusted' /\ (Overtaken(t) => cause'[c] # {})
        /\ down'[t] # down[t] => down'[t] # Nothing /\ down'[t].kind # "msg2"
    BY <1>1, <1>5, <1>7, <2>1, <2>4
  <2> QED BY <1>1, <1>2, <1>3, <1>5, <2>1, <2>2, <2>3, <2>4, <2>5, <2>6, <2>7, ServerTurn, SMTT(30)
<1> QED BY <1>3, <1>6, <1>7 DEF Msg3Verified

(* The answer to a batch, or none.                                         *)
LEMMA ServeProofIInv ==
  ASSUME IInv, NEW t \in Connection, ServeProof(t), ~ Die("dead")
  PROVE  IInv'
<1>1. /\ thread[t] = "serve" /\ clientVars' = clientVars
      /\ up[t] # Nothing /\ up[t].kind = "proof"
      /\ UNCHANGED <<sessions, trusted, attested, thread, currentSession, cause>>
      /\ Silent(t) \/ Respond(t, "accepted", Nothing) \/ Respond(t, "resend", Nothing)
  BY DEF ServeProof, Takes, serverVars
<1>2. t \in Opened /\ t \notin broken
  BY <1>1, Waits
<1>3. PICK c \in Client : c = owner[t]
  BY <1>1, Waits
<1>4. /\ NetTypes' /\ Apart(t) /\ up'[t] = Nothing
      /\ \/ down'[t] = down[t]
         \/ down'[t] # Nothing /\ down'[t].kind \in {"accepted", "resend"}
  BY <1>1, <1>2, SilentMeans, RespondMeans DEF Answers
<1>5. ServerTypes'
  BY <1>1 DEF IInv, Types, ServerTypes
<1>6. ASSUME ~ Overtaken(t)
      PROVE  Agreement(c)'
  <2>1. conn[c] = t /\ cpc[c] = "proof" /\ Agreement(c)
    BY <1>1, <1>3, <1>6, Waits DEF IInv
  <2>2. \A k : Held(c, k)' <=> Held(c, k)
    BY <1>1 DEF Held
  <2> QED BY <1>1, <1>2, <1>4, <2>1, <2>2 DEF Agreement, clientVars, Apart
<1> QED BY <1>1, <1>2, <1>3, <1>4, <1>5, <1>6, ServerTurn

(* The server dies, or is stopped: every client has a cause.               *)
LEMMA DieIInv ==
  ASSUME IInv, NEW how, Die(how)
  PROVE  IInv'
<1>1. /\ UNCHANGED <<cpc, conn, key, startMethod, sealed, owner, open>>
      /\ broken' = open
      /\ \A t \in Connection : /\ up'[t] = Nothing /\ down'[t] = Nothing
                              /\ thread'[t] = IF thread[t] = "none" THEN "none" ELSE "gone"
      /\ \A c \in Client : cause'[c] # {}
  BY DEF Die, clientVars
<1>2. Types'
  BY <1>1 DEF IInv, Types, ClientTypes, NetTypes, ServerTypes, Die, Opened
<1>3. ASSUME NEW t \in Connection
      PROVE  Line(t)'
  BY <1>1 DEF IInv, Line, Opened
<1>4. ASSUME NEW c \in Client
      PROVE  Conversation(c)' /\ Agreement(c)'
  <2>1. cpc[c] # "off" => conn[c] \in Connection
    BY Where
  <2> QED BY <1>1, <2>1 DEF IInv, Conversation, Agreement, Opened
<1> QED BY <1>2, <1>3, <1>4 DEF IInv

(* A step of which a client and its thread notice nothing.                 *)
LEMMA UnnoticedIInv ==
  ASSUME IInv, Restart \/ UNCHANGED vars
  PROVE  IInv'
<1>1. UNCHANGED <<cpc, conn, key, startMethod, sealed, owner, open, broken, up, down,
                  sessions, trusted, attested, thread, currentSession, cause>>
  BY DEF Restart, vars, clientVars, netVars, serverVars
<1>2. Types'
  BY <1>1 DEF IInv, Types, ClientTypes, NetTypes, ServerTypes, Opened
<1>3. ASSUME NEW t \in Connection
      PROVE  Line(t)'
  BY <1>1 DEF IInv, Line, Opened
<1>4. ASSUME NEW c \in Client
      PROVE  Conversation(c)' /\ Agreement(c)'
  BY <1>1, Kept DEF Opened, IInv, Conversation
<1> QED BY <1>2, <1>3, <1>4 DEF IInv
-----------------------------------------------------------------------------
LEMMA NextIInv == IInv /\ [Next]_vars => IInv'
<1> SUFFICES ASSUME IInv, [Next]_vars
             PROVE  IInv'
  OBVIOUS
<1>1. ASSUME NEW c \in Client, Start(c) \/ ClientStep(c) \/ Kill(c)
      PROVE  IInv'
  BY <1>1, StartIInv, GoOnIInv, TakeMsg2IInv, TakeMsg4IInv, TakeKeyIInv, ProveIInv,
     OpenSealedIInv, EndIInv DEF ClientStep
<1>2. ASSUME NEW t \in Connection, ThreadStep(t)
      PROVE  IInv'
  <2>1. CASE Die("dead")
    BY <2>1, DieIInv
  <2>2. CASE ServeLoginSealed(t) /\ ~ Die("dead")
    <3>1. sessions[owner[t]] # Null
      BY <2>2 DEF ServeLoginSealed
    <3> QED BY <2>2, <3>1, ServeLoginSealedIInv
  <2>3. CASE ServeMsg3(t) /\ ~ Die("dead")
    <3>1. sessions[owner[t]] # Null
      BY <2>3 DEF ServeMsg3
    <3> QED BY <2>3, <3>1, ServeMsg3IInv
  <2>4. CASE ServeProof(t) /\ ~ Die("dead")
    BY <2>4, ServeProofIInv
  <2>5. CASE ServeLogin(t) \/ ServeKey(t) \/ ServeExit(t) \/ Leave(t)
    BY <2>5, ServePlainIInv
  <2> QED BY <1>2, <2>1, <2>2, <2>3, <2>4, <2>5, ServeLogoutIInv, ServeMsg01IInv,
             Msg3VerifiedIInv DEF ThreadStep
<1>3. CASE Stop
  BY <1>3, DieIInv DEF Stop
<1>4. CASE Restart \/ UNCHANGED vars
  BY <1>4, UnnoticedIInv
<1> QED BY <1>1, <1>2, <1>3, <1>4 DEF Next

(* The conversation of every run, whatever faults there are: one request or*)
(* one answer on its way at most, the keys of both ends from one           *)
(* attestation, and the sealed key held by the server, unless the client   *)
(* has a cause.                                                            *)
THEOREM Conversations == Spec => []IInv
<1> QED BY InitIInv, NextIInv, PTL DEF Spec

(* The key the client proves its batches with is the one its server thread *)
(* and the client's entry have, and is trusted, for any number of clients, *)
(* runs and faults, unless the server has lost its sessions or an earlier  *)
(* run's message has come in between.                                      *)
THEOREM KeysAgree == Spec => []SessionKeysAgree
<1>1. IInv => SessionKeysAgree
  <2> SUFFICES ASSUME IInv, NEW c \in Client, cpc[c] \in {"upload", "proof"}, cause[c] = {}
               PROVE  /\ currentSession[conn[c]] = key[c]
                      /\ sessions[c] = key[c] /\ key[c] \in trusted
    BY DEF SessionKeysAgree
  <2>1. /\ startMethod[c] \in {1, 2}
        /\ startMethod[c] = 1 => key[c] = sealed[c]
        /\ key[c] \in Key
    BY DEF IInv, Conversation
  <2>2. Agreement(c)
    BY DEF IInv
  <2> QED BY <2>1, <2>2 DEF Agreement, Held
<1> QED BY <1>1, Conversations, PTL

(* What a thread takes from a connection that is not overtaken does not    *)
(* kill the server, as long as its client has no cause.                    *)
LEMMA Survives ==
  ASSUME IInv, NEW t \in Connection, ThreadStep(t), Die("dead"), server = "up",
         \A c \in Client : cause[c] = {}
  PROVE  t \in Opened /\ up[t] # Nothing /\ Overtaken(t)
<1>1. ServeLoginSealed(t) \/ ServeMsg3(t) \/ ServeProof(t)
  <2>1. server' = "dead"
    BY DEF Die
  <2> QED BY <2>1 DEF ThreadStep, ServeLogout, ServeLogin, ServeKey, ServeMsg01,
             Msg3Verified, ServeExit, Leave, serverVars
<1>2. /\ thread[t] = "serve" /\ up[t] # Nothing
      /\ up[t].kind \in {"loginSealed", "msg3", "proof"}
  BY <1>1 DEF ServeLoginSealed, ServeMsg3, ServeProof, Takes
<1>3. t \in Opened /\ t \notin broken /\ owner[t] \in Client
  BY <1>2, Waits
<1>4. ASSUME ~ Overtaken(t)
      PROVE  FALSE
  <2>1. PICK c \in Client : c = owner[t]
    BY <1>3
  <2>2. /\ conn[c] = t /\ cpc[c] = up[t].kind /\ Conversation(c) /\ Agreement(c)
    BY <1>2, <1>4, <2>1, Waits DEF IInv
  <2>3. CASE up[t].kind \in {"loginSealed", "proof"}
    <3>1. /\ key[c] \in Key /\ Held(c, key[c])
      BY <2>2, <2>3 DEF Conversation, Agreement
    <3>2. up[t].kind = "proof" => currentSession[t] = key[c]
      BY <2>2 DEF Conversation, Agreement
    <3>3. key[c] \notin {Nothing, Null} /\ sessions[c] = key[c] /\ key[c] \in trusted
      BY <3>1, PowAssumption DEF Held, Key, Null
    <3>4. ~ ServeMsg3(t)
      BY <2>3 DEF ServeMsg3, Takes
    <3>5. ~ (up[t].kind = "proof" /\ ServeLoginSealed(t))
      BY DEF ServeLoginSealed, Takes
    <3>6. ~ (up[t].kind = "loginSealed" /\ ServeProof(t))
      BY DEF ServeProof, Takes
    <3>7. ServeLoginSealed(t) => Null = sessions[c] \/ server' = server
      BY <2>1 DEF ServeLoginSealed
    <3>8. ServeProof(t) => \/ server' = server
                           \/ currentSession[t] = Nothing
                           \/ sessions[c] \in {Nothing, Null}
      BY <2>1 DEF ServeProof, serverVars
    <3> QED BY <1>1, <2>3, <3>2, <3>3, <3>4, <3>5, <3>6, <3>7, <3>8 DEF Die
  <2>4. CASE up[t].kind = "msg3"
    <3>1. sessions[c] = key[c] /\ key[c] \in Key
      BY <2>2, <2>4 DEF Conversation, Agreement
    <3>2. sessions[c] # Null
      BY <3>1 DEF Key, Null
    <3>3. ServeMsg3(t)
      BY <1>1, <2>4 DEF ServeLoginSealed, ServeProof, Takes
    <3>4. server' = server
      BY <2>1, <3>2, <3>3 DEF ServeMsg3, serverVars
    <3> QED BY <3>4 DEF Die
  <2> QED BY <1>2, <2>3, <2>4
<1> QED BY <1>2, <1>3, <1>4

(* No number of clients, runs and kills makes the server die of a message, *)
(* unless it is the one of a killed run that comes after the first message *)
(* of the next, or one of the two causes has been there.                   *)
THEOREM DiesOfNothingElse == Spec => DiesOnlyOvertaken
<1> DEFINE Dies == server' = "dead" /\ server = "up" =>
                     \/ \E c \in Client : cause[c] # {}
                     \/ \E t \in 1 .. Len(owner) : up[t] # Nothing /\ Overtaken(t)
<1>1. IInv /\ [Next]_vars => [Dies]_vars
  <2> SUFFICES ASSUME IInv, Next, server' = "dead", server = "up",
                      \A c \in Client : cause[c] = {}
               PROVE  \E t \in 1 .. Len(owner) : up[t] # Nothing /\ Overtaken(t)
    OBVIOUS
  <2>1. ASSUME NEW c \in Client, Start(c) \/ ClientStep(c) \/ Kill(c)
        PROVE  FALSE
    <3>1. server' = server
      BY <2>1 DEF Start, ClientStep, Kill, GoOn, TakeMsg2, TakeMsg4, TakeKey, Prove,
         TakeVerdict, TakePermit, OpenSealed, End, Exit, serverVars
    <3> QED BY <3>1
  <2>2. ~ Stop /\ ~ Restart
    BY DEF Stop, Restart, Die
  <2>3. PICK t \in Connection : ThreadStep(t)
    BY <2>1, <2>2 DEF Next
  <2>4. Die("dead")
    BY <2>3 DEF ThreadStep, ServeLogout, ServeLogin, ServeLoginSealed, ServeKey, ServeMsg01,
       ServeMsg3, Msg3Verified, ServeProof, ServeExit, Leave, serverVars
  <2> QED BY <2>3, <2>4, Survives DEF Opened
<1> QED BY <1>1, Conversations, PTL DEF Spec, DiesOnlyOvertaken
-----------------------------------------------------------------------------
(***************************************************************************)
(* The type invariant bounds the sessions by the connections, since a run  *)
(* asks for one attestation at most.                                       *)
(***************************************************************************)

(* A number that stands for a session is that of one that was made.        *)
Made(k) == k \in Nat => k <= attested

KeysMade ==
  /\ \A c \in Client : Made(key[c]) /\ Made(sealed[c]) /\ Made(sessions[c])
  /\ \A k \in trusted : Made(k)
  /\ \A t \in Connection :
       /\ Made(currentSession[t])
       /\ up[t] # Nothing => Made(up[t].key)
       /\ down[t] # Nothing => Made(down[t].key)
  /\ server \in {"up", "down", "dead"}

(* A batch is only proved below the bound.                                 *)
ProofsCounted ==
  /\ proofs \in [Client -> 0 .. MaxProof]
  /\ \A c \in Client : cpc[c] = "proof" => proofs[c] < MaxProof

(* No attestation will be asked for on connection t any more.              *)
Spent(t) ==
  /\ up[t] # Nothing => up[t].kind \notin {"logout", "login", "msg01"}
  /\ conn[owner[t]] = t => cpc[owner[t]] \notin {"logout", "login"}

(* Each session was asked for on a connection of its own.                  *)
OneEach ==
  \E S \in SUBSET Opened : Cardinality(S) = attested /\ \A t \in S : Spent(t)

BInv == IInv /\ KeysMade /\ ProofsCounted /\ OneEach

LEMMA InitBInv == Init => BInv
<1> SUFFICES ASSUME Init
             PROVE  BInv
  OBVIOUS
<1>1. KeysMade
  BY PowAssumption DEF Init, KeysMade, Made
<1>2. OneEach
  BY FS_EmptySet DEF Init, OneEach
<1>3. ProofsCounted
  BY PowAssumption DEF Init, ProofsCounted
<1> QED BY <1>1, <1>2, <1>3, InitIInv DEF BInv

(* A message carries the key it was made with.                             *)
LEMMA RequestIs == ASSUME NEW kind, NEW k PROVE Request(kind, k).kind = kind /\ Request(kind, k).key = k
BY DEF Request

(* A step that makes no session keeps the keys to those that were made, if *)
(* whatever is new to a place is such a key.                               *)
LEMMA KeysKept ==
  ASSUME KeysMade, attested' = attested, server' = server,
         \A c \in Client : Made(key'[c]) /\ Made(sealed'[c]) /\ Made(sessions'[c]),
         \A k \in trusted' : Made(k),
         \A t \in Connection :
           /\ Made(currentSession'[t])
           /\ up'[t] \in {up[t], Nothing} \/ Made(up'[t].key)
           /\ down'[t] \in {down[t], Nothing} \/ Made(down'[t].key)
  PROVE  KeysMade'
BY DEF KeysMade, Made

LEMMA NextProofsCounted ==
  ASSUME ProofsCounted, IInv, [Next]_vars
  PROVE  ProofsCounted'
<1>1. MaxProof \in Nat /\ cpc \in [Client -> Asks \cup {"off", "upload", "end", "sealing"}]
  BY PowAssumption DEF IInv, Types, ClientTypes
<1>2. ASSUME NEW c \in Client, Start(c) \/ ClientStep(c) \/ Kill(c)
      PROVE  ProofsCounted'
  <2> DEFINE Goes(n, at) == /\ proofs' = [proofs EXCEPT ![c] = n]
                            /\ cpc' = [cpc EXCEPT ![c] = at]
                            /\ n \in 0 .. MaxProof /\ (at = "proof" => n < MaxProof)
  <2>1. ASSUME NEW n, NEW at, Goes(n, at)
        PROVE  ProofsCounted'
    BY <1>1, <2>1 DEF ProofsCounted
  <2> HIDE DEF Goes
  <2>2. proofs[c] \in 0 .. MaxProof /\ 0 \in 0 .. MaxProof /\ MaxProof \in 0 .. MaxProof
    BY <1>1 DEF ProofsCounted
  <2>3. proofs' = proofs => proofs' = [proofs EXCEPT ![c] = proofs[c]]
    BY DEF ProofsCounted
  <2>4. CASE Exit(c)
    BY <2>1, <2>2, <2>4 DEF Exit, Goes
  <2>5. CASE Prove(c)
    BY <2>1, <2>2, <2>3, <2>5 DEF Prove, Goes
  <2>6. CASE TakeVerdict(c)
    <3>1. proofs[c] + 1 \in 0 .. MaxProof
      BY <1>1, <2>2, <2>6 DEF TakeVerdict, ProofsCounted
    <3> QED BY <2>1, <2>2, <2>6, <3>1 DEF TakeVerdict, Goes
  <2>7. CASE Start(c) \/ GoOn(c) \/ TakeKey(c) \/ TakePermit(c) \/ OpenSealed(c)
             \/ (TakeMsg2(c) /\ ~ Exit(c)) \/ (TakeMsg4(c) /\ ~ Exit(c))
    <3>1. proofs' = proofs
      BY <2>7 DEF Start, GoOn, TakeKey, TakePermit, OpenSealed, TakeMsg2, TakeMsg4
    <3>2. ASSUME NEW at, cpc' = [cpc EXCEPT ![c] = at], at # "proof"
          PROVE  ProofsCounted'
      BY <2>1, <2>2, <2>3, <3>1, <3>2 DEF Goes
    <3>3. CASE GoOn(c)
      <4>1. NextRequest[cpc[c]] # "proof"
        BY <3>3 DEF GoOn, NextRequest
      <4> QED BY <3>2, <3>3, <4>1 DEF GoOn
    <3>4. CASE ~ GoOn(c)
      BY <2>7, <3>2, <3>4 DEF Start, TakeKey, TakePermit, OpenSealed, TakeMsg2, TakeMsg4
    <3> QED BY <3>3, <3>4
  <2> QED BY <1>2, <2>4, <2>5, <2>6, <2>7 DEF ClientStep, End, Kill
<1>3. ASSUME \A c \in Client : ~ (Start(c) \/ ClientStep(c) \/ Kill(c))
      PROVE  ProofsCounted'
  <2>1. proofs' = proofs /\ cpc' = cpc
    BY <1>3 DEF Next, ThreadStep, ServeLogout, ServeLogin, ServeLoginSealed, ServeKey, ServeMsg01,
       ServeMsg3, Msg3Verified, ServeProof, ServeExit, Leave, Stop, Restart, Die, vars, clientVars
  <2> QED BY <2>1 DEF ProofsCounted
<1> QED BY <1>2, <1>3

LEMMA ClientKeysMade ==
  ASSUME IInv, KeysMade, NEW c \in Client, Start(c) \/ ClientStep(c) \/ Kill(c)
  PROVE  KeysMade'
<1> DEFINE t == conn[c]
<1>1. /\ Types /\ conn[c] \in Nat /\ Opened \subseteq Connection
      /\ cpc[c] # "off" => t \in Connection
  BY Where DEF IInv, Types, ClientTypes
<1>2. Made(Nothing) /\ Made(Torn)
  BY PowAssumption DEF Made
<1>3. Reply(c) # Nothing => Reply(c) = Lost \/ Reply(c) = down[conn[c]]
  BY DEF Reply
<1>4. /\ attested' = attested /\ server' = server /\ sessions' = sessions
      /\ trusted' = trusted /\ currentSession' = currentSession
  BY DEF Start, Kill, ClientStep, GoOn, TakeMsg2, TakeMsg4, TakeKey, Prove, TakeVerdict,
     TakePermit, OpenSealed, End, Exit, serverVars
<1>6. /\ \A d \in Client : d # c => key'[d] = key[d] /\ sealed'[d] = sealed[d]
      /\ Made(key'[c]) /\ Made(sealed'[c])
  <2>1. /\ Made(key[c]) /\ Made(sealed[c])
        /\ key \in [Client -> Key \cup {Nothing}]
        /\ sealed \in [Client -> Key \cup {Nothing, Torn}]
    BY <1>1 DEF KeysMade, Types, ClientTypes
  <2>2. CASE TakeMsg2(c) /\ Reply(c).kind = "msg2"
    <3>1. Made(Reply(c).key)
      BY <1>1, <1>2, <1>3, <2>2 DEF TakeMsg2, KeysMade, Lost
    <3> QED BY <2>1, <2>2, <3>1 DEF TakeMsg2
  <2>3. CASE ~ (TakeMsg2(c) /\ Reply(c).kind = "msg2")
    BY <1>2, <2>1, <2>3 DEF Start, Kill, ClientStep, GoOn, TakeMsg2, TakeMsg4, TakeKey, Prove, TakeVerdict,
     TakePermit, OpenSealed, End, Exit, EnclaveSealedInit, EnclaveSealedClose
  <2> QED BY <2>2, <2>3
<1>7. \A u \in Connection :
           /\ up'[u] \in {up[u], Nothing} \/ Made(up'[u].key)
           /\ down'[u] \in {down[u], Nothing}
  <2>1. /\ up \in [Connection -> Message(Asks) \cup {Nothing}]
        /\ down \in [Connection -> Message(Answers) \cup {Nothing}]
    BY <1>1 DEF Types, NetTypes
  <2>2. /\ down' = down \/ (t \in Connection /\ down' = [down EXCEPT ![t] = Nothing])
    <3>1. Start(c) \/ t \in Connection
      BY <1>1 DEF Kill, ClientStep, GoOn, TakeMsg2, TakeMsg4, TakeKey, Prove, TakeVerdict,
         TakePermit, OpenSealed, End, NextRequest
    <3>2. Exit(c) => down' = [down EXCEPT ![t] = Nothing]
      BY DEF Exit
    <3>3. \A r : Send(c, r) => down' = [down EXCEPT ![t] = Nothing]
      BY DEF Send
    <3>4. \/ down' = down \/ down' = [down EXCEPT ![t] = Nothing]
      BY <3>2, <3>3 DEF Start, Kill, ClientStep, GoOn, TakeMsg2, TakeMsg4, TakeKey, Prove,
         TakeVerdict, TakePermit, OpenSealed, End, netVars
    <3> QED BY <3>1, <3>4 DEF Start
  <2>3. CASE \E kind, k : /\ k \in {Nothing, key[c], key'[c]}
                         /\ \E u \in Connection : up' = [up EXCEPT ![u] = Request(kind, k)]
    BY <1>2, <1>6, <2>1, <2>2, <2>3, RequestIs DEF KeysMade
  <2>4. CASE Start(c)
    BY <2>3, <2>4 DEF Start
  <2>5. CASE GoOn(c) \/ TakeMsg2(c) \/ TakeMsg4(c) \/ Prove(c)
    <3>1. t \in Connection
      BY <1>1, <2>5 DEF GoOn, TakeMsg2, TakeMsg4, Prove, NextRequest
    <3>2. PICK kind, k : /\ k \in {Nothing, key[c], key'[c]}
                         /\ up' = up \/ up' = [up EXCEPT ![t] = IF t \in broken THEN @ ELSE Request(kind, k)]
      BY <1>1, <2>5 DEF GoOn, TakeMsg2, TakeMsg4, Prove, Send, Exit, ClientTypes, Types
    <3> QED BY <1>2, <1>6, <2>1, <2>2, <3>1, <3>2, RequestIs DEF KeysMade
  <2>6. CASE up' = up
    BY <2>1, <2>2, <2>6
  <2> QED BY <2>4, <2>5, <2>6 DEF Start, Kill, ClientStep, TakeKey, TakeVerdict,
     TakePermit, OpenSealed, End, Exit, netVars
<1> QED BY <1>4, <1>6, <1>7, KeysKept DEF KeysMade

LEMMA ServerKeysMade ==
  ASSUME IInv, KeysMade, NEW t \in Connection, ThreadStep(t)
  PROVE  KeysMade'
<1>1. Types /\ Types' /\ attested \in Nat
  BY NextIInv DEF Next, IInv, Types, ServerTypes
<1>2. Made(Nothing) /\ Made(Null)
  BY PowAssumption, <1>1 DEF Made, Null
<1>3. /\ clientVars' = clientVars /\ key' = key /\ sealed' = sealed
  BY DEF ThreadStep, ServeLogout, ServeLogin, ServeLoginSealed, ServeKey,
     ServeMsg01, ServeMsg3, Msg3Verified, ServeProof, ServeExit, Leave, Die, clientVars
<1>4. CASE Die("dead")
  <2>1. /\ up' = [u \in Connection |-> Nothing] /\ down' = [u \in Connection |-> Nothing]
        /\ sessions' = [c \in Client |-> Nothing] /\ trusted' = {} /\ attested' = attested
        /\ currentSession' = [u \in Connection |-> Nothing] /\ server' = "dead"
    BY <1>4 DEF Die
  <2> QED BY <1>1, <1>2, <1>3, <2>1 DEF KeysMade, Made
<1>5. CASE Leave(t)
  BY <1>5, <1>3 DEF Leave, netVars, KeysMade, Made
<1>6. CASE ~ Die("dead") /\ ~ Leave(t)
  <2>1. /\ up[t] # Nothing /\ t \in Opened
        /\ up \in [Connection -> Message(Asks) \cup {Nothing}]
        /\ down \in [Connection -> Message(Answers) \cup {Nothing}]
        /\ sessions \in [Client -> Nat \cup {Nothing}]
        /\ currentSession \in [Connection -> Nat \cup {Nothing}]
        /\ owner[t] \in Client
    <3>1. up[t] # Nothing
      BY <1>6 DEF IInv, Line, ThreadStep, Takes, ServeLogout, ServeLogin, ServeLoginSealed, ServeKey,
         ServeMsg01, ServeMsg3, Msg3Verified, ServeProof, ServeExit
    <3>2. t \in Opened
      BY <3>1 DEF IInv, Line
    <3> QED BY <1>1, <3>1, <3>2 DEF Types, NetTypes, ServerTypes, Opened
  <2>2. server' = server
    BY <1>6 DEF ThreadStep, ServeLogout, ServeLogin, ServeLoginSealed, ServeKey,
         ServeMsg01, ServeMsg3, Msg3Verified, ServeProof, ServeExit, serverVars
  <2>3. \A kind, k : Respond(t, kind, k) /\ Made(k) =>
          \A u \in Connection : /\ up'[u] \in {up[u], Nothing}
                                /\ down'[u] = down[u] \/ Made(down'[u].key)
    BY <2>1, RequestIs DEF Respond
  <2>4. Silent(t) => \A u \in Connection : up'[u] \in {up[u], Nothing} /\ down'[u] = down[u]
    BY <2>1 DEF Silent
  <2>5. CASE ServeMsg01(t)
    <3> DEFINE New(k) == k \in Nat => k <= attested'
    <3>1. /\ attested' = attested + 1 /\ New(attested + 1) /\ New(Nothing)
          /\ \A k : Made(k) => New(k)
      BY <1>1, <2>5, PowAssumption DEF ServeMsg01, Made
    <3>2. \A c \in Client : New(sessions'[c])
      BY <2>1, <2>5, <3>1 DEF ServeMsg01, KeysMade
    <3> HIDE DEF New
    <3>3. \A kind, k : Respond(t, kind, k) /\ New(k) =>
            \A u \in Connection : /\ up'[u] \in {up[u], Nothing}
                                  /\ down'[u] = down[u] \/ New(down'[u].key)
      BY <2>1, RequestIs DEF Respond
    <3>4. \A u \in Connection : /\ up'[u] \in {up[u], Nothing}
                                /\ down'[u] = down[u] \/ New(down'[u].key)
      BY <2>5, <3>1, <3>3 DEF ServeMsg01
    <3>5. trusted' = trusted /\ currentSession' = currentSession
      BY <2>5 DEF ServeMsg01
    <3>6. /\ \A c \in Client : New(key'[c]) /\ New(sealed'[c]) /\ New(sessions'[c])
          /\ \A k \in trusted' : New(k)
          /\ \A u \in Connection :
               /\ New(currentSession'[u])
               /\ up'[u] # Nothing => New(up'[u].key)
               /\ down'[u] # Nothing => New(down'[u].key)
      BY <1>3, <3>1, <3>2, <3>4, <3>5 DEF KeysMade
    <3> QED BY <2>2, <3>6 DEF KeysMade, Made, New
  <2>6. CASE ~ ServeMsg01(t)
    <3>1. attested' = attested
      BY <1>6, <2>6 DEF ThreadStep, ServeLogout, ServeLogin, ServeLoginSealed, ServeKey,
         ServeMsg3, Msg3Verified, ServeProof, ServeExit, serverVars
    <3>2. \A c \in Client : Made(sessions'[c])
      BY <1>2, <1>6, <2>1, <2>6 DEF ThreadStep, ServeLogout, ServeLogin, ServeLoginSealed, ServeKey,
         ServeMsg3, Msg3Verified, ServeProof, ServeExit, serverVars, KeysMade
    <3>3. \A k \in trusted' : Made(k)
      BY <1>6, <2>1, <2>6 DEF ThreadStep, ServeLogout, ServeLogin, ServeLoginSealed, ServeKey,
         ServeMsg3, Msg3Verified, ServeProof, ServeExit, serverVars, KeysMade
    <3>4. \A u \in Connection : Made(currentSession'[u])
      BY <1>6, <2>1, <2>6, <3>2 DEF ThreadStep, ServeLogout, ServeLogin, ServeLoginSealed, ServeKey,
         ServeMsg3, Msg3Verified, ServeProof, ServeExit, serverVars, KeysMade
    <3>5. \A u \in Connection : /\ up'[u] \in {up[u], Nothing}
                                /\ down'[u] = down[u] \/ Made(down'[u].key)
      BY <1>2, <1>6, <2>1, <2>3, <2>4, <2>6 DEF ThreadStep, ServeLogout, ServeLogin, ServeLoginSealed, ServeKey,
         ServeMsg3, Msg3Verified, ServeProof, ServeExit, netVars, KeysMade
    <3> QED BY <1>3, <2>2, <3>1, <3>2, <3>3, <3>4, <3>5, KeysKept DEF KeysMade
  <2> QED BY <2>5, <2>6
<1> QED BY <1>4, <1>5, <1>6

LEMMA NextKeysMade ==
  ASSUME IInv, KeysMade, [Next]_vars
  PROVE  KeysMade'
<1>1. CASE Die("down")
  <2>1. IInv'
    BY NextIInv
  <2>2. /\ up' = [u \in Connection |-> Nothing] /\ down' = [u \in Connection |-> Nothing]
        /\ sessions' = [c \in Client |-> Nothing] /\ trusted' = {} /\ attested' = attested
        /\ currentSession' = [u \in Connection |-> Nothing] /\ server' = "down"
        /\ key' = key /\ sealed' = sealed
    BY <1>1 DEF Die, clientVars
  <2> QED BY <2>2, PowAssumption DEF KeysMade, Made
<1>2. CASE Restart
  <2>1. /\ server' = "up"
        /\ UNCHANGED <<key, sealed, sessions, trusted, attested, currentSession, up, down>>
    BY <1>2 DEF Restart, clientVars, netVars
  <2> QED BY <2>1 DEF KeysMade, Made
<1>3. CASE UNCHANGED vars
  BY <1>3 DEF vars, clientVars, netVars, serverVars, KeysMade, Made
<1> QED BY <1>1, <1>2, <1>3, ClientKeysMade, ServerKeysMade DEF Next, Stop

(* A connection that asks for no attestation any more does not begin to,   *)
(* and the one whose MSG01 is taken has not been counted.                  *)
LEMMA NextOneEach ==
  ASSUME IInv, OneEach, [Next]_vars
  PROVE  OneEach'
<1>1. PICK S \in SUBSET Opened : Cardinality(S) = attested /\ \A t \in S : Spent(t)
  BY DEF OneEach
<1>2. /\ Types /\ Opened \subseteq Connection
      /\ \A t \in Opened : owner[t] \in Client
  BY Where DEF IInv, Types, NetTypes, Opened
<1>3. Opened \subseteq Opened' /\ \A t \in Opened : owner'[t] = owner[t]
  <2>1. owner' = owner \/ \E c \in Client : owner' = Append(owner, c)
    <3>1. ASSUME NEW c \in Client, Start(c) PROVE owner' = Append(owner, c)
      BY <3>1 DEF Start
    <3>2. ASSUME NEW c \in Client, ClientStep(c) \/ Kill(c) PROVE owner' = owner
      BY <3>2 DEF Kill, ClientStep, GoOn, TakeMsg2, TakeMsg4, TakeKey, Prove, TakeVerdict,
         TakePermit, OpenSealed, End, Exit, Send, netVars
    <3>3. ASSUME NEW t \in Connection, ThreadStep(t) PROVE owner' = owner
      <4>1. ASSUME Die("dead") PROVE owner' = owner
        BY <4>1 DEF Die
      <4>2. ASSUME NEW kind, NEW k, Respond(t, kind, k) PROVE owner' = owner
        BY <4>2 DEF Respond
      <4> QED BY <3>3, <4>1, <4>2 DEF ThreadStep, ServeLogout, ServeLogin, ServeLoginSealed,
            ServeKey, ServeMsg01, ServeMsg3, Msg3Verified, ServeProof, ServeExit, Leave, Silent,
            netVars
    <3>4. ASSUME Stop \/ Restart \/ UNCHANGED vars PROVE owner' = owner
      BY <3>4 DEF Stop, Restart, Die, netVars, vars
    <3> QED BY <3>1, <3>2, <3>3, <3>4 DEF Next
  <2>2. owner \in Seq(Client)
    BY <1>2 DEF Types, NetTypes
  <2>3. CASE owner' = owner
    BY <2>3 DEF Opened
  <2>4. CASE \E c \in Client : owner' = Append(owner, c)
    <3>1. /\ 1 .. Len(owner) \subseteq 1 .. Len(owner')
          /\ \A i \in 1 .. Len(owner) : owner'[i] = owner[i]
      BY <2>2, <2>4
    <3> QED BY <3>1 DEF Opened
  <2> QED BY <2>1, <2>3, <2>4, Zenon
<1>4. CASE \E c \in Client : Start(c) \/ ClientStep(c) \/ Kill(c)
  <2> PICK c \in Client : Start(c) \/ ClientStep(c) \/ Kill(c)
    BY <1>4
  <2> DEFINE t == conn[c]
  <2>1. attested' = attested
    BY DEF Start, Kill, ClientStep, GoOn, TakeMsg2, TakeMsg4, TakeKey, Prove, TakeVerdict,
       TakePermit, OpenSealed, End, Exit, serverVars
  <2>2. /\ cpc \in [Client -> Asks \cup {"off", "upload", "end", "sealing"}]
        /\ conn \in [Client -> Nat]
        /\ up \in [Connection -> Message(Asks) \cup {Nothing}]
    BY <1>2 DEF Types, ClientTypes, NetTypes
  <2>3. ASSUME Start(c)
        PROVE  \A u \in Opened : Spent(u) => Spent(u)'
    <3>1. /\ Len(owner) + 1 \notin Opened /\ Len(owner) + 1 \in Connection
      BY <1>2, <2>3 DEF Start, Types, NetTypes, Opened
    <3>2. /\ conn' = [conn EXCEPT ![c] = Len(owner) + 1]
          /\ \E at : cpc' = [cpc EXCEPT ![c] = at]
          /\ \E r : up' = [up EXCEPT ![Len(owner) + 1] = r]
      BY <2>3 DEF Start
    <3>3. ASSUME NEW u \in Opened, Spent(u)
          PROVE  Spent(u)'
      BY <1>2, <1>3, <2>2, <3>1, <3>2, <3>3 DEF Spent
    <3> QED BY <3>3
  <2>4. ASSUME Exit(c)
        PROVE  \A u \in Opened : Spent(u) => Spent(u)'
    <3>1. /\ conn' = [conn EXCEPT ![c] = 0] /\ up' = up
          /\ cpc' = [cpc EXCEPT ![c] = "off"]
      BY <2>4 DEF Exit
    <3>2. ASSUME NEW u \in Opened, Spent(u)
          PROVE  Spent(u)'
      BY <1>2, <1>3, <2>2, <3>1, <3>2 DEF Spent
    <3> QED BY <3>2
  <2>5. ASSUME ~ Start(c), ~ Exit(c)
        PROVE  \A u \in Opened : Spent(u) => Spent(u)'
    <3>1. /\ cpc[c] # "off" /\ conn' = conn /\ t \in Opened /\ owner[t] = c
      <4>1. cpc[c] # "off" /\ conn' = conn
        BY <2>5 DEF Kill, ClientStep, GoOn, TakeMsg2, TakeMsg4, TakeKey, Prove, TakeVerdict,
           TakePermit, OpenSealed, End, NextRequest
      <4> QED BY <4>1, Where
    <3>2. PICK at : cpc' = [cpc EXCEPT ![c] = at] /\
                  \/ at = "login" /\ cpc[c] = "logout"
                  \/ at = "msg01" /\ cpc[c] = "login"
                  \/ at \notin {"logout", "login", "msg01"}
      <4>1. CASE GoOn(c)
        <5>1. cpc' = [cpc EXCEPT ![c] = NextRequest[cpc[c]]]
          BY <4>1 DEF GoOn
        <5>2. /\ cpc[c] \in {"loginSealed", "logout", "login"}
              /\ cpc[c] = "loginSealed" => NextRequest[cpc[c]] = "getKey"
              /\ cpc[c] = "logout" => NextRequest[cpc[c]] = "login"
              /\ cpc[c] = "login" => NextRequest[cpc[c]] = "msg01"
          BY <4>1 DEF GoOn, NextRequest
        <5> QED BY <5>1, <5>2
      <4>2. CASE ~ GoOn(c)
        BY <2>5, <4>2 DEF Kill, ClientStep, TakeMsg2, TakeMsg4, TakeKey, Prove, TakeVerdict,
           TakePermit, OpenSealed, End
      <4> QED BY <4>1, <4>2
    <3>3. up' = up \/ \E k : up' = [up EXCEPT ![t] = IF t \in broken THEN @ ELSE Request(at, k)]
      <4>1. at = cpc'[c]
        BY <2>2, <3>2
      <4>2. CASE GoOn(c)
        <5>1. Send(c, Request(at, Nothing))
          BY <4>1, <4>2 DEF GoOn
        <5> QED BY <5>1 DEF Send
      <4>3. CASE TakeMsg2(c) \/ TakeMsg4(c) \/ Prove(c)
        BY <2>2, <2>5, <4>1, <4>3 DEF TakeMsg2, TakeMsg4, Prove, Send
      <4>4. CASE ~ (GoOn(c) \/ TakeMsg2(c) \/ TakeMsg4(c) \/ Prove(c))
        BY <2>5, <4>4 DEF Kill, ClientStep, TakeKey, TakeVerdict, TakePermit, OpenSealed, End,
           netVars
      <4> QED BY <4>2, <4>3, <4>4
    <3>4. ASSUME NEW u \in Opened, Spent(u)
          PROVE  Spent(u)'
      <4>1. CASE u = t
        BY <1>2, <1>3, <2>2, <3>1, <3>2, <3>3, <3>4, <4>1, RequestIs DEF Spent
      <4>2. CASE u # t
        <5>1. up'[u] = up[u] /\ (conn[owner[u]] = u => owner[u] # c)
          BY <1>2, <2>2, <3>1, <3>3, <4>2
        <5> QED BY <1>2, <1>3, <2>2, <3>1, <3>2, <3>4, <5>1 DEF Spent
      <4> QED BY <4>1, <4>2
    <3> QED BY <3>4
  <2>6. \A u \in Opened : Spent(u) => Spent(u)'
    BY <2>3, <2>4, <2>5
  <2> QED BY <1>1, <1>3, <2>1, <2>6 DEF OneEach
<1>5. CASE ~ \E c \in Client : Start(c) \/ ClientStep(c) \/ Kill(c)
  <2>1. cpc' = cpc /\ conn' = conn /\ owner' = owner
    BY <1>5 DEF Next, ThreadStep, ServeLogout, ServeLogin, ServeLoginSealed, ServeKey, ServeMsg01,
       ServeMsg3, Msg3Verified, ServeProof, ServeExit, Leave, Stop, Restart, Die, vars, clientVars,
       netVars, Respond, Silent
  <2>2. \A u \in Connection : up'[u] \in {up[u], Nothing}
    BY <1>2, <1>5 DEF Types, NetTypes, Next, ThreadStep, ServeLogout, ServeLogin, ServeLoginSealed,
       ServeKey, ServeMsg01, ServeMsg3, Msg3Verified, ServeProof, ServeExit, Leave, Stop, Restart,
       Die, vars, netVars, Respond, Silent
  <2>3. \A u \in Opened : Spent(u) => Spent(u)'
    BY <1>2, <2>1, <2>2 DEF Spent
  <2>4. CASE attested' = attested
    BY <1>1, <1>3, <2>3, <2>4 DEF OneEach
  <2>5. CASE attested' # attested
    <3>1. PICK t \in Connection : ServeMsg01(t)
      BY <1>5, <2>5 DEF Next, ThreadStep, ServeLogout, ServeLogin, ServeLoginSealed, ServeKey,
         ServeMsg3, Msg3Verified, ServeProof, ServeExit, Leave, Stop, Restart, Die, vars, serverVars
    <3>2. /\ attested' = attested + 1 /\ up[t] # Nothing /\ up[t].kind = "msg01"
          /\ up'[t] = Nothing
      BY <1>2, <3>1 DEF ServeMsg01, Takes, Respond, Types, NetTypes
    <3>3. t \in Opened
      BY <3>2 DEF IInv, Line
    <3>4. Spent(t)' /\ ~ Spent(t)
      <4>1. cpc[owner[t]] = "off" => conn[owner[t]] # t
        BY <1>2, <3>3 DEF IInv, Conversation, Opened
      <4>2. conn[owner[t]] = t => cpc[owner[t]] = "msg01"
        BY <1>2, <3>2, <3>3, <4>1 DEF IInv, Conversation
      <4> QED BY <2>1, <3>2, <4>2 DEF Spent
    <3>5. IsFiniteSet(S) /\ t \notin S
      <4>1. IsFiniteSet(Opened)
        BY <1>2, FS_Interval DEF Opened, Types, NetTypes
      <4> QED BY <1>1, <3>4, <4>1, FS_Subset
    <3>6. Cardinality(S \cup {t}) = attested'
      BY <1>1, <3>2, <3>5, FS_AddElement
    <3> QED BY <1>1, <1>3, <2>3, <3>3, <3>4, <3>6 DEF OneEach
  <2> QED BY <2>4, <2>5
<1> QED BY <1>4, <1>5

LEMMA NextBInv == BInv /\ [Next]_vars => BInv'
BY NextIInv, NextKeysMade, NextProofsCounted, NextOneEach DEF BInv

(* Every variable keeps its type: there are as many sessions as connections*)
(* at most, and every key, kept, sealed or sent, is that of one of them.   *)
THEOREM TypeCorrect == Spec => []TypeOK
<1>1. BInv => TypeOK
  <2> SUFFICES ASSUME BInv
               PROVE  TypeOK
    OBVIOUS
  <2>1. Types /\ Opened \subseteq Connection /\ attested \in Nat
    BY Where DEF BInv, IInv, Types, ServerTypes
  <2>2. attested \in 0 .. MaxRun
    <3>1. PICK S \in SUBSET Opened : Cardinality(S) = attested
      BY DEF BInv, OneEach
    <3>2. Len(owner) \in Nat /\ MaxRun \in Nat /\ Len(owner) <= MaxRun
      BY <2>1, PowAssumption DEF Types, NetTypes
    <3>3. IsFiniteSet(Opened) /\ Cardinality(Opened) = Len(owner)
      <4> DEFINE n == Len(owner)
      <4>1. n \in Nat
        BY <3>2
      <4> HIDE DEF n
      <4>2. n - 1 + 1 = n /\ (1 > n => n = 0) /\ n \in Int /\ 1 \in Int
        BY <4>1
      <4>3. IsFiniteSet(1 .. n) /\ Cardinality(1 .. n) = n
        BY <4>2, FS_Interval
      <4> QED BY <4>3 DEF n, Opened
    <3>4. attested <= Len(owner)
      BY <3>1, <3>3, FS_Subset
    <3> QED BY <2>1, <3>2, <3>4
  <2>3. \A k : Made(k) /\ k \in Key => k \in Session
    BY <2>1, <2>2, PowAssumption DEF Made, Key, Session
  <2>4. \A k : Made(k) /\ k \in Nat => k \in Session \cup {Null}
    BY <2>1, <2>2, PowAssumption DEF Made, Key, Session, Null
  <2>5. /\ key \in [Client -> Session \cup {Nothing}]
        /\ sealed \in [Client -> Session \cup {Nothing, Torn}]
        /\ sessions \in [Client -> Session \cup {Nothing, Null}]
        /\ currentSession \in [Connection -> Session \cup {Nothing, Null}]
    BY <2>1, <2>3, <2>4 DEF BInv, KeysMade, Types, ClientTypes, ServerTypes
  <2>6. trusted \subseteq 1 .. attested
    BY <2>1 DEF BInv, KeysMade, Made, Types, ServerTypes, Key
  <2>7. conn \in [Client -> {0} \cup Connection] /\ \A c \in Client : conn[c] = 0 <=> cpc[c] = "off"
    <3>1. \A c \in Client : IF cpc[c] = "off" THEN conn[c] = 0 ELSE conn[c] \in Opened
      BY DEF BInv, IInv, Conversation
    <3> QED BY <2>1, <3>1 DEF Opened, Types, ClientTypes
  <2> QED BY <2>1, <2>2, <2>5, <2>6, <2>7
          DEF TypeOK, BInv, KeysMade, ProofsCounted, Types, ClientTypes, NetTypes, ServerTypes, Opened
<1> QED BY <1>1, InitBInv, NextBInv, PTL DEF Spec
=============================================================================
