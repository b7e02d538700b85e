------------------------------ MODULE KeyProofs ------------------------------
(***************************************************************************)
(* What holds of KeyService for any number of clients, connections and     *)
(* faults, any batch size and any capacity of the offline masks: the two   *)
(* ends of a session stay in step, and a client accepts wrong keys for one *)
(* of the four causes only.                                                *)
(*                                                                         *)
(* Carried and Conversation say what may be on its way on a connection at  *)
(* each point of it, whatever has happened. SameNonce, SameCounter and     *)
(* SameStreams say how far the client and its entry in clientList_ agree   *)
(* at those points, each as long as no cause that breaks it is recorded. A *)
(* step is one of a client, of a thread of the key server, or of one of    *)
(* its other threads; every client that takes no part in it is a Bystander *)
(* and keeps its agreement.                                                *)
(*                                                                         *)
(* The last part is about KeyRenewal, which makes the session keys that    *)
(* KeyService numbers.                                                     *)
(***************************************************************************)
EXTENDS KeyService, KeyRenewal, FiniteSetTheorems, SequenceTheorems, TLAPS

-----------------------------------------------------------------------------
(***************************************************************************)
(* The inductive invariant.                                                *)
(***************************************************************************)

(* A session key is one renewal per fault, or that of an attestation under *)
(* way.                                                                    *)
KeysCounted ==
  /\ faults \in 0 .. MaxFault
  /\ sessionKey + (IF raThread = "idle" THEN 0 ELSE 1) <= faults

(* A client that runs holds the last connection it has opened, and nobody  *)
(* holds one it does not run on.                                           *)
Linked ==
  /\ \A c \in Client : conn[c] = 0 <=> cpc[c] = "off"
  /\ \A c \in Client : conn[c] # 0 => conn[c] \in open /\ owner[conn[c]] = c
  /\ \A t \in open : conn[owner[t]] = t

(* What may be on its way on a connection, by how far its thread is.       *)
Carried(t) ==
  /\ t > Len(owner) => thread[t] = "none" /\ up[t] = Nothing /\ down[t] = Nothing
  /\ thread[t] \in {"none", "login"} => up[t] \in LoginRequest \cup {Nothing}
  /\ thread[t] = "serve" => up[t] \in KeyRequest \cup {Nothing}
  /\ thread[t] = "keygen" => up[t] = Nothing
  /\ thread[t] # "keygen" => snapshot[t] = Nothing
  /\ t \notin open => down[t] = Nothing

Th(c) == thread[conn[c]]
Up(c) == up[conn[c]]
Down(c) == down[conn[c]]
Held(c) == snapshot[conn[c]]

(* One request or one answer on its way at most, and the one the client    *)
(* is at.                                                                  *)
Conversation(c) ==
  /\ cpc[c] \notin {"off", "init"} => nonce[c] \in Nonce
  /\ cpc[c] # "asked" => asked[c] = 0
  /\ cpc[c] = "init" =>
       Th(c) \in {"none", "login"} /\ Up(c) = Nothing /\ Down(c) = Nothing
  /\ cpc[c] = "login" =>
       \/ /\ Up(c) = LoginMessage(c, nonce[c], counter[c], drawn[c])
          /\ Down(c) = Nothing /\ Th(c) \in {"none", "login", "leaked"}
       \/ /\ Up(c) = Nothing /\ Down(c) \in LoginReply
          /\ Th(c) = IF Down(c).kind \in {"SUCCESS", "CLIENT_COUNTER_REST"}
                     THEN "serve" ELSE "login"
  /\ cpc[c] \in {"ready", "stuck"} =>
       Th(c) = "serve" /\ Up(c) = Nothing /\ Down(c) = Nothing
  /\ cpc[c] = "asked" =>
       /\ asked[c] \in Batch
       /\ \/ /\ Th(c) = "serve" /\ Down(c) = Nothing
             /\ Up(c) = [kind |-> "hashes", key |-> clientKey[c], n |-> asked[c],
                         under |-> ClientStream(c, 0)]
          \/ /\ Th(c) = "keygen" /\ Up(c) = Nothing /\ Down(c) = Nothing
             /\ Held(c) # Nothing => Held(c).n = asked[c] /\ Held(c).under = ClientStream(c, 0)
          \/ /\ Th(c) = "serve" /\ Up(c) = Nothing
             /\ Down(c) \in KeyReply \cup {NoKeys}

(* The enclave has begun the session of the client's run.                  *)
InSession(c) == conn[c] # 0 /\ Th(c) \in {"serve", "keygen"}

(* Both ends keep the same nonce, in a session and between two.            *)
SameNonce(c) ==
  /\ cpc[c] = "login" /\ ~ drawn[c] => store[c] # Nothing /\ nonce[c] = store[c].nonce
  /\ c \in Known /\ "lostNonce" \notin blame[c] =>
       IF InSession(c) THEN clientList[c].nonce = nonce[c]
       ELSE store[c] # Nothing => clientList[c].nonce = store[c].nonce

(* Both ends of a session are on the same counter: the enclave's has moved *)
(* when the client's is about to, ...                                      *)
SameCounter(c) ==
  c \in Known /\ InSession(c) /\ blame[c] \cap {"lostNonce", "overtaken"} = {} =>
    /\ cpc[c] = "login" =>
         Total(c) = IF Down(c).kind = "SUCCESS" THEN counter[c] ELSE 0
    /\ cpc[c] = "ready" => Total(c) = counter[c]
    /\ cpc[c] = "asked" /\ Down(c) = Nothing => Total(c) = counter[c]
    /\ cpc[c] = "asked" /\ Down(c) # Nothing /\ Down(c).key = clientKey[c] =>
         Total(c) = counter[c] + 4 * asked[c]

(* ... and what is masked in between is masked with the streams the client *)
(* expects. Until the keys are masked the local variables lead there: from *)
(* the stream left by the request, or else from the offline masks, which   *)
(* are still to be used.                                                   *)
Ahead(s, x) == CTRBase(s.base.key, s.base.nonce, s.base.at + s.at + x)

SameStreams(c) ==
  blame[c] = {} /\ cpc[c] = "asked" =>
    /\ Held(c) # Nothing =>
         /\ Held(c).unmask = ClientStream(c, 0)
         /\ Held(c).masked => Held(c).mask = ClientStream(c, 2 * asked[c])
         /\ ~ Held(c).masked =>
              /\ Ahead(Held(c), 2 * asked[c]) = ClientStream(c, 2 * asked[c])
              /\ \/ Held(c).mask = ClientStream(c, 2 * asked[c])
                 \/ clientList[c].offline = TRUE /\ Held(c).at + 4 * Held(c).n < MaskCap
    /\ Verified(c) => Right(c)

Agreement(c) == Conversation(c) /\ SameNonce(c) /\ SameCounter(c) /\ SameStreams(c)

IInv ==
  /\ TypeOK
  /\ KeysCounted
  /\ Linked
  /\ \A t \in Session : Carried(t)
  /\ \A c \in Client : Agreement(c)

-----------------------------------------------------------------------------
(***************************************************************************)
(* Lemmas.                                                                 *)
(***************************************************************************)
LEMMA Constants ==
  /\ Session \subseteq Nat /\ 0 \notin Session /\ IsFiniteSet(Session)
  /\ Key \subseteq Nat /\ 0 \in Key
  /\ Batch \subseteq Nat /\ 0 \notin Batch
  /\ MaxSession \in Nat /\ MaxFault \in Nat /\ MaskCap \in Nat
<1>1. 1 \in Int /\ MaxSession \in Int BY KeyServiceAssumption
<1>2. IsFiniteSet(1 .. MaxSession) BY <1>1, FS_Interval
<1> QED BY <1>2, KeyServiceAssumption DEF Session, Key

(* An entry of clientList_ and its counter.                                *)
LEMMA EntryType ==
  ASSUME TypeOK, NEW c \in Client, c \in Known
  PROVE  /\ clientList[c] \in Info
         /\ clientList[c].nonce \in Nonce
         /\ clientList[c].keyGenerateCounter \in Nat
         /\ clientList[c].currentKeyGenerateCounter \in Nat
         /\ Total(c) \in Nat
<1>1. clientList[c] \in Info BY DEF TypeOK, Known
<1> QED BY <1>1 DEF Info, Total

(* What a step leaves of the agreement of a client that does not take part *)
(* in it.                                                                  *)
Bystander(d) ==
  /\ cpc'[d] = cpc[d] /\ conn'[d] = conn[d] /\ nonce'[d] = nonce[d]
  /\ counter'[d] = counter[d] /\ clientKey'[d] = clientKey[d]
  /\ asked'[d] = asked[d] /\ store'[d] = store[d] /\ drawn'[d] = drawn[d]
  /\ conn[d] # 0 => /\ thread'[conn[d]] = thread[conn[d]]
                    /\ up'[conn[d]] = up[conn[d]]
                    /\ down'[conn[d]] = down[conn[d]]
                    /\ snapshot'[conn[d]] = snapshot[conn[d]]
  /\ blame[d] \subseteq blame'[d]
  /\ clientList'[d] # Nothing /\ "lostNonce" \notin blame'[d] =>
       clientList[d] # Nothing /\ clientList'[d].nonce = clientList[d].nonce
  /\ /\ clientList'[d] # Nothing
     /\ blame'[d] \cap {"lostNonce", "overtaken"} = {}
     /\ InSession(d)
     => Total(d)' = Total(d)
  /\ /\ conn[d] # 0 /\ Held(d) # Nothing
     /\ blame'[d] \cap {"lostNonce", "overtaken"} = {}
     => (clientList[d].offline = TRUE => clientList'[d].offline = TRUE)

LEMMA BystanderAgrees ==
  ASSUME Linked, NEW d \in Client, Agreement(d), Bystander(d)
  PROVE  Agreement(d)'
<1>1. conn[d] = 0 <=> cpc[d] = "off" BY DEF Linked
<1>2. conn'[d] = conn[d] /\ cpc'[d] = cpc[d] /\ (InSession(d))' = InSession(d)
  BY DEF Bystander, InSession, Th
<1>3. d \in Known' => clientList'[d] # Nothing BY DEF Known
<1>4. clientList[d] # Nothing => d \in Known BY DEF Known
<1>5. Conversation(d)'
  BY <1>1 DEF Agreement, Conversation, Bystander, Th, Up, Down, Held, LoginMessage,
     ClientStream, CTRBase
<1>6. SameNonce(d)'
  BY <1>1, <1>2, <1>3, <1>4 DEF Agreement, SameNonce, Bystander
<1>7. SameCounter(d)'
  <2> SUFFICES ASSUME d \in Known', InSession(d),
                      blame'[d] \cap {"lostNonce", "overtaken"} = {}
               PROVE  SameCounter(d)'
    BY <1>2 DEF SameCounter
  <2>1. d \in Known /\ blame[d] \cap {"lostNonce", "overtaken"} = {}
    BY <1>3, <1>4 DEF Bystander
  <2>2. Total(d)' = Total(d) BY <1>3 DEF Bystander
  <2> QED BY <2>1, <2>2, <1>1 DEF Agreement, SameCounter, Bystander, Down
<1>8. SameStreams(d)'
  <2> SUFFICES ASSUME blame'[d] = {}, cpc[d] = "asked" PROVE SameStreams(d)'
    BY <1>2 DEF SameStreams
  <2>1. blame[d] = {} BY DEF Bystander
  <2>2. /\ conn[d] # 0 /\ Held(d)' = Held(d) /\ asked'[d] = asked[d]
        /\ Verified(d)' = Verified(d) /\ (Right(d))' = Right(d)
    BY <1>1 DEF Bystander, Held, Verified, Right, ClientStream, CTRBase
  <2>3. \A x : ClientStream(d, x)' = ClientStream(d, x) BY DEF Bystander, ClientStream, CTRBase
  <2>4. \A s, x : Ahead(s, x)' = Ahead(s, x) BY DEF Ahead, CTRBase
  <2>5. Held(d) # Nothing => (clientList[d].offline = TRUE => clientList'[d].offline = TRUE)
    BY <2>2 DEF Bystander
  <2>6. SameStreams(d) BY DEF Agreement
  <2> HIDE DEF Ahead, ClientStream
  <2> QED BY <1>2, <2>1, <2>2, <2>3, <2>4, <2>5, <2>6 DEF SameStreams
<1> QED BY <1>5, <1>6, <1>7, <1>8 DEF Agreement

(* Connections are not shared.                                             *)
LEMMA OwnConnection ==
  ASSUME Linked, NEW c \in Client, NEW d \in Client, c # d, conn[c] # 0
  PROVE  conn[d] # conn[c]
BY DEF Linked

LEMMA InitIInv == Init => IInv
<1> SUFFICES ASSUME Init PROVE IInv OBVIOUS
<1>1. Counted = {} BY DEF Counted, Init
<1>2. Cardinality(Counted) = 0 BY <1>1, FS_EmptySet
<1>3. TypeOK
  <2>1. owner \in Seq(Client) /\ Len(owner) = 0 /\ open \subseteq 1 .. Len(owner)
    BY DEF Init
  <2>2. Junk \in StreamOrJunk BY DEF StreamOrJunk
  <2>3. clientThreadCount = Cardinality(Counted) BY <1>2 DEF Init
  <2>4. /\ cpc \in [Client -> {"off", "init", "login", "ready", "asked", "stuck"}]
        /\ conn \in [Client -> {0} \cup Session]
        /\ nonce \in [Client -> Nonce \cup {Nothing}]
        /\ counter \in [Client -> Nat]
        /\ clientKey \in [Client -> Key]
        /\ asked \in [Client -> Batch \cup {0}]
        /\ drawn \in [Client -> BOOLEAN]
    BY Constants DEF Init
  <2>5. /\ torn \subseteq Client
        /\ store \in [Client -> [nonce : Nonce, counter : Nat] \cup {Nothing}]
        /\ up \in [Session -> LoginRequest \cup KeyRequest \cup {Nothing}]
        /\ down \in [Session -> LoginReply \cup KeyReply \cup {NoKeys, Nothing}]
        /\ snapshot \in [Session -> Snapshot \cup {Nothing}]
        /\ clientList \in [Client -> Info \cup {Nothing}]
        /\ blame \in [Client -> SUBSET Cause]
    BY DEF Init
  <2>6. /\ Len(owner) <= MaxSession /\ sessionKey \in Key
        /\ masks \in StreamOrJunk /\ maskStream \in StreamOrJunk
    BY <2>1, <2>2, Constants DEF Init
  <2>7. /\ thread \in [Session -> {"none", "login", "serve", "keygen", "leaked", "gone"}]
        /\ offlineGenerateFlag \in BOOLEAN
        /\ raThread \in {"idle", "asked", "going"}
        /\ maskThread \in {"idle", "wanted", "filling"}
        /\ trusted \in BOOLEAN
    BY DEF Init
  <2> QED BY <2>1, <2>3, <2>4, <2>5, <2>6, <2>7 DEF TypeOK
<1>4. KeysCounted BY Constants DEF Init, KeysCounted
<1>5. Linked BY DEF Init, Linked
<1>6. \A t \in Session : Carried(t) BY DEF Init, Carried
<1>7. \A c \in Client : Agreement(c)
  BY DEF Init, Agreement, Conversation, SameNonce, SameCounter, SameStreams, Known
<1> QED BY <1>3, <1>4, <1>5, <1>6, <1>7 DEF IInv

-----------------------------------------------------------------------------
(***************************************************************************)
(* The steps of a client.                                                  *)
(***************************************************************************)
LEMMA StartKeeps ==
  ASSUME IInv, NEW c \in Client, Start(c) PROVE IInv'
<1> DEFINE t == Len(owner) + 1
<1> USE DEF IInv
<1>1. /\ cpc[c] = "off" /\ conn[c] = 0 /\ t \in Session
      /\ thread[t] = "none" /\ up[t] = Nothing /\ down[t] = Nothing
      /\ snapshot[t] = Nothing
  <2>1. Len(owner) \in Nat BY DEF TypeOK
  <2>2. cpc[c] = "off" /\ t \in Session BY DEF Start
  <2>3. conn[c] = 0 BY <2>2 DEF Linked
  <2>4. Carried(t) /\ t > Len(owner) BY <2>1, <2>2
  <2> QED BY <2>2, <2>3, <2>4 DEF Carried
<1>2. /\ owner' = Append(owner, c) /\ owner' \in Seq(Client)
      /\ Len(owner') = t /\ owner'[t] = c
      /\ \A s \in 1 .. Len(owner) : owner'[s] = owner[s]
      /\ Len(owner) \in Nat
  BY DEF Start, TypeOK
<1>3. TypeOK'
  <2>1. clientKey' \in [Client -> Key] BY DEF Start, TypeOK
  <2>2. Counted' = Counted BY DEF Start, Counted, serverVars
  <2>3. open' \subseteq 1 .. Len(owner')
    <3>1. open \subseteq 1 .. Len(owner) BY DEF TypeOK
    <3>2. open' = open \cup {t} BY DEF Start
    <3>3. Len(owner') = Len(owner) + 1 /\ Len(owner) \in Nat BY <1>2
    <3>4. t \in 1 .. Len(owner') BY <3>3
    <3>5. \A s \in open : s \in 1 .. Len(owner') BY <3>1, <3>3
    <3> QED BY <3>2, <3>4, <3>5
  <2>4. Len(owner') <= MaxSession BY <1>1, <1>2, Constants DEF Session
  <2> QED BY <1>1, <1>2, <2>1, <2>2, <2>3, <2>4 DEF Start, TypeOK, serverVars, enclaveVars
<1>4. KeysCounted' BY DEF KeysCounted, Start, serverVars, enclaveVars
<1>5. Linked'
  <2>1. \A s \in open : s \in 1 .. Len(owner) /\ s # t BY <1>2 DEF TypeOK
  <2>2. /\ cpc' = [cpc EXCEPT ![c] = "init"] /\ conn' = [conn EXCEPT ![c] = t]
        /\ open' = open \cup {t}
    BY DEF Start
  <2>3. /\ cpc'[c] = "init" /\ conn'[c] = t
        /\ \A d \in Client \ {c} : cpc'[d] = cpc[d] /\ conn'[d] = conn[d]
    BY <2>2 DEF TypeOK
  <2>4. \A d \in Client : conn'[d] = 0 <=> cpc'[d] = "off"
    BY <2>3, <1>1, Constants DEF Linked
  <2>5. \A d \in Client : conn'[d] # 0 => conn'[d] \in open' /\ owner'[conn'[d]] = d
    BY <2>1, <2>2, <2>3, <1>2 DEF Linked
  <2>6. \A s \in open' : conn'[owner'[s]] = s
    <3> SUFFICES ASSUME NEW s \in open' PROVE conn'[owner'[s]] = s OBVIOUS
    <3>1. CASE s = t BY <3>1, <1>2, <2>3
    <3>2. CASE s # t
      <4>1. s \in open /\ owner'[s] = owner[s] BY <3>2, <2>1, <2>2, <1>2
      <4>2. conn[owner[s]] = s BY <4>1 DEF Linked
      <4>3. owner[s] \in Client BY <4>1, <2>1 DEF TypeOK
      <4>4. owner[s] # c
        <5>1. s \in Nat /\ s # 0 BY <4>1, <2>1
        <5> QED BY <4>2, <5>1, <1>1
      <4> QED BY <4>1, <4>2, <4>3, <4>4, <2>3
    <3> QED BY <3>1, <3>2
  <2> QED BY <2>4, <2>5, <2>6 DEF Linked
<1>6. \A s \in Session : Carried(s)'
  <2> SUFFICES ASSUME NEW s \in Session PROVE Carried(s)' OBVIOUS
  <2>1. s > t => s > Len(owner) BY <1>2, Constants
  <2>2. s \in open \/ s \notin open' \/ s = t BY DEF Start
  <2> QED BY <1>1, <1>2, <2>1, <2>2 DEF Carried, Start, serverVars
<1>7. ASSUME NEW d \in Client, d # c PROVE Agreement(d)'
  <2>1. Bystander(d)
    BY <1>7 DEF Start, Bystander, serverVars, enclaveVars, Total, TypeOK
  <2> QED BY <2>1, BystanderAgrees
<1>8. Agreement(c)'
  <2>1. conn'[c] = t /\ cpc'[c] = "init" /\ t # 0 BY <1>1, Constants DEF Start, TypeOK
  <2>2. Conversation(c)'
    BY <1>1, <2>1 DEF Agreement, Conversation, Start, Th, Up, Down, serverVars
  <2>3. SameNonce(c)'
    <3>1. ~ InSession(c) /\ ~ InSession(c)'
      BY <1>1, <2>1 DEF InSession, Th, Start, serverVars
    <3> QED BY <3>1, <2>1 DEF Agreement, SameNonce, Start, Known, enclaveVars
  <2> QED BY <2>1, <2>2, <2>3 DEF Agreement, SameCounter, SameStreams, InSession
<1> QED BY <1>3, <1>4, <1>5, <1>6, <1>7, <1>8

LEMMA LoginKeeps ==
  ASSUME IInv, NEW c \in Client, Login(c) PROVE IInv'
<1> DEFINE t == conn[c]
<1> USE DEF IInv
<1>1. /\ cpc[c] = "init" /\ t \in Session /\ t \in open /\ owner[t] = c
      /\ thread[t] \in {"none", "login"} /\ up[t] = Nothing /\ down[t] = Nothing
  <2>1. cpc[c] = "init" BY DEF Login
  <2>2. conn[c] # 0 /\ conn[c] \in {0} \cup Session BY <2>1 DEF Linked, TypeOK
  <2> QED BY <2>1, <2>2 DEF Linked, Agreement, Conversation, Th, Up, Down
<1>2. /\ nonce'[c] \in Nonce /\ counter'[c] \in Nat /\ drawn'[c] \in BOOLEAN
      /\ ~ drawn'[c] => store[c] # Nothing /\ nonce'[c] = store[c].nonce
      /\ nonce' \in [Client -> Nonce \cup {Nothing}]
      /\ counter' \in [Client -> Nat] /\ drawn' \in [Client -> BOOLEAN]
      /\ \A d \in Client \ {c} : nonce'[d] = nonce[d] /\ counter'[d] = counter[d]
                                 /\ drawn'[d] = drawn[d]
  <2>1. CASE store[c] # Nothing
    <3>1. store[c] \in [nonce : Nonce, counter : Nat] BY <2>1 DEF TypeOK
    <3>2. store[c].nonce \in Nonce /\ store[c].counter \in Nat BY <3>1
    <3> QED BY <2>1, <3>2 DEF Login, TypeOK
  <2>2. CASE store[c] = Nothing
    <3>1. PICK x \in Nonce : nonce' = [nonce EXCEPT ![c] = x] BY <2>2 DEF Login
    <3>2. /\ counter' = [counter EXCEPT ![c] = 0]
          /\ drawn' = [drawn EXCEPT ![c] = TRUE] BY <2>2 DEF Login
    <3>3. /\ nonce \in [Client -> Nonce \cup {Nothing}]
          /\ counter \in [Client -> Nat] /\ drawn \in [Client -> BOOLEAN]
      BY DEF TypeOK
    <3> HIDE DEF IInv
    <3> QED BY <3>1, <3>2, <3>3
  <2> QED BY <2>1, <2>2
<1> DEFINE m == LoginMessage(c, nonce'[c], counter'[c], drawn'[c])
<1>3. m \in LoginRequest BY <1>2 DEF LoginMessage, LoginRequest, TypeOK
<1>4. up' = [up EXCEPT ![t] = m] BY DEF Login
<1> HIDE DEF m
<1>5. TypeOK'
  <2>1. Counted' = Counted BY DEF Login, Counted, serverVars
  <2>2. cpc' \in [Client -> {"off", "init", "login", "ready", "asked", "stuck"}]
    BY DEF Login, TypeOK
  <2>3. up' \in [Session -> LoginRequest \cup KeyRequest \cup {Nothing}]
    BY <1>3, <1>4 DEF TypeOK
  <2> QED BY <1>2, <2>1, <2>2, <2>3 DEF Login, TypeOK, serverVars, enclaveVars
<1>6. KeysCounted' BY DEF KeysCounted, Login, serverVars, enclaveVars
<1>7. Linked' BY <1>1 DEF Linked, Login, TypeOK
<1>8. \A s \in Session : Carried(s)'
  <2> SUFFICES ASSUME NEW s \in Session PROVE Carried(s)' OBVIOUS
  <2>1. up'[s] = IF s = t THEN m ELSE up[s] BY <1>4 DEF TypeOK
  <2>2. t \in 1 .. Len(owner) BY <1>1 DEF TypeOK
  <2> QED BY <1>1, <1>3, <2>1, <2>2 DEF Carried, Login, serverVars
<1>9. ASSUME NEW d \in Client, d # c PROVE Agreement(d)'
  <2>1. conn[d] # t BY <1>1, <1>9, OwnConnection, Constants
  <2>2. Bystander(d)
    BY <1>2, <1>4, <1>9, <2>1 DEF Login, Bystander, serverVars, enclaveVars, Total, TypeOK
  <2> QED BY <2>2, BystanderAgrees
<1>10. Agreement(c)'
  <2>1. /\ conn'[c] = t /\ cpc'[c] = "login" /\ t # 0 /\ up'[t] = m
        /\ thread' = thread /\ down' = down /\ asked'[c] = 0
    BY <1>1, <1>4, Constants DEF Login, TypeOK, serverVars, Agreement, Conversation
  <2>2. Conversation(c)'
    <3>1. m = LoginMessage(c, nonce[c], counter[c], drawn[c])'
      BY DEF m, LoginMessage, Login
    <3> QED BY <1>1, <1>2, <2>1, <3>1 DEF Conversation, Th, Up, Down
  <2>3. ~ InSession(c) /\ ~ InSession(c)'
    BY <1>1, <2>1 DEF InSession, Th
  <2>4. SameNonce(c)'
    BY <1>1, <1>2, <2>1, <2>3 DEF Agreement, SameNonce, Login, Known, enclaveVars
  <2> QED BY <2>1, <2>2, <2>3, <2>4 DEF Agreement, SameCounter, SameStreams
<1> QED BY <1>5, <1>6, <1>7, <1>8, <1>9, <1>10

(* A step of a client inside its run touches nothing but its own state and *)
(* its connection.                                                         *)
OwnStep(c) ==
  /\ conn[c] # 0 /\ cpc'[c] # "off"
  /\ \A d \in Client \ {c} :
       /\ cpc'[d] = cpc[d] /\ nonce'[d] = nonce[d] /\ counter'[d] = counter[d]
       /\ asked'[d] = asked[d] /\ drawn'[d] = drawn[d]
  /\ \A s \in Session \ {conn[c]} : up'[s] = up[s] /\ down'[s] = down[s]
  /\ UNCHANGED <<conn, clientKey, store, torn, owner, open, serverVars, enclaveVars,
                 faults, blame>>

LEMMA OwnStepKeeps ==
  ASSUME IInv, NEW c \in Client, OwnStep(c),
         /\ cpc' \in [Client -> {"off", "init", "login", "ready", "asked", "stuck"}]
         /\ nonce' \in [Client -> Nonce \cup {Nothing}]
         /\ counter' \in [Client -> Nat] /\ drawn' \in [Client -> BOOLEAN]
         /\ asked' \in [Client -> Batch \cup {0}]
         /\ up' \in [Session -> LoginRequest \cup KeyRequest \cup {Nothing}]
         /\ down' \in [Session -> LoginReply \cup KeyReply \cup {NoKeys, Nothing}],
         /\ thread[conn[c]] \in {"none", "login"} => up'[conn[c]] \in LoginRequest \cup {Nothing}
         /\ thread[conn[c]] = "serve" => up'[conn[c]] \in KeyRequest \cup {Nothing}
         /\ thread[conn[c]] = "keygen" => up'[conn[c]] = Nothing,
         Agreement(c)'
  PROVE  IInv'
<1> USE DEF IInv
<1>1. TypeOK'
  <2>1. Counted' = Counted BY DEF OwnStep, Counted, serverVars
  <2> QED BY <2>1 DEF OwnStep, TypeOK, serverVars, enclaveVars
<1>2. KeysCounted' BY DEF KeysCounted, OwnStep, serverVars, enclaveVars
<1>3. Linked' BY DEF Linked, OwnStep
<1>4. conn[c] \in Session /\ conn[c] \in open /\ conn[c] \in 1 .. Len(owner)
  BY DEF OwnStep, Linked, TypeOK
<1>5. \A s \in Session : Carried(s)'
  <2> SUFFICES ASSUME NEW s \in Session PROVE Carried(s)' OBVIOUS
  <2>1. CASE s = conn[c] BY <1>4, <2>1 DEF Carried, OwnStep, serverVars
  <2>2. CASE s # conn[c] BY <2>2 DEF Carried, OwnStep, serverVars
  <2> QED BY <2>1, <2>2
<1>6. ASSUME NEW d \in Client, d # c PROVE Agreement(d)'
  <2>1. conn[d] # conn[c] BY <1>6, OwnConnection DEF OwnStep
  <2>2. conn[d] \in {0} \cup Session BY DEF TypeOK
  <2>3. Bystander(d)
    BY <1>6, <2>1, <2>2 DEF OwnStep, Bystander, serverVars, enclaveVars, Total
  <2> QED BY <2>3, BystanderAgrees
<1> QED BY <1>1, <1>2, <1>3, <1>5, <1>6

(* What a running client may rely on.                                      *)
LEMMA RunningClient ==
  ASSUME IInv, NEW c \in Client, cpc[c] # "off"
  PROVE  /\ conn[c] \in Session /\ conn[c] # 0
         /\ conn[c] \in open /\ owner[conn[c]] = c
         /\ conn[c] \in 1 .. Len(owner)
         /\ Conversation(c) /\ SameNonce(c) /\ SameCounter(c) /\ SameStreams(c)
         /\ clientKey[c] \in Key /\ counter[c] \in Nat
BY Constants DEF IInv, TypeOK, Linked, Agreement

LEMMA LoginDoneKeeps ==
  ASSUME IInv, NEW c \in Client, LoginDone(c) PROVE IInv'
<1> DEFINE t == conn[c]
<1>1. /\ cpc[c] = "login" /\ down[t] # Nothing
      /\ down[t].kind \in {"SUCCESS", "CLIENT_COUNTER_REST"}
      /\ counter' = IF down[t].kind = "SUCCESS" THEN counter
                    ELSE [counter EXCEPT ![c] = 0]
      /\ cpc' = [cpc EXCEPT ![c] = "ready"]
      /\ down' = [down EXCEPT ![t] = Nothing]
      /\ UNCHANGED <<faults, conn, nonce, clientKey, asked, store, torn, drawn, owner, open, up,
                     serverVars, enclaveVars, blame>>
  BY DEF LoginDone
<1>2. /\ t \in Session /\ t # 0
      /\ Conversation(c) /\ SameNonce(c) /\ SameCounter(c)
  BY <1>1, RunningClient
<1>3. /\ cpc \in [Client -> {"off", "init", "login", "ready", "asked", "stuck"}]
      /\ nonce \in [Client -> Nonce \cup {Nothing}]
      /\ counter \in [Client -> Nat] /\ drawn \in [Client -> BOOLEAN]
      /\ asked \in [Client -> Batch \cup {0}]
      /\ up \in [Session -> LoginRequest \cup KeyRequest \cup {Nothing}]
      /\ down \in [Session -> LoginReply \cup KeyReply \cup {NoKeys, Nothing}]
  BY DEF IInv, TypeOK
<1>4. up[t] = Nothing /\ thread[t] = "serve" /\ nonce[c] \in Nonce /\ asked[c] = 0
  BY <1>1, <1>2 DEF Conversation, Th, Up, Down
<1>5. /\ cpc'[c] = "ready" /\ down'[t] = Nothing
      /\ counter'[c] = IF down[t].kind = "SUCCESS" THEN counter[c] ELSE 0
      /\ up' = up /\ thread' = thread /\ conn' = conn /\ nonce' = nonce
      /\ asked' = asked /\ store' = store /\ clientList' = clientList /\ blame' = blame
  BY <1>1, <1>2, <1>3 DEF serverVars, enclaveVars
<1>6. Agreement(c)'
  <2>1. Conversation(c)' BY <1>4, <1>5 DEF Conversation, Th, Up, Down
  <2>2. InSession(c) /\ InSession(c)' BY <1>2, <1>4, <1>5 DEF InSession, Th
  <2>3. SameNonce(c)' BY <1>2, <1>5, <2>2 DEF SameNonce, Known
  <2>4. SameCounter(c)'
    BY <1>1, <1>2, <1>5, <2>2 DEF SameCounter, Known, Down, Total
  <2> QED BY <1>5, <2>1, <2>3, <2>4 DEF Agreement, SameStreams
<1>7. OwnStep(c) BY <1>1, <1>2, <1>3, <1>5 DEF OwnStep
<1>8. /\ cpc' \in [Client -> {"off", "init", "login", "ready", "asked", "stuck"}]
      /\ counter' \in [Client -> Nat]
      /\ down' \in [Session -> LoginReply \cup KeyReply \cup {NoKeys, Nothing}]
  BY <1>1, <1>2, <1>3
<1>9. nonce' = nonce /\ drawn' = drawn /\ asked' = asked /\ up' = up BY <1>1
<1> QED BY <1>3, <1>4, <1>6, <1>7, <1>8, <1>9, OwnStepKeeps

LEMMA LoginRetryKeeps ==
  ASSUME IInv, NEW c \in Client, NEW x \in Nonce, LoginRetry(c, x) PROVE IInv'
<1> DEFINE t == conn[c]
           m == LoginMessage(c, x, counter[c], TRUE)
<1>1. /\ cpc[c] = "login" /\ down[t] # Nothing
      /\ down[t].kind \in {"NONCE_HAS_USED", "ERROR_RESEND"}
      /\ nonce' = [nonce EXCEPT ![c] = x]
      /\ up' = [up EXCEPT ![t] = m]
      /\ drawn' = [drawn EXCEPT ![c] = TRUE]
      /\ down' = [down EXCEPT ![t] = Nothing]
      /\ UNCHANGED <<faults, cpc, conn, counter, clientKey, asked, store, torn, owner, open,
                     serverVars, enclaveVars, blame>>
  BY DEF LoginRetry
<1>2. /\ t \in Session /\ t # 0 /\ clientKey[c] \in Key /\ counter[c] \in Nat
      /\ Conversation(c) /\ SameNonce(c)
  BY <1>1, RunningClient
<1>3. /\ cpc \in [Client -> {"off", "init", "login", "ready", "asked", "stuck"}]
      /\ nonce \in [Client -> Nonce \cup {Nothing}]
      /\ counter \in [Client -> Nat] /\ drawn \in [Client -> BOOLEAN]
      /\ asked \in [Client -> Batch \cup {0}]
      /\ up \in [Session -> LoginRequest \cup KeyRequest \cup {Nothing}]
      /\ down \in [Session -> LoginReply \cup KeyReply \cup {NoKeys, Nothing}]
  BY DEF IInv, TypeOK
<1>4. thread[t] = "login" /\ asked[c] = 0
  BY <1>1, <1>2 DEF Conversation, Th, Up, Down
<1>5. m \in LoginRequest BY <1>2 DEF LoginMessage, LoginRequest
<1>6. m = LoginMessage(c, nonce[c], counter[c], drawn[c])'
  BY <1>1, <1>3 DEF LoginMessage
<1> HIDE DEF m
<1>7. /\ cpc'[c] = "login" /\ down'[t] = Nothing /\ up'[t] = m
      /\ nonce'[c] = x /\ drawn'[c] = TRUE
      /\ thread' = thread /\ conn' = conn
      /\ asked' = asked /\ store' = store /\ clientList' = clientList /\ blame' = blame
  BY <1>1, <1>2, <1>3 DEF serverVars, enclaveVars
<1>8. Agreement(c)'
  <2>1. Conversation(c)' BY <1>4, <1>6, <1>7 DEF Conversation, Th, Up, Down
  <2>2. ~ InSession(c) /\ ~ InSession(c)' BY <1>4, <1>7 DEF InSession, Th
  <2>3. SameNonce(c)' BY <1>2, <1>7, <2>2 DEF SameNonce, Known
  <2> QED BY <1>7, <2>1, <2>2, <2>3 DEF Agreement, SameCounter, SameStreams
<1>9. OwnStep(c) BY <1>1, <1>2, <1>3, <1>7 DEF OwnStep
<1>10. /\ nonce' \in [Client -> Nonce \cup {Nothing}]
       /\ drawn' \in [Client -> BOOLEAN]
       /\ down' \in [Session -> LoginReply \cup KeyReply \cup {NoKeys, Nothing}]
  BY <1>1, <1>2, <1>3
<1>11. up' \in [Session -> LoginRequest \cup KeyRequest \cup {Nothing}]
  BY <1>1, <1>3, <1>5
<1>12. cpc' = cpc /\ counter' = counter /\ asked' = asked BY <1>1
<1> QED BY <1>3, <1>4, <1>5, <1>7, <1>8, <1>9, <1>10, <1>11, <1>12, OwnStepKeeps

LEMMA AskKeeps ==
  ASSUME IInv, NEW c \in Client, NEW n \in Batch, Ask(c, n) PROVE IInv'
<1> DEFINE t == conn[c]
           m == [kind |-> "hashes", key |-> clientKey[c], n |-> n,
                 under |-> ClientStream(c, 0)]
<1>1. /\ cpc[c] = "ready"
      /\ up' = [up EXCEPT ![t] = m]
      /\ asked' = [asked EXCEPT ![c] = n]
      /\ cpc' = [cpc EXCEPT ![c] = "asked"]
      /\ UNCHANGED <<faults, conn, nonce, counter, clientKey, store, torn, drawn, owner, open,
                     down, serverVars, enclaveVars, blame>>
  BY DEF Ask
<1>2. /\ t \in Session /\ t # 0 /\ clientKey[c] \in Key /\ counter[c] \in Nat
      /\ Conversation(c) /\ SameNonce(c) /\ SameCounter(c)
  BY <1>1, RunningClient
<1>3. /\ cpc \in [Client -> {"off", "init", "login", "ready", "asked", "stuck"}]
      /\ nonce \in [Client -> Nonce \cup {Nothing}]
      /\ counter \in [Client -> Nat] /\ drawn \in [Client -> BOOLEAN]
      /\ asked \in [Client -> Batch \cup {0}]
      /\ up \in [Session -> LoginRequest \cup KeyRequest \cup {Nothing}]
      /\ down \in [Session -> LoginReply \cup KeyReply \cup {NoKeys, Nothing}]
  BY DEF IInv, TypeOK
<1>4. thread[t] = "serve" /\ down[t] = Nothing /\ nonce[c] \in Nonce
  BY <1>1, <1>2 DEF Conversation, Th, Up, Down
<1>5. ClientStream(c, 0) \in Stream /\ ClientStream(c, 0)' = ClientStream(c, 0)
  BY <1>1, <1>2, <1>4 DEF ClientStream, CTRBase, Stream
<1>6. m \in KeyRequest BY <1>2, <1>5 DEF KeyRequest
<1>7. m = [kind |-> "hashes", key |-> clientKey'[c], n |-> n,
           under |-> ClientStream(c, 0)']
  BY <1>1, <1>5
<1> HIDE DEF m
<1>8. /\ cpc'[c] = "asked" /\ up'[t] = m /\ asked'[c] = n
      /\ thread' = thread /\ conn' = conn /\ down' = down /\ snapshot' = snapshot
      /\ nonce' = nonce /\ counter' = counter /\ clientKey' = clientKey
      /\ store' = store /\ clientList' = clientList /\ blame' = blame
  BY <1>1, <1>2, <1>3 DEF serverVars, enclaveVars
<1>9. Agreement(c)'
  <2>1. Conversation(c)' BY <1>4, <1>7, <1>8 DEF Conversation, Th, Up, Down
  <2>2. InSession(c) /\ InSession(c)' BY <1>2, <1>4, <1>8 DEF InSession, Th
  <2>3. SameNonce(c)' BY <1>2, <1>8, <2>2 DEF SameNonce, Known
  <2>4. SameCounter(c)'
    BY <1>1, <1>2, <1>4, <1>8, <2>2 DEF SameCounter, Known, Down, Total
  <2>5. snapshot[t] = Nothing BY <1>2, <1>4 DEF IInv, Carried
  <2>6. SameStreams(c)' BY <1>4, <1>8, <2>5 DEF SameStreams, Held, Verified, Down
  <2> QED BY <2>1, <2>3, <2>4, <2>6 DEF Agreement
<1>10. OwnStep(c) BY <1>1, <1>2, <1>3, <1>8 DEF OwnStep
<1>11. /\ cpc' \in [Client -> {"off", "init", "login", "ready", "asked", "stuck"}]
       /\ asked' \in [Client -> Batch \cup {0}]
  BY <1>1, <1>3
<1>12. up' \in [Session -> LoginRequest \cup KeyRequest \cup {Nothing}]
  BY <1>1, <1>3, <1>6
<1>13. nonce' = nonce /\ counter' = counter /\ drawn' = drawn /\ down' = down BY <1>1
<1> QED BY <1>3, <1>4, <1>6, <1>8, <1>9, <1>10, <1>11, <1>12, <1>13, OwnStepKeeps

LEMMA TakeKeysKeeps ==
  ASSUME IInv, NEW c \in Client, TakeKeys(c) PROVE IInv'
<1> DEFINE t == conn[c]
           next == IF Verified(c) THEN "ready" ELSE "stuck"
<1>1. /\ cpc[c] = "asked" /\ down[t] # Nothing
      /\ cpc' = [cpc EXCEPT ![c] = next]
      /\ counter' = [counter EXCEPT ![c] = counter[c] + 4 * asked[c]]
      /\ asked' = [asked EXCEPT ![c] = 0]
      /\ down' = [down EXCEPT ![t] = Nothing]
      /\ UNCHANGED <<faults, conn, nonce, clientKey, store, torn, drawn, owner, open, up,
                     serverVars, enclaveVars, blame>>
  BY DEF TakeKeys
<1>2. /\ t \in Session /\ t # 0 /\ clientKey[c] \in Key /\ counter[c] \in Nat
      /\ Conversation(c) /\ SameNonce(c) /\ SameCounter(c)
  BY <1>1, RunningClient
<1>3. /\ cpc \in [Client -> {"off", "init", "login", "ready", "asked", "stuck"}]
      /\ nonce \in [Client -> Nonce \cup {Nothing}]
      /\ counter \in [Client -> Nat] /\ drawn \in [Client -> BOOLEAN]
      /\ asked \in [Client -> Batch \cup {0}]
      /\ up \in [Session -> LoginRequest \cup KeyRequest \cup {Nothing}]
      /\ down \in [Session -> LoginReply \cup KeyReply \cup {NoKeys, Nothing}]
  BY DEF IInv, TypeOK
<1>4. /\ thread[t] = "serve" /\ up[t] = Nothing /\ nonce[c] \in Nonce
      /\ asked[c] \in Batch /\ asked[c] \in Nat
  BY <1>1, <1>2, Constants DEF Conversation, Th, Up, Down
<1>5. /\ \/ Verified(c) /\ cpc'[c] = "ready"
         \/ ~ Verified(c) /\ cpc'[c] = "stuck"
      /\ down'[t] = Nothing /\ asked'[c] = 0
      /\ counter'[c] = counter[c] + 4 * asked[c] /\ counter'[c] \in Nat
      /\ thread' = thread /\ conn' = conn /\ up' = up /\ nonce' = nonce
      /\ store' = store /\ clientList' = clientList /\ blame' = blame
  BY <1>1, <1>2, <1>3, <1>4 DEF serverVars, enclaveVars
<1>6. Agreement(c)'
  <2>1. Conversation(c)' BY <1>4, <1>5 DEF Conversation, Th, Up, Down
  <2>2. InSession(c) /\ InSession(c)' BY <1>2, <1>4, <1>5 DEF InSession, Th
  <2>3. SameNonce(c)' BY <1>1, <1>2, <1>5, <2>2 DEF SameNonce, Known
  <2>4. SameCounter(c)'
    BY <1>1, <1>2, <1>5, <2>2 DEF SameCounter, Known, Down, Total, Verified
  <2> QED BY <1>5, <2>1, <2>3, <2>4 DEF Agreement, SameStreams
<1>7. OwnStep(c) BY <1>1, <1>2, <1>3, <1>5 DEF OwnStep
<1>8. /\ cpc' \in [Client -> {"off", "init", "login", "ready", "asked", "stuck"}]
      /\ asked' \in [Client -> Batch \cup {0}]
      /\ counter' \in [Client -> Nat]
      /\ down' \in [Session -> LoginReply \cup KeyReply \cup {NoKeys, Nothing}]
  BY <1>1, <1>2, <1>3, <1>5
<1>9. nonce' = nonce /\ drawn' = drawn /\ up' = up BY <1>1
<1> QED BY <1>3, <1>4, <1>6, <1>7, <1>8, <1>9, OwnStepKeeps

(* The end of a run. What the next run starts from is the nonce of the     *)
(* enclave, unless the client has a cause.                                 *)
LeavesSameNonce(c) ==
  /\ torn' \subseteq Client
  /\ store' \in [Client -> [nonce : Nonce, counter : Nat] \cup {Nothing}]
  /\ blame' \in [Client -> SUBSET Cause]
  /\ \A d \in Client \ {c} : store'[d] = store[d] /\ blame'[d] = blame[d]
  /\ c \in Known /\ store'[c] # Nothing /\ "lostNonce" \notin blame'[c] =>
       clientList[c].nonce = store'[c].nonce

LEMMA ExitKeeps ==
  ASSUME IInv, NEW c \in Client, cpc[c] # "off", Exit(c), KeysCounted',
         LeavesSameNonce(c)
  PROVE  IInv'
<1> DEFINE t == conn[c]
<1>1. /\ cpc' = [cpc EXCEPT ![c] = "off"]
      /\ conn' = [conn EXCEPT ![c] = 0]
      /\ nonce' = [nonce EXCEPT ![c] = Nothing]
      /\ counter' = [counter EXCEPT ![c] = 0]
      /\ clientKey' = [clientKey EXCEPT ![c] = 0]
      /\ asked' = [asked EXCEPT ![c] = 0]
      /\ drawn' = [drawn EXCEPT ![c] = FALSE]
      /\ open' = open \ {t}
      /\ down' = [down EXCEPT ![t] = Nothing]
      /\ owner' = owner /\ up' = up
      /\ thread' = thread /\ snapshot' = snapshot /\ clientList' = clientList
      /\ UNCHANGED <<serverVars, enclaveVars>>
  BY DEF Exit, serverVars, enclaveVars
<1>2. /\ t \in Session /\ t # 0 /\ t \in open /\ owner[t] = c /\ t \in 1 .. Len(owner)
  BY RunningClient
<1>3. /\ cpc \in [Client -> {"off", "init", "login", "ready", "asked", "stuck"}]
      /\ conn \in [Client -> {0} \cup Session]
      /\ nonce \in [Client -> Nonce \cup {Nothing}]
      /\ counter \in [Client -> Nat] /\ clientKey \in [Client -> Key]
      /\ drawn \in [Client -> BOOLEAN] /\ asked \in [Client -> Batch \cup {0}]
      /\ down \in [Session -> LoginReply \cup KeyReply \cup {NoKeys, Nothing}]
  BY DEF IInv, TypeOK
<1>4. /\ cpc'[c] = "off" /\ conn'[c] = 0 /\ asked'[c] = 0 /\ down'[t] = Nothing
      /\ \A d \in Client \ {c} :
           /\ cpc'[d] = cpc[d] /\ conn'[d] = conn[d] /\ nonce'[d] = nonce[d]
           /\ counter'[d] = counter[d] /\ clientKey'[d] = clientKey[d]
           /\ asked'[d] = asked[d] /\ drawn'[d] = drawn[d]
      /\ \A s \in Session \ {t} : down'[s] = down[s]
  BY <1>1, <1>2, <1>3
<1>5. TypeOK'
  <2>1. Counted' = Counted BY <1>1 DEF Counted
  <2>2. /\ cpc' \in [Client -> {"off", "init", "login", "ready", "asked", "stuck"}]
        /\ conn' \in [Client -> {0} \cup Session]
        /\ nonce' \in [Client -> Nonce \cup {Nothing}]
        /\ counter' \in [Client -> Nat] /\ clientKey' \in [Client -> Key]
        /\ drawn' \in [Client -> BOOLEAN] /\ asked' \in [Client -> Batch \cup {0}]
        /\ down' \in [Session -> LoginReply \cup KeyReply \cup {NoKeys, Nothing}]
    BY <1>1, <1>2, <1>3, Constants
  <2>3. open' \subseteq 1 .. Len(owner') BY <1>1 DEF IInv, TypeOK
  <2> QED BY <1>1, <2>1, <2>2, <2>3 DEF IInv, TypeOK, serverVars, enclaveVars, LeavesSameNonce
<1>6. Linked'
  <2>1. \A s \in open : s \in Session /\ owner[s] \in Client
    <3>1. /\ owner \in Seq(Client) /\ open \subseteq 1 .. Len(owner)
          /\ Len(owner) <= MaxSession
      BY DEF IInv, TypeOK
    <3>2. Len(owner) \in Nat BY <3>1
    <3>3. MaxSession \in Nat BY Constants
    <3> QED BY <3>1, <3>2, <3>3 DEF Session
  <2>2. \A d \in Client \ {c} : conn[d] # t
    BY <1>2, OwnConnection DEF IInv
  <2>3. \A s \in open' : conn'[owner'[s]] = s
    <3> SUFFICES ASSUME NEW s \in open' PROVE conn'[owner'[s]] = s OBVIOUS
    <3>1. s \in open /\ s # t /\ owner'[s] = owner[s] BY <1>1
    <3>2. conn[owner[s]] = s BY <3>1 DEF IInv, Linked
    <3>3. owner[s] # c BY <3>1, <3>2
    <3> QED BY <1>4, <2>1, <3>1, <3>2, <3>3
  <2>4. ASSUME NEW d \in Client
        PROVE  /\ conn'[d] = 0 <=> cpc'[d] = "off"
               /\ conn'[d] # 0 => conn'[d] \in open' /\ owner'[conn'[d]] = d
    <3>1. CASE d = c BY <1>4, <3>1
    <3>2. CASE d # c
      <4>1. conn'[d] = conn[d] /\ cpc'[d] = cpc[d] BY <1>4, <3>2
      <4>2. conn[d] # t BY <2>2, <3>2
      <4> QED BY <1>1, <4>1, <4>2 DEF IInv, Linked
    <3> QED BY <3>1, <3>2
  <2> QED BY <2>3, <2>4 DEF Linked
<1>7. \A s \in Session : Carried(s)'
  <2> SUFFICES ASSUME NEW s \in Session PROVE Carried(s)' OBVIOUS
  <2>1. CASE s = t BY <1>1, <1>2, <1>4, <2>1 DEF IInv, Carried
  <2>2. CASE s # t BY <1>1, <1>4, <2>2 DEF IInv, Carried
  <2> QED BY <2>1, <2>2
<1>8. ASSUME NEW d \in Client, d # c PROVE Agreement(d)'
  <2>1. conn[d] # t BY <1>2, <1>8, OwnConnection DEF IInv
  <2>2. conn[d] \in {0} \cup Session BY <1>3
  <2>3. Bystander(d)
    BY <1>1, <1>4, <1>8, <2>1, <2>2 DEF Bystander, Total, LeavesSameNonce
  <2> QED BY <2>3, BystanderAgrees DEF IInv
<1>9. Agreement(c)'
  <2>1. ~ InSession(c)' BY <1>4 DEF InSession
  <2>2. SameNonce(c)' BY <1>1, <1>4, <2>1 DEF SameNonce, Known, LeavesSameNonce
  <2> QED BY <1>4, <2>1, <2>2 DEF Agreement, Conversation, SameCounter, SameStreams
<1> QED BY <1>5, <1>6, <1>7, <1>8, <1>9 DEF IInv

LEMMA FinishKeeps ==
  ASSUME IInv, NEW c \in Client, Finish(c) PROVE IInv'
<1> DEFINE saved == [nonce |-> nonce[c], counter |-> counter[c]]
<1>1. /\ cpc[c] = "ready" /\ Exit(c) /\ faults' = faults
      /\ store' = [store EXCEPT ![c] = saved] /\ torn' = torn
      /\ blame' = [blame EXCEPT ![c] = blame[c] \cap {"lostNonce"}]
  BY DEF Finish
<1>2. /\ Conversation(c) /\ SameNonce(c) /\ counter[c] \in Nat /\ conn[c] # 0
  BY <1>1, RunningClient
<1>3. nonce[c] \in Nonce /\ InSession(c)
  BY <1>1, <1>2 DEF Conversation, InSession, Th
<1>4. saved \in [nonce : Nonce, counter : Nat] /\ saved.nonce = nonce[c]
  BY <1>2, <1>3
<1> HIDE DEF saved
<1>5. /\ store \in [Client -> [nonce : Nonce, counter : Nat] \cup {Nothing}]
      /\ blame \in [Client -> SUBSET Cause] /\ torn \subseteq Client
  BY DEF IInv, TypeOK
<1>6. /\ store' \in [Client -> [nonce : Nonce, counter : Nat] \cup {Nothing}]
      /\ blame' \in [Client -> SUBSET Cause]
      /\ store'[c] = saved /\ blame'[c] = blame[c] \cap {"lostNonce"}
      /\ \A d \in Client \ {c} : store'[d] = store[d] /\ blame'[d] = blame[d]
  BY <1>1, <1>4, <1>5
<1>7. c \in Known /\ "lostNonce" \notin blame'[c] => clientList[c].nonce = store'[c].nonce
  BY <1>2, <1>3, <1>4, <1>6 DEF SameNonce
<1>8. KeysCounted' BY <1>1 DEF IInv, KeysCounted, Exit, serverVars, enclaveVars
<1>9. LeavesSameNonce(c) BY <1>1, <1>5, <1>6, <1>7 DEF LeavesSameNonce
<1> QED BY <1>1, <1>8, <1>9, ExitKeeps

LEMMA KillKeeps ==
  ASSUME IInv, NEW c \in Client, Kill(c) \/ LoginFails(c) PROVE IInv'
<1> DEFINE kept == cpc[c] = "init" \/ (store[c] # Nothing /\ store[c].nonce = nonce[c])
           left == IF kept THEN blame[c] \cap {"lostNonce"} ELSE {"lostNonce"}
<1>1. /\ cpc[c] # "off" /\ Exit(c) /\ store' = store /\ torn' \in {torn, torn \cup {c}}
      /\ faults' = faults \/ (faults < MaxFault /\ faults' = faults + 1)
      /\ blame' = [blame EXCEPT ![c] = left]
  <2>1. CASE Kill(c) BY <2>1 DEF Kill, Fault
  <2>2. CASE LoginFails(c) BY <2>2 DEF LoginFails
  <2> QED BY <2>1, <2>2
<1>2. /\ Conversation(c) /\ SameNonce(c) /\ conn[c] # 0
  BY <1>1, RunningClient
<1>3. /\ store \in [Client -> [nonce : Nonce, counter : Nat] \cup {Nothing}]
      /\ blame \in [Client -> SUBSET Cause] /\ torn \subseteq Client
  BY DEF IInv, TypeOK
<1>4. left \in SUBSET Cause BY <1>3 DEF Cause
<1>5. c \in Known /\ store[c] # Nothing /\ "lostNonce" \notin left =>
        clientList[c].nonce = store[c].nonce
  <2> SUFFICES ASSUME c \in Known, store[c] # Nothing, "lostNonce" \notin left
               PROVE  clientList[c].nonce = store[c].nonce
    OBVIOUS
  <2>1. kept /\ "lostNonce" \notin blame[c] OBVIOUS
  <2>2. CASE InSession(c)
    <3>1. cpc[c] # "init" BY <1>2, <2>2 DEF Conversation, InSession
    <3> QED BY <1>2, <2>1, <2>2, <3>1 DEF SameNonce
  <2>3. CASE ~ InSession(c) BY <1>2, <2>1, <2>3 DEF SameNonce
  <2> QED BY <2>2, <2>3
<1> HIDE DEF left
<1>6. /\ blame' \in [Client -> SUBSET Cause] /\ blame'[c] = left
      /\ \A d \in Client \ {c} : blame'[d] = blame[d]
  BY <1>1, <1>3, <1>4
<1>7. KeysCounted'
  BY <1>1, Constants DEF IInv, KeysCounted, Exit, serverVars, enclaveVars, TypeOK
<1>8. LeavesSameNonce(c) BY <1>1, <1>3, <1>5, <1>6 DEF LeavesSameNonce
<1> QED BY <1>1, <1>7, <1>8, ExitKeeps

-----------------------------------------------------------------------------
(***************************************************************************)
(* The steps of the key server's threads.                                  *)
(***************************************************************************)
LEMMA CountedFinite == IsFiniteSet(Counted) /\ Cardinality(Counted) \in Nat
<1>1. Counted \subseteq Session BY DEF Counted
<1>2. IsFiniteSet(Counted) BY <1>1, Constants, FS_Subset
<1> QED BY <1>2, FS_CardinalityType

(* A thread that comes, stays or goes.                                     *)
LEMMA CountedSteps ==
  ASSUME TypeOK, NEW t \in Session, NEW x, thread' = [thread EXCEPT ![t] = x]
  PROVE  /\ t \notin Counted /\ x = "login" =>
              Cardinality(Counted') = Cardinality(Counted) + 1
         /\ t \in Counted /\ x \in {"login", "serve", "keygen", "leaked"} =>
              Cardinality(Counted') = Cardinality(Counted)
         /\ t \in Counted /\ x = "gone" =>
              Cardinality(Counted') = Cardinality(Counted) - 1
<1>1. \A s \in Session : thread'[s] = IF s = t THEN x ELSE thread[s] BY DEF TypeOK
<1>2. CASE t \notin Counted /\ x = "login"
  <2>1. Counted' = Counted \cup {t} BY <1>1, <1>2 DEF Counted
  <2>2. Cardinality(Counted \cup {t}) = Cardinality(Counted) + 1
    BY <1>2, CountedFinite, FS_AddElement
  <2> QED BY <1>2, <2>1, <2>2
<1>3. CASE t \in Counted /\ x \in {"login", "serve", "keygen", "leaked"}
  <2>1. Counted' = Counted BY <1>1, <1>3 DEF Counted
  <2> QED BY <1>3, <2>1
<1>4. CASE t \in Counted /\ x = "gone"
  <2>1. Counted' = Counted \ {t} BY <1>1, <1>4 DEF Counted
  <2>2. Cardinality(Counted \ {t}) = Cardinality(Counted) - 1
    BY <1>4, CountedFinite, FS_RemoveElement
  <2> QED BY <1>4, <2>1, <2>2
<1> QED BY <1>2, <1>3, <1>4

(* A thread of the server touches its connection, and of the table and the *)
(* causes what belongs to its client.                                      *)
ServerStep(t) ==
  /\ UNCHANGED <<clientVars, owner, open, faults, raThread, maskThread, maskStream,
                 trusted, sessionKey, masks>>
  /\ offlineGenerateFlag' \in BOOLEAN
  /\ \A s \in Session \ {t} : /\ thread'[s] = thread[s] /\ up'[s] = up[s]
                              /\ down'[s] = down[s] /\ snapshot'[s] = snapshot[s]
  /\ thread' \in [Session -> {"none", "login", "serve", "keygen", "leaked", "gone"}]
  /\ up' \in [Session -> LoginRequest \cup KeyRequest \cup {Nothing}]
  /\ down' \in [Session -> LoginReply \cup KeyReply \cup {NoKeys, Nothing}]
  /\ snapshot' \in [Session -> Snapshot \cup {Nothing}]
  /\ clientThreadCount' = Cardinality(Counted')
  /\ clientList' \in [Client -> Info \cup {Nothing}]
  /\ blame' \in [Client -> SUBSET Cause]
  /\ \A d \in Client \ {owner[t]} :
       /\ blame'[d] = blame[d]
       /\ clientList'[d] # Nothing =>
            /\ clientList[d] # Nothing /\ clientList'[d].nonce = clientList[d].nonce
            /\ Total(d)' = Total(d)
       /\ clientList[d].offline = TRUE => clientList'[d].offline = TRUE

LEMMA ServerStepKeeps ==
  ASSUME IInv, NEW t \in Session, NEW c \in Client, c = owner[t], t <= Len(owner),
         ServerStep(t), Carried(t)', Agreement(c)'
  PROVE  IInv'
<1>1. TypeOK' BY DEF IInv, TypeOK, ServerStep, clientVars
<1>2. KeysCounted' BY DEF IInv, KeysCounted, ServerStep
<1>3. Linked' BY DEF IInv, Linked, ServerStep, clientVars
<1>4. \A s \in Session : Carried(s)'
  <2> SUFFICES ASSUME NEW s \in Session PROVE Carried(s)' OBVIOUS
  <2>1. CASE s = t BY <2>1
  <2>2. CASE s # t BY <2>2 DEF IInv, Carried, ServerStep
  <2> QED BY <2>1, <2>2
<1>5. ASSUME NEW d \in Client PROVE Agreement(d)'
  <2>1. CASE d = c BY <2>1
  <2>2. CASE d # c
    <3>1. conn[d] \in {0} \cup Session BY DEF IInv, TypeOK
    <3>2. conn[d] # 0 => conn[d] # t BY <2>2 DEF IInv, Linked
    <3>3. Bystander(d) BY <2>2, <3>1, <3>2 DEF ServerStep, Bystander, clientVars
    <3> QED BY <3>3, BystanderAgrees DEF IInv
  <2> QED BY <2>1, <2>2
<1> QED BY <1>1, <1>2, <1>3, <1>4, <1>5 DEF IInv

(* A thread and its client.                                                *)
LEMMA ThreadFacts ==
  ASSUME IInv, NEW t \in Session, NEW c \in Client, c = owner[t],
         thread[t] # "none" \/ t <= Len(owner)
  PROVE  /\ t <= Len(owner) /\ t # 0 /\ t \in Nat
         /\ Carried(t) /\ Agreement(c)
         /\ conn[c] = t => t \in open
         /\ t \in open => conn[c] = t
<1>1. Len(owner) \in Nat /\ t \in Nat /\ t >= 1 /\ owner \in Seq(Client)
  <2>1. owner \in Seq(Client) BY DEF IInv, TypeOK
  <2> QED BY <2>1, KeyServiceAssumption DEF Session
<1>2. Carried(t) BY DEF IInv
<1>3. t <= Len(owner) BY <1>1, <1>2 DEF Carried
<1> QED BY <1>1, <1>2, <1>3 DEF IInv, Linked

LEMMA ServeKeeps ==
  ASSUME IInv, NEW t \in Session, NEW c \in Client, c = owner[t], Serve(t)
  PROVE  IInv'
<1>1. /\ t <= Len(owner) /\ thread[t] = "none"
      /\ thread' = [thread EXCEPT ![t] = "login"]
      /\ clientThreadCount' = clientThreadCount + 1
      /\ offlineGenerateFlag' = FALSE
      /\ UNCHANGED <<faults, clientVars, netVars, snapshot, raThread, maskThread,
                     maskStream, enclaveVars, blame>>
  BY DEF Serve
<1>2. /\ t # 0 /\ Carried(t) /\ Agreement(c)
  BY <1>1, ThreadFacts
<1>3. thread'[t] = "login" /\ \A s \in Session \ {t} : thread'[s] = thread[s]
  BY <1>1 DEF IInv, TypeOK
<1>4. Carried(t)' BY <1>1, <1>2, <1>3 DEF Carried, netVars
<1>5. Agreement(c)'
  <2>1. CASE conn[c] = t
    <3>1. Conversation(c)'
      BY <1>1, <1>2, <1>3, <2>1 DEF Agreement, Conversation, Th, Up, Down, Held,
         LoginMessage, ClientStream, CTRBase, clientVars, netVars
    <3>2. ~ InSession(c) /\ ~ InSession(c)'
      BY <1>1, <1>3, <2>1 DEF InSession, Th, clientVars
    <3>3. SameNonce(c)'
      BY <1>1, <1>2, <3>2 DEF Agreement, SameNonce, Known, clientVars, enclaveVars
    <3>4. cpc[c] # "asked"
      BY <1>1, <1>2, <2>1 DEF Agreement, Conversation, Th
    <3> QED BY <1>1, <3>1, <3>2, <3>3, <3>4 DEF Agreement, SameCounter, SameStreams, clientVars
  <2>2. CASE conn[c] # t
    <3>1. conn[c] \in {0} \cup Session BY <1>2 DEF IInv, TypeOK
    <3>2. Bystander(c)
      BY <1>1, <1>3, <2>2, <3>1 DEF Bystander, clientVars, netVars, enclaveVars, Total
    <3> QED BY <1>2, <3>2, BystanderAgrees DEF IInv
  <2> QED BY <2>1, <2>2
<1>6. ServerStep(t)
  <2>1. t \notin Counted BY <1>1 DEF Counted
  <2>2. clientThreadCount' = Cardinality(Counted')
    BY <1>1, <2>1, CountedSteps DEF IInv, TypeOK
  <2>3. thread' \in [Session -> {"none", "login", "serve", "keygen", "leaked", "gone"}]
    BY <1>1 DEF IInv, TypeOK
  <2> QED BY <1>1, <1>3, <2>2, <2>3
          DEF ServerStep, IInv, TypeOK, netVars, enclaveVars, Total
<1> QED BY <1>1, <1>4, <1>5, <1>6, ServerStepKeeps

LEMMA LeaveEarlyKeeps ==
  ASSUME IInv, NEW t \in Session, NEW c \in Client, c = owner[t], LeaveEarly(t)
  PROVE  IInv'
<1>1. /\ thread[t] = "login"
      /\ up[t] = Nothing => t \notin open
      /\ thread' = [thread EXCEPT ![t] = "leaked"]
      /\ UNCHANGED <<faults, clientVars, netVars, snapshot, clientThreadCount,
                     offlineGenerateFlag, raThread, maskThread, maskStream, enclaveVars,
                     blame>>
  BY DEF LeaveEarly
<1>2. /\ t <= Len(owner) /\ t # 0 /\ Carried(t) /\ Agreement(c)
      /\ conn[c] = t => t \in open
  BY <1>1, ThreadFacts
<1>3. thread'[t] = "leaked" /\ \A s \in Session \ {t} : thread'[s] = thread[s]
  BY <1>1 DEF IInv, TypeOK
<1>4. Carried(t)' BY <1>1, <1>2, <1>3 DEF Carried, netVars
<1>5. Agreement(c)'
  <2>1. CASE conn[c] = t
    <3>1. up[t] # Nothing BY <1>1, <1>2, <2>1
    <3>2. Conversation(c)'
      BY <1>1, <1>2, <1>3, <2>1, <3>1 DEF Agreement, Conversation, Th, Up, Down, Held,
         LoginMessage, ClientStream, CTRBase, clientVars, netVars
    <3>3. ~ InSession(c) /\ ~ InSession(c)'
      BY <1>1, <1>3, <2>1 DEF InSession, Th, clientVars
    <3>4. SameNonce(c)'
      BY <1>1, <1>2, <3>3 DEF Agreement, SameNonce, Known, clientVars, enclaveVars
    <3>5. cpc[c] # "asked"
      BY <1>1, <1>2, <2>1 DEF Agreement, Conversation, Th
    <3> QED BY <1>1, <3>2, <3>3, <3>4, <3>5 DEF Agreement, SameCounter, SameStreams, clientVars
  <2>2. CASE conn[c] # t
    <3>1. conn[c] \in {0} \cup Session BY <1>2 DEF IInv, TypeOK
    <3>2. Bystander(c)
      BY <1>1, <1>3, <2>2, <3>1 DEF Bystander, clientVars, netVars, enclaveVars, Total
    <3> QED BY <1>2, <3>2, BystanderAgrees DEF IInv
  <2> QED BY <2>1, <2>2
<1>6. ServerStep(t)
  <2>1. t \in Counted BY <1>1 DEF Counted
  <2>2. clientThreadCount' = Cardinality(Counted')
    BY <1>1, <2>1, CountedSteps DEF IInv, TypeOK
  <2>3. thread' \in [Session -> {"none", "login", "serve", "keygen", "leaked", "gone"}]
    BY <1>1 DEF IInv, TypeOK
  <2> QED BY <1>1, <1>3, <2>2, <2>3
          DEF ServerStep, IInv, TypeOK, netVars, enclaveVars, Total
<1> QED BY <1>2, <1>4, <1>5, <1>6, ServerStepKeeps

LEMMA LeaveKeeps ==
  ASSUME IInv, NEW t \in Session, NEW c \in Client, c = owner[t], Leave(t)
  PROVE  IInv'
<1>1. /\ thread[t] = "serve" /\ up[t] = Nothing /\ t \notin open
      /\ thread' = [thread EXCEPT ![t] = "gone"]
      /\ clientThreadCount' = clientThreadCount - 1
      /\ offlineGenerateFlag' = TRUE
      /\ UNCHANGED <<clientVars, netVars, snapshot, raThread, maskThread, maskStream,
                     enclaveVars, faults, blame>>
  BY DEF Leave
<1>2. /\ t <= Len(owner) /\ Carried(t) /\ Agreement(c) /\ conn[c] # t
  BY <1>1, ThreadFacts
<1>3. thread'[t] = "gone" /\ \A s \in Session \ {t} : thread'[s] = thread[s]
  BY <1>1 DEF IInv, TypeOK
<1>4. Carried(t)' BY <1>1, <1>2, <1>3 DEF Carried, netVars
<1>5. Agreement(c)'
  <2>1. conn[c] \in {0} \cup Session BY <1>2 DEF IInv, TypeOK
  <2>2. Bystander(c)
    BY <1>1, <1>2, <1>3, <2>1 DEF Bystander, clientVars, netVars, enclaveVars, Total
  <2> QED BY <1>2, <2>2, BystanderAgrees DEF IInv
<1>6. ServerStep(t)
  <2>1. t \in Counted BY <1>1 DEF Counted
  <2>2. clientThreadCount' = Cardinality(Counted')
    BY <1>1, <2>1, CountedSteps DEF IInv, TypeOK
  <2>3. thread' \in [Session -> {"none", "login", "serve", "keygen", "leaked", "gone"}]
    BY <1>1 DEF IInv, TypeOK
  <2> QED BY <1>1, <1>3, <2>2, <2>3
          DEF ServerStep, IInv, TypeOK, netVars, enclaveVars, Total
<1> QED BY <1>2, <1>4, <1>5, <1>6, ServerStepKeeps

(* A login changes no entry's nonce or counter but those of the client     *)
(* whose nonce is taken: folding keeps the total.                          *)
LEMMA LoginListFacts ==
  ASSUME TypeOK, NEW c \in Client, NEW m \in LoginRequest,
         clientList' = LoginList(c, m)
  PROVE  /\ clientList' \in [Client -> Info \cup {Nothing}]
         /\ TakesNonce(c, m) => /\ clientList'[c].nonce = m.nonce /\ Total(c)' = 0
         /\ \A d \in Client :
              d # c \/ ~ TakesNonce(c, m) =>
                /\ clientList'[d] # Nothing => clientList[d] # Nothing
                /\ clientList[d] # Nothing =>
                     /\ clientList'[d].nonce = clientList[d].nonce
                     /\ Total(d)' = Total(d)
                /\ clientList[d].offline = TRUE => clientList'[d].offline = TRUE
<1> DEFINE list == Fold(clientList, c)
           new == NewInfo(m.nonce)
           folded(d) == [clientList[d] EXCEPT
                           !.keyGenerateCounter = @ + clientList[d].currentKeyGenerateCounter,
                           !.currentKeyGenerateCounter = 0]
<1>1. \A d \in Client : clientList[d] \in Info \cup {Nothing} BY DEF TypeOK
<1>2. list = [d \in Client |-> IF clientList[d] = Nothing THEN Nothing ELSE folded(d)]
  BY DEF Fold
<1>3. ASSUME NEW d \in Client, clientList[d] # Nothing
      PROVE  /\ folded(d) \in Info
             /\ folded(d).nonce = clientList[d].nonce
             /\ folded(d).offline = clientList[d].offline
             /\ folded(d).keyGenerateCounter + folded(d).currentKeyGenerateCounter
                  = Total(d)
  <2>1. clientList[d] \in Info BY <1>1, <1>3
  <2>2. /\ clientList[d].nonce \in Nonce /\ clientList[d].offline \in BOOLEAN
        /\ clientList[d].keyGenerateCounter \in Nat
        /\ clientList[d].currentKeyGenerateCounter \in Nat
    BY <2>1 DEF Info
  <2>3. folded(d) = [nonce |-> clientList[d].nonce, keyGenerateCounter |-> Total(d),
                     currentKeyGenerateCounter |-> 0, offline |-> clientList[d].offline]
    <3> DEFINE e == clientList[d]
               a == [e EXCEPT !.keyGenerateCounter = Total(d)]
    <3>1. e \in Info BY <2>1
    <3> HIDE DEF e
    <3>2. a = [nonce |-> e.nonce, keyGenerateCounter |-> Total(d),
               currentKeyGenerateCounter |-> e.currentKeyGenerateCounter, offline |-> e.offline]
      BY <3>1 DEF Info
    <3> HIDE DEF a
    <3>3. folded(d) = [a EXCEPT !.currentKeyGenerateCounter = 0] BY DEF a, e, Total
    <3>4. folded(d) = [nonce |-> e.nonce, keyGenerateCounter |-> Total(d),
                       currentKeyGenerateCounter |-> 0, offline |-> e.offline]
      <4> HIDE DEF folded
      <4> QED BY <3>2, <3>3
    <3> QED BY <3>4 DEF e
  <2>4. Total(d) \in Nat /\ Total(d) + 0 = Total(d) BY <2>2 DEF Total
  <2> HIDE DEF folded
  <2> QED BY <2>2, <2>3, <2>4 DEF Info
<1> HIDE DEF folded
<1>4. m.nonce \in Nonce BY DEF LoginRequest
<1>5. /\ new \in Info /\ new.nonce = m.nonce
      /\ new.keyGenerateCounter + new.currentKeyGenerateCounter = 0
  BY <1>4 DEF NewInfo, Info
<1> HIDE DEF new
<1>6. clientList' = IF TakesNonce(c, m) THEN [list EXCEPT ![c] = new] ELSE list
  BY DEF LoginList, new
<1>7. \A d \in Client :
        clientList'[d] = IF TakesNonce(c, m) /\ d = c THEN new
                         ELSE IF clientList[d] = Nothing THEN Nothing ELSE folded(d)
  BY <1>2, <1>6
<1>8. DOMAIN clientList' = Client /\ clientList' = [d \in Client |-> clientList'[d]]
  BY <1>2, <1>6
<1>9. clientList' \in [Client -> Info \cup {Nothing}]
  <2>1. \A d \in Client : clientList'[d] \in Info \cup {Nothing} BY <1>3, <1>5, <1>7
  <2> QED BY <1>8, <2>1
<1>10. TakesNonce(c, m) => /\ clientList'[c].nonce = m.nonce /\ Total(c)' = 0
  BY <1>5, <1>7 DEF Total
<1>11. ASSUME NEW d \in Client, d # c \/ ~ TakesNonce(c, m)
       PROVE  /\ clientList'[d] # Nothing => clientList[d] # Nothing
              /\ clientList[d] # Nothing =>
                   /\ clientList'[d].nonce = clientList[d].nonce
                   /\ Total(d)' = Total(d)
              /\ clientList[d].offline = TRUE => clientList'[d].offline = TRUE
  <2>1. clientList'[d] = IF clientList[d] = Nothing THEN Nothing ELSE folded(d)
    BY <1>7, <1>11
  <2>2. Total(d)' = clientList'[d].keyGenerateCounter + clientList'[d].currentKeyGenerateCounter
    BY DEF Total
  <2> QED BY <1>3, <2>1, <2>2
<1> QED BY <1>9, <1>10, <1>11

LEMMA LoginStepKeeps ==
  ASSUME IInv, NEW t \in Session, NEW c \in Client, c = owner[t], LoginStep(t)
  PROVE  IInv'
<1> DEFINE m == up[t]
           answer == LoginAnswer(c, m)
           more == {x \in {"lostNonce", "overtaken"} :
                      \/ x = "lostNonce" /\ \/ conn[c] = t /\ answer = "SUCCESS" /\ m.drawn
                                            \/ conn[c] # t /\ TakesNonce(c, m)
                      \/ x = "overtaken" /\ Overtakes(t)}
           next == IF answer \in {"SUCCESS", "CLIENT_COUNTER_REST"} THEN "serve" ELSE "login"
<1>1. /\ thread[t] = "login" /\ m # Nothing
      /\ clientList' = LoginList(c, m)
      /\ up' = [up EXCEPT ![t] = Nothing]
      /\ down' = IF t \in open THEN [down EXCEPT ![t] = [kind |-> answer]] ELSE down
      /\ thread' = [thread EXCEPT ![t] = next]
      /\ blame' = [blame EXCEPT ![c] = IF conn[c] = t /\ TakesNonce(c, m) THEN {}
                                       ELSE blame[c] \cup more]
      /\ UNCHANGED <<faults, clientVars, owner, open, snapshot, clientThreadCount,
                     offlineGenerateFlag, raThread, maskThread, maskStream, trusted,
                     sessionKey, masks>>
  BY DEF LoginStep
<1>2. /\ t <= Len(owner) /\ t # 0 /\ Carried(t) /\ Agreement(c)
      /\ conn[c] = t => t \in open
  BY <1>1, ThreadFacts
<1>3. /\ thread \in [Session -> {"none", "login", "serve", "keygen", "leaked", "gone"}]
      /\ up \in [Session -> LoginRequest \cup KeyRequest \cup {Nothing}]
      /\ down \in [Session -> LoginReply \cup KeyReply \cup {NoKeys, Nothing}]
      /\ snapshot \in [Session -> Snapshot \cup {Nothing}]
      /\ blame \in [Client -> SUBSET Cause]
      /\ clientThreadCount = Cardinality(Counted) /\ offlineGenerateFlag \in BOOLEAN
      /\ TypeOK
  BY DEF IInv, TypeOK
<1>4. m \in LoginRequest BY <1>1, <1>2 DEF Carried
<1>5. answer \in {"SUCCESS", "CLIENT_COUNTER_REST", "NONCE_HAS_USED", "ERROR_RESEND"}
  BY DEF LoginAnswer
<1>6. more \subseteq {"lostNonce", "overtaken"} /\ more \in SUBSET Cause BY DEF Cause
<1>7. /\ clientList' \in [Client -> Info \cup {Nothing}]
      /\ TakesNonce(c, m) => /\ clientList'[c].nonce = m.nonce /\ Total(c)' = 0
      /\ \A d \in Client :
           d # c \/ ~ TakesNonce(c, m) =>
             /\ clientList'[d] # Nothing => clientList[d] # Nothing
             /\ clientList[d] # Nothing =>
                  /\ clientList'[d].nonce = clientList[d].nonce
                  /\ Total(d)' = Total(d)
             /\ clientList[d].offline = TRUE => clientList'[d].offline = TRUE
  BY <1>1, <1>3, <1>4, LoginListFacts
<1>8. next \in {"serve", "login"} OBVIOUS
<1> HIDE DEF m, answer, next
<1>9. /\ thread'[t] = next /\ up'[t] = Nothing
      /\ down'[t] = IF t \in open THEN [kind |-> answer] ELSE down[t]
      /\ blame'[c] = IF conn[c] = t /\ TakesNonce(c, m) THEN {} ELSE blame[c] \cup more
      /\ \A s \in Session \ {t} : thread'[s] = thread[s] /\ up'[s] = up[s] /\ down'[s] = down[s]
      /\ \A d \in Client \ {c} : blame'[d] = blame[d]
      /\ snapshot' = snapshot
  BY <1>1, <1>3
<1> HIDE DEF more
<1>10. Carried(t)'
  BY <1>1, <1>2, <1>8, <1>9 DEF Carried
<1>11. ServerStep(t)
  <2>1. t \in Counted BY <1>1 DEF Counted
  <2>2. clientThreadCount' = Cardinality(Counted')
    BY <1>1, <1>3, <1>8, <2>1, CountedSteps
  <2>3. [kind |-> answer] \in LoginReply BY <1>5 DEF LoginReply
  <2>4. /\ thread' \in [Session -> {"none", "login", "serve", "keygen", "leaked", "gone"}]
        /\ up' \in [Session -> LoginRequest \cup KeyRequest \cup {Nothing}]
    BY <1>1, <1>3, <1>8
  <2>5. down' \in [Session -> LoginReply \cup KeyReply \cup {NoKeys, Nothing}]
    BY <1>1, <1>3, <2>3
  <2>6. blame' \in [Client -> SUBSET Cause] BY <1>1, <1>3, <1>6
  <2>7. offlineGenerateFlag' \in BOOLEAN BY <1>1, <1>3
  <2>8. snapshot' \in [Session -> Snapshot \cup {Nothing}] BY <1>1, <1>3
  <2> QED BY <1>1, <1>7, <1>9, <2>2, <2>4, <2>5, <2>6, <2>7, <2>8 DEF ServerStep
<1>12. Agreement(c)'
  <2>1. CASE conn[c] = t
    <3>1. /\ cpc[c] = "login" /\ m = LoginMessage(c, nonce[c], counter[c], drawn[c])
          /\ asked[c] = 0 /\ nonce[c] \in Nonce /\ t \in open
      <4>1. Conversation(c) /\ t \in open BY <1>2, <2>1 DEF Agreement
      <4>2. cpc[c] = "login"
        <5>1. cpc[c] \in {"off", "init", "login", "ready", "asked", "stuck"} BY <1>3 DEF TypeOK
        <5>2. cpc[c] # "off" BY <1>2, <2>1 DEF IInv, Linked
        <5> QED BY <1>1, <2>1, <4>1, <5>1, <5>2 DEF Conversation, Th, Up, m
      <4>3. m = LoginMessage(c, nonce[c], counter[c], drawn[c])
        BY <1>1, <2>1, <4>1, <4>2 DEF Conversation, Th, Up, m
      <4> QED BY <4>1, <4>2, <4>3 DEF Conversation
    <3>2. m.nonce = nonce[c] /\ m.counter = counter[c] /\ m.drawn = drawn[c]
      BY <3>1 DEF LoginMessage
    <3>3. /\ conn'[c] = t /\ cpc'[c] = "login" /\ asked'[c] = 0 /\ nonce'[c] = nonce[c]
          /\ counter'[c] = counter[c] /\ drawn'[c] = drawn[c] /\ store'[c] = store[c]
      BY <1>1, <2>1, <3>1 DEF clientVars
    <3>4. down'[t] = [kind |-> answer] /\ down'[t] \in LoginReply /\ down'[t].kind = answer
      BY <1>5, <1>9, <3>1 DEF LoginReply
    <3>5. Conversation(c)'
      BY <1>9, <3>1, <3>3, <3>4 DEF Conversation, Th, Up, Down, next
    <3>6. /\ ~ InSession(c)
          /\ InSession(c)' <=> answer \in {"SUCCESS", "CLIENT_COUNTER_REST"}
      BY <1>1, <1>2, <1>9, <2>1, <3>3 DEF InSession, Th, next
    <3>7. /\ ~ TakesNonce(c, m) /\ answer \in {"SUCCESS", "CLIENT_COUNTER_REST"} =>
               answer = "SUCCESS" /\ c \in Known
          /\ answer = "SUCCESS" /\ c \in Known => Total(c) = m.counter
          /\ answer = "SUCCESS" /\ c \notin Known => m.counter = 0 /\ TakesNonce(c, m)
          /\ TakesNonce(c, m) => answer \in {"SUCCESS", "CLIENT_COUNTER_REST"}
          /\ answer = "CLIENT_COUNTER_REST" => TakesNonce(c, m)
          /\ answer = "SUCCESS" /\ TakesNonce(c, m) => c \notin Known
      BY DEF answer, TakesNonce, LoginAnswer
    <3>8. c \in Known' /\ ~ TakesNonce(c, m) =>
            c \in Known /\ clientList'[c].nonce = clientList[c].nonce /\ Total(c)' = Total(c)
      BY <1>7 DEF Known
    <3>9. ~ TakesNonce(c, m) /\ "lostNonce" \notin blame'[c] =>
            "lostNonce" \notin blame[c] /\ (answer = "SUCCESS" => ~ drawn[c])
      <4> SUFFICES ASSUME ~ TakesNonce(c, m), "lostNonce" \notin blame'[c]
                   PROVE  "lostNonce" \notin blame[c] /\ (answer = "SUCCESS" => ~ drawn[c])
        OBVIOUS
      <4>1. blame'[c] = blame[c] \cup more BY <1>9
      <4>2. answer = "SUCCESS" /\ m.drawn => "lostNonce" \in more BY <2>1 DEF more
      <4> QED BY <3>2, <4>1, <4>2
    <3>10. SameNonce(c)'
      <4>1. SameNonce(c) BY <1>2 DEF Agreement
      <4>2. cpc'[c] = "login" /\ ~ drawn'[c] => store'[c] # Nothing /\ nonce'[c] = store'[c].nonce
        BY <3>1, <3>3, <4>1 DEF SameNonce
      <4>3. ASSUME c \in Known', "lostNonce" \notin blame'[c], InSession(c)'
            PROVE  clientList'[c].nonce = nonce'[c]
        <5>1. CASE TakesNonce(c, m) BY <1>7, <3>2, <3>3, <5>1
        <5>2. CASE ~ TakesNonce(c, m)
          <6>1. /\ c \in Known /\ "lostNonce" \notin blame[c] /\ ~ drawn[c]
                /\ clientList'[c].nonce = clientList[c].nonce
            BY <3>6, <3>7, <3>8, <3>9, <4>3, <5>2
          <6>2. store[c] # Nothing /\ nonce[c] = store[c].nonce
            BY <3>1, <4>1, <6>1 DEF SameNonce
          <6>3. clientList[c].nonce = store[c].nonce
            BY <3>6, <4>1, <6>1, <6>2 DEF SameNonce
          <6> QED BY <3>3, <6>1, <6>2, <6>3
        <5> QED BY <5>1, <5>2
      <4>4. ASSUME c \in Known', "lostNonce" \notin blame'[c], ~ InSession(c)', store'[c] # Nothing
            PROVE  clientList'[c].nonce = store'[c].nonce
        <5>1. ~ TakesNonce(c, m) BY <3>6, <3>7, <4>4
        <5>2. /\ c \in Known /\ "lostNonce" \notin blame[c]
              /\ clientList'[c].nonce = clientList[c].nonce
          BY <3>8, <3>9, <4>4, <5>1
        <5> QED BY <3>3, <3>6, <4>1, <4>4, <5>2 DEF SameNonce
      <4> QED BY <4>2, <4>3, <4>4 DEF SameNonce
    <3>11. SameCounter(c)'
      <4> SUFFICES ASSUME c \in Known', InSession(c)'
                   PROVE  Total(c)' = IF answer = "SUCCESS" THEN counter[c] ELSE 0
        BY <3>3, <3>4 DEF SameCounter, Down
      <4> QED BY <1>7, <3>2, <3>6, <3>7, <3>8
    <3> QED BY <3>3, <3>5, <3>10, <3>11 DEF Agreement, SameStreams
  <2>2. CASE conn[c] # t
    <3>1. conn[c] \in {0} \cup Session BY <1>3 DEF TypeOK
    <3>2. blame'[c] = blame[c] \cup more BY <1>9, <2>2
    <3>3. TakesNonce(c, m) => "lostNonce" \in more BY <2>2 DEF more
    <3>4. InSession(c) => "overtaken" \in more
      BY <2>2 DEF more, Overtakes, InSession, Th
    <3>5. Bystander(c)
      BY <1>1, <1>7, <1>9, <2>2, <3>1, <3>2, <3>3, <3>4 DEF Bystander, clientVars
    <3> QED BY <1>2, <3>5, BystanderAgrees DEF IInv
  <2> QED BY <2>1, <2>2
<1> QED BY <1>2, <1>10, <1>11, <1>12, ServerStepKeeps

(* With masks that fit, in offline mode and out of it, a request is        *)
(* unmasked with the stream of the entry's own counter, and the local      *)
(* variables lead to that of the reply.                                    *)
LEMMA StreamsOfCounter ==
  ASSUME TypeOK, NEW c \in Client, c \in Known, NEW n \in Batch,
         RequestOffline(c, n) => MasksFit(c)
  PROVE  /\ RequestStream(c, n) = CTRBase(sessionKey, clientList[c].nonce, Total(c))
         /\ \/ LocalMask(c, n)
                 = CTRBase(sessionKey, clientList[c].nonce, Total(c) + 2 * n)
            \/ /\ clientList[c].offline = TRUE
               /\ clientList[c].currentKeyGenerateCounter + 4 * n < MaskCap
<1> DEFINE x == clientList[c].nonce
           k == clientList[c].keyGenerateCounter
           e == clientList[c].currentKeyGenerateCounter
<1>1. /\ k \in Nat /\ e \in Nat /\ sessionKey \in Key /\ sessionKey # Nothing
      /\ clientList[c].offline \in BOOLEAN
  BY EntryType, KeyServiceAssumption DEF TypeOK, Info
<1>2. Total(c) = k + e BY DEF Total
<1>3. MasksFit(c) => masks = [key |-> sessionKey, nonce |-> x, at |-> k]
  BY DEF MasksFit, CTRBase
<1>4. MasksFit(c) => Shift(masks, e) = CTRBase(sessionKey, x, k + e)
  BY <1>1, <1>3 DEF Shift, CTRBase
<1>5. RequestStream(c, n) = CTRBase(sessionKey, x, Total(c))
  BY <1>2, <1>4 DEF RequestStream
<1>6. RequestOffline(c, n) => clientList[c].offline = TRUE /\ e + 4 * n < MaskCap
  BY <1>1 DEF RequestOffline
<1> QED BY <1>5, <1>6 DEF LocalMask

(* Whatever the masks are, a stream is one or junk.                        *)
LEMMA ShiftType ==
  ASSUME TypeOK, NEW d \in Nat PROVE Shift(masks, d) \in StreamOrJunk
<1>1. masks \in Stream \cup {Junk} BY DEF TypeOK, StreamOrJunk
<1>2. CASE masks.key = Nothing BY <1>1, <1>2 DEF Shift, StreamOrJunk
<1>3. CASE masks.key # Nothing
  <2>1. masks \in Stream BY <1>1, <1>3 DEF Junk
  <2>2. [masks EXCEPT !.at = @ + d] \in Stream BY <2>1 DEF Stream
  <2> QED BY <1>3, <2>2 DEF Shift, StreamOrJunk
<1> QED BY <1>2, <1>3

LEMMA StreamType ==
  ASSUME TypeOK, NEW c \in Client, c \in Known, NEW n \in Batch
  PROVE  RequestStream(c, n) \in StreamOrJunk /\ LocalMask(c, n) \in StreamOrJunk
<1>1. /\ clientList[c].nonce \in Nonce /\ Total(c) \in Nat /\ n \in Nat
      /\ clientList[c].currentKeyGenerateCounter \in Nat
      /\ sessionKey \in Key
  BY EntryType, Constants DEF TypeOK, StreamOrJunk
<1>2. \A d \in Nat : CTRBase(sessionKey, clientList[c].nonce, d) \in StreamOrJunk
  BY <1>1 DEF CTRBase, StreamOrJunk, Stream
<1>3. Total(c) + 2 * n \in Nat /\ Junk \in StreamOrJunk BY <1>1 DEF StreamOrJunk
<1>4. RequestStream(c, n) \in StreamOrJunk BY <1>1, <1>2, ShiftType DEF RequestStream
<1>5. LocalMask(c, n) \in StreamOrJunk BY <1>2, <1>3 DEF LocalMask
<1> QED BY <1>4, <1>5

LEMMA KeygenStartKeeps ==
  ASSUME IInv, NEW t \in Session, NEW c \in Client, c = owner[t], KeygenStart(t)
  PROVE  IInv'
<1> DEFINE m == up[t]
           ok == trusted /\ m.key = sessionKey /\ c \in Known
           base == CTRBase(sessionKey, clientList[c].nonce,
                           clientList[c].keyGenerateCounter)
           s == IF ok THEN [n |-> m.n, under |-> m.under, unmask |-> RequestStream(c, m.n),
                            base |-> base, at |-> clientList[c].currentKeyGenerateCounter,
                            mask |-> LocalMask(c, m.n), masked |-> FALSE]
                ELSE Nothing
           more == {x \in {"staleMasks"} : ok /\ RequestOffline(c, m.n) /\ ~ MasksFit(c)}
           left == IF conn[c] # t THEN blame[c]
                   ELSE (blame[c] \ {"staleMasks", "endOfMasks"}) \cup more
<1>1. /\ thread[t] = "serve" /\ m # Nothing
      /\ up' = [up EXCEPT ![t] = Nothing]
      /\ thread' = [thread EXCEPT ![t] = "keygen"]
      /\ snapshot' = [snapshot EXCEPT ![t] = s]
      /\ UNCHANGED <<faults, clientVars, owner, open, down, clientThreadCount,
                     offlineGenerateFlag, raThread, maskThread, maskStream, enclaveVars>>
  BY DEF KeygenStart
<1>2. blame' = [blame EXCEPT ![c] = left]
  <2>1. CASE conn[c] # t
    <3>1. blame' = blame BY <2>1 DEF KeygenStart
    <3>2. blame \in [Client -> SUBSET Cause] BY DEF IInv, TypeOK
    <3> QED BY <2>1, <3>1, <3>2
  <2>2. CASE conn[c] = t BY <2>2 DEF KeygenStart
  <2> QED BY <2>1, <2>2
<1>3. /\ t <= Len(owner) /\ t # 0 /\ Carried(t) /\ Agreement(c)
      /\ conn[c] = t => t \in open
  BY <1>1, ThreadFacts
<1>4. /\ thread \in [Session -> {"none", "login", "serve", "keygen", "leaked", "gone"}]
      /\ up \in [Session -> LoginRequest \cup KeyRequest \cup {Nothing}]
      /\ down \in [Session -> LoginReply \cup KeyReply \cup {NoKeys, Nothing}]
      /\ snapshot \in [Session -> Snapshot \cup {Nothing}]
      /\ blame \in [Client -> SUBSET Cause]
      /\ clientThreadCount = Cardinality(Counted) /\ offlineGenerateFlag \in BOOLEAN
      /\ clientList \in [Client -> Info \cup {Nothing}]
      /\ TypeOK
  BY DEF IInv, TypeOK
<1>5. m \in KeyRequest BY <1>1, <1>3 DEF Carried
<1>6. m.n \in Batch /\ m.under \in Stream /\ m.key \in Key BY <1>5 DEF KeyRequest
<1>7. s \in Snapshot \cup {Nothing}
  <2>1. CASE ok
    <3>1. RequestStream(c, m.n) \in StreamOrJunk /\ LocalMask(c, m.n) \in StreamOrJunk
      BY <1>4, <1>6, <2>1, StreamType
    <3>2. /\ clientList[c].nonce \in Nonce /\ sessionKey \in Key
          /\ clientList[c].keyGenerateCounter \in Nat
          /\ clientList[c].currentKeyGenerateCounter \in Nat
      BY <1>4, <2>1, EntryType DEF TypeOK
    <3>3. base \in Stream BY <3>2 DEF CTRBase, Stream
    <3> HIDE DEF base
    <3> QED BY <1>6, <2>1, <3>1, <3>2, <3>3 DEF Snapshot
  <2>2. CASE ~ ok BY <2>2
  <2> QED BY <2>1, <2>2
<1>8. s # Nothing => /\ ok /\ s.n = m.n /\ s.under = m.under
                     /\ s.unmask = RequestStream(c, m.n) /\ s.mask = LocalMask(c, m.n)
                     /\ s.base = base /\ s.masked = FALSE
                     /\ s.at = clientList[c].currentKeyGenerateCounter
  OBVIOUS
<1>9. left \in SUBSET Cause BY <1>4 DEF Cause
<1>10. /\ conn[c] # t => left = blame[c]
       /\ blame[c] \cap {"lostNonce", "overtaken"} \subseteq left
       /\ left = {} /\ conn[c] = t /\ ok /\ RequestOffline(c, m.n) => MasksFit(c)
  OBVIOUS
<1> HIDE DEF m, s, left, more
<1>11. /\ thread'[t] = "keygen" /\ up'[t] = Nothing /\ snapshot'[t] = s /\ down' = down
       /\ blame'[c] = left
       /\ \A r \in Session \ {t} : /\ thread'[r] = thread[r] /\ up'[r] = up[r]
                                   /\ snapshot'[r] = snapshot[r]
       /\ \A d \in Client \ {c} : blame'[d] = blame[d]
  BY <1>1, <1>2, <1>4
<1>12. Carried(t)' BY <1>1, <1>3, <1>11 DEF Carried
<1>13. ServerStep(t)
  <2>1. t \in Counted BY <1>1 DEF Counted
  <2>2. clientThreadCount' = Cardinality(Counted') BY <1>1, <1>4, <2>1, CountedSteps
  <2>3. /\ thread' \in [Session -> {"none", "login", "serve", "keygen", "leaked", "gone"}]
        /\ up' \in [Session -> LoginRequest \cup KeyRequest \cup {Nothing}]
    BY <1>1, <1>4
  <2>4. snapshot' \in [Session -> Snapshot \cup {Nothing}] BY <1>1, <1>4, <1>7
  <2>5. blame' \in [Client -> SUBSET Cause] BY <1>2, <1>4, <1>9
  <2>6. clientList' = clientList /\ \A d \in Client : Total(d)' = Total(d)
    BY <1>1 DEF enclaveVars, Total
  <2>7. /\ clientList' \in [Client -> Info \cup {Nothing}]
        /\ down' \in [Session -> LoginReply \cup KeyReply \cup {NoKeys, Nothing}]
        /\ offlineGenerateFlag' \in BOOLEAN
    BY <1>1, <1>4, <2>6
  <2> QED BY <1>1, <1>11, <2>2, <2>3, <2>4, <2>5, <2>6, <2>7 DEF ServerStep, enclaveVars
<1>14. Agreement(c)'
  <2>1. CASE conn[c] = t
    <3>1. Conversation(c) /\ SameNonce(c) /\ SameCounter(c) BY <1>3 DEF Agreement
    <3>2. cpc[c] = "asked"
      <4>1. cpc[c] \in {"off", "init", "login", "ready", "asked", "stuck"} BY <1>4 DEF TypeOK
      <4>2. cpc[c] # "off" BY <1>3, <2>1 DEF IInv, Linked
      <4> QED BY <1>1, <2>1, <3>1, <4>1, <4>2 DEF Conversation, Th, Up, m, LoginMessage
    <3>3. /\ asked[c] \in Batch /\ down[t] = Nothing /\ nonce[c] \in Nonce
          /\ m = [kind |-> "hashes", key |-> clientKey[c], n |-> asked[c],
                  under |-> ClientStream(c, 0)]
      BY <1>1, <2>1, <3>1, <3>2 DEF Conversation, Th, Up, Down, m
    <3>4. m.n = asked[c] /\ m.under = ClientStream(c, 0) /\ m.key = clientKey[c] BY <3>3
    <3>5. /\ conn'[c] = t /\ cpc'[c] = "asked" /\ asked'[c] = asked[c] /\ nonce'[c] = nonce[c]
          /\ counter'[c] = counter[c] /\ clientKey'[c] = clientKey[c] /\ store'[c] = store[c]
          /\ clientList' = clientList
      BY <1>1, <2>1, <3>2 DEF clientVars, enclaveVars
    <3>6. \A d : ClientStream(c, d)' = ClientStream(c, d) BY <3>5 DEF ClientStream, CTRBase
    <3>7. InSession(c) /\ InSession(c)' BY <1>1, <1>3, <1>11, <2>1, <3>5 DEF InSession, Th
    <3>8. Conversation(c)'
      BY <1>8, <1>11, <3>3, <3>4, <3>5, <3>6 DEF Conversation, Th, Up, Down, Held
    <3>9. SameNonce(c)' BY <1>10, <1>11, <3>1, <3>2, <3>5, <3>7 DEF SameNonce, Known
    <3>10. SameCounter(c)'
      <4>1. Total(c)' = Total(c) BY <3>5 DEF Total
      <4> QED BY <1>10, <1>11, <2>1, <3>1, <3>2, <3>3, <3>5, <3>7, <4>1
              DEF SameCounter, Known, Down
    <3>11. SameStreams(c)'
      <4>1. ~ Verified(c)' BY <1>11, <3>3, <3>5 DEF Verified
      <4>2. ASSUME left = {}, s # Nothing
            PROVE  /\ s.unmask = ClientStream(c, 0)
                   /\ Ahead(s, 2 * asked[c]) = ClientStream(c, 2 * asked[c])
                   /\ \/ s.mask = ClientStream(c, 2 * asked[c])
                      \/ clientList[c].offline = TRUE /\ s.at + 4 * s.n < MaskCap
        <5>1. ok BY <1>8, <4>2
        <5>2. blame[c] \cap {"lostNonce", "overtaken"} = {} BY <1>10, <4>2
        <5>3. nonce[c] = clientList[c].nonce
          BY <3>1, <3>7, <5>1, <5>2 DEF SameNonce
        <5>4. Total(c) = counter[c]
          BY <2>1, <3>1, <3>2, <3>3, <3>7, <5>1, <5>2 DEF SameCounter, Down
        <5>5. /\ s.unmask = CTRBase(sessionKey, clientList[c].nonce, Total(c))
              /\ \/ s.mask = CTRBase(sessionKey, clientList[c].nonce, Total(c) + 2 * m.n)
                 \/ clientList[c].offline = TRUE /\ s.at + 4 * m.n < MaskCap
          BY <1>4, <1>6, <1>8, <1>10, <2>1, <4>2, <5>1, StreamsOfCounter
        <5>6. counter[c] + 0 = counter[c] BY <1>4 DEF TypeOK
        <5>7. s.base.key = sessionKey /\ s.base.nonce = clientList[c].nonce
              /\ s.base.at + s.at = Total(c)
          BY <1>8, <4>2 DEF CTRBase, Total
        <5>8. Ahead(s, 2 * asked[c]) = ClientStream(c, 2 * asked[c])
          BY <3>4, <5>1, <5>3, <5>4, <5>7 DEF Ahead, ClientStream
        <5> QED BY <1>8, <3>4, <4>2, <5>1, <5>3, <5>4, <5>5, <5>6, <5>8 DEF ClientStream
      <4>3. Held(c)' = s /\ (s # Nothing => s.masked = FALSE)
        BY <1>8, <1>11, <3>5 DEF Held
      <4>4. Ahead(Held(c), 2 * asked[c])' = Ahead(s, 2 * asked[c])
        BY <3>5, <4>3 DEF Ahead, CTRBase
      <4>5. left = {} /\ s # Nothing =>
              /\ s.unmask = ClientStream(c, 0)'
              /\ s.masked = FALSE
              /\ Ahead(Held(c), 2 * asked[c])' = ClientStream(c, 2 * asked[c])'
              /\ \/ s.mask = ClientStream(c, 2 * asked[c])'
                 \/ clientList'[c].offline = TRUE /\ s.at + 4 * s.n < MaskCap
        BY <3>5, <3>6, <4>2, <4>3, <4>4
      <4>6. Held(c)' = s BY <4>3
      <4> HIDE DEF Ahead, ClientStream, Held
      <4> QED BY <1>11, <4>1, <4>5, <4>6 DEF SameStreams
    <3> QED BY <3>8, <3>9, <3>10, <3>11 DEF Agreement
  <2>2. CASE conn[c] # t
    <3>1. conn[c] \in {0} \cup Session BY <1>4 DEF TypeOK
    <3>2. Bystander(c)
      BY <1>1, <1>10, <1>11, <2>2, <3>1 DEF Bystander, clientVars, enclaveVars, Total
    <3> QED BY <1>3, <3>2, BystanderAgrees DEF IInv
  <2> QED BY <2>1, <2>2
<1> QED BY <1>3, <1>12, <1>13, <1>14, ServerStepKeeps

(* The keys are masked: with the stream left in mask[], or with the masks  *)
(* that must still be those of the request.                                *)
LEMMA KeygenMaskKeeps ==
  ASSUME IInv, NEW t \in Session, NEW c \in Client, c = owner[t], KeygenMask(t)
  PROVE  IInv'
<1> DEFINE s == snapshot[t]
           offline == ReplyOffline(c, s)
           mask == IF ~ offline THEN s.mask
                   ELSE IF PastMasks(s) THEN Junk ELSE Shift(masks, s.at + 2 * s.n)
           new == [s EXCEPT !.masked = TRUE, !.mask = mask]
           more == {x \in {"staleMasks", "endOfMasks"} :
                      \/ x = "staleMasks" /\ offline /\ masks # s.base
                      \/ x = "endOfMasks" /\ offline /\ PastMasks(s)}
           left == IF conn[c] # t THEN blame[c] ELSE blame[c] \cup more
<1>1. /\ thread[t] = "keygen" /\ s # Nothing /\ ~ s.masked
      /\ UNCHANGED <<faults, clientVars, netVars, thread, clientThreadCount,
                     offlineGenerateFlag, raThread, maskThread, maskStream, enclaveVars>>
  BY DEF KeygenMask
<1>2. /\ snapshot \in [Session -> Snapshot \cup {Nothing}]
      /\ blame \in [Client -> SUBSET Cause]
      /\ clientThreadCount = Cardinality(Counted) /\ TypeOK
  BY DEF IInv, TypeOK
<1>3. /\ t <= Len(owner) /\ t # 0 /\ Carried(t) /\ Agreement(c)
  BY <1>1, ThreadFacts
<1>4. /\ s \in Snapshot /\ s.n \in Batch /\ s.n \in Nat /\ s.at \in Nat
      /\ s.mask \in StreamOrJunk /\ s.base \in Stream
  BY <1>1, <1>2, Constants DEF Snapshot
<1>5. snapshot' = [snapshot EXCEPT ![t] = new] BY DEF KeygenMask
<1>6. blame' = [blame EXCEPT ![c] = left]
  <2>1. CASE conn[c] # t
    <3>1. blame' = blame BY <2>1 DEF KeygenMask
    <3> QED BY <2>1, <3>1, <1>2
  <2>2. CASE conn[c] = t BY <2>2 DEF KeygenMask
  <2> QED BY <2>1, <2>2
<1>7. left \in SUBSET Cause /\ blame[c] \subseteq left BY <1>2 DEF Cause
<1>8. left = {} /\ conn[c] = t /\ offline => masks = s.base /\ ~ PastMasks(s) OBVIOUS
<1>9. mask \in StreamOrJunk
  <2>1. s.at + 2 * s.n \in Nat BY <1>4
  <2>2. Shift(masks, s.at + 2 * s.n) \in StreamOrJunk BY <1>2, <2>1, ShiftType
  <2> QED BY <1>4, <2>2 DEF StreamOrJunk
<1>10. /\ offline /\ ~ PastMasks(s) => mask = Shift(masks, s.at + 2 * s.n)
       /\ ~ offline => mask = s.mask
       /\ offline <=> clientList[c].offline = TRUE /\ s.at + 2 * s.n < MaskCap
  <2>1. CASE clientList[c] # Nothing
    <3>1. clientList[c].offline \in BOOLEAN BY <1>2, <2>1 DEF TypeOK, Info
    <3> QED BY <3>1 DEF ReplyOffline
  <2>2. CASE clientList[c] = Nothing BY <2>2 DEF ReplyOffline
  <2> QED BY <2>1, <2>2
<1> HIDE DEF offline, mask, more, left
<1>11. /\ new \in Snapshot /\ new # Nothing /\ new.n = s.n /\ new.under = s.under
       /\ new.unmask = s.unmask /\ new.masked = TRUE /\ new.mask = mask
  <2> HIDE DEF s
  <2> QED BY <1>4, <1>9, KeyServiceAssumption DEF Snapshot
<1> HIDE DEF new
<1>12. /\ snapshot'[t] = new /\ blame'[c] = left
       /\ \A r \in Session \ {t} : snapshot'[r] = snapshot[r]
       /\ \A d \in Client \ {c} : blame'[d] = blame[d]
       /\ thread' = thread /\ up' = up /\ down' = down
  BY <1>1, <1>2, <1>5, <1>6 DEF netVars
<1>13. Carried(t)' BY <1>1, <1>3, <1>12 DEF Carried, netVars
<1>14. ServerStep(t)
  <2>1. Counted' = Counted BY <1>12 DEF Counted
  <2>2. snapshot' \in [Session -> Snapshot \cup {Nothing}] BY <1>2, <1>5, <1>11
  <2>3. blame' \in [Client -> SUBSET Cause] BY <1>2, <1>6, <1>7
  <2> QED BY <1>1, <1>2, <1>12, <2>1, <2>2, <2>3
          DEF ServerStep, TypeOK, netVars, enclaveVars, Total
<1>15. Agreement(c)'
  <2>1. CASE conn[c] = t
    <3>1. /\ Conversation(c) /\ SameNonce(c) /\ SameCounter(c) /\ SameStreams(c)
      BY <1>3 DEF Agreement
    <3>2. cpc[c] = "asked"
      <4>1. cpc[c] \in {"off", "init", "login", "ready", "asked", "stuck"} BY <1>2 DEF TypeOK
      <4>2. cpc[c] # "off" BY <1>3, <2>1 DEF IInv, Linked
      <4> QED BY <1>1, <2>1, <3>1, <4>1, <4>2 DEF Conversation, Th
    <3>3. /\ asked[c] \in Batch /\ down[t] = Nothing /\ up[t] = Nothing /\ nonce[c] \in Nonce
          /\ s.n = asked[c] /\ s.under = ClientStream(c, 0)
      BY <1>1, <2>1, <3>1, <3>2 DEF Conversation, Th, Up, Down, Held
    <3>4. /\ conn'[c] = t /\ cpc'[c] = "asked" /\ asked'[c] = asked[c] /\ nonce'[c] = nonce[c]
          /\ counter'[c] = counter[c] /\ clientKey'[c] = clientKey[c] /\ store'[c] = store[c]
          /\ clientList' = clientList
      BY <1>1, <2>1, <3>2 DEF clientVars, enclaveVars
    <3>5. \A d : ClientStream(c, d)' = ClientStream(c, d) BY <3>4 DEF ClientStream, CTRBase
    <3>6. InSession(c) /\ InSession(c)' BY <1>1, <1>3, <1>12, <2>1, <3>4 DEF InSession, Th
    <3>7. Conversation(c)'
      BY <1>1, <1>11, <1>12, <3>3, <3>4, <3>5 DEF Conversation, Th, Up, Down, Held
    <3>8. SameNonce(c)' BY <1>7, <1>12, <3>1, <3>2, <3>4, <3>6 DEF SameNonce, Known
    <3>9. SameCounter(c)'
      <4>1. Total(c)' = Total(c) BY <3>4 DEF Total
      <4> QED BY <1>7, <1>12, <2>1, <3>1, <3>2, <3>3, <3>4, <3>6, <4>1
              DEF SameCounter, Known, Down
    <3>10. ASSUME left = {}
           PROVE  new.unmask = ClientStream(c, 0) /\ new.mask = ClientStream(c, 2 * asked[c])
      <4>1. /\ s.unmask = ClientStream(c, 0)
            /\ Ahead(s, 2 * asked[c]) = ClientStream(c, 2 * asked[c])
            /\ \/ s.mask = ClientStream(c, 2 * asked[c])
               \/ clientList[c].offline = TRUE /\ s.at + 4 * s.n < MaskCap
        BY <1>1, <1>7, <2>1, <3>1, <3>2, <3>10 DEF SameStreams, Held
      <4>2. CASE offline
        <5>1. masks = s.base /\ mask = Shift(masks, s.at + 2 * s.n)
          BY <1>8, <1>10, <2>1, <3>10, <4>2
        <5>2. s.base.key # Nothing /\ s.base.at \in Nat
              /\ s.base = [key |-> s.base.key, nonce |-> s.base.nonce, at |-> s.base.at]
          BY <1>4, KeyServiceAssumption DEF Stream
        <5>3. mask = CTRBase(s.base.key, s.base.nonce, s.base.at + (s.at + 2 * s.n))
          <6> HIDE DEF s
          <6> QED BY <5>1, <5>2 DEF Shift, CTRBase
        <5>4. s.base.at + (s.at + 2 * s.n) = s.base.at + s.at + 2 * s.n BY <1>4, <5>2
        <5> QED BY <1>11, <3>3, <4>1, <5>3, <5>4 DEF Ahead
      <4>3. CASE ~ offline
        <5>1. s.at + 4 * s.n < MaskCap => s.at + 2 * s.n < MaskCap BY <1>4, Constants
        <5> QED BY <1>10, <1>11, <4>1, <4>3, <5>1
      <4> QED BY <4>2, <4>3
    <3>11. SameStreams(c)'
      <4>1. ~ Verified(c)' BY <1>12, <3>3, <3>4 DEF Verified
      <4> QED BY <1>11, <1>12, <3>4, <3>5, <3>10, <4>1 DEF SameStreams, Held
    <3> QED BY <3>7, <3>8, <3>9, <3>11 DEF Agreement
  <2>2. CASE conn[c] # t
    <3>1. conn[c] \in {0} \cup Session BY <1>2 DEF TypeOK
    <3>2. Bystander(c)
      BY <1>1, <1>7, <1>12, <2>2, <3>1 DEF Bystander, Held, clientVars, enclaveVars, Total
    <3> QED BY <1>3, <3>2, BystanderAgrees DEF IInv
  <2> QED BY <2>1, <2>2
<1> QED BY <1>3, <1>13, <1>14, <1>15, ServerStepKeeps

(* The enclave's counter moves by what the client's will.                  *)
LEMMA CountFacts ==
  ASSUME TypeOK, NEW c \in Client, NEW n \in Batch, clientList' = Count(clientList, c, n)
  PROVE  /\ clientList' \in [Client -> Info \cup {Nothing}]
         /\ \A d \in Client \ {c} : clientList'[d] = clientList[d]
         /\ clientList[c] = Nothing => clientList'[c] = Nothing
         /\ clientList[c] # Nothing => /\ clientList'[c].nonce = clientList[c].nonce
                                       /\ clientList'[c].offline = clientList[c].offline
                                       /\ Total(c)' = Total(c) + 4 * n
<1>1. clientList \in [Client -> Info \cup {Nothing}] /\ n \in Nat
  BY Constants DEF TypeOK
<1>2. CASE clientList[c] = Nothing BY <1>1, <1>2 DEF Count
<1>3. CASE clientList[c] # Nothing
  <2> DEFINE old == clientList[c]
             new == [old EXCEPT !.currentKeyGenerateCounter = @ + 4 * n]
  <2>1. old \in Info BY <1>1, <1>3
  <2>2. /\ old.keyGenerateCounter \in Nat /\ old.currentKeyGenerateCounter \in Nat
    BY <2>1 DEF Info
  <2>3. clientList' = [clientList EXCEPT ![c] = new] BY <1>3 DEF Count
  <2>4. Total(c) = old.keyGenerateCounter + old.currentKeyGenerateCounter BY DEF Total
  <2> HIDE DEF old
  <2>5. /\ new \in Info /\ new.nonce = old.nonce /\ new.offline = old.offline
        /\ new.keyGenerateCounter = old.keyGenerateCounter
        /\ new.currentKeyGenerateCounter = old.currentKeyGenerateCounter + 4 * n
    BY <1>1, <2>1, <2>2 DEF Info
  <2> HIDE DEF new
  <2>6. clientList'[c] = new /\ clientList' \in [Client -> Info \cup {Nothing}]
        /\ \A d \in Client \ {c} : clientList'[d] = clientList[d]
    BY <1>1, <2>3, <2>5
  <2>7. Total(c)' = new.keyGenerateCounter + new.currentKeyGenerateCounter
    BY <2>6 DEF Total
  <2>8. Total(c)' = Total(c) + 4 * n BY <1>1, <2>2, <2>4, <2>5, <2>7
  <2>9. /\ clientList'[c].nonce = clientList[c].nonce
        /\ clientList'[c].offline = clientList[c].offline
    BY <2>5, <2>6 DEF old
  <2> QED BY <1>3, <2>6, <2>8, <2>9
<1> QED BY <1>2, <1>3

LEMMA KeygenEndKeeps ==
  ASSUME IInv, NEW t \in Session, NEW c \in Client, c = owner[t], KeygenEnd(t)
  PROVE  IInv'
<1> DEFINE s == snapshot[t]
           reply == IF s = Nothing THEN NoKeys
                    ELSE [kind |-> "keys", key |-> sessionKey,
                          right |-> s.unmask = s.under, mask |-> s.mask]
           left == IF s # Nothing /\ Overtakes(t) THEN blame[c] \cup {"overtaken"}
                   ELSE blame[c]
<1>1. /\ thread[t] = "keygen" /\ (s # Nothing => s.masked)
      /\ clientList' = IF s = Nothing THEN clientList ELSE Count(clientList, c, s.n)
      /\ snapshot' = [snapshot EXCEPT ![t] = Nothing]
      /\ UNCHANGED <<faults, clientVars, owner, open, up, offlineGenerateFlag, raThread,
                     maskThread, maskStream, trusted, sessionKey, masks>>
  BY DEF KeygenEnd
<1>2. \/ /\ thread' = [thread EXCEPT ![t] = "serve"]
         /\ clientThreadCount' = clientThreadCount
         /\ down' = IF t \in open THEN [down EXCEPT ![t] = reply] ELSE down
      \/ /\ t \notin open /\ down' = down
         /\ thread' = [thread EXCEPT ![t] = "gone"]
         /\ clientThreadCount' = clientThreadCount - 1
  BY DEF KeygenEnd
<1>3. /\ t <= Len(owner) /\ t # 0 /\ Carried(t) /\ Agreement(c)
      /\ conn[c] = t => t \in open
  BY <1>1, ThreadFacts
<1>4. /\ thread \in [Session -> {"none", "login", "serve", "keygen", "leaked", "gone"}]
      /\ up \in [Session -> LoginRequest \cup KeyRequest \cup {Nothing}]
      /\ down \in [Session -> LoginReply \cup KeyReply \cup {NoKeys, Nothing}]
      /\ snapshot \in [Session -> Snapshot \cup {Nothing}]
      /\ blame \in [Client -> SUBSET Cause]
      /\ clientThreadCount = Cardinality(Counted) /\ offlineGenerateFlag \in BOOLEAN
      /\ clientList \in [Client -> Info \cup {Nothing}]
      /\ sessionKey \in Key
      /\ TypeOK
  BY DEF IInv, TypeOK
<1>5. s # Nothing =>
        /\ s.n \in Batch /\ s.mask \in StreamOrJunk
        /\ reply \in KeyReply /\ reply.kind = "keys" /\ reply.key = sessionKey
        /\ reply.right = (s.unmask = s.under) /\ reply.mask = s.mask
  <2> SUFFICES ASSUME s # Nothing
               PROVE  /\ s.n \in Batch /\ s.mask \in StreamOrJunk
                      /\ reply \in KeyReply /\ reply.kind = "keys" /\ reply.key = sessionKey
                      /\ reply.right = (s.unmask = s.under) /\ reply.mask = s.mask
    OBVIOUS
  <2>1. s \in Snapshot BY <1>4
  <2>2. s.n \in Batch /\ s.mask \in StreamOrJunk BY <2>1 DEF Snapshot
  <2> HIDE DEF s
  <2>3. (s.unmask = s.under) \in BOOLEAN OBVIOUS
  <2> QED BY <1>4, <2>2, <2>3 DEF KeyReply
<1>6. s = Nothing => reply = NoKeys OBVIOUS
<1>7. blame' = [blame EXCEPT ![c] = left] BY <1>4 DEF KeygenEnd
<1>8. /\ left \in SUBSET Cause /\ blame[c] \subseteq left
      /\ ~ Overtakes(t) \/ s = Nothing => left = blame[c]
      /\ s # Nothing /\ Overtakes(t) => "overtaken" \in left
  <2>1. blame[c] \in SUBSET Cause /\ "overtaken" \in Cause BY <1>4 DEF Cause
  <2> HIDE DEF s
  <2> QED BY <2>1
<1>9. /\ clientList' \in [Client -> Info \cup {Nothing}]
      /\ \A d \in Client \ {c} : clientList'[d] = clientList[d]
      /\ clientList[c] = Nothing => clientList'[c] = Nothing
      /\ clientList[c] # Nothing =>
           /\ clientList'[c].nonce = clientList[c].nonce
           /\ clientList'[c].offline = clientList[c].offline
           /\ Total(c)' = IF s = Nothing THEN Total(c) ELSE Total(c) + 4 * s.n
  <2>1. CASE s = Nothing BY <1>1, <1>4, <2>1 DEF Total
  <2>2. CASE s # Nothing
    <3>1. clientList' = Count(clientList, c, s.n) BY <1>1, <2>2
    <3>2. s.n \in Batch BY <1>5, <2>2
    <3> HIDE DEF s
    <3> QED BY <1>4, <2>2, <3>1, <3>2, CountFacts
  <2> QED BY <2>1, <2>2
<1> HIDE DEF s, reply, left
<1>15. c \in Known' =>
         /\ c \in Known /\ clientList[c] # Nothing
         /\ clientList'[c].nonce = clientList[c].nonce
         /\ Total(c)' = IF s = Nothing THEN Total(c) ELSE Total(c) + 4 * s.n
  <2> SUFFICES ASSUME c \in Known'
               PROVE  /\ c \in Known /\ clientList[c] # Nothing
                      /\ clientList'[c].nonce = clientList[c].nonce
                      /\ Total(c)' = IF s = Nothing THEN Total(c) ELSE Total(c) + 4 * s.n
    OBVIOUS
  <2>1. clientList'[c] # Nothing BY DEF Known
  <2>2. clientList[c] # Nothing BY <1>9, <2>1
  <2> QED BY <1>9, <2>2 DEF Known
<1>10. reply \in KeyReply \cup {NoKeys} BY <1>5, <1>6
<1>11. /\ snapshot'[t] = Nothing /\ up' = up /\ blame'[c] = left
       /\ thread'[t] \in {"serve", "gone"}
       /\ t \in open => thread'[t] = "serve" /\ down'[t] = reply
       /\ t \notin open => down'[t] = down[t]
       /\ \A r \in Session \ {t} : /\ thread'[r] = thread[r] /\ down'[r] = down[r]
                                   /\ snapshot'[r] = snapshot[r]
       /\ \A d \in Client \ {c} : blame'[d] = blame[d]
  BY <1>1, <1>2, <1>4, <1>7
<1>12. Carried(t)' BY <1>1, <1>3, <1>11 DEF Carried
<1>13. ServerStep(t)
  <2>1. t \in Counted BY <1>1 DEF Counted
  <2>2. clientThreadCount' = Cardinality(Counted') BY <1>2, <1>4, <2>1, CountedSteps
  <2>3. thread' \in [Session -> {"none", "login", "serve", "keygen", "leaked", "gone"}]
    BY <1>2, <1>4
  <2>4. /\ down' \in [Session -> LoginReply \cup KeyReply \cup {NoKeys, Nothing}]
        /\ snapshot' \in [Session -> Snapshot \cup {Nothing}]
    BY <1>1, <1>2, <1>4, <1>10
  <2>5. blame' \in [Client -> SUBSET Cause] BY <1>4, <1>7, <1>8
  <2>6. \A d \in Client \ {c} : Total(d)' = Total(d) BY <1>9 DEF Total
  <2> QED BY <1>1, <1>4, <1>9, <1>11, <2>2, <2>3, <2>4, <2>5, <2>6 DEF ServerStep
<1>14. Agreement(c)'
  <2>1. CASE conn[c] = t
    <3>1. /\ Conversation(c) /\ SameNonce(c) /\ SameCounter(c) /\ SameStreams(c)
          /\ t \in open
      BY <1>3, <2>1 DEF Agreement
    <3>2. cpc[c] = "asked"
      <4>1. cpc[c] \in {"off", "init", "login", "ready", "asked", "stuck"} BY <1>4 DEF TypeOK
      <4>2. cpc[c] # "off" BY <1>3, <2>1 DEF IInv, Linked
      <4> QED BY <1>1, <2>1, <3>1, <4>1, <4>2 DEF Conversation, Th
    <3>3. /\ asked[c] \in Batch /\ down[t] = Nothing /\ up[t] = Nothing /\ nonce[c] \in Nonce
          /\ s # Nothing => s.n = asked[c] /\ s.under = ClientStream(c, 0)
      BY <1>1, <2>1, <3>1, <3>2 DEF Conversation, Th, Up, Down, Held, s
    <3>4. ~ Overtakes(t) BY <2>1 DEF Overtakes
    <3>5. /\ conn'[c] = t /\ cpc'[c] = "asked" /\ asked'[c] = asked[c] /\ nonce'[c] = nonce[c]
          /\ counter'[c] = counter[c] /\ clientKey'[c] = clientKey[c] /\ store'[c] = store[c]
          /\ blame'[c] = blame[c]
      BY <1>1, <1>8, <1>11, <2>1, <3>2, <3>4 DEF clientVars
    <3>6. \A d : ClientStream(c, d)' = ClientStream(c, d) BY <3>5 DEF ClientStream, CTRBase
    <3>7. InSession(c) /\ InSession(c)' BY <1>1, <1>3, <1>11, <2>1, <3>1, <3>5 DEF InSession, Th
    <3>8. Conversation(c)'
      BY <1>10, <1>11, <3>1, <3>3, <3>5 DEF Conversation, Th, Up, Down
    <3>9. SameNonce(c)' BY <1>15, <3>1, <3>2, <3>5, <3>7 DEF SameNonce
    <3>10. clientKey[c] \in Key /\ counter[c] \in Nat BY <1>4 DEF TypeOK
    <3>11. reply # Nothing /\ (s = Nothing => reply.key # clientKey[c])
      BY <1>6, <1>10, <3>10, KeyServiceAssumption DEF NoKeys
    <3>12. SameCounter(c)'
      <4> SUFFICES ASSUME c \in Known', blame[c] \cap {"lostNonce", "overtaken"} = {},
                          reply.key = clientKey[c]
                   PROVE  Total(c)' = counter[c] + 4 * asked[c]
        BY <1>11, <3>1, <3>5, <3>11 DEF SameCounter, Down
      <4>1. c \in Known BY <1>15
      <4>2. Total(c) = counter[c]
        BY <2>1, <3>1, <3>2, <3>3, <3>7, <4>1 DEF SameCounter, Down
      <4> QED BY <1>15, <3>3, <3>11, <4>2
    <3>13. SameStreams(c)'
      <4> SUFFICES ASSUME blame[c] = {}, Verified(c)' PROVE Right(c)'
        BY <1>11, <3>5 DEF SameStreams, Held
      <4>1. reply.key = clientKey[c] BY <1>11, <3>1, <3>5 DEF Verified
      <4>2. s # Nothing BY <3>11, <4>1
      <4>3. s.unmask = ClientStream(c, 0) /\ s.mask = ClientStream(c, 2 * asked[c])
        BY <1>1, <2>1, <3>1, <3>2, <4>2 DEF SameStreams, Held, s
      <4>4. reply.right = TRUE /\ reply.mask = ClientStream(c, 2 * asked[c])
        BY <1>5, <3>3, <4>2, <4>3
      <4> QED BY <1>11, <3>1, <3>5, <3>6, <4>4 DEF Right
    <3> QED BY <3>8, <3>9, <3>12, <3>13 DEF Agreement
  <2>2. CASE conn[c] # t
    <3>1. conn[c] \in {0} \cup Session BY <1>4 DEF TypeOK
    <3>2. InSession(c) /\ s # Nothing => "overtaken" \in left
      BY <1>8, <2>2 DEF Overtakes, InSession, Th
    <3>3. Bystander(c)
      BY <1>1, <1>8, <1>9, <1>11, <2>2, <3>1, <3>2 DEF Bystander, clientVars
    <3> QED BY <1>3, <3>3, BystanderAgrees DEF IInv
  <2> QED BY <2>1, <2>2
<1> QED BY <1>3, <1>12, <1>13, <1>14, ServerStepKeeps

-----------------------------------------------------------------------------
(***************************************************************************)
(* The steps of the other threads of the key server.                       *)
(***************************************************************************)

(* They touch no connection, and of the table at most drop entries and     *)
(* mark them.                                                              *)
OtherStep ==
  /\ UNCHANGED <<clientVars, netVars, thread, snapshot, clientThreadCount, blame>>
  /\ offlineGenerateFlag' \in BOOLEAN
  /\ raThread' \in {"idle", "asked", "going"}
  /\ maskThread' \in {"idle", "wanted", "filling"}
  /\ trusted' \in BOOLEAN
  /\ masks' \in StreamOrJunk /\ maskStream' \in StreamOrJunk
  /\ clientList' \in [Client -> Info \cup {Nothing}]
  /\ \A d \in Client :
       /\ clientList'[d] # Nothing =>
            /\ clientList[d] # Nothing /\ clientList'[d].nonce = clientList[d].nonce
            /\ Total(d)' = Total(d)
       /\ \/ \A t \in Session : snapshot[t] = Nothing
          \/ clientList[d].offline = TRUE => clientList'[d].offline = TRUE

LEMMA OtherStepKeeps ==
  ASSUME IInv, OtherStep, sessionKey' \in Nat, KeysCounted' PROVE IInv'
<1>1. TypeOK'
  <2>1. Counted' = Counted BY DEF OtherStep, Counted
  <2>2. sessionKey' \in Key
    <3>1. MaxFault \in Nat BY Constants
    <3>2. sessionKey' <= faults' /\ faults' \in 0 .. MaxFault
      <4>1. faults' \in Nat BY <3>1 DEF KeysCounted
      <4>2. \A k, f \in Nat, i \in {0, 1} : k + i <= f => k <= f OBVIOUS
      <4>3. (IF raThread' = "idle" THEN 0 ELSE 1) \in {0, 1} OBVIOUS
      <4> QED BY <4>1, <4>2, <4>3 DEF KeysCounted
    <3> QED BY <3>1, <3>2 DEF Key
  <2> QED BY <2>1, <2>2 DEF IInv, TypeOK, OtherStep, clientVars, netVars
<1>2. Linked' BY DEF IInv, Linked, OtherStep, clientVars, netVars
<1>3. \A s \in Session : Carried(s)' BY DEF IInv, Carried, OtherStep, netVars
<1>4. ASSUME NEW d \in Client PROVE Agreement(d)'
  <2>1. conn[d] \in {0} \cup Session BY DEF IInv, TypeOK
  <2>2. Bystander(d) BY <2>1 DEF OtherStep, Bystander, Held, clientVars, netVars
  <2> QED BY <2>2, BystanderAgrees DEF IInv
<1> QED BY <1>1, <1>2, <1>3, <1>4 DEF IInv

(* The steps that leave the table and the key alone.                       *)
LEMMA FlagsKeep ==
  ASSUME IInv, MaskCheck \/ MaskEnd \/ AskAttestation \/ NoClients PROVE IInv'
<1>1. /\ maskThread \in {"idle", "wanted", "filling"}
      /\ raThread \in {"idle", "asked", "going"} /\ offlineGenerateFlag \in BOOLEAN
      /\ trusted \in BOOLEAN /\ sessionKey \in Nat
      /\ masks \in StreamOrJunk /\ maskStream \in StreamOrJunk /\ Junk \in StreamOrJunk
      /\ clientList \in [Client -> Info \cup {Nothing}]
      /\ KeysCounted
  BY Constants DEF IInv, TypeOK, StreamOrJunk
<1>2. sessionKey' = sessionKey /\ clientList' = clientList
  BY DEF MaskCheck, MaskEnd, AskAttestation, NoClients, enclaveVars
<1>3. \A d \in Client : Total(d)' = Total(d) BY <1>2 DEF Total
<1>4. KeysCounted'
  <2>1. CASE MaskCheck BY <1>1, <2>1 DEF MaskCheck, KeysCounted, enclaveVars
  <2>2. CASE MaskEnd BY <1>1, <2>2 DEF MaskEnd, KeysCounted
  <2>3. CASE AskAttestation
    BY <1>1, <2>3, Constants DEF AskAttestation, KeysCounted, enclaveVars, Fault
  <2>4. CASE NoClients BY <1>1, <2>4 DEF NoClients, KeysCounted, enclaveVars
  <2> QED BY <2>1, <2>2, <2>3, <2>4
<1>5. OtherStep
  <2>1. CASE MaskCheck BY <1>1, <1>2, <1>3, <2>1 DEF MaskCheck, OtherStep, enclaveVars
  <2>2. CASE MaskEnd BY <1>1, <1>2, <1>3, <2>2 DEF MaskEnd, OtherStep
  <2>3. CASE AskAttestation
    BY <1>1, <1>2, <1>3, <2>3 DEF AskAttestation, OtherStep, enclaveVars
  <2>4. CASE NoClients BY <1>1, <1>2, <1>3, <2>4 DEF NoClients, OtherStep, enclaveVars
  <2> QED BY <2>1, <2>2, <2>3, <2>4
<1> QED BY <1>1, <1>2, <1>4, <1>5, OtherStepKeeps

LEMMA MaskStartKeeps == ASSUME IInv, MaskStart PROVE IInv'
<1>1. /\ offlineGenerateFlag \in BOOLEAN /\ trusted \in BOOLEAN
      /\ raThread \in {"idle", "asked", "going"}
      /\ sessionKey \in Key /\ sessionKey \in Nat
      /\ masks \in StreamOrJunk /\ Junk \in StreamOrJunk
      /\ clientList \in [Client -> Info \cup {Nothing}]
      /\ KeysCounted /\ TypeOK
  BY Constants DEF IInv, TypeOK, StreamOrJunk
<1>2. /\ maskThread' = "filling" /\ sessionKey' = sessionKey
      /\ UNCHANGED <<faults, clientVars, netVars, thread, snapshot, clientThreadCount,
                     offlineGenerateFlag, raThread, trusted, sessionKey, blame>>
  BY DEF MaskStart
<1> DEFINE Marked ==
             /\ masks' \in StreamOrJunk /\ maskStream' \in StreamOrJunk
             /\ clientList' \in [Client -> Info \cup {Nothing}]
             /\ \A d \in Client :
                  /\ clientList'[d] # Nothing =>
                       /\ clientList[d] # Nothing /\ clientList'[d].nonce = clientList[d].nonce
                       /\ Total(d)' = Total(d)
                  /\ clientList[d].offline = TRUE => clientList'[d].offline = TRUE
<1>3. Marked
  <2>1. CASE maskStream' = masks /\ UNCHANGED <<clientList, masks>>
    BY <1>1, <2>1 DEF Total
  <2>2. ASSUME NEW c \in Known,
               clientList' = [clientList EXCEPT ![c].offline = TRUE],
               maskStream' = CTRBase(sessionKey, clientList[c].nonce, Total(c)),
               masks' = Junk
        PROVE  Marked
    <3> DEFINE old == clientList[c]
               new == [old EXCEPT !.offline = TRUE]
    <3>1. /\ c \in Client /\ old \in Info /\ old # Nothing
          /\ clientList[c].nonce \in Nonce /\ Total(c) \in Nat
      BY <1>1, EntryType DEF Known
    <3>2. new \in Info /\ new.nonce = old.nonce /\ new.offline = TRUE
          /\ new.keyGenerateCounter = old.keyGenerateCounter
          /\ new.currentKeyGenerateCounter = old.currentKeyGenerateCounter
      <4>1. old \in Info BY <3>1
      <4> HIDE DEF old
      <4> QED BY <4>1 DEF Info
    <3>3. clientList' = [clientList EXCEPT ![c] = new] BY <2>2
    <3> HIDE DEF new
    <3>4. /\ clientList' \in [Client -> Info \cup {Nothing}] /\ clientList'[c] = new
          /\ \A d \in Client \ {c} : clientList'[d] = clientList[d]
      BY <1>1, <3>1, <3>2, <3>3
    <3>5. \A d \in Client : Total(d)' = Total(d) BY <3>2, <3>4 DEF Total
    <3>6. maskStream' \in StreamOrJunk
      BY <1>1, <2>2, <3>1 DEF CTRBase, StreamOrJunk, Stream
    <3> QED BY <1>1, <2>2, <3>1, <3>2, <3>4, <3>5, <3>6
  <2>3. \/ maskStream' = masks /\ UNCHANGED <<clientList, masks>>
        \/ \E c \in Known :
             /\ clientList' = [clientList EXCEPT ![c].offline = TRUE]
             /\ maskStream' = CTRBase(sessionKey, clientList[c].nonce, Total(c))
             /\ masks' = Junk
    BY DEF MaskStart
  <2> HIDE DEF Marked
  <2> QED BY <2>1, <2>2, <2>3
<1>4. OtherStep BY <1>1, <1>2, <1>3 DEF OtherStep
<1>5. KeysCounted' BY <1>1, <1>2 DEF KeysCounted
<1> QED BY <1>1, <1>2, <1>4, <1>5, OtherStepKeeps

LEMMA EnclaveKeeps ==
  ASSUME IInv, RenewSessionKey \/ DestroyEnclave \/ Attest PROVE IInv'
<1>1. /\ maskThread \in {"idle", "wanted", "filling"}
      /\ raThread \in {"idle", "asked", "going"} /\ offlineGenerateFlag \in BOOLEAN
      /\ trusted \in BOOLEAN /\ sessionKey \in Nat
      /\ masks \in StreamOrJunk /\ maskStream \in StreamOrJunk /\ Junk \in StreamOrJunk
      /\ clientList \in [Client -> Info \cup {Nothing}]
      /\ KeysCounted
  BY Constants DEF IInv, TypeOK, StreamOrJunk
<1>2. CASE RenewSessionKey
  <2>1. \A d \in Client : Total(d)' = Total(d) BY <1>2 DEF RenewSessionKey, Total
  <2>2. OtherStep BY <1>1, <1>2, <2>1 DEF RenewSessionKey, OtherStep, serverVars
  <2>3. KeysCounted' /\ sessionKey' \in Nat
    BY <1>1, <1>2, Constants DEF RenewSessionKey, KeysCounted, Fault, serverVars
  <2> QED BY <2>2, <2>3, OtherStepKeeps
<1>3. CASE DestroyEnclave
  <2>1. \A d \in Client : clientList'[d] = Nothing BY <1>3 DEF DestroyEnclave
  <2>2. clientList' \in [Client -> Info \cup {Nothing}] BY <1>3 DEF DestroyEnclave
  <2>3. OtherStep BY <1>1, <1>3, <2>1, <2>2 DEF DestroyEnclave, OtherStep, serverVars
  <2>4. KeysCounted' /\ sessionKey' \in Nat
    BY <1>1, <1>3 DEF DestroyEnclave, KeysCounted, serverVars
  <2> QED BY <2>3, <2>4, OtherStepKeeps
<1>4. CASE Attest
  <2>1. \A d \in Client : Total(d)' = Total(d) BY <1>4 DEF Attest, Total
  <2>2. OtherStep BY <1>1, <1>4, <2>1 DEF Attest, OtherStep
  <2>3. KeysCounted' /\ sessionKey' \in Nat BY <1>1, <1>4 DEF Attest, KeysCounted
  <2> QED BY <2>2, <2>3, OtherStepKeeps
<1> QED BY <1>2, <1>3, <1>4

-----------------------------------------------------------------------------
(***************************************************************************)
(* Theorems.                                                               *)
(***************************************************************************)
LEMMA StutterKeeps == ASSUME IInv, UNCHANGED vars PROVE IInv'
<1>1. OtherStep /\ sessionKey' \in Nat
  <2>1. \A d \in Client : Total(d)' = Total(d) BY DEF vars, enclaveVars, Total
  <2> QED BY <2>1, Constants
          DEF IInv, TypeOK, OtherStep, vars, clientVars, netVars, serverVars, enclaveVars
<1>2. KeysCounted' BY DEF IInv, KeysCounted, vars, serverVars, enclaveVars
<1> QED BY <1>1, <1>2, OtherStepKeeps

LEMMA StepIInv == IInv /\ [Next]_vars => IInv'
<1> SUFFICES ASSUME IInv, [Next]_vars PROVE IInv' OBVIOUS
<1>1. ASSUME NEW c \in Client, Start(c) \/ ClientStep(c) \/ Finish(c) \/ Kill(c)
      PROVE  IInv'
  BY <1>1, StartKeeps, LoginKeeps, LoginDoneKeeps, LoginRetryKeeps, TakeKeysKeeps,
     FinishKeeps, KillKeeps DEF ClientStep
<1>2. ASSUME NEW c \in Client, NEW n \in Batch, Ask(c, n) PROVE IInv'
  BY <1>2, AskKeeps
<1>3. ASSUME NEW t \in Session, ThreadStep(t) PROVE IInv'
  <2>1. thread[t] # "none" \/ t <= Len(owner)
    BY <1>3 DEF ThreadStep, Serve, LoginStep, LeaveEarly, KeygenStart, KeygenMask, KeygenEnd,
           Leave
  <2>2. PICK c : c = owner[t] OBVIOUS
  <2>3. c \in Client
    <3>1. owner \in Seq(Client) /\ Carried(t) BY DEF IInv, TypeOK
    <3>2. t \in Nat /\ t >= 1 BY KeyServiceAssumption DEF Session
    <3>3. Len(owner) \in Nat BY <3>1
    <3>4. t <= Len(owner) BY <2>1, <3>1, <3>2, <3>3 DEF Carried
    <3> QED BY <2>2, <3>1, <3>2, <3>3, <3>4
  <2>4. CASE Serve(t) BY <2>2, <2>3, <2>4, ServeKeeps
  <2>5. CASE LoginStep(t) BY <2>2, <2>3, <2>5, LoginStepKeeps
  <2>6. CASE LeaveEarly(t) BY <2>2, <2>3, <2>6, LeaveEarlyKeeps
  <2>7. CASE KeygenStart(t) BY <2>2, <2>3, <2>7, KeygenStartKeeps
  <2>8. CASE KeygenMask(t) BY <2>2, <2>3, <2>8, KeygenMaskKeeps
  <2>9. CASE KeygenEnd(t) BY <2>2, <2>3, <2>9, KeygenEndKeeps
  <2>10. CASE Leave(t) BY <2>2, <2>3, <2>10, LeaveKeeps
  <2> QED BY <1>3, <2>4, <2>5, <2>6, <2>7, <2>8, <2>9, <2>10 DEF ThreadStep
<1>4. CASE MaskCheck \/ MaskEnd \/ AskAttestation \/ NoClients BY <1>4, FlagsKeep
<1>5. CASE MaskStart BY <1>5, MaskStartKeeps
<1>6. CASE RenewSessionKey \/ DestroyEnclave \/ Attest BY <1>6, EnclaveKeeps
<1>7. CASE UNCHANGED vars BY <1>7, StutterKeeps
<1> QED BY <1>1, <1>2, <1>3, <1>4, <1>5, <1>6, <1>7 DEF Next

(* Every reachable state of the key service satisfies the inductive        *)
(* invariant, whatever the clients, the batch sizes, the capacity of the   *)
(* offline masks, the number of connections and of faults.                 *)
THEOREM Invariance == Spec => []IInv
<1> QED BY InitIInv, StepIInv, PTL DEF Spec

(* The key server's thread count is the number of threads it serves and    *)
(* has leaked, the message of a connection is one its reader expects, and  *)
(* the session key counts the renewals (runKeyGenerateThread,              *)
(* clientThreadCount_, currentSessionKey_).                                *)
THEOREM TypeCorrect == Spec => []TypeOK
<1>1. IInv => TypeOK BY DEF IInv
<1> QED BY <1>1, Invariance, PTL

(* While a session waits for its next request both ends hold the same      *)
(* nonce and the same counter, unless a login took a nonce the enclave     *)
(* does not hold or an earlier connection of the client came in between:   *)
(* for every interleaving of logins, requests, kills, renewals, masks and  *)
(* attestations (ecall_clientStatusModify, ecall_keygen_ctr, counter_).    *)
THEOREM InStepHolds == Spec => []InStep
<1>1. IInv => InStep
  <2> SUFFICES ASSUME IInv, NEW c \in Known, cpc[c] = "ready", thread[conn[c]] = "serve",
                      blame[c] \cap {"lostNonce", "overtaken"} = {}
               PROVE  nonce[c] = clientList[c].nonce /\ counter[c] = Total(c)
    BY DEF InStep
  <2>1. c \in Client BY DEF Known
  <2>2. SameNonce(c) /\ SameCounter(c) BY <2>1 DEF IInv, Agreement
  <2>3. conn[c] # 0 BY <2>1 DEF IInv, Linked
  <2>4. InSession(c) BY <2>3 DEF InSession, Th
  <2> QED BY <2>2, <2>4 DEF SameNonce, SameCounter
<1> QED BY <1>1, Invariance, PTL

(* A client accepts wrong keys for one of the four causes only: with none  *)
(* of them, a reply whose HMAC it accepts was unmasked with the stream it  *)
(* masked its request with and masked with the stream it unmasks the keys  *)
(* with (keyExchange, ecall_keygen_ctr).                                   *)
THEOREM OnlyKnownCausesHolds == Spec => []OnlyKnownCauses
<1>1. IInv => OnlyKnownCauses
  BY DEF IInv, Agreement, SameStreams, OnlyKnownCauses
<1> QED BY <1>1, Invariance, PTL

-----------------------------------------------------------------------------
(***************************************************************************)
(* The session keys themselves: what holds of KeyRenewal for any number of *)
(* hashes, attestations and client connections.                            *)
(*                                                                         *)
(* Attesting follows an attestation from end to end; FirstTimes ties each  *)
(* end's countdown to the renewals it has made, as long as there has been  *)
(* one attestation; KeysMade ties each end's key to its countdown, in every*)
(* attestation, and Withdrawn the server's flag to the expiry.             *)
(***************************************************************************)
(* No more clients are counted than have come, and no fewer than have a    *)
(* thread; a key is only written while there are hashes left.              *)
Arrived ==
  /\ entering + serving <= clients /\ clients <= arrivals
  /\ serverUpdate = "written" => serverTimes >= 0
  /\ RenewalTypeOK

(* What a place in the attestation says of both ends: when one is under way*)
(* the key server is at it, and when it has come to its end the storage    *)
(* server's session is that of this attestation, and stays so until the    *)
(* enclave has its secrets too.                                            *)
Attesting ==
  /\ link \in {"msg01", "msg2", "msg3", "msg4", "trusted"} =>
       raKeyServer \in {"attestFirst", "attest"} /\ secrets = 0
  /\ link = "none" => raKeyServer \notin {"attestFirst", "attest"}
  /\ raKeyServer \in {"start", "asked"} => raServer \in {"listen", "dead"} /\ link = "none"
  /\ link \in {"msg01", "msg2", "msg3"} => raServer \in {"listen", "attest", "dead"}
  /\ link \in {"msg4", "trusted"} => raServer = "alive" /\ session = attestation
  /\ raServer = "alive" /\ link = "none" => session = attestation /\ session = secrets
  /\ raServer = "alive" => link \in {"none", "msg4", "trusted"} /\ session # 0
  /\ secrets # 0 => secrets = attestation
  /\ raServer = "request" => link = "none"
  /\ raKeyServer = "start" <=> attestation = 0

(* As long as there has been one attestation, the countdown at either end  *)
(* and the renewals it has made are one number.                            *)
FirstTimes ==
  attestation <= 1 =>
    /\ serverTimes = MaxTimes - serverRenewals
    /\ attestation = 0 \/ link \in {"msg01", "msg2", "msg3"} => session = 0 /\ secrets = 0
    /\ session = 0 => serverUpdate = "idle" /\ serverRenewals = 0
    /\ serverUpdate \in {"hashing", "written"} => serverSecrets = session
    /\ secrets = 0 => update = "off" /\ enclaveRenewals = 0
    /\ link = "trusted" \/ secrets # 0 => enclaveTimes = MaxTimes - enclaveRenewals

(* What the storage server's key is after it was made with n hashes.       *)
MadeOf(n) == IF n = 0 THEN Uninitialised ELSE [ra |-> session, n |-> n]

(* In every attestation, the key of either end is made of its secrets and  *)
(* of the last value of its countdown. A renewal that began before the     *)
(* attestation never counts as one of it.                                  *)
KeysMade ==
  /\ session <= attestation /\ serverSecrets <= attestation
  /\ link \in {"msg01", "msg2", "msg3"} => session # attestation /\ serverSecrets # attestation
  /\ serverRenewals > 0 /\ session # 0 => serverSecrets = session
  /\ raServer = "alive" /\ serverUpdate # "written" /\ serverRenewals > 0 =>
       exchangeKey = MadeOf(serverTimes + 1)
  /\ raServer = "alive" /\ serverUpdate = "written" /\ serverSecrets = session =>
       exchangeKey = MadeOf(serverTimes)
  /\ enclaveRenewals > 0 /\ secrets # 0 =>
       enclaveTimes < MaxTimes /\ enclaveKey = [ra |-> secrets, n |-> enclaveTimes + 1]

(* The flag is only up, or about to be raised, between attestations if a   *)
(* renewal was under way when the last one expired.                        *)
Withdrawn ==
  raServer \in {"listen", "attest", "request"} =>
    (keySet \/ serverUpdate \in {"checked", "hashing", "written"} => late)

RInv == Arrived /\ Attesting /\ FirstTimes /\ KeysMade /\ Withdrawn

-----------------------------------------------------------------------------
LEMMA RenewalSets ==
  /\ MaxTimes \in Int /\ MaxTimes > 0 /\ MaxAttestation \in Nat /\ MaxClient \in Nat
  /\ \A a : a \in Attestation <=> a \in Int /\ 0 <= a /\ a <= MaxAttestation
  /\ \A n : n \in Times <=> n \in Int /\ -1 <= n /\ n <= MaxTimes
  /\ \A a, n : a \in Attestation /\ n \in 0 .. MaxTimes =>
       [ra |-> a, n |-> n] \in SessionKey
BY RenewalAssumption DEF Attestation, Times, SessionKey

LEMMA InitRInv ==
  ASSUME RenewalInit
  PROVE  RInv
<1>1. 0 \in Attestation /\ MaxTimes \in Times /\ 0 \in Times /\ 0 \in 0 .. MaxClient
      /\ FALSE \in BOOLEAN /\ TRUE \in BOOLEAN
  BY RenewalSets
<1>2. Arrived
  <2>1. /\ keySet \in BOOLEAN /\ listener \in BOOLEAN
        /\ late \in BOOLEAN /\ refused \in BOOLEAN /\ leftEarly \in BOOLEAN
    BY Zenon DEF RenewalInit
  <2> QED BY <1>1, <2>1 DEF RenewalInit, Arrived, RenewalTypeOK
<1>3. Attesting /\ FirstTimes /\ KeysMade
  BY RenewalSets DEF RenewalInit, Attesting, FirstTimes, KeysMade
<1>4. Withdrawn
  BY DEF RenewalInit, Withdrawn
<1> QED BY <1>2, <1>3, <1>4 DEF RInv

LEMMA NextArrived ==
  ASSUME RInv, [RenewalNext]_renewalVars
  PROVE  Arrived'
<1> USE RenewalSets DEF RInv, Arrived, RenewalTypeOK, storage, enclave, clientThreads, keyServer
<1>1. CASE Connect BY <1>1 DEF Connect
<1>2. CASE ServerMsg01 \/ ServerMsg3
  <2>1. /\ link' \in {"msg2", "msg4", "silent"} /\ raServer' \in {"listen", "attest", "alive"}
        /\ session' \in {0, session, attestation} /\ serverRenewals' \in {serverRenewals, 0}
        /\ UNCHANGED <<exchangeKey, serverTimes, serverUpdate, serverSecrets, attestation>>
    BY <1>2 DEF ServerMsg01, ServerMsg3, GiveUp
  <2>2. UNCHANGED <<secrets, enclaveKey, enclaveTimes, enclaveRenewals, raKeyServer, listener,
                    update, clients, entering, serving, arrivals, leftEarly>>
    BY <1>2 DEF ServerMsg01, ServerMsg3, GiveUp
  <2>3. keySet' \in BOOLEAN /\ late' \in BOOLEAN /\ refused' \in BOOLEAN
    BY <1>2, Zenon DEF ServerMsg01, ServerMsg3, GiveUp
  <2> QED BY <2>1, <2>2, <2>3
<1>3. CASE EnclaveMsg2
  <2>1. link' \in {"msg3", "silent"} /\ raKeyServer' \in {raKeyServer, "attest", "dead"}
    BY <1>3 DEF EnclaveMsg2, DeleteListener
  <2>2. UNCHANGED <<storage, enclave, update, clientThreads, attestation>>
    BY <1>3 DEF EnclaveMsg2
  <2>3. refused' \in BOOLEAN /\ listener' \in BOOLEAN
    BY <1>3, Zenon DEF EnclaveMsg2, DeleteListener
  <2> QED BY <2>1, <2>2, <2>3
<1>4. CASE EnclaveMsg4 BY <1>4 DEF EnclaveMsg4
<1>5. CASE EnclaveSecrets
  <2>1. /\ link' = "none" /\ secrets' = attestation /\ enclaveRenewals' = 0
        /\ raKeyServer' \in {"listen", "dead"} /\ update' \in {update, "ready"}
        /\ UNCHANGED <<storage, enclaveKey, enclaveTimes, clientThreads, attestation, refused>>
    BY <1>5 DEF EnclaveSecrets, DeleteListener
  <2>2. listener' \in BOOLEAN
    BY <1>5, Zenon DEF EnclaveSecrets, DeleteListener
  <2> QED BY <2>1, <2>2
<1>6. CASE Accept BY <1>6 DEF Accept
<1>7. CASE RenewEnclaveKey BY <1>7 DEF RenewEnclaveKey, EnclaveKey
<1>8. CASE ServerCheck \/ ServerBegin
  <2>1. /\ serverUpdate' \in {"checked", "hashing", serverUpdate}
        /\ serverSecrets' \in {session, serverSecrets} /\ raServer' \in {"dead", raServer}
        /\ UNCHANGED <<session, exchangeKey, serverTimes, serverRenewals, late, enclave, keyServer,
                       link, attestation, refused>>
    BY <1>8 DEF ServerCheck, ServerBegin
  <2>2. keySet' \in BOOLEAN
    BY <1>8, Zenon DEF ServerCheck, ServerBegin
  <2> QED BY <2>1, <2>2
<1>9. CASE ServerWriteKey BY <1>9 DEF ServerWriteKey, ServerKey
<1>10. CASE ServerRenew BY <1>10 DEF ServerRenew
<1>11. CASE Timer
  <2>1. /\ raServer' \in {"request", "dead", raServer} /\ exchangeKey' \in {ZeroKey, exchangeKey}
        /\ update' \in {"ready", update} /\ serverUpdate' \in {"idle", serverUpdate}
        /\ UNCHANGED <<session, serverTimes, serverSecrets, serverRenewals, enclave, raKeyServer,
                       listener, clientThreads, link, attestation, refused>>
    BY <1>11 DEF Timer, Expire, WakeEnclave, WakeServer
  <2>2. keySet' \in BOOLEAN
    BY <1>11, Zenon DEF Timer, Expire, WakeEnclave, WakeServer
  <2>3. late' \in BOOLEAN
    <3>1. CASE Expire BY <3>1 DEF Expire
    <3>2. CASE WakeEnclave \/ WakeServer BY <3>2, Zenon DEF WakeEnclave, WakeServer
    <3> QED BY <1>11, <3>1, <3>2 DEF Timer
  <2> QED BY <2>1, <2>2, <2>3
<1>12. CASE ClientComes \/ LoginEnds \/ ClientGoes
  <2>1. leftEarly' \in BOOLEAN
    BY <1>12, Zenon DEF ClientComes, LoginEnds, ClientLogsIn, ClientLeavesEarly, ClientGoes
  <2> QED BY <1>12, <2>1 DEF ClientComes, LoginEnds, ClientLogsIn, ClientLeavesEarly, ClientGoes
<1>13. CASE UNCHANGED renewalVars BY <1>13 DEF renewalVars
<1> QED BY <1>1, <1>2, <1>3, <1>4, <1>5, <1>6, <1>7, <1>8, <1>9, <1>10, <1>11, <1>12, <1>13
        DEF RenewalNext, AttestEnclave, Renew

LEMMA NextAttesting ==
  ASSUME RInv, [RenewalNext]_renewalVars
  PROVE  Attesting'
<1> USE RenewalSets DEF RInv, Arrived, RenewalTypeOK, Attesting,
           storage, enclave, clientThreads, keyServer
<1>1. CASE Connect BY <1>1 DEF Connect
<1>2. CASE ServerMsg01 BY <1>2 DEF ServerMsg01, GiveUp
<1>3. CASE EnclaveMsg2 BY <1>3 DEF EnclaveMsg2, DeleteListener
<1>4. CASE ServerMsg3 BY <1>4 DEF ServerMsg3, GiveUp
<1>5. CASE EnclaveMsg4 BY <1>5 DEF EnclaveMsg4
<1>6. CASE EnclaveSecrets BY <1>6 DEF EnclaveSecrets, DeleteListener
<1>7. CASE Accept BY <1>7 DEF Accept
<1>8. CASE RenewEnclaveKey BY <1>8 DEF RenewEnclaveKey, EnclaveKey
<1>9. CASE ServerCheck \/ ServerBegin BY <1>9 DEF ServerCheck, ServerBegin
<1>10. CASE ServerWriteKey BY <1>10 DEF ServerWriteKey, ServerKey
<1>11. CASE ServerRenew BY <1>11 DEF ServerRenew
<1>12. CASE Timer BY <1>12 DEF Timer, Expire, WakeEnclave, WakeServer
<1>13. CASE ClientComes \/ LoginEnds \/ ClientGoes BY <1>13 DEF ClientComes, LoginEnds, ClientLogsIn, ClientLeavesEarly, ClientGoes
<1>14. CASE UNCHANGED renewalVars BY <1>14 DEF renewalVars
<1> QED BY <1>1, <1>2, <1>3, <1>4, <1>5, <1>6, <1>7, <1>8,
        <1>9, <1>10, <1>11, <1>12, <1>13, <1>14
        DEF RenewalNext, AttestEnclave, Renew

LEMMA NextFirstTimes ==
  ASSUME RInv, [RenewalNext]_renewalVars
  PROVE  FirstTimes'
<1> USE RenewalSets DEF RInv, Arrived, RenewalTypeOK, Attesting, FirstTimes,
           storage, enclave, clientThreads, keyServer
<1>1. CASE Connect BY <1>1 DEF Connect
<1>2. CASE ServerMsg01 BY <1>2 DEF ServerMsg01, GiveUp
<1>3. CASE EnclaveMsg2 BY <1>3 DEF EnclaveMsg2, DeleteListener
<1>4. CASE ServerMsg3 BY <1>4 DEF ServerMsg3, GiveUp
<1>5. CASE EnclaveMsg4 BY <1>5 DEF EnclaveMsg4
<1>6. CASE EnclaveSecrets BY <1>6 DEF EnclaveSecrets, DeleteListener
<1>7. CASE Accept BY <1>7 DEF Accept
<1>8. CASE RenewEnclaveKey BY <1>8 DEF RenewEnclaveKey, EnclaveKey
<1>9. CASE ServerCheck \/ ServerBegin BY <1>9 DEF ServerCheck, ServerBegin
<1>10. CASE ServerWriteKey BY <1>10 DEF ServerWriteKey, ServerKey
<1>11. CASE ServerRenew BY <1>11 DEF ServerRenew
<1>12. CASE Timer BY <1>12 DEF Timer, Expire, WakeEnclave, WakeServer
<1>13. CASE ClientComes \/ LoginEnds \/ ClientGoes BY <1>13 DEF ClientComes, LoginEnds, ClientLogsIn, ClientLeavesEarly, ClientGoes
<1>14. CASE UNCHANGED renewalVars BY <1>14 DEF renewalVars
<1> QED BY <1>1, <1>2, <1>3, <1>4, <1>5, <1>6, <1>7, <1>8,
        <1>9, <1>10, <1>11, <1>12, <1>13, <1>14
        DEF RenewalNext, AttestEnclave, Renew

LEMMA NextKeysMade ==
  ASSUME RInv, [RenewalNext]_renewalVars
  PROVE  KeysMade'
<1> USE RenewalSets DEF RInv, Arrived, RenewalTypeOK, Attesting, KeysMade, MadeOf,
           storage, enclave, clientThreads, keyServer
<1>1. CASE Connect BY <1>1 DEF Connect
<1>2. CASE ServerMsg01 BY <1>2 DEF ServerMsg01, GiveUp
<1>3. CASE EnclaveMsg2 BY <1>3 DEF EnclaveMsg2, DeleteListener
<1>4. CASE ServerMsg3 BY <1>4 DEF ServerMsg3, GiveUp
<1>5. CASE EnclaveMsg4 BY <1>5 DEF EnclaveMsg4
<1>6. CASE EnclaveSecrets BY <1>6 DEF EnclaveSecrets, DeleteListener
<1>7. CASE Accept BY <1>7 DEF Accept
<1>8. CASE RenewEnclaveKey BY <1>8 DEF RenewEnclaveKey, EnclaveKey
<1>9. CASE ServerCheck \/ ServerBegin BY <1>9 DEF ServerCheck, ServerBegin
<1>10. CASE ServerWriteKey BY <1>10 DEF ServerWriteKey, ServerKey
<1>11. CASE ServerRenew BY <1>11 DEF ServerRenew
<1>12. CASE Timer BY <1>12 DEF Timer, Expire, WakeEnclave, WakeServer
<1>13. CASE ClientComes \/ LoginEnds \/ ClientGoes BY <1>13 DEF ClientComes, LoginEnds, ClientLogsIn, ClientLeavesEarly, ClientGoes
<1>14. CASE UNCHANGED renewalVars BY <1>14 DEF renewalVars
<1> QED BY <1>1, <1>2, <1>3, <1>4, <1>5, <1>6, <1>7, <1>8,
        <1>9, <1>10, <1>11, <1>12, <1>13, <1>14
        DEF RenewalNext, AttestEnclave, Renew

LEMMA NextWithdrawn ==
  ASSUME RInv, [RenewalNext]_renewalVars
  PROVE  Withdrawn'
<1> USE DEF RInv, Withdrawn, storage, enclave, clientThreads, keyServer
<1>1. CASE Connect BY <1>1 DEF Connect
<1>2. CASE ServerMsg01 BY <1>2 DEF ServerMsg01, GiveUp
<1>3. CASE EnclaveMsg2 BY <1>3 DEF EnclaveMsg2, DeleteListener
<1>4. CASE ServerMsg3 BY <1>4 DEF ServerMsg3, GiveUp
<1>5. CASE EnclaveMsg4 BY <1>5 DEF EnclaveMsg4
<1>6. CASE EnclaveSecrets BY <1>6 DEF EnclaveSecrets, DeleteListener
<1>7. CASE Accept BY <1>7 DEF Accept
<1>8. CASE RenewEnclaveKey BY <1>8 DEF RenewEnclaveKey, EnclaveKey
<1>9. CASE ServerCheck \/ ServerBegin BY <1>9 DEF ServerCheck, ServerBegin
<1>10. CASE ServerWriteKey BY <1>10 DEF ServerWriteKey, ServerKey
<1>11. CASE ServerRenew BY <1>11 DEF ServerRenew
<1>12. CASE Timer BY <1>12 DEF Timer, Expire, WakeEnclave, WakeServer
<1>13. CASE ClientComes \/ LoginEnds \/ ClientGoes BY <1>13 DEF ClientComes, LoginEnds, ClientLogsIn, ClientLeavesEarly, ClientGoes
<1>14. CASE UNCHANGED renewalVars BY <1>14 DEF renewalVars
<1> QED BY <1>1, <1>2, <1>3, <1>4, <1>5, <1>6, <1>7, <1>8,
        <1>9, <1>10, <1>11, <1>12, <1>13, <1>14
        DEF RenewalNext, AttestEnclave, Renew

LEMMA NextRInv ==
  RInv /\ [RenewalNext]_renewalVars => RInv'
BY NextArrived, NextAttesting, NextFirstTimes, NextKeysMade, NextWithdrawn DEF RInv

THEOREM RenewalInvariance == RenewalSpec => []RInv
<1>1. RenewalInit => RInv
  BY InitRInv
<1>2. RInv /\ [RenewalNext]_renewalVars => RInv'
  BY NextRInv
<1> QED BY <1>1, <1>2, PTL DEF RenewalSpec

(* Every variable of a renewal keeps its type, for any number of hashes,   *)
(* attestations and client connections.                                    *)
THEOREM RenewalTypes == RenewalSpec => []RenewalTypeOK
<1>1. RInv => RenewalTypeOK
  BY DEF RInv, Arrived
<1> QED BY <1>1, RenewalInvariance, PTL

(* Whatever attestations are refused and whenever the two clocks go off,   *)
(* both ends hold the secrets of one attestation once it is over. When they*)
(* have then renewed the key equally often, their keys are equal exactly if*)
(* their counters are and the last renewal was not that of n = 0; while it *)
(* is the first attestation, only that renewal makes them differ.          *)
THEOREM SecretsAgree == RenewalSpec => []SameSecrets
<1>1. ASSUME RInv
      PROVE  SameSecrets
  <2> USE RenewalSets DEF RInv, Arrived, RenewalTypeOK
  <2>1. /\ link = "none" /\ raServer = "alive" => session = secrets
        /\ secrets # 0 => secrets = attestation
    BY <1>1 DEF Attesting
  <2>2. ASSUME RenewedAlike
        PROVE  exchangeKey = enclaveKey <=> serverTimes = enclaveTimes /\ serverTimes >= 0
    <3>1. exchangeKey = MadeOf(serverTimes + 1)
      BY <1>1, <2>2 DEF RenewedAlike, KeysMade
    <3>2. enclaveKey = [ra |-> session, n |-> enclaveTimes + 1] /\ enclaveKey \in SessionKey
      BY <1>1, <2>2, KeysApart DEF RenewedAlike, KeysMade
    <3> QED BY <1>1, <3>1, <3>2, KeysApart DEF MadeOf
  <2>3. ASSUME RenewedAlike, secrets = 1
        PROVE  serverTimes = enclaveTimes /\ (serverTimes >= 0 <=> enclaveRenewals <= MaxTimes)
    BY <1>1, <2>1, <2>3 DEF RenewedAlike, FirstTimes
  <2> QED BY <2>1, <2>2, <2>3 DEF SameSecrets
<1> QED BY <1>1, RenewalInvariance, PTL

(* No client is given a key of expired secrets, but for a renewal that was *)
(* under way at the expiry or is the first after the next attestation.     *)
THEOREM KeysWithdrawn == RenewalSpec => []KeyOfSession
<1>1. ASSUME RInv
      PROVE  KeyOfSession
  <2>1. keySet /\ raServer \in {"listen", "attest", "request"} => late
    BY <1>1 DEF RInv, Withdrawn
  <2>2. ASSUME raServer = "alive", serverRenewals > 0
        PROVE  exchangeKey = Uninitialised \/ exchangeKey.ra = session
    BY <1>1, <2>2, RenewalSets
       DEF RInv, Arrived, RenewalTypeOK, Attesting, KeysMade, MadeOf
  <2> QED BY <2>1, <2>2 DEF KeyOfSession
<1> QED BY <1>1, RenewalInvariance, PTL
=============================================================================
