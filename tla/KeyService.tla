----------------------------- MODULE KeyService -----------------------------
(***************************************************************************)
(* The key service of an upload: KeyClient in each client, the threads of  *)
(* the key server (one per connection, the one that generates the offline  *)
(* masks, the renewal of the session key, the renewed attestation) and the *)
(* per-client table clientList_ of the key enclave.                        *)
(*                                                                         *)
(* Both ends of a session mask what they exchange with the key stream of   *)
(* (session key, nonce, counter) and must stay on the same counter: the    *)
(* client keeps counter_ (in .keyGenStore between uploads), the enclave    *)
(* keyGenerateCounter + currentKeyGenerateCounter. A request of n hashes   *)
(* moves both by 4 * n: 2 * n counters mask the request, 2 * n the reply.  *)
(* The HMAC only covers the masked bytes, so two ends on different         *)
(* counters exchange wrong keys in silence.                                *)
(*                                                                         *)
(* A thread of the key server serves one connection, and a connection is   *)
(* one run of a client; both are numbered 1, 2, ... in the order they open.*)
(* blame is a history variable: what has happened in the current session   *)
(* of a client that is known to break the agreement.                       *)
(***************************************************************************)
EXTENDS Naturals, FiniteSets, Sequences

CONSTANTS Client,        \* client IDs
          Nonce,         \* values of the 12-byte nonce
          Batch,         \* hashes in a request (at most keyBatchSize_)
          MaskCap,       \* counters the offline masks cover
          MaxSession,    \* connections in a behaviour
          MaxCounter,    \* bound of counter_
          MaxFault,      \* kills, renewals and attestations in a behaviour
          Nothing

Session == 1 .. MaxSession
Key == 0 .. MaxFault

(* The key stream from counter `at` on: what either end computes.          *)
Stream == [key : Key, nonce : Nonce, at : Nat]
Junk == [key |-> Nothing, nonce |-> Nothing, at |-> 0]
StreamOrJunk == Stream \cup {Junk}

(* The messages of a connection, to the key server and to the client, what *)
(* ecall_keygen_ctr has in its local variables (the two counters are `at`  *)
(* and that of base, the stream it started from), and an entry of          *)
(* clientList_.                                                            *)
LoginRequest == [kind : {"login"}, key : Key, nonce : Nonce, counter : Nat,
                 drawn : BOOLEAN]
KeyRequest == [kind : {"hashes"}, key : Key, n : Batch, under : Stream]
LoginReply == [kind : {"SUCCESS", "CLIENT_COUNTER_REST", "NONCE_HAS_USED",
                       "ERROR_RESEND"}]
NoKeys == [kind |-> "keys", key |-> Nothing]
KeyReply == [kind : {"keys"}, key : Key, right : BOOLEAN, mask : StreamOrJunk]
Snapshot == [n : Batch, under : Stream, unmask : StreamOrJunk, base : Stream,
             at : Nat, mask : StreamOrJunk, masked : BOOLEAN]
Info == [nonce : Nonce, keyGenerateCounter : Nat,
         currentKeyGenerateCounter : Nat, offline : BOOLEAN]

ASSUME KeyServiceAssumption ==
  /\ IsFiniteSet(Client) /\ Client # {}
  /\ Batch \subseteq Nat \ {0}
  /\ MaskCap \in Nat /\ MaxSession \in Nat /\ MaxCounter \in Nat
  /\ MaxFault \in Nat
  /\ Nothing \notin Nonce /\ Nothing \notin Key
  /\ Nothing \notin LoginRequest /\ Nothing \notin KeyRequest
  /\ Nothing \notin LoginReply /\ Nothing \notin KeyReply /\ Nothing # NoKeys
  /\ Nothing \notin Snapshot /\ Nothing \notin Info
  /\ Nothing \notin [nonce : Nonce, counter : Nat]

Cause == {"staleMasks", "endOfMasks", "lostNonce", "overtaken"}

VARIABLES
  \* the clients
  cpc,          \* how far KeyClient::run of the running upload is
  conn,         \* the connection of the running upload
  nonce,        \* nonce_
  counter,      \* counter_
  clientKey,    \* keyExchangeKey_, fetched when the upload started
  asked,        \* hashes in the outstanding request
  store,        \* .keyGenStore
  torn,         \* clients whose .keyGenStore was cut short: it is not read
  drawn,        \* the nonce was drawn by the running upload
  \* the connections
  owner,        \* the client of each connection
  open,         \* connections the client still holds
  up, down,     \* the message on its way to the key server, to the client
  \* the key server
  thread,       \* how far runKeyGenerateThread of each connection is
  snapshot,     \* what ecall_keygen_ctr has read and not yet answered
  clientThreadCount, offlineGenerateFlag,
  raThread,     \* how far runRAwithSPRequest is
  maskThread,   \* how far runCTRModeMaskGenerate is
  maskStream,   \* the stream it generates
  \* the key enclave
  trusted,      \* the enclave exists and is attested
  sessionKey,   \* currentSessionKey_
  clientList,   \* clientList_
  masks,        \* nextEncryptionMaskSet_: the stream it holds
  \* the bound on faults, and history
  faults,
  blame

clientVars == <<cpc, conn, nonce, counter, clientKey, asked, store, torn, drawn>>
netVars == <<owner, open, up, down>>
serverVars == <<thread, snapshot, clientThreadCount, offlineGenerateFlag,
                raThread, maskThread, maskStream>>
enclaveVars == <<trusted, sessionKey, clientList, masks>>
vars == <<clientVars, netVars, serverVars, enclaveVars, faults, blame>>

-----------------------------------------------------------------------------
Known == {c \in Client : clientList[c] # Nothing}

Total(c) == clientList[c].keyGenerateCounter
              + clientList[c].currentKeyGenerateCounter

(* A bug: only the client that logs in has its counters folded.            *)
FoldOne(list, c) ==
  [d \in Client |->
     IF d = c /\ list[d] # Nothing
     THEN [list[d] EXCEPT
             !.keyGenerateCounter = list[d].currentKeyGenerateCounter,
             !.currentKeyGenerateCounter = 0]
     ELSE list[d]]

(* What ecall_clientStatusModify does to every client it knows before it   *)
(* looks at the message of client c.                                       *)
Fold(list, c) ==
  [d \in Client |->
     IF list[d] = Nothing THEN Nothing
     ELSE [list[d] EXCEPT
             !.keyGenerateCounter = @ + list[d].currentKeyGenerateCounter,
             !.currentKeyGenerateCounter = 0]]

NewInfo(x) == [nonce |-> x, keyGenerateCounter |-> 0,
               currentKeyGenerateCounter |-> 0, offline |-> FALSE]

(* keyExchangeCTRBaseGenerate: the stream of a key and a nonce from block  *)
(* n on.                                                                   *)
CTRBase(k, x, n) == [key |-> k, nonce |-> x, at |-> n]

(* The masks the enclave holds are those client c's counters point into.   *)
MasksFit(c) ==
  masks = CTRBase(sessionKey, clientList[c].nonce, clientList[c].keyGenerateCounter)

(* The test of ecall_keygen_ctr on the offline masks for the request. That *)
(* for the reply reads offlineFlag again, and its size test lets a reply   *)
(* through that starts inside the masks and ends outside.                  *)
RequestOffline(c, n) ==
  /\ clientList[c].offline
  /\ clientList[c].currentKeyGenerateCounter + 4 * n < MaskCap

ReplyOffline(c, s) == clientList[c].offline /\ s.at + 2 * s.n < MaskCap
PastMasks(s) == s.at + 4 * s.n > MaskCap

Shift(s, d) == IF s.key = Nothing THEN s ELSE [s EXCEPT !.at = @ + d]

(* The stream the enclave unmasks a request of n hashes with. The array    *)
(* mask[] then holds that of the reply too, or nothing when the masks were *)
(* taken.                                                                  *)
RequestStream(c, n) ==
  IF RequestOffline(c, n)
  THEN Shift(masks, clientList[c].currentKeyGenerateCounter)
  ELSE CTRBase(sessionKey, clientList[c].nonce, Total(c))

LocalMask(c, n) ==
  IF RequestOffline(c, n) THEN Junk
  ELSE CTRBase(sessionKey, clientList[c].nonce, Total(c) + 2 * n)

(* What the client masks its request with and unmasks the reply with.      *)
ClientStream(c, d) == CTRBase(clientKey[c], nonce[c], counter[c] + d)

-----------------------------------------------------------------------------
Init ==
  /\ cpc = [c \in Client |-> "off"]
  /\ conn = [c \in Client |-> 0]
  /\ nonce = [c \in Client |-> Nothing]
  /\ counter = [c \in Client |-> 0]
  /\ clientKey = [c \in Client |-> 0]
  /\ asked = [c \in Client |-> 0]
  /\ store = [c \in Client |-> Nothing]
  /\ torn = {}
  /\ drawn = [c \in Client |-> FALSE]
  /\ owner = << >>
  /\ open = {}
  /\ up = [t \in Session |-> Nothing]
  /\ down = [t \in Session |-> Nothing]
  /\ thread = [t \in Session |-> "none"]
  /\ snapshot = [t \in Session |-> Nothing]
  /\ clientThreadCount = 0
  /\ offlineGenerateFlag = FALSE
  /\ raThread = "idle"       \* runRemoteAttestationInit has returned
  /\ maskThread = "idle"
  /\ maskStream = Junk
  /\ trusted = TRUE
  /\ sessionKey = 0
  /\ clientList = [c \in Client |-> Nothing]
  /\ masks = Junk            \* zeroed by ecall_setCTRMode
  /\ faults = 0
  /\ blame = [c \in Client |-> {}]

-----------------------------------------------------------------------------
(***************************************************************************)
(* The client: KeyClient.                                                  *)
(***************************************************************************)

(* An upload starts: the key of the storage server, which steps on its own *)
(* clock and may be one renewal ahead or behind, and the connection.       *)
Start(c) ==
  LET t == Len(owner) + 1
  IN
  /\ cpc[c] = "off" /\ t \in Session
  /\ \E k \in Key :
       /\ k <= sessionKey + 1 /\ sessionKey <= k + 1
       /\ clientKey' = [clientKey EXCEPT ![c] = k]
  /\ cpc' = [cpc EXCEPT ![c] = "init"]
  /\ conn' = [conn EXCEPT ![c] = t]
  /\ owner' = Append(owner, c)
  /\ open' = open \cup {t}
  /\ UNCHANGED <<faults, nonce, counter, asked, store, torn, drawn, up, down,
                 serverVars, enclaveVars, blame>>

(* The login message carries counter and nonce under the client's key.     *)
LoginMessage(c, x, n, d) ==
  [kind |-> "login", key |-> clientKey[c], nonce |-> x, counter |-> n,
   drawn |-> d]

(* initClientCTRInfo with the stored nonce and counter, or with a drawn    *)
(* nonce (srand(time(NULL))) and the counter_ of a new object.             *)
Login(c) ==
  /\ cpc[c] = "init" /\ c \notin torn
  /\ \/ /\ store[c] # Nothing
        /\ nonce' = [nonce EXCEPT ![c] = store[c].nonce]
        /\ counter' = [counter EXCEPT ![c] = store[c].counter]
        /\ drawn' = [drawn EXCEPT ![c] = FALSE]
     \/ /\ store[c] = Nothing
        /\ \E x \in Nonce : nonce' = [nonce EXCEPT ![c] = x]
        /\ counter' = [counter EXCEPT ![c] = 0]
        /\ drawn' = [drawn EXCEPT ![c] = TRUE]
  /\ up' = [up EXCEPT ![conn[c]] = LoginMessage(c, nonce'[c], counter'[c], drawn'[c])]
  /\ cpc' = [cpc EXCEPT ![c] = "login"]
  /\ UNCHANGED <<faults, conn, clientKey, asked, store, torn, owner, open, down,
                 serverVars, enclaveVars, blame>>

(* The process is gone: what it held and what was on its way to it.        *)
Exit(c) ==
  /\ cpc' = [cpc EXCEPT ![c] = "off"]
  /\ conn' = [conn EXCEPT ![c] = 0]
  /\ nonce' = [nonce EXCEPT ![c] = Nothing]
  /\ counter' = [counter EXCEPT ![c] = 0]
  /\ clientKey' = [clientKey EXCEPT ![c] = 0]
  /\ asked' = [asked EXCEPT ![c] = 0]
  /\ drawn' = [drawn EXCEPT ![c] = FALSE]
  /\ open' = open \ {conn[c]}
  /\ down' = [down EXCEPT ![conn[c]] = Nothing]
  /\ UNCHANGED <<owner, up, serverVars, enclaveVars>>

(* A stored file of another size than 16 bytes: the client exits, at this  *)
(* upload and at every later one.                                          *)
LoginFails(c) ==
  /\ cpc[c] = "init" /\ c \in torn
  /\ Exit(c)
  /\ blame' = [blame EXCEPT ![c] = @ \cap {"lostNonce"}]
  /\ UNCHANGED <<faults, store, torn>>

(* The answer to the login: SUCCESS and CLIENT_COUNTER_REST start the      *)
(* session; NONCE_HAS_USED and ERROR_RESEND draw another nonce and try     *)
(* again under the same key.                                               *)
LoginDone(c) ==
  /\ cpc[c] = "login"
  /\ down[conn[c]] # Nothing
  /\ down[conn[c]].kind \in {"SUCCESS", "CLIENT_COUNTER_REST"}
  /\ counter' = IF down[conn[c]].kind = "SUCCESS" THEN counter
                ELSE [counter EXCEPT ![c] = 0]
  /\ cpc' = [cpc EXCEPT ![c] = "ready"]
  /\ down' = [down EXCEPT ![conn[c]] = Nothing]
  /\ UNCHANGED <<faults, conn, nonce, clientKey, asked, store, torn, drawn, owner, open, up,
                 serverVars, enclaveVars, blame>>

LoginRetry(c, x) ==
  /\ cpc[c] = "login"
  /\ down[conn[c]] # Nothing
  /\ down[conn[c]].kind \in {"NONCE_HAS_USED", "ERROR_RESEND"}
  /\ nonce' = [nonce EXCEPT ![c] = x]
  /\ up' = [up EXCEPT ![conn[c]] = LoginMessage(c, x, counter[c], TRUE)]
  /\ drawn' = [drawn EXCEPT ![c] = TRUE]
  /\ down' = [down EXCEPT ![conn[c]] = Nothing]
  /\ UNCHANGED <<faults, cpc, conn, counter, clientKey, asked, store, torn, owner, open,
                 serverVars, enclaveVars, blame>>

(* keyExchange sends a batch of hashes, masked and under the HMAC.         *)
Ask(c, n) ==
  /\ cpc[c] = "ready"
  /\ counter[c] + 4 * n <= MaxCounter
  /\ up' = [up EXCEPT ![conn[c]] =
              [kind |-> "hashes", key |-> clientKey[c], n |-> n,
               under |-> ClientStream(c, 0)]]
  /\ asked' = [asked EXCEPT ![c] = n]
  /\ cpc' = [cpc EXCEPT ![c] = "asked"]
  /\ UNCHANGED <<faults, conn, nonce, counter, clientKey, store, torn, drawn, owner, open,
                 down, serverVars, enclaveVars, blame>>

(* A reply the client's HMAC accepts.                                      *)
Verified(c) ==
  /\ down[conn[c]] # Nothing
  /\ down[conn[c]].kind = "keys"
  /\ down[conn[c]].key = clientKey[c]

(* counter_ moves whether or not keyExchange succeeded; after a failure    *)
(* run() returns and saves nothing.                                        *)
TakeKeys(c) ==
  /\ cpc[c] = "asked"
  /\ down[conn[c]] # Nothing
  /\ cpc' = [cpc EXCEPT ![c] = IF Verified(c) THEN "ready" ELSE "stuck"]
  /\ counter' = [counter EXCEPT ![c] = @ + 4 * asked[c]]
  /\ asked' = [asked EXCEPT ![c] = 0]
  /\ down' = [down EXCEPT ![conn[c]] = Nothing]
  /\ UNCHANGED <<faults, conn, nonce, clientKey, store, torn, drawn, owner, open, up,
                 serverVars, enclaveVars, blame>>

(* The end of the upload: saveClientCTRInfo, and the process exits.        *)
Finish(c) ==
  /\ cpc[c] = "ready"
  /\ store' = [store EXCEPT ![c] = [nonce |-> nonce[c], counter |-> counter[c]]]
  /\ Exit(c)
  /\ blame' = [blame EXCEPT ![c] = @ \cap {"lostNonce"}]
  /\ UNCHANGED <<faults, torn>>

Fault == faults < MaxFault /\ faults' = faults + 1

(* The client is killed: nothing is saved, or the save has emptied the file*)
(* and not written it. A message on its way arrives.                       *)
Kill(c) ==
  /\ cpc[c] # "off" /\ Fault
  /\ Exit(c)
  /\ blame' = [blame EXCEPT ![c] =
       IF cpc[c] = "init" \/ (store[c] # Nothing /\ store[c].nonce = nonce[c])
       THEN @ \cap {"lostNonce"} ELSE {"lostNonce"}]
  /\ \/ UNCHANGED torn
     \/ cpc[c] = "ready" /\ torn' = torn \cup {c}
  /\ UNCHANGED store

-----------------------------------------------------------------------------
(***************************************************************************)
(* The key server: runKeyGenerateThread of connection t.                   *)
(***************************************************************************)
CountLocked == maskThread = "filling"   \* multiThreadCountMutex_ is held

Serve(t) ==
  /\ t <= Len(owner) /\ thread[t] = "none"
  /\ ~ CountLocked
  /\ thread' = [thread EXCEPT ![t] = "login"]
  /\ clientThreadCount' = clientThreadCount + 1
  /\ offlineGenerateFlag' = FALSE
  /\ UNCHANGED <<faults, clientVars, netVars, snapshot, raThread, maskThread, maskStream,
                 enclaveVars, blame>>

(* ecall_clientStatusModify: the answer and the new clientList_.           *)
NonceUsed(c, x) == \E d \in Known \ {c} : clientList[d].nonce = x

LoginAnswer(c, m) ==
  IF m.key # sessionKey THEN "ERROR_RESEND"
  ELSE IF c \notin Known
  THEN IF NonceUsed(c, m.nonce) THEN "NONCE_HAS_USED"
       ELSE IF m.counter = 0 THEN "SUCCESS" ELSE "CLIENT_COUNTER_REST"
  ELSE IF Total(c) = m.counter THEN "SUCCESS" ELSE "CLIENT_COUNTER_REST"

(* The message's nonce and counter 0 become those of the client.           *)
TakesNonce(c, m) ==
  \/ LoginAnswer(c, m) = "CLIENT_COUNTER_REST"
  \/ LoginAnswer(c, m) = "SUCCESS" /\ c \notin Known

LoginList(c, m) ==
  LET list == Fold(clientList, c)
  IN  IF TakesNonce(c, m) THEN [list EXCEPT ![c] = NewInfo(m.nonce)] ELSE list

(* The session of client c, unless another has begun since (the message of *)
(* a client killed and started again may still arrive). The answer to a    *)
(* client with a drawn nonce may be SUCCESS: the counters are compared, the*)
(* nonces are not.                                                         *)
Overtakes(t) ==
  /\ conn[owner[t]] \notin {0, t}
  /\ thread[conn[owner[t]]] \in {"serve", "keygen"}

LoginStep(t) ==
  LET c == owner[t]
      m == up[t]
      answer == LoginAnswer(c, m)
  IN
  /\ thread[t] = "login"
  /\ m # Nothing /\ trusted
  /\ clientList' = LoginList(c, m)
  /\ up' = [up EXCEPT ![t] = Nothing]
  /\ down' = IF t \in open
             THEN [down EXCEPT ![t] = [kind |-> answer]] ELSE down
  /\ thread' = [thread EXCEPT ![t] =
                  IF answer \in {"SUCCESS", "CLIENT_COUNTER_REST"}
                  THEN "serve" ELSE @]
  /\ blame' = [blame EXCEPT ![c] =
       IF conn[c] = t /\ TakesNonce(c, m) THEN {}
       ELSE @ \cup {x \in {"lostNonce", "overtaken"} :
              \/ x = "lostNonce" /\ \/ conn[c] = t /\ answer = "SUCCESS" /\ m.drawn
                                    \/ conn[c] # t /\ TakesNonce(c, m)
              \/ x = "overtaken" /\ Overtakes(t)}]
  /\ UNCHANGED <<faults, clientVars, owner, open, snapshot, clientThreadCount,
                 offlineGenerateFlag, raThread, maskThread, maskStream, trusted,
                 sessionKey, masks>>

(* Two ways out before the session: the connection ends, or there is no    *)
(* enclave to ask. Neither takes the thread off the count.                 *)
LeaveEarly(t) ==
  /\ thread[t] = "login"
  /\ \/ up[t] = Nothing /\ t \notin open
     \/ up[t] # Nothing /\ ~ trusted
  /\ thread' = [thread EXCEPT ![t] = "leaked"]
  /\ UNCHANGED <<faults, clientVars, netVars, snapshot, clientThreadCount,
                 offlineGenerateFlag, raThread, maskThread, maskStream, enclaveVars,
                 blame>>

(* ecall_keygen_ctr up to the keys: the HMAC is checked, the counters are  *)
(* read and the request is unmasked. Without a verified request there are  *)
(* no keys, and the reply is an uninitialised buffer.                      *)
KeygenStart(t) ==
  LET c == owner[t]
      m == up[t]
      ok == trusted /\ m.key = sessionKey /\ c \in Known
  IN
  /\ thread[t] = "serve" /\ m # Nothing
  /\ up' = [up EXCEPT ![t] = Nothing]
  /\ thread' = [thread EXCEPT ![t] = "keygen"]
  /\ snapshot' = [snapshot EXCEPT ![t] =
       IF ok
       THEN [n |-> m.n, under |-> m.under, unmask |-> RequestStream(c, m.n),
             base |-> CTRBase(sessionKey, clientList[c].nonce,
                              clientList[c].keyGenerateCounter),
             at |-> clientList[c].currentKeyGenerateCounter,
             mask |-> LocalMask(c, m.n), masked |-> FALSE]
       ELSE Nothing]
  /\ blame' = IF conn[c] # t THEN blame
              ELSE [blame EXCEPT ![c] =
                (@ \ {"staleMasks", "endOfMasks"}) \cup
                {x \in {"staleMasks"} : ok /\ RequestOffline(c, m.n) /\ ~ MasksFit(c)}]
  /\ UNCHANGED <<faults, clientVars, owner, open, down, clientThreadCount,
                 offlineGenerateFlag, raThread, maskThread, maskStream, enclaveVars>>

(* The keys are derived and masked: offlineFlag and the masks may have     *)
(* changed since the request was unmasked. A reply past their end takes    *)
(* what lies behind them.                                                  *)
KeygenMask(t) ==
  LET c == owner[t]
      s == snapshot[t]
      offline == ReplyOffline(c, s)
  IN
  /\ thread[t] = "keygen" /\ s # Nothing /\ ~ s.masked
  /\ snapshot' = [snapshot EXCEPT ![t].masked = TRUE,
       ![t].mask = IF ~ offline THEN @
                   ELSE IF PastMasks(s) THEN Junk ELSE Shift(masks, s.at + 2 * s.n)]
  /\ blame' = IF conn[c] # t THEN blame
              ELSE [blame EXCEPT ![c] = @ \cup
                {x \in {"staleMasks", "endOfMasks"} :
                   \/ x = "staleMasks" /\ offline /\ masks # s.base
                   \/ x = "endOfMasks" /\ offline /\ PastMasks(s)}]
  /\ UNCHANGED <<faults, clientVars, netVars, thread, clientThreadCount,
                 offlineGenerateFlag, raThread, maskThread, maskStream, enclaveVars>>

(* A bug: the reply does not move the enclave's counter.                   *)
CountNothing(list, c, n) == list

(* currentKeyGenerateCounter += originalHashLen * 2 / 16                   *)
Count(list, c, n) ==
  IF list[c] = Nothing THEN list
  ELSE [list EXCEPT ![c].currentKeyGenerateCounter = @ + 4 * n]

(* The rest: the HMAC of the reply under the key of that moment, the       *)
(* counter, and the send. A send that fails ends the thread, without the   *)
(* offline masks being asked for.                                          *)
KeygenEnd(t) ==
  LET c == owner[t]
      s == snapshot[t]
  IN
  /\ thread[t] = "keygen" /\ (s # Nothing => s.masked)
  /\ clientList' = IF s = Nothing THEN clientList ELSE Count(clientList, c, s.n)
  /\ snapshot' = [snapshot EXCEPT ![t] = Nothing]
  /\ blame' = IF s # Nothing /\ Overtakes(t)
              THEN [blame EXCEPT ![c] = @ \cup {"overtaken"}] ELSE blame
  /\ \/ /\ t \in open
        /\ down' = [down EXCEPT ![t] =
             IF s = Nothing THEN NoKeys
             ELSE [kind |-> "keys", key |-> sessionKey,
                   right |-> s.unmask = s.under, mask |-> s.mask]]
        /\ thread' = [thread EXCEPT ![t] = "serve"]
        /\ UNCHANGED clientThreadCount
     \/ /\ t \notin open      \* the send goes nowhere and is not refused
        /\ thread' = [thread EXCEPT ![t] = "serve"]
        /\ UNCHANGED <<down, clientThreadCount>>
     \/ /\ t \notin open /\ ~ CountLocked
        /\ thread' = [thread EXCEPT ![t] = "gone"]
        /\ clientThreadCount' = clientThreadCount - 1
        /\ UNCHANGED down
  /\ UNCHANGED <<faults, clientVars, owner, open, up, offlineGenerateFlag, raThread,
                 maskThread, maskStream, trusted, sessionKey, masks>>

(* A bug: the thread of a connection that has ended stays counted.         *)
LeaveUncounted(t) ==
  /\ thread[t] = "serve"
  /\ up[t] = Nothing /\ t \notin open
  /\ thread' = [thread EXCEPT ![t] = "gone"]
  /\ offlineGenerateFlag' = TRUE
  /\ UNCHANGED <<clientVars, netVars, snapshot, clientThreadCount, raThread,
                 maskThread, maskStream, enclaveVars, faults, blame>>

(* The connection has ended.                                               *)
Leave(t) ==
  /\ thread[t] = "serve"
  /\ up[t] = Nothing /\ t \notin open
  /\ ~ CountLocked
  /\ thread' = [thread EXCEPT ![t] = "gone"]
  /\ clientThreadCount' = clientThreadCount - 1
  /\ offlineGenerateFlag' = TRUE
  /\ UNCHANGED <<clientVars, netVars, snapshot, raThread, maskThread, maskStream,
                 enclaveVars, faults, blame>>

-----------------------------------------------------------------------------
(***************************************************************************)
(* The other threads of the key server.                                    *)
(***************************************************************************)

(* runCTRModeMaskGenerate tests its three flags without a lock, ...        *)
raRequestFlag == raThread # "idle"

MaskCheck ==
  /\ maskThread = "idle"
  /\ ~ raRequestFlag /\ offlineGenerateFlag /\ clientThreadCount = 0
  /\ maskThread' = "wanted"
  /\ UNCHANGED <<faults, clientVars, netVars, thread, snapshot, clientThreadCount,
                 offlineGenerateFlag, raThread, maskStream, enclaveVars, blame>>

(* ... takes both locks and fills the masks for the first client of the    *)
(* table, whichever that is (MAX_SPECULATIVE_CLIENT_NUMBER is 1), marking  *)
(* the client before they are there ...                                    *)
MaskStart ==
  /\ maskThread = "wanted" /\ trusted
  /\ maskThread' = "filling"
  /\ \/ Known = {} /\ maskStream' = masks /\ UNCHANGED <<clientList, masks>>
     \/ \E c \in Known :
          /\ clientList' = [clientList EXCEPT ![c].offline = TRUE]
          /\ maskStream' = CTRBase(sessionKey, clientList[c].nonce, Total(c))
          /\ masks' = Junk
  /\ UNCHANGED <<faults, clientVars, netVars, thread, snapshot, clientThreadCount,
                 offlineGenerateFlag, raThread, trusted, sessionKey,
                 blame>>

(* ... and unsets the flag. Without an enclave nothing is generated.       *)
MaskEnd ==
  /\ \/ maskThread = "filling" /\ masks' = maskStream
     \/ maskThread = "wanted" /\ ~ trusted /\ UNCHANGED masks
  /\ maskThread' = "idle"
  /\ maskStream' = Junk
  /\ offlineGenerateFlag' = FALSE
  /\ UNCHANGED <<faults, clientVars, netVars, thread, snapshot, clientThreadCount,
                 raThread, trusted, sessionKey, clientList, blame>>

(* runSessionKeyUpdate, under mutexSessionKeyUpdate.                       *)
RenewSessionKey ==
  /\ maskThread # "filling" /\ trusted
  /\ Fault
  /\ sessionKey' = sessionKey + 1
  /\ UNCHANGED <<clientVars, netVars, serverVars, trusted, clientList, masks,
                 blame>>

(* runRAwithSPRequest: asked by the storage server, it waits until no      *)
(* thread is counted, and only looks: a client may connect after that.     *)
AskAttestation ==
  /\ raThread = "idle" /\ Fault
  /\ raThread' = "asked"
  /\ UNCHANGED <<clientVars, netVars, thread, snapshot, clientThreadCount,
                 offlineGenerateFlag, maskThread, maskStream, enclaveVars,
                 blame>>

NoClients ==
  /\ raThread = "asked" /\ clientThreadCount = 0
  /\ raThread' = "going"
  /\ UNCHANGED <<faults, clientVars, netVars, thread, snapshot, clientThreadCount,
                 offlineGenerateFlag, maskThread, maskStream, enclaveVars,
                 blame>>

(* kmClient::init destroys the enclave once its running calls have ended.  *)
DestroyEnclave ==
  /\ raThread = "going" /\ trusted
  /\ maskThread # "filling" /\ \A t \in Session : snapshot[t] = Nothing
  /\ trusted' = FALSE
  /\ clientList' = [c \in Client |-> Nothing]
  /\ masks' = Junk
  /\ UNCHANGED <<faults, clientVars, netVars, serverVars, sessionKey, blame>>

(* The new enclave has a session key of its own.                           *)
Attest ==
  /\ raThread = "going" /\ ~ trusted
  /\ trusted' = TRUE /\ raThread' = "idle"
  /\ sessionKey' = sessionKey + 1
  /\ UNCHANGED <<faults, clientVars, netVars, thread, snapshot, clientThreadCount,
                 offlineGenerateFlag, maskThread, maskStream, clientList, masks,
                 blame>>

-----------------------------------------------------------------------------
ClientStep(c) ==
  \/ Login(c) \/ LoginFails(c) \/ LoginDone(c) \/ TakeKeys(c)
  \/ \E x \in Nonce : LoginRetry(c, x)

ThreadStep(t) ==
  \/ Serve(t) \/ LoginStep(t) \/ LeaveEarly(t)
  \/ KeygenStart(t) \/ KeygenMask(t) \/ KeygenEnd(t) \/ Leave(t)

Next ==
  \/ \E c \in Client : Start(c) \/ ClientStep(c) \/ Finish(c) \/ Kill(c)
  \/ \E c \in Client, n \in Batch : Ask(c, n)
  \/ \E t \in Session : ThreadStep(t)
  \/ MaskCheck \/ MaskStart \/ MaskEnd
  \/ RenewSessionKey
  \/ AskAttestation \/ NoClients \/ DestroyEnclave \/ Attest

Spec == Init /\ [][Next]_vars

-----------------------------------------------------------------------------
(***************************************************************************)
(* Properties.                                                             *)
(***************************************************************************)
(* Every variable has its type, and the key server never counts a thread   *)
(* less than it serves.                                                    *)
Counted == {t \in Session : thread[t] \in {"login", "serve", "keygen", "leaked"}}

TypeOK ==
  /\ cpc \in [Client -> {"off", "init", "login", "ready", "asked", "stuck"}]
  /\ conn \in [Client -> {0} \cup Session]
  /\ nonce \in [Client -> Nonce \cup {Nothing}]
  /\ counter \in [Client -> Nat]
  /\ clientKey \in [Client -> Key]
  /\ asked \in [Client -> Batch \cup {0}]
  /\ drawn \in [Client -> BOOLEAN] /\ torn \subseteq Client
  /\ store \in [Client -> [nonce : Nonce, counter : Nat] \cup {Nothing}]
  /\ up \in [Session -> LoginRequest \cup KeyRequest \cup {Nothing}]
  /\ down \in [Session -> LoginReply \cup KeyReply \cup {NoKeys, Nothing}]
  /\ snapshot \in [Session -> Snapshot \cup {Nothing}]
  /\ owner \in Seq(Client) /\ Len(owner) <= MaxSession /\ open \subseteq 1 .. Len(owner)
  /\ thread \in [Session -> {"none", "login", "serve", "keygen", "leaked", "gone"}]
  /\ clientThreadCount = Cardinality(Counted)
  /\ offlineGenerateFlag \in BOOLEAN
  /\ raThread \in {"idle", "asked", "going"}
  /\ maskThread \in {"idle", "wanted", "filling"}
  /\ trusted \in BOOLEAN /\ sessionKey \in Key
  /\ clientList \in [Client -> Info \cup {Nothing}]
  /\ masks \in StreamOrJunk /\ maskStream \in StreamOrJunk
  /\ blame \in [Client -> SUBSET Cause]

(* While a session waits for its next request, both ends hold the same     *)
(* nonce and the same counter, whatever other clients log in meanwhile,    *)
(* unless the login took a nonce the enclave does not hold or an earlier   *)
(* connection of the client came in between (ecall_clientStatusModify,     *)
(* ecall_keygen_ctr, counter_).                                            *)
InStep ==
  \A c \in Known :
    /\ cpc[c] = "ready" /\ thread[conn[c]] = "serve"
    /\ blame[c] \cap {"lostNonce", "overtaken"} = {}
    => nonce[c] = clientList[c].nonce /\ counter[c] = Total(c)

(* The keys a client accepts are the keys of the hashes it sent: a reply   *)
(* that passes its HMAC was unmasked and masked with the client's own      *)
(* streams, and the only ways to wrong keys are the four causes.           *)
Right(c) ==
  /\ down[conn[c]].right
  /\ down[conn[c]].mask = ClientStream(c, 2 * asked[c])

OnlyKnownCauses ==
  \A c \in Client :
    cpc[c] = "asked" /\ Verified(c) /\ blame[c] = {} => Right(c)
=============================================================================
