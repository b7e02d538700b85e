----------------------------- MODULE KeyRenewal -----------------------------
(***************************************************************************)
(* How the storage server and the key enclave come to share the session    *)
(* key under which clients talk to the key server, and how they renew it.  *)
(*                                                                         *)
(* The key server attests its enclave to the storage server (kmClient::    *)
(* init, kmServer::authkm: four messages on one connection). Both ends then*)
(* hold the secrets sk and mk of that attestation and derive the session   *)
(* key by hashing them n times, n counting down from _keyRegressionMaxTimes*)
(* with every renewal: keyServer::runSessionKeyUpdate here, DataSR::       *)
(* runKeyServerSessionKeyUpdate there, each on its own clock. When the     *)
(* secrets have lived _raSessionKeylifeSpan the storage server asks for a  *)
(* new attestation (runKeyServerRemoteAttestation, runRAwithSPRequest).    *)
(*                                                                         *)
(* A session key is the attestation and the number of hashes it is made of.*)
(* The connections of this protocol are never closed (`free` of an SSL     *)
(* object leaves its socket open), so an end that gives up leaves the other*)
(* waiting: link is "silent" for good. While the storage server asks for a *)
(* new attestation, clients log in at the key server and leave it, and the *)
(* key server waits until it counts none.                                  *)
(***************************************************************************)
EXTENDS Integers

CONSTANTS MaxTimes,       \* _keyRegressionMaxTimes
          MaxAttestation, \* attestations in a behaviour
          MaxClient,      \* client connections in a behaviour
          ZeroKey,        \* the key of zeros
          Uninitialised   \* a hash buffer nothing was written to

ASSUME RenewalAssumption ==
  /\ MaxTimes \in Nat \ {0} /\ MaxAttestation \in Nat /\ MaxClient \in Nat

Attestation == 0 .. MaxAttestation      \* 0: none yet, secrets of zeros
Times == -1 .. MaxTimes   \* -1: wrapped around, the next renewal never ends
SessionKey == [ra : Attestation, n : 0 .. MaxTimes]

ASSUME KeysApart == ZeroKey \notin SessionKey /\ Uninitialised \notin SessionKey

VARIABLES
  \* the storage server
  raServer,      \* runKeyServerRemoteAttestation; "dead": the process is
  session,       \* keyServerSession_, 0 for nullptr
  keySet,        \* keyExchangeKeySetFlag_
  exchangeKey,   \* keyExchangeKey_
  serverTimes,   \* keyRegressionCurrentTimes_
  serverUpdate,  \* runKeyServerSessionKeyUpdate
  serverSecrets, \* the secrets it has read (hashDataTemp)
  \* the key server and its enclave
  raKeyServer,   \* runRemoteAttestationInit, then runRAwithSPRequest
  listener,      \* the object runRAwithSPRequest listens on still exists
  secrets,       \* sessionkey and macKey of the enclave, 0 for zeros
  enclaveKey,    \* currentSessionKey_
  enclaveTimes,  \* keyRegressionCurrentTimes_ of the enclave
  update,        \* runSessionKeyUpdate
  clients,       \* clientThreadCount_
  entering,      \* threads of runKeyGenerateThread before their client's login
  serving,       \* those after it
  arrivals,      \* client connections so far
  \* between them
  link,          \* the message under way on the attestation connection
  attestation,   \* attestations begun
  serverRenewals, enclaveRenewals,   \* history: renewals since attesting
  late,          \* history: a renewal was under way when the secrets expired
  refused,       \* history: one end has given up an attestation
  leftEarly      \* history: a client has left before its login was over

storage == <<raServer, session, keySet, exchangeKey, serverTimes, serverUpdate,
             serverSecrets, serverRenewals, late>>
enclave == <<secrets, enclaveKey, enclaveTimes, enclaveRenewals>>
clientThreads == <<clients, entering, serving, arrivals, leftEarly>>
keyServer == <<raKeyServer, listener, update, clientThreads>>
renewalVars == <<storage, enclave, keyServer, link, attestation, refused>>

RenewalInit ==
  /\ raServer = "listen" /\ session = 0
  /\ keySet = FALSE /\ exchangeKey = ZeroKey
  /\ serverTimes = MaxTimes /\ serverUpdate = "idle" /\ serverSecrets = 0
  /\ raKeyServer = "start" /\ listener = TRUE
  /\ secrets = 0 /\ enclaveKey = ZeroKey /\ enclaveTimes = 0
  /\ update = "off"
  /\ clients = 0 /\ entering = 0 /\ serving = 0 /\ arrivals = 0
  /\ link = "none" /\ attestation = 0
  /\ serverRenewals = 0 /\ enclaveRenewals = 0
  /\ late = FALSE /\ refused = FALSE /\ leftEarly = FALSE

-----------------------------------------------------------------------------
(***************************************************************************)
(* The attestation.                                                        *)
(***************************************************************************)

(* The key server connects, says KEY_SERVER_RA_REQUES, replaces its enclave*)
(* by a new one and sends msg01. runRAwithSPRequest waits for a moment     *)
(* without clients first.                                                  *)
Connect ==
  /\ \/ raKeyServer = "start"
     \/ raKeyServer = "asked" /\ clients = 0
  /\ link = "none" /\ attestation < MaxAttestation
  /\ raKeyServer' = IF raKeyServer = "start" THEN "attestFirst" ELSE "attest"
  /\ attestation' = attestation + 1
  /\ link' = "msg01"
  /\ secrets' = 0 /\ enclaveKey' = ZeroKey /\ enclaveTimes' = 0
  /\ enclaveRenewals' = 0
  /\ UNCHANGED <<storage, listener, update, clientThreads, refused>>

(* The storage server gives up: a message it cannot verify, a quote the    *)
(* attestation service does not accept. It forgets the session it had.     *)
GiveUp ==
  /\ link' = "silent" /\ refused' = TRUE
  /\ raServer' = "listen" /\ session' = 0
  /\ UNCHANGED <<keySet, exchangeKey, serverTimes, serverUpdate, serverSecrets,
                 serverRenewals, late, enclave, keyServer, attestation>>

(* authkm: process_msg01 answers with msg2.                                *)
ServerMsg01 ==
  /\ raServer = "listen" /\ link = "msg01"
  /\ \/ /\ link' = "msg2" /\ raServer' = "attest"
        /\ UNCHANGED <<session, keySet, exchangeKey, serverTimes, serverUpdate,
                       serverSecrets, serverRenewals, late, enclave, keyServer,
                       attestation, refused>>
     \/ GiveUp

(* runRAwithSPRequest deletes the object it listens on, in place of the one*)
(* it has just sent with. Deleting it once more may work or end the process*)
DeleteListener(next) ==
  \/ listener' = FALSE /\ raKeyServer' = next
  \/ ~ listener /\ listener' = FALSE /\ raKeyServer' = "dead"

(* doAttestation: the enclave answers msg2 with msg3, or gives up. The key *)
(* server then connects again, to an end that is not listening; after the  *)
(* first attestation it has deleted the object it listens on before that.  *)
EnclaveMsg2 ==
  /\ link = "msg2"
  /\ \/ link' = "msg3" /\ UNCHANGED <<raKeyServer, listener, refused>>
     \/ /\ link' = "silent" /\ refused' = TRUE
        /\ IF raKeyServer = "attest" THEN DeleteListener("attest")
           ELSE UNCHANGED <<raKeyServer, listener>>
  /\ UNCHANGED <<storage, enclave, update, clientThreads, attestation>>

(* process_msg3 asks the attestation service about the quote (without an   *)
(* answer from it msg4.status is whatever the stack held, so either may    *)
(* follow). A trusted enclave gets msg4 and keyServerSession_ is that of   *)
(* this attestation; the flag that lets clients have the key goes up before*)
(* there is one.                                                           *)
ServerMsg3 ==
  /\ raServer = "attest" /\ link = "msg3"
  /\ \/ /\ link' = "msg4" /\ raServer' = "alive"
        /\ session' = attestation /\ keySet' = TRUE
        /\ serverRenewals' = 0 /\ late' = FALSE
        /\ UNCHANGED <<exchangeKey, serverTimes, serverUpdate, serverSecrets,
                       enclave, keyServer, attestation, refused>>
     \/ GiveUp

(* kmClient::init goes on with ecalls that renewals may come between: the  *)
(* regression counter, ...                                                 *)
EnclaveMsg4 ==
  /\ link = "msg4" /\ link' = "trusted"
  /\ enclaveTimes' = MaxTimes
  /\ UNCHANGED <<storage, secrets, enclaveKey, enclaveRenewals, keyServer,
                 attestation, refused>>

(* ... and the secrets of the attestation. The first time the other threads*)
(* are started then; later the listening object is deleted.                *)
EnclaveSecrets ==
  /\ link = "trusted" /\ link' = "none"
  /\ secrets' = attestation
  /\ enclaveRenewals' = 0
  /\ \/ /\ raKeyServer = "attestFirst" /\ raKeyServer' = "listen"
        /\ update' = "ready" /\ UNCHANGED listener
     \/ /\ raKeyServer = "attest" /\ DeleteListener("listen")
        /\ UNCHANGED update
  /\ UNCHANGED <<storage, enclaveKey, enclaveTimes, clientThreads, attestation,
                 refused>>

(* The secrets have lived long enough: the storage server takes its key    *)
(* back and sends RA_REQUEST; with nobody to connect to, it exits.         *)
Expire ==
  /\ raServer = "alive" /\ link = "none" /\ attestation < MaxAttestation
  /\ raServer' = IF raKeyServer = "dead" THEN "dead" ELSE "request"
  /\ keySet' = FALSE /\ exchangeKey' = ZeroKey
  /\ late' = (serverUpdate \in {"checked", "hashing", "written"})
  /\ UNCHANGED <<session, serverTimes, serverUpdate, serverSecrets,
                 serverRenewals, enclave, keyServer, link, attestation, refused>>

(* The key server accepts the request. On a deleted object this may work or*)
(* end the process.                                                        *)
Accept ==
  /\ raServer = "request" /\ raKeyServer = "listen"
  /\ \/ raKeyServer' = "asked" /\ raServer' = "listen"
     \/ ~ listener /\ raKeyServer' = "dead" /\ UNCHANGED raServer
  /\ UNCHANGED <<session, keySet, exchangeKey, serverTimes, serverUpdate,
                 serverSecrets, serverRenewals, late, enclave, listener, update,
                 clientThreads, link, attestation, refused>>

-----------------------------------------------------------------------------
(***************************************************************************)
(* The renewal of the session key on either side.                          *)
(***************************************************************************)

(* The enclave: n hashes of its secrets and a last one.                    *)
EnclaveKey(n) == [ra |-> secrets, n |-> n]

(* A bug: the server's counter goes down before the key is made.           *)
ServerKeyCountFirst(n) == [ra |-> serverSecrets, n |-> n - 1]

(* The storage server: the same, but the last hash is made of the result of*)
(* the n before, and with n = 0 there is none.                             *)
ServerKey(n) ==
  IF n = 0 THEN Uninitialised ELSE [ra |-> serverSecrets, n |-> n]

(* ecall_setSessionKeyUpdate, under mutexSessionKeyUpdate; it fails and is *)
(* called again while there is no enclave. During an attestation the new   *)
(* enclave is there without its secrets, and at first without its counter: *)
(* the first renewal then makes the counter wrap around.                   *)
RenewEnclaveKey ==
  /\ update = "ready" /\ raKeyServer # "dead"
  /\ enclaveTimes >= 0
  /\ enclaveKey' = EnclaveKey(enclaveTimes)
  /\ enclaveTimes' = enclaveTimes - 1
  /\ enclaveRenewals' = enclaveRenewals + 1
  /\ update' = "asleep"
  /\ UNCHANGED <<storage, secrets, raKeyServer, listener, clientThreads, link,
                 attestation, refused>>

WakeEnclave ==
  /\ update = "asleep" /\ update' = "ready"
  /\ UNCHANGED <<storage, enclave, raKeyServer, listener, clientThreads, link,
                 attestation, refused>>

(* A bug: runKeyServerSessionKeyUpdate tests the session and not the flag. *)
ServerCheckSession ==
  /\ serverUpdate = "idle" /\ session # 0 /\ raServer # "dead"
  /\ serverUpdate' = "checked"
  /\ UNCHANGED <<raServer, session, keySet, exchangeKey, serverTimes,
                 serverSecrets, serverRenewals, late, enclave, keyServer, link,
                 attestation, refused>>

(* runKeyServerSessionKeyUpdate tests the flag and the session, ...        *)
ServerCheck ==
  /\ serverUpdate = "idle" /\ keySet /\ session # 0 /\ raServer # "dead"
  /\ serverUpdate' = "checked"
  /\ UNCHANGED <<raServer, session, keySet, exchangeKey, serverTimes,
                 serverSecrets, serverRenewals, late, enclave, keyServer, link,
                 attestation, refused>>

(* ... takes the key back while it reads the secrets, ...                  *)
ServerBegin ==
  /\ serverUpdate = "checked" /\ raServer # "dead"
  /\ keySet' = FALSE
  /\ \/ /\ session # 0
        /\ serverUpdate' = "hashing" /\ serverSecrets' = session
        /\ UNCHANGED raServer
     \/ /\ session = 0       \* a failed attestation has made it nullptr
        /\ raServer' = "dead"
        /\ UNCHANGED <<serverUpdate, serverSecrets>>
  /\ UNCHANGED <<session, exchangeKey, serverTimes, serverRenewals, late,
                 enclave, keyServer, link, attestation, refused>>

(* ... writes the new key, ...                                             *)
ServerWriteKey ==
  /\ serverUpdate = "hashing" /\ serverTimes >= 0 /\ raServer # "dead"
  /\ exchangeKey' = ServerKey(serverTimes)
  /\ serverUpdate' = "written"
  /\ UNCHANGED <<raServer, session, keySet, serverTimes, serverSecrets,
                 serverRenewals, late, enclave, keyServer, link, attestation,
                 refused>>

(* ... and gives out what keyExchangeKey_ then is, whatever has become of  *)
(* the flag.                                                               *)
ServerRenew ==
  /\ serverUpdate = "written" /\ raServer # "dead"
  /\ keySet' = TRUE
  /\ serverTimes' = serverTimes - 1
  /\ serverRenewals' = IF serverSecrets = session THEN serverRenewals + 1
                       ELSE serverRenewals
  /\ serverUpdate' = "asleep"
  /\ UNCHANGED <<raServer, session, exchangeKey, serverSecrets, late, enclave,
                 keyServer, link, attestation, refused>>

WakeServer ==
  /\ serverUpdate = "asleep" /\ serverUpdate' = "idle"
  /\ UNCHANGED <<raServer, session, keySet, exchangeKey, serverTimes,
                 serverSecrets, serverRenewals, late, enclave, keyServer, link,
                 attestation, refused>>

-----------------------------------------------------------------------------
(***************************************************************************)
(* The clients of the key server, of which the attestation only sees the   *)
(* count.                                                                  *)
(***************************************************************************)

(* A bug: the listener counts a connection and so does its thread.         *)
ClientComesTwice ==
  /\ raKeyServer \notin {"start", "attestFirst", "dead"}
  /\ arrivals < MaxClient /\ arrivals' = arrivals + 1
  /\ entering' = entering + 1 /\ clients' = clients + 2
  /\ UNCHANGED <<storage, enclave, raKeyServer, listener, update, serving,
                 leftEarly, link, attestation, refused>>

(* A bug: the thread of a client that disconnects does not count down.     *)
ClientGoesUncounted ==
  /\ serving > 0 /\ serving' = serving - 1
  /\ clients' = clients
  /\ UNCHANGED <<storage, enclave, raKeyServer, listener, update, entering,
                 arrivals, leftEarly, link, attestation, refused>>

(* A thread counts the connection it is started for.                       *)
ClientComes ==
  /\ raKeyServer \notin {"start", "attestFirst", "dead"}
  /\ arrivals < MaxClient /\ arrivals' = arrivals + 1
  /\ entering' = entering + 1 /\ clients' = clients + 1
  /\ UNCHANGED <<storage, enclave, raKeyServer, listener, update, serving,
                 leftEarly, link, attestation, refused>>

ClientLogsIn ==
  /\ entering > 0 /\ entering' = entering - 1
  /\ serving' = serving + 1
  /\ UNCHANGED <<storage, enclave, raKeyServer, listener, update, clients,
                 arrivals, leftEarly, link, attestation, refused>>

(* The connection is lost before the login is over, or its ecall fails: the*)
(* thread returns and the client stays counted.                            *)
ClientLeavesEarly ==
  /\ entering > 0 /\ entering' = entering - 1
  /\ leftEarly' = TRUE
  /\ UNCHANGED <<storage, enclave, raKeyServer, listener, update, clients,
                 serving, arrivals, link, attestation, refused>>

(* The connection of a client that has logged in ends.                     *)
ClientGoes ==
  /\ serving > 0 /\ serving' = serving - 1
  /\ clients' = clients - 1
  /\ UNCHANGED <<storage, enclave, raKeyServer, listener, update, entering,
                 arrivals, leftEarly, link, attestation, refused>>

AttestEnclave ==
  \/ Connect \/ ServerMsg01 \/ EnclaveMsg2 \/ ServerMsg3 \/ EnclaveMsg4
  \/ EnclaveSecrets \/ Accept
Renew ==
  RenewEnclaveKey \/ ServerCheck \/ ServerBegin \/ ServerWriteKey \/ ServerRenew
Timer == Expire \/ WakeEnclave \/ WakeServer
LoginEnds == ClientLogsIn \/ ClientLeavesEarly

RenewalNext ==
  AttestEnclave \/ Renew \/ Timer \/ ClientComes \/ LoginEnds \/ ClientGoes

RenewalSpec == RenewalInit /\ [][RenewalNext]_renewalVars

(* The threads keep running and clients do not stay for ever; the timers   *)
(* are those of the configuration and go off in the end.                   *)
FairRenewalSpec ==
  /\ RenewalSpec
  /\ WF_renewalVars(AttestEnclave) /\ WF_renewalVars(Expire)
  /\ WF_renewalVars(LoginEnds) /\ WF_renewalVars(ClientGoes)

-----------------------------------------------------------------------------
(***************************************************************************)
(* Properties.                                                             *)
(***************************************************************************)
RenewalTypeOK ==
  /\ raServer \in {"listen", "attest", "alive", "request", "dead"}
  /\ raKeyServer \in {"start", "attestFirst", "attest", "listen", "asked", "dead"}
  /\ session \in Attestation /\ serverSecrets \in Attestation
  /\ secrets \in Attestation /\ attestation \in Attestation
  /\ keySet \in BOOLEAN /\ listener \in BOOLEAN
  /\ late \in BOOLEAN /\ refused \in BOOLEAN /\ leftEarly \in BOOLEAN
  /\ exchangeKey \in SessionKey \cup {ZeroKey, Uninitialised}
  /\ enclaveKey \in SessionKey \cup {ZeroKey}
  /\ serverTimes \in Times /\ enclaveTimes \in Times
  /\ serverUpdate \in {"idle", "checked", "hashing", "written", "asleep"}
  /\ update \in {"off", "ready", "asleep"}
  /\ clients \in 0 .. MaxClient /\ arrivals \in 0 .. MaxClient
  /\ entering \in 0 .. MaxClient /\ serving \in 0 .. MaxClient
  /\ link \in {"none", "msg01", "msg2", "msg3", "msg4", "trusted", "silent"}
  /\ serverRenewals \in Nat /\ enclaveRenewals \in Nat

(* Both ends hold the secrets of one attestation, and have renewed the key *)
(* of these secrets as often as the other, at least once.                  *)
RenewedAlike ==
  /\ raServer = "alive" /\ session = secrets /\ secrets # 0
  /\ serverUpdate \in {"idle", "checked", "asleep"}
  /\ serverRenewals = enclaveRenewals /\ enclaveRenewals > 0

(* Once an attestation is over, the two ends hold the secrets of the same  *)
(* attestation, and neither ever goes back to those of an earlier one: no  *)
(* end takes the messages of one attestation for another's (authkm,        *)
(* doAttestation). When both have then renewed the key equally often, in   *)
(* whatever order their clocks went off (ServerRenew, RenewEnclaveKey),    *)
(* their keys are equal exactly when their regression counters are and the *)
(* last renewal was not that of n = 0, where the storage server hashes an  *)
(* uninitialised buffer (ServerKey). In the first attestation the counters *)
(* are equal, so that n = 0, the renewal after MaxTimes of them, is the    *)
(* only exception; in a later one only the enclave's starts again.         *)
SameSecrets ==
  /\ link = "none" /\ raServer = "alive" => session = secrets
  /\ secrets # 0 => secrets = attestation
  /\ RenewedAlike =>
       (exchangeKey = enclaveKey <=> serverTimes = enclaveTimes /\ serverTimes >= 0)
  /\ RenewedAlike /\ secrets = 1 =>
       serverTimes = enclaveTimes /\ (serverTimes >= 0 <=> enclaveRenewals <= MaxTimes)

(* A key of secrets that have expired is not given to clients: neither     *)
(* before the new attestation, unless a renewal under way at the expiry    *)
(* raises the flag again (Expire, ServerRenew), nor after the first renewal*)
(* that follows it.                                                        *)
KeyOfSession ==
  /\ keySet /\ raServer \in {"listen", "attest", "request"} => late
  /\ keySet /\ raServer = "alive" /\ serverRenewals > 0 =>
       exchangeKey = Uninitialised \/ exchangeKey.ra = session

(* When its secrets have expired the storage server gets new ones, if no   *)
(* end gives up an attestation: nobody waits on the other end, on clients  *)
(* that stay or on a lost wake-up for ever. Two ends are possible besides: *)
(* a client that has left the key server before its login was over, for    *)
(* which it then waits for ever (ClientLeavesEarly), and a key server dead *)
(* of its deleted listener (Accept, EnclaveSecrets). Nothing else that has *)
(* happened excuses the renewal, such a client in itself does not either.  *)
RenewalEnds ==
  [](~ refused) =>
    (raServer = "request" ~>
       \/ raServer = "alive"
       \/ [](leftEarly /\ raKeyServer = "asked")
       \/ raKeyServer = "dead" /\ ~ listener)
=============================================================================
