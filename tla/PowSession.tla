----------------------------- MODULE PowSession -----------------------------
(***************************************************************************)
(* The session of a client with the storage server's proof-of-ownership    *)
(* thread: powClient and Sender in the client, DataSR::runPow and powServer*)
(* in the server.                                                          *)
(*                                                                         *)
(* In its first upload a client has its enclave attested (LOGOUT, LOGIN,   *)
(* MSG01, MSG3): the server keeps an enclaveSession under the client's ID, *)
(* and the client seals the session key in a file when it ends. Later      *)
(* uploads unseal it and log in with it (LOGIN_WITH_SEAL). Every batch of  *)
(* an upload is then proved with the session key (SIGNED_HASH).            *)
(*                                                                         *)
(* A connection is one run of a client, has one server thread, and is      *)
(* numbered in the order they open. A session object is known by the       *)
(* number of the attestation that made it, which also stands for its key.  *)
(* `sessions` dies with the server, the sealed file does not die with the  *)
(* client. cause is a history variable: what has happened to the session of*)
(* a client since its last attestation.                                    *)
(***************************************************************************)
EXTENDS Naturals, Sequences, FiniteSets

CONSTANTS Client,
          MaxRun,      \* connections in a behaviour
          MaxProof,    \* batches of an upload
          MaxFault,    \* clients killed and servers stopped in a behaviour
          Nothing,
          Torn         \* a file that was emptied and not written

(* What a client asks, and what it is answered.                            *)
Asks == {"loginSealed", "logout", "login", "msg01", "msg3", "getKey", "proof", "exit"}
Answers == {"success", "close", "key", "msg2", "resend", "msg4", "accepted", "permit"}

ASSUME PowAssumption ==
  /\ IsFiniteSet(Client)
  /\ MaxRun \in Nat /\ MaxProof \in Nat /\ MaxFault \in Nat
  /\ Nothing \notin Nat /\ Torn \notin Nat /\ Torn # Nothing
  /\ Nothing \notin [kind : Asks \cup Answers, key : Nat \cup {Nothing}]

Connection == 1 .. MaxRun
Session == 1 .. MaxRun       \* a connection attests at most once
Null == 0                    \* an entry without an object

VARIABLES
  \* the clients
  cpc,           \* what the client waits for, or does
  conn,          \* its connection, 0 for none
  key,           \* powSessionKey of its enclave
  startMethod,   \* 1: unsealed, 2: attested, 0: not yet set
  proofs,        \* batches proved
  sealed,        \* pow-enclave.sealed: a key, Nothing, or Torn
  \* the connections
  owner,         \* the client of each
  open,          \* those the client still holds
  broken,        \* those the server has lost
  up, down,      \* the message on its way to the server, to the client
  \* the server
  server,        \* "up", "down", or "dead" of an error of its own
  sessions,      \* powServer::sessions
  trusted,       \* the session objects with enclaveTrusted
  attested,      \* session objects made so far
  thread,        \* runPow of each connection
  currentSession,  \* Nothing: not initialised
  \* the bound on faults, and history
  faults,
  cause

clientVars == <<cpc, conn, key, startMethod, proofs, sealed>>
netVars == <<owner, open, broken, up, down>>
serverVars == <<server, sessions, trusted, attested, thread, currentSession>>
vars == <<clientVars, netVars, serverVars, faults, cause>>

Init ==
  /\ cpc = [c \in Client |-> "off"]
  /\ conn = [c \in Client |-> 0]
  /\ key = [c \in Client |-> Nothing]
  /\ startMethod = [c \in Client |-> 0]
  /\ proofs = [c \in Client |-> 0]
  /\ sealed = [c \in Client |-> Nothing]
  /\ owner = << >> /\ open = {} /\ broken = {}
  /\ up = [t \in Connection |-> Nothing]
  /\ down = [t \in Connection |-> Nothing]
  /\ server = "up"
  /\ sessions = [c \in Client |-> Nothing]
  /\ trusted = {} /\ attested = 0
  /\ thread = [t \in Connection |-> "none"]
  /\ currentSession = [t \in Connection |-> Nothing]
  /\ faults = 0
  /\ cause = [c \in Client |-> {}]

-----------------------------------------------------------------------------
(***************************************************************************)
(* The client.                                                             *)
(***************************************************************************)
Request(kind, k) == [kind |-> kind, key |-> k]

(* sendDataPow sends a request and waits for whatever comes back.          *)
Send(c, request) ==
  /\ up' = [up EXCEPT ![conn[c]] = IF conn[c] \in broken THEN @ ELSE request]
  /\ down' = [down EXCEPT ![conn[c]] = Nothing]
  /\ UNCHANGED <<owner, open, broken>>

Lost == [kind |-> "lost", key |-> Nothing]

Reply(c) == IF conn[c] \in broken THEN Lost ELSE down[conn[c]]

(* A bug: the connection of a run that has ended is kept.                  *)
ExitKeeps(c) ==
  /\ cpc' = [cpc EXCEPT ![c] = "off"]
  /\ key' = [key EXCEPT ![c] = Nothing]
  /\ startMethod' = [startMethod EXCEPT ![c] = 0]
  /\ proofs' = [proofs EXCEPT ![c] = 0]
  /\ open' = open \ {conn[c]}
  /\ down' = [down EXCEPT ![conn[c]] = Nothing]
  /\ UNCHANGED <<conn, owner, broken, up, serverVars>>

(* The process is gone.                                                    *)
Exit(c) ==
  /\ cpc' = [cpc EXCEPT ![c] = "off"]
  /\ conn' = [conn EXCEPT ![c] = 0]
  /\ key' = [key EXCEPT ![c] = Nothing]
  /\ startMethod' = [startMethod EXCEPT ![c] = 0]
  /\ proofs' = [proofs EXCEPT ![c] = 0]
  /\ open' = open \ {conn[c]}
  /\ down' = [down EXCEPT ![conn[c]] = Nothing]
  /\ UNCHANGED <<owner, broken, up, serverVars>>

(* loadSealedData: there is a file to read.                                *)
LoadSealedData(c) == sealed[c] # Nothing

(* enclave_sealed_init: the session key in the file, if it was written to  *)
(* its end.                                                                *)
EnclaveSealedInit(file) == IF file = Torn THEN Nothing ELSE file

(* powEnclaveSealedInit: the enclave opens the file it is given.           *)
PowEnclaveSealedInit(c) == EnclaveSealedInit(sealed[c]) # Nothing

(* enclave_sealed_close: what the enclave gives to be written.             *)
EnclaveSealedClose(c) == key[c]

(* The constructors of Sender and powClient: with a sealed key the client  *)
(* logs in, without one it logs out first. A sealed file that was not      *)
(* written to its end is not unsealed and the client exits.                *)
Start(c) ==
  LET t == Len(owner) + 1
  IN
  /\ cpc[c] = "off" /\ t \in Connection /\ server = "up"
  /\ LoadSealedData(c) => PowEnclaveSealedInit(c)
  /\ conn' = [conn EXCEPT ![c] = t]
  /\ owner' = Append(owner, c) /\ open' = open \cup {t}
  /\ thread' = [thread EXCEPT ![t] = "serve"]
  /\ \/ /\ LoadSealedData(c)
        /\ key' = [key EXCEPT ![c] = EnclaveSealedInit(sealed[c])]
        /\ startMethod' = [startMethod EXCEPT ![c] = 1]
        /\ cpc' = [cpc EXCEPT ![c] = "loginSealed"]
     \/ /\ ~ LoadSealedData(c)
        /\ cpc' = [cpc EXCEPT ![c] = "logout"]
        /\ UNCHANGED <<key, startMethod>>
  /\ up' = [up EXCEPT ![t] = Request(cpc'[c], Nothing)]
  /\ UNCHANGED <<proofs, sealed, broken, down, server, sessions, trusted,
                 attested, currentSession, faults, cause>>

(* What is asked next whatever the answer was.                             *)
NextRequest == [loginSealed |-> "getKey", logout |-> "login", login |-> "msg01"]

GoOn(c) ==
  /\ cpc[c] \in DOMAIN NextRequest /\ Reply(c) # Nothing
  /\ cpc' = [cpc EXCEPT ![c] = NextRequest[cpc[c]]]
  /\ Send(c, Request(cpc'[c], Nothing))
  /\ UNCHANGED <<conn, key, startMethod, proofs, sealed, serverVars, faults, cause>>

(* do_attestation: msg2 makes the keys of both ends, msg4 ends it; any     *)
(* other answer ends the process.                                          *)
TakeMsg2(c) ==
  /\ cpc[c] = "msg01" /\ Reply(c) # Nothing
  /\ IF Reply(c).kind = "msg2"
     THEN /\ key' = [key EXCEPT ![c] = Reply(c).key]
          /\ cpc' = [cpc EXCEPT ![c] = "msg3"]
          /\ Send(c, Request("msg3", Reply(c).key))
          /\ UNCHANGED <<conn, startMethod, proofs, serverVars>>
     ELSE Exit(c)
  /\ UNCHANGED <<sealed, faults, cause>>

TakeMsg4(c) ==
  /\ cpc[c] = "msg3" /\ Reply(c) # Nothing
  /\ IF Reply(c).kind = "msg4"
     THEN /\ startMethod' = [startMethod EXCEPT ![c] = 2]
          /\ cpc' = [cpc EXCEPT ![c] = "getKey"]
          /\ Send(c, Request("getKey", Nothing))
          /\ UNCHANGED <<conn, key, proofs, serverVars>>
     ELSE Exit(c)
  /\ UNCHANGED <<sealed, faults, cause>>

(* getKeyServerSK: the upload begins, or main deletes what it has made.    *)
TakeKey(c) ==
  /\ cpc[c] = "getKey" /\ Reply(c) # Nothing
  /\ cpc' = [cpc EXCEPT ![c] = IF Reply(c).kind = "key" THEN "upload" ELSE "end"]
  /\ down' = [down EXCEPT ![conn[c]] = Nothing]
  /\ UNCHANGED <<conn, key, startMethod, proofs, sealed, owner, open, broken, up,
                 serverVars, faults, cause>>

(* powClient::run proves a batch; when the file has ended, sendEndFlag.    *)
Prove(c) ==
  /\ cpc[c] = "upload"
  /\ \/ /\ proofs[c] < MaxProof
        /\ cpc' = [cpc EXCEPT ![c] = "proof"]
        /\ Send(c, Request("proof", key[c]))
     \/ /\ cpc' = [cpc EXCEPT ![c] = "exit"]
        /\ Send(c, Request("exit", Nothing))
  /\ UNCHANGED <<conn, key, startMethod, proofs, sealed, serverVars, faults, cause>>

(* After an answer that is not SUCCESS no more batches are proved. When the*)
(* connection is lost instead, what sendEnclaveSignedHash returns is       *)
(* ignored and the status is that of the batch before, or unset: the upload*)
(* ends or goes on.                                                        *)
TakeVerdict(c) ==
  /\ cpc[c] = "proof" /\ Reply(c) # Nothing
  /\ cpc' = [cpc EXCEPT ![c] = "upload"]
  /\ \/ /\ Reply(c).kind \in {"accepted", "lost"}
        /\ proofs' = [proofs EXCEPT ![c] = @ + 1]
     \/ /\ Reply(c).kind # "accepted"
        /\ proofs' = [proofs EXCEPT ![c] = MaxProof]
  /\ down' = [down EXCEPT ![conn[c]] = Nothing]
  /\ UNCHANGED <<conn, key, startMethod, sealed, owner, open, broken, up,
                 serverVars, faults, cause>>

TakePermit(c) ==
  /\ cpc[c] = "exit" /\ Reply(c) # Nothing
  /\ cpc' = [cpc EXCEPT ![c] = "end"]
  /\ down' = [down EXCEPT ![conn[c]] = Nothing]
  /\ UNCHANGED <<conn, key, startMethod, proofs, sealed, owner, open, broken, up,
                 serverVars, faults, cause>>

(* ~powClient: a key that was attested in this run is sealed; the file is  *)
(* emptied before it is written.                                           *)
OpenSealed(c) ==
  /\ cpc[c] = "end" /\ startMethod[c] = 2
  /\ cpc' = [cpc EXCEPT ![c] = "sealing"]
  /\ sealed' = [sealed EXCEPT ![c] = Torn]
  /\ UNCHANGED <<conn, key, startMethod, proofs, netVars, serverVars, faults, cause>>

End(c) ==
  /\ \/ cpc[c] = "end" /\ startMethod[c] # 2 /\ UNCHANGED sealed
     \/ cpc[c] = "sealing" /\ sealed' = [sealed EXCEPT ![c] = EnclaveSealedClose(c)]
  /\ Exit(c)
  /\ UNCHANGED <<faults, cause>>

Fault == faults < MaxFault /\ faults' = faults + 1

(* The client is killed; the handler of an interrupt seals the key first.  *)
(* A message on its way still arrives.                                     *)
Kill(c) ==
  /\ cpc[c] # "off" /\ Fault
  /\ Exit(c)
  /\ \/ UNCHANGED sealed
     \/ startMethod[c] = 2 /\ sealed' = [sealed EXCEPT ![c] = EnclaveSealedClose(c)]
  /\ UNCHANGED cause

-----------------------------------------------------------------------------
(***************************************************************************)
(* The server: one iteration of runPow on connection t.                    *)
(***************************************************************************)
Takes(t, kind) ==
  /\ server = "up" /\ thread[t] = "serve"
  /\ up[t] # Nothing /\ up[t].kind = kind

Respond(t, kind, k) ==
  /\ up' = [up EXCEPT ![t] = Nothing]
  /\ down' = IF t \in open THEN [down EXCEPT ![t] = Request(kind, k)] ELSE down
  /\ UNCHANGED <<owner, open, broken>>

Silent(t) ==
  /\ up' = [up EXCEPT ![t] = Nothing]
  /\ UNCHANGED <<owner, open, broken, down>>

(* The client of connection t has opened another one since.                *)
Overtaken(t) == conn[owner[t]] # t

Blame(t) ==
  cause' = IF Overtaken(t)
           THEN [cause EXCEPT ![owner[t]] = @ \cup {"overtaken"}] ELSE cause

(* The process is gone, and with it its sessions and its connections.      *)
Die(how) ==
  /\ server' = how
  /\ sessions' = [c \in Client |-> Nothing]
  /\ trusted' = {}
  /\ thread' = [t \in Connection |-> IF thread[t] = "none" THEN "none" ELSE "gone"]
  /\ currentSession' = [t \in Connection |-> Nothing]
  /\ broken' = open
  /\ up' = [t \in Connection |-> Nothing]
  /\ down' = [t \in Connection |-> Nothing]
  /\ cause' = [c \in Client |-> cause[c] \cup {"restart"}]
  /\ UNCHANGED <<owner, open, attested, clientVars>>

ServeLogout(t) ==
  /\ Takes(t, "logout")
  /\ sessions' = [sessions EXCEPT ![owner[t]] = Nothing]
  /\ Respond(t, "success", Nothing)
  /\ Blame(t)
  /\ UNCHANGED <<clientVars, server, trusted, attested, thread, currentSession, faults>>

ServeLogin(t) ==
  /\ Takes(t, "login")
  /\ Respond(t, "success", Nothing)
  /\ UNCHANGED <<clientVars, serverVars, faults, cause>>

(* CLIENT_SET_LOGIN_WITH_SEAL makes the thread's session that of the       *)
(* client, if it is there and trusted.                                     *)
ServeLoginSealed(t) ==
  LET s == sessions[owner[t]]
  IN
  /\ Takes(t, "loginSealed") /\ UNCHANGED faults
  /\ \/ s = Null /\ Die("dead")
     \/ /\ s # Null
        /\ Respond(t, IF s \in trusted THEN "success" ELSE "close", Nothing)
        /\ currentSession' =
             IF s \in trusted THEN [currentSession EXCEPT ![t] = s] ELSE currentSession
        /\ UNCHANGED <<clientVars, server, sessions, trusted, attested, thread, cause>>

(* A bug: without a key there is no answer.                                *)
ServeKeySilent(t) ==
  /\ Takes(t, "getKey")
  /\ Respond(t, "key", Nothing) \/ Silent(t)
  /\ UNCHANGED <<clientVars, serverVars, faults, cause>>

(* keyExchangeKey_ may not be there.                                       *)
ServeKey(t) ==
  /\ Takes(t, "getKey")
  /\ \E answer \in {"key", "close"} : Respond(t, answer, Nothing)
  /\ UNCHANGED <<clientVars, serverVars, faults, cause>>

(* process_msg01 makes a session and inserts it: an entry that is there    *)
(* stays. The attestation service may refuse its revocation list.          *)
ServeMsg01(t) ==
  LET s == attested + 1
  IN
  /\ Takes(t, "msg01")
  /\ attested' = s
  /\ sessions' = [sessions EXCEPT ![owner[t]] = IF @ = Nothing THEN s ELSE @]
  /\ \/ Respond(t, "msg2", s)
     \/ Respond(t, "resend", Nothing)
  /\ Blame(t)
  /\ UNCHANGED <<clientVars, server, trusted, thread, currentSession, faults>>

(* SGX_RA_MSG3: process_msg3 checks that msg3 is of the session found and  *)
(* asks the attestation service about the quote ...                        *)
ServeMsg3(t) ==
  LET s == sessions[owner[t]]
  IN
  /\ Takes(t, "msg3") /\ UNCHANGED faults
  /\ \/ s = Null /\ Die("dead")
     \/ /\ s # Null /\ s = up[t].key
        /\ thread' = [thread EXCEPT ![t] = "verify"]
        /\ UNCHANGED <<clientVars, netVars, server, sessions, trusted, attested,
                       currentSession, cause>>
     \/ /\ s # Null /\ s # up[t].key
        /\ Respond(t, "close", Nothing)
        /\ UNCHANGED <<clientVars, serverVars, cause>>

(* A bug: the thread does not keep the session.                            *)
Msg3VerifiedForgets(t) ==
  LET s == up[t].key
  IN
  /\ server = "up" /\ thread[t] = "verify"
  /\ thread' = [thread EXCEPT ![t] = "serve"]
  /\ trusted' = trusted \cup {s}
  /\ Respond(t, "msg4", s)
  /\ cause' = IF ~ Overtaken(t) /\ sessions[owner[t]] = s
              THEN [cause EXCEPT ![owner[t]] = {}] ELSE cause
  /\ UNCHANGED <<clientVars, server, sessions, attested, currentSession, faults>>

(* ... and the session looked up again, by operator[], is the thread's.    *)
Msg3Verified(t) ==
  LET c == owner[t]
      s == up[t].key
  IN
  /\ server = "up" /\ thread[t] = "verify"
  /\ thread' = [thread EXCEPT ![t] = "serve"]
  /\ \/ /\ trusted' = trusted \cup {s}
        /\ sessions' = [sessions EXCEPT ![c] = IF @ = Nothing THEN Null ELSE @]
        /\ currentSession' = [currentSession EXCEPT ![t] = sessions'[c]]
        /\ Respond(t, "msg4", s)
        /\ cause' = IF ~ Overtaken(t) /\ sessions[c] = s
                    THEN [cause EXCEPT ![c] = {}]
                    ELSE [cause EXCEPT ![c] = @ \cup {"overtaken"}]
     \/ /\ Respond(t, "close", Nothing)
        /\ UNCHANGED <<sessions, trusted, currentSession, cause>>
  /\ UNCHANGED <<clientVars, server, attested, faults>>

(* SGX_SIGNED_HASH. A thread without a session leaves its answer unsent; a *)
(* pointer that is not initialised may also be no pointer at all. The key  *)
(* is that of the client's entry, and at() throws when there is none.      *)
ServeProof(t) ==
  LET s == currentSession[t]
      e == sessions[owner[t]]
  IN
  /\ Takes(t, "proof") /\ UNCHANGED faults
  /\ \/ /\ s \notin trusted
        /\ Silent(t)
        /\ UNCHANGED <<clientVars, serverVars, cause>>
     \/ /\ \/ s = Nothing
           \/ s \in trusted /\ e \in {Nothing, Null}
        /\ Die("dead")
     \/ /\ s \in trusted /\ e \notin {Nothing, Null}
        /\ \/ e \in trusted /\ e = up[t].key /\ Respond(t, "accepted", Nothing)
           \/ Respond(t, "resend", Nothing)
        /\ UNCHANGED <<clientVars, serverVars, cause>>

(* A bug: the session is closed with the connection.                       *)
ServeExitCloses(t) ==
  /\ Takes(t, "exit")
  /\ Respond(t, "permit", Nothing)
  /\ thread' = [thread EXCEPT ![t] = "gone"]
  /\ sessions' = [sessions EXCEPT ![owner[t]] = Nothing]
  /\ UNCHANGED <<clientVars, server, trusted, attested, currentSession, faults, cause>>

ServeExit(t) ==
  /\ Takes(t, "exit")
  /\ Respond(t, "permit", Nothing)
  /\ thread' = [thread EXCEPT ![t] = "gone"]
  /\ UNCHANGED <<clientVars, server, sessions, trusted, attested, currentSession,
                 faults, cause>>

(* The connection has ended.                                               *)
Leave(t) ==
  /\ server = "up" /\ thread[t] = "serve"
  /\ up[t] = Nothing /\ t \notin open
  /\ thread' = [thread EXCEPT ![t] = "gone"]
  /\ UNCHANGED <<clientVars, netVars, server, sessions, trusted, attested,
                 currentSession, faults, cause>>

Stop ==
  /\ server = "up" /\ Fault
  /\ Die("down")

Restart ==
  /\ server # "up"
  /\ server' = "up"
  /\ UNCHANGED <<clientVars, netVars, sessions, trusted, attested, thread,
                 currentSession, faults, cause>>

-----------------------------------------------------------------------------
ClientStep(c) ==
  \/ GoOn(c) \/ TakeMsg2(c) \/ TakeMsg4(c) \/ TakeKey(c)
  \/ Prove(c) \/ TakeVerdict(c) \/ TakePermit(c) \/ OpenSealed(c) \/ End(c)

ThreadStep(t) ==
  \/ ServeLogout(t) \/ ServeLogin(t) \/ ServeLoginSealed(t) \/ ServeKey(t)
  \/ ServeMsg01(t) \/ ServeMsg3(t) \/ Msg3Verified(t)
  \/ ServeProof(t) \/ ServeExit(t) \/ Leave(t)

Next ==
  \/ \E c \in Client : Start(c) \/ ClientStep(c) \/ Kill(c)
  \/ \E t \in Connection : ThreadStep(t)
  \/ Stop \/ Restart

Spec == Init /\ [][Next]_vars

(* The threads of both processes run; nobody is obliged to start a client, *)
(* to kill one or to restart the server.                                   *)
FairSpec ==
  /\ Spec
  /\ \A c \in Client : WF_vars(ClientStep(c))
  /\ \A t \in Connection : WF_vars(ThreadStep(t))

-----------------------------------------------------------------------------
(***************************************************************************)
(* Properties.                                                             *)
(***************************************************************************)
TypeOK ==
  /\ cpc \in [Client -> Asks \cup {"off", "upload", "end", "sealing"}]
  /\ conn \in [Client -> {0} \cup Connection]
  /\ key \in [Client -> Session \cup {Nothing}]
  /\ startMethod \in [Client -> 0 .. 2]
  /\ proofs \in [Client -> 0 .. MaxProof]
  /\ sealed \in [Client -> Session \cup {Nothing, Torn}]
  /\ owner \in Seq(Client) /\ Len(owner) <= MaxRun
  /\ open \subseteq 1 .. Len(owner) /\ broken \subseteq 1 .. Len(owner)
  /\ \A c \in Client : conn[c] = 0 <=> cpc[c] = "off"
  /\ server \in {"up", "down", "dead"}
  /\ sessions \in [Client -> Session \cup {Nothing, Null}]
  /\ trusted \subseteq 1 .. attested /\ attested \in 0 .. MaxRun
  /\ thread \in [Connection -> {"none", "serve", "verify", "gone"}]
  /\ currentSession \in [Connection -> Session \cup {Nothing, Null}]
  /\ cause \in [Client -> SUBSET {"restart", "overtaken"}]

(* While a client uploads, attested in this run or unsealed from an earlier*)
(* one, the server's thread trusts it and keeps the key of its enclave,    *)
(* unless the server has lost its sessions or a message of an earlier run  *)
(* has come in between (process_msg01's insert, sessions[clientID] in      *)
(* runPow, pow-enclave.sealed).                                            *)
SessionKeysAgree ==
  \A c \in Client :
    cpc[c] \in {"upload", "proof"} /\ cause[c] = {} =>
      /\ currentSession[conn[c]] = key[c]
      /\ sessions[c] = key[c] /\ key[c] \in trusted

(* The server only dies of a client's messages when one of the two has     *)
(* happened, or of the last message of a killed client that comes after the*)
(* first of its next run (sessions.at, and the null entry of operator[]).  *)
DiesOnlyOvertaken ==
  [][server' = "dead" /\ server = "up" =>
       \/ \E c \in Client : cause[c] # {}
       \/ \E t \in 1 .. Len(owner) : up[t] # Nothing /\ Overtaken(t)]_vars

(* Every run of a client ends if neither happens to it: the server answers *)
(* every request (runPow's switch), and the client gives up on what it     *)
(* cannot use.                                                             *)
RunsEnd ==
  \A c \in Client :
    [](cause[c] = {}) => [](cpc[c] # "off" => <>(cpc[c] = "off"))
=============================================================================
