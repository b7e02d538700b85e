------------------------------ MODULE Connections ------------------------------
(***************************************************************************)
(* How clients reach the storage server (util/ssl.cpp, ServerMain.cpp, and *)
(* the constructors and last messages of Sender and RecvDecode).           *)
(*                                                                         *)
(* A run of the client opens a data connection and then a PoW connection.  *)
(* The server's main thread takes a data connection, starts runData on it, *)
(* takes a PoW connection, starts runPow on it, and so on for ever: it     *)
(* waits for one port at a time, and a client's handshake ends only when   *)
(* it takes the connection. A run that uploads ends both threads and waits *)
(* for them; a run that restores ends its PoW thread at once and tells the *)
(* data thread when it is done. Any error of accept or of a handshake ends *)
(* the server, and so do several things outside this module. No descriptor *)
(* the server accepts is ever closed.                                      *)
(***************************************************************************)
EXTENDS Integers, Sequences, FiniteSets

CONSTANTS Client,    \* the users who run the client
          MaxRun,    \* bound: runs of each of them
          MaxKill,   \* bound: clients killed
          FdLimit,   \* connections the server process can hold
          None

ASSUME ConnectionsAssumption == {MaxRun, MaxKill, FdLimit} \subseteq Nat

Ports == {"data", "pow"}
Kinds == {"upload", "restore"}
Runs == Client \X (1 .. MaxRun)

VARIABLES
  pc,        \* what each client does: see Waiting and Busy
  kind,      \* client -s or client -r
  runs,      \* how often each has run: <<c, runs[c]>> is its present run
  open,      \* <<port, run>>: the connections whose client end is open
  said,      \* <<port, run>>: the client has sent its last message
  backlog,   \* connections to each port not yet accepted
  main,      \* where ServerMain's loop is: the port it waits on, the
             \* connection in its handshake, the last data connection
  threads,   \* <<port, run>>: the threads that serve
  garbage,   \* the data threads whose restoredRecipeList is not null
  fds,       \* descriptors the server has accepted
  kills

clientVars == <<pc, kind, runs, open, said>>
serverVars == <<main, threads, garbage, fds>>
vars == <<pc, kind, runs, open, said, backlog, main, threads, garbage, fds, kills>>

Waiting == {"dataHandshake", "powConnect", "powHandshake"}
Leaving == {"awaitPow", "awaitData"}
Busy == Waiting \cup Leaving \cup {"connected", "working", "restoring"}
Over == {"idle", "gone", "failed", "killed"}

Run(c) == <<c, runs[c]>>
Alive == main.port # "dead"
Dies == main' = [main EXCEPT !.port = "dead", !.taking = None]
-----------------------------------------------------------------------------
(* The server listens on both ports.                                       *)
Init ==
  /\ pc = [c \in Client |-> "idle"]
  /\ kind = [c \in Client |-> "upload"]
  /\ runs = [c \in Client |-> 0]
  /\ open = {} /\ said = {}
  /\ backlog = [p \in Ports |-> << >>]
  /\ main = [port |-> "data", taking |-> None, partner |-> None]
  /\ threads = {} /\ garbage = {} /\ fds = 0 /\ kills = 0

GoTo(c, where) == pc' = [pc EXCEPT ![c] = where]

(* The client process ends, and its sockets with it.                       *)
Ends(c, how) == /\ GoTo(c, how)
                /\ open' = open \ {<<p, Run(c)>> : p \in Ports}

(* connect succeeds as soon as the port listens; SSL_connect then waits    *)
(* for the server's end of the handshake.                                  *)
Connect(c, port, run, where) ==
  /\ open' = open \cup {<<port, run>>}
  /\ backlog' = [backlog EXCEPT ![port] = Append(@, run)]
  /\ GoTo(c, where)

(* With a bug: a restore opens its PoW connection first.                   *)
RestorePowFirst(k) == IF k = "restore" THEN "pow" ELSE "data"

(* The connection a run opens first.                                       *)
FirstPort(k) == "data"
SecondPort(k) == CHOOSE p \in Ports : p # FirstPort(k)

Start(c, k) ==
  /\ pc[c] \in Over /\ runs[c] < MaxRun /\ Alive
  /\ kind' = [kind EXCEPT ![c] = k]
  /\ runs' = [runs EXCEPT ![c] = @ + 1]
  /\ Connect(c, FirstPort(k), <<c, runs[c] + 1>>, "dataHandshake")
  /\ UNCHANGED <<said, serverVars, kills>>

ConnectPow(c) ==
  /\ pc[c] = "powConnect" /\ Alive
  /\ Connect(c, SecondPort(kind[c]), Run(c), "powHandshake")
  /\ UNCHANGED <<kind, runs, said, serverVars, kills>>

(* The message after which a thread of the server ends.                    *)
Say(c, port) == said' = said \cup {<<port, Run(c)>>}

(* RecvDecode's constructor, after both handshakes: POW_THREAD_DOWNLOAD.   *)
SayDownload(c) ==
  /\ pc[c] = "connected" /\ kind[c] = "restore"
  /\ Say(c, "pow")
  /\ GoTo(c, "working")
  /\ UNCHANGED <<kind, runs, open, backlog, serverVars, kills>>

(* processRecipe: runData keeps the list it is sent in restoredRecipeList. *)
SendRecipe(c) ==
  /\ pc[c] = "working" /\ kind[c] = "restore"
  /\ <<"data", Run(c)>> \in threads
  /\ garbage' = garbage \ {<<"data", Run(c)>>}
  /\ GoTo(c, "restoring")
  /\ UNCHANGED <<kind, runs, open, said, backlog, main, threads, fds, kills>>

(* RecvDecode's destructor sends CLIENT_EXIT and does not wait.            *)
EndRestore(c) ==
  /\ pc[c] = "restoring"
  /\ said' = said \cup {<<p, Run(c)>> : p \in Ports}
  /\ Ends(c, "gone")
  /\ UNCHANGED <<kind, runs, backlog, serverVars, kills>>

(* sendEndFlag: CLIENT_EXIT to runPow, its permit, CLIENT_EXIT to runData, *)
(* its permit.                                                             *)
EndUpload(c) ==
  /\ kind[c] = "upload" /\ Alive
  /\ \/ /\ pc[c] = "connected"
        /\ Say(c, "pow") /\ GoTo(c, "awaitPow") /\ UNCHANGED open
     \/ /\ pc[c] = "awaitPow" /\ <<"pow", Run(c)>> \notin threads
        /\ Say(c, "data") /\ GoTo(c, "awaitData") /\ UNCHANGED open
     \/ /\ pc[c] = "awaitData" /\ <<"data", Run(c)>> \notin threads
        /\ Ends(c, "gone") /\ UNCHANGED said
  /\ UNCHANGED <<kind, runs, backlog, serverVars, kills>>

(* A run that gives up: exit in powClient or RecvDecode.                   *)
Quit(c) ==
  /\ pc[c] \in {"connected", "working"}
  /\ Ends(c, "gone")
  /\ UNCHANGED <<kind, runs, said, backlog, serverVars, kills>>

(* The server is gone: connect, the handshake or recv fails.               *)
LostServer(c) ==
  /\ pc[c] \in Busy /\ ~ Alive
  /\ Ends(c, "failed")
  /\ UNCHANGED <<kind, runs, said, backlog, serverVars, kills>>

Kill(c) ==
  /\ pc[c] \in Busy /\ kills < MaxKill
  /\ kills' = kills + 1
  /\ Ends(c, "killed")
  /\ UNCHANGED <<kind, runs, said, backlog, serverVars>>
-----------------------------------------------------------------------------
(* With a bug: what accept returns is not looked at.                       *)
AcceptUnchecked ==
  /\ main.port \in Ports /\ main.taking = None
  /\ backlog[main.port] # << >>
  /\ main' = [main EXCEPT !.taking = Head(backlog[main.port])]
  /\ backlog' = [backlog EXCEPT ![main.port] = Tail(@)]
  /\ fds' = fds + 1
  /\ UNCHANGED <<clientVars, threads, garbage, kills>>

(* sslListen: accept fails when the process has no descriptor left, and    *)
(* exit(1) ends it.                                                        *)
Accept ==
  /\ main.port \in Ports /\ main.taking = None
  /\ backlog[main.port] # << >>
  /\ IF fds < FdLimit
     THEN /\ main' = [main EXCEPT !.taking = Head(backlog[main.port])]
          /\ backlog' = [backlog EXCEPT ![main.port] = Tail(@)]
          /\ fds' = fds + 1
          /\ UNCHANGED threads
     ELSE /\ Dies /\ threads' = {} /\ UNCHANGED <<backlog, fds>>
  /\ UNCHANGED <<clientVars, garbage, kills>>

(* The loop starts a thread on the connection and turns to the other port. *)
(* runData does not initialise restoredRecipeList.                         *)
StartThread ==
  LET t == <<main.port, main.taking>>
  IN  /\ threads' = threads \cup {t}
      /\ garbage' \in IF main.port = "data" THEN {garbage, garbage \cup {t}}
                      ELSE {garbage}
      /\ main' = IF main.port = "data"
                 THEN [port |-> "pow", taking |-> None, partner |-> main.taking]
                 ELSE [main EXCEPT !.port = "data", !.taking = None]

(* SSL_accept and the client's SSL_connect return.                         *)
Handshake ==
  /\ main.taking # None /\ <<main.port, main.taking>> \in open
  /\ StartThread
  /\ LET c == main.taking[1]
     IN  GoTo(c, IF pc[c] = "dataHandshake" THEN "powConnect" ELSE "connected")
  /\ UNCHANGED <<kind, runs, open, said, backlog, fds, kills>>

(* SSL_accept is -1, or the verification fails, which ends the server: the *)
(* client died in the handshake, or it has no certificate the server takes.*)
(* Of a client that died it may also be 0, which nobody looks at.          *)
HandshakeFails ==
  /\ main.taking # None
  /\ \/ Dies /\ threads' = {} /\ UNCHANGED garbage
     \/ <<main.port, main.taking>> \notin open /\ StartThread
  /\ UNCHANGED <<clientVars, backlog, fds, kills>>

(* recv gives the last message, or fails: the thread returns, and runData  *)
(* frees restoredRecipeList unless it is null.                             *)
ThreadEnds(t) ==
  /\ t \in threads /\ Alive
  /\ t \in said \/ t \notin open
  /\ IF t \in garbage
     THEN Dies /\ threads' = {}
     ELSE threads' = threads \ {t} /\ UNCHANGED main
  /\ UNCHANGED <<clientVars, backlog, garbage, fds, kills>>

(* What ends the server from elsewhere: SIGINT, exit(1) on the connections *)
(* to the key server, an exception in runPow.                              *)
ServerStops ==
  /\ Alive /\ Dies /\ threads' = {}
  /\ UNCHANGED <<clientVars, backlog, garbage, fds, kills>>
-----------------------------------------------------------------------------
ClientStep(c) == \/ ConnectPow(c) \/ SayDownload(c) \/ SendRecipe(c)
                 \/ EndRestore(c) \/ EndUpload(c) \/ LostServer(c)
ServerStep == Accept \/ Handshake \/ HandshakeFails

Next == \/ \E c \in Client, k \in Kinds : Start(c, k)
        \/ \E c \in Client : ClientStep(c) \/ Quit(c) \/ Kill(c)
        \/ ServerStep \/ ServerStops
        \/ \E t \in Ports \X Runs : ThreadEnds(t)

Spec == Init /\ [][Next]_vars

(* The main thread, each thread and each running client go on.             *)
FairSpec == /\ Spec
            /\ WF_vars(ServerStep)
            /\ \A c \in Client : WF_vars(ClientStep(c))
            /\ \A t \in Ports \X Runs : WF_vars(ThreadEnds(t))
-----------------------------------------------------------------------------
Connection == Ports \X Runs

(* Every variable has its type; the server never holds a connection more   *)
(* than it can.                                                            *)
TypeOK ==
  /\ pc \in [Client -> Busy \cup Over] /\ kind \in [Client -> Kinds]
  /\ runs \in [Client -> 0 .. MaxRun]
  /\ open \subseteq Connection /\ said \subseteq Connection
  /\ threads \subseteq Connection /\ garbage \subseteq Connection
  /\ backlog \in [Ports -> Seq(Runs)]
  /\ main \in [port : Ports \cup {"dead"}, taking : Runs \cup {None},
               partner : Runs \cup {None}]
  /\ fds \in 0 .. FdLimit /\ kills \in 0 .. MaxKill

(* The PoW connection the main thread takes belongs to the run whose data  *)
(* connection it took just before, however many clients connect at once    *)
(* and whichever of them die: the two accepts in turn never cross clients. *)
TakesPairs ==
  main.port = "pow" /\ main.taking # None => main.taking = main.partner

(* The main thread waits for the PoW connection of a run that is over.     *)
Orphaned ==
  /\ main.port = "pow" /\ main.taking = None
  /\ <<"data", main.partner>> \notin open
  /\ backlog["pow"] = << >>

(* A client that waits for the server, to be taken or to be let go, does   *)
(* not wait for ever, unless a run that died between its two connections   *)
(* has left the main thread waiting for the second.                        *)
EveryoneServed ==
  \A c \in Client : (pc[c] \in Waiting \cup Leaving)
     ~> (pc[c] \notin Waiting \cup Leaving \/ Orphaned)
=============================================================================
