--------------------------- MODULE ConnectionsProofs ---------------------------
(***************************************************************************)
(* What holds of Connections for any number of users, runs, kills and      *)
(* descriptors: the types, and that the two ports never cross clients.     *)
(*                                                                         *)
(* TakesPairs is about two queues that clients fill on their own. It holds *)
(* because a client enters the second queue only after the main thread has *)
(* let it through the first, and the main thread then stays at the second: *)
(* Turns. What the queues hold is told from what dead clients have left in *)
(* them by Queues and Clients.                                             *)
(***************************************************************************)
EXTENDS Connections, TLAPS

Queued(r, s) == \E i \in 1 .. Len(s) : s[i] = r
Distinct(s) == \A i, j \in 1 .. Len(s) : s[i] = s[j] => i = j

(* The main thread still has to start the thread of run r at port p.       *)
Wanted(p, r) ==
  Queued(r, backlog[p]) \/ (main.port = p /\ main.taking = r /\ r # None)

(* A connection is made once, by a run that has begun.                     *)
Queues ==
  /\ \A p \in Ports : Distinct(backlog[p])
  /\ main.port \in Ports /\ main.taking # None
       => ~ Queued(main.taking, backlog[main.port])
  /\ \A r \in Runs : Wanted("data", r) => r[2] <= runs[r[1]]

(* An open connection is one of its client's present run, and tells how far*)
(* that run is.                                                            *)
Clients ==
  /\ \A p \in Ports, r \in Runs : <<p, r>> \in open =>
       /\ runs[r[1]] = r[2] /\ pc[r[1]] \in Busy
       /\ p = "pow" => pc[r[1]] \notin {"dataHandshake", "powConnect"}
       /\ p = "data" /\ Wanted("data", r) => pc[r[1]] = "dataHandshake"
  /\ \A c \in Client : /\ pc[c] = "powHandshake" => <<"pow", Run(c)>> \in open
                       /\ pc[c] \in Busy => Run(c) \in Runs

Between == {"powConnect", "powHandshake"}

(* A client is between its two connections only while the main thread waits*)
(* at the PoW port for that client.                                        *)
Turns ==
  /\ main.port = "dead" => main.taking = None
  /\ main.port = "data" =>
       /\ \A r \in Runs : ~ Queued(r, backlog["pow"])
       /\ \A c \in Client : pc[c] \notin Between
  /\ main.port = "pow" =>
       /\ \A r \in Runs : Wanted("pow", r) => r = main.partner
       /\ \A c \in Client : pc[c] \in Between => Run(c) = main.partner
       /\ \A c \in Client : pc[c] = "powConnect" => \A r \in Runs : ~ Wanted("pow", r)

IInv == TypeOK /\ Queues /\ Clients /\ Turns

-----------------------------------------------------------------------------
(* A queue and the first of it.                                            *)
LEMMA TailOf ==
  ASSUME NEW S, NEW s \in Seq(S), s # << >>
  PROVE  /\ Head(s) \in S /\ Tail(s) \in Seq(S) /\ Queued(Head(s), s)
         /\ \A r : Queued(r, Tail(s)) => Queued(r, s)
         /\ Distinct(s) => Distinct(Tail(s)) /\ ~ Queued(Head(s), Tail(s))
<1>1. /\ Head(s) = s[1] /\ Len(s) \in Nat \ {0} /\ Tail(s) \in Seq(S)
      /\ Len(Tail(s)) = Len(s) - 1
      /\ \A i \in 1 .. Len(s) - 1 : Tail(s)[i] = s[i + 1]
  OBVIOUS
<1>2. 1 \in 1 .. Len(s) /\ Head(s) \in S
  BY <1>1
<1>3. Queued(Head(s), s)
  BY <1>1, <1>2 DEF Queued
<1>4. ASSUME NEW r, Queued(r, Tail(s))
      PROVE  Queued(r, s)
  <2>1. PICK i \in 1 .. Len(s) - 1 : s[i + 1] = r
    BY <1>1, <1>4 DEF Queued
  <2> QED BY <1>1, <2>1 DEF Queued
<1>5. ASSUME Distinct(s)
      PROVE  Distinct(Tail(s)) /\ ~ Queued(Head(s), Tail(s))
  <2>1. ASSUME NEW i \in 1 .. Len(Tail(s)), NEW j \in 1 .. Len(Tail(s)),
               Tail(s)[i] = Tail(s)[j]
        PROVE  i = j
    <3>1. i + 1 \in 1 .. Len(s) /\ j + 1 \in 1 .. Len(s) /\ s[i + 1] = s[j + 1]
      BY <1>1, <2>1
    <3> QED BY <1>1, <1>5, <3>1 DEF Distinct
  <2>2. ASSUME NEW i \in 1 .. Len(Tail(s)), Tail(s)[i] = Head(s)
        PROVE  FALSE
    <3>1. i + 1 \in 1 .. Len(s) /\ s[i + 1] = s[1]
      BY <1>1, <2>2
    <3> QED BY <1>1, <1>2, <1>5, <3>1 DEF Distinct
  <2> QED BY <2>1, <2>2 DEF Distinct, Queued
<1> QED BY <1>1, <1>2, <1>3, <1>4, <1>5

(* A queue and one more.                                                   *)
LEMMA AppendTo ==
  ASSUME NEW S, NEW s \in Seq(S), NEW x \in S
  PROVE  /\ Append(s, x) \in Seq(S)
         /\ \A r : Queued(r, Append(s, x)) => Queued(r, s) \/ r = x
         /\ Distinct(s) /\ ~ Queued(x, s) => Distinct(Append(s, x))
<1>1. /\ Append(s, x) \in Seq(S) /\ Len(s) \in Nat
      /\ Len(Append(s, x)) = Len(s) + 1
      /\ \A i \in 1 .. Len(s) : Append(s, x)[i] = s[i]
      /\ Append(s, x)[Len(s) + 1] = x
  OBVIOUS
<1>2. ASSUME NEW r, Queued(r, Append(s, x)), r # x
      PROVE  Queued(r, s)
  <2>1. PICK i \in 1 .. Len(s) + 1 : Append(s, x)[i] = r
    BY <1>1, <1>2 DEF Queued
  <2>2. i \in 1 .. Len(s)
    BY <1>1, <1>2, <2>1
  <2> QED BY <1>1, <2>1, <2>2 DEF Queued
<1>3. ASSUME Distinct(s), ~ Queued(x, s)
      PROVE  Distinct(Append(s, x))
  <2>1. ASSUME NEW i \in 1 .. Len(s) + 1, NEW j \in 1 .. Len(s) + 1,
               Append(s, x)[i] = Append(s, x)[j]
        PROVE  i = j
    <3>1. CASE i \in 1 .. Len(s) /\ j \in 1 .. Len(s)
      BY <1>1, <1>3, <2>1, <3>1 DEF Distinct
    <3>2. CASE i = Len(s) + 1 /\ j \in 1 .. Len(s)
      BY <1>1, <1>3, <2>1, <3>2 DEF Queued
    <3>3. CASE i \in 1 .. Len(s) /\ j = Len(s) + 1
      BY <1>1, <1>3, <2>1, <3>3 DEF Queued
    <3> QED BY <1>1, <3>1, <3>2, <3>3
  <2> QED BY <1>1, <2>1 DEF Distinct
<1> QED BY <1>1, <1>2, <1>3

LEMMA NothingQueued ==
  ASSUME NEW r
  PROVE  ~ Queued(r, << >>)
BY DEF Queued

(* The PoW port is the one a run opens second.                             *)
LEMMA Second ==
  ASSUME NEW k
  PROVE  SecondPort(k) = "pow"
<1>1. \E p \in Ports : p # "data"
  BY DEF Ports
<1>2. SecondPort(k) \in Ports /\ SecondPort(k) # "data"
  BY <1>1 DEF SecondPort, FirstPort
<1> QED BY <1>2 DEF Ports
-----------------------------------------------------------------------------
LEMMA InitIInv == Init => IInv
<1> SUFFICES ASSUME Init
             PROVE  IInv
  OBVIOUS
<1>1. /\ << >> \in Seq(Runs) /\ Len(<< >>) = 0
      /\ \A p \in Ports : backlog[p] = << >>
      /\ main = [port |-> "data", taking |-> None, partner |-> None]
  BY DEF Init
<1>2. TypeOK
  BY <1>1, ConnectionsAssumption DEF Init, TypeOK, Busy, Over, Kinds, Ports
<1>3. \A p \in Ports : \A r : ~ Queued(r, backlog[p])
  BY <1>1, NothingQueued
<1>4. Queues
  BY <1>1, <1>3 DEF Queues, Distinct, Wanted, Ports
<1>5. Clients
  BY DEF Init, Clients, Busy, Waiting, Leaving
<1>6. Turns
  BY <1>1, <1>3 DEF Init, Turns, Between, Ports
<1> QED BY <1>2, <1>4, <1>5, <1>6 DEF IInv

(* A new run joins the queue of the data port.                             *)
LEMMA StartIInv ==
  ASSUME IInv, NEW c \in Client, NEW k \in Kinds, Start(c, k)
  PROVE  IInv'
<1> DEFINE new == <<c, runs[c] + 1>>
<1>1. /\ pc[c] \in Over /\ runs[c] < MaxRun /\ Alive
      /\ kind' = [kind EXCEPT ![c] = k]
      /\ runs' = [runs EXCEPT ![c] = @ + 1]
      /\ open' = open \cup {<<"data", new>>}
      /\ backlog' = [backlog EXCEPT !["data"] = Append(@, new)]
      /\ pc' = [pc EXCEPT ![c] = "dataHandshake"]
      /\ UNCHANGED <<said, main, threads, garbage, fds, kills>>
  BY DEF Start, Connect, FirstPort, GoTo, serverVars
<1>2. /\ runs[c] \in Nat /\ MaxRun \in Nat /\ new \in Runs /\ "data" \in Ports
      /\ backlog["data"] \in Seq(Runs)
  BY <1>1, ConnectionsAssumption DEF IInv, TypeOK, Runs, Ports
<1>3. /\ backlog'["data"] = Append(backlog["data"], new)
      /\ backlog'["pow"] = backlog["pow"]
      /\ backlog'["data"] \in Seq(Runs)
      /\ \A r : Queued(r, backlog'["data"]) => Queued(r, backlog["data"]) \/ r = new
  <2>1. /\ backlog'["data"] = Append(backlog["data"], new)
        /\ backlog'["pow"] = backlog["pow"]
    BY <1>1 DEF IInv, TypeOK, Ports
  <2> HIDE DEF new
  <2>2. /\ Append(backlog["data"], new) \in Seq(Runs)
        /\ \A r : Queued(r, Append(backlog["data"], new)) => Queued(r, backlog["data"]) \/ r = new
    BY <1>2, AppendTo
  <2> QED BY <2>1, <2>2
<1>4. ~ Wanted("data", new) /\ ~ Queued(new, backlog["data"])
  <2>1. Wanted("data", new) => new[2] <= runs[new[1]]
    BY <1>2 DEF IInv, Queues
  <2>2. ~ Wanted("data", new)
    BY <1>2, <2>1
  <2> QED BY <2>2 DEF Wanted
<1>5. TypeOK'
  <2>1. backlog' \in [Ports -> Seq(Runs)]
    BY <1>1, <1>3 DEF IInv, TypeOK, Ports
  <2>2. runs' \in [Client -> 0 .. MaxRun] /\ pc' \in [Client -> Busy \cup Over]
    <3>1. runs[c] + 1 \in 0 .. MaxRun /\ "dataHandshake" \in Busy \cup Over
      BY <1>1, <1>2 DEF Busy, Waiting
    <3> QED BY <1>1, <3>1 DEF IInv, TypeOK
  <2>4. kind' \in [Client -> Kinds]
    BY <1>1 DEF IInv, TypeOK
  <2>3. open' \subseteq Connection
    <3>1. <<"data", new>> \in Connection
      BY <1>2 DEF Connection
    <3> QED BY <1>1, <3>1 DEF IInv, TypeOK
  <2>5. /\ said' \subseteq Connection /\ threads' \subseteq Connection
        /\ garbage' \subseteq Connection
        /\ main' \in [port : Ports \cup {"dead"}, taking : Runs \cup {None},
                     partner : Runs \cup {None}]
        /\ fds' \in 0 .. FdLimit /\ kills' \in 0 .. MaxKill
    BY <1>1 DEF IInv, TypeOK
  <2> QED BY <2>1, <2>2, <2>3, <2>4, <2>5 DEF TypeOK
<1>6. \A r : Wanted("data", r)' => Wanted("data", r) \/ r = new
  BY <1>1, <1>3 DEF Wanted
<1>7. \A r : Wanted("pow", r)' <=> Wanted("pow", r)
  BY <1>1, <1>3 DEF Wanted
<1>8. Queues'
  <2>1. Distinct(backlog'["data"])
    BY <1>2, <1>3, <1>4, AppendTo DEF IInv, Queues, Ports
  <2>2. \A p \in Ports : Distinct(backlog'[p])
    BY <1>3, <2>1 DEF IInv, Queues, Ports
  <2>3. ASSUME main.port \in Ports, main.taking # None
        PROVE  ~ Queued(main.taking, backlog'[main.port])
    <3>1. ~ Queued(main.taking, backlog[main.port])
      BY <2>3 DEF IInv, Queues
    <3>2. CASE main.port = "data"
      <4>1. main.taking # new
        BY <1>4, <2>3, <3>2 DEF Wanted
      <4> QED BY <1>3, <3>1, <3>2, <4>1
    <3>3. CASE main.port = "pow"
      BY <1>3, <3>1, <3>3
    <3> QED BY <2>3, <3>2, <3>3 DEF Ports
  <2>4. ASSUME NEW r \in Runs, Wanted("data", r)'
        PROVE  r[2] <= runs'[r[1]]
    <3>1. CASE r = new
      BY <1>1, <1>2, <3>1 DEF IInv, TypeOK
    <3>2. CASE r # new
      <4>1. r[2] <= runs[r[1]] /\ r[1] \in Client /\ r[2] \in Nat
        BY <1>6, <2>4, <3>2 DEF IInv, Queues, Runs
      <4> QED BY <1>1, <1>2, <4>1 DEF IInv, TypeOK
    <3> QED BY <3>1, <3>2
  <2> QED BY <1>1, <2>2, <2>3, <2>4 DEF Queues
<1>9. Clients'
  <2>1. \A p \in Ports, r \in Runs : <<p, r>> \in open => r[1] # c
    BY <1>1 DEF IInv, Clients, Busy, Over, Waiting, Leaving
  <2>2. ASSUME NEW p \in Ports, NEW r \in Runs, <<p, r>> \in open'
        PROVE  /\ runs'[r[1]] = r[2] /\ pc'[r[1]] \in Busy
               /\ p = "pow" => pc'[r[1]] \notin {"dataHandshake", "powConnect"}
               /\ p = "data" /\ Wanted("data", r)' => pc'[r[1]] = "dataHandshake"
    <3>1. CASE <<p, r>> = <<"data", new>>
      <4>1. p = "data" /\ r[1] = c /\ r[2] = runs[c] + 1
        BY <3>1
      <4> QED BY <1>1, <1>2, <4>1 DEF IInv, TypeOK, Busy, Waiting
    <3>2. CASE <<p, r>> \in open
      <4>1. r[1] # c /\ r[1] \in Client /\ r # new
        BY <2>1, <3>2 DEF Runs
      <4>2. runs'[r[1]] = runs[r[1]] /\ pc'[r[1]] = pc[r[1]]
        BY <1>1, <4>1 DEF IInv, TypeOK
      <4> QED BY <1>6, <3>2, <4>1, <4>2 DEF IInv, Clients
    <3> QED BY <1>1, <2>2, <3>1, <3>2
  <2>3. ASSUME NEW d \in Client
        PROVE  /\ pc'[d] = "powHandshake" => <<"pow", Run(d)'>> \in open'
               /\ pc'[d] \in Busy => Run(d)' \in Runs
    <3>1. CASE d = c
      BY <1>1, <1>2, <3>1 DEF IInv, TypeOK, Run
    <3>2. CASE d # c
      <4>1. pc'[d] = pc[d] /\ Run(d)' = Run(d)
        BY <1>1, <3>2 DEF IInv, TypeOK, Run
      <4> QED BY <1>1, <4>1 DEF IInv, Clients
    <3> QED BY <3>1, <3>2
  <2> QED BY <2>2, <2>3 DEF Clients
<1>10. Turns'
  <2>1. \A d \in Client : pc'[d] \in Between =>
            pc'[d] = pc[d] /\ Run(d)' = Run(d)
    BY <1>1 DEF IInv, TypeOK, Between, Run
  <2> QED BY <1>1, <1>3, <1>7, <2>1 DEF IInv, Turns, Between
<1> QED BY <1>5, <1>8, <1>9, <1>10 DEF IInv

(* A client reaches for the PoW port when the main thread waits there for  *)
(* it, with nothing else in the queue.                                     *)
LEMMA ConnectIInv ==
  ASSUME IInv, NEW c \in Client, ConnectPow(c)
  PROVE  IInv'
<1> DEFINE run == Run(c)
<1>1. /\ pc[c] = "powConnect" /\ Alive
      /\ open' = open \cup {<<"pow", run>>}
      /\ backlog' = [backlog EXCEPT !["pow"] = Append(@, run)]
      /\ pc' = [pc EXCEPT ![c] = "powHandshake"]
      /\ UNCHANGED <<kind, runs, said, main, threads, garbage, fds, kills>>
  BY Second DEF ConnectPow, Connect, GoTo, serverVars
<1>2. main.port = "pow" /\ run = main.partner
  BY <1>1 DEF IInv, TypeOK, Turns, Between, Alive, Ports
<1>3. /\ backlog["pow"] \in Seq(Runs) /\ "pow" \in Ports /\ "data" \in Ports
      /\ run \in Runs /\ run = <<c, runs[c]>>
  BY <1>1 DEF IInv, TypeOK, Ports, Clients, Busy, Waiting, Run
<1>4. /\ backlog'["pow"] = Append(backlog["pow"], run)
      /\ backlog'["data"] = backlog["data"]
  BY <1>1 DEF IInv, TypeOK, Ports
<1>5. /\ backlog'["pow"] \in Seq(Runs)
      /\ \A r : Queued(r, backlog'["pow"]) => Queued(r, backlog["pow"]) \/ r = run
      /\ Distinct(backlog["pow"]) /\ ~ Queued(run, backlog["pow"])
           => Distinct(backlog'["pow"])
  BY <1>3, <1>4, AppendTo
<1>6. \A r \in Runs : ~ Wanted("pow", r)
  BY <1>1, <1>2 DEF IInv, Turns
<1>7. main.taking = None
  BY <1>2, <1>6 DEF IInv, TypeOK, Wanted
<1>8. TypeOK'
  <2>1. backlog' \in [Ports -> Seq(Runs)]
    BY <1>1, <1>5 DEF IInv, TypeOK, Ports
  <2>2. pc' \in [Client -> Busy \cup Over]
    <3>1. "powHandshake" \in Busy \cup Over
      BY DEF Busy, Waiting
    <3> QED BY <1>1, <3>1 DEF IInv, TypeOK
  <2>3. open' \subseteq Connection
    <3>1. <<"pow", run>> \in Connection
      BY <1>3 DEF Connection
    <3> QED BY <1>1, <3>1 DEF IInv, TypeOK
  <2>4. /\ kind' \in [Client -> Kinds] /\ runs' \in [Client -> 0 .. MaxRun]
        /\ said' \subseteq Connection /\ threads' \subseteq Connection
        /\ garbage' \subseteq Connection
        /\ main' \in [port : Ports \cup {"dead"}, taking : Runs \cup {None},
                     partner : Runs \cup {None}]
        /\ fds' \in 0 .. FdLimit /\ kills' \in 0 .. MaxKill
    BY <1>1 DEF IInv, TypeOK
  <2> QED BY <2>1, <2>2, <2>3, <2>4 DEF TypeOK
<1>9. \A r : Wanted("data", r)' <=> Wanted("data", r)
  BY <1>1, <1>4 DEF Wanted
<1>10. \A r \in Runs : Wanted("pow", r)' => r = run
  BY <1>1, <1>5, <1>6, <1>7 DEF Wanted
<1>11. Queues'
  <2>1. Distinct(backlog'["pow"]) /\ Distinct(backlog'["data"])
    BY <1>3, <1>4, <1>5, <1>6 DEF IInv, Queues, Wanted
  <2> QED BY <1>1, <1>7, <1>9, <2>1 DEF IInv, Queues, Ports
<1>12. Clients'
  <2>1. ASSUME NEW p \in Ports, NEW r \in Runs, <<p, r>> \in open'
        PROVE  /\ runs'[r[1]] = r[2] /\ pc'[r[1]] \in Busy
               /\ p = "pow" => pc'[r[1]] \notin {"dataHandshake", "powConnect"}
               /\ p = "data" /\ Wanted("data", r)' => pc'[r[1]] = "dataHandshake"
    <3>1. CASE <<p, r>> = <<"pow", run>>
      <4>1. p = "pow" /\ r[1] = c /\ r[2] = runs[c]
        BY <1>3, <3>1
      <4> QED BY <1>1, <4>1 DEF IInv, TypeOK, Busy, Waiting
    <3>2. CASE <<p, r>> \in open /\ r[1] # c
      <4>1. r[1] \in Client /\ pc'[r[1]] = pc[r[1]]
        BY <1>1, <3>2 DEF IInv, TypeOK, Runs
      <4> QED BY <1>1, <1>9, <3>2, <4>1 DEF IInv, Clients
    <3>3. CASE <<p, r>> \in open /\ r[1] = c
      <4>1. runs[c] = r[2] /\ ~ (p = "data" /\ Wanted("data", r))
        BY <1>1, <3>3 DEF IInv, Clients
      <4> QED BY <1>1, <1>9, <3>3, <4>1 DEF IInv, TypeOK, Busy, Waiting
    <3> QED BY <1>1, <2>1, <3>1, <3>2, <3>3
  <2>2. ASSUME NEW d \in Client
        PROVE  /\ pc'[d] = "powHandshake" => <<"pow", Run(d)'>> \in open'
               /\ pc'[d] \in Busy => Run(d)' \in Runs
    <3>1. CASE d = c
      BY <1>1, <1>3, <3>1 DEF Run
    <3>2. CASE d # c
      <4>1. pc'[d] = pc[d] /\ Run(d)' = Run(d)
        BY <1>1, <3>2 DEF IInv, TypeOK, Run
      <4> QED BY <1>1, <4>1 DEF IInv, Clients
    <3> QED BY <3>1, <3>2
  <2> QED BY <2>1, <2>2 DEF Clients
<1>13. Turns'
  <2>1. ASSUME NEW d \in Client, pc'[d] \in Between
        PROVE  Run(d)' = main.partner /\ pc'[d] # "powConnect"
    <3>1. CASE d = c
      BY <1>1, <1>2, <3>1 DEF IInv, TypeOK, Run
    <3>2. CASE d # c
      <4>1. pc[d] = pc'[d] /\ Run(d)' = Run(d)
        BY <1>1, <3>2 DEF IInv, TypeOK, Run
      <4>2. Run(d) = run
        BY <1>2, <2>1, <4>1 DEF IInv, Turns
      <4> QED BY <3>2, <4>2 DEF Run
    <3> QED BY <3>1, <3>2
  <2> QED BY <1>1, <1>2, <1>10, <2>1 DEF Turns, Between
<1> QED BY <1>8, <1>11, <1>12, <1>13 DEF IInv

(* A client that goes on without a new connection, or ends.                *)
LEMMA MoveIInv ==
  ASSUME IInv, NEW c \in Client, NEW q, pc[c] \in Busy,
         pc' = [pc EXCEPT ![c] = q],
         \/ q \in Over /\ open' = open \ {<<p, Run(c)>> : p \in Ports}
         \/ q \in Busy \ Waiting /\ pc[c] \notin Waiting /\ open' = open,
         UNCHANGED <<kind, runs, backlog, main, threads, fds>>,
         said' \subseteq Connection, garbage' \subseteq Connection,
         kills' \in 0 .. MaxKill
  PROVE  IInv'
<1>1. /\ \A d \in Client : d # c => pc'[d] = pc[d]
      /\ pc'[c] = q /\ q \notin Waiting
      /\ \A d : Run(d)' = Run(d)
      /\ open' \subseteq open
  BY DEF IInv, TypeOK, Run, Over, Waiting
<1>2. \A p, r : Wanted(p, r)' <=> Wanted(p, r)
  BY DEF Wanted
<1>3. TypeOK'
  <2>1. pc' \in [Client -> Busy \cup Over]
    BY DEF IInv, TypeOK
  <2> QED BY <1>1, <2>1 DEF IInv, TypeOK
<1>4. Queues'
  BY <1>2 DEF IInv, Queues
<1>5. Clients'
  <2>1. ASSUME NEW p \in Ports, NEW r \in Runs, <<p, r>> \in open'
        PROVE  /\ runs'[r[1]] = r[2] /\ pc'[r[1]] \in Busy
               /\ p = "pow" => pc'[r[1]] \notin {"dataHandshake", "powConnect"}
               /\ p = "data" /\ Wanted("data", r)' => pc'[r[1]] = "dataHandshake"
    <3>1. r[1] \in Client /\ r = <<r[1], r[2]>> /\ <<p, r>> \in open
      BY <1>1, <2>1 DEF Runs
    <3>2. /\ runs[r[1]] = r[2] /\ pc[r[1]] \in Busy
          /\ p = "pow" => pc[r[1]] \notin {"dataHandshake", "powConnect"}
          /\ p = "data" /\ Wanted("data", r) => pc[r[1]] = "dataHandshake"
      BY <3>1 DEF IInv, Clients
    <3>3. CASE r[1] # c
      BY <1>1, <1>2, <3>1, <3>2, <3>3
    <3>4. CASE r[1] = c
      <4>1. r = Run(c)
        BY <3>1, <3>2, <3>4 DEF Run
      <4>2. q \in Busy \ Waiting /\ pc[c] \notin Waiting
        BY <2>1, <4>1
      <4> QED BY <1>1, <1>2, <3>2, <3>4, <4>2 DEF Waiting
    <3> QED BY <3>3, <3>4
  <2>2. ASSUME NEW d \in Client
        PROVE  /\ pc'[d] = "powHandshake" => <<"pow", Run(d)'>> \in open'
               /\ pc'[d] \in Busy => Run(d)' \in Runs
    <3>1. pc'[d] \in Busy => pc[d] \in Busy
      BY <1>1
    <3>2. pc'[d] = "powHandshake" => <<"pow", Run(d)>> \in open'
      <4>1. ASSUME pc'[d] = "powHandshake"
            PROVE  <<"pow", Run(d)>> \in open'
        <5>1. d # c /\ pc[d] = "powHandshake"
          BY <1>1, <4>1 DEF Waiting
        <5>2. <<"pow", Run(d)>> \in open /\ Run(d) # Run(c)
          BY <5>1 DEF IInv, Clients, Run
        <5> QED BY <5>2
      <4> QED BY <4>1
    <3> QED BY <1>1, <3>1, <3>2 DEF IInv, Clients
  <2> QED BY <2>1, <2>2 DEF Clients
<1>6. Turns'
  <2>1. \A d \in Client : pc'[d] \in Between => pc'[d] = pc[d]
    BY <1>1 DEF Between, Waiting
  <2> QED BY <1>1, <1>2, <2>1 DEF IInv, Turns, Between
<1> QED BY <1>3, <1>4, <1>5, <1>6 DEF IInv
-----------------------------------------------------------------------------
LEMMA SayDownloadIInv ==
  ASSUME IInv, NEW c \in Client, SayDownload(c)
  PROVE  IInv'
<1>1. pc[c] = "connected" /\ "working" \in Busy \ Waiting
  BY DEF SayDownload, Busy, Waiting
<1>2. said' \subseteq Connection
  BY <1>1 DEF SayDownload, Say, IInv, TypeOK, Clients, Connection, Ports, Busy
<1> QED BY <1>1, <1>2, MoveIInv
        DEF SayDownload, GoTo, serverVars, Busy, Waiting, IInv, TypeOK

LEMMA SendRecipeIInv ==
  ASSUME IInv, NEW c \in Client, SendRecipe(c)
  PROVE  IInv'
<1>1. pc[c] = "working" /\ "restoring" \in Busy \ Waiting
  BY DEF SendRecipe, Busy, Waiting
<1> QED BY <1>1, MoveIInv
        DEF SendRecipe, GoTo, Busy, Waiting, IInv, TypeOK

LEMMA EndRestoreIInv ==
  ASSUME IInv, NEW c \in Client, EndRestore(c)
  PROVE  IInv'
<1>1. pc[c] = "restoring" /\ "gone" \in Over
  BY DEF EndRestore, Over
<1>2. Run(c) \in Runs /\ pc[c] \in Busy
  BY <1>1 DEF IInv, Clients, Busy
<1>3. said' \subseteq Connection
  BY <1>2 DEF EndRestore, IInv, TypeOK, Connection
<1> QED BY <1>1, <1>2, <1>3, MoveIInv
        DEF EndRestore, Ends, GoTo, serverVars, IInv, TypeOK

LEMMA EndUploadIInv ==
  ASSUME IInv, NEW c \in Client, EndUpload(c)
  PROVE  IInv'
<1>1. /\ UNCHANGED <<kind, runs, backlog, main, threads, garbage, fds, kills>>
      /\ pc[c] \in {"connected", "awaitPow", "awaitData"}
      /\ pc[c] \in Busy \ Waiting
      /\ {"awaitPow", "awaitData"} \subseteq Busy \ Waiting /\ "gone" \in Over
      /\ garbage' \subseteq Connection /\ kills' \in 0 .. MaxKill
  BY DEF EndUpload, Busy, Waiting, Leaving, Over, serverVars, IInv, TypeOK
<1>2. Run(c) \in Runs
  BY <1>1 DEF IInv, Clients
<1>3. said' \subseteq Connection
  <2>1. \A p \in Ports : <<p, Run(c)>> \in Connection
    BY <1>2 DEF Connection
  <2> QED BY <2>1 DEF EndUpload, Say, IInv, TypeOK, Ports
<1>4. \/ \E q \in {"awaitPow", "awaitData"} :
           pc' = [pc EXCEPT ![c] = q] /\ open' = open
      \/ /\ pc' = [pc EXCEPT ![c] = "gone"]
         /\ open' = open \ {<<p, Run(c)>> : p \in Ports}
  BY DEF EndUpload, GoTo, Ends
<1>5. CASE \E q \in {"awaitPow", "awaitData"} :
             pc' = [pc EXCEPT ![c] = q] /\ open' = open
  BY <1>1, <1>3, <1>5, MoveIInv
<1>6. CASE /\ pc' = [pc EXCEPT ![c] = "gone"]
           /\ open' = open \ {<<p, Run(c)>> : p \in Ports}
  BY <1>1, <1>3, <1>6, MoveIInv
<1> QED BY <1>4, <1>5, <1>6

(* The ways a client ends that say nothing to the server.                  *)
LEMMA LeaveIInv ==
  ASSUME IInv, NEW c \in Client, Quit(c) \/ LostServer(c) \/ Kill(c)
  PROVE  IInv'
<1>1. pc[c] \in Busy /\ {"gone", "failed", "killed"} \subseteq Over
  BY DEF Quit, LostServer, Kill, Busy, Over
<1>2. \E q \in Over : /\ pc' = [pc EXCEPT ![c] = q]
                      /\ open' = open \ {<<p, Run(c)>> : p \in Ports}
  BY <1>1 DEF Quit, LostServer, Kill, Ends, GoTo
<1>3. /\ UNCHANGED <<kind, runs, said, backlog, main, threads, garbage, fds>>
      /\ said' \subseteq Connection /\ garbage' \subseteq Connection
  BY DEF Quit, LostServer, Kill, serverVars, IInv, TypeOK
<1>4. kills' \in 0 .. MaxKill
  BY ConnectionsAssumption DEF Quit, LostServer, Kill, IInv, TypeOK
<1> QED BY <1>1, <1>2, <1>3, <1>4, MoveIInv
-----------------------------------------------------------------------------
(* The server's end.                                                       *)
LEMMA DiesIInv ==
  ASSUME IInv, Dies, threads' = {}, UNCHANGED <<clientVars, backlog, garbage, fds, kills>>
  PROVE  IInv'
<1>1. /\ main' = [main EXCEPT !.port = "dead", !.taking = None]
      /\ main'.port = "dead" /\ main'.taking = None
      /\ UNCHANGED <<pc, kind, runs, open, said>>
  BY DEF Dies, clientVars, IInv, TypeOK
<1>2. \A r \in Runs : Wanted("data", r)' => Wanted("data", r)
  BY <1>1 DEF Wanted
<1>3. TypeOK'
  BY <1>1 DEF IInv, TypeOK
<1>4. Queues'
  BY <1>1, <1>2 DEF IInv, Queues
<1>5. Clients'
  BY <1>1, <1>2 DEF IInv, Clients, Run
<1>6. Turns'
  BY <1>1 DEF Turns
<1> QED BY <1>3, <1>4, <1>5, <1>6 DEF IInv

(* The main thread takes the first of the queue it waits at, or dies.      *)
LEMMA AcceptIInv ==
  ASSUME IInv, Accept
  PROVE  IInv'
<1>1. CASE fds >= FdLimit
  <2>1. ~ fds < FdLimit
    BY <1>1, ConnectionsAssumption DEF IInv, TypeOK
  <2> QED BY <2>1, DiesIInv DEF Accept
<1>2. CASE fds < FdLimit
  <2> DEFINE port == main.port
             h == Head(backlog[port])
  <2>1. /\ port \in Ports /\ main.taking = None /\ backlog[port] # << >>
        /\ main' = [main EXCEPT !.taking = h]
        /\ backlog' = [backlog EXCEPT ![port] = Tail(@)]
        /\ fds' = fds + 1
        /\ UNCHANGED <<pc, kind, runs, open, said, threads, garbage, kills>>
    BY <1>2 DEF Accept, clientVars
  <2>2. /\ backlog[port] \in Seq(Runs) /\ backlog'[port] = Tail(backlog[port])
        /\ \A p \in Ports : p # port => backlog'[p] = backlog[p]
        /\ main'.port = port /\ main'.taking = h /\ main'.partner = main.partner
    BY <2>1 DEF IInv, TypeOK
  <2>3. Distinct(backlog[port])
    BY <2>1 DEF IInv, Queues
  <2>4. /\ h \in Runs /\ backlog'[port] \in Seq(Runs) /\ Queued(h, backlog[port])
        /\ \A r : Queued(r, backlog'[port]) => Queued(r, backlog[port])
        /\ Distinct(backlog'[port]) /\ ~ Queued(h, backlog'[port])
    BY <2>1, <2>2, <2>3, TailOf
  <2>5. \A p \in Ports : \A r : Wanted(p, r)' => Wanted(p, r)
    BY <2>1, <2>2, <2>4 DEF Wanted
  <2>6. TypeOK'
    <3>1. backlog' \in [Ports -> Seq(Runs)]
      BY <2>1, <2>4 DEF IInv, TypeOK
    <3>2. main' \in [port : Ports \cup {"dead"}, taking : Runs \cup {None},
                    partner : Runs \cup {None}]
      BY <2>1, <2>4 DEF IInv, TypeOK
    <3>3. fds' \in 0 .. FdLimit
      BY <1>2, <2>1, ConnectionsAssumption DEF IInv, TypeOK
    <3> QED BY <2>1, <3>1, <3>2, <3>3 DEF IInv, TypeOK
  <2>7. Queues'
    <3>1. \A p \in Ports : Distinct(backlog'[p])
      BY <2>2, <2>4 DEF IInv, Queues
    <3>2. "data" \in Ports
      BY DEF Ports
    <3> QED BY <2>1, <2>2, <2>4, <2>5, <3>1, <3>2 DEF IInv, Queues
  <2>8. Clients'
    BY <2>1, <2>5 DEF IInv, Clients, Run, Ports
  <2>9. Turns'
    <3>1. port = "data" => \A r \in Runs : ~ Queued(r, backlog'["pow"])
      BY <2>2 DEF IInv, Turns, Ports
    <3> QED BY <2>1, <2>2, <2>5, <3>1 DEF IInv, Turns, Run, Ports
  <2> QED BY <2>6, <2>7, <2>8, <2>9 DEF IInv
<1> QED BY <1>1, <1>2, ConnectionsAssumption DEF IInv, TypeOK

(* A thread starts, and the main thread turns to the other port.           *)
LEMMA StartThreadMain ==
  ASSUME IInv, main.taking # None, StartThread
  PROVE  /\ main.port \in Ports /\ main.taking \in Runs
         /\ threads' \subseteq Connection /\ garbage' \subseteq Connection
         /\ main' \in [port : Ports \cup {"dead"}, taking : Runs \cup {None},
                      partner : Runs \cup {None}]
         /\ main'.taking = None
         /\ main.port = "data" => main'.port = "pow" /\ main'.partner = main.taking
         /\ main.port = "pow" => main'.port = "data"
<1> DEFINE t == <<main.port, main.taking>>
<1>1. /\ main \in [port : Ports \cup {"dead"}, taking : Runs \cup {None},
                  partner : Runs \cup {None}]
      /\ threads \subseteq Connection /\ garbage \subseteq Connection
  BY DEF IInv, TypeOK
<1>2. main.port \in Ports /\ main.taking \in Runs
  BY <1>1 DEF IInv, Turns, Ports
<1>3. t \in Connection
  BY <1>2 DEF Connection
<1>4. /\ threads' = threads \cup {t}
      /\ garbage' = garbage \/ garbage' = garbage \cup {t}
      /\ main' = IF main.port = "data"
                 THEN [port |-> "pow", taking |-> None, partner |-> main.taking]
                 ELSE [main EXCEPT !.port = "data", !.taking = None]
  BY DEF StartThread
<1>5. threads' \subseteq Connection /\ garbage' \subseteq Connection
  BY <1>1, <1>3, <1>4
<1>6. CASE main.port = "data"
  BY <1>2, <1>4, <1>5, <1>6 DEF Ports
<1>7. CASE main.port = "pow"
  BY <1>1, <1>2, <1>4, <1>5, <1>7 DEF Ports
<1> QED BY <1>2, <1>6, <1>7 DEF Ports

(* The run the main thread has let through the data port is the one it     *)
(* waits for at the PoW port; the run it has let through the PoW port was  *)
(* the only one between its connections.                                   *)
LEMMA HandshakeIInv ==
  ASSUME IInv, Handshake
  PROVE  IInv'
<1> DEFINE run == main.taking
           c == run[1]
           q == IF pc[c] = "dataHandshake" THEN "powConnect" ELSE "connected"
<1>1. /\ run # None /\ <<main.port, run>> \in open /\ StartThread
      /\ pc' = [pc EXCEPT ![c] = q]
      /\ UNCHANGED <<kind, runs, open, said, backlog, fds, kills>>
  BY DEF Handshake, GoTo
<1>2. /\ main.port \in Ports /\ run \in Runs
      /\ threads' \subseteq Connection /\ garbage' \subseteq Connection
      /\ main' \in [port : Ports \cup {"dead"}, taking : Runs \cup {None},
                   partner : Runs \cup {None}]
      /\ main'.taking = None
      /\ main.port = "data" => main'.port = "pow" /\ main'.partner = run
      /\ main.port = "pow" => main'.port = "data"
  BY <1>1, StartThreadMain
<1>3. c \in Client /\ run = <<c, run[2]>> /\ runs[c] = run[2] /\ run = Run(c)
  BY <1>1, <1>2 DEF IInv, Clients, Runs, Run
<1>4. /\ \A d \in Client : d # c => pc'[d] = pc[d]
      /\ pc'[c] = q /\ \A d : Run(d)' = Run(d)
  BY <1>1, <1>3 DEF IInv, TypeOK, Run
<1>5. /\ main.port = "data" => pc[c] = "dataHandshake" /\ q = "powConnect"
      /\ main.port = "pow" => pc[c] # "dataHandshake" /\ q = "connected"
  BY <1>1, <1>2 DEF IInv, Clients, Wanted
<1>6. /\ ~ Queued(run, backlog[main.port])
      /\ \A p \in Ports, r \in Runs : Wanted(p, r)' <=> Queued(r, backlog[p])
  BY <1>1, <1>2 DEF IInv, Queues, Wanted
<1>7. \A p \in Ports, r \in Runs : Wanted(p, r)' => Wanted(p, r)
  BY <1>6 DEF Wanted
<1>8. TypeOK'
  <2>1. pc' \in [Client -> Busy \cup Over]
    <3>1. q \in Busy \cup Over
      BY DEF Busy, Waiting
    <3> QED BY <1>1, <3>1 DEF IInv, TypeOK
  <2> QED BY <1>1, <1>2, <2>1 DEF IInv, TypeOK
<1>9. Queues'
  BY <1>1, <1>2, <1>7 DEF IInv, Queues, Ports
<1>10. Clients'
  <2>1. ASSUME NEW p \in Ports, NEW r \in Runs, <<p, r>> \in open
        PROVE  /\ runs[r[1]] = r[2] /\ pc'[r[1]] \in Busy
               /\ p = "pow" => pc'[r[1]] \notin {"dataHandshake", "powConnect"}
               /\ p = "data" /\ Wanted("data", r)' => pc'[r[1]] = "dataHandshake"
    <3>1. /\ r[1] \in Client /\ r = <<r[1], r[2]>>
          /\ runs[r[1]] = r[2] /\ pc[r[1]] \in Busy
          /\ p = "pow" => pc[r[1]] \notin {"dataHandshake", "powConnect"}
          /\ p = "data" /\ Wanted("data", r) => pc[r[1]] = "dataHandshake"
      BY <2>1 DEF IInv, Clients, Runs
    <3>2. CASE r[1] # c
      BY <1>4, <1>7, <2>1, <3>1, <3>2
    <3>3. CASE r[1] = c
      <4>1. r = run
        BY <1>3, <3>1, <3>3
      <4>2. q \in Busy
        BY DEF Busy, Waiting
      <4>3. CASE main.port = "data"
        <5>1. p # "pow"
          BY <1>5, <3>1, <3>3, <4>3
        <5>2. ~ Wanted("data", r)'
          BY <1>6, <2>1, <4>1, <4>3 DEF Ports
        <5> QED BY <1>4, <3>1, <3>3, <4>2, <5>1, <5>2
      <4>4. CASE main.port = "pow"
        <5>1. ~ (p = "data" /\ Wanted("data", r))
          BY <1>5, <3>1, <3>3, <4>4
        <5>2. q = "connected"
          BY <1>5, <4>4
        <5> QED BY <1>4, <1>7, <2>1, <3>1, <3>3, <4>2, <5>1, <5>2
      <4> QED BY <1>2, <4>3, <4>4 DEF Ports
    <3> QED BY <3>2, <3>3
  <2>2. ASSUME NEW d \in Client
        PROVE  /\ pc'[d] = "powHandshake" => <<"pow", Run(d)>> \in open
               /\ pc'[d] \in Busy => Run(d) \in Runs
    <3>1. CASE d = c
      BY <1>2, <1>3, <1>4, <3>1
    <3>2. CASE d # c
      BY <1>4, <3>2 DEF IInv, Clients
    <3> QED BY <3>1, <3>2
  <2> QED BY <1>1, <1>4, <2>1, <2>2 DEF Clients
<1>11. Turns'
  <2>1. CASE main.port = "data"
    <3>1. \A r \in Runs : ~ Wanted("pow", r)'
      BY <1>6, <2>1 DEF IInv, Turns, Ports
    <3>2. \A d \in Client : pc'[d] \in Between => d = c
      BY <1>4, <2>1 DEF IInv, Turns
    <3> QED BY <1>2, <1>3, <1>4, <2>1, <3>1, <3>2 DEF Turns
  <2>2. CASE main.port = "pow"
    <3>1. run = main.partner
      BY <1>1, <1>2, <2>2 DEF IInv, Turns, Wanted
    <3>2. \A r \in Runs : ~ Queued(r, backlog["pow"])
      BY <1>6, <2>2, <3>1 DEF IInv, Turns, Wanted
    <3>3. ASSUME NEW d \in Client, pc'[d] \in Between
          PROVE  FALSE
      <4>1. CASE d = c
        BY <1>4, <1>5, <2>2, <3>3, <4>1 DEF Between
      <4>2. CASE d # c
        <5>1. Run(d) = main.partner
          BY <1>4, <2>2, <3>3, <4>2 DEF IInv, Turns
        <5> QED BY <1>3, <3>1, <4>2, <5>1 DEF Run
      <4> QED BY <4>1, <4>2
    <3> QED BY <1>1, <1>2, <2>2, <3>2, <3>3 DEF Turns
  <2> QED BY <1>2, <2>1, <2>2 DEF Ports
<1> QED BY <1>8, <1>9, <1>10, <1>11 DEF IInv

(* A handshake that fails.                                                 *)
LEMMA HandshakeFailsIInv ==
  ASSUME IInv, HandshakeFails
  PROVE  IInv'
<1>1. CASE Dies /\ threads' = {} /\ UNCHANGED garbage
  BY <1>1, DiesIInv DEF HandshakeFails
<1>2. CASE <<main.port, main.taking>> \notin open /\ StartThread
  <2> DEFINE run == main.taking
  <2>1. /\ run # None /\ <<main.port, run>> \notin open
        /\ UNCHANGED <<pc, kind, runs, open, said, backlog, fds, kills>>
    BY <1>2 DEF HandshakeFails, clientVars
  <2>2. /\ main.port \in Ports /\ run \in Runs
        /\ threads' \subseteq Connection /\ garbage' \subseteq Connection
        /\ main' \in [port : Ports \cup {"dead"}, taking : Runs \cup {None},
                     partner : Runs \cup {None}]
        /\ main'.taking = None
        /\ main.port = "data" => main'.port = "pow" /\ main'.partner = run
        /\ main.port = "pow" => main'.port = "data"
    BY <1>2, <2>1, StartThreadMain
  <2>3. /\ ~ Queued(run, backlog[main.port])
        /\ \A p \in Ports, r \in Runs : Wanted(p, r)' <=> Queued(r, backlog[p])
    BY <2>1, <2>2 DEF IInv, Queues, Wanted
  <2>4. \A p \in Ports, r \in Runs : Wanted(p, r)' => Wanted(p, r)
    BY <2>3 DEF Wanted
  <2>5. TypeOK'
    BY <2>1, <2>2 DEF IInv, TypeOK
  <2>6. Queues'
    BY <2>1, <2>2, <2>4 DEF IInv, Queues, Ports
  <2>7. Clients'
    BY <2>1, <2>4 DEF IInv, Clients, Run, Ports
  <2>8. Turns'
    <3>1. CASE main.port = "data"
      <4>1. \A r \in Runs : ~ Wanted("pow", r)'
        BY <2>3, <3>1 DEF IInv, Turns, Ports
      <4>2. \A d \in Client : pc[d] \notin Between
        BY <3>1 DEF IInv, Turns
      <4> QED BY <2>1, <2>2, <3>1, <4>1, <4>2 DEF Turns, Between
    <3>2. CASE main.port = "pow"
      <4>1. run = main.partner /\ Wanted("pow", run)
        BY <2>1, <2>2, <3>2 DEF IInv, Turns, Wanted
      <4>2. \A r \in Runs : ~ Queued(r, backlog["pow"])
        BY <2>3, <3>2, <4>1 DEF IInv, Turns, Wanted
      <4>3. ASSUME NEW d \in Client, pc[d] \in Between
            PROVE  FALSE
        <5>1. Run(d) = run /\ pc[d] # "powConnect"
          BY <2>2, <3>2, <4>1, <4>3 DEF IInv, Turns
        <5>2. <<"pow", run>> \in open
          BY <4>3, <5>1 DEF IInv, Clients, Between
        <5> QED BY <2>1, <3>2, <5>2
      <4> QED BY <2>1, <2>2, <3>2, <4>2, <4>3 DEF Turns
    <3> QED BY <2>2, <3>1, <3>2 DEF Ports
  <2> QED BY <2>5, <2>6, <2>7, <2>8 DEF IInv
<1> QED BY <1>1, <1>2 DEF HandshakeFails

(* A thread of the server returns, or ends the process.                    *)
LEMMA ThreadEndsIInv ==
  ASSUME IInv, NEW t \in Ports \X Runs, ThreadEnds(t)
  PROVE  IInv'
<1>1. CASE t \in garbage
  BY <1>1, DiesIInv DEF ThreadEnds
<1>2. CASE t \notin garbage
  <2>1. /\ threads' \subseteq threads
        /\ UNCHANGED <<pc, kind, runs, open, said, backlog, main, garbage, fds, kills>>
    BY <1>2 DEF ThreadEnds, clientVars
  <2>2. \A p, r : Wanted(p, r)' <=> Wanted(p, r)
    BY <2>1 DEF Wanted
  <2>3. TypeOK'
    BY <2>1 DEF IInv, TypeOK
  <2>4. Queues'
    BY <2>1, <2>2 DEF IInv, Queues
  <2>5. Clients'
    BY <2>1, <2>2 DEF IInv, Clients, Run
  <2>6. Turns'
    BY <2>1, <2>2 DEF IInv, Turns, Run
  <2> QED BY <2>3, <2>4, <2>5, <2>6 DEF IInv
<1> QED BY <1>1, <1>2

LEMMA StutterIInv ==
  ASSUME IInv, UNCHANGED vars
  PROVE  IInv'
<1>1. UNCHANGED <<pc, kind, runs, open, said, backlog, main, threads, garbage, fds, kills>>
  BY DEF vars
<1>2. \A p, r : Wanted(p, r)' <=> Wanted(p, r)
  BY <1>1 DEF Wanted
<1>3. TypeOK'
  BY <1>1 DEF IInv, TypeOK
<1>4. Queues'
  BY <1>1, <1>2 DEF IInv, Queues
<1>5. Clients'
  BY <1>1, <1>2 DEF IInv, Clients, Run
<1>6. Turns'
  BY <1>1, <1>2 DEF IInv, Turns, Run
<1> QED BY <1>3, <1>4, <1>5, <1>6 DEF IInv
-----------------------------------------------------------------------------
LEMMA NextIInv == IInv /\ [Next]_vars => IInv'
<1> SUFFICES ASSUME IInv, [Next]_vars
             PROVE  IInv'
  OBVIOUS
<1>1. ASSUME NEW c \in Client, NEW k \in Kinds, Start(c, k)
      PROVE  IInv'
  BY <1>1, StartIInv
<1>2. ASSUME NEW c \in Client, ClientStep(c) \/ Quit(c) \/ Kill(c)
      PROVE  IInv'
  BY <1>2, ConnectIInv, SayDownloadIInv, SendRecipeIInv, EndRestoreIInv, EndUploadIInv,
     LeaveIInv DEF ClientStep
<1>3. CASE ServerStep
  BY <1>3, AcceptIInv, HandshakeIInv, HandshakeFailsIInv DEF ServerStep
<1>4. ASSUME NEW t \in Ports \X Runs, ThreadEnds(t)
      PROVE  IInv'
  BY <1>4, ThreadEndsIInv
<1>5. CASE ServerStops
  BY <1>5, DiesIInv DEF ServerStops
<1>6. CASE UNCHANGED vars
  BY <1>6, StutterIInv
<1> QED BY <1>1, <1>2, <1>3, <1>4, <1>5, <1>6 DEF Next

(* The invariant that the others follow from: what the two queues hold, how*)
(* far the clients of open connections are, and who may be between its two *)
(* connections when.                                                       *)
THEOREM InTurn == Spec => []IInv
<1>1. Init => IInv
  BY InitIInv
<1>2. IInv /\ [Next]_vars => IInv'
  BY NextIInv
<1> QED BY <1>1, <1>2, PTL DEF Spec

(* Every variable keeps its type, and the server never holds more          *)
(* connections than it can, for any number of clients and runs.            *)
THEOREM TypeCorrect == Spec => []TypeOK
<1>1. IInv => TypeOK
  BY DEF IInv
<1> QED BY <1>1, InTurn, PTL

(* The PoW connection the main thread takes is of the run whose data       *)
(* connection it took just before (ServerMain.cpp's loop), for any number  *)
(* of clients that connect at once and of clients that die.                *)
THEOREM NeverCrosses == Spec => []TakesPairs
<1>1. IInv => TakesPairs
  <2> SUFFICES ASSUME IInv, main.port = "pow", main.taking # None
               PROVE  main.taking = main.partner
    BY DEF TakesPairs
  <2>1. main.taking \in Runs
    BY DEF IInv, TypeOK
  <2> QED BY <2>1 DEF IInv, Turns, Wanted
<1> QED BY <1>1, InTurn, PTL
=============================================================================
