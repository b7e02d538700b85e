--------------------------- MODULE PrefixDetector ---------------------------
(***************************************************************************)
(* The detection of similar chunks by the proof-of-ownership enclave during*)
(* one upload. powClient collects the encrypted chunks into batches of     *)
(* POWBatchSize and has ecall_calcmac compute a MAC of each batch; the     *)
(* enclave counts, over tumbling windows of COUNT_WINDOW_SIZE chunks, how  *)
(* often each indicator (the first bytes of a ciphertext) occurs, and      *)
(* zeroes the MAC of a batch in which a count passes                       *)
(* PREFIX_FREQUENCY_THRESHOLD. The server refuses such a batch, and        *)
(* powClient gives the upload up.                                          *)
(*                                                                         *)
(* The table and the counter live as long as the enclave, that is as long  *)
(* as the upload: windows straddle batches, and the next upload starts     *)
(* afresh.                                                                 *)
(***************************************************************************)
EXTENDS Integers, Sequences, FiniteSets

CONSTANTS Chunk,       \* encrypted chunks
          Prefix,      \* values of the indicator
          Indicator,   \* the indicator of each chunk
          Window,      \* COUNT_WINDOW_SIZE
          Threshold,   \* PREFIX_FREQUENCY_THRESHOLD
          PowBatch,    \* POWBatchSize
          MaxTrace     \* chunks of an upload

ASSUME DetectorAssumption ==
  /\ Indicator \in [Chunk -> Prefix]
  /\ Window \in Nat \ {0} /\ Threshold \in Nat \ {0}
  /\ PowBatch \in Nat \ {0} /\ MaxTrace \in Nat

VARIABLES
  trace,         \* the chunks the enclave has counted
  accepted,      \* how many of them are in batches the server has accepted
  status,        \* of the upload: "run", "done", "stopped"
  \* the enclave
  prefixList,        \* 0 for an indicator that is not in the table
  prefixListCounter,
  detectFlag,        \* of the batch being counted
  cuts           \* history: the position in trace after which a window began

vars == <<trace, accepted, status, prefixList, prefixListCounter, detectFlag,
          cuts>>

Empty == [p \in Prefix |-> 0]

Init ==
  /\ trace = << >> /\ accepted = 0 /\ status = "run"
  /\ prefixList = Empty /\ prefixListCounter = 0 /\ detectFlag = FALSE
  /\ cuts = {0}

-----------------------------------------------------------------------------
(* A bug: the counter is compared before it counts the chunk.              *)
FullLate == prefixListCounter >= Window

(* The window is full with the chunk being counted.                        *)
Full == prefixListCounter + 1 >= Window

(* A bug: an indicator is only looked at when it enters the table.         *)
OverFirst(p) == prefixList[p] = 0 /\ Threshold < 1

(* The indicator was there already, and its count now passes the threshold.*)
Over(p) == prefixList[p] # 0 /\ prefixList[p] + 1 > Threshold

(* The loop of ecall_calcmac, for the next chunk of the batch.             *)
CountChunk(c) ==
  /\ status = "run"
  /\ Len(trace) - accepted < PowBatch /\ Len(trace) < MaxTrace
  /\ trace' = Append(trace, c)
  /\ detectFlag' = (detectFlag \/ Over(Indicator[c]))
  /\ IF Full
     THEN /\ prefixList' = Empty /\ prefixListCounter' = 0
          /\ cuts' = cuts \cup {Len(trace) + 1}
     ELSE /\ prefixList' = [prefixList EXCEPT ![Indicator[c]] = @ + 1]
          /\ prefixListCounter' = prefixListCounter + 1
          /\ UNCHANGED cuts
  /\ UNCHANGED <<accepted, status>>

(* A bug: the enclave forgets what it has counted with every call.         *)
VerdictForgets(last) ==
  /\ status = "run"
  /\ last \/ Len(trace) - accepted = PowBatch
  /\ IF detectFlag
     THEN status' = "stopped" /\ UNCHANGED accepted
     ELSE /\ status' = IF last THEN "done" ELSE "run"
          /\ accepted' = Len(trace)
  /\ detectFlag' = FALSE /\ prefixList' = Empty
  /\ UNCHANGED <<trace, prefixListCounter, cuts>>

(* The batch is full, or the file has ended: the MAC of the enclave, or    *)
(* zeros for it, goes to process_signedHash. After a refusal powClient     *)
(* leaves its loop; nothing of the batch reaches the sender.               *)
Verdict(last) ==
  /\ status = "run"
  /\ last \/ Len(trace) - accepted = PowBatch
  /\ IF detectFlag
     THEN status' = "stopped" /\ UNCHANGED accepted
     ELSE /\ status' = IF last THEN "done" ELSE "run"
          /\ accepted' = Len(trace)
  /\ detectFlag' = FALSE
  /\ UNCHANGED <<trace, prefixList, prefixListCounter, cuts>>

Next == \/ \E c \in Chunk : CountChunk(c)
        \/ \E last \in BOOLEAN : Verdict(last)

Spec == Init /\ [][Next]_vars

-----------------------------------------------------------------------------
(***************************************************************************)
(* Properties.                                                             *)
(***************************************************************************)
TypeOK ==
  /\ trace \in Seq(Chunk) /\ Len(trace) <= MaxTrace
  /\ accepted \in 0 .. Len(trace) /\ Len(trace) - accepted <= PowBatch
  /\ status \in {"run", "done", "stopped"}
  /\ prefixList \in [Prefix -> 0 .. Window]
  /\ prefixListCounter \in 0 .. Window - 1
  /\ detectFlag \in BOOLEAN
  /\ cuts \subseteq 0 .. Len(trace)

(* The chunks at positions i .. j that have indicator p.                   *)
Similar(i, j, p) == {k \in i .. j : Indicator[trace[k]] = p}

(* What the detection guarantees about every upload, stopped or not: among *)
(* Window consecutive chunks the server has accepted at most 2 * Threshold *)
(* share an indicator, wherever the windows and the batches begin          *)
(* (ecall_calcmac's table outlives the call, process_signedHash, and       *)
(* powClient's break).                                                     *)
SimilarBounded ==
  \A i, j \in 1 .. accepted, p \in Prefix :
    j - i < Window => Cardinality(Similar(i, j, p)) <= 2 * Threshold

(* An upload is given up exactly when one of the tumbling windows, counted *)
(* from its first chunk, holds more than Threshold chunks with the same    *)
(* indicator, whatever the size of the batches: no burst inside a window is*)
(* missed and no other upload is stopped.                                  *)
OverfullWindow ==
  \E w \in 0 .. Len(trace) \div Window, p \in Prefix :
    Cardinality({k \in 1 .. Len(trace) :
                   (k - 1) \div Window = w /\ Indicator[trace[k]] = p}) > Threshold

DetectExact == (detectFlag \/ status = "stopped") <=> OverfullWindow
=============================================================================
