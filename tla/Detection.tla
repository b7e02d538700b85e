------------------------------ MODULE Detection ------------------------------
(***************************************************************************)
(* The enclave's detection of an upload beside the simulator's analysis of *)
(* the same chunks: what an experiment with the simulator says about the   *)
(* prototype.                                                              *)
(***************************************************************************)
EXTENDS PrefixDetector, WindowCheck

CONSTANT Describe      \* the simulator's view of each chunk

ASSUME DescribeAssumption ==
  \A c \in Chunk : /\ DOMAIN Describe[c].prefix = Scheme
                   /\ DOMAIN Describe[c].feature = Scheme
                   /\ Describe[c].prefix[0] = Indicator[c]

Snapshot == [k \in 1 .. Len(trace) |-> Describe[trace[k]]]

(* The simulator's threshold is a fraction of the window (T), the enclave's*)
(* a number of chunks (T * W).                                             *)
SimulatorFraction == fraction(windowCheck(Snapshot, Window), 0)
SimulatorDetects == overThreshold(SimulatorFraction, Threshold, Window)

(* Every upload the prototype stops is one the simulator counts as detected*)
(* with the same window and threshold. The converse has two exceptions: a  *)
(* count of exactly Threshold, which only the simulator takes for enough   *)
(* (genDetectionRate's >= and ecall_calcmac's >), and a snapshot shorter   *)
(* than a window, of which the simulator takes a fraction of its own       *)
(* length. For a snapshot that fits in a window its windowed analysis is   *)
(* that of the whole snapshot (windowCheck's last line, snapCheck).        *)
SimulatorAgrees ==
  /\ status # "run" /\ trace # << >> =>
       /\ status = "stopped" => SimulatorDetects
       /\ SimulatorDetects /\ status = "done"
          => SimulatorFraction.of = Threshold \/ Len(trace) < Window
  /\ Len(trace) <= Window => windowCheck(Snapshot, Window) = snapCheck(Snapshot)
=============================================================================
