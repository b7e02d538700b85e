----------------------------- MODULE WindowCheck -----------------------------
(***************************************************************************)
(* The offline analysis of a snapshot in the simulator: windowCheck counts *)
(* chunks, features and indicators over windows and prints a row for each; *)
(* processWindowCheckResult turns the rows of a snapshot into one fraction *)
(* per scheme; genDetectionRate compares it with a threshold; snapCheck    *)
(* counts over the snapshot as a whole.                                    *)
(*                                                                         *)
(* A snapshot is a sequence of chunks, a chunk a record of its hash and,   *)
(* for each scheme, its feature and its indicator. Columns are numbered    *)
(* from 0, as the programs that read them do.                              *)
(***************************************************************************)
EXTENDS Integers, Sequences, FiniteSets, FiniteSetsExt

featureNumber == 3
Scheme == 0 .. featureNumber - 1

(* A table of counts: the values counted so far, with their numbers.       *)
NoCounts == [x \in {} |-> 0]

Counted(table, x) ==
  [y \in DOMAIN table \cup {x} |->
     IF y \notin DOMAIN table THEN 1
     ELSE IF y = x THEN table[y] + 1 ELSE table[y]]

Highest(table) == Max({0} \cup {table[x] : x \in DOMAIN table})

NewWindow == [count |-> 0, dedup |-> NoCounts,
              feature |-> [i \in Scheme |-> NoCounts],
              prefix |-> [i \in Scheme |-> NoCounts]]

(* The columns of one line: the chunks, and then for the hashes, every     *)
(* feature and every indicator how many there are and how many chunks the  *)
(* most frequent of them has.                                              *)
Columns(w) ==
  [c \in 0 .. 3 + 4 * featureNumber |->
     LET pair == (c - 1) \div 2
         table == IF pair = 0 THEN w.dedup
                  ELSE IF pair <= featureNumber THEN w.feature[pair - 1]
                  ELSE w.prefix[pair - 1 - featureNumber]
     IN  IF c = 0 THEN w.count
         ELSE IF c = 3 + 4 * featureNumber THEN 0
         ELSE IF c % 2 = 1 THEN Cardinality(DOMAIN table) ELSE Highest(table)]

(* A chunk is counted under its hash, its features and its indicators.     *)
AddChunk(w, chunk) ==
  [count |-> w.count + 1,
   dedup |-> Counted(w.dedup, chunk.hash),
   feature |-> [i \in Scheme |-> Counted(w.feature[i], chunk.feature[i])],
   prefix |-> [i \in Scheme |-> Counted(w.prefix[i], chunk.prefix[i])]]

(* A bug: the tables of the indicators are not cleared after a line.       *)
CloseKeepsPrefix(s, w) ==
  [rows |-> Append(s.rows, Columns(w)), window |-> [NewWindow EXCEPT !.prefix = w.prefix]]

CloseWindow(s, w) == [rows |-> Append(s.rows, Columns(w)), window |-> NewWindow]

(* The loop of windowCheck: its rows and its tables after k chunks.        *)
checkWindows(snapshot, windowSize) ==
  LET s[k \in 0 .. Len(snapshot)] ==
        IF k = 0 THEN [rows |-> << >>, window |-> NewWindow]
        ELSE LET w == AddChunk(s[k - 1].window, snapshot[k])
             IN  IF w.count = windowSize THEN CloseWindow(s[k - 1], w)
                 ELSE [s[k - 1] EXCEPT !.window = w]
  IN  s

(* The lines of the full windows, and that of the one the snapshot ends in.*)
windowCheck(snapshot, windowSize) ==
  LET s == checkWindows(snapshot, windowSize)[Len(snapshot)]
  IN  IF s.window.count = 0 THEN s.rows ELSE Append(s.rows, Columns(s.window))

(* snapCheck prints one line for the whole snapshot.                       *)
countAll(snapshot) ==
  LET w[k \in 0 .. Len(snapshot)] ==
        IF k = 0 THEN NewWindow ELSE AddChunk(w[k - 1], snapshot[k])
  IN  w

snapCheck(snapshot) ==
  IF snapshot = << >> THEN << >> ELSE <<Columns(countAll(snapshot)[Len(snapshot)])>>

ColumnMax(rows, c) == Max({rows[i][c] : i \in DOMAIN rows})

(* The fraction processWindowCheckResult prints for scheme i: the highest  *)
(* count of an indicator over the size of the longest window, which need   *)
(* not be the window of that count.                                        *)
fraction(rows, i) == [of |-> ColumnMax(rows, 10 + i * 2), in |-> ColumnMax(rows, 0)]

(* genDetectionRate: the fraction reaches the threshold t / w.             *)
overThreshold(f, t, w) == f.of * w >= t * f.in
=============================================================================
