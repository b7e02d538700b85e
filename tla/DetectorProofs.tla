--------------------------- MODULE DetectorProofs ---------------------------
(***************************************************************************)
(* Proofs about PrefixDetector: its types, the bound on similar chunks that*)
(* the detection guarantees, and that it stops an upload exactly when a    *)
(* tumbling window has a burst, for every window, threshold and size of    *)
(* batches; and that the simulator's programs say so too (Detection).      *)
(*                                                                         *)
(* The argument. cuts holds the positions between two windows, and they    *)
(* are Window apart. A segment of the upload that no cut divides has been  *)
(* counted in one table, so it holds at most Threshold chunks with the same*)
(* indicator unless the flag went up (NoBurst). A stretch of Window chunks *)
(* is divided by one cut at most: it is two such segments.                 *)
(***************************************************************************)
EXTENDS Detection, FiniteSetTheorems, SequenceTheorems, WellFoundedInduction, TLAPS

(* No window begins between the positions i and j.                         *)
NoCut(i, j) == \A d \in cuts : ~ (i <= d /\ d < j)

NoBurst(n) ==
  \A i, j \in 1 .. n, p \in Prefix :
    NoCut(i, j) => Cardinality(Similar(i, j, p)) <= Threshold

LastCut == Len(trace) - prefixListCounter

CutsOK ==
  /\ cuts \subseteq Int
  /\ 0 \in cuts /\ LastCut \in cuts
  /\ \A d \in cuts : 0 <= d /\ d <= LastCut
  /\ \A d, e \in cuts : d < e => e - d >= Window

ListOK ==
  \A p \in Prefix :
    prefixList[p] = Cardinality(Similar(LastCut + 1, Len(trace), p))

Numbers ==
  /\ trace \in Seq(Chunk) /\ Len(trace) <= MaxTrace
  /\ accepted \in 0 .. Len(trace) /\ Len(trace) - accepted <= PowBatch
  /\ status \in {"run", "done", "stopped"}
  /\ prefixList \in [Prefix -> Nat]
  /\ prefixListCounter \in 0 .. Window - 1

Types == Numbers /\ detectFlag \in BOOLEAN

IInv ==
  /\ Types
  /\ CutsOK
  /\ ListOK
  /\ NoBurst(accepted)
  /\ status = "run" /\ ~ detectFlag => NoBurst(Len(trace))

(* Similar, of any sequence of chunks.                                     *)
SimilarIn(tr, i, j, p) == {k \in i .. j : Indicator[tr[k]] = p}

-----------------------------------------------------------------------------
(* Similar(i, j, p) is finite and no larger than its interval.             *)
LEMMA SimilarFinite ==
  ASSUME NEW i \in Int, NEW j \in Int, NEW p
  PROVE  /\ IsFiniteSet(Similar(i, j, p))
         /\ Cardinality(Similar(i, j, p)) \in Nat
         /\ Cardinality(Similar(i, j, p)) <= IF i > j THEN 0 ELSE j - i + 1
<1>1. Similar(i, j, p) \in SUBSET (i .. j)
  BY DEF Similar
<1>2. /\ IsFiniteSet(i .. j)
      /\ Cardinality(i .. j) = IF i > j THEN 0 ELSE j - i + 1
  BY FS_Interval
<1>3. /\ IsFiniteSet(Similar(i, j, p))
      /\ Cardinality(Similar(i, j, p)) <= Cardinality(i .. j)
  BY <1>1, <1>2, FS_Subset
<1>4. Cardinality(Similar(i, j, p)) \in Nat
  BY <1>3, FS_CardinalityType
<1> QED
  BY <1>2, <1>3, <1>4

(* The initial state satisfies the inductive invariant.                    *)
LEMMA InitInv == Init => IInv
<1> SUFFICES ASSUME Init PROVE IInv
  OBVIOUS
<1> USE DEF Init
<1>1. Len(trace) = 0 /\ trace \in Seq(Chunk)
  OBVIOUS
<1>2. Types
  <2>1. Window \in Nat /\ Window >= 1 /\ MaxTrace \in Nat /\ PowBatch \in Nat
    BY DetectorAssumption
  <2>2. prefixList \in [Prefix -> Nat]
    BY DEF Empty
  <2>3. Numbers
    BY <1>1, <2>1, <2>2 DEF Numbers
  <2> QED
    BY <2>3 DEF Types
<1>3. CutsOK
  BY <1>1 DEF CutsOK, LastCut
<1>4. ListOK
  <2> SUFFICES ASSUME NEW p \in Prefix
               PROVE  prefixList[p] = Cardinality(Similar(1, 0, p))
    BY <1>1 DEF ListOK, LastCut
  <2>1. Similar(1, 0, p) = {}
    BY DEF Similar
  <2> QED
    BY <2>1, FS_EmptySet DEF Empty
<1>5. NoBurst(0)
  BY DEF NoBurst
<1> QED
  BY <1>1, <1>2, <1>3, <1>4, <1>5 DEF IInv

(* A verdict changes nothing that has been counted; it accepts the batch   *)
(* only when the flag is down.                                             *)
LEMMA VerdictInv ==
  ASSUME IInv, NEW last \in BOOLEAN, Verdict(last)
  PROVE  IInv'
<1> USE DEF IInv
<1>1. UNCHANGED <<trace, prefixList, prefixListCounter, cuts>> /\ detectFlag' = FALSE
  BY DEF Verdict
<1>2. Types'
  <2>1. Len(trace) \in Nat /\ PowBatch \in Nat
    BY DetectorAssumption DEF Types, Numbers
  <2>2. /\ accepted' \in {accepted, Len(trace)}
        /\ status' \in {"run", "done", "stopped"}
    BY DEF Verdict
  <2>3. Numbers'
    BY <1>1, <2>1, <2>2 DEF Types, Numbers
  <2> QED
    BY <1>1, <2>3 DEF Types
<1>3. CutsOK' /\ ListOK'
  BY <1>1 DEF CutsOK, ListOK, LastCut, Similar
<1>4. \A i, j, p : /\ NoCut(i, j)' <=> NoCut(i, j)
                  /\ Similar(i, j, p)' = Similar(i, j, p)
  BY <1>1 DEF NoCut, Similar
<1>5. CASE detectFlag
  <2>1. status' = "stopped" /\ accepted' = accepted
    BY <1>5 DEF Verdict
  <2>2. NoBurst(accepted)'
    BY <1>4, <2>1 DEF NoBurst
  <2> QED
    BY <1>2, <1>3, <2>1, <2>2
<1>6. CASE ~ detectFlag
  <2>1. accepted' = Len(trace) /\ NoBurst(Len(trace))
    BY <1>6 DEF Verdict
  <2>2. Len(trace)' = Len(trace)
    BY <1>1
  <2>3. NoBurst(accepted)' /\ NoBurst(Len(trace))'
    BY <1>4, <2>1, <2>2 DEF NoBurst
  <2> QED
    BY <1>2, <1>3, <2>3
<1> QED
  BY <1>5, <1>6

(* What counting a chunk does to the segments of the upload: the old ones  *)
(* stay as they are.                                                       *)
LEMMA SimilarAppend ==
  ASSUME NEW tr \in Seq(Chunk), NEW c, NEW p, NEW i \in Int, NEW j \in Int, i >= 1,
         j <= Len(tr)
  PROVE  SimilarIn(Append(tr, c), i, j, p) = SimilarIn(tr, i, j, p)
<1>1. \A k \in 1 .. Len(tr) : Append(tr, c)[k] = tr[k]
  OBVIOUS
<1>2. \A k \in i .. j : k \in 1 .. Len(tr)
  OBVIOUS
<1> QED
  BY <1>1, <1>2 DEF SimilarIn

(* The new cut lies a window behind the last one.                          *)
LEMMA CountCuts ==
  ASSUME IInv, NEW c \in Chunk, CountChunk(c)
  PROVE  CutsOK'
<1>1. Len(trace') = Len(trace) + 1 /\ Len(trace) \in Nat
  BY DEF CountChunk, IInv, Types, Numbers
<1>2. /\ prefixListCounter \in Nat /\ Window \in Nat \ {0}
      /\ prefixListCounter < Window
  BY DetectorAssumption DEF IInv, Types, Numbers
<1>3. CASE Full
  <2>1. prefixListCounter' = 0 /\ cuts' = cuts \cup {Len(trace) + 1}
    BY <1>3 DEF CountChunk
  <2>2. LastCut' = Len(trace) + 1
    BY <1>1, <2>1 DEF LastCut
  <2>3. Len(trace) + 1 - LastCut >= Window
    BY <1>1, <1>2, <1>3 DEF LastCut, Full
  <2>4. /\ cuts \subseteq Int /\ 0 \in cuts /\ LastCut \in Int
        /\ \A d \in cuts : 0 <= d /\ d <= LastCut
        /\ \A d, e \in cuts : d < e => e - d >= Window
    BY <1>1, <1>2 DEF IInv, CutsOK, LastCut
  <2> DEFINE l == LastCut
             m == Len(trace) + 1
  <2>5. l \in Int /\ m \in Int /\ m - l >= Window /\ Window >= 1 /\ Window \in Int /\ m >= 0
    BY <1>1, <1>2, <2>3, <2>4
  <2> HIDE DEF l, m
  <2>6. \A d \in cuts : d \in Int /\ 0 <= d /\ d <= l
    BY <2>4 DEF l
  <2>7. cuts' = cuts \cup {m} /\ LastCut' = m
    BY <2>1, <2>2 DEF m
  <2>8. \A d \in cuts' : 0 <= d /\ d <= m
    BY <2>5, <2>6, <2>7
  <2>9. \A d, e \in cuts' : d < e => e - d >= Window
    <3> SUFFICES ASSUME NEW d \in cuts', NEW e \in cuts', d < e
                 PROVE  e - d >= Window
      OBVIOUS
    <3>1. CASE e \in cuts /\ d \in cuts
      BY <2>4, <3>1
    <3>2. CASE e = m /\ d \in cuts
      BY <2>5, <2>6, <3>2
    <3>3. CASE d = m
      BY <2>5, <2>6, <2>7, <3>3
    <3> QED
      BY <2>7, <3>1, <3>2, <3>3
  <2>10. cuts' \subseteq Int /\ 0 \in cuts' /\ m \in cuts'
    BY <2>4, <2>5, <2>7
  <2> QED
    BY <2>7, <2>8, <2>9, <2>10 DEF CutsOK
<1>4. CASE ~ Full
  <2>1. prefixListCounter' = prefixListCounter + 1 /\ cuts' = cuts
    BY <1>4 DEF CountChunk
  <2>2. LastCut' = LastCut
    BY <1>1, <1>2, <2>1 DEF LastCut
  <2> QED
    BY <2>1, <2>2 DEF CutsOK, IInv
<1> QED
  BY <1>3, <1>4

(* The table still counts the chunks since the last cut.                   *)
LEMMA CountList ==
  ASSUME IInv, NEW c \in Chunk, CountChunk(c)
  PROVE  ListOK'
<1> DEFINE n == Len(trace) + 1
           first == LastCut + 1
<1>1. /\ Len(trace') = n /\ Len(trace) \in Nat
      /\ trace \in Seq(Chunk) /\ trace' = Append(trace, c)
      /\ prefixListCounter \in Nat
      /\ prefixList \in [Prefix -> Nat]
      /\ Indicator[c] \in Prefix
  BY DetectorAssumption DEF CountChunk, IInv, Types, Numbers
<1> SUFFICES ASSUME NEW p \in Prefix
             PROVE  prefixList'[p] = Cardinality(SimilarIn(trace', LastCut' + 1, n, p))
  BY <1>1 DEF ListOK, Similar, SimilarIn
<1>2. CASE Full
  <2>1. prefixList'[p] = 0 /\ LastCut' = n
    BY <1>1, <1>2 DEF CountChunk, LastCut, Empty
  <2>2. SimilarIn(trace', n + 1, n, p) = {}
    BY <1>1 DEF SimilarIn
  <2> QED
    BY <2>1, <2>2, FS_EmptySet
<1>3. CASE ~ Full
  <2> DEFINE S == SimilarIn(trace, first, n - 1, p)
  <2>1. /\ prefixList' = [prefixList EXCEPT ![Indicator[c]] = @ + 1]
        /\ LastCut' = LastCut
    BY <1>1, <1>3 DEF CountChunk, LastCut
  <2>2. first \in Int /\ first >= 1 /\ first <= n /\ n - 1 = Len(trace)
    BY <1>1 DEF IInv, CutsOK, LastCut
  <2>3. prefixList[p] = Cardinality(S)
    BY <2>2 DEF IInv, ListOK, Similar, SimilarIn
  <2>4. IsFiniteSet(S)
    <3>1. IsFiniteSet(Similar(first, n - 1, p))
      <4>1. first \in Int /\ n - 1 \in Int
        BY <1>1, <2>2
      <4> HIDE DEF n, first
      <4> QED
        BY <4>1, SimilarFinite
    <3> QED
      BY <3>1 DEF Similar, SimilarIn
  <2>5. n \notin S
    BY <1>1, <2>2 DEF SimilarIn
  <2>6. Cardinality(S \cup {n}) = Cardinality(S) + 1
    BY <2>4, <2>5, FS_AddElement
  <2>7. SimilarIn(trace', first, n, p) = IF Indicator[c] = p THEN S \cup {n} ELSE S
    <3>1. n \in Int /\ n = Len(trace) + 1
      BY <1>1
    <3>2. trace'[n] = c /\ \A k \in 1 .. Len(trace) : trace'[k] = trace[k]
      BY <1>1
    <3>3. \A k : /\ k \in first .. n <=> k \in first .. (n - 1) \/ k = n
                 /\ k \in first .. (n - 1) => k \in 1 .. Len(trace) /\ k # n
      BY <1>1, <2>2
    <3>4. ASSUME NEW k
          PROVE  k \in SimilarIn(trace', first, n, p)
                   <=> k \in S \/ (k = n /\ Indicator[c] = p)
      <4> HIDE DEF n, first
      <4>1. k \in SimilarIn(trace', first, n, p)
              <=> k \in first .. n /\ Indicator[trace'[k]] = p
        BY DEF SimilarIn
      <4>2. k \in S <=> k \in first .. (n - 1) /\ Indicator[trace[k]] = p
        BY DEF S, SimilarIn
      <4>3. CASE k = n
        <5>1. n \in first .. n /\ n \notin first .. (n - 1)
          BY <3>3
        <5> QED
          BY <3>2, <4>1, <4>2, <4>3, <5>1
      <4>4. CASE k # n
        <5>1. k \in first .. n <=> k \in first .. (n - 1)
          BY <3>3, <4>4
        <5>2. k \in first .. (n - 1) => trace'[k] = trace[k]
          BY <3>2, <3>3
        <5> QED
          BY <4>1, <4>2, <4>4, <5>1, <5>2
      <4> QED
        BY <4>3, <4>4
    <3> HIDE DEF S, n, first
    <3> QED
      BY <3>4
  <2> HIDE DEF S, n, first
  <2>8. prefixList'[p] = Cardinality(SimilarIn(trace', first, n, p))
    BY <1>1, <2>1, <2>3, <2>6, <2>7
  <2> QED
    BY <2>1, <2>8 DEF first
<1> QED
  BY <1>2, <1>3

(* Unless the flag goes up, no segment that no cut divides has more than   *)
(* Threshold similar chunks after the new one than before.                 *)
LEMMA CountNoBurst ==
  ASSUME IInv, NEW c \in Chunk, CountChunk(c), ~ detectFlag'
  PROVE  NoBurst(Len(trace))'
<1> DEFINE n == Len(trace) + 1
           first == LastCut + 1
<1>1. /\ Len(trace)' = n /\ Len(trace) \in Nat
      /\ trace \in Seq(Chunk) /\ trace' = Append(trace, c)
      /\ prefixListCounter \in Nat
      /\ prefixList \in [Prefix -> Nat]
      /\ Indicator[c] \in Prefix
      /\ Threshold \in Nat /\ Threshold >= 1
      /\ status = "run" /\ ~ detectFlag
  BY DetectorAssumption DEF CountChunk, IInv, Types, Numbers
<1>2. ~ Over(Indicator[c])
  BY DEF CountChunk
<1>3. cuts' \in {cuts, cuts \cup {n}}
  BY DEF CountChunk
<1>4. NoBurst(Len(trace))
  BY <1>1 DEF IInv
<1>5. /\ first \in Int /\ first >= 1 /\ first <= n
      /\ LastCut \in cuts /\ \A d \in cuts : d \in Int /\ d < first
  BY <1>1 DEF IInv, CutsOK, LastCut
<1> SUFFICES ASSUME NEW i \in 1 .. n, NEW j \in 1 .. n, NEW p \in Prefix,
                    \A d \in cuts' : ~ (i <= d /\ d < j)
             PROVE  Cardinality(SimilarIn(trace', i, j, p)) <= Threshold
  BY <1>1 DEF NoBurst, NoCut, Similar, SimilarIn
<1>6. NoCut(i, j)
  BY <1>3 DEF NoCut
<1>7. CASE j <= Len(trace)
  <2>1. SimilarIn(trace', i, j, p) = SimilarIn(trace, i, j, p)
    BY <1>1, <1>7, SimilarAppend
  <2>2. CASE i <= Len(trace)
    <3>1. Len(trace) \in Nat /\ i \in 1 .. Len(trace) /\ j \in 1 .. Len(trace)
      BY <1>1, <1>7, <2>2
    <3>2. Cardinality(SimilarIn(trace, i, j, p)) <= Threshold
      BY <1>4, <1>6, <3>1 DEF NoBurst, Similar, SimilarIn
    <3> QED BY <2>1, <3>2
  <2>3. CASE i > Len(trace)
    <3>1. SimilarIn(trace, i, j, p) = {}
      BY <1>1, <1>7, <2>3 DEF SimilarIn
    <3> QED
      BY <1>1, <2>1, <3>1, FS_EmptySet
  <2> QED
    BY <1>1, <2>2, <2>3
<1>8. CASE j = n
  <2> DEFINE S == SimilarIn(trace, first, n - 1, p)
             T == SimilarIn(trace', i, n, p)
  <2>1. i >= first
    BY <1>1, <1>5, <1>6, <1>8 DEF NoCut, LastCut
  <2>2. T \in SUBSET (S \cup {n}) /\ (Indicator[c] # p => T \in SUBSET S)
    <3> SUFFICES ASSUME NEW k \in T
                 PROVE  k \in S \/ (k = n /\ Indicator[c] = p)
      OBVIOUS
    <3>1. k \in i .. n /\ Indicator[trace'[k]] = p
      BY DEF SimilarIn
    <3>2. CASE k = n
      <4>1. trace'[n] = c
        BY <1>1
      <4> QED
        BY <3>1, <3>2, <4>1
    <3>3. CASE k # n
      <4>1. k \in 1 .. Len(trace) /\ k \in first .. (n - 1)
        BY <1>1, <1>5, <2>1, <3>1, <3>3
      <4>2. trace'[k] = trace[k]
        BY <1>1, <4>1
      <4> QED
        BY <3>1, <4>1, <4>2 DEF SimilarIn
    <3> QED
      BY <3>2, <3>3
  <2>3. prefixList[p] = Cardinality(S)
    BY <1>1 DEF IInv, ListOK, Similar, SimilarIn
  <2>4. IsFiniteSet(S)
    <3>1. IsFiniteSet(Similar(first, n - 1, p))
      <4>1. first \in Int /\ n - 1 \in Int
        BY <1>1, <1>5
      <4> HIDE DEF n, first
      <4> QED
        BY <4>1, SimilarFinite
    <3> QED
      BY <3>1 DEF Similar, SimilarIn
  <2> HIDE DEF S, T
  <2>5. Cardinality(S) \in Nat /\ IsFiniteSet(S \cup {n})
        /\ Cardinality(S \cup {n}) \in Nat /\ Cardinality(S \cup {n}) <= Cardinality(S) + 1
    <3>1. Cardinality(S) \in Nat
      BY <2>4, FS_CardinalityType
    <3>2. /\ IsFiniteSet(S \cup {n})
          /\ Cardinality(S \cup {n}) = IF n \in S THEN Cardinality(S) ELSE Cardinality(S) + 1
      BY <2>4, FS_AddElement
    <3> QED
      BY <3>1, <3>2
  <2>6. Cardinality(S) <= Threshold
    <3>1. CASE first <= n - 1
      <4>1. first \in 1 .. Len(trace) /\ Len(trace) \in 1 .. Len(trace)
        BY <1>1, <1>5, <3>1
      <4>2. NoCut(first, Len(trace))
        BY <1>5 DEF NoCut
      <4>3. Cardinality(Similar(first, Len(trace), p)) <= Threshold
        BY <1>4, <4>1, <4>2 DEF NoBurst
      <4>4. n - 1 = Len(trace)
        BY <1>1
      <4> QED
        BY <4>3, <4>4 DEF S, Similar, SimilarIn
    <3>2. CASE first > n - 1
      <4>1. S = {}
        BY <1>1, <1>5, <3>2 DEF S, SimilarIn
      <4> QED
        BY <1>1, <4>1, FS_EmptySet
    <3> QED
      BY <1>1, <1>5, <3>1, <3>2
  <2>7. CASE Indicator[c] = p
    <3>1. Cardinality(T) <= Cardinality(S \cup {n}) /\ IsFiniteSet(T)
      BY <2>2, <2>5, FS_Subset
    <3>2. Cardinality(T) \in Nat
      BY <3>1, FS_CardinalityType
    <3>3. Cardinality(S) = 0 \/ Cardinality(S) + 1 <= Threshold
      BY <1>1, <1>2, <2>3, <2>5, <2>7 DEF Over
    <3> QED
      BY <1>1, <1>8, <2>5, <3>1, <3>2, <3>3 DEF T
  <2>8. CASE Indicator[c] # p
    <3>1. Cardinality(T) <= Cardinality(S) /\ IsFiniteSet(T)
      BY <2>2, <2>4, <2>8, FS_Subset
    <3>2. Cardinality(T) \in Nat
      BY <3>1, FS_CardinalityType
    <3> QED
      BY <1>1, <1>8, <2>5, <2>6, <3>1, <3>2 DEF T
  <2> QED
    BY <2>7, <2>8
<1> QED
  BY <1>1, <1>7, <1>8

LEMMA CountInv ==
  ASSUME IInv, NEW c \in Chunk, CountChunk(c)
  PROVE  IInv'
<1>1. CutsOK' /\ ListOK'
  BY CountCuts, CountList
<1>2. /\ Len(trace') = Len(trace) + 1 /\ Len(trace) \in Nat
      /\ trace \in Seq(Chunk) /\ trace' = Append(trace, c)
      /\ accepted' = accepted /\ accepted \in 0 .. Len(trace)
      /\ Len(trace) - accepted < PowBatch /\ Len(trace) < MaxTrace
      /\ PowBatch \in Nat /\ MaxTrace \in Nat /\ Window \in Nat \ {0}
      /\ Indicator[c] \in Prefix
  BY DetectorAssumption DEF CountChunk, IInv, Types, Numbers
<1>3. Types'
  <2>1. prefixListCounter' \in 0 .. Window - 1
    BY <1>2 DEF CountChunk, Full, IInv, Types, Numbers
  <2>2. prefixList' \in [Prefix -> Nat]
    BY <1>2 DEF CountChunk, Empty, IInv, Types, Numbers
  <2>3. status' \in {"run", "done", "stopped"}
    BY DEF CountChunk, IInv, Types, Numbers
  <2>4. trace' \in Seq(Chunk)
    BY <1>2
  <2>5. Numbers'
    BY <1>2, <2>1, <2>2, <2>3, <2>4 DEF Numbers
  <2>6. detectFlag' \in BOOLEAN
    BY DEF CountChunk, Over
  <2> QED
    BY <2>5, <2>6 DEF Types
<1>4. NoBurst(accepted)'
  <2>1. cuts' \in {cuts, cuts \cup {Len(trace) + 1}}
    BY DEF CountChunk
  <2> SUFFICES ASSUME NEW i \in 1 .. accepted, NEW j \in 1 .. accepted,
                      NEW p \in Prefix, \A d \in cuts' : ~ (i <= d /\ d < j)
               PROVE  Cardinality(SimilarIn(trace', i, j, p)) <= Threshold
    BY <1>2 DEF NoBurst, NoCut, Similar, SimilarIn
  <2>2. NoCut(i, j)
    BY <2>1 DEF NoCut
  <2>3. SimilarIn(trace', i, j, p) = SimilarIn(trace, i, j, p)
    BY <1>2, SimilarAppend
  <2> QED
    BY <2>2, <2>3 DEF IInv, NoBurst, Similar, SimilarIn
<1>5. status' = "run" /\ ~ detectFlag' => NoBurst(Len(trace))'
  BY CountNoBurst
<1> QED
  BY <1>1, <1>3, <1>4, <1>5 DEF IInv

(* IInv is inductive.                                                      *)
LEMMA StepInv == IInv /\ [Next]_vars => IInv'
<1> SUFFICES ASSUME IInv, [Next]_vars PROVE IInv'
  OBVIOUS
<1>1. ASSUME NEW c \in Chunk, CountChunk(c) PROVE IInv'
  BY <1>1, CountInv
<1>2. ASSUME NEW last \in BOOLEAN, Verdict(last) PROVE IInv'
  BY <1>2, VerdictInv
<1>3. CASE UNCHANGED vars
  <2>1. UNCHANGED <<trace, accepted, status, prefixList, prefixListCounter,
                    detectFlag, cuts>>
    BY <1>3 DEF vars
  <2>2. Types' /\ CutsOK' /\ ListOK'
    BY <2>1 DEF IInv, Types, Numbers, CutsOK, LastCut, ListOK, Similar
  <2>3. NoBurst(accepted)' /\ (status' = "run" /\ ~ detectFlag' => NoBurst(Len(trace))')
    BY <2>1 DEF IInv, NoBurst, NoCut, Similar
  <2> QED
    BY <2>2, <2>3 DEF IInv
<1> QED
  BY <1>1, <1>2, <1>3 DEF Next

(* The table never counts more than the window it stands for.              *)
LEMMA InvTypeOK == IInv => TypeOK
<1> SUFFICES ASSUME IInv PROVE TypeOK
  OBVIOUS
<1>1. /\ Numbers /\ detectFlag \in BOOLEAN /\ CutsOK /\ ListOK
      /\ Len(trace) \in Nat /\ Window \in Nat /\ prefixListCounter \in 0 .. Window - 1
      /\ prefixList \in [Prefix -> Nat]
  BY DetectorAssumption DEF IInv, Types, Numbers
<1>2. ASSUME NEW p \in Prefix PROVE prefixList[p] \in 0 .. Window
  <2>1. LastCut + 1 \in Int /\ Len(trace) \in Int
    BY <1>1 DEF LastCut
  <2>2. Cardinality(Similar(LastCut + 1, Len(trace), p))
          <= IF LastCut + 1 > Len(trace) THEN 0 ELSE Len(trace) - (LastCut + 1) + 1
    BY <2>1, SimilarFinite
  <2>3. prefixList[p] = Cardinality(Similar(LastCut + 1, Len(trace), p))
    BY <1>1 DEF ListOK
  <2> QED
    BY <1>1, <2>2, <2>3 DEF LastCut
<1>3. prefixList \in [Prefix -> 0 .. Window]
  BY <1>1, <1>2
<1>4. cuts \subseteq 0 .. Len(trace)
  BY <1>1 DEF CutsOK, LastCut
<1> QED
  BY <1>1, <1>3, <1>4 DEF TypeOK, Numbers

(* A stretch of Window chunks has one cut inside it at most.               *)
LEMMA InvSimilarBounded == IInv => SimilarBounded
<1> SUFFICES ASSUME IInv, NEW i \in 1 .. accepted, NEW j \in 1 .. accepted,
                    NEW p \in Prefix, j - i < Window
             PROVE  Cardinality(Similar(i, j, p)) <= 2 * Threshold
  BY DEF SimilarBounded
<1>1. /\ accepted \in Nat /\ i \in Int /\ j \in Int
      /\ Threshold \in Nat /\ Window \in Nat
  BY DetectorAssumption DEF IInv, Types, Numbers
<1>2. Cardinality(Similar(i, j, p)) \in Nat
  BY <1>1, SimilarFinite
<1>3. \A k, l \in 1 .. accepted : NoCut(k, l) => Cardinality(Similar(k, l, p)) <= Threshold
  BY DEF IInv, NoBurst
<1>4. CASE NoCut(i, j)
  BY <1>1, <1>2, <1>3, <1>4
<1>5. CASE ~ NoCut(i, j)
  <2>1. PICK d \in cuts : i <= d /\ d < j
    BY <1>5 DEF NoCut
  <2>2. d \in Int /\ \A e \in cuts : e \in Int /\ (e < d => d - e >= Window)
                                    /\ (d < e => e - d >= Window)
    BY DEF IInv, CutsOK
  <2>3. NoCut(i, d) /\ NoCut(d + 1, j)
    BY <1>1, <2>1, <2>2 DEF NoCut
  <2>4. d \in 1 .. accepted /\ d + 1 \in 1 .. accepted
    BY <1>1, <2>1, <2>2
  <2> DEFINE S == Similar(i, d, p)
             T == Similar(d + 1, j, p)
  <2>5. Cardinality(S) <= Threshold /\ Cardinality(T) <= Threshold
    BY <1>3, <2>3, <2>4
  <2>6. IsFiniteSet(S) /\ IsFiniteSet(T) /\ Cardinality(S) \in Nat /\ Cardinality(T) \in Nat
    BY <1>1, <2>2, SimilarFinite
  <2>7. Similar(i, j, p) = S \cup T
    BY <1>1, <2>1, <2>2 DEF Similar
  <2>8. S \cap T = {}
    BY <1>1, <2>2 DEF Similar
  <2> HIDE DEF S, T
  <2>9. Cardinality(S \cup T) = Cardinality(S) + Cardinality(T)
    BY <2>6, <2>8, FS_Union, FS_EmptySet
  <2> QED
    BY <1>1, <2>5, <2>6, <2>7, <2>9
<1> QED
  BY <1>4, <1>5

-----------------------------------------------------------------------------
(***************************************************************************)
(* The detection is exact. The last cut is a multiple of Window, so the    *)
(* chunks since are those of the window the next chunk falls into, and the *)
(* table counts that window.                                               *)
(***************************************************************************)
Aligned == \E q \in Nat : LastCut = q * Window

(* The chunks of tumbling window w that have indicator p.                  *)
InWindow(w, p) ==
  {k \in 1 .. Len(trace) : (k - 1) \div Window = w /\ Indicator[trace[k]] = p}

LEMMA Quotient ==
  ASSUME NEW k \in Nat, NEW q \in Nat
  PROVE  k \div Window = q <=> q * Window <= k /\ k < q * Window + Window
<1>1. Window \in Nat \ {0} BY DetectorAssumption
<1> QED BY <1>1

LEMMA InWindowFinite ==
  ASSUME Types, NEW w, NEW p
  PROVE  IsFiniteSet(InWindow(w, p)) /\ Cardinality(InWindow(w, p)) \in Nat
<1>1. Len(trace) \in Int /\ 1 \in Int BY DEF Types, Numbers
<1>2. InWindow(w, p) \subseteq 1 .. Len(trace) BY DEF InWindow
<1>3. IsFiniteSet(InWindow(w, p)) BY <1>1, <1>2, FS_Interval, FS_Subset
<1> QED BY <1>3, FS_CardinalityType

(* The table counts the window of the next chunk.                          *)
LEMMA OpenWindow ==
  ASSUME IInv, NEW q \in Nat, LastCut = q * Window, NEW p \in Prefix
  PROVE  /\ Len(trace) \div Window = q
         /\ Cardinality(InWindow(q, p)) = prefixList[p]
<1>1. /\ Len(trace) \in Nat /\ Window \in Nat \ {0} /\ q * Window \in Nat
      /\ prefixListCounter \in Nat /\ prefixListCounter < Window
      /\ Len(trace) = q * Window + prefixListCounter
  <2>1. Window \in Nat \ {0} BY DetectorAssumption
  <2>2. q * Window \in Nat BY <2>1
  <2> QED BY <2>1, <2>2 DEF IInv, Types, Numbers, LastCut
<1>2. Len(trace) \div Window = q BY <1>1, Quotient
<1>3. ASSUME NEW k \in 1 .. Len(trace)
      PROVE  (k - 1) \div Window = q <=> k >= LastCut + 1
  <2>1. k - 1 \in Nat /\ k - 1 < q * Window + Window BY <1>1
  <2> QED BY <1>1, <2>1, Quotient
<1>4. InWindow(q, p) = Similar(LastCut + 1, Len(trace), p)
  <2>1. LastCut + 1 \in Nat /\ LastCut + 1 >= 1 BY <1>1
  <2> QED BY <1>1, <1>3, <2>1 DEF InWindow, Similar
<1> QED BY <1>2, <1>4 DEF IInv, ListOK

LEMMA CountAligned ==
  ASSUME IInv, Aligned, NEW c \in Chunk, CountChunk(c) PROVE Aligned'
<1>1. PICK q \in Nat : LastCut = q * Window BY DEF Aligned
<1>2. /\ Len(trace') = Len(trace) + 1 /\ Len(trace) \in Nat /\ Window \in Nat \ {0}
      /\ prefixListCounter \in Nat /\ prefixListCounter < Window
  BY DetectorAssumption DEF CountChunk, IInv, Types, Numbers
<1>3. CASE Full
  <2>1. prefixListCounter' = 0 /\ prefixListCounter + 1 = Window
    BY <1>2, <1>3 DEF CountChunk, Full
  <2>2. LastCut' = Len(trace) + 1 BY <1>2, <2>1 DEF LastCut
  <2>3. LastCut' = LastCut + Window BY <1>2, <2>1, <2>2 DEF LastCut
  <2>4. q * Window + Window = (q + 1) * Window BY <1>2
  <2> QED BY <1>1, <2>3, <2>4 DEF Aligned
<1>4. CASE ~ Full
  <2>1. LastCut' = LastCut BY <1>2, <1>4 DEF CountChunk, LastCut
  <2> QED BY <1>1, <2>1 DEF Aligned
<1> QED BY <1>3, <1>4

(* A chunk is counted in its window, and in no other.                      *)
LEMMA CountInWindow ==
  ASSUME IInv, NEW c \in Chunk, CountChunk(c), NEW q \in Nat, LastCut = q * Window,
         NEW w \in Nat, NEW p \in Prefix
  PROVE  Cardinality(InWindow(w, p)') = IF w = q /\ p = Indicator[c]
                                        THEN Cardinality(InWindow(w, p)) + 1
                                        ELSE Cardinality(InWindow(w, p))
<1> DEFINE n == Len(trace) + 1
           S == InWindow(w, p)
<1>1. /\ Len(trace') = n /\ Len(trace) \in Nat
      /\ trace \in Seq(Chunk) /\ trace' = Append(trace, c)
      /\ trace'[n] = c /\ \A k \in 1 .. Len(trace) : trace'[k] = trace[k]
  BY DEF CountChunk, IInv, Types, Numbers
<1>2. (n - 1) \div Window = q
  <2>1. n - 1 = Len(trace) BY <1>1
  <2> QED BY <2>1, OpenWindow
<1>3. InWindow(w, p)' = {k \in 1 .. n : (k - 1) \div Window = w /\ Indicator[trace'[k]] = p}
  BY <1>1 DEF InWindow
<1>4. n \notin S /\ IsFiniteSet(S) /\ Cardinality(S) \in Nat
  <2>1. Types BY DEF IInv
  <2>2. n \notin 1 .. Len(trace) BY <1>1
  <2>3. n \notin S BY <2>2 DEF InWindow
  <2> QED BY <2>1, <2>3, InWindowFinite
<1>5. \A k : k \in 1 .. n <=> k \in 1 .. Len(trace) \/ k = n BY <1>1
<1>6. n \notin 1 .. Len(trace) BY <1>1
<1> HIDE DEF n
<1>7. ASSUME NEW k
      PROVE  k \in InWindow(w, p)' <=> k \in S \/ (k = n /\ w = q /\ p = Indicator[c])
  <2>1. CASE k = n BY <1>1, <1>2, <1>3, <1>4, <1>5, <2>1
  <2>2. CASE k # n BY <1>1, <1>3, <1>5, <2>2 DEF InWindow
  <2> QED BY <2>1, <2>2
<1>8. CASE w = q /\ p = Indicator[c]
  <2>1. InWindow(w, p)' = S \cup {n} BY <1>7, <1>8
  <2>2. Cardinality(S \cup {n}) = Cardinality(S) + 1
    <3> HIDE DEF S
    <3> QED BY <1>4, FS_AddElement
  <2> QED BY <1>8, <2>1, <2>2
<1>9. CASE ~ (w = q /\ p = Indicator[c])
  <2>1. InWindow(w, p)' = S BY <1>7, <1>9
  <2> QED BY <1>9, <2>1
<1> QED BY <1>8, <1>9

OverfullAt(w, p) == Cardinality(InWindow(w, p)) > Threshold
Overfull == \E w \in Nat, p \in Prefix : OverfullAt(w, p)

(* A window after the last one is empty: the bound on w can be left out.   *)
LEMMA OverfullAnywhere == Types => (OverfullWindow <=> Overfull)
<1> SUFFICES ASSUME Types PROVE OverfullWindow <=> Overfull OBVIOUS
<1>1. Len(trace) \in Nat /\ Window \in Nat \ {0} /\ Threshold \in Nat
  BY DetectorAssumption DEF Types, Numbers
<1>2. 0 .. Len(trace) \div Window \subseteq Nat BY <1>1
<1>3. ASSUME NEW w \in Nat, w > Len(trace) \div Window, NEW p \in Prefix
      PROVE  Cardinality(InWindow(w, p)) = 0
  <2>1. \A k \in 1 .. Len(trace) : (k - 1) \div Window # w
    <3> SUFFICES ASSUME NEW k \in 1 .. Len(trace), (k - 1) \div Window = w PROVE FALSE
      OBVIOUS
    <3> DEFINE l == Len(trace) \div Window
    <3>1. k - 1 \in Nat /\ w * Window <= k - 1 /\ k - 1 < Len(trace)
      <4>1. k - 1 \in Nat /\ k - 1 < Len(trace) BY <1>1
      <4> QED BY <4>1, Quotient
    <3>2. l \in Nat /\ Len(trace) < l * Window + Window BY <1>1
    <3>3. l * Window + Window <= w * Window
      <4> HIDE DEF l
      <4>1. l \in Nat /\ l + 1 <= w BY <1>3, <3>2 DEF l
      <4>2. PICK d \in Nat : w = (l + 1) + d BY <4>1
      <4>3. w * Window = l * Window + Window + d * Window BY <1>1, <4>1, <4>2
      <4>4. d * Window \in Nat /\ l * Window \in Nat BY <1>1, <4>1
      <4> QED BY <1>1, <4>3, <4>4
    <3>4. w * Window \in Nat /\ l * Window \in Nat BY <1>1, <3>2
    <3> HIDE DEF l
    <3> QED BY <1>1, <3>1, <3>2, <3>3, <3>4
  <2>2. InWindow(w, p) = {} BY <2>1 DEF InWindow
  <2> QED BY <2>2, FS_EmptySet
<1>4. OverfullWindow <=>
        \E w \in 0 .. Len(trace) \div Window, p \in Prefix :
          Cardinality(InWindow(w, p)) > Threshold
  BY DEF OverfullWindow, InWindow
<1>5. Len(trace) \div Window \in Nat BY <1>1
<1>6. ASSUME NEW w \in Nat, NEW p \in Prefix, Cardinality(InWindow(w, p)) > Threshold
      PROVE  w \in 0 .. Len(trace) \div Window
  <2>1. ~ (w > Len(trace) \div Window) BY <1>1, <1>3, <1>6
  <2> QED BY <1>5, <2>1
<1> QED BY <1>2, <1>4, <1>6 DEF Overfull, OverfullAt

LEMMA CountExact ==
  ASSUME IInv, Aligned, DetectExact, NEW c \in Chunk, CountChunk(c)
  PROVE  DetectExact'
<1>1. PICK q \in Nat : LastCut = q * Window BY DEF Aligned
<1> DEFINE p == Indicator[c]
<1>2. /\ status = "run" /\ status' = status /\ detectFlag \in BOOLEAN
      /\ detectFlag' = (detectFlag \/ Over(p)) /\ p \in Prefix
      /\ Threshold \in Nat /\ Threshold >= 1 /\ Types
  BY DetectorAssumption DEF CountChunk, IInv, Types, Numbers
<1>3. Types' BY CountInv DEF IInv
<1>4. Cardinality(InWindow(q, p)) = prefixList[p] /\ prefixList[p] \in Nat
  BY <1>1, <1>2, OpenWindow, InWindowFinite
<1>5. Over(p) <=> Cardinality(InWindow(q, p)) + 1 > Threshold
  BY <1>2, <1>4 DEF Over
<1>6. /\ Cardinality(InWindow(q, p)') = Cardinality(InWindow(q, p)) + 1
      /\ \A w \in Nat, r \in Prefix : w # q \/ r # p =>
           Cardinality(InWindow(w, r)') = Cardinality(InWindow(w, r))
  BY <1>1, <1>2, CountInWindow
<1>7. Overfull' <=> Overfull \/ Over(p)
  <2>1. ASSUME Overfull \/ Over(p) PROVE Overfull'
    <3>1. CASE Over(p) BY <1>2, <1>5, <1>6, <3>1 DEF Overfull, OverfullAt
    <3>2. CASE Overfull
      <4>1. PICK w \in Nat, r \in Prefix : Cardinality(InWindow(w, r)) > Threshold
        BY <3>2 DEF Overfull, OverfullAt
      <4>2. CASE w = q /\ r = p
        BY <1>2, <1>4, <1>6, <4>1, <4>2 DEF Overfull, OverfullAt
      <4>3. CASE ~ (w = q /\ r = p) BY <1>6, <4>1, <4>3 DEF Overfull, OverfullAt
      <4> QED BY <4>2, <4>3
    <3> QED BY <2>1, <3>1, <3>2
  <2>2. ASSUME Overfull' PROVE Overfull \/ Over(p)
    <3>1. PICK w \in Nat, r \in Prefix : Cardinality(InWindow(w, r)') > Threshold
      BY <2>2 DEF Overfull, OverfullAt
    <3>2. CASE w = q /\ r = p BY <1>5, <1>6, <3>1, <3>2
    <3>3. CASE ~ (w = q /\ r = p) BY <1>6, <3>1, <3>3 DEF Overfull, OverfullAt
    <3> QED BY <3>2, <3>3
  <2> QED BY <2>1, <2>2
<1>8. OverfullWindow <=> Overfull BY <1>2, OverfullAnywhere
<1>9. OverfullWindow' <=> Overfull' BY <1>3, OverfullAnywhere, PTL
<1>10. (detectFlag \/ status = "stopped") <=> Overfull BY <1>8 DEF DetectExact
<1>11. (detectFlag' \/ status' = "stopped") <=> Overfull' BY <1>2, <1>7, <1>10
<1> QED BY <1>9, <1>11 DEF DetectExact

LEMMA StepExact == IInv /\ Aligned /\ DetectExact /\ [Next]_vars => Aligned' /\ DetectExact'
<1> SUFFICES ASSUME IInv, Aligned, DetectExact, [Next]_vars PROVE Aligned' /\ DetectExact'
  OBVIOUS
<1>1. ASSUME NEW c \in Chunk, CountChunk(c) PROVE Aligned' /\ DetectExact'
  BY <1>1, CountAligned, CountExact
<1>2. ASSUME NEW last \in BOOLEAN, Verdict(last) PROVE Aligned' /\ DetectExact'
  <2>1. UNCHANGED <<trace, prefixListCounter>> /\ detectFlag' = FALSE /\ status = "run"
    BY <1>2 DEF Verdict
  <2>2. status' = "stopped" <=> detectFlag BY <1>2 DEF Verdict
  <2>3. Aligned' BY <2>1 DEF Aligned, LastCut
  <2>4. OverfullWindow' <=> OverfullWindow BY <2>1 DEF OverfullWindow
  <2> QED BY <2>1, <2>2, <2>3, <2>4 DEF DetectExact
<1>3. CASE UNCHANGED vars
  <2>1. UNCHANGED <<trace, prefixListCounter, detectFlag, status>> BY <1>3 DEF vars
  <2>2. Aligned' BY <2>1 DEF Aligned, LastCut
  <2>3. OverfullWindow' <=> OverfullWindow BY <2>1 DEF OverfullWindow
  <2> QED BY <2>1, <2>2, <2>3 DEF DetectExact
<1> QED BY <1>1, <1>2, <1>3 DEF Next

LEMMA InitExact == Init => Aligned /\ DetectExact
<1> SUFFICES ASSUME Init PROVE Aligned /\ DetectExact OBVIOUS
<1>1. Window \in Nat \ {0} /\ Threshold \in Nat BY DetectorAssumption
<1>2. LastCut = 0 * Window BY <1>1 DEF Init, LastCut
<1>3. \A w, p : Cardinality(InWindow(w, p)) = 0
  <2>1. \A w, p : InWindow(w, p) = {} BY DEF Init, InWindow
  <2> QED BY <2>1, FS_EmptySet
<1>4. ~ OverfullWindow
  <2> SUFFICES ASSUME OverfullWindow PROVE FALSE OBVIOUS
  <2>1. PICK w, p : Cardinality(InWindow(w, p)) > Threshold BY DEF OverfullWindow, InWindow
  <2> QED BY <1>1, <1>3, <2>1
<1> QED BY <1>2, <1>4 DEF Init, Aligned, DetectExact

-----------------------------------------------------------------------------
THEOREM Invariance == Spec => []IInv
<1> QED
  BY InitInv, StepInv, PTL DEF Spec

(* The enclave's variables have their types; its table never counts more   *)
(* than a window.                                                          *)
THEOREM TypeCorrect == Spec => []TypeOK
<1> QED
  BY Invariance, InvTypeOK, PTL

(* Whatever the window, the threshold and the size of the batches: among   *)
(* Window consecutive chunks the server accepts, at most 2 * Threshold     *)
(* share an indicator.                                                     *)
THEOREM SimilarChunksBounded == Spec => []SimilarBounded
<1> QED
  BY Invariance, InvSimilarBounded, PTL

(* An upload is given up exactly when a tumbling window of it holds more   *)
(* than Threshold chunks with one indicator, for every window, threshold   *)
(* and size of batches: the batches' borders are nowhere seen.             *)
THEOREM DetectsExactly == Spec => []DetectExact
<1>1. Spec => [](Aligned /\ DetectExact)
  BY InitExact, StepExact, Invariance, PTL DEF Spec
<1> QED BY <1>1, PTL

-----------------------------------------------------------------------------
(***************************************************************************)
(* The simulator agrees. windowCheck is a recursive function of the number *)
(* of chunks: that it has the values its definition gives it takes the     *)
(* least-number principle, here from the library's well-founded induction. *)
(***************************************************************************)
(* A set of numbers with an element has a least one, and a greatest one if *)
(* it is bounded.                                                          *)
LEMMA Least ==
  ASSUME NEW T \in SUBSET Nat, T # {}
  PROVE  \E m \in T : \A n \in T : m <= n
<1> DEFINE R == OpToRel(<, Nat)
<1>1. R = {ss \in Nat \X Nat : ss[1] < ss[2]} BY DEF OpToRel
<1>2. IsWellFoundedOn(R, Nat) BY NatLessThanWellFounded
<1> HIDE DEF R
<1>3. PICK m \in T : \A n \in T : ~ (<<n, m>> \in R) BY <1>2, WFMin
<1>4. ASSUME NEW n \in T PROVE m <= n
  <2>1. m \in Nat /\ n \in Nat OBVIOUS
  <2>2. ~ (n < m) BY <1>1, <1>3, <2>1
  <2> QED BY <2>1, <2>2
<1> QED BY <1>4

LEMMA Greatest ==
  ASSUME NEW T \in SUBSET Nat, T # {}, NEW b \in Nat, \A n \in T : n <= b
  PROVE  Max(T) \in T /\ \A n \in T : n <= Max(T)
<1> DEFINE D == {d \in Nat : b - d \in T}
<1>1. D # {}
  <2>1. PICK n \in T : TRUE OBVIOUS
  <2>2. b - n \in Nat /\ b - (b - n) = n OBVIOUS
  <2> QED BY <2>2
<1>2. PICK d \in D : \A e \in D : d <= e
  <2>1. D \in SUBSET Nat OBVIOUS
  <2> HIDE DEF D
  <2> QED BY <1>1, <2>1, Least
<1>3. b - d \in T BY <1>2
<1>4. ASSUME NEW n \in T PROVE b - d >= n
  <2>1. b - n \in Nat /\ b - (b - n) = n OBVIOUS
  <2>2. b - n \in D BY <2>1
  <2>3. d <= b - n BY <1>2, <2>2
  <2> QED BY <2>3
<1>5. \E m \in T : \A n \in T : m >= n BY <1>3, <1>4
<1>6. Max(T) \in T /\ \A n \in T : Max(T) >= n BY <1>5 DEF Max
<1>7. Max(T) \in Nat BY <1>6
<1> HIDE DEF D
<1> QED BY <1>6, <1>7

LEMMA Induction ==
  ASSUME NEW S, 0 \in S, \A n \in Nat : n \in S => n + 1 \in S
  PROVE  \A n \in Nat : n \in S
<1> DEFINE T == Nat \ S
<1> SUFFICES ASSUME T # {} PROVE FALSE OBVIOUS
<1>1. PICK m \in T : \A n \in T : m <= n BY Least
<1>2. m \in Nat /\ m # 0 OBVIOUS
<1>3. m - 1 \in Nat BY <1>2
<1>4. m - 1 \in S BY <1>1, <1>3
<1>5. (m - 1) + 1 = m BY <1>2
<1> QED BY <1>1, <1>3, <1>4, <1>5

(* g is a by 0, and what step makes of it up to n.                         *)
Follows(g, n, a, step) ==
  \A k \in 0 .. n : g[k] = IF k = 0 THEN a ELSE step[<<k, g[k - 1]>>]

(* A recursive definition on the numbers up to n defines a function.       *)
LEMMA Recursion ==
  ASSUME NEW V, NEW a \in V, NEW step \in [Nat \X V -> V], NEW n \in Nat
  PROVE  \E g \in [0 .. n -> V] : Follows(g, n, a, step)
<1> DEFINE Good(m, g) == /\ g \in [0 .. m -> V] /\ g[0] = a
                         /\ \A k \in 1 .. m : g[k] = step[<<k, g[k - 1]>>]
           S == {m \in Nat : \E g \in [0 .. m -> V] : Good(m, g)}
<1>1. 0 \in S
  <2> DEFINE g == [i \in 0 .. 0 |-> a]
  <2>1. g \in [0 .. 0 -> V] /\ g[0] = a /\ 1 .. 0 = {} OBVIOUS
  <2> QED BY <2>1
<1>2. ASSUME NEW m \in Nat, m \in S PROVE m + 1 \in S
  <2>1. PICK g \in [0 .. m -> V] : Good(m, g) BY <1>2
  <2> DEFINE h == [i \in 0 .. m + 1 |-> IF i = m + 1 THEN step[<<m + 1, g[m]>>] ELSE g[i]]
  <2>2. m \in 0 .. m /\ m + 1 \in Nat OBVIOUS
  <2>3. step[<<m + 1, g[m]>>] \in V BY <2>1, <2>2
  <2>4. \A i \in 0 .. m + 1 : i # m + 1 => i \in 0 .. m OBVIOUS
  <2>5. h \in [0 .. m + 1 -> V] BY <2>1, <2>3, <2>4
  <2>6. h[0] = a BY <2>1
  <2>7. ASSUME NEW k \in 1 .. m + 1 PROVE h[k] = step[<<k, h[k - 1]>>]
    <3>1. CASE k = m + 1
      <4>1. k - 1 = m /\ h[m] = g[m] /\ h[m + 1] = step[<<m + 1, g[m]>>] BY <3>1
      <4> QED BY <3>1, <4>1
    <3>2. CASE k # m + 1
      <4>1. k \in 1 .. m /\ k - 1 \in 0 .. m /\ k \in 0 .. m BY <3>2
      <4>2. h[k] = g[k] /\ h[k - 1] = g[k - 1] BY <4>1
      <4> QED BY <2>1, <4>1, <4>2
    <3> QED BY <3>1, <3>2
  <2> HIDE DEF h
  <2>8. Good(m + 1, h) BY <2>5, <2>6, <2>7
  <2> QED BY <2>2, <2>5, <2>8
<1> HIDE DEF S
<1>3. n \in S BY <1>1, <1>2, Induction
<1>4. PICK g \in [0 .. n -> V] : Good(n, g) BY <1>3 DEF S
<1>5. \A k \in 0 .. n : g[k] = IF k = 0 THEN a ELSE step[<<k, g[k - 1]>>]
  <2>1. \A k \in 0 .. n : k # 0 => k \in 1 .. n OBVIOUS
  <2> QED BY <1>4, <2>1
<1> QED BY <1>5 DEF Follows
-----------------------------------------------------------------------------
(***************************************************************************)
(* The simulator's tables.                                                 *)
(***************************************************************************)

(* Everything a snapshot's chunks are counted under.                       *)
Keys(sn) ==
  UNION {{sn[j].hash} \cup {sn[j].feature[i] : i \in Scheme} \cup {sn[j].prefix[i] : i \in Scheme}
         : j \in 1 .. Len(sn)}

Table(K) == UNION {[S -> Nat] : S \in SUBSET K}

Tables(K) ==
  [count : Nat, dedup : Table(K), feature : [Scheme -> Table(K)], prefix : [Scheme -> Table(K)]]

Checked(K) == [rows : Seq({Columns(w) : w \in Tables(K)}), window : Tables(K)]

LEMMA CountedTable ==
  ASSUME NEW K, NEW t \in Table(K), NEW x \in K
  PROVE  Counted(t, x) \in Table(K)
<1>1. PICK S \in SUBSET K : t \in [S -> Nat] BY DEF Table
<1> DEFINE u == Counted(t, x)
<1>2. DOMAIN t = S /\ S \cup {x} \in SUBSET K BY <1>1
<1>3. u = [y \in S \cup {x} |-> IF y \notin S THEN 1 ELSE IF y = x THEN t[y] + 1 ELSE t[y]]
  BY <1>2 DEF Counted
<1>4. \A y \in S : t[y] \in Nat BY <1>1
<1>5. u \in [S \cup {x} -> Nat] BY <1>3, <1>4
<1> QED BY <1>2, <1>5 DEF Table

LEMMA NewWindowType == ASSUME NEW K PROVE NewWindow \in Tables(K)
<1>1. NoCounts \in [{} -> Nat] /\ {} \in SUBSET K BY DEF NoCounts
<1>2. NoCounts \in Table(K) BY <1>1 DEF Table
<1>3. [i \in Scheme |-> NoCounts] \in [Scheme -> Table(K)] BY <1>2
<1> QED BY <1>2, <1>3 DEF NewWindow, Tables

(* Chunk j of the snapshot is counted under what it has.                   *)
LEMMA AddChunkType ==
  ASSUME NEW sn, Len(sn) \in Nat, NEW w \in Tables(Keys(sn)), NEW j \in 1 .. Len(sn)
  PROVE  AddChunk(w, sn[j]) \in Tables(Keys(sn))
<1> DEFINE K == Keys(sn)
<1>1. /\ sn[j].hash \in K
      /\ \A i \in Scheme : sn[j].feature[i] \in K /\ sn[j].prefix[i] \in K
  BY DEF Keys
<1> HIDE DEF K
<1>2. /\ w.count \in Nat /\ w.dedup \in Table(K)
      /\ w.feature \in [Scheme -> Table(K)] /\ w.prefix \in [Scheme -> Table(K)]
  BY DEF Tables, K
<1>3. Counted(w.dedup, sn[j].hash) \in Table(K) BY <1>1, <1>2, CountedTable
<1>4. \A i \in Scheme : /\ Counted(w.feature[i], sn[j].feature[i]) \in Table(K)
                        /\ Counted(w.prefix[i], sn[j].prefix[i]) \in Table(K)
  BY <1>1, <1>2, CountedTable
<1>5. w.count + 1 \in Nat BY <1>2
<1> HIDE DEF Counted
<1> QED BY <1>3, <1>4, <1>5 DEF AddChunk, Tables, K

(* The loop's body, for chunk k.                                           *)
Body(sn, size, s, k) ==
  LET w == AddChunk(s.window, sn[k])
  IN  IF w.count = size THEN CloseWindow(s, w) ELSE [s EXCEPT !.window = w]

LEMMA BodyType ==
  ASSUME NEW sn, Len(sn) \in Nat, NEW size, NEW s \in Checked(Keys(sn)), NEW k \in 1 .. Len(sn)
  PROVE  Body(sn, size, s, k) \in Checked(Keys(sn))
<1> DEFINE K == Keys(sn)
           w == AddChunk(s.window, sn[k])
           R == {Columns(v) : v \in Tables(K)}
<1>1. s.window \in Tables(K) /\ s.rows \in Seq(R) BY DEF Checked
<1>2. w \in Tables(K) BY <1>1, AddChunkType
<1>3. s = [rows |-> s.rows, window |-> s.window] BY DEF Checked
<1>4. NewWindow \in Tables(K) BY NewWindowType
<1> HIDE DEF w, K
<1>5. Columns(w) \in R BY <1>2
<1> HIDE DEF R
<1>6. Append(s.rows, Columns(w)) \in Seq(R) BY <1>1, <1>5
<1>7. CloseWindow(s, w) \in Checked(K) BY <1>4, <1>6 DEF CloseWindow, Checked, R
<1>8. [s EXCEPT !.window = w] \in Checked(K) BY <1>1, <1>2, <1>3 DEF Checked, R
<1> QED BY <1>7, <1>8 DEF Body, w, K

(* The recursive definitions mean what they say.                           *)
LEMMA CheckWindows ==
  ASSUME NEW sn, Len(sn) \in Nat, NEW size
  PROVE  LET s == checkWindows(sn, size) IN
         /\ s \in [0 .. Len(sn) -> Checked(Keys(sn))]
         /\ s[0] = [rows |-> << >>, window |-> NewWindow]
         /\ \A k \in 1 .. Len(sn) : s[k] = Body(sn, size, s[k - 1], k)
<1> DEFINE V == Checked(Keys(sn))
           a == [rows |-> << >>, window |-> NewWindow]
           step == [x \in Nat \X V |-> IF x[1] \in 1 .. Len(sn) THEN Body(sn, size, x[2], x[1]) ELSE a]
<1>1. a \in V BY NewWindowType DEF Checked
<1>2. step \in [Nat \X V -> V] BY <1>1, BodyType
<1>3. \A k \in 1 .. Len(sn), v \in V : step[<<k, v>>] = Body(sn, size, v, k) OBVIOUS
<1> HIDE DEF V, a, step
<1>4. PICK g \in [0 .. Len(sn) -> V] :
        \A k \in 0 .. Len(sn) : g[k] = IF k = 0 THEN a ELSE step[<<k, g[k - 1]>>]
  <2> DEFINE n == Len(sn)
  <2>1. n \in Nat /\ a \in V BY <1>1
  <2> HIDE DEF n
  <2>2. \E g \in [0 .. n -> V] : Follows(g, n, a, step)
    BY <1>2, <2>1, Recursion
  <2> QED BY <2>2 DEF Follows, n
<1>5. \A k \in 0 .. Len(sn) : k # 0 =>
        /\ k \in 1 .. Len(sn) /\ k - 1 \in 0 .. Len(sn)
        /\ step[<<k, g[k - 1]>>] = Body(sn, size, g[k - 1], k)
  BY <1>3
<1>6. g = [k \in 0 .. Len(sn) |-> IF k = 0 THEN a ELSE Body(sn, size, g[k - 1], k)]
  BY <1>4, <1>5
<1> DEFINE s == CHOOSE f : f = [k \in 0 .. Len(sn) |->
                                  IF k = 0 THEN a ELSE Body(sn, size, f[k - 1], k)]
<1>7. s = [k \in 0 .. Len(sn) |-> IF k = 0 THEN a ELSE Body(sn, size, s[k - 1], k)]
  BY <1>6, Zenon
<1>8. checkWindows(sn, size) = s BY DEF checkWindows, Body, a
<1> HIDE DEF s
<1>9. \A k \in Nat : k \in {m \in Nat : m <= Len(sn) => s[m] \in V}
  <2> DEFINE S == {m \in Nat : m <= Len(sn) => s[m] \in V}
  <2>1. 0 \in S BY <1>1, <1>7
  <2>2. ASSUME NEW n \in Nat, n \in S PROVE n + 1 \in S
    <3> SUFFICES ASSUME n + 1 <= Len(sn) PROVE s[n + 1] \in V OBVIOUS
    <3>1. n + 1 \in 1 .. Len(sn) /\ n + 1 \in 0 .. Len(sn) /\ (n + 1) - 1 = n /\ s[n] \in V
      BY <2>2
    <3>2. s[n + 1] = Body(sn, size, s[n], n + 1) BY <1>7, <3>1
    <3> QED BY <3>1, <3>2, BodyType DEF V
  <2> HIDE DEF S
  <2> QED BY <2>1, <2>2, Induction DEF S
<1>10. s \in [0 .. Len(sn) -> V] BY <1>7, <1>9
<1>11. s[0] = a BY <1>7
<1>12. \A k \in 1 .. Len(sn) : s[k] = Body(sn, size, s[k - 1], k) BY <1>7
<1> QED BY <1>8, <1>10, <1>11, <1>12 DEF V, a

LEMMA CountAll ==
  ASSUME NEW sn, Len(sn) \in Nat
  PROVE  LET c == countAll(sn) IN
         /\ c[0] = NewWindow
         /\ \A k \in 1 .. Len(sn) : c[k] = AddChunk(c[k - 1], sn[k])
<1> DEFINE V == Tables(Keys(sn))
           step == [x \in Nat \X V |-> IF x[1] \in 1 .. Len(sn) THEN AddChunk(x[2], sn[x[1]])
                                       ELSE NewWindow]
<1>1. NewWindow \in V BY NewWindowType
<1>2. step \in [Nat \X V -> V]
  <2> HIDE DEF NewWindow
  <2> QED BY <1>1, AddChunkType
<1>3. \A k \in 1 .. Len(sn), v \in V : step[<<k, v>>] = AddChunk(v, sn[k]) OBVIOUS
<1> HIDE DEF V, step
<1>4. PICK g \in [0 .. Len(sn) -> V] :
        \A k \in 0 .. Len(sn) : g[k] = IF k = 0 THEN NewWindow ELSE step[<<k, g[k - 1]>>]
  <2> DEFINE n == Len(sn)
             a == NewWindow
  <2>1. n \in Nat /\ a \in V BY <1>1
  <2> HIDE DEF n, a
  <2>2. \E g \in [0 .. n -> V] : Follows(g, n, a, step)
    BY <1>2, <2>1, Recursion
  <2> QED BY <2>2 DEF Follows, n, a
<1>5. \A k \in 0 .. Len(sn) : k # 0 =>
        /\ k \in 1 .. Len(sn) /\ k - 1 \in 0 .. Len(sn)
        /\ step[<<k, g[k - 1]>>] = AddChunk(g[k - 1], sn[k])
  BY <1>3
<1>6. g = [k \in 0 .. Len(sn) |-> IF k = 0 THEN NewWindow ELSE AddChunk(g[k - 1], sn[k])]
  BY <1>4, <1>5
<1> DEFINE c == CHOOSE f : f = [k \in 0 .. Len(sn) |->
                                  IF k = 0 THEN NewWindow ELSE AddChunk(f[k - 1], sn[k])]
<1>7. c = [k \in 0 .. Len(sn) |-> IF k = 0 THEN NewWindow ELSE AddChunk(c[k - 1], sn[k])]
  BY <1>6, Zenon
<1>8. countAll(sn) = c BY DEF countAll
<1> HIDE DEF c
<1> QED BY <1>7, <1>8

(* What the highest count of a table is.                                   *)
LEMMA HighestCount ==
  ASSUME NEW K, NEW t \in Table(K), NEW b \in Nat, \A x \in DOMAIN t : t[x] <= b
  PROVE  /\ Highest(t) \in Nat
         /\ \A x \in DOMAIN t : t[x] <= Highest(t)
         /\ Highest(t) = 0 \/ \E x \in DOMAIN t : t[x] = Highest(t)
<1> DEFINE T == {0} \cup {t[x] : x \in DOMAIN t}
<1>1. \A x \in DOMAIN t : t[x] \in Nat
  <2>1. PICK S \in SUBSET K : t \in [S -> Nat] BY DEF Table
  <2> QED BY <2>1
<1>2. T \in SUBSET Nat /\ T # {} /\ \A n \in T : n <= b BY <1>1
<1>3. Highest(t) = Max(T) BY DEF Highest
<1>4. 0 \in T /\ \A x \in DOMAIN t : t[x] \in T OBVIOUS
<1>5. \A n \in T : n = 0 \/ \E x \in DOMAIN t : t[x] = n OBVIOUS
<1> HIDE DEF T
<1>6. Max(T) \in T /\ \A n \in T : n <= Max(T) BY <1>2, Greatest
<1>7. Max(T) \in Nat BY <1>2, <1>6
<1> QED BY <1>3, <1>4, <1>5, <1>6, <1>7

LEMMA ColumnsRead ==
  ASSUME NEW w PROVE Columns(w)[0] = w.count /\ Columns(w)[10] = Highest(w.prefix[0])
<1> HIDE DEF Highest
<1>1. 3 + 4 * featureNumber = 15 /\ featureNumber = 3 BY DEF featureNumber
<1>2. 0 \in 0 .. 15 /\ 10 \in 0 .. 15 /\ (10 - 1) \div 2 = 4 /\ 10 % 2 = 0 /\ 4 - 1 - 3 = 0 OBVIOUS
<1>3. Columns(w)[0] = w.count BY <1>1, <1>2 DEF Columns
<1>4. Columns(w)[10] = Highest(w.prefix[0]) BY <1>1, <1>2 DEF Columns
<1> QED BY <1>3, <1>4

-----------------------------------------------------------------------------
(***************************************************************************)
(* The simulator counts what the windows hold.                             *)
(***************************************************************************)

(* The first k chunks of window w that have indicator p.                   *)
Upto(k, w, p) == {j \in 1 .. k : (j - 1) \div Window = w /\ Indicator[trace[j]] = p}

Counts(t, k, w) ==
  /\ DOMAIN t \subseteq Prefix
  /\ \A p \in DOMAIN t : t[p] = Cardinality(Upto(k, w, p))
  /\ \A p \in Prefix \ DOMAIN t : Cardinality(Upto(k, w, p)) = 0

(* h is the highest count of window w.                                     *)
HighestIs(h, k, w) ==
  /\ h \in Nat
  /\ \A p \in Prefix : Cardinality(Upto(k, w, p)) <= h
  /\ h = 0 \/ \E p \in Prefix : Cardinality(Upto(k, w, p)) = h

LEMMA UptoFinite ==
  ASSUME NEW k \in Nat, NEW w, NEW p
  PROVE  /\ IsFiniteSet(Upto(k, w, p)) /\ Cardinality(Upto(k, w, p)) \in Nat
         /\ Cardinality(Upto(k, w, p)) <= k
<1>1. Upto(k, w, p) \in SUBSET (1 .. k) BY DEF Upto
<1>2. IsFiniteSet(1 .. k) /\ Cardinality(1 .. k) = k
  <2>1. 1 \in Int /\ k \in Int OBVIOUS
  <2>2. /\ IsFiniteSet(1 .. k)
        /\ Cardinality(1 .. k) = IF 1 > k THEN 0 ELSE k - 1 + 1
    BY <2>1, FS_Interval
  <2> QED BY <2>2
<1>3. IsFiniteSet(Upto(k, w, p)) /\ Cardinality(Upto(k, w, p)) <= Cardinality(1 .. k)
  BY <1>1, <1>2, FS_Subset
<1> QED BY <1>2, <1>3, FS_CardinalityType

LEMMA UptoNext ==
  ASSUME NEW k \in Nat, NEW w, NEW p
  PROVE  Cardinality(Upto(k + 1, w, p)) =
           IF k \div Window = w /\ Indicator[trace[k + 1]] = p
           THEN Cardinality(Upto(k, w, p)) + 1 ELSE Cardinality(Upto(k, w, p))
<1> DEFINE n == k + 1
           S == Upto(k, w, p)
<1>1. n - 1 = k /\ n \notin 1 .. k /\ \A j : j \in 1 .. n <=> j \in 1 .. k \/ j = n OBVIOUS
<1>2. n \notin S /\ IsFiniteSet(S) BY <1>1, UptoFinite DEF Upto
<1> HIDE DEF n
<1>3. \A j : j \in Upto(n, w, p) <=>
               j \in S \/ (j = n /\ k \div Window = w /\ Indicator[trace[n]] = p)
  <2> TAKE j
  <2>1. CASE j = n BY <1>1, <1>2, <2>1 DEF Upto
  <2>2. CASE j # n BY <1>1, <2>2 DEF Upto
  <2> QED BY <2>1, <2>2
<1>4. CASE k \div Window = w /\ Indicator[trace[n]] = p
  <2>1. Upto(n, w, p) = S \cup {n} BY <1>3, <1>4
  <2> QED BY <1>2, <1>4, <2>1, FS_AddElement DEF n
<1>5. CASE ~ (k \div Window = w /\ Indicator[trace[n]] = p)
  <2>1. Upto(n, w, p) = S BY <1>3, <1>5
  <2> QED BY <1>5, <2>1 DEF n
<1> QED BY <1>4, <1>5

LEMMA CountsMore ==
  ASSUME NEW t, NEW k \in Nat, NEW w, k \div Window = w, Counts(t, k, w),
         Indicator[trace[k + 1]] \in Prefix
  PROVE  Counts(Counted(t, Indicator[trace[k + 1]]), k + 1, w)
<1> DEFINE x == Indicator[trace[k + 1]]
           u == Counted(t, x)
<1>1. \A p \in Prefix : Cardinality(Upto(k + 1, w, p)) =
                          IF x = p THEN Cardinality(Upto(k, w, p)) + 1
                          ELSE Cardinality(Upto(k, w, p))
  BY UptoNext
<1>2. \A p : Cardinality(Upto(k, w, p)) \in Nat BY UptoFinite
<1>3. DOMAIN u = DOMAIN t \cup {x} BY DEF Counted
<1>4. \A p \in DOMAIN u : u[p] = IF p \notin DOMAIN t THEN 1
                                 ELSE IF p = x THEN t[p] + 1 ELSE t[p]
  BY DEF Counted
<1>5. x \in Prefix OBVIOUS
<1> HIDE DEF x, u
<1>6. DOMAIN u \subseteq Prefix BY <1>3, <1>5 DEF Counts
<1>7. ASSUME NEW p \in DOMAIN u PROVE u[p] = Cardinality(Upto(k + 1, w, p))
  <2>1. p \in Prefix BY <1>6
  <2>2. CASE p \in DOMAIN t
    <3>1. t[p] = Cardinality(Upto(k, w, p)) BY <2>2 DEF Counts
    <3> QED BY <1>1, <1>4, <2>1, <2>2, <3>1
  <2>3. CASE p \notin DOMAIN t
    <3>1. p = x /\ u[p] = 1 BY <1>3, <1>4, <2>3
    <3>2. Cardinality(Upto(k, w, p)) = 0 BY <2>1, <2>3 DEF Counts
    <3> QED BY <1>1, <2>1, <3>1, <3>2
  <2> QED BY <2>2, <2>3
<1>8. \A p \in Prefix \ DOMAIN u : Cardinality(Upto(k + 1, w, p)) = 0
  BY <1>1, <1>3 DEF Counts
<1> QED BY <1>6, <1>7, <1>8 DEF Counts, u, x

LEMMA HighestCounted ==
  ASSUME NEW K, NEW t \in Table(K), NEW k \in Nat, NEW w, Counts(t, k, w)
  PROVE  HighestIs(Highest(t), k, w)
<1>1. \A p : Cardinality(Upto(k, w, p)) \in Nat /\ Cardinality(Upto(k, w, p)) <= k BY UptoFinite
<1>2. \A x \in DOMAIN t : t[x] <= k BY <1>1 DEF Counts
<1> DEFINE h == Highest(t)
<1>3. /\ h \in Nat /\ \A x \in DOMAIN t : t[x] <= h
      /\ h = 0 \/ \E x \in DOMAIN t : t[x] = h
  BY <1>2, HighestCount
<1> HIDE DEF h
<1>4. ASSUME NEW p \in Prefix PROVE Cardinality(Upto(k, w, p)) <= h
  BY <1>3 DEF Counts
<1>5. h = 0 \/ \E p \in Prefix : Cardinality(Upto(k, w, p)) = h
  <2>1. CASE h = 0 BY <2>1
  <2>2. CASE h # 0
    <3>1. PICK x \in DOMAIN t : t[x] = h BY <1>3, <2>2
    <3>2. x \in Prefix /\ t[x] = Cardinality(Upto(k, w, x)) BY DEF Counts
    <3> QED BY <3>1, <3>2
  <2> QED BY <2>1, <2>2
<1> QED BY <1>3, <1>4, <1>5 DEF HighestIs, h

LEMMA HighestStays ==
  ASSUME NEW h, NEW k \in Nat, NEW w, k \div Window # w, HighestIs(h, k, w)
  PROVE  HighestIs(h, k + 1, w)
<1>1. \A p : Cardinality(Upto(k + 1, w, p)) = Cardinality(Upto(k, w, p)) BY UptoNext
<1> QED BY <1>1 DEF HighestIs

(* The rows and the tables after k chunks.                                 *)
Kept(s, k) ==
  LET q == k \div Window IN
  /\ s.window.count = k - q * Window
  /\ Counts(s.window.prefix[0], k, q)
  /\ Len(s.rows) = q
  /\ \A i \in 1 .. q : s.rows[i][0] = Window /\ HighestIs(s.rows[i][10], k, i - 1)

LEMMA SnapshotRead ==
  ASSUME Types
  PROVE  /\ Len(trace) \in Nat /\ Len(Snapshot) = Len(trace)
         /\ \A k \in 1 .. Len(trace) : /\ Indicator[trace[k]] \in Prefix
                                      /\ Snapshot[k].prefix[0] = Indicator[trace[k]]
<1>1. trace \in Seq(Chunk) /\ Len(trace) \in Nat BY DEF Types, Numbers
<1>2. \A k \in 1 .. Len(trace) : trace[k] \in Chunk BY <1>1
<1>3. Len(Snapshot) = Len(trace) BY <1>1 DEF Snapshot
<1>4. \A k \in 1 .. Len(trace) : Snapshot[k] = Describe[trace[k]] BY DEF Snapshot
<1>5. \A c \in Chunk : Describe[c].prefix[0] = Indicator[c] BY DescribeAssumption
<1>6. \A c \in Chunk : Indicator[c] \in Prefix BY DetectorAssumption
<1> QED BY <1>1, <1>2, <1>3, <1>4, <1>5, <1>6

LEMMA KeptStart == Kept([rows |-> << >>, window |-> NewWindow], 0)
<1>1. Window \in Nat \ {0} BY DetectorAssumption
<1>2. 0 \div Window = 0 /\ 0 - 0 * Window = 0 BY <1>1
<1>3. NewWindow.count = 0 /\ NewWindow.prefix[0] = NoCounts
  BY DEF NewWindow, Scheme, featureNumber
<1>4. DOMAIN NoCounts = {} BY DEF NoCounts
<1>5. \A p : Cardinality(Upto(0, 0, p)) = 0
  <2>1. \A p : Upto(0, 0, p) = {} BY DEF Upto
  <2> QED BY <2>1, FS_EmptySet
<1>6. Counts(NoCounts, 0, 0) BY <1>4, <1>5 DEF Counts
<1> HIDE DEF NewWindow
<1> QED BY <1>2, <1>3, <1>6 DEF Kept

LEMMA KeptStep ==
  ASSUME Types, NEW k \in Nat, k < Len(trace), NEW s \in Checked(Keys(Snapshot)), Kept(s, k)
  PROVE  Kept(Body(Snapshot, Window, s, k + 1), k + 1)
<1> DEFINE q == k \div Window
           w == AddChunk(s.window, Snapshot[k + 1])
           x == Indicator[trace[k + 1]]
           K == Keys(Snapshot)
<1>1. /\ Window \in Nat \ {0} /\ q \in Nat /\ q * Window <= k /\ k < q * Window + Window
      /\ q * Window \in Nat
  <2>1. Window \in Nat \ {0} BY DetectorAssumption
  <2>2. q \in Nat BY <2>1
  <2>3. q * Window <= k /\ k < q * Window + Window BY <2>1, <2>2, Quotient
  <2>4. q * Window \in Nat BY <2>1, <2>2
  <2> QED BY <2>1, <2>2, <2>3, <2>4
<1>2. k + 1 \in 1 .. Len(trace) /\ Len(trace) = Len(Snapshot) /\ Len(trace) \in Nat
      /\ x \in Prefix /\ Snapshot[k + 1].prefix[0] = x
  <2>1. Len(trace) \in Nat BY SnapshotRead
  <2>2. k + 1 \in 1 .. Len(trace) BY <2>1
  <2> QED BY <2>1, <2>2, SnapshotRead
<1>3. w.count = k - q * Window + 1 /\ w.prefix[0] = Counted(s.window.prefix[0], x)
  <2>1. 0 \in Scheme BY DEF Scheme, featureNumber
  <2>2. s.window.count = k - q * Window BY DEF Kept
  <2> HIDE DEF q, x
  <2>3. w.count = s.window.count + 1 BY DEF AddChunk
  <2>4. w.prefix[0] = Counted(s.window.prefix[0], Snapshot[k + 1].prefix[0])
    BY <2>1 DEF AddChunk
  <2> QED BY <1>2, <2>2, <2>3, <2>4
<1>4. w \in Tables(K)
  <2>1. s.window \in Tables(K) BY DEF Checked
  <2> QED BY <1>2, <2>1, AddChunkType
<1>5. w.prefix[0] \in Table(K) BY <1>4 DEF Tables, Scheme, featureNumber
<1>6. Counts(w.prefix[0], k + 1, q)
  <2>1. Counts(s.window.prefix[0], k, q) BY DEF Kept
  <2> HIDE DEF w
  <2> QED BY <1>2, <1>3, <2>1, CountsMore
<1>7. /\ Len(s.rows) = q
      /\ \A i \in 1 .. q : s.rows[i][0] = Window /\ HighestIs(s.rows[i][10], k + 1, i - 1)
  <2>1. /\ Len(s.rows) = q
        /\ \A i \in 1 .. q : s.rows[i][0] = Window /\ HighestIs(s.rows[i][10], k, i - 1)
    BY DEF Kept
  <2>2. \A i \in 1 .. q : q # i - 1 BY <1>1
  <2> QED BY <2>1, <2>2, HighestStays
<1>8. s.rows \in Seq({Columns(v) : v \in Tables(K)}) BY DEF Checked
<1>9. s = [rows |-> s.rows, window |-> s.window] BY DEF Checked
<1> DEFINE R == {Columns(v) : v \in Tables(K)}
           b == Body(Snapshot, Window, s, k + 1)
<1>10. Columns(w) \in R BY <1>4
<1> HIDE DEF w, q, x, K
<1>11. CASE w.count = Window
  <2>1. b = [rows |-> Append(s.rows, Columns(w)), window |-> NewWindow]
    BY <1>11 DEF Body, CloseWindow, w
  <2> DEFINE r == Append(s.rows, Columns(w))
  <2>2. b.rows = r /\ b.window = NewWindow BY <2>1
  <2>3. k + 1 = q * Window + Window BY <1>1, <1>3, <1>11
  <2>4. (k + 1) \div Window = q + 1 /\ (q + 1) * Window = k + 1
    <3>1. (q + 1) * Window = k + 1 BY <1>1, <2>3
    <3>2. q + 1 \in Nat /\ k + 1 \in Nat BY <1>1
    <3>3. (q + 1) * Window <= k + 1 /\ k + 1 < (q + 1) * Window + Window BY <1>1, <3>1
    <3> QED BY <3>1, <3>2, <3>3, Quotient
  <2> HIDE DEF R
  <2>5. /\ Len(r) = q + 1 /\ r[q + 1] = Columns(w) /\ \A i \in 1 .. q : r[i] = s.rows[i]
    BY <1>1, <1>7, <1>8, <1>10 DEF R
  <2>6. NewWindow.count = 0 /\ NewWindow.prefix[0] = NoCounts
    BY DEF NewWindow, Scheme, featureNumber
  <2>7. Counts(NoCounts, k + 1, q + 1)
    <3>1. \A j \in 1 .. k + 1 : (j - 1) \div Window # q + 1
      <4> SUFFICES ASSUME NEW j \in 1 .. k + 1, (j - 1) \div Window = q + 1 PROVE FALSE
        OBVIOUS
      <4>1. j - 1 \in Nat /\ j - 1 < k + 1 /\ q + 1 \in Nat BY <1>1
      <4>2. (q + 1) * Window <= j - 1 BY <4>1, Quotient
      <4> QED BY <2>4, <4>1, <4>2
    <3>2. \A p : Upto(k + 1, q + 1, p) = {} BY <3>1 DEF Upto
    <3>3. \A p : Cardinality(Upto(k + 1, q + 1, p)) = 0 BY <3>2, FS_EmptySet
    <3> QED BY <3>3 DEF Counts, NoCounts
  <2>8. r[q + 1][0] = Window /\ HighestIs(r[q + 1][10], k + 1, q)
    <3>1. Columns(w)[0] = Window /\ Columns(w)[10] = Highest(w.prefix[0])
      BY <1>11, ColumnsRead
    <3>2. HighestIs(Highest(w.prefix[0]), k + 1, q) BY <1>5, <1>6, HighestCounted
    <3> QED BY <2>5, <3>1, <3>2
  <2> HIDE DEF r, b, NewWindow
  <2>9. \A i \in 1 .. q + 1 : r[i][0] = Window /\ HighestIs(r[i][10], k + 1, i - 1)
    <3> TAKE i \in 1 .. q + 1
    <3>1. CASE i \in 1 .. q BY <1>7, <2>5, <3>1
    <3>2. CASE i = q + 1
      <4>1. i - 1 = q BY <1>1, <3>2
      <4> QED BY <2>8, <3>2, <4>1
    <3> QED BY <1>1, <3>1, <3>2
  <2>10. (k + 1) - (q + 1) * Window = 0 BY <2>4
  <2>11. Kept(b, k + 1) BY <2>2, <2>4, <2>5, <2>6, <2>7, <2>9, <2>10 DEF Kept
  <2> QED BY <2>11 DEF b
<1>12. CASE w.count # Window
  <2>1. b = [s EXCEPT !.window = w] BY <1>12 DEF Body, w
  <2>2. b.rows = s.rows /\ b.window = w BY <1>9, <2>1
  <2>3. (k + 1) \div Window = q
    <3>1. k + 1 \in Nat /\ q * Window <= k + 1 /\ k + 1 < q * Window + Window
      BY <1>1, <1>3, <1>12
    <3> QED BY <1>1, <3>1, Quotient
  <2>4. w.count = (k + 1) - q * Window BY <1>1, <1>3
  <2> HIDE DEF b
  <2>5. Kept(b, k + 1) BY <1>6, <1>7, <2>2, <2>3, <2>4 DEF Kept
  <2> QED BY <2>5 DEF b
<1> QED BY <1>11, <1>12

LEMMA KeptAlways ==
  ASSUME Types, NEW k \in 0 .. Len(trace)
  PROVE  /\ checkWindows(Snapshot, Window)[k] \in Checked(Keys(Snapshot))
         /\ Kept(checkWindows(Snapshot, Window)[k], k)
<1> DEFINE s == checkWindows(Snapshot, Window)
           n == Len(trace)
           C == Checked(Keys(Snapshot))
<1>1. n \in Nat /\ Len(Snapshot) = n BY SnapshotRead
<1>2. /\ s \in [0 .. n -> C]
      /\ s[0] = [rows |-> << >>, window |-> NewWindow]
      /\ \A m \in 1 .. n : s[m] = Body(Snapshot, Window, s[m - 1], m)
  BY <1>1, CheckWindows
<1>3. Kept(s[0], 0) BY <1>2, KeptStart
<1>4. ASSUME NEW m \in Nat, m < n, Kept(s[m], m) PROVE Kept(s[m + 1], m + 1)
  <2>1. m \in 0 .. n /\ m + 1 \in 1 .. n /\ (m + 1) - 1 = m BY <1>1, <1>4
  <2>2. s[m] \in C BY <1>2, <2>1
  <2>3. s[m + 1] = Body(Snapshot, Window, s[m], m + 1) BY <1>2, <2>1
  <2> HIDE DEF s
  <2> QED BY <1>4, <2>2, <2>3, KeptStep
<1> HIDE DEF s
<1> DEFINE S == {m \in Nat : m <= n => Kept(s[m], m)}
<1>5. \A m \in Nat : m \in S
  <2>1. 0 \in S BY <1>3
  <2>2. ASSUME NEW m \in Nat, m \in S PROVE m + 1 \in S
    <3> SUFFICES ASSUME m + 1 <= n PROVE Kept(s[m + 1], m + 1) OBVIOUS
    <3>1. m < n /\ m <= n BY <1>1
    <3> QED BY <1>4, <2>2, <3>1
  <2> HIDE DEF S
  <2> QED BY <2>1, <2>2, Induction
<1>6. k \in Nat /\ k <= n BY <1>1
<1>7. Kept(s[k], k) BY <1>5, <1>6
<1>8. s[k] \in C BY <1>2
<1> QED BY <1>7, <1>8 DEF s

(* The rows of n chunks: a full one for each window, and one for a last    *)
(* window that is not full.                                                *)
RowsAre(rows, n) ==
  LET q == n \div Window IN
  /\ Len(rows) = IF n = q * Window THEN q ELSE q + 1
  /\ DOMAIN rows = 1 .. Len(rows)
  /\ \A i \in 1 .. Len(rows) : /\ rows[i][0] = IF i <= q THEN Window ELSE n - q * Window
                               /\ HighestIs(rows[i][10], n, i - 1)

LEMMA RowsRead ==
  ASSUME Types PROVE RowsAre(windowCheck(Snapshot, Window), Len(trace))
<1> DEFINE n == Len(trace)
           q == n \div Window
           s == checkWindows(Snapshot, Window)[n]
           K == Keys(Snapshot)
           R == {Columns(v) : v \in Tables(K)}
           w == s.window
           rows == windowCheck(Snapshot, Window)
<1>1. n \in Nat /\ Len(Snapshot) = n BY SnapshotRead
<1>2. n \in 0 .. n BY <1>1
<1>3. s \in Checked(K) /\ Kept(s, n) BY <1>2, KeptAlways
<1>4. rows = IF w.count = 0 THEN s.rows ELSE Append(s.rows, Columns(w))
  BY <1>1 DEF windowCheck
<1> HIDE DEF s, K, rows
<1>5. /\ w.count = n - q * Window /\ Counts(w.prefix[0], n, q) /\ Len(s.rows) = q
      /\ \A i \in 1 .. q : s.rows[i][0] = Window /\ HighestIs(s.rows[i][10], n, i - 1)
  BY <1>3 DEF Kept
<1>6. s.rows \in Seq(R) /\ w \in Tables(K) BY <1>3 DEF Checked
<1>7. Columns(w) \in R /\ w.prefix[0] \in Table(K)
  BY <1>6 DEF Tables, Scheme, featureNumber
<1>8. Columns(w)[0] = n - q * Window /\ HighestIs(Columns(w)[10], n, q)
  <2>1. Columns(w)[0] = w.count /\ Columns(w)[10] = Highest(w.prefix[0]) BY ColumnsRead
  <2>2. HighestIs(Highest(w.prefix[0]), n, q) BY <1>1, <1>5, <1>7, HighestCounted
  <2> QED BY <1>5, <2>1, <2>2
<1>9. Window \in Nat \ {0} /\ q \in Nat /\ q * Window \in Nat BY <1>1, DetectorAssumption
<1> DEFINE c == Columns(w)
<1> HIDE DEF R, c
<1>10. CASE n = q * Window
  <2>1. rows = s.rows BY <1>1, <1>4, <1>5, <1>9, <1>10
  <2>2. DOMAIN s.rows = 1 .. q BY <1>5, <1>6
  <2> HIDE DEF s
  <2> QED BY <1>5, <1>9, <1>10, <2>1, <2>2 DEF RowsAre, rows
<1>11. CASE n # q * Window
  <2>1. rows = Append(s.rows, c) BY <1>1, <1>4, <1>5, <1>9, <1>11 DEF c
  <2>2. c \in R BY <1>7 DEF c
  <2> HIDE DEF q, n
  <2>3. /\ Len(rows) = q + 1 /\ DOMAIN rows = 1 .. q + 1 /\ rows[q + 1] = c
        /\ \A i \in 1 .. q : rows[i] = s.rows[i]
    BY <1>5, <1>6, <1>9, <2>1, <2>2
  <2>4. ASSUME NEW i \in 1 .. q + 1
        PROVE  /\ rows[i][0] = IF i <= q THEN Window ELSE n - q * Window
               /\ HighestIs(rows[i][10], n, i - 1)
    <3>1. CASE i \in 1 .. q
      <4>1. i <= q BY <1>9, <3>1
      <4> QED BY <1>5, <2>3, <3>1, <4>1
    <3>2. CASE i = q + 1
      <4>1. i - 1 = q /\ ~ (i <= q) BY <1>9, <3>2
      <4> QED BY <1>8, <2>3, <3>2, <4>1 DEF c
    <3> QED BY <1>9, <3>1, <3>2
  <2> QED BY <1>11, <2>3, <2>4 DEF RowsAre, rows, n, q
<1> QED BY <1>10, <1>11

(* The greatest entry of a column of numbers.                              *)
LEMMA ColumnMaxRead ==
  ASSUME NEW rows, NEW c, NEW m \in Nat \ {0}, DOMAIN rows = 1 .. m, NEW b \in Nat,
         \A i \in 1 .. m : rows[i][c] \in Nat /\ rows[i][c] <= b
  PROVE  /\ ColumnMax(rows, c) \in Nat
         /\ \A i \in 1 .. m : rows[i][c] <= ColumnMax(rows, c)
         /\ \E i \in 1 .. m : rows[i][c] = ColumnMax(rows, c)
<1> DEFINE T == {rows[i][c] : i \in 1 .. m}
<1>1. ColumnMax(rows, c) = Max(T) BY DEF ColumnMax
<1>2. T \in SUBSET Nat /\ \A x \in T : x <= b OBVIOUS
<1>3. T # {} /\ \A i \in 1 .. m : rows[i][c] \in T
  <2>1. 1 \in 1 .. m OBVIOUS
  <2> QED BY <2>1
<1>4. \A x \in T : \E i \in 1 .. m : rows[i][c] = x OBVIOUS
<1> HIDE DEF T
<1>5. Max(T) \in T /\ \A x \in T : x <= Max(T) BY <1>2, <1>3, Greatest
<1>6. Max(T) \in Nat BY <1>2, <1>5
<1> QED BY <1>1, <1>3, <1>4, <1>5, <1>6

(* What the simulator compares with its threshold: the highest count of an *)
(* indicator in a window, over the size of the longest window.             *)
LEMMA FractionRead ==
  ASSUME Types, trace # << >>
  PROVE  LET f == SimulatorFraction IN
         /\ f.of \in Nat /\ f.in \in Nat /\ f.in <= Window
         /\ Len(trace) >= Window => f.in = Window
         /\ \A w \in Nat, p \in Prefix : Cardinality(InWindow(w, p)) <= f.of
         /\ f.of = 0 \/ \E w \in Nat, p \in Prefix : Cardinality(InWindow(w, p)) = f.of
<1> DEFINE n == Len(trace)
           q == n \div Window
           rows == windowCheck(Snapshot, Window)
           m == Len(rows)
           f == SimulatorFraction
<1>1. n \in Nat \ {0} /\ Window \in Nat \ {0}
  <2>1. trace \in Seq(Chunk) BY DEF Types, Numbers
  <2> QED BY <2>1, DetectorAssumption
<1>2. RowsAre(rows, n) BY RowsRead
<1> HIDE DEF rows
<1>3. f.of = ColumnMax(rows, 10) /\ f.in = ColumnMax(rows, 0)
  <2>1. 10 + 0 * 2 = 10 OBVIOUS
  <2> QED BY <2>1 DEF SimulatorFraction, fraction, rows
<1> HIDE DEF f, n
<1>4. /\ q \in Nat /\ q * Window \in Nat /\ q * Window <= n /\ n < q * Window + Window
  <2>1. q \in Nat BY <1>1
  <2>2. q * Window <= n /\ n < q * Window + Window BY <1>1, <2>1, Quotient
  <2>3. q * Window \in Nat BY <1>1, <2>1
  <2> QED BY <2>1, <2>2, <2>3
<1> HIDE DEF q
<1>5. /\ m = IF n = q * Window THEN q ELSE q + 1
      /\ DOMAIN rows = 1 .. m
      /\ \A i \in 1 .. m : /\ rows[i][0] = IF i <= q THEN Window ELSE n - q * Window
                           /\ HighestIs(rows[i][10], n, i - 1)
  BY <1>2 DEF RowsAre, q
<1> HIDE DEF m
<1>6. m \in Nat \ {0} /\ m >= q /\ n <= m * Window
  <2>1. CASE n = q * Window
    <3>1. q # 0
      <4> SUFFICES ASSUME q = 0 PROVE FALSE OBVIOUS
      <4>1. 0 * Window = 0 BY <1>1
      <4> QED BY <1>1, <2>1, <4>1
    <3> QED BY <1>4, <1>5, <2>1, <3>1
  <2>2. CASE n # q * Window
    <3>1. m = q + 1 BY <1>5, <2>2
    <3>2. m * Window = q * Window + Window BY <1>1, <1>4, <3>1
    <3> QED BY <1>1, <1>4, <3>1, <3>2
  <2> QED BY <2>1, <2>2
<1>7. /\ f.in \in Nat /\ \A i \in 1 .. m : rows[i][0] <= f.in
      /\ \E i \in 1 .. m : rows[i][0] = f.in
  <2>1. n - q * Window \in Nat /\ n - q * Window <= Window BY <1>1, <1>4
  <2>2. \A i \in 1 .. m : rows[i][0] \in Nat /\ rows[i][0] <= Window BY <1>1, <1>5, <2>1
  <2>3. Window \in Nat BY <1>1
  <2>4. m \in Nat \ {0} /\ DOMAIN rows = 1 .. m BY <1>5, <1>6
  <2> HIDE DEF ColumnMax
  <2>5. /\ ColumnMax(rows, 0) \in Nat /\ \A i \in 1 .. m : rows[i][0] <= ColumnMax(rows, 0)
        /\ \E i \in 1 .. m : rows[i][0] = ColumnMax(rows, 0)
    BY <2>2, <2>3, <2>4, ColumnMaxRead
  <2> QED BY <1>3, <2>5
<1>8. f.in <= Window
  <2>1. PICK i \in 1 .. m : rows[i][0] = f.in BY <1>7
  <2> QED BY <1>1, <1>4, <1>5, <2>1
<1>9. n >= Window => f.in = Window
  <2> SUFFICES ASSUME n >= Window PROVE f.in = Window OBVIOUS
  <2>1. q # 0
    <3> SUFFICES ASSUME q = 0 PROVE FALSE OBVIOUS
    <3>1. 0 * Window = 0 BY <1>1
    <3> QED BY <1>1, <1>4, <3>1
  <2>2. 1 \in 1 .. m /\ 1 <= q BY <1>4, <1>6, <2>1
  <2>3. rows[1][0] = Window BY <1>5, <2>2
  <2>4. Window <= f.in BY <1>7, <2>2, <2>3
  <2> QED BY <1>1, <1>7, <1>8, <2>4
<1>10. \A w, p : Upto(n, w, p) = InWindow(w, p) BY DEF Upto, InWindow, n
<1>11. \A i \in 1 .. m :
         /\ rows[i][10] \in Nat
         /\ \A p \in Prefix : Cardinality(InWindow(i - 1, p)) <= rows[i][10]
         /\ rows[i][10] = 0 \/ \E p \in Prefix : Cardinality(InWindow(i - 1, p)) = rows[i][10]
  BY <1>5, <1>10 DEF HighestIs
<1>12. \A w, p : Cardinality(InWindow(w, p)) \in Nat /\ Cardinality(InWindow(w, p)) <= n
  BY <1>1, <1>10, UptoFinite
<1>13. \A i \in 1 .. m : rows[i][10] <= n
  <2> TAKE i \in 1 .. m
  <2>1. CASE rows[i][10] = 0 BY <1>1, <2>1
  <2>2. CASE rows[i][10] # 0
    <3>1. PICK p \in Prefix : Cardinality(InWindow(i - 1, p)) = rows[i][10] BY <1>11, <2>2
    <3> QED BY <1>12, <3>1
  <2> QED BY <2>1, <2>2
<1>14. /\ f.of \in Nat /\ \A i \in 1 .. m : rows[i][10] <= f.of
       /\ \E i \in 1 .. m : rows[i][10] = f.of
  <2>1. \A i \in 1 .. m : rows[i][10] \in Nat /\ rows[i][10] <= n BY <1>11, <1>13
  <2>2. n \in Nat BY <1>1
  <2>3. m \in Nat \ {0} /\ DOMAIN rows = 1 .. m BY <1>5, <1>6
  <2>4. /\ ColumnMax(rows, 10) \in Nat /\ \A i \in 1 .. m : rows[i][10] <= ColumnMax(rows, 10)
        /\ \E i \in 1 .. m : rows[i][10] = ColumnMax(rows, 10)
    BY <2>1, <2>2, <2>3, ColumnMaxRead
  <2> QED BY <1>3, <2>4
<1>15. ASSUME NEW w \in Nat, NEW p \in Prefix PROVE Cardinality(InWindow(w, p)) <= f.of
  <2>1. CASE w + 1 \in 1 .. m
    <3>1. (w + 1) - 1 = w OBVIOUS
    <3>2. Cardinality(InWindow(w, p)) <= rows[w + 1][10] BY <1>11, <2>1, <3>1
    <3>3. rows[w + 1][10] <= f.of /\ rows[w + 1][10] \in Nat BY <1>11, <1>14, <2>1
    <3> QED BY <1>12, <1>14, <3>2, <3>3
  <2>2. CASE w + 1 \notin 1 .. m
    <3>1. w >= m BY <1>6, <2>2
    <3>2. m * Window <= w * Window
      <4>1. PICK d \in Nat : w = m + d BY <1>6, <3>1
      <4>2. w * Window = m * Window + d * Window BY <1>1, <1>6, <4>1
      <4>3. d * Window \in Nat /\ m * Window \in Nat BY <1>1, <1>6
      <4> QED BY <4>2, <4>3
    <3>3. \A k \in 1 .. n : (k - 1) \div Window # w
      <4> SUFFICES ASSUME NEW k \in 1 .. n, (k - 1) \div Window = w PROVE FALSE OBVIOUS
      <4>1. k - 1 \in Nat /\ k - 1 < n BY <1>1
      <4>2. w * Window <= k - 1 BY <4>1, Quotient
      <4>3. w * Window \in Nat /\ m * Window \in Nat BY <1>1, <1>6
      <4> QED BY <1>1, <1>6, <3>2, <4>1, <4>2, <4>3
    <3>4. InWindow(w, p) = {} BY <3>3 DEF InWindow, n
    <3>5. Cardinality(InWindow(w, p)) = 0 BY <3>4, FS_EmptySet
    <3> QED BY <1>14, <3>5
  <2> QED BY <2>1, <2>2
<1>16. f.of = 0 \/ \E w \in Nat, p \in Prefix : Cardinality(InWindow(w, p)) = f.of
  <2>1. PICK i \in 1 .. m : rows[i][10] = f.of BY <1>14
  <2>2. i - 1 \in Nat BY <1>6
  <2>3. f.of = 0 \/ \E p \in Prefix : Cardinality(InWindow(i - 1, p)) = f.of BY <1>11, <2>1
  <2> QED BY <2>2, <2>3
<1> QED BY <1>7, <1>8, <1>9, <1>14, <1>15, <1>16 DEF f, n

(* While the first window is open it counts what the whole snapshot does.  *)
LEMMA OneWindow ==
  ASSUME Types, NEW k \in Nat, k <= Len(trace), k < Window
  PROVE  /\ countAll(Snapshot)[k].count = k
         /\ checkWindows(Snapshot, Window)[k] = [rows |-> << >>, window |-> countAll(Snapshot)[k]]
<1> DEFINE s == checkWindows(Snapshot, Window)
           c == countAll(Snapshot)
           n == Len(trace)
           S == {m \in Nat : m <= n /\ m < Window =>
                   c[m].count = m /\ s[m] = [rows |-> << >>, window |-> c[m]]}
<1>1. n \in Nat /\ Len(Snapshot) = n /\ Window \in Nat \ {0}
  BY SnapshotRead, DetectorAssumption
<1>2. /\ s[0] = [rows |-> << >>, window |-> NewWindow]
      /\ \A m \in 1 .. n : s[m] = Body(Snapshot, Window, s[m - 1], m)
  BY <1>1, CheckWindows
<1>3. c[0] = NewWindow /\ \A m \in 1 .. n : c[m] = AddChunk(c[m - 1], Snapshot[m])
  BY <1>1, CountAll
<1> HIDE DEF s, c, n
<1>4. 0 \in S
  <2>1. NewWindow.count = 0 BY DEF NewWindow
  <2> QED BY <1>2, <1>3, <2>1
<1>5. ASSUME NEW m \in Nat, m \in S PROVE m + 1 \in S
  <2> SUFFICES ASSUME m + 1 <= n, m + 1 < Window
               PROVE  /\ c[m + 1].count = m + 1
                      /\ s[m + 1] = [rows |-> << >>, window |-> c[m + 1]]
    OBVIOUS
  <2>1. m <= n /\ m < Window /\ m + 1 \in 1 .. n /\ (m + 1) - 1 = m BY <1>1
  <2>2. c[m].count = m /\ s[m] = [rows |-> << >>, window |-> c[m]] BY <1>5, <2>1
  <2>3. c[m + 1] = AddChunk(c[m], Snapshot[m + 1]) BY <1>3, <2>1
  <2>4. c[m + 1].count = m + 1 BY <2>2, <2>3 DEF AddChunk
  <2>5. s[m].window = c[m] BY <2>2
  <2>6. s[m + 1] = [s[m] EXCEPT !.window = c[m + 1]]
    <3>1. s[m + 1] = Body(Snapshot, Window, s[m], m + 1) BY <1>2, <2>1
    <3>2. c[m + 1].count # Window BY <1>1, <2>4
    <3> HIDE DEF Snapshot
    <3> QED BY <2>3, <2>5, <3>1, <3>2 DEF Body
  <2> QED BY <2>2, <2>4, <2>6
<1> HIDE DEF S
<1>6. k \in S BY <1>4, <1>5, Induction
<1> QED BY <1>6 DEF S, s, c, n

LEMMA FitsInWindow ==
  ASSUME Types, Len(trace) <= Window
  PROVE  windowCheck(Snapshot, Window) = snapCheck(Snapshot)
<1> DEFINE s == checkWindows(Snapshot, Window)
           c == countAll(Snapshot)
           n == Len(trace)
           row == Columns(c[n])
<1>1. n \in Nat /\ Len(Snapshot) = n /\ Window \in Nat \ {0}
  BY SnapshotRead, DetectorAssumption
<1>2. windowCheck(Snapshot, Window) =
        IF s[n].window.count = 0 THEN s[n].rows ELSE Append(s[n].rows, Columns(s[n].window))
  BY <1>1 DEF windowCheck
<1>3. snapCheck(Snapshot) = IF Snapshot = << >> THEN << >> ELSE <<row>>
  BY <1>1 DEF snapCheck
<1>4. Snapshot = << >> <=> n = 0
  <2>1. Snapshot = << >> => n = 0 BY <1>1
  <2>2. n = 0 => Snapshot = << >> BY DEF Snapshot
  <2> QED BY <2>1, <2>2
<1>5. \A k \in Nat : k <= n /\ k < Window =>
        c[k].count = k /\ s[k] = [rows |-> << >>, window |-> c[k]]
  BY OneWindow
<1>6. \A k \in 1 .. n : c[k] = AddChunk(c[k - 1], Snapshot[k]) BY <1>1, CountAll
<1>7. \A k \in 1 .. n : s[k] = Body(Snapshot, Window, s[k - 1], k) BY <1>1, CheckWindows
<1>8. Append(<< >>, row) = <<row>> OBVIOUS
<1> HIDE DEF s, c, n
<1>9. CASE n < Window
  <2>1. c[n].count = n /\ s[n] = [rows |-> << >>, window |-> c[n]]
    <3>1. n \in Nat /\ n <= n /\ n < Window BY <1>1, <1>9
    <3> QED BY <1>5, <3>1
  <2>2. s[n].rows = << >> /\ s[n].window = c[n] BY <2>1
  <2> QED BY <1>2, <1>3, <1>4, <1>8, <2>1, <2>2
<1>10. CASE n = Window
  <2>1. n - 1 \in Nat /\ n - 1 <= n /\ n - 1 < Window /\ n \in 1 .. n /\ n # 0 BY <1>1, <1>10
  <2>2. c[n - 1].count = n - 1 /\ s[n - 1].rows = << >> /\ s[n - 1].window = c[n - 1]
    <3> DEFINE m == n - 1
    <3>1. m \in Nat /\ m <= n /\ m < Window BY <2>1
    <3> HIDE DEF m
    <3>2. c[m].count = m /\ s[m] = [rows |-> << >>, window |-> c[m]] BY <1>5, <3>1
    <3>3. s[m].rows = << >> /\ s[m].window = c[m] BY <3>2
    <3> QED BY <3>2, <3>3 DEF m
  <2>3. c[n] = AddChunk(c[n - 1], Snapshot[n]) BY <1>6, <2>1
  <2>4. c[n].count = Window
    <3>1. c[n].count = (n - 1) + 1 BY <2>2, <2>3 DEF AddChunk
    <3> QED BY <1>1, <1>10, <3>1
  <2>5. s[n] = Body(Snapshot, Window, s[n - 1], n) BY <1>7, <2>1
  <2>6. s[n] = CloseWindow(s[n - 1], c[n])
    <3> HIDE DEF Snapshot
    <3> QED BY <2>2, <2>3, <2>4, <2>5 DEF Body
  <2>7. s[n].rows = <<row>> /\ s[n].window = NewWindow
    <3> HIDE DEF row
    <3> QED BY <1>8, <2>2, <2>6 DEF CloseWindow, row
  <2>8. NewWindow.count = 0 BY DEF NewWindow
  <2> QED BY <1>2, <1>3, <1>4, <2>1, <2>7, <2>8
<1>11. n < Window \/ n = Window
  <2>1. n <= Window BY DEF n
  <2> QED BY <1>1, <2>1
<1> QED BY <1>9, <1>10, <1>11

(* The flag is down when the upload has ended.                             *)
Lowered == status # "run" => ~ detectFlag

LEMMA InitLowered == Init => Lowered
  BY DEF Init, Lowered

LEMMA StepLowered == Lowered /\ [Next]_vars => Lowered'
<1> SUFFICES ASSUME Lowered, [Next]_vars PROVE Lowered' OBVIOUS
<1>1. ASSUME NEW c \in Chunk, CountChunk(c) PROVE Lowered' BY <1>1 DEF CountChunk, Lowered
<1>2. ASSUME NEW last \in BOOLEAN, Verdict(last) PROVE Lowered' BY <1>2 DEF Verdict, Lowered
<1>3. CASE UNCHANGED vars BY <1>3 DEF vars, Lowered
<1> QED BY <1>1, <1>2, <1>3 DEF Next

LEMMA Times ==
  ASSUME NEW a \in Nat, NEW b \in Nat, NEW w \in Nat \ {0}
  PROVE  a <= b <=> a * w <= b * w
<1>1. CASE a <= b
  <2>1. PICK d \in Nat : b = a + d BY <1>1
  <2>2. b * w = a * w + d * w /\ d * w \in Nat /\ a * w \in Nat BY <2>1
  <2> QED BY <1>1, <2>2
<1>2. CASE ~ (a <= b)
  <2>1. PICK d \in Nat : a = b + 1 + d BY <1>2
  <2>2. a * w = b * w + w + d * w /\ d * w \in Nat /\ b * w \in Nat BY <2>1
  <2> QED BY <1>2, <2>2
<1> QED BY <1>1, <1>2

LEMMA InvAgrees == Types /\ Lowered /\ DetectExact => SimulatorAgrees
<1> SUFFICES ASSUME Types, Lowered, DetectExact PROVE SimulatorAgrees OBVIOUS
<1> DEFINE f == SimulatorFraction
           n == Len(trace)
<1>1. Window \in Nat \ {0} /\ Threshold \in Nat \ {0} BY DetectorAssumption
<1>2. n \in Nat BY DEF Types, Numbers
<1>3. OverfullWindow <=> \E w \in Nat, p \in Prefix : Cardinality(InWindow(w, p)) > Threshold
  BY OverfullAnywhere DEF Overfull, OverfullAt
<1>4. \A w, p : Cardinality(InWindow(w, p)) \in Nat BY InWindowFinite
<1>5. SimulatorDetects <=> Threshold * f.in <= f.of * Window
  <2>1. trace # << >> => f.of \in Nat /\ f.in \in Nat BY FractionRead
  <2>2. SimulatorDetects <=> f.of * Window >= Threshold * f.in
    BY DEF SimulatorDetects, overThreshold
  <2> HIDE DEF f
  <2> QED BY <2>2
<1>6. ASSUME trace # << >>, status = "stopped" PROVE SimulatorDetects
  <2>1. f.of \in Nat /\ f.in \in Nat /\ f.in <= Window
        /\ \A w \in Nat, p \in Prefix : Cardinality(InWindow(w, p)) <= f.of
    BY <1>6, FractionRead
  <2>2. OverfullWindow BY <1>6 DEF DetectExact
  <2>3. PICK w \in Nat, p \in Prefix : Cardinality(InWindow(w, p)) > Threshold BY <1>3, <2>2
  <2> HIDE DEF f
  <2>4. Threshold <= f.of BY <1>1, <1>4, <2>1, <2>3
  <2>5. Threshold * Window <= f.of * Window BY <1>1, <2>1, <2>4, Times
  <2>6. f.in * Threshold <= Window * Threshold BY <1>1, <2>1, Times
  <2>7. f.in * Threshold = Threshold * f.in /\ Window * Threshold = Threshold * Window
    BY <1>1, <2>1
  <2>8. Threshold * f.in \in Nat /\ Threshold * Window \in Nat /\ f.of * Window \in Nat
    BY <1>1, <2>1
  <2> QED BY <1>5, <2>5, <2>6, <2>7, <2>8
<1>7. ASSUME trace # << >>, SimulatorDetects, status = "done", ~ (n < Window)
      PROVE  f.of = Threshold
  <2>1. /\ f.of \in Nat /\ f.in \in Nat
        /\ n >= Window => f.in = Window
        /\ f.of = 0 \/ \E w \in Nat, p \in Prefix : Cardinality(InWindow(w, p)) = f.of
    BY <1>7, FractionRead
  <2>2. ~ OverfullWindow BY <1>7 DEF DetectExact, Lowered
  <2> HIDE DEF f
  <2>3. n >= Window BY <1>1, <1>2, <1>7
  <2>4. Threshold * Window <= f.of * Window BY <1>5, <1>7, <2>1, <2>3
  <2>5. Threshold <= f.of BY <1>1, <2>1, <2>4, Times
  <2>6. f.of # 0 BY <1>1, <2>5
  <2>7. PICK w \in Nat, p \in Prefix : Cardinality(InWindow(w, p)) = f.of BY <2>1, <2>6
  <2>8. ~ (f.of > Threshold) BY <1>3, <2>2, <2>7
  <2> QED BY <1>1, <2>1, <2>5, <2>8
<1> HIDE DEF f
<1>8. n <= Window => windowCheck(Snapshot, Window) = snapCheck(Snapshot) BY FitsInWindow
<1> QED BY <1>6, <1>7, <1>8 DEF SimulatorAgrees, f

(* The simulator, run on the chunks of an upload with the enclave's window *)
(* and threshold, detects every upload the enclave stops, and another one  *)
(* only with a count of exactly the threshold or when it is shorter than a *)
(* window; the rows windowCheck prints for such a one are those of         *)
(* snapCheck.                                                              *)
THEOREM SimulatorPredicts == Spec => []SimulatorAgrees
<1>1. IInv => Types BY DEF IInv
<1>2. Spec => []Lowered BY InitLowered, StepLowered, PTL DEF Spec
<1> QED BY <1>1, <1>2, Invariance, DetectsExactly, InvAgrees, PTL
=============================================================================
