---------------------------- MODULE ChunkerProofs ----------------------------
(* Where a file is cut, for every size of chunk, window, read and file,    *)
(* and every base and modulus of the hash, and what Features says of the   *)
(* feature of a chunk and of the Simulator's own chunking. Four inductive  *)
(* invariants:                                                             *)
(*                                                                         *)
(*   IInv     types, and the bounds of a chunk: an unfinished one leaves   *)
(*            room for a byte, and the byte that fills it ends it          *)
(*   FileInv  what has been looked at is chunks and unfinished chunk, by   *)
(*            offset and by content; hence the chunks are the file         *)
(*   HashInv  winFp is the polynomial of the window, unless a read came    *)
(*            between; hence a chunk ends at its first boundary            *)
(*   SimInv   the Simulator, by the same byte, has cut the same chunks,    *)
(*            holds the same unfinished one, or has already zeroed it if a *)
(*            read comes next, and has the same winFp                      *)
(*                                                                         *)
(* FileInv and HashInv take IInv for granted, SimInv takes FileInv. The    *)
(* lemmas on a rolling hash are about any base and modulus: the chunker's  *)
(* window and the one a feature is taken from are two of their uses.       *)
(*                                                                         *)
(* What the recursive tables of powers and of polynomials hold is derived  *)
(* from the least number principle, which the well-foundedness of < gives. *)
EXTENDS Features, FiniteSetTheorems, SequenceTheorems, WellFoundedInduction, TLAPS

-----------------------------------------------------------------------------
(* A set of numbers with an element has a least one: what takes the place  *)
(* of a principle of induction, which would have an operator as parameter. *)
LEMMA Least ==
  ASSUME NEW T \in SUBSET Nat, T # {}
  PROVE  \E m \in T : \A n \in T : m <= n
<1> DEFINE R == OpToRel(<, Nat)
<1>1. R = {ss \in Nat \X Nat : ss[1] < ss[2]} BY DEF OpToRel
<1>2. IsWellFoundedOn(R, Nat) BY NatLessThanWellFounded
<1> HIDE DEF R
<1>3. PICK m \in T : \A n \in T : ~ (<<n, m>> \in R) BY <1>2, WFMin
<1>4. ASSUME NEW n \in T PROVE m <= n
  <2>1. m \in Nat /\ n \in Nat OBVIOUS
  <2>2. ~ (n < m) BY <1>1, <1>3, <2>1
  <2> QED BY <2>1, <2>2
<1> QED BY <1>4

LEMMA Induction ==
  ASSUME NEW S, 0 \in S, \A n \in Nat : n \in S => n + 1 \in S
  PROVE  \A n \in Nat : n \in S
<1> DEFINE T == Nat \ S
<1> SUFFICES ASSUME T # {} PROVE FALSE OBVIOUS
<1>1. PICK m \in T : \A n \in T : m <= n BY Least
<1>2. m \in Nat /\ m # 0 OBVIOUS
<1>3. m - 1 \in Nat BY <1>2
<1>4. m - 1 \in S BY <1>1, <1>3
<1>5. (m - 1) + 1 = m BY <1>2
<1> QED BY <1>1, <1>3, <1>4, <1>5

(* f is a by 0, and what step makes of it from there on.                   *)
Follows(f, a, step) == f[0] = a /\ \A n \in Nat : f[n + 1] = step[<<n, f[n]>>]

(* A recursive definition on the numbers defines a function.               *)
LEMMA Recursion ==
  ASSUME NEW V, NEW a \in V, NEW step \in [Nat \X V -> V]
  PROVE  \E f \in [Nat -> V] : Follows(f, a, step)
<1> DEFINE Approx(n) ==
             {g \in [0 .. n -> V] : g[0] = a /\ \A i \in 0 .. n - 1 : g[i + 1] = step[<<i, g[i]>>]}
           Some(n) == CHOOSE g \in Approx(n) : TRUE
           f == [n \in Nat |-> Some(n)[n]]
<1>1. \A n \in Nat : Approx(n) # {}
  <2> DEFINE S == {n \in Nat : Approx(n) # {}}
  <2>1. 0 \in S
    <3> DEFINE g == [i \in 0 .. 0 |-> a]
    <3>1. g \in [0 .. 0 -> V] /\ g[0] = a OBVIOUS
    <3>2. 0 .. (0 - 1) = {} OBVIOUS
    <3>3. g \in Approx(0) BY <3>1, <3>2
    <3> QED BY <3>3
  <2>2. ASSUME NEW n \in Nat, n \in S PROVE n + 1 \in S
    <3>1. PICK g : g \in Approx(n) BY <2>2
    <3> DEFINE h == [i \in 0 .. n + 1 |-> IF i = n + 1 THEN step[<<n, g[n]>>] ELSE g[i]]
    <3>2. g \in [0 .. n -> V] /\ n \in 0 .. n BY <3>1
    <3>3. step[<<n, g[n]>>] \in V BY <3>2
    <3>4. \A i \in 0 .. n + 1 : i # n + 1 => i \in 0 .. n OBVIOUS
    <3>5. h \in [0 .. n + 1 -> V] BY <3>2, <3>3, <3>4
    <3>6. h[0] = a BY <3>1
    <3>7. ASSUME NEW i \in 0 .. (n + 1) - 1 PROVE h[i + 1] = step[<<i, h[i]>>]
      <4>1. CASE i = n
        <5>1. h[n + 1] = step[<<n, g[n]>>] /\ h[n] = g[n] OBVIOUS
        <5> QED BY <4>1, <5>1
      <4>2. CASE i # n
        <5>1. i \in 0 .. n - 1 /\ i + 1 \in 0 .. n BY <4>2
        <5>2. g[i + 1] = step[<<i, g[i]>>] BY <3>1, <5>1
        <5>3. h[i] = g[i] /\ h[i + 1] = g[i + 1] BY <5>1
        <5> QED BY <5>2, <5>3
      <4> QED BY <4>1, <4>2
    <3> HIDE DEF h
    <3>8. h \in Approx(n + 1) BY <3>5, <3>6, <3>7
    <3> QED BY <3>8
  <2> HIDE DEF S
  <2>3. \A n \in Nat : n \in S BY <2>1, <2>2, Induction
  <2> QED BY <2>3 DEF S
<1>2. ASSUME NEW n \in Nat
      PROVE  \A m \in Nat, k \in Nat : \A g \in Approx(m), h \in Approx(k) :
               n <= m /\ n <= k => g[n] = h[n]
  <2> DEFINE S == {i \in Nat : \A m \in Nat, k \in Nat : \A g \in Approx(m), h \in Approx(k) :
                                 i <= m /\ i <= k => g[i] = h[i]}
  <2>1. 0 \in S OBVIOUS
  <2>2. ASSUME NEW i \in Nat, i \in S PROVE i + 1 \in S
    <3> SUFFICES ASSUME NEW m \in Nat, NEW k \in Nat, NEW g \in Approx(m), NEW h \in Approx(k),
                        i + 1 <= m, i + 1 <= k
                 PROVE  g[i + 1] = h[i + 1]
      OBVIOUS
    <3>1. i <= m /\ i <= k OBVIOUS
    <3>2. g[i] = h[i]
      <4> HIDE DEF Approx
      <4> QED BY <2>2, <3>1
    <3>3. i \in 0 .. m - 1 /\ i \in 0 .. k - 1 OBVIOUS
    <3> QED BY <3>2, <3>3
  <2> HIDE DEF S
  <2>3. n \in S BY <2>1, <2>2, Induction
  <2> QED BY <2>3 DEF S
<1>3. \A n \in Nat : Some(n) \in Approx(n) BY <1>1
<1> HIDE DEF Some
<1>4. ASSUME NEW n \in Nat PROVE f[n] \in V
  <2>1. Some(n) \in [0 .. n -> V] /\ n \in 0 .. n BY <1>3
  <2> QED BY <2>1
<1>5. f[0] = a BY <1>3
<1>6. ASSUME NEW n \in Nat PROVE f[n + 1] = step[<<n, f[n]>>]
  <2>1. Some(n + 1)[n + 1] = step[<<n, Some(n + 1)[n]>>]
    <3>1. n \in 0 .. (n + 1) - 1 OBVIOUS
    <3> QED BY <1>3, <3>1
  <2>2. Some(n + 1)[n] = Some(n)[n]
    <3>1. Some(n) \in Approx(n) /\ Some(n + 1) \in Approx(n + 1) /\ n + 1 \in Nat /\ n <= n + 1
      BY <1>3
    <3> HIDE DEF Approx
    <3>2. \A m \in Nat, k \in Nat : \A g \in Approx(m), h \in Approx(k) :
            n <= m /\ n <= k => g[n] = h[n] BY <1>2
    <3> QED BY <3>1, <3>2
  <2> QED BY <2>1, <2>2
<1>7. f \in [Nat -> V] BY <1>4
<1> HIDE DEF f
<1> QED BY <1>5, <1>6, <1>7 DEF Follows

(* The same of the numbers up to N.                                        *)
FollowsTo(g, a, step, N) == g[0] = a /\ \A i \in 1 .. N : g[i] = step[<<i - 1, g[i - 1]>>]

LEMMA RecursionUpTo ==
  ASSUME NEW V, NEW a \in V, NEW step \in [Nat \X V -> V], NEW N \in Nat
  PROVE  \E g \in [0 .. N -> V] : FollowsTo(g, a, step, N)
<1>1. PICK f \in [Nat -> V] : Follows(f, a, step) BY Recursion
<1> DEFINE g == [i \in 0 .. N |-> f[i]]
<1>2. g \in [0 .. N -> V]
  <2>1. \A i \in 0 .. N : f[i] \in V OBVIOUS
  <2> QED BY <2>1
<1>3. g[0] = a BY <1>1 DEF Follows
<1>4. ASSUME NEW i \in 1 .. N PROVE g[i] = step[<<i - 1, g[i - 1]>>]
  <2>1. i - 1 \in Nat /\ (i - 1) + 1 = i /\ i - 1 \in 0 .. N /\ i \in 0 .. N OBVIOUS
  <2>2. f[i] = step[<<i - 1, f[i - 1]>>] BY <1>1, <2>1 DEF Follows
  <2> QED BY <2>1, <2>2
<1> HIDE DEF g
<1> QED BY <1>2, <1>3, <1>4 DEF FollowsTo

(* The table of powers is the one its definition says.                     *)
PowersOf(B, L) == LET p[i \in Nat] == IF i = 0 THEN 1 ELSE (p[i - 1] * B) % L IN p

LEMMA PowersValues ==
  ASSUME NEW B \in Nat \ {0}, NEW L \in Nat \ {0}
  PROVE  LET P == PowersOf(B, L) IN
         P \in [Nat -> Nat] /\ P[0] = 1 /\ \A i \in Nat : P[i + 1] = (P[i] * B) % L
<1> DEFINE P == PowersOf(B, L)
<1>1. B \in Nat \ {0} /\ L \in Nat \ {0} OBVIOUS
<1> DEFINE step == [x \in Nat \X Nat |-> (x[2] * B) % L]
<1>2. step \in [Nat \X Nat -> Nat] /\ \A i, v \in Nat : step[<<i, v>>] = (v * B) % L
  <2>1. \A v \in Nat : (v * B) % L \in Nat BY <1>1
  <2> QED BY <2>1
<1> HIDE DEF step
<1>3. PICK f \in [Nat -> Nat] : Follows(f, 1, step)
  <2>1. 1 \in Nat OBVIOUS
  <2>2. step \in [Nat \X Nat -> Nat] BY <1>2
  <2> QED BY <2>1, <2>2, Recursion
<1>4. \A i \in Nat : f[i] = IF i = 0 THEN 1 ELSE (f[i - 1] * B) % L
  <2> SUFFICES ASSUME NEW i \in Nat, i # 0 PROVE f[i] = (f[i - 1] * B) % L
    BY <1>3 DEF Follows
  <2>1. i - 1 \in Nat /\ (i - 1) + 1 = i OBVIOUS
  <2>2. f[i] = step[<<i - 1, f[i - 1]>>] BY <1>3, <2>1 DEF Follows
  <2>3. f[i - 1] \in Nat BY <2>1
  <2> QED BY <1>2, <2>1, <2>2, <2>3
<1>5. f = [i \in Nat |-> IF i = 0 THEN 1 ELSE (f[i - 1] * B) % L]
  BY <1>4
<1>6. P = CHOOSE g : g = [i \in Nat |-> IF i = 0 THEN 1 ELSE (g[i - 1] * B) % L]
  BY DEF PowersOf
<1>7. P = [i \in Nat |-> IF i = 0 THEN 1 ELSE (P[i - 1] * B) % L]
  BY <1>5, <1>6, Zenon
<1> HIDE DEF P
<1>8. P[0] = 1 BY <1>7
<1>9. \A i \in Nat : P[i + 1] = (P[i] * B) % L
  <2> TAKE i \in Nat
  <2>1. i + 1 \in Nat /\ i + 1 # 0 /\ (i + 1) - 1 = i OBVIOUS
  <2> QED BY <1>7, <2>1
<1>10. \A i \in Nat : P[i] \in Nat
  <2> DEFINE S == {i \in Nat : P[i] \in Nat}
  <2>1. 0 \in S BY <1>8
  <2>2. ASSUME NEW n \in Nat, n \in S PROVE n + 1 \in S
    <3>1. (P[n] * B) % L \in Nat BY <1>1, <2>2
    <3> QED BY <1>9, <3>1
  <2> HIDE DEF S
  <2>3. \A n \in Nat : n \in S BY <2>1, <2>2, Induction
  <2> QED BY <2>3 DEF S
<1>11. P \in [Nat -> Nat] BY <1>7, <1>10
<1> QED BY <1>8, <1>9, <1>11 DEF P

LEMMA PowerIs == Power = PowersOf(PolyBase, PolyMod)
BY DEF Power, PowersOf

LEMMA PowerValues ==
  /\ Power \in [Nat -> Nat]
  /\ Power[0] = 1
  /\ \A i \in Nat : Power[i + 1] = (Power[i] * PolyBase) % PolyMod
<1>1. PolyBase \in Nat \ {0} /\ PolyMod \in Nat \ {0} BY ChunkerAssumption
<1> QED BY <1>1, PowersValues, PowerIs

-----------------------------------------------------------------------------
Piece == [at : Nat, data : Seq(Byte)]

(* What the step of a chunk depends on.                                    *)
Shape ==
  /\ TypeOK
  /\ input \in Inputs
  /\ input.type # "VariableSize" => buffer = << >>
  /\ input.type # "Trace" => block.from + Len(block.bytes) <= Len(File)

IInv == Shape /\ ChunkBounds

(* The sizes.                                                              *)
LEMMA Sizes ==
  /\ Byte \subseteq Nat /\ 0 \in Byte
  /\ MinChunk \in Nat \ {0} /\ MaxChunk \in Nat \ {0} /\ AvgChunk \in Nat \ {0}
  /\ Window \in Nat \ {0} /\ ReadSize \in Nat \ {0}
  /\ Window < MinChunk /\ MinChunk < AvgChunk /\ AvgChunk < MaxChunk
BY ChunkerAssumption

LEMMA Moduli ==
  /\ PolyBase \in Nat \ {0} /\ PolyMod \in Nat \ {0}
  /\ FpMod \in Nat \ {0} /\ AnchorMod \in Nat \ {0}
BY ChunkerAssumption

(* The types of the variables that the lemmas below need.                  *)
LEMMA Types ==
  ASSUME Shape
  PROVE  /\ block.from \in Nat /\ block.bytes \in Seq(Byte)
         /\ Len(block.bytes) \in Nat /\ Len(block.bytes) <= ReadSize
         /\ taken \in Nat /\ retSize \in Nat /\ retSize <= ReadSize
         /\ buffer \in Seq(Byte) /\ Len(buffer) \in Nat /\ Len(buffer) < MaxChunk
         /\ chunks \in Seq(Piece) /\ Len(chunks) \in Nat
         /\ size \in Nat /\ winFp \in Nat
<1>1. /\ block.from \in Nat /\ block.bytes \in Seq(Byte) /\ Len(block.bytes) <= ReadSize
      /\ taken \in Nat /\ retSize \in Nat /\ retSize <= ReadSize
      /\ buffer \in Seq(Byte) /\ Len(buffer) < MaxChunk
      /\ chunks \in Seq(Piece) /\ size \in Nat /\ winFp \in Nat
  BY Sizes, Moduli DEF Shape, TypeOK, Piece
<1> QED BY <1>1

LEMMA SubSeqFacts ==
  ASSUME NEW S, NEW s \in Seq(S), NEW a \in Nat, NEW b \in Nat, a <= b, b <= Len(s)
  PROVE  /\ SubSeq(s, a + 1, b) \in Seq(S)
         /\ Len(SubSeq(s, a + 1, b)) = b - a
         /\ \A i \in 1 .. b - a : SubSeq(s, a + 1, b)[i] = s[a + i]
<1>1. a + 1 \in 1 .. Len(s) + 1 /\ b \in a .. Len(s) BY LenProperties
<1>2. \A i \in a + 1 .. b : s[i] \in S BY <1>1, LenProperties
<1>3. SubSeq(s, a + 1, b) \in Seq(S) BY <1>1, <1>2
<1>4. Len(SubSeq(s, a + 1, b)) = b - a BY <1>1
<1>5. ASSUME NEW i \in 1 .. b - a PROVE SubSeq(s, a + 1, b)[i] = s[a + i] BY <1>1
<1> QED BY <1>3, <1>4, <1>5

(* A file's bytes, and a trace's lines.                                    *)
LEMMA FileType ==
  ASSUME Shape
  PROVE  /\ input.type \in {"VariableSize", "FixedSize", "Trace"}
         /\ input.type # "Trace" => File \in Seq(Byte)
         /\ input.type = "Trace" => File \in Seq(Nat \ {0})
         /\ Len(File) \in Nat
<1>1. \/ input \in [type : {"VariableSize", "FixedSize"}, data : Seq(Byte)]
      \/ input \in [type : {"Trace"}, data : Seq(Nat \ {0})]
  BY ChunkerAssumption DEF Shape
<1> QED BY <1>1 DEF File

LEMMA NatSequence ==
  ASSUME NEW T \in SUBSET Nat, NEW s \in Seq(T) PROVE s \in Seq(Nat)
<1>1. Len(s) \in Nat /\ s \in [1 .. Len(s) -> T] BY LenProperties
<1>2. s \in [1 .. Len(s) -> Nat] BY <1>1
<1> QED BY <1>1, <1>2

LEMMA NextStartType == ASSUME Shape PROVE NextStart \in Nat
<1>1. chunks \in Seq(Piece) BY Types
<1>2. CASE chunks = << >> BY <1>2 DEF NextStart
<1>3. CASE chunks # << >>
  <2>1. chunks[Len(chunks)] \in Piece BY <1>1, <1>3
  <2>2. /\ chunks[Len(chunks)].at \in Nat
        /\ chunks[Len(chunks)].data \in Seq(Byte) BY <2>1 DEF Piece
  <2>3. Len(chunks[Len(chunks)].data) \in Nat BY <2>2
  <2> QED BY <1>3, <2>2, <2>3 DEF NextStart
<1> QED BY <1>2, <1>3

(* What insertMQ does to the sequence of chunks.                           *)
LEMMA InsertFacts ==
  ASSUME Shape, NEW data \in Seq(Byte), InsertMQ(data)
  PROVE  /\ NextStart \in Nat
         /\ chunks' \in Seq(Piece)
         /\ Len(chunks') = Len(chunks) + 1
         /\ \A k \in 1 .. Len(chunks) : chunks'[k] = chunks[k]
         /\ chunks'[Len(chunks')].data = data
         /\ chunks'[Len(chunks')].at = NextStart
         /\ NextStart' = NextStart + Len(data)
<1>4. chunks \in Seq(Piece) BY Types
<1>1. NextStart \in Nat BY NextStartType
<1> DEFINE p == [at |-> NextStart, data |-> data]
<1>2. p \in Piece BY <1>1 DEF Piece
<1>3. chunks' = Append(chunks, p) BY DEF InsertMQ
<1>5. p.data = data /\ p.at = NextStart OBVIOUS
<1> HIDE DEF p
<1>6. /\ chunks' \in Seq(Piece) /\ Len(chunks') = Len(chunks) + 1
      /\ \A k \in 1 .. Len(chunks) : chunks'[k] = chunks[k]
      /\ chunks'[Len(chunks) + 1] = p
  BY <1>2, <1>3, <1>4, AppendProperties
<1>7. chunks' # << >> BY <1>4, <1>6
<1>8. NextStart' = chunks'[Len(chunks')].at + Len(chunks'[Len(chunks')].data)
  BY <1>7 DEF NextStart
<1> QED BY <1>1, <1>5, <1>6, <1>8

(* A chunk within the bounds, inserted before the head, keeps them.        *)
LEMMA InsertKeepsBounds ==
  ASSUME IInv, NEW data \in Seq(Byte), InsertMQ(data), head = NoHead,
         Len(data) \in 0 .. MaxChunk,
         input.type # "FixedSize" => Len(data) > 0,
         input.type = "VariableSize" /\ head' = NoHead => Len(data) >= MinChunk,
         input' = input
  PROVE  ChunkBounds'
<1> SUFFICES ASSUME NEW k \in DOMAIN chunks'
             PROVE  /\ Len(chunks'[k].data) \in 0 .. MaxChunk
                    /\ input.type # "FixedSize" => Len(chunks'[k].data) > 0
                    /\ input.type = "VariableSize" /\ (k < Len(chunks') \/ head' = NoHead)
                         => Len(chunks'[k].data) >= MinChunk
  BY DEF ChunkBounds
<1>1. /\ chunks' \in Seq(Piece)
      /\ Len(chunks') = Len(chunks) + 1
      /\ \A i \in 1 .. Len(chunks) : chunks'[i] = chunks[i]
      /\ chunks'[Len(chunks')].data = data
  BY InsertFacts DEF IInv
<1>2. chunks \in Seq(Piece) BY Types DEF IInv
<1>3. Len(chunks) \in Nat /\ k \in 1 .. Len(chunks) + 1 BY <1>1, <1>2
<1>4. CASE k = Len(chunks) + 1 BY <1>1, <1>3, <1>4
<1>5. CASE k \in 1 .. Len(chunks)
  <2>1. chunks'[k] = chunks[k] /\ k \in DOMAIN chunks BY <1>1, <1>2, <1>5
  <2>2. /\ Len(chunks[k].data) \in 0 .. MaxChunk
        /\ input.type # "FixedSize" => Len(chunks[k].data) > 0
        /\ input.type = "VariableSize" => Len(chunks[k].data) >= MinChunk
    BY <2>1 DEF IInv, ChunkBounds
  <2> QED BY <2>1, <2>2
<1> QED BY <1>3, <1>4, <1>5

(* Part of a block, filled up with zeros.                                  *)
LEMMA BytesFacts ==
  ASSUME Shape, NEW n \in Nat
  PROVE  /\ Bytes(taken, taken + n) \in Seq(Byte)
         /\ Len(Bytes(taken, taken + n)) = n
         /\ \A i \in 1 .. n : Bytes(taken, taken + n)[i] =
              IF taken + i <= Len(block.bytes) THEN block.bytes[taken + i] ELSE 0
<1>1. taken \in Nat /\ block.bytes \in Seq(Byte) /\ Len(block.bytes) \in Nat BY Types
<1> DEFINE byte(i) == IF taken + i <= Len(block.bytes) THEN block.bytes[taken + i] ELSE 0
           d == [i \in 1 .. n |-> byte(i)]
<1>2. Bytes(taken, taken + n) = d
  <2>1. (taken + n) - taken = n BY <1>1
  <2> QED BY <2>1, Zenon DEF Bytes
<1>3. ASSUME NEW i \in 1 .. n PROVE byte(i) \in Byte
  <2>1. i \in Nat \ {0} OBVIOUS
  <2>2. CASE taken + i <= Len(block.bytes) BY <1>1, <2>1, <2>2
  <2>3. CASE ~ (taken + i <= Len(block.bytes)) BY <2>3, Sizes
  <2> QED BY <2>2, <2>3
<1>4. \A i \in 1 .. n : d[i] = byte(i) OBVIOUS
<1>5. d \in Seq(Byte) /\ Len(d) = n
  <2> HIDE DEF byte
  <2> QED BY <1>3
<1> HIDE DEF d
<1> QED BY <1>2, <1>4, <1>5

(* The hash keeps to 16 bits.                                              *)
LEMMA HashType ==
  ASSUME NEW x \in Int PROVE (x % PolyMod) % FpMod \in 0 .. FpMod - 1
<1>1. PolyMod \in Nat \ {0} /\ FpMod \in Nat \ {0} BY Moduli
<1>2. x % PolyMod \in Int BY <1>1
<1> QED BY <1>1, <1>2

LEMMA RemoveType == ASSUME NEW v \in Nat PROVE Remove(v) \in Nat
<1>1. PolyMod \in Nat \ {0} BY Moduli
<1>2. Window - 1 \in Nat BY Sizes
<1>3. Power[Window - 1] \in Nat BY <1>2, PowerValues
<1>4. v * Power[Window - 1] \in Nat BY <1>3
<1>5. (v * Power[Window - 1]) % PolyMod \in Nat BY <1>1, <1>4
<1>6. PolyMod - ((v * Power[Window - 1]) % PolyMod) \in Int BY <1>1, <1>5
<1> HIDE DEF Remove
<1> QED BY <1>1, <1>6 DEF Remove

LEMMA FillType ==
  ASSUME Shape, NEW b \in Byte, Len(buffer) < Window
  PROVE  FillWindow(winFp, buffer, b) \in 0 .. FpMod - 1
<1>1. Window - Len(buffer) - 1 \in Nat BY Types, Sizes
<1>2. Power[Window - Len(buffer) - 1] \in Nat BY <1>1, PowerValues
<1>3. b \in Nat /\ winFp \in Nat BY Types, Sizes
<1>4. b * Power[Window - Len(buffer) - 1] \in Nat BY <1>2, <1>3
<1>5. winFp + b * Power[Window - Len(buffer) - 1] \in Int BY <1>3, <1>4
<1> QED BY <1>5, HashType DEF FillWindow

LEMMA SlideType ==
  ASSUME Shape, NEW b \in Byte, Len(buffer) >= Window
  PROVE  SlideWindow(winFp, buffer, b) \in 0 .. FpMod - 1
<1>1. Len(buffer) - Window + 1 \in 1 .. Len(buffer) BY Types, Sizes
<1>2. buffer[Len(buffer) - Window + 1] \in Byte BY <1>1, Types
<1>3. Remove(buffer[Len(buffer) - Window + 1]) \in Nat BY <1>2, Sizes, RemoveType
<1>4. b \in Nat /\ winFp \in Nat /\ PolyBase \in Nat BY Types, Sizes, Moduli
<1> DEFINE r == Remove(buffer[Len(buffer) - Window + 1])
<1>5. (winFp + r) * PolyBase + b \in Int
  <2>1. r \in Nat BY <1>3
  <2> HIDE DEF r
  <2>2. winFp + r \in Nat BY <1>4, <2>1
  <2>3. (winFp + r) * PolyBase \in Nat BY <1>4, <2>2
  <2> QED BY <1>4, <2>3
<1> QED BY <1>5, HashType DEF SlideWindow

LEMMA InitIInv == Init => IInv
<1> SUFFICES ASSUME Init PROVE IInv OBVIOUS
<1>1. /\ size = 0 /\ chunks = << >> /\ buffer = << >> /\ taken = 0 /\ retSize = 0
      /\ winFp = 0 /\ eof = FALSE /\ head = NoHead
      /\ block = [from |-> 0, bytes |-> << >>]
      /\ input \in Inputs BY DEF Init
<1>2. input \in [type : {"VariableSize", "FixedSize", "Trace"}, data : Seq(Nat)]
  <2>1. \/ input \in [type : {"VariableSize", "FixedSize"}, data : Seq(Byte)]
        \/ input \in [type : {"Trace"}, data : Seq(Nat \ {0})]
    BY <1>1, ChunkerAssumption
  <2>2. input.data \in Seq(Nat) BY <2>1, Sizes, NatSequence
  <2> QED BY <2>1, <2>2
<1>3. block \in [from : Nat, bytes : Seq(Byte)] /\ Len(block.bytes) <= ReadSize
  BY <1>1, Sizes
<1>4. /\ retSize \in 0 .. ReadSize /\ winFp \in 0 .. FpMod - 1
      /\ buffer \in Seq(Byte) /\ Len(buffer) < MaxChunk
      /\ chunks \in Seq([at : Nat, data : Seq(Byte)])
  BY <1>1, Sizes, Moduli
<1>5. TypeOK BY <1>1, <1>2, <1>3, <1>4 DEF TypeOK
<1>6. input.type # "Trace" => block.from + Len(block.bytes) <= Len(File)
  BY <1>1, <1>2 DEF File
<1> QED BY <1>1, <1>5, <1>6 DEF IInv, Shape, ChunkBounds

(* What a step that takes a byte leaves alone.                             *)
LEMMA TakeFacts ==
  ASSUME Shape, NEW b \in Byte, Take(b)
  PROVE  /\ input' = input /\ head' = head /\ head = NoHead /\ block' = block /\ eof' = eof
         /\ size' = size /\ retSize' = retSize
         /\ taken' = taken + 1 /\ taken < Len(block.bytes) /\ b = block.bytes[taken + 1]
         /\ input.type = "VariableSize"
         /\ Append(buffer, b) \in Seq(Byte) /\ Len(Append(buffer, b)) = Len(buffer) + 1
<1>1. Append(buffer, b) \in Seq(Byte) /\ Len(Append(buffer, b)) = Len(buffer) + 1
  BY Types, AppendProperties
<1> QED BY <1>1, Types DEF Take, More, BlockDone

LEMMA StepIInv == IInv /\ [Next]_vars => IInv'
<1> SUFFICES ASSUME IInv, [Next]_vars PROVE IInv' OBVIOUS
<1>s. Shape /\ ChunkBounds BY DEF IInv
<1>t. TypeOK /\ input \in Inputs BY <1>s DEF Shape
<1>1. CASE ReadBlock
  <2> DEFINE from == block.from + Len(block.bytes)
             to == Lowest(from + ReadSize, Len(File))
  <2>0. /\ input' = input /\ chunks' = chunks /\ head' = head /\ taken' = 0 /\ retSize' = 0
        /\ winFp' = winFp /\ input.type # "Trace"
        /\ buffer' = [i \in 1 .. Len(buffer) |-> 0]
        /\ block' = [from |-> from, bytes |-> SubSeq(File, from + 1, to)]
        /\ eof' = (to - from < ReadSize)
        /\ size' = size + (to - from)
    BY <1>1 DEF ReadBlock
  <2>1. /\ block' \in [from : Nat, bytes : Seq(Byte)] /\ Len(block'.bytes) <= ReadSize
        /\ size' \in Nat /\ block'.from + Len(block'.bytes) <= Len(File)
    <3>1. File \in Seq(Byte) BY <1>s, <2>0, FileType
    <3>2. from \in Nat /\ to \in Nat /\ to <= Len(File) /\ to <= from + ReadSize
      <4>1. Len(File) \in Nat /\ Len(block.bytes) \in Nat /\ block.from \in Nat
        BY <1>s, Types, FileType
      <4> QED BY <4>1, Sizes DEF Lowest
    <3>3. from <= to
      <4>1. from <= Len(File) BY <1>s, <2>0 DEF Shape
      <4>2. ReadSize \in Nat /\ Len(File) \in Nat /\ from \in Nat
        BY <1>s, <3>2, FileType, Sizes
      <4> HIDE DEF from
      <4> QED BY <4>1, <4>2 DEF Lowest
    <3> HIDE DEF to, from
    <3>5. /\ SubSeq(File, from + 1, to) \in Seq(Byte)
          /\ Len(SubSeq(File, from + 1, to)) = to - from
      BY <3>1, <3>2, <3>3, SubSeqFacts
    <3>6. size \in Nat /\ ReadSize \in Nat BY <1>s, Types, Sizes
    <3>7. block'.from = from /\ block'.bytes = SubSeq(File, from + 1, to)
          /\ block' = [from |-> block'.from, bytes |-> block'.bytes]
      BY <2>0
    <3>8. from + (to - from) = to /\ to - from <= ReadSize /\ size + (to - from) \in Nat
      BY <3>2, <3>3, <3>6
    <3>9. block' \in [from : Nat, bytes : Seq(Byte)]
      BY <3>2, <3>5, <3>7
    <3>10. Len(block'.bytes) = to - from
      BY <3>5, <3>7
    <3>11. Len(block'.bytes) <= ReadSize /\ block'.from + Len(block'.bytes) <= Len(File)
      BY <3>2, <3>7, <3>8, <3>10
    <3>12. size' \in Nat
      BY <2>0, <3>8
    <3> QED BY <3>9, <3>11, <3>12
  <2> HIDE DEF from, to
  <2>2. buffer' \in Seq(Byte) /\ Len(buffer') = Len(buffer)
    <3>1. Len(buffer) \in Nat /\ 0 \in Byte BY <1>s, Types, Sizes
    <3> QED BY <2>0, <3>1
  <2>3. buffer = << >> => buffer' = << >> BY <2>0
  <2>4. TypeOK'
    <3>1. /\ input' \in [type : {"VariableSize", "FixedSize", "Trace"}, data : Seq(Nat)]
          /\ winFp' \in 0 .. FpMod - 1 /\ chunks' \in Seq([at : Nat, data : Seq(Byte)])
          /\ head' \in [chunks : Nat, size : Nat] \cup {NoHead}
      BY <1>t, <2>0 DEF TypeOK
    <3>2. taken' \in Nat /\ retSize' \in 0 .. ReadSize
      BY <2>0, Sizes
    <3>3. eof' \in BOOLEAN
      BY <2>0
    <3>4. Len(buffer') < MaxChunk
      BY <1>t, <2>2 DEF TypeOK
    <3> QED BY <2>1, <2>2, <3>1, <3>2, <3>3, <3>4 DEF TypeOK
  <2> QED BY <1>s, <2>0, <2>1, <2>3, <2>4 DEF IInv, Shape, ChunkBounds, File
<1>3. ASSUME NEW b \in Byte, Fill(b) PROVE IInv'
  <2>1. /\ Take(b) /\ buffer' = Append(buffer, b) /\ chunks' = chunks /\ Len(buffer) < Window
        /\ winFp' = FillWindow(winFp, buffer, b)
    BY <1>3 DEF Fill
  <2>2. Len(buffer') < MaxChunk BY <1>s, <2>1, TakeFacts, Types, Sizes
  <2>3. winFp' \in 0 .. FpMod - 1 BY <1>s, <2>1, FillType
  <2>4. taken' \in Nat BY <1>s, <2>1, TakeFacts, Types
  <2>5. TypeOK' BY <1>s, <1>t, <2>1, <2>2, <2>3, <2>4, TakeFacts DEF TypeOK
  <2> QED BY <1>s, <2>1, <2>5, TakeFacts DEF IInv, Shape, ChunkBounds, File
<1>4. ASSUME NEW b \in Byte, Slide(b) PROVE IInv'
  <2>1. /\ Take(b) /\ buffer' = Append(buffer, b) /\ chunks' = chunks /\ Len(buffer) >= Window
        /\ winFp' = SlideWindow(winFp, buffer, b)
        /\ ~ EndsHere(Len(buffer) + 1, SlideWindow(winFp, buffer, b))
    BY <1>4 DEF Slide
  <2>2. Len(buffer') < MaxChunk
    <3>1. Len(buffer) + 1 < MaxChunk BY <1>s, <2>1, Types, Sizes DEF EndsHere
    <3> QED BY <1>s, <2>1, <3>1, TakeFacts
  <2>3. winFp' \in 0 .. FpMod - 1 BY <1>s, <2>1, SlideType
  <2>4. taken' \in Nat BY <1>s, <2>1, TakeFacts, Types
  <2>5. TypeOK' BY <1>s, <1>t, <2>1, <2>2, <2>3, <2>4, TakeFacts DEF TypeOK
  <2> QED BY <1>s, <2>1, <2>5, TakeFacts DEF IInv, Shape, ChunkBounds, File
<1>5. ASSUME NEW b \in Byte, CutChunk(b) PROVE IInv'
  <2>1. /\ Take(b) /\ buffer' = << >> /\ winFp' = 0 /\ InsertMQ(Append(buffer, b))
        /\ EndsHere(Len(buffer) + 1, SlideWindow(winFp, buffer, b))
    BY <1>5 DEF CutChunk
  <2>2. /\ Append(buffer, b) \in Seq(Byte)
        /\ Len(Append(buffer, b)) >= MinChunk /\ Len(Append(buffer, b)) \in 0 .. MaxChunk
        /\ Len(Append(buffer, b)) > 0
    <3>1. Append(buffer, b) \in Seq(Byte) /\ Len(Append(buffer, b)) = Len(buffer) + 1
      BY <1>s, <2>1, TakeFacts
    <3>2. Len(buffer) \in Nat /\ Len(buffer) < MaxChunk BY <1>s, Types
    <3>3. Len(buffer) + 1 >= MinChunk BY <2>1 DEF EndsHere
    <3>4. MinChunk \in Nat \ {0} /\ MaxChunk \in Nat \ {0} BY Sizes
    <3>5. Len(buffer) + 1 \in 0 .. MaxChunk /\ Len(buffer) + 1 > 0 BY <3>2, <3>4
    <3> QED BY <3>1, <3>3, <3>5
  <2>3. ChunkBounds' BY <1>s, <2>1, <2>2, TakeFacts, InsertKeepsBounds DEF IInv
  <2>4. chunks' \in Seq(Piece) BY <1>s, <2>1, <2>2, InsertFacts
  <2>5. taken' \in Nat /\ winFp' \in 0 .. FpMod - 1
    BY <1>s, <2>1, TakeFacts, Types, Moduli
  <2>6. buffer' \in Seq(Byte) /\ Len(buffer') < MaxChunk BY <2>1, Sizes
  <2>7. TypeOK' BY <1>s, <1>t, <2>1, <2>4, <2>5, <2>6, TakeFacts DEF TypeOK, Piece
  <2> QED BY <1>s, <2>1, <2>3, <2>7, TakeFacts DEF IInv, Shape, File
<1>6. CASE CutFixed
  <2>1. /\ InsertMQ(Bytes(taken, taken + AvgChunk))
        /\ taken' = taken + AvgChunk /\ head = NoHead /\ head' = head /\ eof' = eof
        /\ input.type = "FixedSize" /\ winFp' = winFp
        /\ input' = input /\ buffer' = buffer /\ block' = block /\ size' = size
        /\ retSize' = retSize
    BY <1>6 DEF CutFixed, More
  <2>2. /\ Bytes(taken, taken + AvgChunk) \in Seq(Byte)
        /\ Len(Bytes(taken, taken + AvgChunk)) \in 0 .. MaxChunk
    BY <1>s, BytesFacts, Sizes
  <2>3. ChunkBounds' BY <2>1, <2>2, InsertKeepsBounds
  <2>4. chunks' \in Seq(Piece) BY <1>s, <2>1, <2>2, InsertFacts
  <2>5. taken' \in Nat BY <1>s, <2>1, Types, Sizes
  <2>6. TypeOK' BY <1>t, <2>1, <2>4, <2>5 DEF TypeOK, Piece
  <2> QED BY <1>s, <2>1, <2>3, <2>6 DEF IInv, Shape, File
<1>7. CASE CutFixedTail
  <2> DEFINE n == Lowest(retSize, AvgChunk)
  <2>1. /\ InsertMQ(Bytes(taken, taken + n))
        /\ taken' = taken + AvgChunk /\ head = NoHead /\ head' = head /\ eof' = eof
        /\ taken < Len(block.bytes) /\ retSize' = Len(block.bytes) - taken
        /\ input.type = "FixedSize" /\ winFp' = winFp
        /\ input' = input /\ buffer' = buffer /\ block' = block /\ size' = size
    BY <1>s, <1>7, Types DEF CutFixedTail, More, BlockDone
  <2>2. n \in Nat /\ n <= AvgChunk BY <1>s, Types, Sizes DEF Lowest
  <2> HIDE DEF n
  <2>3. Bytes(taken, taken + n) \in Seq(Byte) /\ Len(Bytes(taken, taken + n)) = n
    BY <1>s, <2>2, BytesFacts
  <2>4. Len(Bytes(taken, taken + n)) \in 0 .. MaxChunk BY <2>2, <2>3, Sizes
  <2>5. ChunkBounds' BY <2>1, <2>3, <2>4, InsertKeepsBounds
  <2>6. chunks' \in Seq(Piece) BY <1>s, <2>1, <2>3, InsertFacts
  <2>7. taken' \in Nat /\ retSize' \in 0 .. ReadSize
    <3>1. taken \in Nat /\ Len(block.bytes) \in Nat /\ Len(block.bytes) <= ReadSize
      BY <1>s, Types
    <3>2. AvgChunk \in Nat /\ ReadSize \in Nat BY Sizes
    <3> QED BY <2>1, <3>1, <3>2
  <2>8. TypeOK' BY <1>t, <2>1, <2>6, <2>7 DEF TypeOK, Piece
  <2> QED BY <1>s, <2>1, <2>5, <2>8 DEF IInv, Shape, File
<1>8. CASE SkipLine
  <2>1. /\ taken' = taken + 1
        /\ UNCHANGED <<input, block, eof, buffer, winFp, retSize, chunks, size, head>>
    BY <1>8 DEF SkipLine
  <2>2. taken' \in Nat BY <1>s, <2>1, Types
  <2>3. TypeOK' BY <1>t, <2>1, <2>2 DEF TypeOK
  <2> QED BY <1>s, <2>1, <2>3 DEF IInv, Shape, ChunkBounds, File
<1>9. CASE CutLine
  <2> DEFINE n == Line
             d == [i \in 1 .. n |-> 0]
  <2>1. /\ InsertMQ(d) /\ taken' = taken + 1 /\ head = NoHead /\ head' = head
        /\ input.type = "Trace" /\ n <= MaxChunk /\ taken < Len(File)
        /\ input' = input /\ buffer' = buffer /\ block' = block /\ size' = size + n
        /\ retSize' = retSize /\ winFp' = winFp /\ eof' = eof
    BY <1>9 DEF CutLine, AtLine
  <2>2. n \in Nat \ {0}
    <3>1. File \in Seq(Nat \ {0}) /\ taken \in Nat BY <1>s, <2>1, FileType, Types
    <3> QED BY <2>1, <3>1 DEF Line
  <2> HIDE DEF n
  <2>3. d \in Seq(Byte) /\ Len(d) = n BY <2>2, Sizes
  <2> HIDE DEF d
  <2>4. Len(d) \in 1 .. MaxChunk BY <2>1, <2>2, <2>3, Sizes
  <2>5. ChunkBounds' BY <2>1, <2>3, <2>4, InsertKeepsBounds
  <2>6. chunks' \in Seq(Piece) BY <1>s, <2>1, <2>3, InsertFacts
  <2>7. taken' \in Nat /\ size' \in Nat BY <1>s, <2>1, <2>2, Types
  <2>8. TypeOK' BY <1>t, <2>1, <2>6, <2>7 DEF TypeOK, Piece
  <2> QED BY <1>s, <2>1, <2>5, <2>8 DEF IInv, Shape, File
<1>10. CASE Finish
  <2>1. /\ head = NoHead /\ buffer' = << >> /\ winFp' = 0
        /\ input' = input /\ block' = block /\ taken' = taken /\ retSize' = retSize
        /\ IF buffer = << >> THEN chunks' = chunks ELSE InsertMQ(buffer)
        /\ head' = [chunks |-> Len(chunks'), size |-> size]
        /\ size' = size /\ eof' = eof
    BY <1>10 DEF Finish
  <2>2. chunks' \in Seq(Piece) BY <1>s, <2>1, Types, InsertFacts
  <2>3. head' \in [chunks : Nat, size : Nat] /\ head' # NoHead
    <3>1. Len(chunks') \in Nat /\ size \in Nat BY <1>s, <2>2, Types
    <3>2. NoHead \notin [chunks : Nat, size : Int] BY ChunkerAssumption
    <3>3. head' \in [chunks : Nat, size : Int] BY <2>1, <3>1
    <3> QED BY <2>1, <3>1, <3>2, <3>3
  <2>4. ChunkBounds'
    <3>1. CASE buffer = << >> BY <1>s, <2>1, <2>3, <3>1 DEF ChunkBounds
    <3>2. CASE buffer # << >>
      <4>1. Len(buffer) \in 1 .. MaxChunk /\ buffer \in Seq(Byte) BY <1>s, <3>2, Types, Sizes
      <4>2. Len(buffer) \in 0 .. MaxChunk /\ Len(buffer) > 0 BY <4>1, Sizes
      <4> QED BY <2>1, <2>3, <3>2, <4>1, <4>2, InsertKeepsBounds
    <3> QED BY <3>1, <3>2
  <2>5. buffer' \in Seq(Byte) /\ Len(buffer') < MaxChunk /\ winFp' \in 0 .. FpMod - 1
    BY <2>1, Sizes, Moduli
  <2>6. TypeOK' BY <1>t, <2>1, <2>2, <2>3, <2>5 DEF TypeOK, Piece
  <2> QED BY <1>t, <2>1, <2>4, <2>6 DEF IInv, Shape, File
<1>11. CASE UNCHANGED vars
  BY <1>s, <1>11 DEF vars, IInv, Shape, TypeOK, ChunkBounds, File
<1> QED BY <1>1, <1>3, <1>4, <1>5, <1>6, <1>7, <1>8, <1>9, <1>10, <1>11 DEF Next

(* Every variable keeps its type: winFp its 16 bits, an unfinished chunk   *)
(* its buffer, and retSize, whatever its order, the size of a block.       *)
THEOREM TypeCorrect == Spec => []TypeOK
<1>1. IInv => TypeOK BY DEF IInv, Shape
<1> QED BY InitIInv, StepIInv, <1>1, PTL DEF Spec

(* Every chunk given to the fingerprinter has at most maxChunkSize_ bytes, *)
(* and at least one unless it is of fixed size; a content defined one, the *)
(* file's last aside, has at least minChunkSize_, whatever the file        *)
(* (Chunker::varSizeChunking, fixSizeChunking, traceDrivenChunkingFSL).    *)
THEOREM ChunksBounded == Spec => []ChunkBounds
<1>1. IInv => ChunkBounds BY DEF IInv
<1> QED BY InitIInv, StepIInv, <1>1, PTL DEF Spec
-----------------------------------------------------------------------------
(* Quotients.                                                              *)
LEMMA Quotient ==
  ASSUME NEW n \in Nat, NEW d \in Nat \ {0}, NEW q \in Nat
  PROVE  n \div d = q <=> q * d <= n /\ n < q * d + d
OBVIOUS

LEMMA Exact ==
  ASSUME NEW n \in Nat, NEW d \in Nat \ {0}, n % d = 0
  PROVE  n \div d \in Nat /\ n = (n \div d) * d
OBVIOUS

(* And what is a multiple leaves nothing.                                  *)
LEMMA NothingLeft ==
  ASSUME NEW k \in Nat, NEW d \in Nat \ {0}
  PROVE  (k * d) % d = 0
BY SMTT(30)

(* A remainder is its own remainder.                                       *)
LEMMA RemainderOfRemainder ==
  ASSUME NEW x \in Int, NEW d \in Nat \ {0}
  PROVE  (x % d) % d = x % d
<1> DEFINE y == x % d
<1>1. y \in Int /\ 0 <= y /\ y < d OBVIOUS
<1> HIDE DEF y
<1>2. y % d = y BY <1>1
<1> QED BY <1>2 DEF y

LEMMA Rounded ==
  ASSUME NEW n \in Nat, NEW d \in Nat \ {0}
  PROVE  /\ n \div d \in Nat /\ (n \div d) * d \in Nat
         /\ (n \div d) * d <= n /\ n < (n \div d) * d + d
OBVIOUS

LEMMA AtMost ==
  ASSUME NEW n \in Nat, NEW d \in Nat \ {0}, NEW q \in Nat, q * d <= n
  PROVE  q <= n \div d
OBVIOUS

LEMMA NextMultiple ==
  ASSUME NEW a \in Nat, NEW b \in Nat, NEW d \in Nat, a * d < b * d
  PROVE  a * d + d <= b * d
OBVIOUS

LEMMA MultipleOfMultiple ==
  ASSUME NEW n \in Nat, NEW m \in Nat \ {0}, NEW d \in Nat \ {0}, n % m = 0, m % d = 0
  PROVE  \E k \in Nat : n = k * d
<1> DEFINE a == n \div m
           b == m \div d
<1>1. a \in Nat /\ n = a * m BY Exact
<1>2. b \in Nat /\ m = b * d BY Exact
<1> HIDE DEF a, b
<1>3. a * b \in Nat /\ n = (a * b) * d BY <1>1, <1>2
<1> QED BY <1>3

(* What the buffer holds is what is in the file from block.from on, and    *)
(* only the last block is not full.                                        *)
Blocks ==
  input.type # "Trace" =>
    /\ block.from % ReadSize = 0
    /\ \/ eof /\ Len(block.bytes) < ReadSize /\ block.from + Len(block.bytes) = Len(File)
       \/ ~ eof /\ Len(block.bytes) = ReadSize
       \/ ~ eof /\ block.from = 0 /\ block.bytes = << >>
    /\ \A i \in 1 .. Len(block.bytes) : block.bytes[i] = File[block.from + i]
    /\ size = block.from + Len(block.bytes)

(* The chunks and the unfinished one are what has been looked at; the      *)
(* unfinished one is from the file but for what the last read has zeroed.  *)
Pending ==
  input.type = "VariableSize" =>
    /\ taken <= Len(block.bytes)
    /\ NextStart + Len(buffer) = block.from + taken
    /\ \A i \in 1 .. Len(buffer) :
         \/ buffer[i] = File[NextStart + i]
         \/ buffer[i] = 0 /\ NextStart + i <= block.from

(* Chunks of fixed size start at the multiples of it. In a block that is   *)
(* not full, retSize is 0 and then what is left, by a chunk too much.      *)
Grid ==
  input.type = "FixedSize" =>
    /\ Len(chunks) * AvgChunk = block.from + taken
    /\ taken < Len(block.bytes) + AvgChunk
    /\ Len(block.bytes) = ReadSize => taken <= ReadSize
    /\ Len(block.bytes) < ReadSize =>
         retSize = IF taken = 0 THEN 0 ELSE Len(block.bytes) - taken + AvgChunk
    /\ ~ EndsShort => NextStart = Len(chunks) * AvgChunk

Lines == input.type = "Trace" => size = NextStart

(* The three conjuncts of ChunksAreFile.                                   *)
VariableChunk(c) ==
  /\ c.at + Len(c.data) <= Len(File)
  /\ \A i \in DOMAIN c.data : \/ c.data[i] = File[c.at + i]
                              \/ c.data[i] = 0 /\ Zeroed(c, i)

FixedData(from) ==
  IF EndsShort /\ from = ShortBlock THEN << >>
  ELSE [i \in 1 .. AvgChunk |-> IF from + i <= Len(File) THEN File[from + i] ELSE 0]

VariableChunks ==
  input.type = "VariableSize" => \A k \in DOMAIN chunks : VariableChunk(chunks[k])

FixedChunks ==
  input.type = "FixedSize" =>
    \A k \in DOMAIN chunks : chunks[k].data = FixedData((k - 1) * AvgChunk)

HeadFits ==
  head # NoHead =>
    /\ head.chunks = Len(chunks)
    /\ ~ EndsShort => head.size = NextStart
    /\ input.type = "VariableSize" => head.size = Len(File)
    /\ input.type = "FixedSize" => (head.chunks - 1) * AvgChunk < head.size
                                   /\ head.size <= head.chunks * AvgChunk

FileInv ==
  /\ IInv
  /\ Blocks /\ Pending /\ Grid /\ Lines
  /\ VariableChunks /\ FixedChunks /\ HeadFits

LEMMA PartsOfFile == VariableChunks /\ FixedChunks /\ HeadFits => ChunksAreFile
BY DEF VariableChunks, VariableChunk, FixedChunks, FixedData, HeadFits, ChunksAreFile

(* Nothing changes the file.                                               *)
LEMMA InputStays ==
  ASSUME [Next]_vars
  PROVE  /\ input' = input /\ File' = File /\ ShortBlock' = ShortBlock
         /\ EndsShort' <=> EndsShort
<1>1. input' = input
  BY DEF Next, vars, ReadBlock, Fill, Slide, CutChunk, Take, CutFixed, CutFixedTail,
         SkipLine, CutLine, Finish
<1>2. File' = File BY <1>1 DEF File
<1>3. ShortBlock' = ShortBlock BY <1>2 DEF ShortBlock
<1> QED BY <1>1, <1>2, <1>3 DEF EndsShort

LEMMA VariableChunkStays ==
  ASSUME [Next]_vars, NEW c PROVE VariableChunk(c)' <=> VariableChunk(c)
BY InputStays DEF VariableChunk, Zeroed

LEMMA FixedDataStays ==
  ASSUME [Next]_vars, NEW from PROVE FixedData(from)' = FixedData(from)
BY InputStays DEF FixedData

(* It is enough that what is inserted is right.                            *)
LEMMA InsertVariable ==
  ASSUME Shape, [Next]_vars, VariableChunks, NEW data \in Seq(Byte), InsertMQ(data),
         input.type = "VariableSize" => VariableChunk([at |-> NextStart, data |-> data])
  PROVE  VariableChunks'
<1>1. /\ chunks' \in Seq(Piece)
      /\ Len(chunks') = Len(chunks) + 1
      /\ \A k \in 1 .. Len(chunks) : chunks'[k] = chunks[k]
      /\ chunks'[Len(chunks')].data = data
      /\ chunks'[Len(chunks')].at = NextStart
  BY InsertFacts
<1>2. chunks \in Seq(Piece) /\ Len(chunks) \in Nat BY Types
<1>3. SUFFICES ASSUME input.type = "VariableSize", NEW k \in 1 .. Len(chunks')
               PROVE  VariableChunk(chunks'[k])
  BY <1>1, InputStays, VariableChunkStays DEF VariableChunks
<1>4. CASE k \in 1 .. Len(chunks) BY <1>1, <1>2, <1>3, <1>4 DEF VariableChunks
<1>5. CASE k = Len(chunks')
  BY <1>1, <1>3, <1>5 DEF VariableChunk, Zeroed
<1> QED BY <1>1, <1>2, <1>3, <1>4, <1>5

LEMMA InsertFixed ==
  ASSUME Shape, [Next]_vars, FixedChunks, NEW data \in Seq(Byte), InsertMQ(data),
         input.type = "FixedSize" => data = FixedData(Len(chunks) * AvgChunk)
  PROVE  FixedChunks'
<1>1. /\ chunks' \in Seq(Piece)
      /\ Len(chunks') = Len(chunks) + 1
      /\ \A k \in 1 .. Len(chunks) : chunks'[k] = chunks[k]
      /\ chunks'[Len(chunks')].data = data
  BY InsertFacts
<1>2. chunks \in Seq(Piece) /\ Len(chunks) \in Nat BY Types
<1>3. SUFFICES ASSUME input.type = "FixedSize", NEW k \in 1 .. Len(chunks')
               PROVE  chunks'[k].data = FixedData((k - 1) * AvgChunk)
  BY <1>1, InputStays, FixedDataStays DEF FixedChunks
<1>4. CASE k \in 1 .. Len(chunks) BY <1>1, <1>2, <1>3, <1>4 DEF FixedChunks
<1>5. CASE k = Len(chunks')
  <2>1. k - 1 = Len(chunks) BY <1>1, <1>2, <1>5
  <2> QED BY <1>1, <1>3, <1>5, <2>1
<1> QED BY <1>1, <1>2, <1>3, <1>4, <1>5

(* The read of the block has zeroed what it found of a chunk that it cuts. *)
LEMMA ReadZeroes ==
  ASSUME Shape, Blocks, input.type = "VariableSize",
         NEW data \in Seq(Byte), NEW i \in 1 .. Len(data), NextStart \in Nat,
         NextStart + i <= block.from,
         block.from < NextStart + Len(data) \/ block.from = Len(File)
  PROVE  Zeroed([at |-> NextStart, data |-> data], i)
<1> DEFINE c == [at |-> NextStart, data |-> data]
           q == block.from \div ReadSize
<1>1. c.at = NextStart /\ c.data = data /\ Len(data) \in Nat OBVIOUS
<1>2. ReadSize \in Nat \ {0} /\ block.from \in Nat /\ Len(File) \in Nat /\ Len(block.bytes) \in Nat
  BY Types, Sizes, FileType
<1> HIDE DEF c
<1>3. q \in Nat /\ block.from = q * ReadSize
  <2>1. block.from % ReadSize = 0 BY DEF Blocks
  <2> QED BY <1>2, <2>1, Exact
<1>4. block.from <= Len(File) BY <1>2 DEF Shape
<1> HIDE DEF q
<1>5. q # 0
  <2>1. i \in Nat \ {0} OBVIOUS
  <2>2. block.from # 0 BY <1>2, <2>1
  <2> QED BY <1>2, <1>3, <2>2
<1>6. q <= Len(File) \div ReadSize BY <1>2, <1>3, <1>4, AtMost
<1>7. Len(File) \div ReadSize \in Nat BY <1>2, Rounded
<1>8. q \in 1 .. Len(File) \div ReadSize BY <1>3, <1>5, <1>6, <1>7
<1>9. /\ c.at + i <= q * ReadSize
      /\ q * ReadSize < c.at + Len(c.data) \/ q * ReadSize = Len(File)
  BY <1>1, <1>3
<1>10. Zeroed(c, i) BY <1>8, <1>9 DEF Zeroed
<1> QED BY <1>10 DEF c

(* The chunk of variable size that ends where the block has been looked at *)
(* up to: its zeros are those of the block's own read.                     *)
LEMMA PendingChunk ==
  ASSUME Shape, Blocks, Pending, input.type = "VariableSize",
         NEW data \in Seq(Byte), Len(buffer) <= Len(data),
         \A i \in 1 .. Len(buffer) : data[i] = buffer[i],
         \A i \in Len(buffer) + 1 .. Len(data) : data[i] = File[NextStart + i],
         NextStart + Len(data) <= Len(File), NextStart \in Nat,
         block.from < NextStart + Len(data) \/ block.from = Len(File)
  PROVE  VariableChunk([at |-> NextStart, data |-> data])
<1> DEFINE c == [at |-> NextStart, data |-> data]
<1>1. c.at = NextStart /\ c.data = data /\ DOMAIN data = 1 .. Len(data) /\ Len(data) \in Nat
  OBVIOUS
<1>2. ReadSize \in Nat \ {0} /\ block.from \in Nat /\ Len(File) \in Nat
      /\ Len(buffer) \in Nat /\ Len(block.bytes) \in Nat
  BY Types, Sizes, FileType
<1>3. ASSUME NEW i \in 1 .. Len(data)
      PROVE  data[i] = File[NextStart + i] \/ (data[i] = 0 /\ Zeroed(c, i))
  <2>1. CASE i > Len(buffer)
    <3>1. i \in Len(buffer) + 1 .. Len(data) BY <1>1, <1>2, <2>1
    <3> QED BY <3>1
  <2>2. CASE i <= Len(buffer)
    <3>1. i \in 1 .. Len(buffer) BY <1>1, <1>2, <2>2
    <3>2. data[i] = buffer[i] BY <3>1
    <3>3. \/ buffer[i] = File[NextStart + i]
          \/ buffer[i] = 0 /\ NextStart + i <= block.from
      BY <3>1 DEF Pending
    <3>4. CASE NextStart + i <= block.from
      <4>1. Zeroed(c, i) BY <3>4, ReadZeroes
      <4>2. data[i] = File[NextStart + i] \/ data[i] = 0 BY <3>2, <3>3
      <4> QED BY <4>1, <4>2
    <3> QED BY <3>2, <3>3, <3>4
  <2> QED BY <1>1, <1>2, <2>1, <2>2
<1> HIDE DEF c
<1>4. VariableChunk(c) BY <1>1, <1>3 DEF VariableChunk
<1> QED BY <1>4 DEF c
LEMMA InitFileInv == Init => FileInv
<1> SUFFICES ASSUME Init PROVE FileInv OBVIOUS
<1>1. /\ size = 0 /\ chunks = << >> /\ buffer = << >> /\ taken = 0 /\ retSize = 0
      /\ eof = FALSE /\ head = NoHead /\ block.from = 0 /\ block.bytes = << >>
  BY DEF Init
<1>2. IInv BY InitIInv
<1>3. NextStart = 0 BY <1>1 DEF NextStart
<1>4. Blocks BY <1>1, Sizes DEF Blocks
<1>5. Pending BY <1>1, <1>3 DEF Pending
<1>6. Grid BY <1>1, <1>3, Sizes DEF Grid
<1> QED BY <1>1, <1>2, <1>3, <1>4, <1>5, <1>6
        DEF FileInv, Lines, VariableChunks, FixedChunks, HeadFits

LEMMA ReadBlockFileInv ==
  ASSUME FileInv, IInv', [Next]_vars, ReadBlock PROVE FileInv'
<1>s. Shape /\ Shape' /\ Blocks /\ Pending /\ Grid BY DEF FileInv, IInv
<1> DEFINE from == block.from + Len(block.bytes)
           to == Lowest(from + ReadSize, Len(File))
<1>0. /\ input' = input /\ chunks' = chunks /\ head' = head /\ taken' = 0 /\ retSize' = 0
      /\ input.type # "Trace" /\ head = NoHead /\ BlockDone /\ ~ eof
      /\ buffer' = [i \in 1 .. Len(buffer) |-> 0]
      /\ block'.from = from /\ block'.bytes = SubSeq(File, from + 1, to)
      /\ eof' = (to - from < ReadSize)
      /\ size' = size + (to - from)
  BY DEF ReadBlock
<1>1. /\ File \in Seq(Byte) /\ Len(File) \in Nat /\ ReadSize \in Nat \ {0}
      /\ block.from \in Nat /\ Len(block.bytes) \in Nat /\ taken \in Nat
      /\ Len(buffer) \in Nat /\ size \in Nat
  BY <1>s, <1>0, FileType, Types, Sizes
<1>2. /\ from \in Nat /\ to \in Nat /\ to <= Len(File) /\ from <= to /\ to - from <= ReadSize
      /\ to - from < ReadSize => to = Len(File)
  <2>1. from <= Len(File) BY <1>s, <1>0 DEF Shape
  <2>2. from \in Nat BY <1>1
  <2> HIDE DEF from
  <2> QED BY <1>1, <2>1, <2>2 DEF Lowest
<1>3. from % ReadSize = 0
  <2>1. block.from % ReadSize = 0 BY <1>s, <1>0 DEF Blocks
  <2>2. CASE Len(block.bytes) = ReadSize
    <3>1. block.from = (block.from \div ReadSize) * ReadSize /\ block.from \div ReadSize \in Nat
      BY <1>1, <2>1, Exact
    <3> DEFINE q == block.from \div ReadSize
    <3>2. q \in Nat /\ block.from = q * ReadSize BY <3>1
    <3> HIDE DEF q
    <3>3. from = (q + 1) * ReadSize BY <1>1, <2>2, <3>2
    <3>4. q + 1 \in Nat BY <3>2
    <3> HIDE DEF from
    <3>5. ((q + 1) * ReadSize) % ReadSize = 0 BY <1>1, <3>4, NothingLeft
    <3> QED BY <3>3, <3>5
  <2>3. CASE block.from = 0 /\ block.bytes = << >> BY <1>1, <2>3
  <2> QED BY <1>s, <1>0, <2>2, <2>3 DEF Blocks
<1> HIDE DEF from, to
<1>4. Len(block'.bytes) = to - from /\ \A i \in 1 .. to - from : block'.bytes[i] = File[from + i]
  BY <1>0, <1>1, <1>2, SubSeqFacts
<1>5. NextStart' = NextStart /\ File' = File BY <1>0, InputStays DEF NextStart
<1>6. Blocks'
  <2>1. size = from BY <1>s, <1>0 DEF Blocks, from
  <2>2. \/ eof' /\ to - from < ReadSize /\ from + (to - from) = Len(File)
        \/ ~ eof' /\ to - from = ReadSize
    <3>1. CASE to - from < ReadSize
      <4>1. eof' BY <1>0, <3>1
      <4>2. from + (to - from) = Len(File) BY <1>2, <3>1
      <4> QED BY <3>1, <4>1, <4>2
    <3>2. CASE ~ (to - from < ReadSize)
      <4>1. ~ eof' BY <1>0, <3>2
      <4>2. to - from = ReadSize BY <1>1, <1>2, <3>2
      <4> QED BY <4>1, <4>2
    <3> QED BY <3>1, <3>2
  <2> QED BY <1>0, <1>2, <1>3, <1>4, <1>5, <2>1, <2>2 DEF Blocks
<1>7. taken >= Len(block.bytes) BY <1>0 DEF BlockDone
<1>8. Pending'
  <2> SUFFICES ASSUME input.type = "VariableSize" PROVE Pending' BY <1>0 DEF Pending
  <2>1. Len(buffer') = Len(buffer) /\ \A i \in 1 .. Len(buffer) : buffer'[i] = 0 BY <1>0, <1>1
  <2>2. taken <= Len(block.bytes) /\ NextStart + Len(buffer) = block.from + taken
    BY <1>s DEF Pending
  <2>3. NextStart + Len(buffer) = from BY <1>1, <1>7, <2>2 DEF from
  <2>4. NextStart \in Nat BY <1>s, NextStartType
  <2>5. \A i \in 1 .. Len(buffer) : NextStart + i <= from BY <1>1, <2>3, <2>4
  <2>6. Len(block'.bytes) >= 0 BY <1>2, <1>4
  <2> QED BY <1>0, <1>2, <1>5, <2>1, <2>3, <2>5, <2>6 DEF Pending
<1>9. Grid'
  <2> SUFFICES ASSUME input.type = "FixedSize" PROVE Grid' BY <1>0 DEF Grid
  <2>1. taken = Len(block.bytes)
    <3>1. CASE Len(block.bytes) = ReadSize BY <1>s, <1>1, <1>7, <3>1 DEF Grid
    <3>2. CASE block.from = 0 /\ block.bytes = << >>
      <4>1. Len(chunks) * AvgChunk = taken /\ taken < AvgChunk BY <1>s, <1>1, <3>2, Sizes DEF Grid
      <4>2. Len(chunks) \in Nat /\ AvgChunk \in Nat \ {0} BY <1>s, Types, Sizes
      <4>3. 0 * AvgChunk = 0 /\ 0 * AvgChunk + AvgChunk = AvgChunk BY <4>2
      <4>4. ~ (0 * AvgChunk < Len(chunks) * AvgChunk)
        <5> SUFFICES ASSUME 0 * AvgChunk < Len(chunks) * AvgChunk PROVE FALSE OBVIOUS
        <5>1. 0 * AvgChunk + AvgChunk <= Len(chunks) * AvgChunk BY <4>2, NextMultiple
        <5> QED BY <1>1, <4>1, <4>2, <4>3, <5>1
      <4>5. taken = 0 BY <1>1, <4>1, <4>3, <4>4
      <4> QED BY <3>2, <4>5
    <3> QED BY <1>s, <1>0, <3>1, <3>2 DEF Blocks
  <2>2. Len(chunks) * AvgChunk = from BY <1>s, <2>1 DEF Grid, from
  <2>3. ~ EndsShort => NextStart = Len(chunks) * AvgChunk BY <1>s DEF Grid
  <2> QED BY <1>0, <1>1, <1>2, <1>4, <1>5, <2>2, <2>3, InputStays, Sizes DEF Grid
<1>10. Lines' BY <1>0 DEF Lines
<1>11. VariableChunks' BY <1>0, VariableChunkStays DEF FileInv, VariableChunks
<1>12. FixedChunks' BY <1>0, FixedDataStays DEF FileInv, FixedChunks
<1>13. HeadFits' BY <1>0 DEF HeadFits
<1> QED BY <1>6, <1>8, <1>9, <1>10, <1>11, <1>12, <1>13 DEF FileInv

(* A byte of variable size chunking that does not end a chunk.             *)
LEMMA AppendFileInv ==
  ASSUME FileInv, IInv', [Next]_vars, NEW b \in Byte, Take(b),
         buffer' = Append(buffer, b), chunks' = chunks
  PROVE  FileInv'
<1>s. Shape /\ Blocks /\ Pending BY DEF FileInv, IInv
<1>0. /\ input' = input /\ head' = head /\ head = NoHead /\ block' = block /\ eof' = eof
      /\ size' = size /\ retSize' = retSize
      /\ taken' = taken + 1 /\ taken < Len(block.bytes) /\ b = block.bytes[taken + 1]
      /\ input.type = "VariableSize"
      /\ Len(Append(buffer, b)) = Len(buffer) + 1
  BY <1>s, TakeFacts
<1>1. /\ buffer \in Seq(Byte) /\ Len(buffer) \in Nat /\ taken \in Nat
      /\ Len(block.bytes) \in Nat /\ block.from \in Nat
  BY <1>s, Types
<1>2. NextStart' = NextStart /\ File' = File BY InputStays DEF NextStart
<1>3. Blocks' BY <1>s, <1>0, <1>2 DEF Blocks
<1>4. Pending'
  <2>1. taken <= Len(block.bytes) /\ NextStart + Len(buffer) = block.from + taken
    BY <1>s, <1>0 DEF Pending
  <2>2. NextStart \in Int BY <1>s, NextStartType
  <2>3. NextStart + Len(buffer') = block.from + taken' /\ taken' <= Len(block.bytes)
    <3>1. Len(buffer') = Len(buffer) + 1 BY <1>0
    <3>2. taken' = taken + 1 /\ taken < Len(block.bytes) BY <1>0
    <3>3. taken + 1 <= Len(block.bytes) BY <1>1, <3>2
    <3>4. NextStart + (Len(buffer) + 1) = block.from + (taken + 1)
      <4> DEFINE x == NextStart y == Len(buffer) z == block.from
      <4>1. /\ x \in Int /\ y \in Nat /\ z \in Nat /\ taken \in Nat /\ x + y = z + taken
        BY <1>1, <2>1, <2>2
      <4> HIDE DEF x, y, z
      <4>2. x + (y + 1) = z + (taken + 1)
        BY <4>1
      <4> QED BY <4>2 DEF x, y, z
    <3> QED BY <3>1, <3>2, <3>3, <3>4
  <2>4. b = File[NextStart + Len(buffer')]
    <3>1. taken + 1 \in 1 .. Len(block.bytes) BY <1>0, <1>1
    <3>2. b = File[block.from + (taken + 1)] BY <1>s, <1>0, <3>1 DEF Blocks
    <3> QED BY <1>0, <1>1, <2>3, <3>2
  <2>5. ASSUME NEW i \in 1 .. Len(buffer')
        PROVE  buffer'[i] = File[NextStart + i] \/ (buffer'[i] = 0 /\ NextStart + i <= block.from)
    <3>1. CASE i = Len(buffer') BY <1>0, <1>1, <2>4, <3>1
    <3>2. CASE i \in 1 .. Len(buffer) BY <1>s, <1>0, <1>1, <3>2 DEF Pending
    <3> QED BY <1>0, <1>1, <3>1, <3>2
  <2> QED BY <1>0, <1>2, <2>3, <2>5 DEF Pending
<1>5. Grid' /\ Lines' BY <1>0 DEF Grid, Lines
<1>6. VariableChunks' BY <1>0, VariableChunkStays DEF FileInv, VariableChunks
<1>7. FixedChunks' /\ HeadFits' BY <1>0 DEF FixedChunks, HeadFits
<1> QED BY <1>3, <1>4, <1>5, <1>6, <1>7 DEF FileInv

LEMMA CutChunkFileInv ==
  ASSUME FileInv, IInv', [Next]_vars, NEW b \in Byte, CutChunk(b) PROVE FileInv'
<1>s. Shape /\ Blocks /\ Pending BY DEF FileInv, IInv
<1>t. Take(b) /\ InsertMQ(Append(buffer, b)) /\ buffer' = << >> BY DEF CutChunk
<1>0. /\ input' = input /\ head' = head /\ head = NoHead /\ block' = block /\ eof' = eof
      /\ size' = size /\ retSize' = retSize
      /\ taken' = taken + 1 /\ taken < Len(block.bytes) /\ b = block.bytes[taken + 1]
      /\ input.type = "VariableSize"
      /\ Append(buffer, b) \in Seq(Byte) /\ Len(Append(buffer, b)) = Len(buffer) + 1
  BY <1>s, <1>t, TakeFacts
<1>1. /\ buffer \in Seq(Byte) /\ Len(buffer) \in Nat /\ taken \in Nat
      /\ Len(block.bytes) \in Nat /\ block.from \in Nat /\ Len(File) \in Nat
      /\ NextStart \in Nat
  BY <1>s, Types, FileType, NextStartType
<1>2. NextStart' = NextStart + (Len(buffer) + 1) /\ File' = File
  BY <1>s, <1>t, <1>0, InsertFacts, InputStays
<1>3. Blocks' BY <1>s, <1>0, <1>2 DEF Blocks
<1>4. NextStart + Len(buffer) = block.from + taken BY <1>s, <1>0 DEF Pending
<1>5. Pending'
  <2>1. Len(buffer') = 0 BY <1>t
  <2>2. NextStart' = block.from + taken'
    <3>1. NextStart' = NextStart + (Len(buffer) + 1) /\ taken' = taken + 1 BY <1>0, <1>2
    <3> QED BY <1>1, <1>4, <3>1
  <2>3. taken' <= Len(block.bytes) BY <1>0, <1>1
  <2>4. NextStart' + 0 = NextStart' BY <1>1, <1>2
  <2> QED BY <1>0, <2>1, <2>2, <2>3, <2>4 DEF Pending
<1>6. Grid' /\ Lines' BY <1>0 DEF Grid, Lines
<1>7. VariableChunks'
  <2> DEFINE d == Append(buffer, b)
  <2>1. /\ d \in Seq(Byte) /\ Len(d) = Len(buffer) + 1 /\ d[Len(buffer) + 1] = b
        /\ \A i \in 1 .. Len(buffer) : d[i] = buffer[i]
    BY <1>0, <1>1
  <2>t. InsertMQ(d) BY <1>t
  <2> HIDE DEF d
  <2>2. b = File[NextStart + (Len(buffer) + 1)]
    <3>1. taken + 1 \in 1 .. Len(block.bytes) BY <1>0, <1>1
    <3>2. b = File[block.from + (taken + 1)] BY <1>s, <1>0, <3>1 DEF Blocks
    <3>3. block.from + (taken + 1) = NextStart + (Len(buffer) + 1) BY <1>1, <1>4
    <3> QED BY <3>2, <3>3
  <2>3. \A i \in Len(buffer) + 1 .. Len(d) : d[i] = File[NextStart + i] BY <1>1, <2>1, <2>2
  <2>4. NextStart + Len(d) <= Len(File) /\ block.from < NextStart + Len(d)
    <3>1. block.from + Len(block.bytes) <= Len(File) BY <1>s, <1>0 DEF Shape
    <3> QED BY <1>0, <1>1, <1>4, <2>1, <3>1
  <2>5. Len(buffer) <= Len(d) BY <1>1, <2>1
  <2>6. VariableChunk([at |-> NextStart, data |-> d])
    BY <1>s, <1>0, <1>1, <2>1, <2>3, <2>4, <2>5, PendingChunk
  <2>7. VariableChunks BY DEF FileInv
  <2> QED BY <1>s, <2>t, <2>1, <2>6, <2>7, InsertVariable
<1>8. FixedChunks' /\ HeadFits' BY <1>0 DEF FixedChunks, HeadFits
<1> QED BY <1>3, <1>5, <1>6, <1>7, <1>8 DEF FileInv

(* What AvgChunk divides.                                                  *)
LEMMA BlockOnGrid ==
  ASSUME Shape, Blocks, input.type = "FixedSize"
  PROVE  /\ \E q \in Nat : block.from = q * AvgChunk
         /\ \E q \in Nat : ReadSize = q * AvgChunk
         /\ \E q \in Nat : block.from = q * ReadSize
<1>1. /\ block.from \in Nat /\ ReadSize \in Nat \ {0} /\ AvgChunk \in Nat \ {0}
  BY Types, Sizes
<1>2. block.from % ReadSize = 0 BY DEF Blocks
<1>3. ReadSize % AvgChunk = 0 BY ChunkerAssumption
<1>4. \E q \in Nat : block.from = q * AvgChunk BY <1>1, <1>2, <1>3, MultipleOfMultiple
<1>5. ReadSize \div AvgChunk \in Nat /\ ReadSize = (ReadSize \div AvgChunk) * AvgChunk
  BY <1>1, <1>3, Exact
<1>6. block.from \div ReadSize \in Nat /\ block.from = (block.from \div ReadSize) * ReadSize
  BY <1>1, <1>2, Exact
<1> QED BY <1>4, <1>5, <1>6

(* A sequence with the values of a function is that function.              *)
LEMMA AsFunction ==
  ASSUME NEW S, NEW s \in Seq(S), NEW n \in Nat, Len(s) = n,
         NEW f, f = [i \in 1 .. n |-> f[i]], \A i \in 1 .. n : s[i] = f[i]
  PROVE  s = f
<1>1. s = [i \in 1 .. n |-> s[i]] OBVIOUS
<1> QED BY <1>1

LEMMA CutFixedFileInv ==
  ASSUME FileInv, IInv', [Next]_vars, CutFixed PROVE FileInv'
<1>s. Shape /\ Blocks /\ Grid BY DEF FileInv, IInv
<1>0. /\ InsertMQ(Bytes(taken, taken + AvgChunk)) /\ head = NoHead /\ ~ BlockDone
      /\ taken' = taken + AvgChunk /\ head' = head /\ eof' = eof
      /\ input.type = "FixedSize" /\ winFp' = winFp
      /\ input' = input /\ buffer' = buffer /\ block' = block /\ size' = size
      /\ retSize' = retSize
      /\ Len(block.bytes) = ReadSize
  BY DEF CutFixed, More
<1>1. /\ taken \in Nat /\ Len(block.bytes) \in Nat /\ block.from \in Nat /\ Len(File) \in Nat
      /\ AvgChunk \in Nat \ {0} /\ ReadSize \in Nat \ {0} /\ Len(chunks) \in Nat
      /\ NextStart \in Nat
  BY <1>s, Types, Sizes, FileType, NextStartType
<1>2. taken < ReadSize BY <1>0, <1>1 DEF BlockDone
<1>3. Len(chunks) * AvgChunk = block.from + taken BY <1>s, <1>0 DEF Grid
<1>4. taken + AvgChunk <= ReadSize
  <2>1. PICK f \in Nat : block.from = f * AvgChunk BY <1>s, <1>0, BlockOnGrid
  <2>2. PICK r \in Nat : ReadSize = r * AvgChunk BY <1>s, <1>0, BlockOnGrid
  <2>3. (f + r) * AvgChunk = block.from + ReadSize /\ f + r \in Nat BY <1>1, <2>1, <2>2
  <2>4. Len(chunks) * AvgChunk < (f + r) * AvgChunk BY <1>1, <1>2, <1>3, <2>3
  <2>5. Len(chunks) * AvgChunk + AvgChunk <= (f + r) * AvgChunk
    BY <1>1, <2>3, <2>4, NextMultiple
  <2> QED BY <1>1, <1>3, <2>3, <2>5
<1>5. block.from + ReadSize <= Len(File) BY <1>s, <1>0 DEF Shape
<1>6. block.from + taken < ShortBlock
  <2>1. PICK q \in Nat : block.from = q * ReadSize BY <1>s, <1>0, BlockOnGrid
  <2> DEFINE w == Len(File) \div ReadSize
  <2>2. w \in Nat /\ w * ReadSize \in Nat /\ Len(File) < w * ReadSize + ReadSize
    BY <1>1, Rounded
  <2>3. ShortBlock = w * ReadSize BY DEF ShortBlock
  <2> HIDE DEF w
  <2>4. q * ReadSize < w * ReadSize BY <1>1, <1>5, <2>1, <2>2
  <2>5. q * ReadSize + ReadSize <= w * ReadSize BY <1>1, <2>2, <2>4, NextMultiple
  <2> QED BY <1>1, <1>2, <2>1, <2>2, <2>3, <2>5
<1> DEFINE d == Bytes(taken, taken + AvgChunk)
<1>7. /\ d \in Seq(Byte) /\ Len(d) = AvgChunk
      /\ \A i \in 1 .. AvgChunk :
           d[i] = IF taken + i <= Len(block.bytes) THEN block.bytes[taken + i] ELSE 0
  BY <1>s, <1>1, BytesFacts
<1>8. InsertMQ(d) BY <1>0
<1> HIDE DEF d
<1>9. d = FixedData(Len(chunks) * AvgChunk)
  <2> DEFINE f == [i \in 1 .. AvgChunk |->
                     IF (block.from + taken) + i <= Len(File)
                     THEN File[(block.from + taken) + i] ELSE 0]
  <2>1. FixedData(block.from + taken) = f
    <3>1. block.from + taken # ShortBlock
      <4>1. block.from + taken \in Nat BY <1>1
      <4>2. ShortBlock \in Nat
        <5>1. (Len(File) \div ReadSize) * ReadSize \in Nat BY <1>1, Rounded
        <5> QED BY <5>1 DEF ShortBlock
      <4> QED BY <1>6, <4>1, <4>2
    <3> QED BY <3>1 DEF FixedData
  <2>2. ASSUME NEW i \in 1 .. AvgChunk PROVE d[i] = f[i]
    <3>1. taken + i \in 1 .. Len(block.bytes) BY <1>0, <1>1, <1>4
    <3>2. block.bytes[taken + i] = File[block.from + (taken + i)]
      BY <1>s, <1>0, <3>1 DEF Blocks
    <3>3. /\ block.from + (taken + i) = (block.from + taken) + i
          /\ (block.from + taken) + i <= Len(File)
      BY <1>0, <1>1, <1>5, <3>1
    <3>4. d[i] = block.bytes[taken + i] BY <1>7, <3>1
    <3>5. f[i] = File[(block.from + taken) + i] BY <3>3
    <3> QED BY <3>2, <3>3, <3>4, <3>5
  <2>3. f = [i \in 1 .. AvgChunk |-> f[i]] OBVIOUS
  <2> HIDE DEF f
  <2>4. d = f BY <1>1, <1>7, <2>2, <2>3, AsFunction
  <2> QED BY <1>3, <2>1, <2>4
<1>10. NextStart' = NextStart + AvgChunk /\ Len(chunks') = Len(chunks) + 1
  BY <1>s, <1>7, <1>8, InsertFacts
<1>11. Blocks' BY <1>s, <1>0, InputStays DEF Blocks
<1>12. Pending' /\ Lines' BY <1>0 DEF Pending, Lines
<1>13. Grid'
  <2>1. Len(chunks') * AvgChunk = block.from + taken'
    <3>1. (Len(chunks) + 1) * AvgChunk = Len(chunks) * AvgChunk + AvgChunk BY <1>1
    <3>2. taken' = taken + AvgChunk BY <1>0
    <3>3. Len(chunks') * AvgChunk = (block.from + taken) + AvgChunk BY <1>3, <1>10, <3>1
    <3> QED BY <1>1, <3>2, <3>3
  <2>2. taken' < Len(block.bytes) + AvgChunk /\ taken' <= ReadSize
    BY <1>0, <1>1, <1>2, <1>4
  <2>3. ~ EndsShort => NextStart' = Len(chunks') * AvgChunk
    <3>1. (Len(chunks) + 1) * AvgChunk = Len(chunks) * AvgChunk + AvgChunk BY <1>1
    <3> QED BY <1>s, <1>0, <1>10, <3>1 DEF Grid
  <2>4. ~ (Len(block.bytes) < ReadSize) BY <1>0, <1>1
  <2> QED BY <1>0, <2>1, <2>2, <2>3, <2>4, InputStays DEF Grid
<1>14. VariableChunks' /\ HeadFits' BY <1>0 DEF VariableChunks, HeadFits
<1>15. FixedChunks'
  <2>1. FixedChunks BY DEF FileInv
  <2> QED BY <1>s, <1>7, <1>8, <1>9, <2>1, InsertFixed
<1> QED BY <1>11, <1>12, <1>13, <1>14, <1>15 DEF FileInv

LEMMA CutFixedTailFileInv ==
  ASSUME FileInv, IInv', [Next]_vars, CutFixedTail PROVE FileInv'
<1>s. Shape /\ Blocks /\ Grid BY DEF FileInv, IInv
<1> DEFINE n == Lowest(retSize, AvgChunk)
           d == Bytes(taken, taken + n)
<1>0. /\ InsertMQ(d) /\ head = NoHead /\ ~ BlockDone
      /\ taken' = taken + AvgChunk /\ head' = head /\ eof' = eof
      /\ retSize' = Len(block.bytes) - taken
      /\ input.type = "FixedSize" /\ winFp' = winFp
      /\ input' = input /\ buffer' = buffer /\ block' = block /\ size' = size
      /\ Len(block.bytes) < ReadSize
  BY DEF CutFixedTail, More
<1>1. /\ taken \in Nat /\ Len(block.bytes) \in Nat /\ block.from \in Nat /\ Len(File) \in Nat
      /\ AvgChunk \in Nat \ {0} /\ ReadSize \in Nat \ {0} /\ Len(chunks) \in Nat
      /\ NextStart \in Nat /\ retSize \in Nat
  BY <1>s, Types, Sizes, FileType, NextStartType
<1>2. taken < Len(block.bytes) BY <1>0, <1>1 DEF BlockDone
<1>3. Len(chunks) * AvgChunk = block.from + taken BY <1>s, <1>0 DEF Grid
<1>4. block.from + Len(block.bytes) = Len(File)
  <2>1. Len(block.bytes) # 0 BY <1>1, <1>2
  <2> QED BY <1>s, <1>0, <1>1, <2>1 DEF Blocks
<1>5. ShortBlock = block.from /\ EndsShort
  <2>1. PICK q \in Nat : block.from = q * ReadSize BY <1>s, <1>0, BlockOnGrid
  <2>a. block.from <= Len(File) /\ Len(File) < block.from + ReadSize BY <1>0, <1>1, <1>4
  <2>2. q * ReadSize <= Len(File) /\ Len(File) < q * ReadSize + ReadSize BY <2>1, <2>a
  <2>3. Len(File) \div ReadSize = q BY <1>1, <2>2, Quotient
  <2>4. ShortBlock = block.from BY <2>1, <2>3 DEF ShortBlock
  <2>5. block.from < Len(File) BY <1>1, <1>2, <1>4
  <2> QED BY <1>0, <2>4, <2>5 DEF EndsShort
<1>6. retSize = IF taken = 0 THEN 0 ELSE Len(block.bytes) - taken + AvgChunk
  BY <1>s, <1>0 DEF Grid
<1>7. n = IF taken = 0 THEN 0 ELSE AvgChunk BY <1>1, <1>2, <1>6 DEF Lowest
<1> HIDE DEF n
<1>8. /\ d \in Seq(Byte) /\ Len(d) = n
      /\ \A i \in 1 .. n :
           d[i] = IF taken + i <= Len(block.bytes) THEN block.bytes[taken + i] ELSE 0
  <2>1. n \in Nat BY <1>1, <1>7
  <2> QED BY <1>s, <2>1, BytesFacts
<1> HIDE DEF d
<1>9. d = FixedData(Len(chunks) * AvgChunk)
  <2> DEFINE f == [i \in 1 .. AvgChunk |->
                     IF (block.from + taken) + i <= Len(File)
                     THEN File[(block.from + taken) + i] ELSE 0]
  <2>1. CASE taken = 0
    <3>1. FixedData(block.from + taken) = << >>
      <4>1. block.from + taken = block.from BY <1>1, <2>1
      <4> QED BY <1>5, <4>1 DEF FixedData
    <3>2. d = << >> BY <1>7, <1>8, <2>1
    <3> QED BY <1>3, <3>1, <3>2
  <2>2. CASE taken # 0
    <3>1. FixedData(block.from + taken) = f
      <4>1. block.from + taken # ShortBlock BY <1>1, <1>5, <2>2
      <4> QED BY <4>1 DEF FixedData
    <3>2. n = AvgChunk BY <1>7, <2>2
    <3>3. ASSUME NEW i \in 1 .. AvgChunk PROVE d[i] = f[i]
      <4>1. block.from + (taken + i) = (block.from + taken) + i BY <1>1
      <4>2. CASE taken + i <= Len(block.bytes)
        <5>1. taken + i \in 1 .. Len(block.bytes) BY <1>1, <4>2
        <5>2. block.bytes[taken + i] = File[block.from + (taken + i)]
          BY <1>s, <1>0, <5>1 DEF Blocks
        <5>3. (block.from + taken) + i <= Len(File) BY <1>1, <1>4, <4>2
        <5>4. d[i] = block.bytes[taken + i] BY <1>8, <3>2, <4>2
        <5>5. f[i] = File[(block.from + taken) + i] BY <5>3
        <5> QED BY <4>1, <5>2, <5>4, <5>5
      <4>3. CASE ~ (taken + i <= Len(block.bytes))
        <5>1. ~ ((block.from + taken) + i <= Len(File)) BY <1>1, <1>4, <4>3
        <5>2. d[i] = 0 BY <1>8, <3>2, <4>3
        <5>3. f[i] = 0 BY <5>1
        <5> QED BY <5>2, <5>3
      <4> QED BY <4>2, <4>3
    <3>4. f = [i \in 1 .. AvgChunk |-> f[i]] OBVIOUS
    <3> HIDE DEF f
    <3>5. Len(d) = AvgChunk BY <1>8, <3>2
    <3>6. d = f BY <1>1, <1>8, <3>3, <3>4, <3>5, AsFunction
    <3> QED BY <1>3, <3>1, <3>6
  <2> QED BY <2>1, <2>2
<1>10. Len(chunks') = Len(chunks) + 1 BY <1>s, <1>0, <1>8, InsertFacts
<1>11. Blocks' BY <1>s, <1>0, InputStays DEF Blocks
<1>12. Pending' /\ Lines' BY <1>0 DEF Pending, Lines
<1>13. Grid'
  <2>1. Len(chunks') * AvgChunk = block.from + taken'
    <3>1. (Len(chunks) + 1) * AvgChunk = Len(chunks) * AvgChunk + AvgChunk BY <1>1
    <3>2. taken' = taken + AvgChunk BY <1>0
    <3>3. Len(chunks') * AvgChunk = (block.from + taken) + AvgChunk BY <1>3, <1>10, <3>1
    <3> QED BY <1>1, <3>2, <3>3
  <2>2. taken' < Len(block.bytes) + AvgChunk /\ ~ (Len(block.bytes) = ReadSize)
    BY <1>0, <1>1, <1>2
  <2>3. retSize' = IF taken' = 0 THEN 0 ELSE Len(block.bytes) - taken' + AvgChunk
    BY <1>0, <1>1
  <2> QED BY <1>0, <1>5, <2>1, <2>2, <2>3, InputStays DEF Grid
<1>14. VariableChunks' /\ HeadFits' BY <1>0 DEF VariableChunks, HeadFits
<1>15. FixedChunks'
  <2>1. FixedChunks BY DEF FileInv
  <2> QED BY <1>s, <1>0, <1>8, <1>9, <2>1, InsertFixed
<1> QED BY <1>11, <1>12, <1>13, <1>14, <1>15 DEF FileInv

LEMMA CutLineFileInv ==
  ASSUME FileInv, IInv', [Next]_vars, CutLine PROVE FileInv'
<1>s. Shape /\ Lines BY DEF FileInv, IInv
<1> DEFINE n == Line
           d == [i \in 1 .. n |-> 0]
<1>1. /\ InsertMQ(d) /\ head = NoHead /\ head' = head
      /\ input.type = "Trace" /\ taken < Len(File)
      /\ input' = input /\ size' = size + n
  BY DEF CutLine, AtLine
<1>2. n \in Nat
  <2>1. File \in Seq(Nat \ {0}) /\ taken \in Nat BY <1>s, <1>1, FileType, Types
  <2> QED BY <1>1, <2>1 DEF Line
<1> HIDE DEF n
<1>3. d \in Seq(Byte) /\ Len(d) = n BY <1>2, Sizes
<1> HIDE DEF d
<1>4. NextStart' = NextStart + n BY <1>s, <1>1, <1>3, InsertFacts
<1>5. Lines' BY <1>s, <1>1, <1>4 DEF Lines
<1> QED BY <1>1, <1>5
        DEF FileInv, Blocks, Pending, Grid, VariableChunks, FixedChunks, HeadFits

LEMMA FinishFileInv ==
  ASSUME FileInv, IInv', [Next]_vars, Finish PROVE FileInv'
<1>s. Shape /\ Blocks /\ Pending /\ Grid /\ Lines BY DEF FileInv, IInv
<1>0. /\ head = NoHead /\ AllRead /\ buffer' = << >> /\ winFp' = 0
      /\ input' = input /\ block' = block /\ taken' = taken /\ retSize' = retSize
      /\ IF buffer = << >> THEN chunks' = chunks ELSE InsertMQ(buffer)
      /\ head' = [chunks |-> Len(chunks'), size |-> size]
      /\ size' = size /\ eof' = eof
  BY DEF Finish
<1>1. /\ taken \in Nat /\ Len(block.bytes) \in Nat /\ block.from \in Nat /\ Len(File) \in Nat
      /\ AvgChunk \in Nat \ {0} /\ ReadSize \in Nat \ {0} /\ Len(chunks) \in Nat
      /\ NextStart \in Nat /\ buffer \in Seq(Byte) /\ Len(buffer) \in Nat
  BY <1>s, Types, Sizes, FileType, NextStartType
<1>2. NextStart' = NextStart + Len(buffer)
  <2>1. CASE buffer = << >>
    <3>1. NextStart' = NextStart BY <1>0, <2>1 DEF NextStart
    <3>2. Len(buffer) = 0 BY <2>1
    <3> QED BY <1>1, <3>1, <3>2
  <2>2. CASE buffer # << >> BY <1>s, <1>0, <1>1, <2>2, InsertFacts
  <2> QED BY <2>1, <2>2
<1>3. input.type # "VariableSize" => chunks' = chunks /\ NextStart' = NextStart
  BY <1>s, <1>0 DEF Shape, NextStart
<1>4. input.type # "Trace" =>
        eof /\ block.from + Len(block.bytes) = Len(File) /\ taken >= Len(block.bytes)
  <2> SUFFICES ASSUME input.type # "Trace"
               PROVE  eof /\ block.from + Len(block.bytes) = Len(File) /\ taken >= Len(block.bytes)
    OBVIOUS
  <2>1. eof /\ BlockDone BY <1>0 DEF AllRead
  <2> QED BY <1>s, <2>1 DEF Blocks, BlockDone
<1>5. Blocks' BY <1>s, <1>0, InputStays DEF Blocks
<1>6. Pending'
  <2> SUFFICES ASSUME input.type = "VariableSize" PROVE Pending' BY <1>0 DEF Pending
  <2>1. taken <= Len(block.bytes) /\ NextStart + Len(buffer) = block.from + taken
    BY <1>s DEF Pending
  <2>2. Len(buffer') = 0 BY <1>0
  <2>3. NextStart' = block.from + taken /\ NextStart' + 0 = NextStart' BY <1>1, <1>2, <2>1
  <2> QED BY <1>0, <2>1, <2>2, <2>3 DEF Pending
<1>7. Grid' BY <1>s, <1>0, <1>3, InputStays DEF Grid
<1>8. Lines' BY <1>s, <1>0, <1>3 DEF Lines
<1>9. VariableChunks'
  <2> SUFFICES ASSUME input.type = "VariableSize" PROVE VariableChunks'
    BY <1>0 DEF VariableChunks
  <2>0. VariableChunks BY DEF FileInv
  <2>1. CASE buffer = << >>
    BY <1>0, <2>0, <2>1, VariableChunkStays DEF VariableChunks
  <2>2. CASE buffer # << >>
    <3>1. Len(buffer) # 0 BY <1>1, <2>2
    <3>2. NextStart + Len(buffer) = block.from + taken /\ taken <= Len(block.bytes)
      BY <1>s DEF Pending
    <3>3. NextStart + Len(buffer) = Len(File) BY <1>1, <1>4, <3>2
    <3>4. block.from < NextStart + Len(buffer) \/ block.from = Len(File)
      BY <1>1, <1>4, <3>2, <3>3
    <3>5. NextStart + Len(buffer) <= Len(File) BY <1>1, <3>3
    <3>6. \A i \in Len(buffer) + 1 .. Len(buffer) : buffer[i] = File[NextStart + i]
      BY <1>1
    <3>7. Len(buffer) <= Len(buffer) /\ \A i \in 1 .. Len(buffer) : buffer[i] = buffer[i]
      BY <1>1
    <3>8. VariableChunk([at |-> NextStart, data |-> buffer])
      BY <1>s, <1>1, <3>4, <3>5, <3>6, <3>7, PendingChunk
    <3> QED BY <1>s, <1>0, <1>1, <2>0, <2>2, <3>8, InsertVariable
  <2> QED BY <2>1, <2>2
<1>10. FixedChunks' BY <1>0, <1>3, FixedDataStays DEF FileInv, FixedChunks
<1>11. HeadFits'
  <2>1. head'.chunks = Len(chunks') /\ head'.size = size BY <1>0
  <2>2. CASE input.type = "VariableSize"
    <3>1. /\ NextStart + Len(buffer) = block.from + taken /\ taken <= Len(block.bytes)
          /\ size = block.from + Len(block.bytes)
      BY <1>s, <2>2 DEF Pending, Blocks
    <3>2. size = Len(File) /\ size = NextStart' BY <1>1, <1>2, <1>4, <2>2, <3>1
    <3> QED BY <1>0, <2>1, <2>2, <3>2, InputStays DEF HeadFits
  <2>3. CASE input.type = "FixedSize"
    <3>1. /\ size = block.from + Len(block.bytes)
          /\ Len(chunks) * AvgChunk = block.from + taken
          /\ taken < Len(block.bytes) + AvgChunk
          /\ ~ EndsShort => NextStart = Len(chunks) * AvgChunk
          /\ Len(block.bytes) < ReadSize
      BY <1>s, <1>4, <2>3 DEF Blocks, Grid
    <3>2. chunks' = chunks /\ NextStart' = NextStart BY <1>3, <2>3
    <3>3. (Len(chunks) - 1) * AvgChunk = Len(chunks) * AvgChunk - AvgChunk BY <1>1
    <3>4. (Len(chunks) - 1) * AvgChunk < size /\ size <= Len(chunks) * AvgChunk
      <4> DEFINE x == (Len(chunks) - 1) * AvgChunk
                 y == Len(chunks) * AvgChunk
                 z == Len(block.bytes)
      <4>1. /\ y = block.from + taken /\ taken < z + AvgChunk /\ size = block.from + z
            /\ x = y - AvgChunk
        BY <3>1, <3>3
      <4>2. z <= taken /\ z \in Int /\ block.from \in Int /\ taken \in Int /\ AvgChunk \in Int
        BY <1>1, <1>4, <2>3
      <4> HIDE DEF x, y, z
      <4>3. x < size /\ size <= y
        BY <4>1, <4>2
      <4> QED BY <4>3 DEF x, y
    <3>5. ~ EndsShort => size = NextStart
      <4> SUFFICES ASSUME ~ EndsShort PROVE size = NextStart OBVIOUS
      <4>1. PICK q \in Nat : block.from = q * ReadSize BY <1>s, <2>3, BlockOnGrid
      <4>a. block.from <= Len(File) /\ Len(File) < block.from + ReadSize
        BY <1>1, <1>4, <2>3, <3>1
      <4>2. q * ReadSize <= Len(File) /\ Len(File) < q * ReadSize + ReadSize BY <4>1, <4>a
      <4>3. Len(File) \div ReadSize = q BY <1>1, <4>2, Quotient
      <4>4. ShortBlock = block.from BY <4>1, <4>3 DEF ShortBlock
      <4>5. ~ (block.from < Len(File)) BY <2>3, <4>4 DEF EndsShort
      <4>6. Len(block.bytes) = 0 BY <1>1, <1>4, <2>3, <4>5
      <4>7. size = block.from /\ taken < AvgChunk BY <1>1, <3>1, <4>6, Sizes
      <4>8. PICK f \in Nat : block.from = f * AvgChunk BY <1>s, <2>3, BlockOnGrid
      <4>9. ~ (f * AvgChunk < Len(chunks) * AvgChunk)
        <5> SUFFICES ASSUME f * AvgChunk < Len(chunks) * AvgChunk PROVE FALSE OBVIOUS
        <5>1. f * AvgChunk + AvgChunk <= Len(chunks) * AvgChunk BY <1>1, NextMultiple
        <5> QED BY <1>1, <3>1, <4>7, <4>8, <5>1
      <4>10. taken = 0 BY <1>1, <3>1, <4>8, <4>9
      <4> QED BY <1>1, <3>1, <4>7, <4>10
    <3> QED BY <1>0, <2>1, <2>3, <3>2, <3>4, <3>5, InputStays DEF HeadFits
  <2>4. CASE input.type = "Trace"
    BY <1>s, <1>0, <1>3, <2>1, <2>4, InputStays DEF HeadFits, Lines
  <2> QED BY <1>s, <2>2, <2>3, <2>4, FileType
<1> QED BY <1>5, <1>6, <1>7, <1>8, <1>9, <1>10, <1>11 DEF FileInv

LEMMA StepFileInv == FileInv /\ IInv' /\ [Next]_vars => FileInv'
<1> SUFFICES ASSUME FileInv, IInv', [Next]_vars PROVE FileInv' OBVIOUS
<1>1. CASE ReadBlock BY <1>1, ReadBlockFileInv
<1>2. ASSUME NEW b \in Byte, Fill(b) PROVE FileInv'
  BY <1>2, AppendFileInv DEF Fill
<1>3. ASSUME NEW b \in Byte, Slide(b) PROVE FileInv'
  BY <1>3, AppendFileInv DEF Slide
<1>4. ASSUME NEW b \in Byte, CutChunk(b) PROVE FileInv' BY <1>4, CutChunkFileInv
<1>5. CASE CutFixed BY <1>5, CutFixedFileInv
<1>6. CASE CutFixedTail BY <1>6, CutFixedTailFileInv
<1>7. CASE SkipLine
  <2>1. /\ input.type = "Trace" /\ head = NoHead
        /\ UNCHANGED <<input, block, eof, buffer, winFp, retSize, chunks, size, head>>
    BY <1>7 DEF SkipLine, AtLine
  <2> QED BY <2>1 DEF FileInv, Blocks, Pending, Grid, Lines, NextStart,
                      VariableChunks, FixedChunks, HeadFits
<1>8. CASE CutLine BY <1>8, CutLineFileInv
<1>9. CASE Finish BY <1>9, FinishFileInv
<1>10. CASE UNCHANGED vars
  <2>1. /\ input' = input /\ block' = block /\ eof' = eof /\ taken' = taken
        /\ buffer' = buffer /\ retSize' = retSize /\ chunks' = chunks /\ size' = size
        /\ head' = head /\ NextStart' = NextStart
    BY <1>10 DEF vars, NextStart
  <2>2. Blocks' /\ Pending' /\ Grid' /\ Lines' /\ HeadFits'
    BY <2>1, InputStays DEF FileInv, Blocks, Pending, Grid, Lines, HeadFits
  <2>3. VariableChunks' /\ FixedChunks'
    BY <2>1, VariableChunkStays, FixedDataStays DEF FileInv, VariableChunks, FixedChunks
  <2> QED BY <2>2, <2>3 DEF FileInv
<1> QED BY <1>1, <1>2, <1>3, <1>4, <1>5, <1>6, <1>7, <1>8, <1>9, <1>10 DEF Next

(* Whatever the file, and however blocks, chunks and minima fall together, *)
(* the chunks are the file, in order and each byte at its place, but for   *)
(* the zeros of a read in the middle of a chunk and the order of retSize   *)
(* in fixSizeChunking; and the head counts them.                           *)
THEOREM ChunksAreTheFile == Spec => []ChunksAreFile
<1>1. FileInv => ChunksAreFile BY PartsOfFile DEF FileInv
<1>2. FileInv => IInv BY DEF FileInv
<1> QED BY InitFileInv, StepFileInv, InitIInv, StepIInv, <1>1, <1>2, PTL DEF Spec

-----------------------------------------------------------------------------
(***************************************************************************)
(* Rolling hashes: the polynomial of a window's bytes at the base B, modulo*)
(* M, computed with a table P of powers modulo a multiple L of M.          *)
(***************************************************************************)
(* Numbers that are equal modulo M.                                        *)
Same(M, a, b) == \E k \in Int : a = b + k * M

(* A number is reduced modulo a multiple of M first.                       *)
Multiple(L, M) == L % M = 0

LEMMA SameRefl == ASSUME NEW M \in Nat \ {0}, NEW a \in Int PROVE Same(M, a, a)
<1>1. M \in Int OBVIOUS
<1>2. a = a + 0 * M /\ 0 \in Int BY <1>1
<1> QED BY <1>2 DEF Same

LEMMA SameSym ==
  ASSUME NEW M \in Nat \ {0}, NEW a \in Int, NEW b \in Int, Same(M, a, b)
  PROVE  Same(M, b, a)
<1>1. M \in Int OBVIOUS
<1>2. PICK k \in Int : a = b + k * M BY DEF Same
<1>3. b = a + (-k) * M /\ -k \in Int BY <1>1, <1>2
<1> QED BY <1>3 DEF Same

LEMMA SameTrans ==
  ASSUME NEW M \in Nat \ {0}, NEW a \in Int, NEW b \in Int, NEW c \in Int, Same(M, a, b),
         Same(M, b, c)
  PROVE  Same(M, a, c)
<1>1. M \in Int OBVIOUS
<1>2. PICK k \in Int : a = b + k * M BY DEF Same
<1>3. PICK l \in Int : b = c + l * M BY DEF Same
<1>4. a = c + (k + l) * M /\ k + l \in Int BY <1>1, <1>2, <1>3
<1> QED BY <1>4 DEF Same

LEMMA SameSum ==
  ASSUME NEW M \in Nat \ {0}, NEW a \in Int, NEW b \in Int, NEW c \in Int, NEW d \in Int,
         Same(M, a, b), Same(M, c, d)
  PROVE  Same(M, a + c, b + d)
<1>1. M \in Int OBVIOUS
<1>2. PICK k \in Int : a = b + k * M BY DEF Same
<1>3. PICK l \in Int : c = d + l * M BY DEF Same
<1>4. a + c = (b + d) + (k + l) * M /\ k + l \in Int BY <1>1, <1>2, <1>3
<1> QED BY <1>4 DEF Same

LEMMA SameProduct ==
  ASSUME NEW M \in Nat \ {0}, NEW a \in Int, NEW b \in Int, NEW c \in Int, Same(M, a, b)
  PROVE  Same(M, a * c, b * c)
<1>1. M \in Int OBVIOUS
<1>2. PICK k \in Int : a = b + k * M BY DEF Same
<1>3. k * c \in Int BY <1>2
<1>4. a * c = b * c + (k * c) * M BY <1>1, <1>2
<1> QED BY <1>3, <1>4 DEF Same

LEMMA SameRest ==
  ASSUME NEW M \in Nat \ {0}, NEW a \in Int
  PROVE  (a % M) \in 0 .. M - 1 /\ Same(M, a % M, a)
<1>1. M \in Nat \ {0} OBVIOUS
<1>2. (a % M) \in 0 .. M - 1 BY <1>1
<1> DEFINE q == a \div M
<1>3. q \in Int /\ a = q * M + (a % M) BY <1>1
<1> HIDE DEF q
<1>4. -q \in Int /\ (a % M) = a + (-q) * M BY <1>1, <1>2, <1>3
<1> QED BY <1>2, <1>4 DEF Same

LEMMA SameWide ==
  ASSUME NEW M \in Nat \ {0}, NEW L \in Nat \ {0}, Multiple(L, M), NEW a \in Int
  PROVE  (a % L) \in Int /\ Same(M, a % L, a)
<1>1. M \in Nat \ {0} /\ L \in Nat \ {0} OBVIOUS
<1>2. (a % L) \in Int BY <1>1
<1>3. L % M = 0 BY DEF Multiple
<1> DEFINE q == a \div L
           m == L \div M
<1>4. q \in Int /\ a = q * L + (a % L) BY <1>1
<1>5. m \in Nat /\ L = m * M BY <1>1, <1>3, Exact
<1> HIDE DEF q, m
<1>6. q * L = (q * m) * M BY <1>1, <1>4, <1>5
<1>7. -(q * m) \in Int /\ (a % L) = a + (-(q * m)) * M
  BY <1>1, <1>2, <1>4, <1>5, <1>6
<1> QED BY <1>2, <1>7 DEF Same

LEMMA SameEqual ==
  ASSUME NEW M \in Nat \ {0}, NEW a \in 0 .. M - 1, NEW b \in 0 .. M - 1, Same(M, a, b)
  PROVE  a = b
<1>1. M \in Nat \ {0} OBVIOUS
<1>2. PICK k \in Int : a = b + k * M BY DEF Same
<1>3. CASE k >= 1
  <2>1. k * M >= M BY <1>1, <1>3
  <2> QED BY <1>1, <1>2, <2>1
<1>4. CASE k <= -1
  <2>1. k * M <= -M BY <1>1, <1>4
  <2> QED BY <1>1, <1>2, <2>1
<1>5. CASE k = 0 BY <1>1, <1>2, <1>5
<1> QED BY <1>2, <1>3, <1>4, <1>5

(* What is reduced to 23 bits and then to 16 is reduced to 16.             *)
LEMMA Reduced ==
  ASSUME NEW M \in Nat \ {0}, NEW L \in Nat \ {0}, Multiple(L, M), NEW a \in Int, NEW b \in Int,
         Same(M, a, b)
  PROVE  (a % L) % M = b % M
<1>1. (a % L) \in Int /\ Same(M, a % L, a) BY SameWide
<1> DEFINE c == a % L
<1>2. c \in Int /\ Same(M, c, a) BY <1>1
<1> HIDE DEF c
<1>3. (c % M) \in 0 .. M - 1 /\ Same(M, c % M, c) BY <1>2, SameRest
<1>4. (b % M) \in 0 .. M - 1 /\ Same(M, b % M, b) BY SameRest
<1> DEFINE x == c % M
           y == b % M
<1>5. x \in 0 .. M - 1 /\ y \in 0 .. M - 1 /\ Same(M, x, c) /\ Same(M, y, b) BY <1>3, <1>4
<1> HIDE DEF x, y
<1>6. x \in Int /\ y \in Int BY <1>5
<1>7. Same(M, x, b) BY <1>2, <1>5, <1>6, SameTrans
<1>8. Same(M, x, y) BY <1>5, <1>6, <1>7, SameSym, SameTrans
<1>9. x = y BY <1>5, <1>8, SameEqual
<1> QED BY <1>9 DEF x, y, c

-----------------------------------------------------------------------------
(* The polynomial of the numbers w, by Horner's rule.                      *)
Poly(B, M, w) ==
  LET p[i \in 0 .. Len(w)] == IF i = 0 THEN 0 ELSE (p[i - 1] * B + w[i]) % M
  IN  p[Len(w)]

(* The table of prefixes that it is defined by.                          *)
IsTable(B, M, p, w) ==
  /\ p[0] = 0
  /\ \A i \in 1 .. Len(w) : p[i] = (p[i - 1] * B + w[i]) % M

LEMMA HornerType ==
  ASSUME NEW B \in Nat \ {0}, NEW M \in Nat \ {0}, NEW a \in Nat, NEW b \in Nat
  PROVE  (a * B + b) % M \in 0 .. M - 1
<1>1. B \in Nat /\ M \in Nat \ {0} OBVIOUS
<1>2. a * B \in Nat BY <1>1
<1>3. a * B + b \in Int BY <1>2
<1> QED BY <1>1, <1>3

LEMMA TableType ==
  ASSUME NEW B \in Nat \ {0}, NEW M \in Nat \ {0}, NEW w \in Seq(Nat), NEW p, IsTable(B, M, p, w)
  PROVE  \A i \in 0 .. Len(w) : p[i] \in Nat
<1>1. B \in Nat /\ M \in Nat \ {0} /\ Len(w) \in Nat OBVIOUS
<1> DEFINE S == {i \in Nat : i <= Len(w) => p[i] \in Nat}
<1>2. 0 \in S BY DEF IsTable
<1>3. ASSUME NEW n \in Nat, n \in S PROVE n + 1 \in S
  <2> SUFFICES ASSUME n + 1 <= Len(w) PROVE p[n + 1] \in Nat OBVIOUS
  <2>1. p[n] \in Nat BY <1>1, <1>3
  <2>2. n + 1 \in 1 .. Len(w) /\ (n + 1) - 1 = n BY <1>1
  <2>3. p[n + 1] = (p[n] * B + w[n + 1]) % M BY <2>2 DEF IsTable
  <2>4. w[n + 1] \in Nat BY <2>2
  <2>5. (p[n] * B + w[n + 1]) % M \in 0 .. M - 1 BY <2>1, <2>4, HornerType
  <2> QED BY <1>1, <2>3, <2>5
<1> HIDE DEF S
<1>4. \A n \in Nat : n \in S BY <1>2, <1>3, Induction
<1> QED BY <1>1, <1>4 DEF S

LEMMA PolyTable ==
  ASSUME NEW B \in Nat \ {0}, NEW M \in Nat \ {0}, NEW w \in Seq(Nat)
  PROVE  \E p \in [0 .. Len(w) -> Nat] : IsTable(B, M, p, w) /\ Poly(B, M, w) = p[Len(w)]
<1>1. B \in Nat /\ M \in Nat \ {0} /\ Len(w) \in Nat OBVIOUS
<1> DEFINE v(i) == IF i \in 1 .. Len(w) THEN w[i] ELSE 0
           step == [x \in Nat \X Nat |-> (x[2] * B + v(x[1] + 1)) % M]
<1>2. \A i \in Nat : v(i) \in Nat BY <1>1
<1>3. \A i, y \in Nat : (y * B + v(i)) % M \in Nat
  <2> HIDE DEF v
  <2> TAKE i \in Nat, y \in Nat
  <2>1. (y * B + v(i)) % M \in 0 .. M - 1 BY <1>2, HornerType
  <2> QED BY <1>1, <2>1
<1>4. step \in [Nat \X Nat -> Nat] /\ \A i, y \in Nat : step[<<i, y>>] = (y * B + v(i + 1)) % M
  <2> HIDE DEF v
  <2>1. \A x \in Nat \X Nat : x[1] + 1 \in Nat /\ x[2] \in Nat OBVIOUS
  <2> QED BY <1>3, <2>1
<1> HIDE DEF step
<1>5. PICK f \in [Nat -> Nat] : Follows(f, 0, step)
  <2>1. 0 \in Nat OBVIOUS
  <2>2. step \in [Nat \X Nat -> Nat] BY <1>4
  <2> QED BY <2>1, <2>2, Recursion
<1> DEFINE g == [i \in 0 .. Len(w) |-> f[i]]
<1>6. \A i \in 0 .. Len(w) : g[i] = IF i = 0 THEN 0 ELSE (g[i - 1] * B + w[i]) % M
  <2> SUFFICES ASSUME NEW i \in 0 .. Len(w), i # 0
               PROVE  g[i] = (g[i - 1] * B + w[i]) % M
    BY <1>1, <1>5 DEF Follows
  <2>1. i - 1 \in Nat /\ (i - 1) + 1 = i /\ i - 1 \in 0 .. Len(w) /\ i \in 1 .. Len(w) BY <1>1
  <2>2. f[i] = step[<<i - 1, f[i - 1]>>] BY <1>5, <2>1 DEF Follows
  <2>3. f[i - 1] \in Nat BY <2>1
  <2>4. step[<<i - 1, f[i - 1]>>] = (f[i - 1] * B + v(i)) % M
    <3> DEFINE j == i - 1 y == f[i - 1]
    <3>1. j \in Nat /\ y \in Nat /\ j + 1 = i BY <2>1, <2>3
    <3> HIDE DEF j, y, v
    <3>2. step[<<j, y>>] = (y * B + v(j + 1)) % M BY <1>4, <3>1
    <3> QED BY <3>1, <3>2 DEF j, y
  <2>5. v(i) = w[i] BY <2>1
  <2>6. g[i] = f[i] /\ g[i - 1] = f[i - 1] BY <2>1
  <2> HIDE DEF g, v
  <2> QED BY <2>2, <2>4, <2>5, <2>6
<1>7. g \in [0 .. Len(w) -> Nat]
  <2>1. \A i \in 0 .. Len(w) : f[i] \in Nat BY <1>1
  <2> QED BY <2>1
<1>8. g = [i \in 0 .. Len(w) |-> g[i]] OBVIOUS
<1> HIDE DEF g
<1>9. g = [i \in 0 .. Len(w) |-> IF i = 0 THEN 0 ELSE (g[i - 1] * B + w[i]) % M]
  BY <1>6, <1>8
<1> DEFINE p == CHOOSE h : h = [i \in 0 .. Len(w) |-> IF i = 0 THEN 0 ELSE (h[i - 1] * B + w[i]) % M]
<1>10. Poly(B, M, w) = p[Len(w)] BY DEF Poly
<1>11. p = [i \in 0 .. Len(w) |-> IF i = 0 THEN 0 ELSE (p[i - 1] * B + w[i]) % M]
  BY <1>9, Zenon
<1> HIDE DEF p
<1>12. IsTable(B, M, p, w)
  <2>1. p[0] = 0 BY <1>1, <1>11
  <2>2. ASSUME NEW i \in 1 .. Len(w) PROVE p[i] = (p[i - 1] * B + w[i]) % M
    <3>1. i \in 0 .. Len(w) /\ i # 0 BY <1>1
    <3> QED BY <1>11, <3>1
  <2> QED BY <2>1, <2>2 DEF IsTable
<1>13. p = [i \in 0 .. Len(w) |-> p[i]] BY <1>11
<1>14. p \in [0 .. Len(w) -> Nat]
  <2>1. \A i \in 0 .. Len(w) : p[i] \in Nat BY <1>12, TableType
  <2> QED BY <1>13, <2>1
<1> QED BY <1>10, <1>12, <1>14

(* The polynomial by the numbers it is given one after the other.                *)
LEMMA PolyEmpty ==
  ASSUME NEW B \in Nat \ {0}, NEW M \in Nat \ {0}
  PROVE  Poly(B, M, << >>) = 0
<1> DEFINE w == << >>
<1>1. w \in Seq(Nat) OBVIOUS
<1>2. Len(w) = 0 OBVIOUS
<1> HIDE DEF w
<1>3. PICK p \in [0 .. Len(w) -> Nat] : IsTable(B, M, p, w) /\ Poly(B, M, w) = p[Len(w)]
  BY <1>1, PolyTable
<1>4. Poly(B, M, w) = 0 BY <1>2, <1>3 DEF IsTable
<1> QED BY <1>4 DEF w

LEMMA PolyType ==
  ASSUME NEW B \in Nat \ {0}, NEW M \in Nat \ {0}, NEW w \in Seq(Nat)
  PROVE  Poly(B, M, w) \in 0 .. M - 1
<1>1. B \in Nat /\ M \in Nat \ {0} /\ Len(w) \in Nat OBVIOUS
<1>2. PICK p \in [0 .. Len(w) -> Nat] : IsTable(B, M, p, w) /\ Poly(B, M, w) = p[Len(w)]
  BY PolyTable
<1>3. CASE Len(w) = 0
  <2>1. Poly(B, M, w) = 0 BY <1>2, <1>3 DEF IsTable
  <2> QED BY <1>1, <2>1
<1>4. CASE Len(w) # 0
  <2>1. Len(w) \in 1 .. Len(w) /\ Len(w) - 1 \in 0 .. Len(w) BY <1>1, <1>4
  <2>2. p[Len(w)] = (p[Len(w) - 1] * B + w[Len(w)]) % M BY <1>2, <2>1 DEF IsTable
  <2>3. p[Len(w) - 1] \in Nat /\ w[Len(w)] \in Nat BY <1>1, <2>1
  <2> DEFINE x == p[Len(w) - 1] y == w[Len(w)]
  <2>4. x \in Nat /\ y \in Nat /\ Poly(B, M, w) = (x * B + y) % M BY <1>2, <2>2, <2>3
  <2> HIDE DEF x, y
  <2>5. (x * B + y) % M \in 0 .. M - 1 BY <2>4, HornerType
  <2> QED BY <2>4, <2>5
<1> QED BY <1>3, <1>4

LEMMA PolyAppend ==
  ASSUME NEW B \in Nat \ {0}, NEW M \in Nat \ {0}, NEW w \in Seq(Nat), NEW b \in Nat
  PROVE  Poly(B, M, Append(w, b)) = (Poly(B, M, w) * B + b) % M
<1> DEFINE u == Append(w, b)
<1>1. /\ u \in Seq(Nat) /\ Len(u) = Len(w) + 1 /\ u[Len(w) + 1] = b /\ Len(w) \in Nat
      /\ \A i \in 1 .. Len(w) : u[i] = w[i]
  BY AppendProperties
<1> HIDE DEF u
<1>2. PICK p \in [0 .. Len(w) -> Nat] : IsTable(B, M, p, w) /\ Poly(B, M, w) = p[Len(w)]
  BY PolyTable
<1>3. PICK r \in [0 .. Len(u) -> Nat] : IsTable(B, M, r, u) /\ Poly(B, M, u) = r[Len(u)]
  BY <1>1, PolyTable
<1>4. \A n \in Nat : n \in {i \in Nat : i <= Len(w) => p[i] = r[i]}
  <2> DEFINE S == {i \in Nat : i <= Len(w) => p[i] = r[i]}
  <2>1. 0 \in S BY <1>2, <1>3 DEF IsTable
  <2>2. ASSUME NEW n \in Nat, n \in S PROVE n + 1 \in S
    <3> SUFFICES ASSUME n + 1 <= Len(w) PROVE p[n + 1] = r[n + 1] OBVIOUS
    <3>1. p[n] = r[n] BY <1>1, <2>2
    <3>2. n + 1 \in 1 .. Len(w) /\ n + 1 \in 1 .. Len(u) /\ (n + 1) - 1 = n BY <1>1
    <3>3. p[n + 1] = (p[n] * B + w[n + 1]) % M BY <1>2, <3>2 DEF IsTable
    <3>4. r[n + 1] = (r[n] * B + u[n + 1]) % M BY <1>3, <3>2 DEF IsTable
    <3>5. u[n + 1] = w[n + 1] BY <1>1, <3>2
    <3> QED BY <3>1, <3>3, <3>4, <3>5
  <2> HIDE DEF S
  <2> QED BY <2>1, <2>2, Induction DEF S
<1>5. p[Len(w)] = r[Len(w)] BY <1>1, <1>4
<1>6. Len(w) + 1 \in 1 .. Len(u) /\ (Len(w) + 1) - 1 = Len(w) BY <1>1
<1>7. r[Len(w) + 1] = (r[Len(w)] * B + u[Len(w) + 1]) % M BY <1>3, <1>6 DEF IsTable
<1>8. Poly(B, M, u) = (Poly(B, M, w) * B + b) % M BY <1>1, <1>2, <1>3, <1>5, <1>7
<1> QED BY <1>8 DEF u

-----------------------------------------------------------------------------
(* The polynomial of the n elements of s after the first a.                *)
PolyHash(B, M, s, a, n) == Poly(B, M, SubSeq(s, a + 1, a + n))

LEMMA HornerSame ==
  ASSUME NEW B \in Nat \ {0}, NEW M \in Nat \ {0}, NEW a \in Nat, NEW b \in Nat
  PROVE  Same(M, (a * B + b) % M, a * B + b)
<1>1. B \in Nat OBVIOUS
<1>2. a * B \in Int BY <1>1
<1>3. a * B + b \in Int BY <1>2
<1> QED BY <1>3, SameRest

LEMMA HashInRange ==
  ASSUME NEW B \in Nat \ {0}, NEW M \in Nat \ {0}, NEW s \in Seq(Nat), NEW a \in Nat,
         NEW n \in Nat, a + n <= Len(s)
  PROVE  PolyHash(B, M, s, a, n) \in 0 .. M - 1 /\ PolyHash(B, M, s, a, n) \in Nat
<1>1. SubSeq(s, a + 1, a + n) \in Seq(Nat)
  <2>1. a + n \in Nat /\ a <= a + n OBVIOUS
  <2> QED BY <2>1, SubSeqFacts
<1>2. PolyHash(B, M, s, a, n) \in 0 .. M - 1 BY <1>1, PolyType DEF PolyHash
<1>3. M \in Nat OBVIOUS
<1> QED BY <1>2, <1>3

LEMMA ElementType == ASSUME NEW S, NEW s \in Seq(S), NEW k \in 1 .. Len(s) PROVE s[k] \in S
OBVIOUS

LEMMA SameElements ==
  ASSUME NEW S, NEW s \in Seq(S), NEW t \in Seq(S), Len(s) = Len(t),
         \A i \in 1 .. Len(s) : s[i] = t[i]
  PROVE  s = t
OBVIOUS

LEMMA SubSeqAppend ==
  ASSUME NEW s \in Seq(Nat), NEW a \in Nat, NEW n \in Nat, a + n + 1 <= Len(s)
  PROVE  SubSeq(s, a + 1, a + (n + 1)) = Append(SubSeq(s, a + 1, a + n), s[a + n + 1])
<1> DEFINE t == SubSeq(s, a + 1, a + n)
           u == SubSeq(s, a + 1, a + (n + 1))
           x == s[a + n + 1]
<1>0. Len(s) \in Nat OBVIOUS
<1>1. t \in Seq(Nat) /\ Len(t) = n /\ \A i \in 1 .. n : t[i] = s[a + i]
  <2>1. a + n \in Nat /\ a <= a + n /\ a + n <= Len(s) /\ (a + n) - a = n BY <1>0
  <2> QED BY <2>1, SubSeqFacts
<1>2. u \in Seq(Nat) /\ Len(u) = n + 1 /\ \A i \in 1 .. n + 1 : u[i] = s[a + i]
  <2>1. a + (n + 1) \in Nat /\ a <= a + (n + 1) /\ a + (n + 1) <= Len(s) /\ (a + (n + 1)) - a = n + 1
    BY <1>0
  <2> QED BY <2>1, SubSeqFacts
<1>3. x \in Nat
  <2>1. a + n + 1 \in 1 .. Len(s) BY <1>0
  <2> QED BY <2>1
<1>4. x = s[a + (n + 1)]
  <2>1. a + n + 1 = a + (n + 1) OBVIOUS
  <2> QED BY <2>1
<1> HIDE DEF t, u, x
<1> DEFINE v == Append(t, x)
<1>5. /\ v \in Seq(Nat) /\ Len(v) = n + 1 /\ v[n + 1] = x
      /\ \A i \in 1 .. n : v[i] = t[i]
  BY <1>1, <1>3, AppendProperties
<1> HIDE DEF v
<1>6. ASSUME NEW i \in 1 .. n + 1 PROVE u[i] = v[i]
  <2>1. CASE i = n + 1 BY <1>2, <1>4, <1>5, <2>1
  <2>2. CASE i \in 1 .. n
    <3>1. v[i] = t[i] /\ t[i] = s[a + i] BY <1>1, <1>5, <2>2
    <3>2. u[i] = s[a + i] BY <1>2
    <3> QED BY <3>1, <3>2
  <2> QED BY <2>1, <2>2
<1>7. u = v
  <2>1. \A i \in 1 .. Len(u) : u[i] = v[i] BY <1>2, <1>6
  <2> QED BY <1>2, <1>5, <2>1, SameElements
<1> QED BY <1>7 DEF u, v, t, x

LEMMA HashStep ==
  ASSUME NEW B \in Nat \ {0}, NEW M \in Nat \ {0}, NEW s \in Seq(Nat), NEW a \in Nat,
         NEW n \in Nat, NEW m \in Nat, m = n + 1, a + m <= Len(s)
  PROVE  /\ s[a + m] \in Nat
         /\ PolyHash(B, M, s, a, m) = (PolyHash(B, M, s, a, n) * B + s[a + m]) % M
<1>0. Len(s) \in Nat OBVIOUS
<1>1. s[a + m] \in Nat
  <2>1. a + m \in 1 .. Len(s) BY <1>0
  <2> QED BY <2>1
<1>2. SubSeq(s, a + 1, a + n) \in Seq(Nat)
  <2>1. a + n \in Nat /\ a <= a + n /\ a + n <= Len(s) BY <1>0
  <2> QED BY <2>1, SubSeqFacts
<1>3. SubSeq(s, a + 1, a + m) = Append(SubSeq(s, a + 1, a + n), s[a + m])
  <2>1. a + n + 1 <= Len(s) /\ a + n + 1 = a + m /\ a + (n + 1) = a + m BY <1>0
  <2> QED BY <2>1, SubSeqAppend
<1> DEFINE t == SubSeq(s, a + 1, a + n)
           x == s[a + m]
<1>4. t \in Seq(Nat) /\ x \in Nat BY <1>1, <1>2
<1>5. PolyHash(B, M, s, a, m) = Poly(B, M, Append(t, x)) BY <1>3 DEF PolyHash
<1>6. PolyHash(B, M, s, a, n) = Poly(B, M, t) BY DEF PolyHash
<1> HIDE DEF t, x
<1>7. Poly(B, M, Append(t, x)) = (Poly(B, M, t) * B + x) % M BY <1>4, PolyAppend
<1> QED BY <1>1, <1>5, <1>6, <1>7 DEF x

LEMMA HashEmpty ==
  ASSUME NEW B \in Nat \ {0}, NEW M \in Nat \ {0}, NEW s \in Seq(Nat), NEW a \in Nat, a <= Len(s)
  PROVE  PolyHash(B, M, s, a, 0) = 0
<1>1. SubSeq(s, a + 1, a + 0) = << >>
  <2>1. a + 0 = a /\ a <= a OBVIOUS
  <2>2. SubSeq(s, a + 1, a) \in Seq(Nat) /\ Len(SubSeq(s, a + 1, a)) = a - a
    BY <2>1, SubSeqFacts
  <2>3. a - a = 0 OBVIOUS
  <2> QED BY <2>1, <2>2, <2>3
<1> QED BY <1>1, PolyEmpty DEF PolyHash

(* Only the elements count.                                                *)
LEMMA SubSeqOfPrefix ==
  ASSUME NEW s \in Seq(Nat), NEW b \in Nat, NEW a \in Nat, NEW n \in Nat, a + n <= Len(s)
  PROVE  SubSeq(Append(s, b), a + 1, a + n) = SubSeq(s, a + 1, a + n)
<1> DEFINE t == Append(s, b)
<1>1. /\ t \in Seq(Nat) /\ Len(t) = Len(s) + 1 /\ Len(s) \in Nat
      /\ \A i \in 1 .. Len(s) : t[i] = s[i]
  BY AppendProperties
<1> HIDE DEF t
<1>2. a + n \in Nat /\ a <= a + n /\ a + n <= Len(t) /\ (a + n) - a = n BY <1>1
<1> DEFINE u == SubSeq(t, a + 1, a + n)
           v == SubSeq(s, a + 1, a + n)
<1>3. u \in Seq(Nat) /\ Len(u) = n /\ \A i \in 1 .. n : u[i] = t[a + i]
  BY <1>1, <1>2, SubSeqFacts
<1>4. v \in Seq(Nat) /\ Len(v) = n /\ \A i \in 1 .. n : v[i] = s[a + i]
  BY <1>2, SubSeqFacts
<1> HIDE DEF u, v
<1>5. ASSUME NEW i \in 1 .. n PROVE u[i] = v[i]
  <2>1. a + i \in 1 .. Len(s) BY <1>1
  <2> QED BY <1>1, <1>3, <1>4, <2>1
<1>6. u = v
  <2>1. \A i \in 1 .. Len(u) : u[i] = v[i] BY <1>3, <1>5
  <2> QED BY <1>3, <1>4, <2>1, SameElements
<1> QED BY <1>6 DEF u, v, t

LEMMA HashOfPrefix ==
  ASSUME NEW B \in Nat \ {0}, NEW M \in Nat \ {0},
         NEW s \in Seq(Nat), NEW b \in Nat, NEW a \in Nat, NEW n \in Nat, a + n <= Len(s)
  PROVE  PolyHash(B, M, Append(s, b), a, n) = PolyHash(B, M, s, a, n)
<1>1. SubSeq(Append(s, b), a + 1, a + n) = SubSeq(s, a + 1, a + n) BY SubSeqOfPrefix
<1> QED BY <1>1 DEF PolyHash

(* P holds the powers of B, up to multiples of M.                          *)
Powers(B, M, P) ==
  /\ P[0] = 1
  /\ \A n \in Nat : P[n] \in Nat /\ P[n + 1] \in Nat /\ Same(M, P[n + 1], P[n] * B)

(* A table of powers modulo a multiple of M.                               *)
LEMMA PowersOfTable ==
  ASSUME NEW B \in Nat \ {0}, NEW M \in Nat \ {0}, NEW L \in Nat \ {0}, Multiple(L, M)
  PROVE  Powers(B, M, PowersOf(B, L))
<1> DEFINE P == PowersOf(B, L)
<1>1. P \in [Nat -> Nat] /\ P[0] = 1 /\ \A i \in Nat : P[i + 1] = (P[i] * B) % L BY PowersValues
<1> HIDE DEF P
<1>2. ASSUME NEW n \in Nat PROVE P[n] \in Nat /\ P[n + 1] \in Nat /\ Same(M, P[n + 1], P[n] * B)
  <2>1. P[n] \in Nat /\ P[n + 1] \in Nat /\ P[n + 1] = (P[n] * B) % L BY <1>1
  <2>2. P[n] * B \in Int BY <2>1
  <2> QED BY <2>1, <2>2, SameWide
<1>3. Powers(B, M, P) BY <1>1, <1>2 DEF Powers
<1> QED BY <1>3 DEF P

(* A window moves on: the arithmetic of one step of it.                    *)
LEMMA SlideArithmetic ==
  ASSUME NEW B \in Nat \ {0}, NEW M \in Nat \ {0}, NEW c \in Nat, NEW t \in Nat, NEW p \in Nat,
         NEW p1 \in Nat,
         NEW x \in Nat, NEW x1 \in Nat, NEW z \in Nat, NEW z1 \in Nat,
         Same(M, x, c * p + z), Same(M, p1, p * B),
         Same(M, x1, x * B + t), Same(M, z1, z * B + t)
  PROVE  Same(M, x1, c * p1 + z1)
<1>2. /\ c * p \in Nat /\ p * B \in Nat /\ x * B \in Nat /\ z * B \in Nat /\ p1 * c \in Nat
      /\ c * p1 = p1 * c
  OBVIOUS
<1>3. (p * B) * c \in Nat /\ (c * p) * B \in Nat /\ (p * B) * c = (c * p) * B BY <1>2
<1>4. c * p + z \in Nat /\ (c * p + z) * B = (c * p) * B + z * B BY <1>2
<1> DEFINE cpB == (c * p) * B
           zB == z * B
           xB == x * B
           w == cpB + zB
<1>5. Same(M, xB, w) /\ w \in Nat
  <2> DEFINE y == c * p + z
  <2>1. y \in Int /\ x \in Int /\ B \in Int /\ Same(M, x, y) BY <1>4
  <2>2. y * B = w BY <1>4
  <2>3. w \in Nat BY <1>2, <1>3
  <2> HIDE DEF y, w
  <2>4. Same(M, x * B, y * B) BY <2>1, SameProduct
  <2> QED BY <2>2, <2>3, <2>4
<1>6. Same(M, x1, w + t)
  <2>1. xB \in Nat /\ xB + t \in Nat /\ w + t \in Nat BY <1>2, <1>5
  <2>2. Same(M, x1, xB + t) OBVIOUS
  <2> HIDE DEF xB, w
  <2>3. Same(M, xB + t, w + t)
    <3>1. xB \in Int /\ w \in Int /\ t \in Int BY <1>5, <2>1
    <3>2. Same(M, t, t) BY <3>1, SameRefl
    <3> QED BY <1>5, <3>1, <3>2, SameSum
  <2> QED BY <2>1, <2>2, <2>3, SameTrans
<1>7. Same(M, c * p1, cpB)
  <2> DEFINE y == p * B
  <2>1. y \in Int /\ p1 \in Int /\ c \in Int /\ Same(M, p1, y) BY <1>2
  <2>2. y * c = cpB /\ p1 * c = c * p1 BY <1>2, <1>3
  <2> HIDE DEF y, cpB
  <2>3. Same(M, p1 * c, y * c) BY <2>1, SameProduct
  <2> QED BY <2>2, <2>3
<1>8. Same(M, c * p1 + z1, cpB + (zB + t))
  <2>1. zB + t \in Nat /\ cpB \in Nat /\ c * p1 \in Nat BY <1>2, <1>3
  <2>2. Same(M, z1, zB + t) OBVIOUS
  <2> HIDE DEF zB, cpB
  <2> QED BY <1>7, <2>1, <2>2, SameSum
<1>9. cpB + (zB + t) = w + t /\ cpB \in Nat /\ zB \in Nat BY <1>2, <1>3
<1>10. c * p1 + z1 \in Nat /\ w + t \in Nat BY <1>2, <1>5
<1> HIDE DEF w, cpB, zB
<1> DEFINE g == c * p1 + z1
           h == w + t
<1>11. g \in Int /\ h \in Int /\ x1 \in Int /\ Same(M, g, h) /\ Same(M, x1, h)
  BY <1>6, <1>8, <1>9, <1>10
<1> HIDE DEF g, h
<1>12. Same(M, x1, g) BY <1>11, SameSym, SameTrans
<1> QED BY <1>12 DEF g

LEMMA HashSlide ==
  ASSUME NEW B \in Nat \ {0}, NEW M \in Nat \ {0}, NEW P, Powers(B, M, P),
         NEW s \in Seq(Nat), NEW a \in Nat, NEW a1 \in Nat, a1 = a + 1
  PROVE  \A n, m \in Nat : m = n + 1 /\ a + m <= Len(s) =>
           Same(M, PolyHash(B, M, s, a, m), s[a1] * P[n] + PolyHash(B, M, s, a1, n))
<1> DEFINE Goal(n, m) == Same(M, PolyHash(B, M, s, a, m), s[a1] * P[n] + PolyHash(B, M, s, a1, n))
           S == {n \in Nat : a + (n + 1) <= Len(s) => Goal(n, n + 1)}
<1>0. Len(s) \in Nat OBVIOUS
<1>1. 0 \in S
  <2> SUFFICES ASSUME a + 1 <= Len(s) PROVE Goal(0, 1)
    OBVIOUS
  <2>1. 1 \in Nat /\ 1 = 0 + 1 /\ a <= Len(s) /\ a1 <= Len(s) BY <1>0
  <2>2. s[a1] \in Nat /\ PolyHash(B, M, s, a, 1) = (PolyHash(B, M, s, a, 0) * B + s[a1]) % M
    BY <2>1, HashStep
  <2>3. PolyHash(B, M, s, a, 0) = 0 /\ PolyHash(B, M, s, a1, 0) = 0 BY <2>1, HashEmpty
  <2> DEFINE x == s[a1]
  <2>4. x \in Nat /\ x \in Int BY <2>2
  <2>5. P[0] = 1 BY DEF Powers
  <2> HIDE DEF x
  <2>6. 0 * B + x = x BY <2>4
  <2>7. x * 1 + 0 = x BY <2>4
  <2>8. Same(M, x % M, x) BY <2>4, SameRest
  <2> QED BY <2>2, <2>3, <2>5, <2>6, <2>7, <2>8 DEF x
<1>2. ASSUME NEW n \in Nat, n \in S PROVE n + 1 \in S
  <2> DEFINE m == n + 1
             k == m + 1
  <2>0. m \in Nat /\ m = n + 1 /\ k \in Nat /\ k = m + 1 OBVIOUS
  <2> SUFFICES ASSUME a + k <= Len(s) PROVE Goal(m, k)
    OBVIOUS
  <2>1. a + m <= Len(s) /\ a + k <= Len(s) /\ a1 + m <= Len(s) /\ a1 + n <= Len(s)
        /\ a1 + m = a + k /\ a1 \in 1 .. Len(s)
    BY <1>0
  <2>2. Goal(n, m) BY <1>2, <2>1
  <2> DEFINE t == s[a + k]
  <2> HIDE DEF m, k
  <2>3. t \in Nat /\ PolyHash(B, M, s, a, k) = (PolyHash(B, M, s, a, m) * B + t) % M
    BY <2>0, <2>1, HashStep
  <2>4. PolyHash(B, M, s, a1, m) = (PolyHash(B, M, s, a1, n) * B + t) % M
    <3>1. m = n + 1 /\ a1 + m <= Len(s) /\ m \in Nat BY <2>0, <2>1
    <3>2. PolyHash(B, M, s, a1, m) = (PolyHash(B, M, s, a1, n) * B + s[a1 + m]) % M
      <4>1. ASSUME NEW c \in Nat, c + m <= Len(s)
            PROVE  PolyHash(B, M, s, c, m) = (PolyHash(B, M, s, c, n) * B + s[c + m]) % M
        BY <3>1, <4>1, HashStep
      <4> QED BY <3>1, <4>1
    <3>3. s[a1 + m] = t BY <2>1
    <3> HIDE DEF t
    <3> QED BY <3>2, <3>3
  <2>5. /\ PolyHash(B, M, s, a, m) \in Nat /\ PolyHash(B, M, s, a, k) \in Nat
        /\ PolyHash(B, M, s, a1, n) \in Nat /\ PolyHash(B, M, s, a1, m) \in Nat
    BY <2>0, <2>1, HashInRange
  <2>6. s[a1] \in Nat BY <2>1
  <2>7. P[n] \in Nat /\ P[m] \in Nat /\ Same(M, P[m], P[n] * B)
    BY <2>0 DEF Powers
  <2> HIDE DEF t
  <2>8. Same(M, PolyHash(B, M, s, a, k), PolyHash(B, M, s, a, m) * B + t)
    BY <2>3, <2>5, HornerSame
  <2>9. Same(M, PolyHash(B, M, s, a1, m), PolyHash(B, M, s, a1, n) * B + t)
    BY <2>3, <2>4, <2>5, HornerSame
  <2> DEFINE c == s[a1]
             p == P[n]
             p1 == P[m]
             x == PolyHash(B, M, s, a, m)
             x1 == PolyHash(B, M, s, a, k)
             z == PolyHash(B, M, s, a1, n)
             z1 == PolyHash(B, M, s, a1, m)
  <2>10. /\ c \in Nat /\ t \in Nat /\ p \in Nat /\ p1 \in Nat
         /\ x \in Nat /\ x1 \in Nat /\ z \in Nat /\ z1 \in Nat
    BY <2>3, <2>5, <2>6, <2>7
  <2>11. /\ Same(M, x, c * p + z) /\ Same(M, p1, p * B)
         /\ Same(M, x1, x * B + t) /\ Same(M, z1, z * B + t)
    BY <2>2, <2>7, <2>8, <2>9
  <2> HIDE DEF c, p, p1, x, x1, z, z1
  <2>12. Same(M, x1, c * p1 + z1) BY <2>10, <2>11, SlideArithmetic
  <2> QED BY <2>12 DEF c, p1, x1, z1
<1> HIDE DEF S
<1>3. \A n \in Nat : n \in S BY <1>1, <1>2, Induction
<1> QED BY <1>3 DEF S

-----------------------------------------------------------------------------
(* The hash while the window fills: a window that is filled up by zeros.   *)
LEMMA FillArithmetic ==
  ASSUME NEW B \in Nat \ {0}, NEW M \in Nat \ {0}, NEW f \in Nat, NEW b \in Nat, NEW p \in Nat,
         NEW p1 \in Nat,
         NEW h \in Nat, NEW h1 \in Nat,
         Same(M, f, h * p1), Same(M, p1, p * B), Same(M, h1, h * B + b)
  PROVE  Same(M, f + b * p, h1 * p)
<1> DEFINE y == p * B
           z == h * B + b
<1>2. y \in Nat /\ z \in Nat OBVIOUS
<1>3. Same(M, p1, y) /\ Same(M, h1, z) OBVIOUS
<1>4. y * h + b * p = z * p
  <2>1. (p * B) * h = (h * B) * p OBVIOUS
  <2>2. (h * B + b) * p = (h * B) * p + b * p OBVIOUS
  <2> QED BY <2>1, <2>2
<1> HIDE DEF y, z
<1>5. y * h \in Nat /\ z * p \in Nat /\ b * p \in Nat /\ h1 * p \in Nat /\ p1 * h \in Nat
      /\ p1 * h = h * p1
  BY <1>2
<1>a. p1 \in Int /\ y \in Int /\ h1 \in Int /\ z \in Int /\ h \in Int /\ p \in Int BY <1>2
<1>6. Same(M, p1 * h, y * h) BY <1>a, <1>3, SameProduct
<1>7. Same(M, h1 * p, z * p) BY <1>a, <1>3, SameProduct
<1> DEFINE u == y * h
           v == z * p
           w == b * p
           x == h1 * p
           t == p1 * h
<1>8. /\ u \in Int /\ v \in Int /\ w \in Int /\ x \in Int /\ t \in Int
      /\ Same(M, f, t) /\ Same(M, t, u) /\ Same(M, x, v) /\ u + w = v
  BY <1>4, <1>5, <1>6, <1>7
<1> HIDE DEF u, v, w, x, t
<1>9. Same(M, f, u) BY <1>8, SameTrans
<1>10. Same(M, f + w, u + w)
  <2>1. Same(M, w, w) /\ f \in Int BY <1>8, SameRefl
  <2> QED BY <1>8, <1>9, <2>1, SameSum
<1>11. f + w \in Int BY <1>8
<1>12. Same(M, f + w, x) BY <1>8, <1>10, <1>11, SameSym, SameTrans
<1> QED BY <1>12 DEF w, x

(* After a byte of a window that is not full.                              *)
Filled(B, M, P, W, s) == (Poly(B, M, s) * P[W - Len(s)]) % M

LEMMA FillStep ==
  ASSUME NEW B \in Nat \ {0}, NEW M \in Nat \ {0}, NEW L \in Nat \ {0}, Multiple(L, M),
         NEW P, Powers(B, M, P), NEW W \in Nat, NEW s \in Seq(Nat), NEW b \in Nat, Len(s) < W
  PROVE  ((Filled(B, M, P, W, s) + b * P[W - Len(s) - 1]) % L) % M
           = Filled(B, M, P, W, Append(s, b))
<1>1. Len(s) \in Nat OBVIOUS
<1> DEFINE n == W - (Len(s) + 1)
           h == Poly(B, M, s)
           h1 == Poly(B, M, Append(s, b))
           p == P[n]
           p1 == P[n + 1]
           f == Filled(B, M, P, W, s)
<1>2. n \in Nat /\ n + 1 = W - Len(s) /\ n = W - Len(s) - 1 BY <1>1
<1>3. Append(s, b) \in Seq(Nat) BY AppendProperties
<1>4. h \in Nat /\ h1 \in Nat
  <2>1. h \in 0 .. M - 1 /\ h1 \in 0 .. M - 1 BY <1>3, PolyType
  <2> QED BY <2>1
<1>5. h1 = (h * B + b) % M BY PolyAppend
<1>6. f = (h * p1) % M BY <1>2 DEF Filled
<1>7. ((f + b * P[W - Len(s) - 1]) % L) % M = ((f + b * p) % L) % M BY <1>2
<1> HIDE DEF n, h, h1, f
<1>8. p \in Nat /\ p1 \in Nat /\ Same(M, p1, p * B) BY <1>2 DEF Powers
<1> HIDE DEF p, p1
<1>9. h * p1 \in Int /\ b * p \in Int /\ h1 * p \in Int BY <1>4, <1>8
<1>f. f \in Nat BY <1>6, <1>9
<1>10. Same(M, f, h * p1) BY <1>6, <1>9, SameRest
<1>11. Same(M, h1, h * B + b) BY <1>4, <1>5, HornerSame
<1>12. Same(M, f + b * p, h1 * p)
  <2>1. /\ h \in Nat /\ h1 \in Nat /\ p \in Nat /\ p1 \in Nat /\ f \in Nat
        /\ Same(M, f, h * p1) /\ Same(M, p1, p * B) /\ Same(M, h1, h * B + b)
    BY <1>4, <1>8, <1>f, <1>10, <1>11
  <2> QED BY <2>1, FillArithmetic
<1> DEFINE x == f + b * p
           y == h1 * p
<1>13. x \in Int /\ y \in Int
  <2>1. f \in Int BY <1>f
  <2> QED BY <1>9, <2>1
<1>a. Same(M, x, y) BY <1>12
<1> HIDE DEF x, y
<1>14. (x % L) % M = y % M BY <1>13, <1>a, Reduced
<1>15. Filled(B, M, P, W, Append(s, b)) = y % M
  <2>1. Len(Append(s, b)) = Len(s) + 1 BY AppendProperties
  <2> QED BY <2>1 DEF Filled, h1, p, n, y
<1> QED BY <1>7, <1>14, <1>15 DEF f, x

(* What removes a byte.                                                    *)
LEMMA RemoveSame ==
  ASSUME NEW M \in Nat \ {0}, NEW L \in Nat \ {0}, Multiple(L, M), NEW y \in Nat
  PROVE  (L - (y % L)) % L \in Nat /\ Same(M, (L - (y % L)) % L, -y)
<1> DEFINE r == y % L
           q == y \div L
           m == L \div M
<1>1. (L - (y % L)) % L \in Nat OBVIOUS
<1>2. r \in Nat /\ q \in Nat /\ y = q * L + r OBVIOUS
<1>3. m \in Nat /\ L = m * M BY Exact DEF Multiple
<1> HIDE DEF r, q, m
<1>4. L - r \in Int /\ -y \in Int BY <1>2
<1>5. L - r = -y + (1 + q) * L BY <1>2
<1>6. (1 + q) * L = ((1 + q) * m) * M BY <1>2, <1>3
<1>7. (1 + q) * m \in Int BY <1>2, <1>3
<1>8. Same(M, L - r, -y) BY <1>5, <1>6, <1>7 DEF Same
<1>9. (L - r) % L \in Int /\ Same(M, (L - r) % L, L - r) BY <1>4, SameWide
<1> DEFINE u == (L - r) % L
           v == L - r
           w == -y
<1>10. u \in Int /\ v \in Int /\ w \in Int /\ Same(M, u, v) /\ Same(M, v, w)
  BY <1>4, <1>8, <1>9
<1> HIDE DEF u, v, w
<1>11. Same(M, u, w) BY <1>10, SameTrans
<1> QED BY <1>1, <1>11 DEF u, w, r

(* One more byte of a window at the end.                                   *)
LEMMA HashAppend ==
  ASSUME NEW B \in Nat \ {0}, NEW M \in Nat \ {0}, NEW s \in Seq(Nat), NEW b \in Nat,
         NEW k \in Nat, NEW n \in Nat, NEW m \in Nat, m = n + 1, k + n = Len(s)
  PROVE  PolyHash(B, M, Append(s, b), k, m) = (PolyHash(B, M, s, k, n) * B + b) % M
<1> DEFINE t == Append(s, b)
<1>1. t \in Seq(Nat) /\ Len(t) = Len(s) + 1 /\ t[Len(s) + 1] = b BY AppendProperties
<1>2. k + n <= Len(s) BY <1>1
<1>3. PolyHash(B, M, t, k, n) = PolyHash(B, M, s, k, n) BY <1>2, HashOfPrefix
<1> HIDE DEF t
<1>4. k + m <= Len(t) /\ k + m = Len(s) + 1 BY <1>1
<1>5. PolyHash(B, M, t, k, m) = (PolyHash(B, M, t, k, n) * B + t[k + m]) % M
  <2>1. t \in Seq(Nat) /\ k + m <= Len(t) /\ m = n + 1 BY <1>1, <1>4
  <2> QED BY <2>1, HashStep
<1>6. t[k + m] = b BY <1>1, <1>4
<1> QED BY <1>3, <1>5, <1>6 DEF t

(* The hash once the window slides: byte b comes in, and r removes the one *)
(* that goes out.                                                          *)
LastHash(B, M, W, s) == PolyHash(B, M, s, Len(s) - W, W)
Leaving(P, W, s) == s[Len(s) - W + 1] * P[W - 1]

LEMMA SlideStep ==
  ASSUME NEW B \in Nat \ {0}, NEW M \in Nat \ {0}, NEW L \in Nat \ {0}, Multiple(L, M),
         NEW P, Powers(B, M, P), NEW W \in Nat \ {0}, NEW s \in Seq(Nat), NEW b \in Nat,
         Len(s) >= W, NEW r \in Nat, Same(M, r, -Leaving(P, W, s))
  PROVE  (((LastHash(B, M, W, s) + r) * B + b) % L) % M = LastHash(B, M, W, Append(s, b))
<1>1. Len(s) \in Nat OBVIOUS
<1> DEFINE a == Len(s) - W
           k == a + 1
           n == W - 1
           out == s[k]
           p == P[n]
           z == PolyHash(B, M, s, k, n)
           f == LastHash(B, M, W, s)
<1>2. /\ a \in Nat /\ k \in Nat /\ k = a + 1 /\ n \in Nat /\ W = n + 1 /\ W \in Nat
      /\ a + W <= Len(s) /\ k + n = Len(s) /\ k + n <= Len(s) /\ k \in 1 .. Len(s)
      /\ Len(s) - W + 1 = k /\ (Len(s) + 1) - W = k
  BY <1>1
<1>3. f = PolyHash(B, M, s, a, W) /\ Same(M, r, -(out * p)) BY <1>2 DEF LastHash, Leaving
<1> HIDE DEF a, k, n, f
<1>f. f \in Nat BY <1>2, <1>3, HashInRange
<1>4. out \in Nat BY <1>2, ElementType
<1>5. z \in Nat BY <1>2, HashInRange
<1>6. p \in Nat BY <1>2 DEF Powers
<1>7. Same(M, f, out * p + z)
  <2>1. n \in Nat /\ W \in Nat /\ W = n + 1 /\ a + W <= Len(s) /\ a \in Nat /\ k \in Nat /\ k = a + 1
    BY <1>2
  <2>2. Same(M, PolyHash(B, M, s, a, W), s[k] * P[n] + PolyHash(B, M, s, k, n))
    <3>1. \A i, m \in Nat : m = i + 1 /\ a + m <= Len(s) =>
            Same(M, PolyHash(B, M, s, a, m), s[k] * P[i] + PolyHash(B, M, s, k, i))
      BY <2>1, HashSlide
    <3> QED BY <2>1, <3>1
  <2> QED BY <1>3, <2>2
<1>8. PolyHash(B, M, Append(s, b), k, W) = (z * B + b) % M
  <2>1. k \in Nat /\ n \in Nat /\ W \in Nat /\ W = n + 1 /\ k + n = Len(s) BY <1>2
  <2>2. PolyHash(B, M, Append(s, b), k, W) = (PolyHash(B, M, s, k, n) * B + b) % M
    BY <2>1, HashAppend, SMTT(30)
  <2> QED BY <2>2
<1>9. LastHash(B, M, W, Append(s, b)) = (z * B + b) % M
  <2>1. Len(Append(s, b)) = Len(s) + 1 BY AppendProperties
  <2>2. Len(Append(s, b)) - W = k BY <1>2, <2>1
  <2> QED BY <1>8, <2>2 DEF LastHash
<1> HIDE DEF out, p, z
<1>11. Same(M, f + r, z)
  <2> DEFINE x == out * p
  <2>1. x \in Nat /\ Same(M, f, x + z) /\ Same(M, r, -x) BY <1>3, <1>4, <1>6, <1>7
  <2> HIDE DEF x
  <2>2. x + z \in Int /\ -x \in Int /\ (x + z) + (-x) = z BY <1>5, <2>1
  <2>3. f \in Int /\ r \in Int BY <1>f
  <2>4. Same(M, f + r, (x + z) + (-x)) BY <2>1, <2>2, <2>3, SameSum
  <2> QED BY <2>2, <2>4
<1>12. f + r \in Int /\ z \in Int BY <1>5, <1>f
<1> DEFINE u == (f + r) * B
           v == z * B
<1>13. u \in Int /\ v \in Int /\ Same(M, u, v)
  <2>1. B \in Int OBVIOUS
  <2>2. u \in Int /\ v \in Int BY <1>12
  <2> QED BY <1>11, <1>12, <2>1, <2>2, SameProduct
<1> HIDE DEF u, v
<1>14. Same(M, u + b, v + b)
  <2>1. Same(M, b, b) /\ b \in Int BY SameRefl
  <2> QED BY <1>13, <2>1, SameSum
<1> DEFINE x == u + b
           y == v + b
<1>15. x \in Int /\ y \in Int /\ Same(M, x, y) BY <1>13, <1>14
<1> HIDE DEF x, y
<1>16. (x % L) % M = y % M BY <1>15, Reduced
<1> QED BY <1>9, <1>16 DEF x, y, u, v, f

(* The two forms of the hash meet where the window is full.                *)
LEMMA FullStep ==
  ASSUME NEW B \in Nat \ {0}, NEW M \in Nat \ {0}, NEW P, Powers(B, M, P),
         NEW s \in Seq(Nat)
  PROVE  Filled(B, M, P, Len(s), s) = LastHash(B, M, Len(s), s)
<1>1. SubSeq(s, 1, Len(s)) = s BY SubSeqFull
<1>2. Len(s) \in Nat /\ 0 + 1 = 1 /\ 0 + Len(s) = Len(s) OBVIOUS
<1>3. PolyHash(B, M, s, 0, Len(s)) = Poly(B, M, s) BY <1>1, <1>2 DEF PolyHash
<1> DEFINE h == Poly(B, M, s)
<1>4. h \in 0 .. M - 1 BY PolyType
<1> HIDE DEF h
<1>5. (h * 1) % M = h BY <1>4
<1>6. Len(s) - Len(s) = 0 /\ P[0] = 1 BY <1>2 DEF Powers
<1> QED BY <1>3, <1>5, <1>6 DEF h, Filled, LastHash

-----------------------------------------------------------------------------
(* The hash of the chunker: winFp is 16 bits of a hash of 23.              *)
Hash(s, a, n) == PolyHash(PolyBase, FpMod, s, a, n)

LEMMA PolynomialIs == \A w : Polynomial(w) = Poly(PolyBase, FpMod, w)
BY DEF Polynomial, Poly

LEMMA PolynomialEmpty == Polynomial(<< >>) = 0
BY PolyEmpty, PolynomialIs, Moduli

LEMMA ChunkerPowers == Powers(PolyBase, FpMod, Power)
<1>1. PolyBase \in Nat \ {0} /\ PolyMod \in Nat \ {0} /\ FpMod \in Nat \ {0} BY Moduli
<1>2. Multiple(PolyMod, FpMod) BY ChunkerAssumption DEF Multiple
<1>3. Powers(PolyBase, FpMod, PowersOf(PolyBase, PolyMod)) BY <1>1, <1>2, PowersOfTable
<1> QED BY <1>3, PowerIs

(* winFp while the window fills.                                           *)
LEMMA FillHash ==
  ASSUME NEW s \in Seq(Nat), NEW b \in Nat, Len(s) < Window,
         NEW f \in Nat, f = (Polynomial(s) * Power[Window - Len(s)]) % FpMod
  PROVE  FillWindow(f, s, b) = (Polynomial(Append(s, b)) * Power[Window - (Len(s) + 1)]) % FpMod
<1>1. /\ PolyBase \in Nat \ {0} /\ PolyMod \in Nat \ {0} /\ FpMod \in Nat \ {0} /\ Window \in Nat
      /\ Multiple(PolyMod, FpMod)
  BY Moduli, Sizes, ChunkerAssumption DEF Multiple
<1>2. f = Filled(PolyBase, FpMod, Power, Window, s) BY PolynomialIs DEF Filled
<1>3. ((Filled(PolyBase, FpMod, Power, Window, s) + b * Power[Window - Len(s) - 1]) % PolyMod) % FpMod
        = Filled(PolyBase, FpMod, Power, Window, Append(s, b))
  BY <1>1, ChunkerPowers, FillStep
<1>4. Len(Append(s, b)) = Len(s) + 1 BY AppendProperties
<1>5. Filled(PolyBase, FpMod, Power, Window, Append(s, b))
        = (Polynomial(Append(s, b)) * Power[Window - (Len(s) + 1)]) % FpMod
  BY <1>4, PolynomialIs DEF Filled
<1> QED BY <1>2, <1>3, <1>5 DEF FillWindow

(* The two forms of winFp meet where the window is full.                   *)
LEMMA FullWindow ==
  ASSUME NEW s \in Seq(Nat), Len(s) = Window
  PROVE  (Polynomial(s) * Power[Window - Len(s)]) % FpMod = Hash(s, Len(s) - Window, Window)
<1>1. Window \in Nat /\ PolyBase \in Nat \ {0} /\ FpMod \in Nat \ {0} BY Sizes, Moduli
<1>2. Filled(PolyBase, FpMod, Power, Len(s), s) = LastHash(PolyBase, FpMod, Len(s), s)
  BY <1>1, ChunkerPowers, FullStep
<1> QED BY <1>2, PolynomialIs DEF Hash, Filled, LastHash

(* winFp once the window slides.                                           *)
LEMMA SlideHash ==
  ASSUME NEW s \in Seq(Nat), NEW b \in Nat, Len(s) >= Window,
         NEW f \in Nat, f = Hash(s, Len(s) - Window, Window)
  PROVE  SlideWindow(f, s, b) = Hash(Append(s, b), (Len(s) + 1) - Window, Window)
<1>1. /\ PolyBase \in Nat \ {0} /\ PolyMod \in Nat \ {0} /\ FpMod \in Nat \ {0}
      /\ Window \in Nat \ {0} /\ Len(s) \in Nat /\ Multiple(PolyMod, FpMod)
  BY Moduli, Sizes, ChunkerAssumption DEF Multiple
<1> DEFINE out == s[Len(s) - Window + 1]
           r == Remove(out)
           y == out * Power[Window - 1]
<1>2. out \in Nat
  <2>1. Len(s) - Window + 1 \in 1 .. Len(s) BY <1>1
  <2> QED BY <2>1
<1>3. Power[Window - 1] \in Nat
  <2>1. Window - 1 \in Nat BY <1>1
  <2> QED BY <2>1, PowerValues
<1> HIDE DEF out
<1>4. y \in Nat BY <1>2, <1>3
<1>5. r = (PolyMod - (y % PolyMod)) % PolyMod BY DEF Remove
<1> HIDE DEF r, y
<1>6. r \in Nat /\ Same(FpMod, r, -y) BY <1>1, <1>4, <1>5, RemoveSame
<1>7. f = LastHash(PolyBase, FpMod, Window, s) BY DEF Hash, LastHash
<1>8. Same(FpMod, r, -Leaving(Power, Window, s)) BY <1>6 DEF y, out, Leaving
<1>9. (((LastHash(PolyBase, FpMod, Window, s) + r) * PolyBase + b) % PolyMod) % FpMod
        = LastHash(PolyBase, FpMod, Window, Append(s, b))
  BY <1>1, <1>6, <1>8, ChunkerPowers, SlideStep
<1>10. LastHash(PolyBase, FpMod, Window, Append(s, b)) = Hash(Append(s, b), (Len(s) + 1) - Window, Window)
  <2>1. Len(Append(s, b)) = Len(s) + 1 BY AppendProperties
  <2> QED BY <2>1 DEF LastHash, Hash
<1> QED BY <1>7, <1>9, <1>10 DEF r, out, SlideWindow

-----------------------------------------------------------------------------
(* Of an unfinished chunk that no read has come in the middle of: winFp is *)
(* the polynomial of its last Window bytes.                                *)
Hashed ==
  input.type = "VariableSize" /\ NextStart >= block.from =>
    /\ Len(buffer) <= Window =>
         winFp = (Polynomial(buffer) * Power[Window - Len(buffer)]) % FpMod
    /\ Len(buffer) >= Window => winFp = Hash(buffer, Len(buffer) - Window, Window)

(* The two conjuncts of ContentDefined.                                    *)
ChunkEnds(c, complete) ==
  (\A i \in DOMAIN c.data : ~ Zeroed(c, i)) =>
    /\ \A n \in 1 .. Len(c.data) - 1 : ~ Boundary(c.data, n)
    /\ complete => Boundary(c.data, Len(c.data))

ChunksEnd ==
  input.type = "VariableSize" =>
    \A k \in DOMAIN chunks : ChunkEnds(chunks[k], k < Len(chunks) \/ head = NoHead)

PendingOpen ==
  input.type = "VariableSize" /\ NextStart >= block.from =>
    \A n \in 1 .. Len(buffer) : ~ Boundary(buffer, n)

HashInv == FileInv /\ Hashed /\ ChunksEnd /\ PendingOpen

LEMMA PartsOfContent == ChunksEnd /\ PendingOpen => ContentDefined
BY DEF ChunksEnd, ChunkEnds, PendingOpen, ContentDefined

(* A boundary, by the hash that the code compares.                         *)
LEMMA BoundaryAtEnd ==
  ASSUME NEW s \in Seq(Nat), Len(s) >= Window
  PROVE  Boundary(s, Len(s)) <=> EndsHere(Len(s), Hash(s, Len(s) - Window, Window))
<1>1. Len(s) \in Nat /\ Window \in Nat BY Sizes
<1>2. (Len(s) - Window) + 1 = Len(s) - Window + 1 /\ (Len(s) - Window) + Window = Len(s)
  BY <1>1
<1>3. Hash(s, Len(s) - Window, Window) = Polynomial(SubSeq(s, Len(s) - Window + 1, Len(s)))
  BY <1>2, PolynomialIs DEF Hash, PolyHash
<1> QED BY <1>3 DEF Boundary, EndsHere

LEMMA BoundaryOfPrefix ==
  ASSUME NEW s \in Seq(Nat), NEW b \in Nat, NEW n \in 1 .. Len(s)
  PROVE  Boundary(Append(s, b), n) <=> Boundary(s, n)
<1>1. Len(s) \in Nat /\ Window \in Nat /\ MinChunk \in Nat /\ Window < MinChunk BY Sizes
<1>2. CASE n >= MinChunk
  <2> DEFINE a == n - Window
  <2>1. a \in Nat /\ a + 1 = n - Window + 1 /\ a + Window = n /\ a + Window <= Len(s)
    BY <1>1, <1>2
  <2> HIDE DEF a
  <2>2. SubSeq(Append(s, b), a + 1, a + Window) = SubSeq(s, a + 1, a + Window)
    BY <1>1, <2>1, SubSeqOfPrefix
  <2>3. SubSeq(Append(s, b), n - Window + 1, n) = SubSeq(s, n - Window + 1, n)
    BY <2>1, <2>2
  <2> QED BY <2>3 DEF Boundary
<1>3. CASE ~ (n >= MinChunk) BY <1>3 DEF Boundary
<1> QED BY <1>2, <1>3

LEMMA BufferBytes ==
  ASSUME Shape, NEW b \in Byte
  PROVE  /\ buffer \in Seq(Nat) /\ b \in Nat /\ Append(buffer, b) \in Seq(Nat)
         /\ Len(Append(buffer, b)) = Len(buffer) + 1 /\ Len(buffer) \in Nat /\ winFp \in Nat
<1>1. buffer \in Seq(Byte) /\ Len(buffer) \in Nat /\ winFp \in Nat BY Types
<1>2. buffer \in Seq(Nat) /\ b \in Nat BY <1>1, Sizes, NatSequence
<1> QED BY <1>1, <1>2, AppendProperties

LEMMA FillHashed ==
  ASSUME HashInv, FileInv', [Next]_vars, NEW b \in Byte, Fill(b) PROVE HashInv'
<1>s. Shape /\ Hashed /\ PendingOpen BY DEF HashInv, FileInv, IInv
<1>0. Take(b) /\ buffer' = Append(buffer, b) /\ chunks' = chunks /\ Len(buffer) < Window
      /\ winFp' = FillWindow(winFp, buffer, b)
  BY DEF Fill
<1>1. input' = input /\ block' = block /\ head' = head BY <1>s, <1>0, TakeFacts
<1>2. NextStart' = NextStart BY <1>0 DEF NextStart
<1>3. /\ buffer \in Seq(Nat) /\ b \in Nat /\ buffer' \in Seq(Nat)
      /\ Len(buffer') = Len(buffer) + 1 /\ Len(buffer) \in Nat /\ winFp \in Nat
      /\ Window \in Nat /\ Window < MinChunk /\ MinChunk \in Nat /\ FpMod \in Nat
  BY <1>s, <1>0, BufferBytes, Sizes, Moduli
<1>4. Hashed'
  <2> SUFFICES ASSUME input.type = "VariableSize" /\ NextStart >= block.from
               PROVE  /\ Len(buffer') <= Window =>
                           winFp' = (Polynomial(buffer') * Power[Window - Len(buffer')]) % FpMod
                      /\ Len(buffer') >= Window =>
                           winFp' = Hash(buffer', Len(buffer') - Window, Window)
    BY <1>1, <1>2 DEF Hashed
  <2>1. winFp = (Polynomial(buffer) * Power[Window - Len(buffer)]) % FpMod
    BY <1>s, <1>0, <1>3 DEF Hashed
  <2>2. winFp' = (Polynomial(buffer') * Power[Window - (Len(buffer) + 1)]) % FpMod
    BY <1>0, <1>3, <2>1, FillHash
  <2>3. winFp' = (Polynomial(buffer') * Power[Window - Len(buffer')]) % FpMod BY <1>3, <2>2
  <2>4. Len(buffer') >= Window => Len(buffer') = Window BY <1>0, <1>3
  <2> QED BY <1>3, <2>3, <2>4, FullWindow
<1>5. PendingOpen'
  <2> SUFFICES ASSUME NEW n \in 1 .. Len(buffer') PROVE ~ Boundary(buffer', n)
    BY DEF PendingOpen
  <2>1. ~ (n >= MinChunk) BY <1>0, <1>3
  <2> QED BY <2>1 DEF Boundary
<1>6. ChunksEnd' BY <1>0, <1>1, InputStays DEF HashInv, ChunksEnd, ChunkEnds, Zeroed
<1> QED BY <1>4, <1>5, <1>6 DEF HashInv

LEMMA SlideHashed ==
  ASSUME HashInv, FileInv', [Next]_vars, NEW b \in Byte, Slide(b) PROVE HashInv'
<1>s. Shape /\ Hashed /\ PendingOpen BY DEF HashInv, FileInv, IInv
<1>0. Take(b) /\ buffer' = Append(buffer, b) /\ chunks' = chunks /\ Len(buffer) >= Window
      /\ winFp' = SlideWindow(winFp, buffer, b)
      /\ ~ EndsHere(Len(buffer) + 1, SlideWindow(winFp, buffer, b))
  BY DEF Slide
<1>1. input' = input /\ block' = block /\ head' = head BY <1>s, <1>0, TakeFacts
<1>2. NextStart' = NextStart BY <1>0 DEF NextStart
<1>3. /\ buffer \in Seq(Nat) /\ b \in Nat /\ buffer' \in Seq(Nat)
      /\ Len(buffer') = Len(buffer) + 1 /\ Len(buffer) \in Nat /\ winFp \in Nat
      /\ Window \in Nat
  BY <1>s, <1>0, BufferBytes, Sizes
<1>4. ASSUME input.type = "VariableSize" /\ NextStart >= block.from
      PROVE  winFp' = Hash(buffer', Len(buffer') - Window, Window)
  <2>1. winFp = Hash(buffer, Len(buffer) - Window, Window) BY <1>s, <1>0, <1>3, <1>4 DEF Hashed
  <2>2. winFp' = Hash(Append(buffer, b), (Len(buffer) + 1) - Window, Window)
    BY <1>0, <1>3, <2>1, SlideHash
  <2> QED BY <1>0, <1>3, <2>2
<1>5. Hashed'
  <2>1. ~ (Len(buffer') <= Window) BY <1>0, <1>3
  <2> QED BY <1>1, <1>2, <1>4, <2>1 DEF Hashed
<1>6. PendingOpen'
  <2> SUFFICES ASSUME input.type = "VariableSize" /\ NextStart >= block.from,
                      NEW n \in 1 .. Len(buffer')
               PROVE  ~ Boundary(buffer', n)
    BY <1>1, <1>2 DEF PendingOpen
  <2>1. CASE n = Len(buffer')
    <3>1. ~ EndsHere(Len(buffer'), Hash(buffer', Len(buffer') - Window, Window))
      BY <1>0, <1>3, <1>4
    <3>2. Len(buffer') >= Window BY <1>0, <1>3
    <3> QED BY <1>3, <2>1, <3>1, <3>2, BoundaryAtEnd
  <2>2. CASE n \in 1 .. Len(buffer)
    <3>1. ~ Boundary(buffer, n) BY <1>s, <2>2 DEF PendingOpen
    <3> QED BY <1>0, <1>3, <2>2, <3>1, BoundaryOfPrefix
  <2> QED BY <1>3, <2>1, <2>2
<1>7. ChunksEnd' BY <1>0, <1>1, InputStays DEF HashInv, ChunksEnd, ChunkEnds, Zeroed
<1> QED BY <1>5, <1>6, <1>7 DEF HashInv

(* What is inserted ends where it should, and what was there is not the    *)
(* last any more.                                                          *)
LEMMA InsertEnds ==
  ASSUME Shape, [Next]_vars, ChunksEnd, head = NoHead,
         NEW data \in Seq(Byte), InsertMQ(data),
         input.type = "VariableSize" =>
           ChunkEnds([at |-> NextStart, data |-> data], head' = NoHead)
  PROVE  ChunksEnd'
<1>1. /\ chunks' \in Seq(Piece)
      /\ Len(chunks') = Len(chunks) + 1
      /\ \A k \in 1 .. Len(chunks) : chunks'[k] = chunks[k]
      /\ chunks'[Len(chunks')].data = data
      /\ chunks'[Len(chunks')].at = NextStart
  BY InsertFacts
<1>2. chunks \in Seq(Piece) /\ Len(chunks) \in Nat BY Types
<1>3. SUFFICES ASSUME input.type = "VariableSize", NEW k \in 1 .. Len(chunks')
               PROVE  ChunkEnds(chunks'[k], k < Len(chunks') \/ head' = NoHead)
  BY <1>1, InputStays DEF ChunksEnd, ChunkEnds, Zeroed
<1>4. CASE k \in 1 .. Len(chunks)
  <2>1. ChunkEnds(chunks[k], TRUE)
    <3>1. k \in DOMAIN chunks /\ (k < Len(chunks) \/ head = NoHead) BY <1>2, <1>4
    <3>2. ChunkEnds(chunks[k], k < Len(chunks) \/ head = NoHead) BY <1>3, <3>1 DEF ChunksEnd
    <3> QED BY <3>1, <3>2 DEF ChunkEnds
  <2> QED BY <1>1, <1>4, <2>1 DEF ChunkEnds
<1>5. CASE k = Len(chunks')
  <2>1. ~ (k < Len(chunks')) BY <1>1, <1>2, <1>5
  <2> QED BY <1>1, <1>3, <1>5, <2>1 DEF ChunkEnds, Zeroed
<1> QED BY <1>1, <1>2, <1>3, <1>4, <1>5

(* A chunk that a read came in the middle of is zeroed from its first byte *)
(* on.                                                                     *)
LEMMA CutByRead ==
  ASSUME Shape, Blocks, input.type = "VariableSize", NextStart \in Nat,
         NEW data \in Seq(Byte), Len(data) > 0, NextStart < block.from,
         block.from < NextStart + Len(data) \/ block.from = Len(File), NEW complete
  PROVE  ChunkEnds([at |-> NextStart, data |-> data], complete)
<1>1. block.from \in Nat /\ Len(data) \in Nat BY Types
<1>2. 1 \in 1 .. Len(data) /\ NextStart + 1 <= block.from BY <1>1
<1>3. Zeroed([at |-> NextStart, data |-> data], 1) BY <1>2, ReadZeroes
<1> QED BY <1>2, <1>3 DEF ChunkEnds

LEMMA CutChunkHashed ==
  ASSUME HashInv, FileInv', [Next]_vars, NEW b \in Byte, CutChunk(b) PROVE HashInv'
<1>s. Shape /\ Blocks /\ Pending /\ Hashed /\ PendingOpen /\ ChunksEnd BY DEF HashInv, FileInv, IInv
<1>0. Take(b) /\ InsertMQ(Append(buffer, b)) /\ buffer' = << >> /\ winFp' = 0
      /\ Len(buffer) >= Window
      /\ EndsHere(Len(buffer) + 1, SlideWindow(winFp, buffer, b))
  BY DEF CutChunk
<1>1. /\ head' = head /\ head = NoHead /\ taken < Len(block.bytes)
      /\ input.type = "VariableSize" /\ Append(buffer, b) \in Seq(Byte)
  BY <1>s, <1>0, TakeFacts
<1> DEFINE d == Append(buffer, b)
<1>3. /\ buffer \in Seq(Nat) /\ b \in Nat /\ d \in Seq(Nat)
      /\ Len(d) = Len(buffer) + 1 /\ Len(buffer) \in Nat /\ winFp \in Nat
      /\ Window \in Nat \ {0} /\ FpMod \in Nat \ {0}
      /\ NextStart \in Nat /\ block.from \in Nat /\ taken \in Nat
  BY <1>s, BufferBytes, Sizes, Moduli, NextStartType, Types
<1>4. Hashed'
  <2>1. Len(buffer') = 0 /\ ~ (Len(buffer') >= Window) /\ Window - Len(buffer') = Window
    BY <1>0, <1>3
  <2>2. Polynomial(buffer') = 0 BY <1>0, PolynomialEmpty
  <2>3. Power[Window] \in Nat BY <1>3, PowerValues
  <2>4. 0 * Power[Window] = 0 BY <2>3
  <2>5. 0 % FpMod = 0 BY <1>3
  <2>6. (Polynomial(buffer') * Power[Window - Len(buffer')]) % FpMod = 0
    BY <2>1, <2>2, <2>4, <2>5
  <2> QED BY <1>0, <2>1, <2>6 DEF Hashed
<1>5. PendingOpen'
  <2>1. Len(buffer') = 0 BY <1>0
  <2> QED BY <2>1 DEF PendingOpen
<1>6. ChunkEnds([at |-> NextStart, data |-> d], TRUE)
  <2>1. CASE NextStart >= block.from
    <3>1. winFp = Hash(buffer, Len(buffer) - Window, Window)
      BY <1>s, <1>0, <1>1, <2>1 DEF Hashed
    <3>2. SlideWindow(winFp, buffer, b) = Hash(d, (Len(buffer) + 1) - Window, Window)
      BY <1>0, <1>3, <3>1, SlideHash
    <3>3. ASSUME NEW n \in 1 .. Len(d) - 1 PROVE ~ Boundary(d, n)
      <4>1. n \in 1 .. Len(buffer) BY <1>3
      <4>2. ~ Boundary(buffer, n) BY <1>s, <1>1, <2>1, <4>1 DEF PendingOpen
      <4> QED BY <1>3, <4>1, <4>2, BoundaryOfPrefix
    <3> HIDE DEF d
    <3>4. EndsHere(Len(d), Hash(d, Len(d) - Window, Window)) BY <1>0, <1>3, <3>2
    <3>5. Len(d) >= Window BY <1>0, <1>3
    <3>6. Boundary(d, Len(d)) BY <1>3, <3>4, <3>5, BoundaryAtEnd
    <3> QED BY <3>3, <3>6 DEF ChunkEnds
  <2>2. CASE NextStart < block.from
    <3>1. NextStart + Len(buffer) = block.from + taken BY <1>s, <1>1 DEF Pending
    <3> HIDE DEF d
    <3>2. block.from < NextStart + Len(d) /\ Len(d) > 0 BY <1>3, <3>1
    <3>3. d \in Seq(Byte) BY <1>1 DEF d
    <3> QED BY <1>s, <1>1, <1>3, <2>2, <3>2, <3>3, CutByRead
  <2>3. NextStart >= block.from \/ NextStart < block.from BY <1>3
  <2> QED BY <2>1, <2>2, <2>3
<1>7. ChunksEnd'
  <2>1. ChunkEnds([at |-> NextStart, data |-> d], head' = NoHead)
    BY <1>6 DEF ChunkEnds
  <2> QED BY <1>s, <1>0, <1>1, <2>1, InsertEnds
<1> QED BY <1>4, <1>5, <1>7 DEF HashInv

LEMMA FinishHashed ==
  ASSUME HashInv, FileInv', [Next]_vars, Finish PROVE HashInv'
<1>s. Shape /\ Blocks /\ Pending /\ Hashed /\ PendingOpen /\ ChunksEnd BY DEF HashInv, FileInv, IInv
<1>0. /\ head = NoHead /\ AllRead /\ buffer' = << >> /\ winFp' = 0
      /\ input' = input /\ block' = block
      /\ IF buffer = << >> THEN chunks' = chunks ELSE InsertMQ(buffer)
  BY DEF Finish
<1>h. head' # NoHead
  <2>1. head' = [chunks |-> Len(chunks'), size |-> size] BY DEF Finish
  <2>2. chunks' \in Seq(Piece) /\ size \in Nat
    <3>1. Shape' BY DEF FileInv, IInv
    <3>2. chunks' \in Seq([at : Nat, data : Seq(Byte)]) BY <3>1 DEF Shape, TypeOK
    <3> QED BY <1>s, <3>2, Types DEF Piece
  <2>3. head' \in [chunks : Nat, size : Int] BY <2>1, <2>2
  <2> QED BY <2>3, ChunkerAssumption
<1>3. /\ buffer \in Seq(Byte) /\ Len(buffer) \in Nat
      /\ Window \in Nat \ {0} /\ FpMod \in Nat \ {0}
      /\ NextStart \in Nat /\ block.from \in Nat /\ taken \in Nat
      /\ Len(block.bytes) \in Nat /\ Len(File) \in Nat
  BY <1>s, Sizes, Moduli, NextStartType, Types, FileType
<1>4. Hashed'
  <2>1. Len(buffer') = 0 /\ ~ (Len(buffer') >= Window) /\ Window - Len(buffer') = Window
    BY <1>0, <1>3
  <2>2. Polynomial(buffer') = 0 BY <1>0, PolynomialEmpty
  <2>3. Power[Window] \in Nat BY <1>3, PowerValues
  <2>4. 0 * Power[Window] = 0 BY <2>3
  <2>5. 0 % FpMod = 0 BY <1>3
  <2>6. (Polynomial(buffer') * Power[Window - Len(buffer')]) % FpMod = 0
    BY <2>1, <2>2, <2>4, <2>5
  <2> QED BY <1>0, <2>1, <2>6 DEF Hashed
<1>5. PendingOpen'
  <2>1. Len(buffer') = 0 BY <1>0
  <2> QED BY <2>1 DEF PendingOpen
<1>6. ChunksEnd'
  <2>1. CASE buffer = << >> \/ input.type # "VariableSize"
    <3>1. chunks' = chunks BY <1>s, <1>0, <2>1 DEF Shape
    <3> QED BY <1>s, <1>0, <1>h, <3>1, InputStays DEF ChunksEnd, ChunkEnds, Zeroed
  <2>2. CASE buffer # << >> /\ input.type = "VariableSize"
    <3>1. InsertMQ(buffer) /\ Len(buffer) > 0 BY <1>0, <1>3, <2>2
    <3>2. CASE NextStart >= block.from
      <4>1. \A n \in 1 .. Len(buffer) - 1 : ~ Boundary(buffer, n)
        BY <1>s, <1>3, <2>2, <3>2 DEF PendingOpen
      <4>2. ChunkEnds([at |-> NextStart, data |-> buffer], head' = NoHead)
        BY <1>h, <4>1 DEF ChunkEnds
      <4> QED BY <1>s, <1>0, <1>3, <3>1, <4>2, InsertEnds
    <3>3. CASE NextStart < block.from
      <4>1. NextStart + Len(buffer) = block.from + taken /\ taken <= Len(block.bytes)
        BY <1>s, <2>2 DEF Pending
      <4>2. eof /\ BlockDone BY <1>0, <2>2 DEF AllRead
      <4>3. block.from + Len(block.bytes) = Len(File) /\ taken >= Len(block.bytes)
        BY <1>s, <2>2, <4>2 DEF Blocks, BlockDone
      <4>4. block.from < NextStart + Len(buffer) \/ block.from = Len(File)
        BY <1>3, <4>1, <4>3
      <4>5. ChunkEnds([at |-> NextStart, data |-> buffer], head' = NoHead)
        BY <1>s, <1>3, <2>2, <3>1, <3>3, <4>4, CutByRead
      <4> QED BY <1>s, <1>0, <1>3, <3>1, <4>5, InsertEnds
    <3> QED BY <1>3, <3>2, <3>3
  <2> QED BY <2>1, <2>2
<1> QED BY <1>4, <1>5, <1>6 DEF HashInv

LEMMA ReadBlockHashed ==
  ASSUME HashInv, FileInv', [Next]_vars, ReadBlock PROVE HashInv'
<1>s. Shape /\ Pending /\ Hashed /\ ChunksEnd BY DEF HashInv, FileInv, IInv
<1>0. /\ head' = head /\ BlockDone /\ chunks' = chunks /\ winFp' = winFp /\ input' = input
      /\ block'.from = block.from + Len(block.bytes)
      /\ buffer' = [i \in 1 .. Len(buffer) |-> 0]
  BY DEF ReadBlock
<1>1. /\ block.from \in Nat /\ Len(block.bytes) \in Nat /\ taken \in Nat /\ Len(buffer) \in Nat
      /\ buffer \in Seq(Byte) /\ NextStart \in Nat
  BY <1>s, Types, NextStartType
<1>2. NextStart' = NextStart BY <1>0 DEF NextStart
<1>3. ChunksEnd' BY <1>s, <1>0, InputStays DEF ChunksEnd, ChunkEnds, Zeroed
<1>4. ASSUME input.type = "VariableSize", NextStart >= block'.from
      PROVE  buffer = << >> /\ buffer' = << >> /\ NextStart >= block.from
  <2>1. taken <= Len(block.bytes) /\ NextStart + Len(buffer) = block.from + taken
    BY <1>s, <1>4 DEF Pending
  <2>2. Len(buffer) = 0 /\ NextStart >= block.from BY <1>0, <1>1, <1>4, <2>1
  <2>3. buffer = << >> BY <1>1, <2>2
  <2>4. buffer' = << >> BY <1>0, <2>2
  <2> QED BY <2>2, <2>3, <2>4
<1>5. Hashed'
  <2>1. CASE input.type = "VariableSize" /\ NextStart >= block'.from
    <3>1. buffer' = buffer /\ NextStart >= block.from BY <1>4, <2>1
    <3> QED BY <1>s, <1>0, <2>1, <3>1 DEF Hashed
  <2>2. CASE ~ (input.type = "VariableSize" /\ NextStart >= block'.from)
    BY <1>0, <1>2, <2>2 DEF Hashed
  <2> QED BY <2>1, <2>2
<1>6. PendingOpen'
  <2> SUFFICES ASSUME input.type = "VariableSize", NextStart >= block'.from
               PROVE  \A n \in 1 .. Len(buffer') : ~ Boundary(buffer', n)
    BY <1>0, <1>2 DEF PendingOpen
  <2>1. Len(buffer') = 0 BY <1>4
  <2> QED BY <2>1
<1> QED BY <1>3, <1>5, <1>6 DEF HashInv

LEMMA InitHashInv == Init => HashInv
<1> SUFFICES ASSUME Init PROVE HashInv OBVIOUS
<1>1. FileInv BY InitFileInv
<1>2. buffer = << >> /\ winFp = 0 /\ chunks = << >> /\ Len(buffer) = 0 BY DEF Init
<1>3. Window \in Nat \ {0} /\ FpMod \in Nat \ {0} BY Sizes, Moduli
<1>4. ~ (Len(buffer) >= Window) /\ Window - Len(buffer) = Window BY <1>2, <1>3
<1>5. Power[Window] \in Nat BY <1>3, PowerValues
<1>6. 0 * Power[Window] = 0 /\ 0 % FpMod = 0 BY <1>3, <1>5
<1>7. Polynomial(buffer) = 0 BY <1>2, PolynomialEmpty
<1>8. Hashed BY <1>2, <1>4, <1>6, <1>7 DEF Hashed
<1> QED BY <1>1, <1>2, <1>8 DEF HashInv, ChunksEnd, PendingOpen

LEMMA StepHashInv == HashInv /\ FileInv' /\ [Next]_vars => HashInv'
<1> SUFFICES ASSUME HashInv, FileInv', [Next]_vars PROVE HashInv' OBVIOUS
<1>1. CASE ReadBlock BY <1>1, ReadBlockHashed
<1>2. ASSUME NEW b \in Byte, Fill(b) PROVE HashInv' BY <1>2, FillHashed
<1>3. ASSUME NEW b \in Byte, Slide(b) PROVE HashInv' BY <1>3, SlideHashed
<1>4. ASSUME NEW b \in Byte, CutChunk(b) PROVE HashInv' BY <1>4, CutChunkHashed
<1>5. CASE CutFixed \/ CutFixedTail \/ SkipLine \/ CutLine
  <2>1. input.type # "VariableSize"
    BY <1>5 DEF CutFixed, CutFixedTail, SkipLine, CutLine, AtLine
  <2> QED BY <2>1, InputStays DEF HashInv, Hashed, ChunksEnd, PendingOpen
<1>6. CASE Finish BY <1>6, FinishHashed
<1>7. CASE UNCHANGED vars
  <2>1. /\ input' = input /\ block' = block /\ buffer' = buffer /\ winFp' = winFp
        /\ chunks' = chunks /\ head' = head /\ NextStart' = NextStart
    BY <1>7 DEF vars, NextStart
  <2> QED BY <2>1, InputStays DEF HashInv, Hashed, ChunksEnd, ChunkEnds, Zeroed, PendingOpen
<1> QED BY <1>1, <1>2, <1>3, <1>4, <1>5, <1>6, <1>7 DEF Next

(* A chunk's own bytes decide where it ends, for every window, base and    *)
(* mask and every file: the tables, the filling of the window and the      *)
(* 16 bits of winFp come to the polynomial of the last bytes, and nothing  *)
(* of the chunk before is left in it, unless a read came in its middle.    *)
THEOREM ContentDecides == Spec => []ContentDefined
<1>1. HashInv => ContentDefined BY PartsOfContent DEF HashInv
<1>2. HashInv => FileInv BY DEF HashInv
<1>3. FileInv => IInv BY DEF FileInv
<1> QED BY InitHashInv, StepHashInv, InitFileInv, StepFileInv, InitIInv, StepIInv, <1>1, <1>2, <1>3, PTL
        DEF Spec

-----------------------------------------------------------------------------
(***************************************************************************)
(* The features of the chunks.                                             *)
(***************************************************************************)
LEMMA FeatureSizes ==
  /\ SubWindow \in Nat \ {0} /\ SubBase \in Nat \ {0} /\ SubMod \in Nat \ {0}
  /\ LowMod \in Nat \ {0}
  /\ mSet \in Seq(Nat) /\ aSet \in Seq(Nat) /\ Len(mSet) = Len(aSet)
  /\ Stacks \subseteq [0 .. MaxChunk - 1 -> 0 .. SubMod - 1]
BY FeaturesAssumption

LEMMA SubPowers ==
  /\ Powers(SubBase, SubMod, SubPower) /\ Multiple(SubMod, SubMod)
  /\ \A n \in Nat : SubPower[n] \in Nat
<1>1. SubBase \in Nat \ {0} /\ SubMod \in Nat \ {0} BY FeatureSizes
<1>2. SubPower = PowersOf(SubBase, SubMod) BY DEF SubPower, PowersOf
<1>3. SubMod % SubMod = 0 BY <1>1
<1>4. Multiple(SubMod, SubMod) BY <1>3 DEF Multiple
<1>5. Powers(SubBase, SubMod, PowersOf(SubBase, SubMod)) BY <1>1, <1>4, PowersOfTable
<1>6. Powers(SubBase, SubMod, SubPower) BY <1>2, <1>5
<1> QED BY <1>4, <1>6 DEF Powers

LEMMA SubRemoveType == ASSUME NEW v \in Nat PROVE SubRemove(v) \in Nat
<1>1. SubMod \in Nat \ {0} /\ SubWindow - 1 \in Nat BY FeatureSizes
<1>2. SubPower[SubWindow - 1] \in Nat BY <1>1, SubPowers
<1> DEFINE y == v * SubPower[SubWindow - 1]
<1>3. y \in Nat BY <1>2
<1> HIDE DEF y
<1>4. (SubMod - (y % SubMod)) % SubMod \in Nat BY <1>1, <1>3
<1> QED BY <1>4 DEF SubRemove, y

(* One byte of the rolling hash of the features.                           *)
SubStep(d, i, y) ==
  IF i <= SubWindow THEN (y + d[i] * SubPower[SubWindow - i]) % SubMod
  ELSE ((y + SubRemove(d[i - SubWindow])) * SubBase + d[i]) % SubMod

LEMMA SubStepType ==
  ASSUME NEW d \in Seq(Nat), NEW i \in 1 .. Len(d), NEW y \in Nat
  PROVE  SubStep(d, i, y) \in Nat
<1>1. SubMod \in Nat \ {0} /\ SubBase \in Nat /\ SubWindow \in Nat \ {0} BY FeatureSizes
<1>2. d[i] \in Nat BY ElementType
<1>3. CASE i <= SubWindow
  <2>1. SubWindow - i \in Nat BY <1>1, <1>3
  <2>2. SubPower[SubWindow - i] \in Nat BY <2>1, SubPowers
  <2> DEFINE z == y + d[i] * SubPower[SubWindow - i]
  <2>3. z \in Nat
    <3> DEFINE u == d[i]
               v == SubPower[SubWindow - i]
    <3>1. u \in Nat /\ v \in Nat BY <1>2, <2>2
    <3> HIDE DEF u, v
    <3>2. u * v \in Nat BY <3>1
    <3>3. y + u * v \in Nat BY <3>2
    <3> QED BY <3>3 DEF u, v
  <2> HIDE DEF z
  <2>4. z % SubMod \in Nat BY <1>1, <2>3
  <2> QED BY <1>3, <2>4 DEF SubStep, z
<1>4. CASE ~ (i <= SubWindow)
  <2>1. i - SubWindow \in 1 .. Len(d) BY <1>1, <1>4
  <2>2. d[i - SubWindow] \in Nat BY <2>1, ElementType
  <2>3. SubRemove(d[i - SubWindow]) \in Nat BY <2>2, SubRemoveType
  <2> DEFINE z == (y + SubRemove(d[i - SubWindow])) * SubBase + d[i]
  <2>4. z \in Nat
    <3> DEFINE u == y + SubRemove(d[i - SubWindow])
               v == d[i]
    <3>1. u \in Nat /\ v \in Nat BY <1>2, <2>3
    <3> HIDE DEF u, v
    <3>2. u * SubBase \in Nat BY <1>1, <3>1
    <3>3. u * SubBase + v \in Nat BY <3>1, <3>2
    <3> QED BY <3>3 DEF u, v
  <2> HIDE DEF z
  <2>5. z % SubMod \in Nat BY <1>1, <2>4
  <2> QED BY <1>4, <2>5 DEF SubStep, z
<1> QED BY <1>3, <1>4

LEMMA WinFpValues ==
  ASSUME NEW d \in Seq(Nat)
  PROVE  /\ \A i \in 0 .. Len(d) : WinFp(d)[i] \in Nat
         /\ WinFp(d)[0] = 0
         /\ \A i \in 1 .. Len(d) : WinFp(d)[i] = SubStep(d, i, WinFp(d)[i - 1])
<1>1. Len(d) \in Nat OBVIOUS
<1> DEFINE next(i, y) == IF i \in 1 .. Len(d) THEN SubStep(d, i, y) ELSE 0
           step == [x \in Nat \X Nat |-> next(x[1] + 1, x[2])]
<1>2. \A i \in Nat, y \in Nat : next(i, y) \in Nat BY SubStepType
<1>3. step \in [Nat \X Nat -> Nat] /\ \A i, y \in Nat : step[<<i, y>>] = next(i + 1, y)
  <2> HIDE DEF next
  <2>1. \A x \in Nat \X Nat : x[1] + 1 \in Nat /\ x[2] \in Nat OBVIOUS
  <2> QED BY <1>2, <2>1
<1> HIDE DEF step
<1>4. PICK g \in [0 .. Len(d) -> Nat] :
        g[0] = 0 /\ \A i \in 1 .. Len(d) : g[i] = step[<<i - 1, g[i - 1]>>]
  <2>1. 0 \in Nat OBVIOUS
  <2>2. step \in [Nat \X Nat -> Nat] BY <1>3
  <2>3. \E h \in [0 .. Len(d) -> Nat] : FollowsTo(h, 0, step, Len(d))
    BY <1>1, <2>1, <2>2, RecursionUpTo
  <2> QED BY <2>3 DEF FollowsTo
<1>5. ASSUME NEW i \in 1 .. Len(d) PROVE g[i] = SubStep(d, i, g[i - 1])
  <2>1. i - 1 \in Nat /\ (i - 1) + 1 = i /\ i - 1 \in 0 .. Len(d) BY <1>1
  <2>2. g[i - 1] \in Nat BY <2>1
  <2>3. step[<<i - 1, g[i - 1]>>] = next(i, g[i - 1]) BY <1>3, <2>1, <2>2
  <2> QED BY <1>4, <2>3
<1>6. g = [i \in 0 .. Len(d) |->
             IF i = 0 THEN 0
             ELSE IF i <= SubWindow
                  THEN (g[i - 1] + d[i] * SubPower[SubWindow - i]) % SubMod
                  ELSE ((g[i - 1] + SubRemove(d[i - SubWindow])) * SubBase + d[i]) % SubMod]
  <2>1. \A i \in 0 .. Len(d) : g[i] = IF i = 0 THEN 0 ELSE SubStep(d, i, g[i - 1])
    <3>1. \A i \in 0 .. Len(d) : i # 0 => i \in 1 .. Len(d) BY <1>1
    <3> QED BY <1>4, <1>5, <3>1
  <2>2. g = [i \in 0 .. Len(d) |-> IF i = 0 THEN 0 ELSE SubStep(d, i, g[i - 1])] BY <2>1
  <2> QED BY <2>2 DEF SubStep
<1> DEFINE p == WinFp(d)
<1>7. p = [i \in 0 .. Len(d) |->
             IF i = 0 THEN 0
             ELSE IF i <= SubWindow
                  THEN (p[i - 1] + d[i] * SubPower[SubWindow - i]) % SubMod
                  ELSE ((p[i - 1] + SubRemove(d[i - SubWindow])) * SubBase + d[i]) % SubMod]
  <2>1. p = CHOOSE h : h =
          [i \in 0 .. Len(d) |->
             IF i = 0 THEN 0
             ELSE IF i <= SubWindow
                  THEN (h[i - 1] + d[i] * SubPower[SubWindow - i]) % SubMod
                  ELSE ((h[i - 1] + SubRemove(d[i - SubWindow])) * SubBase + d[i]) % SubMod]
    BY DEF WinFp
  <2> QED BY <1>6, <2>1, Zenon
<1> HIDE DEF p
<1>8. p[0] = 0 BY <1>1, <1>7
<1>9. ASSUME NEW i \in 1 .. Len(d) PROVE p[i] = SubStep(d, i, p[i - 1])
  <2>1. i \in 0 .. Len(d) /\ i # 0 BY <1>1
  <2> QED BY <1>7, <2>1 DEF SubStep
<1>10. \A i \in 0 .. Len(d) : p[i] \in Nat
  <2> DEFINE S == {i \in Nat : i <= Len(d) => p[i] \in Nat}
  <2>1. 0 \in S BY <1>8
  <2>2. ASSUME NEW n \in Nat, n \in S PROVE n + 1 \in S
    <3> SUFFICES ASSUME n + 1 <= Len(d) PROVE p[n + 1] \in Nat OBVIOUS
    <3>1. n + 1 \in 1 .. Len(d) /\ (n + 1) - 1 = n /\ p[n] \in Nat BY <1>1, <2>2
    <3>2. p[n + 1] = SubStep(d, n + 1, p[n]) BY <1>9, <3>1
    <3> QED BY <3>1, <3>2, SubStepType
  <2> HIDE DEF S
  <2>3. \A n \in Nat : n \in S BY <2>1, <2>2, Induction
  <2> QED BY <1>1, <2>3 DEF S
<1> QED BY <1>8, <1>9, <1>10 DEF p

(* The first i bytes of d.                                                 *)
Prefix(d, i) == SubSeq(d, 1, i)

LEMMA PrefixFacts ==
  ASSUME NEW d \in Seq(Nat), NEW i \in 0 .. Len(d)
  PROVE  /\ Prefix(d, i) \in Seq(Nat) /\ Len(Prefix(d, i)) = i
         /\ \A k \in 1 .. i : Prefix(d, i)[k] = d[k]
<1>1. Len(d) \in Nat OBVIOUS
<1>2. 0 \in Nat /\ i \in Nat /\ 0 <= i /\ i <= Len(d) BY <1>1
<1> DEFINE u == SubSeq(d, 0 + 1, i)
<1>3. u \in Seq(Nat) /\ Len(u) = i - 0 /\ \A k \in 1 .. i - 0 : u[k] = d[0 + k]
  BY <1>2, SubSeqFacts
<1>4. u = Prefix(d, i)
  <2>1. 0 + 1 = 1 OBVIOUS
  <2> QED BY <2>1 DEF Prefix
<1> HIDE DEF u
<1>5. i - 0 = i /\ \A k \in 1 .. i : 0 + k = k BY <1>2
<1> QED BY <1>3, <1>4, <1>5

LEMMA PrefixGrows ==
  ASSUME NEW d \in Seq(Nat), NEW i \in Nat, NEW j \in Nat, j = i + 1, j <= Len(d)
  PROVE  Prefix(d, j) = Append(Prefix(d, i), d[j])
<1>1. Len(d) \in Nat OBVIOUS
<1>2. 0 \in Nat /\ 0 + i + 1 <= Len(d) /\ 0 + i + 1 = j /\ 0 + (i + 1) = j /\ 0 + i = i /\ 0 + 1 = 1
  BY <1>1
<1>3. SubSeq(d, 0 + 1, 0 + (i + 1)) = Append(SubSeq(d, 0 + 1, 0 + i), d[0 + i + 1])
  BY <1>2, SubSeqAppend
<1> QED BY <1>2, <1>3 DEF Prefix

LEMMA WindowOfPrefix ==
  ASSUME NEW d \in Seq(Nat), NEW j \in 0 .. Len(d), NEW w \in 0 .. j
  PROVE  SubSeq(Prefix(d, j), (j - w) + 1, j) = SubSeq(d, (j - w) + 1, j)
<1>1. Len(d) \in Nat OBVIOUS
<1> DEFINE a == j - w
           s == Prefix(d, j)
           u == SubSeq(s, a + 1, j)
           v == SubSeq(d, a + 1, j)
<1>2. a \in Nat /\ j \in Nat /\ a <= j /\ j <= Len(d) BY <1>1
<1>3. s \in Seq(Nat) /\ Len(s) = j /\ \A k \in 1 .. j : s[k] = d[k] BY PrefixFacts
<1> HIDE DEF a, s
<1>4. s \in Seq(Nat) /\ a \in Nat /\ j \in Nat /\ a <= j /\ j <= Len(s) BY <1>2, <1>3
<1>5. u \in Seq(Nat) /\ Len(u) = j - a /\ \A i \in 1 .. j - a : u[i] = s[a + i]
  BY <1>4, SubSeqFacts
<1>6. v \in Seq(Nat) /\ Len(v) = j - a /\ \A i \in 1 .. j - a : v[i] = d[a + i]
  BY <1>2, SubSeqFacts
<1> HIDE DEF u, v
<1>7. ASSUME NEW i \in 1 .. Len(u) PROVE u[i] = v[i]
  <2>1. i \in 1 .. j - a /\ a + i \in 1 .. j BY <1>2, <1>5
  <2> QED BY <1>3, <1>5, <1>6, <2>1
<1>8. u = v BY <1>5, <1>6, <1>7, SameElements
<1> QED BY <1>8 DEF u, v, s, a

(* The fingerprint before the byte after a window is the polynomial of it. *)
LEMMA WinFpHashed ==
  ASSUME NEW d \in Seq(Nat)
  PROVE  \A i \in 0 .. Len(d) :
           /\ i <= SubWindow =>
                WinFp(d)[i] = Filled(SubBase, SubMod, SubPower, SubWindow, Prefix(d, i))
           /\ i >= SubWindow =>
                WinFp(d)[i] = LastHash(SubBase, SubMod, SubWindow, Prefix(d, i))
<1>0. /\ SubWindow \in Nat \ {0} /\ SubBase \in Nat \ {0} /\ SubMod \in Nat \ {0}
      /\ Len(d) \in Nat
  BY FeatureSizes
<1> DEFINE fp == WinFp(d)
           fill(i) == Filled(SubBase, SubMod, SubPower, SubWindow, Prefix(d, i))
           last(i) == LastHash(SubBase, SubMod, SubWindow, Prefix(d, i))
           Holds(i) == (i <= SubWindow => fp[i] = fill(i)) /\ (i >= SubWindow => fp[i] = last(i))
           S == {i \in Nat : i <= Len(d) => Holds(i)}
<1>1. ASSUME NEW i \in 0 .. Len(d), i = SubWindow PROVE fill(i) = last(i)
  <2>1. Prefix(d, i) \in Seq(Nat) /\ Len(Prefix(d, i)) = SubWindow BY <1>1, PrefixFacts
  <2>2. Powers(SubBase, SubMod, SubPower) BY SubPowers
  <2> DEFINE s == Prefix(d, i)
  <2>3. s \in Seq(Nat) /\ Len(s) = SubWindow BY <2>1
  <2> HIDE DEF s
  <2>4. Filled(SubBase, SubMod, SubPower, Len(s), s) = LastHash(SubBase, SubMod, Len(s), s)
    BY <1>0, <2>2, <2>3, FullStep
  <2> QED BY <2>3, <2>4 DEF s
<1>2. 0 \in S
  <2>1. 0 \in 0 .. Len(d) /\ ~ (0 >= SubWindow) BY <1>0
  <2>2. fp[0] = 0 BY WinFpValues
  <2>3. Prefix(d, 0) = << >> /\ Len(Prefix(d, 0)) = 0
    <3>1. Prefix(d, 0) \in Seq(Nat) /\ Len(Prefix(d, 0)) = 0 BY <2>1, PrefixFacts
    <3> QED BY <3>1
  <2>4. SubPower[SubWindow] \in Nat BY <1>0, SubPowers
  <2>5. SubWindow - 0 = SubWindow /\ 0 * SubPower[SubWindow] = 0 /\ 0 % SubMod = 0 BY <1>0, <2>4
  <2>6. Poly(SubBase, SubMod, << >>) = 0 BY <1>0, PolyEmpty
  <2>7. fill(0) = 0 BY <2>3, <2>5, <2>6 DEF Filled
  <2> HIDE DEF fp, fill, last
  <2> QED BY <2>1, <2>2, <2>7
<1>3. ASSUME NEW n \in Nat, n \in S PROVE n + 1 \in S
  <2> DEFINE j == n + 1
  <2> SUFFICES ASSUME j <= Len(d) PROVE Holds(j) OBVIOUS
  <2>1. /\ n \in 0 .. Len(d) /\ j \in 1 .. Len(d) /\ j \in 0 .. Len(d) /\ j - 1 = n
        /\ j \in Nat /\ j = n + 1 /\ j <= Len(d)
    BY <1>0
  <2>2. Holds(n) BY <1>3, <2>1
  <2> DEFINE s == Prefix(d, n)
             b == d[j]
  <2>3. s \in Seq(Nat) /\ Len(s) = n /\ \A k \in 1 .. n : s[k] = d[k] BY <2>1, PrefixFacts
  <2>4. b \in Nat BY <2>1, ElementType
  <2>5. Prefix(d, j) = Append(s, b) BY <2>1, PrefixGrows
  <2>6. fp[j] = SubStep(d, j, fp[n]) BY <2>1, WinFpValues
  <2>7. Powers(SubBase, SubMod, SubPower) /\ Multiple(SubMod, SubMod) BY SubPowers
  <2>8. \A x \in Int : (x % SubMod) % SubMod = x % SubMod BY <1>0, RemainderOfRemainder
  <2>f. fp[n] \in Nat BY <2>1, WinFpValues
  <2> HIDE DEF j, b, fp, s
  <2>9. CASE n < SubWindow
    <3>1. j <= SubWindow /\ SubWindow - Len(s) - 1 = SubWindow - j BY <1>0, <2>1, <2>3, <2>9
    <3>2. fp[n] = Filled(SubBase, SubMod, SubPower, SubWindow, s)
      <4>1. n <= SubWindow BY <1>0, <2>1, <2>9
      <4> QED BY <2>2, <4>1 DEF s
    <3>3. ((Filled(SubBase, SubMod, SubPower, SubWindow, s) + b * SubPower[SubWindow - Len(s) - 1]) % SubMod) % SubMod
            = Filled(SubBase, SubMod, SubPower, SubWindow, Append(s, b))
      <4>1. Len(s) < SubWindow BY <2>3, <2>9
      <4>2. /\ SubBase \in Nat \ {0} /\ SubMod \in Nat \ {0} /\ SubWindow \in Nat
            /\ s \in Seq(Nat) /\ b \in Nat
        BY <1>0, <2>3, <2>4
      <4> QED BY <2>7, <4>1, <4>2, FillStep
    <3> DEFINE x == fp[n] + b * SubPower[SubWindow - j]
    <3>4. x \in Int
      <4>1. SubWindow - j \in Nat BY <1>0, <2>1, <3>1
      <4>2. SubPower[SubWindow - j] \in Nat BY <4>1, SubPowers
      <4>3. b * SubPower[SubWindow - j] \in Nat BY <2>4, <4>2
      <4> QED BY <2>f, <4>3
    <3>5. fp[j] = x % SubMod BY <2>6, <3>1 DEF SubStep, b
    <3>6. (x % SubMod) % SubMod = Filled(SubBase, SubMod, SubPower, SubWindow, Append(s, b))
      BY <3>1, <3>2, <3>3
    <3> HIDE DEF x
    <3>7. fp[j] = fill(j) BY <2>5, <2>8, <3>4, <3>5, <3>6
    <3> HIDE DEF fill, last
    <3>8. j >= SubWindow => j = SubWindow BY <1>0, <2>1, <3>1
    <3> QED BY <1>1, <2>1, <3>7, <3>8
  <2>10. CASE n >= SubWindow
    <3>1. ~ (j <= SubWindow) /\ j - SubWindow \in 1 .. n /\ Len(s) - SubWindow + 1 = j - SubWindow
      BY <1>0, <2>1, <2>3, <2>10
    <3> DEFINE out == d[j - SubWindow]
               r == SubRemove(out)
               y == out * SubPower[SubWindow - 1]
    <3>2. out \in Nat
      <4>1. j - SubWindow \in 1 .. Len(d) BY <1>0, <2>1, <3>1
      <4> QED BY <4>1, ElementType
    <3>3. fp[n] = LastHash(SubBase, SubMod, SubWindow, s) BY <2>2, <2>10 DEF s
    <3>4. s[Len(s) - SubWindow + 1] = out BY <2>3, <3>1
    <3>5. r \in Nat /\ Same(SubMod, r, -Leaving(SubPower, SubWindow, s))
      <4>1. SubWindow - 1 \in Nat BY <1>0
      <4>2. SubPower[SubWindow - 1] \in Nat BY <4>1, SubPowers
      <4> HIDE DEF out
      <4>3. y \in Nat BY <3>2, <4>2
      <4>4. r = (SubMod - (y % SubMod)) % SubMod BY DEF SubRemove
      <4>5. y = Leaving(SubPower, SubWindow, s) BY <3>4 DEF Leaving
      <4> HIDE DEF r, y
      <4>6. r \in Nat /\ Same(SubMod, r, -y) BY <1>0, <2>7, <4>3, <4>4, RemoveSame
      <4> QED BY <4>5, <4>6
    <3> HIDE DEF r, out
    <3>6. (((LastHash(SubBase, SubMod, SubWindow, s) + r) * SubBase + b) % SubMod) % SubMod
            = LastHash(SubBase, SubMod, SubWindow, Append(s, b))
      <4>1. Len(s) >= SubWindow BY <2>3, <2>10
      <4>2. /\ SubBase \in Nat \ {0} /\ SubMod \in Nat \ {0} /\ SubWindow \in Nat \ {0}
            /\ s \in Seq(Nat) /\ b \in Nat
        BY <1>0, <2>3, <2>4
      <4> QED BY <2>7, <3>5, <4>1, <4>2, SlideStep
    <3> DEFINE x == (fp[n] + r) * SubBase + b
    <3>7. x \in Int
      <4> DEFINE u == fp[n] + r
      <4>1. u \in Nat BY <2>f, <3>5
      <4> HIDE DEF u
      <4>2. u * SubBase \in Nat BY <1>0, <4>1
      <4>3. u * SubBase + b \in Int BY <2>4, <4>2
      <4> QED BY <4>3 DEF u
    <3>8. fp[j] = x % SubMod BY <2>6, <3>1 DEF SubStep, b, r, out
    <3>9. (x % SubMod) % SubMod = LastHash(SubBase, SubMod, SubWindow, Append(s, b)) BY <3>3, <3>6
    <3> HIDE DEF x
    <3>10. fp[j] = last(j) BY <2>5, <2>8, <3>7, <3>8, <3>9
    <3> HIDE DEF last, fill
    <3> QED BY <3>1, <3>10
  <2> QED BY <1>0, <2>9, <2>10
<1> HIDE DEF S
<1>4. \A n \in Nat : n \in S BY <1>2, <1>3, Induction
<1> HIDE DEF fp, fill, last
<1>5. \A i \in 0 .. Len(d) : Holds(i) BY <1>0, <1>4 DEF S
<1> QED BY <1>5 DEF fp, fill, last

LEMMA WindowsFacts ==
  ASSUME NEW d \in Seq(Nat)
  PROVE  \A j \in SubWindow .. Len(d) - 1 :
           WinFp(d)[j] = Windows(d)[j] /\ WinFp(d)[j] \in Nat
<1> TAKE j \in SubWindow .. Len(d) - 1
<1>1. /\ SubWindow \in Nat /\ Len(d) \in Nat /\ j \in Nat /\ j \in 0 .. Len(d) /\ j >= SubWindow
      /\ SubWindow \in 0 .. j
  BY FeatureSizes
<1> DEFINE s == Prefix(d, j)
<1>2. WinFp(d)[j] = LastHash(SubBase, SubMod, SubWindow, s) BY <1>1, WinFpHashed
<1>3. s \in Seq(Nat) /\ Len(s) = j BY <1>1, PrefixFacts
<1>4. SubSeq(s, (j - SubWindow) + 1, j) = SubSeq(d, (j - SubWindow) + 1, j) BY <1>1, WindowOfPrefix
<1> HIDE DEF s
<1>5. LastHash(SubBase, SubMod, SubWindow, s) = Poly(SubBase, SubMod, SubSeq(s, (j - SubWindow) + 1, j))
  <2>1. (j - SubWindow) + SubWindow = j BY <1>1
  <2> QED BY <1>3, <2>1 DEF LastHash, PolyHash
<1>6. Windows(d)[j] = WindowHash(SubSeq(d, j - SubWindow + 1, j)) BY DEF Windows
<1>7. WindowHash(SubSeq(d, j - SubWindow + 1, j)) = Poly(SubBase, SubMod, SubSeq(d, j - SubWindow + 1, j))
  BY DEF WindowHash, Poly
<1>8. WinFp(d)[j] \in Nat BY <1>1, WinFpValues
<1> QED BY <1>2, <1>4, <1>5, <1>6, <1>7, <1>8

-----------------------------------------------------------------------------
(* The greatest of numbers with a bound.                                   *)
LEMMA Greatest ==
  ASSUME NEW T \in SUBSET Nat, T # {}, NEW b \in Nat, \A x \in T : x <= b
  PROVE  Max(T) \in T /\ \A x \in T : x <= Max(T)
<1> DEFINE U == {c \in Nat : \A x \in T : x <= c}
<1>1. U \in SUBSET Nat /\ U # {} OBVIOUS
<1>2. PICK m \in U : \A c \in U : m <= c BY <1>1, Least
<1>3. m \in Nat /\ \A x \in T : x <= m OBVIOUS
<1>4. m \in T
  <2> SUFFICES ASSUME m \notin T PROVE FALSE OBVIOUS
  <2>1. PICK x \in T : TRUE OBVIOUS
  <2>2. x \in Nat /\ x <= m /\ x # m BY <1>3
  <2>3. m - 1 \in Nat BY <1>3, <2>2
  <2>4. \A z \in T : z <= m - 1
    <3> TAKE z \in T
    <3>1. z \in Nat /\ z <= m /\ z # m BY <1>3
    <3> QED BY <1>3, <3>1
  <2>5. m - 1 \in U BY <2>3, <2>4
  <2> QED BY <1>2, <1>3, <2>5
<1> HIDE DEF U
<1>5. m \in T /\ \A x \in T : m >= x BY <1>3, <1>4
<1>6. Max(T) \in T /\ \A x \in T : Max(T) >= x BY <1>5 DEF Max
<1>7. ASSUME NEW x \in T PROVE x <= Max(T)
  <2>1. x \in Nat /\ Max(T) \in Nat /\ Max(T) >= x BY <1>6
  <2> QED BY <2>1
<1> QED BY <1>6, <1>7

LEMMA LeastIs ==
  ASSUME NEW T \in SUBSET Nat, T # {}
  PROVE  Min(T) \in T
<1>1. \E m \in T : \A n \in T : m <= n BY Least
<1> QED BY <1>1 DEF Min

(* m * fp + a, modulo mod.                                                 *)
Pi(k, mod, x) == (mSet[k] * x + aSet[k]) % mod
Values(list, n, k, mod) == {0} \cup {Pi(k, mod, list[j]) : j \in 0 .. n - 1}

LEMMA TargetIs ==
  ASSUME NEW list, NEW n, NEW k, NEW mod
  PROVE  LET best == Max(Values(list, n, k, mod)) IN
         Target(list, n, k, mod) =
           IF best = 0 THEN 0 ELSE list[Min({j \in 0 .. n - 1 : Pi(k, mod, list[j]) = best})]
BY DEF Target, Values, Pi

LEMMA PiType ==
  ASSUME NEW k \in 1 .. Len(mSet), NEW mod \in Nat \ {0}, NEW x \in Nat
  PROVE  Pi(k, mod, x) \in Nat /\ Pi(k, mod, x) <= mod
<1>1. mSet \in Seq(Nat) /\ aSet \in Seq(Nat) /\ k \in 1 .. Len(aSet) BY FeatureSizes
<1> DEFINE m == mSet[k]
           a == aSet[k]
<1>2. m \in Nat /\ a \in Nat BY <1>1, ElementType
<1> HIDE DEF m, a
<1>3. m * x \in Nat BY <1>2
<1> DEFINE y == m * x + a
<1>4. y \in Nat BY <1>2, <1>3
<1> HIDE DEF y
<1>5. y % mod \in Nat /\ y % mod <= mod BY <1>4
<1> QED BY <1>5 DEF y, m, a, Pi

(* A feature is what it should be, whatever the list.                      *)
LEMMA TargetWins ==
  ASSUME NEW n \in Nat, NEW list, \A j \in 0 .. n - 1 : list[j] \in Nat,
         NEW k \in 1 .. Len(mSet), NEW mod \in Nat \ {0}
  PROVE  Wins(Target(list, n, k, mod), list, 0 .. n - 1, k, mod)
<1> DEFINE T == Values(list, n, k, mod)
           best == Max(T)
           J == {j \in 0 .. n - 1 : Pi(k, mod, list[j]) = best}
<1>1. \A j \in 0 .. n - 1 : Pi(k, mod, list[j]) \in Nat /\ Pi(k, mod, list[j]) <= mod BY PiType
<1>2. T \in SUBSET Nat /\ T # {} /\ \A x \in T : x <= mod BY <1>1 DEF Values
<1>3. best \in T /\ \A x \in T : x <= best
  <2> HIDE DEF T
  <2>1. mod \in Nat OBVIOUS
  <2> QED BY <1>2, <2>1, Greatest
<1>4. \A j \in 0 .. n - 1 : Pi(k, mod, list[j]) <= best BY <1>3 DEF Values
<1>5. Target(list, n, k, mod) = IF best = 0 THEN 0 ELSE list[Min(J)] BY TargetIs
<1>6. best \in Nat BY <1>2, <1>3
<1>7. best \in {0} \cup {Pi(k, mod, list[j]) : j \in 0 .. n - 1} BY <1>3 DEF Values
<1> HIDE DEF T, best
<1>8. CASE best = 0
  <2>1. \A j \in 0 .. n - 1 : Pi(k, mod, list[j]) = 0 BY <1>1, <1>4, <1>8
  <2> QED BY <1>5, <1>8, <2>1 DEF Wins, Pi
<1>9. CASE best # 0
  <2>1. J # {} /\ J \in SUBSET Nat BY <1>7, <1>9
  <2> DEFINE m == Min(J)
  <2>2. m \in J
    <3> HIDE DEF J
    <3> QED BY <2>1, LeastIs
  <2>3. m \in 0 .. n - 1 /\ Pi(k, mod, list[m]) = best BY <2>2
  <2>4. Target(list, n, k, mod) = list[m] BY <1>5, <1>9
  <2> HIDE DEF m, J
  <2>5. \A i \in 0 .. n - 1 : Pi(k, mod, list[i]) <= Pi(k, mod, list[m]) BY <1>4, <2>3
  <2> QED BY <2>3, <2>4, <2>5 DEF Wins, Pi
<1> QED BY <1>8, <1>9

(* Only the entries that are looked at count.                              *)
Agree(list, other, n) == \A j \in 0 .. n - 1 : list[j] = other[j] /\ list[j] \in Nat

LEMMA TargetOfEntries ==
  ASSUME NEW n \in Nat, NEW list, NEW other, Agree(list, other, n),
         NEW k \in 1 .. Len(mSet), NEW mod \in Nat \ {0}
  PROVE  Target(list, n, k, mod) = Target(other, n, k, mod)
<1> DEFINE T == Values(list, n, k, mod)
           best == Max(T)
           J == {j \in 0 .. n - 1 : Pi(k, mod, list[j]) = best}
           I == {j \in 0 .. n - 1 : Pi(k, mod, other[j]) = best}
<1>0. \A j \in 0 .. n - 1 : list[j] = other[j] /\ list[j] \in Nat BY DEF Agree
<1>1. Values(other, n, k, mod) = T
  <2>1. {Pi(k, mod, list[j]) : j \in 0 .. n - 1} = {Pi(k, mod, other[j]) : j \in 0 .. n - 1}
    BY <1>0
  <2> QED BY <2>1 DEF Values
<1>2. Target(list, n, k, mod) = IF best = 0 THEN 0 ELSE list[Min(J)] BY TargetIs
<1>3. Target(other, n, k, mod) = IF best = 0 THEN 0 ELSE other[Min(I)] BY <1>1, TargetIs
<1>4. CASE best = 0 BY <1>2, <1>3, <1>4
<1>5. CASE best # 0
  <2>1. \A j \in 0 .. n - 1 : Pi(k, mod, list[j]) \in Nat /\ Pi(k, mod, list[j]) <= mod BY <1>0, PiType
  <2>2. T \in SUBSET Nat /\ T # {} /\ \A x \in T : x <= mod BY <2>1 DEF Values
  <2>3. best \in T
    <3> HIDE DEF T
    <3>1. mod \in Nat OBVIOUS
    <3> QED BY <2>2, <3>1, Greatest
  <2>4. best \in {0} \cup {Pi(k, mod, list[j]) : j \in 0 .. n - 1} BY <2>3 DEF Values
  <2> HIDE DEF T, best
  <2>5. J # {} /\ J \in SUBSET Nat BY <1>5, <2>4
  <2>6. J = I BY <1>0
  <2> DEFINE m == Min(J)
  <2>7. m \in J
    <3> HIDE DEF J, I
    <3> QED BY <2>5, LeastIs
  <2>8. m \in 0 .. n - 1 /\ list[m] = other[m] BY <1>0, <2>7
  <2> QED BY <1>2, <1>3, <1>5, <2>6, <2>8
<1> QED BY <1>4, <1>5

LEMMA WinsOfEntries ==
  ASSUME NEW js, NEW list, NEW other, \A j \in js : list[j] = other[j], NEW k, NEW mod, NEW fp,
         Wins(fp, list, js, k, mod)
  PROVE  Wins(fp, other, js, k, mod)
BY DEF Wins

LEMMA TargetsOfEntries ==
  ASSUME NEW n \in Nat, NEW list, NEW other, Agree(list, other, n)
  PROVE  \A f \in DOMAIN mSet : Target(list, n, f, SubMod) = Target(other, n, f, SubMod)
<1> TAKE f \in DOMAIN mSet
<1>1. f \in 1 .. Len(mSet) /\ SubMod \in Nat \ {0} BY FeatureSizes
<1>2. \A k \in 1 .. Len(mSet) : \A mod \in Nat \ {0} : Target(list, n, k, mod) = Target(other, n, k, mod)
  BY TargetOfEntries
<1> QED BY <1>1, <1>2

-----------------------------------------------------------------------------
(* The array of a thread.                                                  *)
Arrays == [0 .. MaxChunk - 1 -> Nat]

LEMMA ListGenFacts ==
  ASSUME NEW d \in Seq(Nat), NEW list \in Arrays
  PROVE  /\ FpListGen(d, list) \in Arrays
         /\ \A j \in 0 .. MaxChunk - 1 : j < SubWindow => FpListGen(d, list)[j] = list[j]
         /\ \A j \in 0 .. MaxChunk - 1 : j \in SubWindow .. Len(d) - 1 =>
              FpListGen(d, list)[j] = WinFp(d)[j]
<1>1. SubWindow \in Nat /\ Len(d) \in Nat /\ MaxChunk \in Nat BY FeatureSizes, Sizes
<1>2. DOMAIN list = 0 .. MaxChunk - 1 /\ \A j \in 0 .. MaxChunk - 1 : list[j] \in Nat BY DEF Arrays
<1>3. FpListGen(d, list) = [i \in 0 .. MaxChunk - 1 |->
         IF i \in SubWindow .. Len(d) - 1 THEN WinFp(d)[i] ELSE list[i]]
  BY <1>2 DEF FpListGen
<1>4. \A j \in SubWindow .. Len(d) - 1 : WinFp(d)[j] \in Nat BY WindowsFacts
<1>5. FpListGen(d, list) \in Arrays BY <1>2, <1>3, <1>4 DEF Arrays
<1>6. \A j \in 0 .. MaxChunk - 1 : j < SubWindow => j \notin SubWindow .. Len(d) - 1 BY <1>1
<1> QED BY <1>3, <1>5, <1>6

LEMMA ChunkData ==
  ASSUME Shape, ChunkBounds, NEW k \in 1 .. Len(chunks)
  PROVE  /\ chunks[k].data \in Seq(Byte) /\ chunks[k].data \in Seq(Nat)
         /\ Len(chunks[k].data) \in 0 .. MaxChunk /\ k \in DOMAIN chunks
<1>1. chunks \in Seq(Piece) BY Types
<1>2. chunks[k] \in Piece BY <1>1, ElementType
<1>3. chunks[k].data \in Seq(Byte) BY <1>2 DEF Piece
<1>4. chunks[k].data \in Seq(Nat) BY <1>3, Sizes, NatSequence
<1>5. k \in DOMAIN chunks BY <1>1
<1>6. Len(chunks[k].data) \in 0 .. MaxChunk BY <1>5 DEF ChunkBounds
<1> QED BY <1>3, <1>4, <1>5, <1>6

LEMMA ListValues ==
  ASSUME Shape, ChunkBounds, NEW stack \in Stacks
  PROVE  /\ ListAfter(stack)[0] = stack
         /\ \A k \in 0 .. Len(chunks) : ListAfter(stack)[k] \in Arrays
         /\ \A k \in 1 .. Len(chunks) :
              ListAfter(stack)[k] = FpListGen(chunks[k].data, ListAfter(stack)[k - 1])
<1>1. Len(chunks) \in Nat BY Types
<1>2. stack \in Arrays
  <2>1. SubMod \in Nat /\ stack \in [0 .. MaxChunk - 1 -> 0 .. SubMod - 1] BY FeatureSizes
  <2> QED BY <2>1 DEF Arrays
<1> DEFINE next(k, l) == IF k \in 1 .. Len(chunks) THEN FpListGen(chunks[k].data, l) ELSE l
           step == [x \in Nat \X Arrays |-> next(x[1] + 1, x[2])]
<1>3. \A k \in Nat : \A l \in Arrays : next(k, l) \in Arrays
  <2> TAKE k \in Nat
  <2> TAKE l \in Arrays
  <2>1. CASE k \in 1 .. Len(chunks)
    <3>1. chunks[k].data \in Seq(Nat) BY <2>1, ChunkData
    <3> QED BY <2>1, <3>1, ListGenFacts
  <2>2. CASE k \notin 1 .. Len(chunks) BY <2>2
  <2> QED BY <2>1, <2>2
<1>4. step \in [Nat \X Arrays -> Arrays]
      /\ \A k \in Nat : \A l \in Arrays : step[<<k, l>>] = next(k + 1, l)
  <2> HIDE DEF next
  <2>1. \A x \in Nat \X Arrays : x[1] + 1 \in Nat /\ x[2] \in Arrays OBVIOUS
  <2> QED BY <1>3, <2>1
<1> HIDE DEF step
<1>5. PICK g \in [0 .. Len(chunks) -> Arrays] : FollowsTo(g, stack, step, Len(chunks))
  BY <1>1, <1>2, <1>4, RecursionUpTo
<1>6. ASSUME NEW k \in 1 .. Len(chunks) PROVE g[k] = FpListGen(chunks[k].data, g[k - 1])
  <2>1. k - 1 \in Nat /\ (k - 1) + 1 = k /\ k - 1 \in 0 .. Len(chunks) BY <1>1
  <2>2. g[k - 1] \in Arrays BY <2>1
  <2>3. step[<<k - 1, g[k - 1]>>] = next(k, g[k - 1]) BY <1>4, <2>1, <2>2
  <2> QED BY <1>5, <2>3 DEF FollowsTo
<1>7. g = [k \in 0 .. Len(chunks) |-> IF k = 0 THEN stack ELSE FpListGen(chunks[k].data, g[k - 1])]
  <2>1. \A k \in 0 .. Len(chunks) : k # 0 => k \in 1 .. Len(chunks) BY <1>1
  <2>2. \A k \in 0 .. Len(chunks) :
          g[k] = IF k = 0 THEN stack ELSE FpListGen(chunks[k].data, g[k - 1])
    BY <1>5, <1>6, <2>1 DEF FollowsTo
  <2> QED BY <2>2
<1> DEFINE p == ListAfter(stack)
<1>8. p = [k \in 0 .. Len(chunks) |-> IF k = 0 THEN stack ELSE FpListGen(chunks[k].data, p[k - 1])]
  <2>1. p = CHOOSE h : h =
          [k \in 0 .. Len(chunks) |-> IF k = 0 THEN stack ELSE FpListGen(chunks[k].data, h[k - 1])]
    BY DEF ListAfter
  <2> QED BY <1>7, <2>1, Zenon
<1> HIDE DEF p
<1>9. p[0] = stack BY <1>1, <1>8
<1>10. ASSUME NEW k \in 1 .. Len(chunks) PROVE p[k] = FpListGen(chunks[k].data, p[k - 1])
  <2>1. k \in 0 .. Len(chunks) /\ k # 0 BY <1>1
  <2> QED BY <1>8, <2>1
<1>11. \A k \in 0 .. Len(chunks) : p[k] \in Arrays
  <2> DEFINE S == {k \in Nat : k <= Len(chunks) => p[k] \in Arrays}
  <2>1. 0 \in S BY <1>2, <1>9
  <2>2. ASSUME NEW n \in Nat, n \in S PROVE n + 1 \in S
    <3> SUFFICES ASSUME n + 1 <= Len(chunks) PROVE p[n + 1] \in Arrays OBVIOUS
    <3>1. n + 1 \in 1 .. Len(chunks) /\ (n + 1) - 1 = n /\ p[n] \in Arrays BY <1>1, <2>2
    <3>2. p[n + 1] = FpListGen(chunks[n + 1].data, p[n]) BY <1>10, <3>1
    <3>3. chunks[n + 1].data \in Seq(Nat) BY <3>1, ChunkData
    <3> QED BY <3>1, <3>2, <3>3, ListGenFacts
  <2> HIDE DEF S
  <2>3. \A n \in Nat : n \in S BY <2>1, <2>2, Induction
  <2> QED BY <1>1, <2>3 DEF S
<1> QED BY <1>9, <1>10, <1>11 DEF p

(* The first entries are the stack's for good, and the others that are read *)
(* are the chunk's own.                                                    *)
OwnEntries(stack, d) ==
  [j \in 0 .. Len(d) - 1 |-> IF j < SubWindow THEN stack[j] ELSE Windows(d)[j]]

LEMMA ListEntries ==
  ASSUME Shape, ChunkBounds, NEW stack \in Stacks, NEW k \in 1 .. Len(chunks)
  PROVE  \A j \in 0 .. Len(chunks[k].data) - 1 :
           /\ ListAfter(stack)[k][j] = OwnEntries(stack, chunks[k].data)[j]
           /\ ListAfter(stack)[k][j] \in Nat
<1> DEFINE p == ListAfter(stack)
           d == chunks[k].data
<1>0. /\ SubWindow \in Nat /\ MaxChunk \in Nat /\ Len(chunks) \in Nat
      /\ d \in Seq(Nat) /\ Len(d) \in Nat /\ Len(d) <= MaxChunk
  <2>1. SubWindow \in Nat /\ MaxChunk \in Nat BY FeatureSizes, Sizes
  <2>2. Len(chunks) \in Nat BY Types
  <2>3. d \in Seq(Nat) /\ Len(d) \in 0 .. MaxChunk BY ChunkData
  <2> HIDE DEF d
  <2> QED BY <2>1, <2>2, <2>3
<1>1. /\ p[0] = stack /\ \A i \in 0 .. Len(chunks) : p[i] \in Arrays
      /\ \A i \in 1 .. Len(chunks) : p[i] = FpListGen(chunks[i].data, p[i - 1])
  BY ListValues
<1>2. \A i \in 1 .. Len(chunks) : chunks[i].data \in Seq(Nat) BY ChunkData
<1> HIDE DEF p
<1>3. ASSUME NEW j \in 0 .. MaxChunk - 1, j < SubWindow
      PROVE  \A i \in 0 .. Len(chunks) : p[i][j] = stack[j]
  <2> DEFINE S == {i \in Nat : i <= Len(chunks) => p[i][j] = stack[j]}
  <2>1. 0 \in S BY <1>1
  <2>2. ASSUME NEW n \in Nat, n \in S PROVE n + 1 \in S
    <3> SUFFICES ASSUME n + 1 <= Len(chunks) PROVE p[n + 1][j] = stack[j] OBVIOUS
    <3>1. /\ n + 1 \in 1 .. Len(chunks) /\ (n + 1) - 1 = n /\ n \in 0 .. Len(chunks)
          /\ p[n][j] = stack[j]
      BY <1>0, <2>2
    <3>2. p[n + 1] = FpListGen(chunks[n + 1].data, p[n]) BY <1>1, <3>1
    <3>3. chunks[n + 1].data \in Seq(Nat) /\ p[n] \in Arrays BY <1>1, <1>2, <3>1
    <3>4. FpListGen(chunks[n + 1].data, p[n])[j] = p[n][j] BY <1>3, <3>3, ListGenFacts
    <3> QED BY <3>1, <3>2, <3>4
  <2> HIDE DEF S
  <2>3. \A n \in Nat : n \in S BY <2>1, <2>2, Induction
  <2> QED BY <1>0, <2>3 DEF S
<1>4. ASSUME NEW j \in 0 .. Len(d) - 1
      PROVE  p[k][j] = OwnEntries(stack, d)[j] /\ p[k][j] \in Nat
  <2>1. j \in 0 .. MaxChunk - 1 /\ j \in Nat /\ k \in 0 .. Len(chunks) /\ k - 1 \in 0 .. Len(chunks)
    BY <1>0
  <2>2. p[k][j] \in Nat BY <1>1, <2>1 DEF Arrays
  <2>3. OwnEntries(stack, d)[j] = IF j < SubWindow THEN stack[j] ELSE Windows(d)[j]
    BY DEF OwnEntries
  <2>4. CASE j < SubWindow BY <1>3, <2>1, <2>2, <2>3, <2>4
  <2>5. CASE ~ (j < SubWindow)
    <3>1. j \in SubWindow .. Len(d) - 1 BY <1>0, <2>1, <2>5
    <3>2. p[k - 1] \in Arrays /\ p[k] = FpListGen(d, p[k - 1]) BY <1>1, <2>1
    <3> HIDE DEF d
    <3>3. FpListGen(d, p[k - 1])[j] = WinFp(d)[j] BY <1>0, <2>1, <3>1, <3>2, ListGenFacts
    <3>4. WinFp(d)[j] = Windows(d)[j] BY <1>0, <3>1, WindowsFacts
    <3> QED BY <2>2, <2>3, <2>5, <3>2, <3>3, <3>4
  <2> QED BY <2>4, <2>5
<1> QED BY <1>4 DEF p

LEMMA SeedWins ==
  ASSUME Shape, ChunkBounds, NEW s \in Stacks, NEW k \in 1 .. Len(chunks), NEW f \in DOMAIN mSet
  PROVE  LET d == chunks[k].data IN
         Wins(Seed(s, k)[f], OwnEntries(s, d), 0 .. Len(d) - 1, f, SubMod)
<1> DEFINE d == chunks[k].data
           n == Len(d)
           list == ListAfter(s)[k]
<1>1. f \in 1 .. Len(mSet) /\ SubMod \in Nat \ {0} BY FeatureSizes
<1>2. n \in Nat BY ChunkData
<1>3. \A j \in 0 .. n - 1 : list[j] = OwnEntries(s, d)[j] /\ list[j] \in Nat BY ListEntries
<1>4. Seed(s, k)[f] = Target(list, n, f, SubMod) BY DEF Seed, ExtractSFList
<1> HIDE DEF list, n, d
<1>5. Wins(Target(list, n, f, SubMod), list, 0 .. n - 1, f, SubMod)
  <2>1. \A j \in 0 .. n - 1 : list[j] \in Nat BY <1>3
  <2> QED BY <1>1, <1>2, <2>1, TargetWins
<1>6. Wins(Target(list, n, f, SubMod), OwnEntries(s, d), 0 .. n - 1, f, SubMod)
  <2>1. \A j \in 0 .. n - 1 : list[j] = OwnEntries(s, d)[j] BY <1>3
  <2> QED BY <1>5, <2>1, WinsOfEntries
<1> QED BY <1>4, <1>6 DEF n, d

LEMMA SeedsEqual ==
  ASSUME Shape, ChunkBounds, NEW s \in Stacks, NEW t \in Stacks,
         NEW k \in 1 .. Len(chunks), NEW l \in 1 .. Len(chunks),
         chunks[l].data = chunks[k].data, \A j \in 0 .. SubWindow - 1 : s[j] = t[j]
  PROVE  Seed(t, l) = Seed(s, k)
<1> DEFINE d == chunks[k].data
           n == Len(d)
           list == ListAfter(s)[k]
           other == ListAfter(t)[l]
<1>1. SubMod \in Nat \ {0} /\ SubWindow \in Nat BY FeatureSizes
<1>2. n \in Nat BY ChunkData
<1>3. \A j \in 0 .. n - 1 : list[j] = OwnEntries(s, d)[j] /\ list[j] \in Nat BY ListEntries
<1>4. \A j \in 0 .. n - 1 : other[j] = OwnEntries(t, d)[j]
  <2>1. \A j \in 0 .. Len(chunks[l].data) - 1 : other[j] = OwnEntries(t, chunks[l].data)[j]
    BY ListEntries
  <2>2. chunks[l].data = d OBVIOUS
  <2> HIDE DEF other
  <2> QED BY <2>1, <2>2
<1>5. Seed(s, k) = [f \in DOMAIN mSet |-> Target(list, n, f, SubMod)] BY DEF Seed, ExtractSFList
<1>6. Seed(t, l) = [f \in DOMAIN mSet |-> Target(other, n, f, SubMod)] BY DEF Seed, ExtractSFList
<1> HIDE DEF list, other, d, n
<1>7. \A j \in 0 .. n - 1 : list[j] = other[j]
  <2> TAKE j \in 0 .. n - 1
  <2>1. OwnEntries(s, d)[j] = IF j < SubWindow THEN s[j] ELSE Windows(d)[j] BY DEF OwnEntries, n
  <2>2. OwnEntries(t, d)[j] = IF j < SubWindow THEN t[j] ELSE Windows(d)[j] BY DEF OwnEntries, n
  <2>3. j < SubWindow => s[j] = t[j]
    <3>1. j < SubWindow => j \in 0 .. SubWindow - 1 BY <1>1, <1>2
    <3> QED BY <3>1
  <2> QED BY <1>3, <1>4, <2>1, <2>2, <2>3
<1>8. Agree(list, other, n) BY <1>3, <1>7 DEF Agree
<1>9. \A f \in DOMAIN mSet : Target(list, n, f, SubMod) = Target(other, n, f, SubMod)
  BY <1>2, <1>8, TargetsOfEntries
<1> QED BY <1>5, <1>6, <1>9

(* What the key server is asked by is the content of a chunk: it depends   *)
(* on the chunk's bytes, and on what of the stack the fingerprinter never  *)
(* overwrites, for every window, base, set of features and order of the    *)
(* chunks.                                                                 *)
THEOREM SeedIsOfContent == Spec => []SeedOfContent
<1>1. IInv => SeedOfContent
  <2> SUFFICES ASSUME Shape, ChunkBounds PROVE SeedOfContent BY DEF IInv
  <2>1. chunks \in Seq(Piece) BY Types
  <2>2. DOMAIN chunks = 1 .. Len(chunks) BY <2>1
  <2> SUFFICES ASSUME NEW s \in Stacks, NEW k \in DOMAIN chunks
               PROVE  LET d == chunks[k].data
                          n == Len(d)
                          list == [j \in 0 .. n - 1 |-> IF j < SubWindow THEN s[j] ELSE Windows(d)[j]]
                      IN  /\ \A f \in DOMAIN mSet :
                               Wins(Seed(s, k)[f], list, 0 .. n - 1, f, SubMod)
                          /\ \A t \in Stacks, l \in DOMAIN chunks :
                               /\ chunks[l].data = d
                               /\ \A j \in 0 .. SubWindow - 1 : s[j] = t[j]
                               => Seed(t, l) = Seed(s, k)
    BY DEF SeedOfContent
  <2>k. k \in 1 .. Len(chunks) BY <2>2
  <2>3. ASSUME NEW f \in DOMAIN mSet
        PROVE  LET d == chunks[k].data
                   n == Len(d)
                   list == [j \in 0 .. n - 1 |-> IF j < SubWindow THEN s[j] ELSE Windows(d)[j]]
               IN  Wins(Seed(s, k)[f], list, 0 .. n - 1, f, SubMod)
    BY <2>k, SeedWins DEF OwnEntries
  <2>4. ASSUME NEW t \in Stacks, NEW l \in DOMAIN chunks, chunks[l].data = chunks[k].data,
               \A j \in 0 .. SubWindow - 1 : s[j] = t[j]
        PROVE  Seed(t, l) = Seed(s, k)
    <3>1. l \in 1 .. Len(chunks) BY <2>2
    <3> QED BY <2>4, <2>k, <3>1, SeedsEqual
  <2> QED BY <2>3, <2>4
<1> QED BY <1>1, InitIInv, StepIInv, PTL DEF Spec

-----------------------------------------------------------------------------
(* The features that the Simulator takes from a chunk.                     *)
LEMMA WinsElsewhere ==
  ASSUME NEW n \in Nat, NEW w \in Nat, NEW list, NEW other,
         \A j \in 0 .. n - 1 : list[j] = other[j + w],
         NEW k, NEW mod, NEW fp, Wins(fp, list, 0 .. n - 1, k, mod)
  PROVE  Wins(fp, other, w .. w + n - 1, k, mod)
<1>1. \A i \in w .. w + n - 1 : i - w \in 0 .. n - 1 /\ (i - w) + w = i OBVIOUS
<1>2. \A i \in w .. w + n - 1 : other[i] = list[i - w] BY <1>1
<1>3. CASE \E j \in 0 .. n - 1 : fp = list[j] /\ \A i \in 0 .. n - 1 : Pi(k, mod, list[i]) <= Pi(k, mod, fp)
  <2>1. PICK j \in 0 .. n - 1 :
          fp = list[j] /\ \A i \in 0 .. n - 1 : Pi(k, mod, list[i]) <= Pi(k, mod, fp)
    BY <1>3
  <2>2. j + w \in w .. w + n - 1 /\ fp = other[j + w] BY <2>1
  <2>3. \A i \in w .. w + n - 1 : Pi(k, mod, other[i]) <= Pi(k, mod, fp) BY <1>1, <1>2, <2>1
  <2> QED BY <2>2, <2>3 DEF Wins, Pi
<1>4. CASE fp = 0 /\ \A i \in 0 .. n - 1 : Pi(k, mod, list[i]) = 0
  <2>1. \A i \in w .. w + n - 1 : Pi(k, mod, other[i]) = 0 BY <1>1, <1>2, <1>4
  <2> QED BY <1>4, <2>1 DEF Wins, Pi
<1>5. \/ \E j \in 0 .. n - 1 : fp = list[j] /\ \A i \in 0 .. n - 1 : Pi(k, mod, list[i]) <= Pi(k, mod, fp)
      \/ fp = 0 /\ \A i \in 0 .. n - 1 : Pi(k, mod, list[i]) = 0
  BY DEF Wins, Pi
<1> QED BY <1>3, <1>4, <1>5

LEMMA FeatureOfWindows ==
  ASSUME NEW d \in Seq(Nat), NEW f \in DOMAIN mSet
  PROVE  Wins(GetFeatureList(d)[f], Windows(d), DOMAIN Windows(d), f, LowMod)
<1>0. SubWindow \in Nat /\ Len(d) \in Nat /\ f \in 1 .. Len(mSet) /\ LowMod \in Nat \ {0}
  BY FeatureSizes
<1> DEFINE list == FpVector(d)
           n == IF Len(d) > SubWindow THEN Len(d) - SubWindow ELSE 0
<1>1. n \in Nat /\ 0 .. n - 1 = 0 .. Len(d) - SubWindow - 1
      /\ SubWindow .. Len(d) - 1 = SubWindow .. SubWindow + n - 1
  <2>1. CASE Len(d) > SubWindow
    <3>1. SubWindow + (Len(d) - SubWindow) - 1 = Len(d) - 1 BY <1>0
    <3> QED BY <1>0, <2>1, <3>1
  <2>2. CASE ~ (Len(d) > SubWindow) BY <1>0, <2>2
  <2> QED BY <2>1, <2>2
<1> HIDE DEF n
<1>2. list = [j \in 0 .. n - 1 |-> WinFp(d)[j + SubWindow]] BY <1>1 DEF FpVector
<1>3. Windows(d) = [j \in SubWindow .. SubWindow + n - 1 |-> WindowHash(SubSeq(d, j - SubWindow + 1, j))]
  BY <1>1 DEF Windows
<1>4. DOMAIN list = 0 .. n - 1 /\ DOMAIN Windows(d) = SubWindow .. SubWindow + n - 1
  BY <1>2, <1>3
<1>5. Cardinality(DOMAIN list) = n
  <2>1. 0 \in Int /\ n - 1 \in Int BY <1>1
  <2>2. Cardinality(0 .. n - 1) = IF 0 > n - 1 THEN 0 ELSE (n - 1) - 0 + 1 BY <2>1, FS_Interval
  <2> QED BY <1>1, <1>4, <2>2
<1>6. \A j \in 0 .. n - 1 : j + SubWindow \in SubWindow .. SubWindow + n - 1 BY <1>0, <1>1
<1>7. \A j \in SubWindow .. SubWindow + n - 1 : WinFp(d)[j] = Windows(d)[j] /\ WinFp(d)[j] \in Nat
  BY <1>1, WindowsFacts
<1>8. \A j \in 0 .. n - 1 : list[j] = Windows(d)[j + SubWindow] /\ list[j] \in Nat
  BY <1>2, <1>6, <1>7
<1>9. GetFeatureList(d)[f] = Target(list, Cardinality(DOMAIN list), f, LowMod) BY DEF GetFeatureList
<1> HIDE DEF list
<1> DEFINE fp == Target(list, n, f, LowMod)
<1>10. Wins(fp, list, 0 .. n - 1, f, LowMod)
  <2>1. \A j \in 0 .. n - 1 : list[j] \in Nat BY <1>8
  <2> QED BY <1>0, <1>1, <2>1, TargetWins
<1> HIDE DEF fp
<1>11. Wins(fp, Windows(d), SubWindow .. SubWindow + n - 1, f, LowMod)
  <2>1. \A j \in 0 .. n - 1 : list[j] = Windows(d)[j + SubWindow] BY <1>8
  <2> QED BY <1>0, <1>1, <1>10, <2>1, WinsElsewhere
<1>12. GetFeatureList(d)[f] = fp BY <1>5, <1>9 DEF fp
<1> QED BY <1>4, <1>11, <1>12

-----------------------------------------------------------------------------
(* The Simulator's chunker, by the byte.                                   *)
SimStateSet == [cut : Seq(Seq(Nat)), buffer : Seq(Nat), fp : Nat]
SimStart == [cut |-> << >>, buffer |-> << >>, fp |-> 0]

SimNext(i, b, y) ==
  LET t == SimByte(y, b)
  IN  IF i % ReadSize = 0 THEN [t EXCEPT !.buffer = [j \in DOMAIN @ |-> 0]] ELSE t

LEMMA WindowStepType ==
  ASSUME NEW s \in Seq(Nat), NEW f \in Nat, NEW b \in Nat
  PROVE  /\ Len(s) < Window => FillWindow(f, s, b) \in Nat
         /\ Len(s) >= Window => SlideWindow(f, s, b) \in Nat
<1>0. /\ Len(s) \in Nat /\ Window \in Nat \ {0} /\ PolyMod \in Nat \ {0} /\ FpMod \in Nat \ {0}
      /\ PolyBase \in Nat
  BY Sizes, Moduli
<1>1. \A x \in Nat : (x % PolyMod) % FpMod \in Nat
  <2> TAKE x \in Nat
  <2>1. x % PolyMod \in Nat BY <1>0
  <2> QED BY <1>0, <2>1
<1>2. ASSUME Len(s) < Window PROVE FillWindow(f, s, b) \in Nat
  <2>1. Window - Len(s) - 1 \in Nat BY <1>0, <1>2
  <2>2. Power[Window - Len(s) - 1] \in Nat BY <2>1, PowerValues
  <2> DEFINE p == Power[Window - Len(s) - 1]
  <2>3. p \in Nat BY <2>2
  <2> HIDE DEF p
  <2>4. b * p \in Nat BY <2>3
  <2>5. f + b * p \in Nat BY <2>4
  <2>6. ((f + b * p) % PolyMod) % FpMod \in Nat BY <1>1, <2>5
  <2> QED BY <2>6 DEF FillWindow, p
<1>3. ASSUME Len(s) >= Window PROVE SlideWindow(f, s, b) \in Nat
  <2>1. Len(s) - Window + 1 \in 1 .. Len(s) BY <1>0, <1>3
  <2> DEFINE r == Remove(s[Len(s) - Window + 1])
  <2>2. r \in Nat BY <2>1, ElementType, RemoveType
  <2> HIDE DEF r
  <2>3. f + r \in Nat BY <2>2
  <2>4. (f + r) * PolyBase \in Nat BY <1>0, <2>3
  <2>5. (f + r) * PolyBase + b \in Nat BY <2>4
  <2>6. (((f + r) * PolyBase + b) % PolyMod) % FpMod \in Nat BY <1>1, <2>5
  <2> QED BY <2>6 DEF SlideWindow, r
<1> QED BY <1>2, <1>3

LEMMA ZerosType == ASSUME NEW n \in Nat PROVE [j \in 1 .. n |-> 0] \in Seq(Nat)
OBVIOUS

LEMMA SimNextType ==
  ASSUME NEW i \in Nat, NEW b \in Nat, NEW y \in SimStateSet
  PROVE  SimNext(i, b, y) \in SimStateSet
<1>1. y.cut \in Seq(Seq(Nat)) /\ y.buffer \in Seq(Nat) /\ y.fp \in Nat /\ Len(y.buffer) \in Nat
  BY DEF SimStateSet
<1> DEFINE data == Append(y.buffer, b)
           fp == IF Len(y.buffer) < Window THEN FillWindow(y.fp, y.buffer, b)
                 ELSE SlideWindow(y.fp, y.buffer, b)
           t == SimByte(y, b)
<1>2. data \in Seq(Nat) BY <1>1, AppendProperties
<1>3. fp \in Nat
  <2>1. Window \in Nat BY Sizes
  <2>2. Len(y.buffer) < Window \/ Len(y.buffer) >= Window BY <1>1, <2>1
  <2>3. ~ (Len(y.buffer) < Window /\ Len(y.buffer) >= Window) BY <1>1, <2>1
  <2> QED BY <1>1, <2>2, <2>3, WindowStepType
<1>4. t = IF EndsHere(Len(data), fp)
          THEN [cut |-> Append(y.cut, data), buffer |-> << >>, fp |-> 0]
          ELSE [y EXCEPT !.buffer = data, !.fp = fp]
  BY DEF SimByte
<1> HIDE DEF data, fp
<1>5. t \in SimStateSet
  <2>1. Append(y.cut, data) \in Seq(Seq(Nat)) BY <1>1, <1>2, AppendProperties
  <2>2. CASE EndsHere(Len(data), fp) BY <1>4, <2>1, <2>2 DEF SimStateSet
  <2>3. CASE ~ EndsHere(Len(data), fp) BY <1>2, <1>3, <1>4, <2>3 DEF SimStateSet
  <2> QED BY <2>2, <2>3
<1>6. SimNext(i, b, y) = IF i % ReadSize = 0 THEN [t EXCEPT !.buffer = [j \in DOMAIN @ |-> 0]] ELSE t
  BY DEF SimNext
<1> HIDE DEF t
<1>7. [j \in DOMAIN t.buffer |-> 0] \in Seq(Nat)
  <2>1. DOMAIN t.buffer = 1 .. Len(t.buffer) /\ Len(t.buffer) \in Nat BY <1>5 DEF SimStateSet
  <2> QED BY <2>1, ZerosType
<1> QED BY <1>5, <1>6, <1>7 DEF SimStateSet

(* The states the Simulator goes through on a file.                        *)
SimStates(file) ==
  LET s[i \in 0 .. Len(file)] ==
        IF i = 0 THEN [cut |-> << >>, buffer |-> << >>, fp |-> 0]
        ELSE LET t == SimByte(s[i - 1], file[i])
             IN  IF i % ReadSize = 0
                 THEN [t EXCEPT !.buffer = [j \in DOMAIN @ |-> 0]] ELSE t
  IN  s

LEMMA SimResult ==
  ASSUME NEW file
  PROVE  ChunkingWithID(file) =
           LET last == SimStates(file)[Len(file)]
           IN  IF last.buffer = << >> THEN last.cut ELSE Append(last.cut, last.buffer)
BY DEF ChunkingWithID, SimStates

LEMMA SimValues ==
  ASSUME NEW file \in Seq(Nat)
  PROVE  /\ SimStates(file)[0] = SimStart
         /\ \A i \in 1 .. Len(file) :
              SimStates(file)[i] = SimNext(i, file[i], SimStates(file)[i - 1])
<1>1. Len(file) \in Nat OBVIOUS
<1> DEFINE next(i, y) == IF i \in 1 .. Len(file) THEN SimNext(i, file[i], y) ELSE SimStart
           step == [x \in Nat \X SimStateSet |-> next(x[1] + 1, x[2])]
<1>a. SimStart \in SimStateSet BY DEF SimStart, SimStateSet
<1>2. \A i \in Nat : \A y \in SimStateSet : next(i, y) \in SimStateSet
  <2> TAKE i \in Nat
  <2> TAKE y \in SimStateSet
  <2>1. CASE i \in 1 .. Len(file)
    <3>1. file[i] \in Nat BY <2>1, ElementType
    <3> QED BY <2>1, <3>1, SimNextType
  <2>2. CASE i \notin 1 .. Len(file) BY <1>a, <2>2
  <2> QED BY <2>1, <2>2
<1>3. step \in [Nat \X SimStateSet -> SimStateSet]
      /\ \A i \in Nat : \A y \in SimStateSet : step[<<i, y>>] = next(i + 1, y)
  <2> HIDE DEF next
  <2>1. \A x \in Nat \X SimStateSet : x[1] + 1 \in Nat /\ x[2] \in SimStateSet OBVIOUS
  <2> QED BY <1>2, <2>1
<1> HIDE DEF step
<1>4. PICK g \in [0 .. Len(file) -> SimStateSet] : FollowsTo(g, SimStart, step, Len(file))
  BY <1>1, <1>a, <1>3, RecursionUpTo
<1>5. ASSUME NEW i \in 1 .. Len(file) PROVE g[i] = SimNext(i, file[i], g[i - 1])
  <2>1. i - 1 \in Nat /\ (i - 1) + 1 = i /\ i - 1 \in 0 .. Len(file) BY <1>1
  <2>2. g[i - 1] \in SimStateSet BY <2>1
  <2>3. step[<<i - 1, g[i - 1]>>] = next(i, g[i - 1]) BY <1>3, <2>1, <2>2
  <2> QED BY <1>4, <2>3 DEF FollowsTo
<1>6. g = [i \in 0 .. Len(file) |->
             IF i = 0 THEN [cut |-> << >>, buffer |-> << >>, fp |-> 0]
             ELSE LET t == SimByte(g[i - 1], file[i])
                  IN  IF i % ReadSize = 0
                      THEN [t EXCEPT !.buffer = [j \in DOMAIN @ |-> 0]] ELSE t]
  <2>1. \A i \in 0 .. Len(file) : i # 0 => i \in 1 .. Len(file) BY <1>1
  <2>2. \A i \in 0 .. Len(file) :
          g[i] = IF i = 0 THEN SimStart ELSE SimNext(i, file[i], g[i - 1])
    BY <1>4, <1>5, <2>1 DEF FollowsTo
  <2>3. g = [i \in 0 .. Len(file) |-> IF i = 0 THEN SimStart ELSE SimNext(i, file[i], g[i - 1])]
    BY <2>2
  <2> QED BY <2>3 DEF SimNext, SimStart
<1> DEFINE p == SimStates(file)
<1>7. p = [i \in 0 .. Len(file) |->
             IF i = 0 THEN [cut |-> << >>, buffer |-> << >>, fp |-> 0]
             ELSE LET t == SimByte(p[i - 1], file[i])
                  IN  IF i % ReadSize = 0
                      THEN [t EXCEPT !.buffer = [j \in DOMAIN @ |-> 0]] ELSE t]
  <2>1. p = CHOOSE h : h =
          [i \in 0 .. Len(file) |->
             IF i = 0 THEN [cut |-> << >>, buffer |-> << >>, fp |-> 0]
             ELSE LET t == SimByte(h[i - 1], file[i])
                  IN  IF i % ReadSize = 0
                      THEN [t EXCEPT !.buffer = [j \in DOMAIN @ |-> 0]] ELSE t]
    BY DEF SimStates
  <2> QED BY <1>6, <2>1, Zenon
<1> HIDE DEF p
<1>8. p[0] = SimStart BY <1>1, <1>7 DEF SimStart
<1>9. ASSUME NEW i \in 1 .. Len(file) PROVE p[i] = SimNext(i, file[i], p[i - 1])
  <2>1. i \in 0 .. Len(file) /\ i # 0 BY <1>1
  <2> QED BY <1>7, <2>1 DEF SimNext
<1> QED BY <1>8, <1>9 DEF p

-----------------------------------------------------------------------------
(* What the client has cut, and where the Simulator is by the same byte: a *)
(* read that comes next has zeroed its buffer already.                     *)
Datas == [k \in DOMAIN chunks |-> chunks[k].data]
Ahead == IF taken = ReadSize THEN [j \in 1 .. Len(buffer) |-> 0] ELSE buffer

Simulated ==
  input.type = "VariableSize" =>
    /\ head = NoHead => SimStates(File)[block.from + taken]
                          = [cut |-> Datas, buffer |-> Ahead, fp |-> winFp]
    /\ head # NoHead => ChunkingWithID(File) = Datas

SimInv == FileInv /\ Simulated

LEMMA OnGrid ==
  ASSUME NEW a \in Nat, NEW d \in Nat \ {0}, a % d = 0, NEW n \in 1 .. d
  PROVE  (a + n) % d = 0 <=> n = d
<1> DEFINE q == a \div d
<1>1. q \in Nat /\ a = q * d BY Exact
<1> HIDE DEF q
<1>2. CASE n = d
  <2>1. a + n = (q + 1) * d BY <1>1, <1>2
  <2>2. ((q + 1) * d) % d = 0 BY <1>1
  <2> QED BY <1>2, <2>1, <2>2
<1>3. CASE n # d
  <2> SUFFICES ASSUME (a + n) % d = 0 PROVE FALSE BY <1>3
  <2> DEFINE x == a + n
  <2>1. x \in Nat /\ x % d = 0 BY <1>1
  <2> HIDE DEF x
  <2>2. x \div d \in Nat /\ x = (x \div d) * d BY <2>1, Exact
  <2>3. q * d <= x /\ x < q * d + d /\ x # q * d BY <1>1, <1>3 DEF x
  <2>4. x \div d = q BY <1>1, <2>1, <2>3, Quotient
  <2> QED BY <2>2, <2>3, <2>4
<1> QED BY <1>2, <1>3

LEMMA SimByteIs ==
  ASSUME NEW C, NEW D, NEW F, NEW b
  PROVE  LET data == Append(D, b)
             fp == IF Len(D) < Window THEN FillWindow(F, D, b) ELSE SlideWindow(F, D, b)
         IN  SimByte([cut |-> C, buffer |-> D, fp |-> F], b) =
               IF EndsHere(Len(data), fp)
               THEN [cut |-> Append(C, data), buffer |-> << >>, fp |-> 0]
               ELSE [cut |-> C, buffer |-> data, fp |-> fp]
<1> DEFINE y == [cut |-> C, buffer |-> D, fp |-> F]
           data == Append(D, b)
           fp == IF Len(D) < Window THEN FillWindow(F, D, b) ELSE SlideWindow(F, D, b)
<1>1. y.cut = C /\ y.buffer = D /\ y.fp = F OBVIOUS
<1>2. [y EXCEPT !.buffer = data, !.fp = fp] = [cut |-> C, buffer |-> data, fp |-> fp]
  <2> HIDE DEF data, fp
  <2>1. [y EXCEPT !.buffer = data] = [cut |-> C, buffer |-> data, fp |-> F] OBVIOUS
  <2>2. [[cut |-> C, buffer |-> data, fp |-> F] EXCEPT !.fp = fp] = [cut |-> C, buffer |-> data, fp |-> fp]
    OBVIOUS
  <2> HIDE DEF y
  <2>3. [y EXCEPT !.buffer = data, !.fp = fp] = [[y EXCEPT !.buffer = data] EXCEPT !.fp = fp] OBVIOUS
  <2> QED BY <2>1, <2>2, <2>3
<1> HIDE DEF y
<1>3. SimByte(y, b) = IF EndsHere(Len(data), fp)
                      THEN [cut |-> Append(C, data), buffer |-> << >>, fp |-> 0]
                      ELSE [y EXCEPT !.buffer = data, !.fp = fp]
  BY <1>1 DEF SimByte
<1> HIDE DEF data, fp
<1>4. SimByte(y, b) = IF EndsHere(Len(data), fp)
                      THEN [cut |-> Append(C, data), buffer |-> << >>, fp |-> 0]
                      ELSE [cut |-> C, buffer |-> data, fp |-> fp]
  BY <1>2, <1>3
<1> QED BY <1>4 DEF y, data, fp

LEMMA SimNextIs ==
  ASSUME NEW i, NEW b, NEW y, NEW C, NEW D \in Seq(Nat), NEW F,
         SimByte(y, b) = [cut |-> C, buffer |-> D, fp |-> F]
  PROVE  SimNext(i, b, y) =
           [cut |-> C, buffer |-> IF i % ReadSize = 0 THEN [j \in 1 .. Len(D) |-> 0] ELSE D, fp |-> F]
<1>1. DOMAIN D = 1 .. Len(D) OBVIOUS
<1> DEFINE t == SimByte(y, b)
           z == [j \in 1 .. Len(D) |-> 0]
<1>2. t.buffer = D OBVIOUS
<1>3. [t EXCEPT !.buffer = [j \in DOMAIN t.buffer |-> 0]] = [t EXCEPT !.buffer = z] BY <1>1, <1>2
<1>4. [t EXCEPT !.buffer = z] = [cut |-> C, buffer |-> z, fp |-> F]
  <2> HIDE DEF z
  <2> QED OBVIOUS
<1>5. SimNext(i, b, y) =
        IF i % ReadSize = 0 THEN [t EXCEPT !.buffer = [j \in DOMAIN t.buffer |-> 0]] ELSE t
  BY DEF SimNext
<1>6. t = [cut |-> C, buffer |-> D, fp |-> F] OBVIOUS
<1> HIDE DEF t, z
<1>7. SimNext(i, b, y) = IF i % ReadSize = 0 THEN [cut |-> C, buffer |-> z, fp |-> F]
                         ELSE [cut |-> C, buffer |-> D, fp |-> F]
  BY <1>3, <1>4, <1>5, <1>6
<1> QED BY <1>7 DEF z

(* The Simulator takes the byte that the client takes.                     *)
LEMMA SimTakes ==
  ASSUME Shape, Blocks, Pending, Simulated, [Next]_vars, NEW b \in Byte, Take(b),
         NEW C, NEW D \in Seq(Nat), NEW F,
         SimByte([cut |-> Datas, buffer |-> buffer, fp |-> winFp], b)
           = [cut |-> C, buffer |-> D, fp |-> F],
         C = Datas', D = buffer', F = winFp'
  PROVE  Simulated'
<1>0. /\ input' = input /\ head' = head /\ head = NoHead /\ block' = block
      /\ taken' = taken + 1 /\ taken < Len(block.bytes) /\ b = block.bytes[taken + 1]
      /\ input.type = "VariableSize" /\ File' = File
  BY TakeFacts, InputStays
<1>1. /\ block.from \in Nat /\ Len(block.bytes) \in Nat /\ Len(block.bytes) <= ReadSize
      /\ taken \in Nat /\ ReadSize \in Nat \ {0} /\ Len(File) \in Nat
      /\ block.from + Len(block.bytes) <= Len(File) /\ File \in Seq(Nat)
  <2>1. File \in Seq(Byte) BY <1>0, FileType
  <2>2. File \in Seq(Nat) BY <2>1, Sizes, NatSequence
  <2>3. block.from + Len(block.bytes) <= Len(File) BY <1>0 DEF Shape
  <2> QED BY <2>2, <2>3, Types, Sizes, FileType
<1> DEFINE p == block.from + taken
           y == [cut |-> Datas, buffer |-> buffer, fp |-> winFp]
<1>2. SimStates(File)[p] = y
  <2>1. taken # ReadSize BY <1>0, <1>1
  <2> QED BY <1>0, <2>1 DEF Simulated, Ahead
<1>3. p + 1 \in 1 .. Len(File) /\ (p + 1) - 1 = p /\ p + 1 = block.from + taken'
      /\ block.from + (taken + 1) = p + 1
  <2>1. taken + 1 <= Len(block.bytes) /\ taken' = taken + 1 BY <1>0, <1>1
  <2>2. block.from + taken + 1 <= Len(File) /\ block.from + taken \in Nat
    <3> DEFINE x == block.from n == Len(block.bytes) z == Len(File)
    <3>1. /\ x \in Nat /\ n \in Nat /\ z \in Nat /\ taken \in Nat
          /\ taken + 1 <= n /\ x + n <= z
      BY <1>1, <2>1
    <3> HIDE DEF x, n, z
    <3>2. x + taken + 1 <= z /\ x + taken \in Nat
      BY <3>1
    <3> QED BY <3>2 DEF x, y, z
  <2>3. Len(File) \in Nat /\ block.from \in Nat /\ taken \in Nat BY <1>1
  <2>4. p + 1 \in 1 .. Len(File) BY <2>2, <2>3
  <2> QED BY <2>1, <2>3, <2>4
<1>4. File[p + 1] = b
  <2>1. taken + 1 \in 1 .. Len(block.bytes) BY <1>0, <1>1
  <2>2. block.bytes[taken + 1] = File[block.from + (taken + 1)] BY <1>0, <2>1 DEF Blocks
  <2> QED BY <1>0, <1>3, <2>2
<1>5. SimByte(y, b) = [cut |-> C, buffer |-> D, fp |-> F] OBVIOUS
<1> HIDE DEF p, y
<1>6. SimStates(File)[p + 1] = SimNext(p + 1, b, y)
  <2>1. SimStates(File)[p + 1] = SimNext(p + 1, File[p + 1], SimStates(File)[(p + 1) - 1])
    BY <1>1, <1>3, SimValues
  <2> QED BY <1>2, <1>3, <1>4, <2>1
<1>7. (p + 1) % ReadSize = 0 <=> taken + 1 = ReadSize
  <2>1. block.from % ReadSize = 0 BY <1>0 DEF Blocks
  <2>2. taken + 1 \in 1 .. ReadSize BY <1>0, <1>1
  <2>3. \A n \in 1 .. ReadSize : (block.from + n) % ReadSize = 0 <=> n = ReadSize
    <3>1. block.from \in Nat /\ ReadSize \in Nat \ {0} BY <1>1
    <3> QED BY <2>1, <3>1, OnGrid
  <2>4. (block.from + (taken + 1)) % ReadSize = 0 <=> taken + 1 = ReadSize BY <2>2, <2>3
  <2> QED BY <1>3, <2>4
<1>8. SimNext(p + 1, b, y) =
        [cut |-> C, buffer |-> IF (p + 1) % ReadSize = 0 THEN [j \in 1 .. Len(D) |-> 0] ELSE D, fp |-> F]
  BY <1>5, SimNextIs
<1>9. SimStates(File)[p + 1] =
        [cut |-> Datas', buffer |-> IF taken' = ReadSize THEN [j \in 1 .. Len(buffer') |-> 0] ELSE buffer',
         fp |-> winFp']
  BY <1>0, <1>6, <1>7, <1>8
<1>10. SimStates(File)[block.from + taken'] = [cut |-> Datas', buffer |-> Ahead', fp |-> winFp']
  BY <1>3, <1>9 DEF Ahead
<1> HIDE DEF Datas, Ahead
<1> QED BY <1>0, <1>10 DEF Simulated

LEMMA DatasGrow ==
  ASSUME Shape, NEW data \in Seq(Byte), InsertMQ(data)
  PROVE  Datas' = Append(Datas, data)
<1>1. /\ chunks' \in Seq(Piece) /\ Len(chunks') = Len(chunks) + 1
      /\ \A k \in 1 .. Len(chunks) : chunks'[k] = chunks[k]
      /\ chunks'[Len(chunks')].data = data
  BY InsertFacts
<1>2. chunks \in Seq(Piece) /\ Len(chunks) \in Nat BY Types
<1> DEFINE s == Datas
           t == [k \in 1 .. Len(chunks') |-> chunks'[k].data]
           u == Append(s, data)
<1>3. s = [k \in 1 .. Len(chunks) |-> chunks[k].data] BY <1>2 DEF Datas
<1>4. \A k \in 1 .. Len(chunks) : chunks[k].data \in Seq(Byte)
  <2> TAKE k \in 1 .. Len(chunks)
  <2>1. chunks[k] \in Piece BY <1>2, ElementType
  <2> QED BY <2>1 DEF Piece
<1>5. s \in Seq(Seq(Byte)) /\ Len(s) = Len(chunks) BY <1>2, <1>3, <1>4
<1>6. Datas' = t BY <1>1 DEF Datas
<1>7. \A k \in 1 .. Len(chunks') : chunks'[k].data \in Seq(Byte)
  <2> TAKE k \in 1 .. Len(chunks')
  <2>1. chunks'[k] \in Piece BY <1>1, ElementType
  <2> QED BY <2>1 DEF Piece
<1>8. Len(chunks') \in Nat BY <1>1, <1>2
<1>9. t \in Seq(Seq(Byte)) /\ Len(t) = Len(chunks) + 1 BY <1>1, <1>7, <1>8
<1> HIDE DEF s
<1>10. /\ u \in Seq(Seq(Byte)) /\ Len(u) = Len(chunks) + 1 /\ u[Len(chunks) + 1] = data
       /\ \A k \in 1 .. Len(chunks) : u[k] = s[k]
  BY <1>5, AppendProperties
<1>11. ASSUME NEW k \in 1 .. Len(t) PROVE t[k] = u[k]
  <2>1. t[k] = chunks'[k].data BY <1>1, <1>9
  <2>2. CASE k = Len(chunks) + 1 BY <1>1, <1>10, <2>1, <2>2
  <2>3. CASE k \in 1 .. Len(chunks)
    <3>1. chunks'[k] = chunks[k] /\ s[k] = chunks[k].data /\ u[k] = s[k] BY <1>1, <1>3, <1>10, <2>3
    <3> QED BY <2>1, <3>1
  <2>4. k = Len(chunks) + 1 \/ k \in 1 .. Len(chunks)
    <3>1. k \in 1 .. Len(chunks) + 1 BY <1>9
    <3> QED BY <1>2, <3>1
  <2> QED BY <2>2, <2>3, <2>4
<1> HIDE DEF t, u
<1>12. t = u BY <1>9, <1>10, <1>11, SameElements
<1> QED BY <1>6, <1>12 DEF u, s

LEMMA FillSimulated ==
  ASSUME FileInv, Simulated, [Next]_vars, NEW b \in Byte, Fill(b) PROVE Simulated'
<1>s. Shape /\ Blocks /\ Pending BY DEF FileInv, IInv
<1>0. Take(b) /\ buffer' = Append(buffer, b) /\ chunks' = chunks /\ Len(buffer) < Window
      /\ winFp' = FillWindow(winFp, buffer, b)
  BY DEF Fill
<1>1. /\ buffer \in Seq(Nat) /\ b \in Nat /\ Append(buffer, b) \in Seq(Nat)
      /\ Len(Append(buffer, b)) = Len(buffer) + 1 /\ Len(buffer) \in Nat
      /\ Window \in Nat /\ Window < MinChunk /\ MinChunk \in Nat
  BY <1>s, BufferBytes, Sizes
<1>2. ~ EndsHere(Len(Append(buffer, b)), FillWindow(winFp, buffer, b))
  <2>1. ~ (Len(Append(buffer, b)) >= MinChunk) BY <1>0, <1>1
  <2> QED BY <2>1 DEF EndsHere
<1>3. SimByte([cut |-> Datas, buffer |-> buffer, fp |-> winFp], b)
        = [cut |-> Datas, buffer |-> Append(buffer, b), fp |-> FillWindow(winFp, buffer, b)]
  <2>1. Len(buffer) < Window BY <1>0
  <2> HIDE DEF Datas
  <2> QED BY <1>2, <2>1, SimByteIs
<1>4. Datas' = Datas BY <1>0 DEF Datas
<1> QED BY <1>s, <1>0, <1>1, <1>3, <1>4, SimTakes

LEMMA SlideSimulated ==
  ASSUME FileInv, Simulated, [Next]_vars, NEW b \in Byte, Slide(b) PROVE Simulated'
<1>s. Shape /\ Blocks /\ Pending BY DEF FileInv, IInv
<1>0. Take(b) /\ buffer' = Append(buffer, b) /\ chunks' = chunks /\ Len(buffer) >= Window
      /\ winFp' = SlideWindow(winFp, buffer, b)
      /\ ~ EndsHere(Len(buffer) + 1, SlideWindow(winFp, buffer, b))
  BY DEF Slide
<1>1. /\ buffer \in Seq(Nat) /\ b \in Nat /\ Append(buffer, b) \in Seq(Nat)
      /\ Len(Append(buffer, b)) = Len(buffer) + 1 /\ Len(buffer) \in Nat
      /\ Window \in Nat /\ ~ (Len(buffer) < Window)
  BY <1>s, <1>0, BufferBytes, Sizes
<1>3. SimByte([cut |-> Datas, buffer |-> buffer, fp |-> winFp], b)
        = [cut |-> Datas, buffer |-> Append(buffer, b), fp |-> SlideWindow(winFp, buffer, b)]
  <2>1. ~ EndsHere(Len(Append(buffer, b)), SlideWindow(winFp, buffer, b)) BY <1>0, <1>1
  <2>2. ~ (Len(buffer) < Window) BY <1>1
  <2> DEFINE fp == IF Len(buffer) < Window THEN FillWindow(winFp, buffer, b)
                   ELSE SlideWindow(winFp, buffer, b)
  <2>3. fp = SlideWindow(winFp, buffer, b) BY <2>2
  <2> HIDE DEF Datas
  <2>4. SimByte([cut |-> Datas, buffer |-> buffer, fp |-> winFp], b) =
          IF EndsHere(Len(Append(buffer, b)), fp)
          THEN [cut |-> Append(Datas, Append(buffer, b)), buffer |-> << >>, fp |-> 0]
          ELSE [cut |-> Datas, buffer |-> Append(buffer, b), fp |-> fp]
    BY SimByteIs
  <2> HIDE DEF fp
  <2> QED BY <2>1, <2>3, <2>4
<1>4. Datas' = Datas BY <1>0 DEF Datas
<1> QED BY <1>s, <1>0, <1>1, <1>3, <1>4, SimTakes

LEMMA CutChunkSimulated ==
  ASSUME FileInv, Simulated, [Next]_vars, NEW b \in Byte, CutChunk(b) PROVE Simulated'
<1>s. Shape /\ Blocks /\ Pending BY DEF FileInv, IInv
<1>0. Take(b) /\ InsertMQ(Append(buffer, b)) /\ buffer' = << >> /\ winFp' = 0
      /\ Len(buffer) >= Window /\ EndsHere(Len(buffer) + 1, SlideWindow(winFp, buffer, b))
  BY DEF CutChunk
<1>1. /\ buffer \in Seq(Nat) /\ b \in Nat /\ Append(buffer, b) \in Seq(Byte)
      /\ Len(Append(buffer, b)) = Len(buffer) + 1 /\ Len(buffer) \in Nat
      /\ Window \in Nat /\ ~ (Len(buffer) < Window)
  BY <1>s, <1>0, BufferBytes, TakeFacts, Sizes
<1>2. Datas' = Append(Datas, Append(buffer, b)) BY <1>s, <1>0, <1>1, DatasGrow
<1>3. SimByte([cut |-> Datas, buffer |-> buffer, fp |-> winFp], b)
        = [cut |-> Append(Datas, Append(buffer, b)), buffer |-> << >>, fp |-> 0]
  <2>1. EndsHere(Len(Append(buffer, b)), SlideWindow(winFp, buffer, b)) BY <1>0, <1>1
  <2>2. ~ (Len(buffer) < Window) BY <1>1
  <2> HIDE DEF Datas
  <2> QED BY <2>1, <2>2, SimByteIs
<1>4. << >> \in Seq(Nat) OBVIOUS
<1> QED BY <1>s, <1>0, <1>2, <1>3, <1>4, SimTakes

LEMMA ReadBlockSimulated ==
  ASSUME FileInv, Simulated, [Next]_vars, ReadBlock PROVE Simulated'
<1>s. Shape /\ Blocks /\ Pending BY DEF FileInv, IInv
<1>0. /\ head' = head /\ head = NoHead /\ BlockDone /\ ~ eof /\ input.type # "Trace"
      /\ chunks' = chunks /\ winFp' = winFp /\ input' = input /\ taken' = 0
      /\ block'.from = block.from + Len(block.bytes)
      /\ buffer' = [i \in 1 .. Len(buffer) |-> 0]
  BY DEF ReadBlock
<1>1. File' = File /\ Datas' = Datas BY <1>0 DEF File, Datas
<1> SUFFICES ASSUME input.type = "VariableSize"
             PROVE  SimStates(File)[block'.from + taken'] = [cut |-> Datas, buffer |-> Ahead', fp |-> winFp]
  <2> HIDE DEF Datas, Ahead
  <2> QED BY <1>0, <1>1 DEF Simulated
<1>2. /\ block.from \in Nat /\ block.bytes \in Seq(Byte) /\ Len(block.bytes) \in Nat /\ taken \in Nat
      /\ buffer \in Seq(Byte) /\ Len(buffer) \in Nat /\ NextStart \in Nat /\ ReadSize \in Nat \ {0}
  BY <1>s, Types, NextStartType, Sizes
<1>3. taken = Len(block.bytes) /\ NextStart + Len(buffer) = block.from + taken
  <2>1. taken <= Len(block.bytes) /\ NextStart + Len(buffer) = block.from + taken BY <1>s DEF Pending
  <2>2. taken >= Len(block.bytes) BY <1>0 DEF BlockDone
  <2> QED BY <1>2, <2>1, <2>2
<1>4. block'.from + taken' = block.from + taken BY <1>0, <1>2, <1>3
<1>5. SimStates(File)[block.from + taken] = [cut |-> Datas, buffer |-> Ahead, fp |-> winFp]
  BY <1>0 DEF Simulated
<1>6. Ahead' = buffer' BY <1>0, <1>2 DEF Ahead
<1>7. Ahead = buffer'
  <2>1. CASE taken = ReadSize BY <1>0, <2>1 DEF Ahead
  <2>2. CASE taken # ReadSize
    <3>1. block.from = 0 /\ block.bytes = << >> BY <1>s, <1>0, <1>3, <2>2 DEF Blocks
    <3>2. Len(buffer) = 0
      <4>1. Len(block.bytes) = 0 BY <3>1
      <4> QED BY <1>2, <1>3, <3>1, <4>1
    <3>3. buffer = << >> BY <1>2, <3>2
    <3>4. buffer' = << >> BY <1>0, <3>2
    <3> QED BY <2>2, <3>3, <3>4 DEF Ahead
  <2> QED BY <2>1, <2>2
<1> HIDE DEF Ahead, Datas
<1> QED BY <1>4, <1>5, <1>6, <1>7

LEMMA FinishSimulated ==
  ASSUME FileInv, IInv', Simulated, [Next]_vars, Finish PROVE Simulated'
<1>s. Shape /\ Blocks /\ Pending BY DEF FileInv, IInv
<1>0. /\ head = NoHead /\ AllRead /\ input' = input
      /\ IF buffer = << >> THEN chunks' = chunks ELSE InsertMQ(buffer)
  BY DEF Finish
<1>h. head' # NoHead
  <2>1. head' = [chunks |-> Len(chunks'), size |-> size] BY DEF Finish
  <2>2. chunks' \in Seq(Piece) /\ size \in Nat
    <3>1. Shape' BY DEF IInv
    <3>2. chunks' \in Seq([at : Nat, data : Seq(Byte)]) BY <3>1 DEF Shape, TypeOK
    <3> QED BY <1>s, <3>2, Types DEF Piece
  <2>3. head' \in [chunks : Nat, size : Int] BY <2>1, <2>2
  <2> QED BY <2>3, ChunkerAssumption
<1>1. File' = File BY <1>0 DEF File
<1> SUFFICES ASSUME input.type = "VariableSize" PROVE ChunkingWithID(File) = Datas'
  <2> HIDE DEF Datas
  <2> QED BY <1>0, <1>1, <1>h DEF Simulated
<1>2. /\ block.from \in Nat /\ Len(block.bytes) \in Nat /\ taken \in Nat /\ ReadSize \in Nat
      /\ buffer \in Seq(Byte)
  BY <1>s, Types, Sizes
<1>3. eof /\ BlockDone BY <1>0 DEF AllRead
<1>4. Len(block.bytes) < ReadSize /\ block.from + Len(block.bytes) = Len(File)
  BY <1>s, <1>3 DEF Blocks
<1>5. taken = Len(block.bytes)
  <2>1. taken <= Len(block.bytes) BY <1>s DEF Pending
  <2>2. taken >= Len(block.bytes) BY <1>3 DEF BlockDone
  <2> QED BY <1>2, <2>1, <2>2
<1>6. block.from + taken = Len(File) /\ taken # ReadSize BY <1>2, <1>4, <1>5
<1>7. SimStates(File)[Len(File)] = [cut |-> Datas, buffer |-> buffer, fp |-> winFp]
  <2>1. SimStates(File)[block.from + taken] = [cut |-> Datas, buffer |-> Ahead, fp |-> winFp]
    BY <1>0 DEF Simulated
  <2> QED BY <1>6, <2>1 DEF Ahead
<1>8. ChunkingWithID(File) = IF buffer = << >> THEN Datas ELSE Append(Datas, buffer)
  <2> HIDE DEF Datas
  <2> QED BY <1>7, SimResult
<1>9. CASE buffer = << >>
  <2>1. Datas' = Datas BY <1>0, <1>9 DEF Datas
  <2> QED BY <1>8, <1>9, <2>1
<1>10. CASE buffer # << >>
  <2>1. Datas' = Append(Datas, buffer) BY <1>s, <1>0, <1>2, <1>10, DatasGrow
  <2> QED BY <1>8, <1>10, <2>1
<1> QED BY <1>9, <1>10

LEMMA InitSimInv == Init => SimInv
<1> SUFFICES ASSUME Init PROVE Simulated BY InitFileInv DEF SimInv
<1>0. /\ input \in Inputs /\ block = [from |-> 0, bytes |-> << >>] /\ taken = 0
      /\ buffer = << >> /\ winFp = 0 /\ chunks = << >> /\ head = NoHead
  BY DEF Init
<1> SUFFICES ASSUME input.type = "VariableSize"
             PROVE  SimStates(File)[block.from + taken] = [cut |-> Datas, buffer |-> Ahead, fp |-> winFp]
  <2> HIDE DEF Datas, Ahead
  <2> QED BY <1>0 DEF Simulated
<1>1. File \in Seq(Nat)
  <2>1. Shape BY InitIInv DEF IInv
  <2>2. File \in Seq(Byte) BY <2>1, FileType
  <2> QED BY <2>2, Sizes, NatSequence
<1>2. SimStates(File)[0] = SimStart BY <1>1, SimValues
<1>3. block.from + taken = 0 BY <1>0
<1>4. Datas = << >> BY <1>0 DEF Datas
<1>5. Ahead = << >>
  <2>1. taken # ReadSize BY <1>0, Sizes
  <2> QED BY <1>0, <2>1 DEF Ahead
<1> QED BY <1>0, <1>2, <1>3, <1>4, <1>5 DEF SimStart

LEMMA StepSimInv == SimInv /\ FileInv' /\ [Next]_vars => SimInv'
<1> SUFFICES ASSUME FileInv, Simulated, FileInv', [Next]_vars PROVE Simulated' BY DEF SimInv
<1>1. CASE ReadBlock BY <1>1, ReadBlockSimulated
<1>2. ASSUME NEW b \in Byte, Fill(b) PROVE Simulated' BY <1>2, FillSimulated
<1>3. ASSUME NEW b \in Byte, Slide(b) PROVE Simulated' BY <1>3, SlideSimulated
<1>4. ASSUME NEW b \in Byte, CutChunk(b) PROVE Simulated' BY <1>4, CutChunkSimulated
<1>5. CASE CutFixed \/ CutFixedTail \/ SkipLine \/ CutLine
  <2>1. input.type # "VariableSize"
    BY <1>5 DEF CutFixed, CutFixedTail, SkipLine, CutLine, AtLine
  <2> QED BY <2>1, InputStays DEF Simulated
<1>6. CASE Finish
  <2>1. IInv' BY DEF FileInv
  <2> QED BY <1>6, <2>1, FinishSimulated
<1>7. CASE UNCHANGED vars
  <2>1. /\ input' = input /\ block' = block /\ buffer' = buffer /\ winFp' = winFp
        /\ chunks' = chunks /\ head' = head /\ taken' = taken
    BY <1>7 DEF vars
  <2>2. Datas' = Datas /\ Ahead' = Ahead /\ File' = File BY <2>1 DEF Datas, Ahead, File
  <2> HIDE DEF Datas, Ahead
  <2> QED BY <2>1, <2>2 DEF Simulated
<1> QED BY <1>1, <1>2, <1>3, <1>4, <1>5, <1>6, <1>7 DEF Next

(* The Simulator cuts every file where the client does, and takes each of  *)
(* its features from the windows of the chunk alone.                       *)
THEOREM SimulatorCutsAlike == Spec => []SimulatorFeatures
<1>1. SimInv => SimulatorFeatures
  <2> SUFFICES ASSUME FileInv, Simulated, head # NoHead PROVE SimulatorFeatures
    BY DEF SimInv, SimulatorFeatures
  <2>1. Shape /\ ChunkBounds BY DEF FileInv, IInv
  <2>2. chunks \in Seq(Piece) /\ DOMAIN chunks = 1 .. Len(chunks) BY <2>1, Types
  <2>3. input.type = "VariableSize" => ChunkingWithID(File) = [k \in DOMAIN chunks |-> chunks[k].data]
    BY DEF Simulated, Datas
  <2>4. ASSUME NEW k \in DOMAIN chunks, NEW f \in DOMAIN mSet
        PROVE  LET d == chunks[k].data IN
               Wins(GetFeatureList(d)[f], Windows(d), DOMAIN Windows(d), f, LowMod)
    <3>1. chunks[k].data \in Seq(Nat) BY <2>1, <2>2, ChunkData
    <3> QED BY <3>1, FeatureOfWindows
  <2> QED BY <2>3, <2>4 DEF SimulatorFeatures
<1>2. SimInv => FileInv BY DEF SimInv
<1>3. FileInv => IInv BY DEF FileInv
<1> QED BY InitSimInv, StepSimInv, InitFileInv, StepFileInv, InitIInv, StepIInv, <1>1, <1>2, <1>3, PTL
        DEF Spec
=============================================================================
