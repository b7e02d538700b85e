------------------------------- MODULE Chunker -------------------------------
(***************************************************************************)
(* How the client cuts a file into chunks (client/chunker.cpp), for each   *)
(* chunking type of config.json.                                           *)
(*                                                                         *)
(*   VariableSize  a rolling hash over the last slidingWinSize_ bytes      *)
(*                 decides where a chunk ends                              *)
(*   FixedSize     chunks of avgChunkSize_                                 *)
(*   Trace         one chunk per line of a trace (TraceFSL and TraceMS,    *)
(*                 which differ in the length of a fingerprint)            *)
(*                                                                         *)
(* The file is read into waitingForChunkingBuffer_ in blocks of ReadSize_; *)
(* chunks, numbered by their ID from 0, go to the fingerprinter's queue,   *)
(* and the recipe head after the last of them.                             *)
(***************************************************************************)
EXTENDS Integers, Sequences

CONSTANTS Byte,        \* byte values
          Inputs,      \* [type, data]: the files, and how each is chunked
          MinChunk, MaxChunk,  \* minChunkSize_, maxChunkSize_
          AvgChunk,    \* avgChunkSize_
          Window,      \* slidingWinSize_
          ReadSize,    \* ReadSize_
          PolyBase,    \* polyBase_ (257)
          PolyMod,     \* polyMOD_ + 1 (2^23): & polyMOD_ is % PolyMod
          FpMod,       \* 2^16: winFp is a uint16_t
          AnchorMod,   \* anchorMask_ + 1, the power of two below avgChunkSize_
          NoHead

(* The line of a trace is its chunk's size; PolyMod is 2^23, FpMod 2^16.   *)
ASSUME ChunkerAssumption ==
  /\ Byte \subseteq Nat /\ 0 \in Byte
  /\ Inputs \subseteq [type : {"VariableSize", "FixedSize"}, data : Seq(Byte)]
                       \cup [type : {"Trace"}, data : Seq(Nat \ {0})]
  /\ {MinChunk, MaxChunk, AvgChunk, Window, ReadSize} \subseteq Nat \ {0}
  /\ {PolyBase, PolyMod, FpMod, AnchorMod} \subseteq Nat \ {0}
  /\ Window < MinChunk /\ MinChunk < AvgChunk /\ AvgChunk < MaxChunk
  /\ PolyMod % FpMod = 0 /\ FpMod % AnchorMod = 0 /\ ReadSize % AvgChunk = 0
  /\ NoHead \notin [chunks : Nat, size : Int]

VARIABLES
  input,     \* the file and its chunking type
  block,     \* the part of the file the last read put in the buffer
  eof,       \* fin.eof()
  taken,     \* bytes, or lines, of the block already looked at
  buffer,    \* the first chunkBufferCnt_ bytes of chunkBuffer_
  winFp,     \* the rolling hash
  retSize,   \* the local of that name of fixSizeChunking
  chunks,    \* the chunks inserted in the queue: where they start, their bytes
  size,      \* fileSize
  head       \* the recipe head inserted after them

vars == <<input, block, eof, taken, buffer, winFp, retSize, chunks, size, head>>
-----------------------------------------------------------------------------
File == input.data
Lowest(m, n) == IF m < n THEN m ELSE n

(* powerLUT_[i].                                                           *)
Power[i \in Nat] == IF i = 0 THEN 1 ELSE (Power[i - 1] * PolyBase) % PolyMod

(* With a bug: the table is built for a window one byte shorter.           *)
RemoveOffByOne(v) == (PolyMod - ((v * Power[Window - 2]) % PolyMod)) % PolyMod

(* removeLUT_[v].                                                          *)
Remove(v) == (PolyMod - ((v * Power[Window - 1]) % PolyMod)) % PolyMod

(* winFp after byte b, while the window s fills.                           *)
FillWindow(fp, s, b) == ((fp + b * Power[Window - Len(s) - 1]) % PolyMod) % FpMod

(* With a bug: winFp is wider than the fingerprint the anchors are sought  *)
(* in, an int in place of a uint16_t.                                      *)
SlideWindowWide(fp, s, b) ==
  ((fp + Remove(s[Len(s) - Window + 1])) * PolyBase + b) % PolyMod

(* winFp after byte b, when the window at the end of s slides over it.     *)
SlideWindow(fp, s, b) ==
  (((fp + Remove(s[Len(s) - Window + 1])) * PolyBase + b) % PolyMod) % FpMod

(* The bytes from a to b - 1 of the block's buffer, which is zeroed before *)
(* it is filled.                                                           *)
Bytes(a, b) ==
  [i \in 1 .. b - a |-> IF a + i <= Len(block.bytes) THEN block.bytes[a + i] ELSE 0]

(* The file offset where the next chunk starts.                            *)
NextStart == IF chunks = << >> THEN 0
             ELSE LET c == chunks[Len(chunks)] IN c.at + Len(c.data)

InsertMQ(data) == chunks' = Append(chunks, [at |-> NextStart, data |-> data])
BlockDone == taken >= Len(block.bytes)
More == head = NoHead /\ ~ BlockDone
-----------------------------------------------------------------------------
(* fin.read: a block shorter than ReadSize_ is the last. varSizeChunking   *)
(* zeroes chunkBuffer_ at each read, the bytes of an unfinished chunk too. *)
ReadBlock ==
  /\ head = NoHead /\ BlockDone /\ ~ eof
  /\ input.type # "Trace"
  /\ LET from == block.from + Len(block.bytes)
         to == Lowest(from + ReadSize, Len(File))
     IN  /\ block' = [from |-> from, bytes |-> SubSeq(File, from + 1, to)]
         /\ eof' = (to - from < ReadSize)
         /\ size' = size + (to - from)
  /\ taken' = 0 /\ retSize' = 0
  /\ buffer' = [i \in 1 .. Len(buffer) |-> 0]
  /\ UNCHANGED <<input, winFp, chunks, head>>

Take(b) == /\ More /\ input.type = "VariableSize"
           /\ b = block.bytes[taken + 1]
           /\ taken' = taken + 1
           /\ UNCHANGED <<input, block, eof, retSize, size, head>>

(* The next byte, while the window is not full.                            *)
Fill(b) ==
  /\ Take(b)
  /\ Len(buffer) < Window
  /\ winFp' = FillWindow(winFp, buffer, b)
  /\ buffer' = Append(buffer, b)
  /\ UNCHANGED chunks

(* With a bug: a boundary may come before minChunkSize_.                   *)
EndsAnywhere(n, fp) == fp % AnchorMod = 0 \/ n >= MaxChunk

(* A chunk of n bytes ends here: the minimum is reached and the hash is    *)
(* an anchor, or the maximum is.                                           *)
EndsHere(n, fp) == n >= MinChunk /\ (fp % AnchorMod = 0 \/ n >= MaxChunk)

(* The next byte, inside a chunk and at its end.                           *)
Slide(b) ==
  /\ Take(b)
  /\ Len(buffer) >= Window
  /\ LET fp == SlideWindow(winFp, buffer, b)
     IN  ~ EndsHere(Len(buffer) + 1, fp) /\ winFp' = fp
  /\ buffer' = Append(buffer, b)
  /\ UNCHANGED chunks

CutChunk(b) ==
  /\ Take(b)
  /\ Len(buffer) >= Window
  /\ EndsHere(Len(buffer) + 1, SlideWindow(winFp, buffer, b))
  /\ InsertMQ(Append(buffer, b))
  /\ buffer' = << >> /\ winFp' = 0
-----------------------------------------------------------------------------
(* fixSizeChunking, in a block that was read in full.                      *)
CutFixed ==
  /\ More /\ input.type = "FixedSize"
  /\ Len(block.bytes) = ReadSize
  /\ InsertMQ(Bytes(taken, taken + AvgChunk))
  /\ taken' = taken + AvgChunk
  /\ UNCHANGED <<input, block, eof, buffer, winFp, retSize, size, head>>

(* In the last block retSize is computed after it is used: it is 0 for the *)
(* first chunk and one chunk too long after that.                          *)
CutFixedTail ==
  /\ More /\ input.type = "FixedSize"
  /\ Len(block.bytes) < ReadSize
  /\ InsertMQ(Bytes(taken, taken + Lowest(retSize, AvgChunk)))
  /\ retSize' = Len(block.bytes) - taken
  /\ taken' = taken + AvgChunk
  /\ UNCHANGED <<input, block, eof, buffer, winFp, size, head>>

(* getline, and the line's last field.                                     *)
AtLine == head = NoHead /\ input.type = "Trace" /\ taken < Len(File)
Line == File[taken + 1]

(* A trace is read line by line; a chunk above maxChunkSize_ is skipped.   *)
SkipLine ==
  /\ AtLine
  /\ Line > MaxChunk
  /\ taken' = taken + 1
  /\ UNCHANGED <<input, block, eof, buffer, winFp, retSize, chunks, size, head>>

CutLine ==
  /\ AtLine
  /\ Line <= MaxChunk
  /\ InsertMQ([i \in 1 .. Line |-> 0])
  /\ size' = size + Line
  /\ taken' = taken + 1
  /\ UNCHANGED <<input, block, eof, buffer, winFp, retSize, head>>

AllRead == IF input.type = "Trace" THEN taken = Len(File) ELSE eof /\ BlockDone

(* With a bug: the final chunk is not inserted.                            *)
FinishDropsLast ==
  /\ head = NoHead /\ AllRead
  /\ buffer' = << >> /\ winFp' = 0
  /\ head' = [chunks |-> Len(chunks), size |-> size]
  /\ UNCHANGED <<input, block, eof, taken, retSize, chunks, size>>

(* The final chunk, if any byte is left, and the recipe head.              *)
Finish ==
  /\ head = NoHead /\ AllRead
  /\ IF buffer = << >> THEN UNCHANGED chunks ELSE InsertMQ(buffer)
  /\ buffer' = << >> /\ winFp' = 0
  /\ head' = [chunks |-> Len(chunks'), size |-> size]
  /\ UNCHANGED <<input, block, eof, taken, retSize, size>>
-----------------------------------------------------------------------------
Init ==
  /\ input \in Inputs
  /\ block = [from |-> 0, bytes |-> << >>]
  /\ eof = FALSE
  /\ taken = 0 /\ buffer = << >> /\ winFp = 0 /\ retSize = 0
  /\ chunks = << >> /\ size = 0 /\ head = NoHead

Next == \/ ReadBlock
        \/ \E b \in Byte : Fill(b) \/ Slide(b) \/ CutChunk(b)
        \/ CutFixed \/ CutFixedTail
        \/ SkipLine \/ CutLine
        \/ Finish

Spec == Init /\ [][Next]_vars

-----------------------------------------------------------------------------
(* Every variable has its type: winFp keeps to 16 bits and an unfinished   *)
(* chunk to the size of chunkBuffer_.                                      *)
TypeOK ==
  /\ input \in [type : {"VariableSize", "FixedSize", "Trace"}, data : Seq(Nat)]
  /\ block \in [from : Nat, bytes : Seq(Byte)] /\ Len(block.bytes) <= ReadSize
  /\ eof \in BOOLEAN /\ taken \in Nat /\ retSize \in 0 .. ReadSize
  /\ buffer \in Seq(Byte) /\ Len(buffer) < MaxChunk
  /\ winFp \in 0 .. FpMod - 1
  /\ chunks \in Seq([at : Nat, data : Seq(Byte)])
  /\ size \in Nat
  /\ head \in [chunks : Nat, size : Nat] \cup {NoHead}

(* No chunk is larger than maxChunkSize_, which the buffers of the whole   *)
(* client are sized for, none is empty but by CutFixedTail, and in         *)
(* variable size chunking only the last may be smaller than minChunkSize_. *)
ChunkBounds ==
  \A k \in DOMAIN chunks :
    /\ Len(chunks[k].data) \in 0 .. MaxChunk
    /\ input.type # "FixedSize" => Len(chunks[k].data) > 0
    /\ input.type = "VariableSize" /\ (k < Len(chunks) \/ head = NoHead)
         => Len(chunks[k].data) >= MinChunk

(* A read has zeroed byte i of chunk c before it was complete; the read    *)
(* that finds the end of the file does so too.                             *)
Zeroed(c, i) ==
  \E q \in 1 .. Len(File) \div ReadSize :
    /\ c.at + i <= q * ReadSize
    /\ q * ReadSize < c.at + Len(c.data) \/ q * ReadSize = Len(File)

(* A fixed size file ends in a block that is not full, from this byte on.  *)
ShortBlock == (Len(File) \div ReadSize) * ReadSize
EndsShort == input.type = "FixedSize" /\ ShortBlock < Len(File)

(* The chunks, in the order of their IDs, are the file, each byte in one   *)
(* chunk, at its place: a restore, which puts the chunks one after the     *)
(* other, then gives the file back; and the head counts them, which the    *)
(* restore relies on. What is lost is lost in two ways only: a read zeroes *)
(* what it finds of an unfinished variable size chunk, and of a fixed size *)
(* file the first chunk of a last block that is not full is empty, while   *)
(* the last is filled up with zeros.                                       *)
ChunksAreFile ==
  /\ input.type = "VariableSize" => \A k \in DOMAIN chunks : LET c == chunks[k] IN
       /\ c.at + Len(c.data) <= Len(File)
       /\ \A i \in DOMAIN c.data : \/ c.data[i] = File[c.at + i]
                                   \/ c.data[i] = 0 /\ Zeroed(c, i)
  /\ input.type = "FixedSize" => \A k \in DOMAIN chunks : LET from == (k - 1) * AvgChunk IN
       chunks[k].data =
         IF EndsShort /\ from = ShortBlock THEN << >>
         ELSE [i \in 1 .. AvgChunk |-> IF from + i <= Len(File) THEN File[from + i] ELSE 0]
  /\ head # NoHead =>
       /\ head.chunks = Len(chunks)
       /\ ~ EndsShort => head.size = NextStart
       /\ input.type = "VariableSize" => head.size = Len(File)
       /\ input.type = "FixedSize" => (head.chunks - 1) * AvgChunk < head.size
                                      /\ head.size <= head.chunks * AvgChunk

(* The polynomial of the bytes of a window.                                *)
Polynomial(w) ==
  LET p[i \in 0 .. Len(w)] == IF i = 0 THEN 0 ELSE (p[i - 1] * PolyBase + w[i]) % FpMod
  IN  p[Len(w)]

(* A chunk's bytes alone decide where it ends: a definition of the         *)
(* boundary that knows nothing of tables, of carried state or of blocks.   *)
Boundary(s, n) ==
  n >= MinChunk /\ \/ Polynomial(SubSeq(s, n - Window + 1, n)) % AnchorMod = 0
                   \/ n >= MaxChunk

(* Deduplication finds a repeated content again after a shift because a    *)
(* chunk depends on nothing before its first byte: a chunk ends at the     *)
(* first boundary of its own bytes, whatever was hashed before, unless a   *)
(* read has come in the middle of it.                                      *)
ContentDefined ==
  input.type = "VariableSize" =>
    /\ \A k \in DOMAIN chunks : LET d == chunks[k].data IN
         (\A i \in DOMAIN d : ~ Zeroed(chunks[k], i)) =>
           /\ \A n \in 1 .. Len(d) - 1 : ~ Boundary(d, n)
           /\ k < Len(chunks) \/ head = NoHead => Boundary(d, Len(d))
    /\ NextStart >= block.from => \A n \in 1 .. Len(buffer) : ~ Boundary(buffer, n)
=============================================================================
