------------------------------- MODULE Features -------------------------------
(***************************************************************************)
(* From the chunks that Chunker cuts to the features that their keys are   *)
(* asked by: client/fingerprinter.cpp, and the chunker and the FeatureGen  *)
(* of the Simulator that are to predict it (simCode/chunking.cpp,          *)
(* featureExtraction.hpp).                                                 *)
(*                                                                         *)
(* A rolling hash over SubWindow bytes leaves a list of fingerprints; each *)
(* feature is the fingerprint for which m * fp + a is the greatest.        *)
(*                                                                         *)
(* The client writes its list over an array of the thread's stack, and     *)
(* leaves alone the first SubWindow entries, which it then reads. The      *)
(* array has one place on the stack: what a chunk leaves there, the next   *)
(* chunk of the thread finds. The Simulator pushes the same fingerprints   *)
(* on a vector, and maximises over 32 bits in place of 64. Both hash each  *)
(* window when they see the byte after it, and so never the last.          *)
(***************************************************************************)
EXTENDS Chunker, FiniteSetsExt

CONSTANTS SubWindow,  \* slidingWinSize_ of the fingerprinter (64)
          SubBase,    \* its polyBase_ (257)
          SubMod,     \* its polyMOD_ + 1 (2^64)
          LowMod,     \* UINT_MAX + 1 (2^32)
          mSet, aSet, \* the factors and the summands of the features
          Stacks      \* what the stack of a thread may hold

ASSUME FeaturesAssumption ==
  /\ {SubWindow, SubBase, SubMod, LowMod} \subseteq Nat \ {0}
  /\ SubMod % LowMod = 0
  /\ mSet \in Seq(Nat) /\ aSet \in Seq(Nat) /\ Len(mSet) = Len(aSet)
  /\ Stacks \subseteq [0 .. MaxChunk - 1 -> 0 .. SubMod - 1]
-----------------------------------------------------------------------------
(* powerLUT_[i] and removeLUT_[v] of initFeatureGen.                       *)
SubPower[i \in Nat] == IF i = 0 THEN 1 ELSE (SubPower[i - 1] * SubBase) % SubMod
SubRemove(v) == (SubMod - ((v * SubPower[SubWindow - 1]) % SubMod)) % SubMod

(* winFp before byte i of chunk d, from 0: it fills for SubWindow bytes,   *)
(* and slides from there on.                                               *)
WinFp(d) ==
  LET fp[i \in 0 .. Len(d)] ==
        IF i = 0 THEN 0
        ELSE IF i <= SubWindow
             THEN (fp[i - 1] + d[i] * SubPower[SubWindow - i]) % SubMod
             ELSE ((fp[i - 1] + SubRemove(d[i - SubWindow])) * SubBase + d[i]) % SubMod
  IN  fp

(* With a bug: the fingerprint is stored at the end of its window, and the *)
(* entry of the last byte is left to the chunk before.                     *)
FpListGenEarly(d, list) ==
  [i \in DOMAIN list |-> IF i + 1 \in SubWindow .. Len(d) - 1 THEN WinFp(d)[i + 1] ELSE list[i]]

(* The array after chunk d.                                                *)
FpListGen(d, list) ==
  [i \in DOMAIN list |-> IF i \in SubWindow .. Len(d) - 1 THEN WinFp(d)[i] ELSE list[i]]

(* The k-th feature: the first of the entries before n with the greatest   *)
(* m * fp + a, computed modulo mod; 0 if none is above 0.                  *)
Target(list, n, k, mod) ==
  LET pi(fp) == (mSet[k] * fp + aSet[k]) % mod
      best == Max({0} \cup {pi(list[j]) : j \in 0 .. n - 1})
  IN  IF best = 0 THEN 0 ELSE list[Min({j \in 0 .. n - 1 : pi(list[j]) = best})]

(* The features that are hashed together to the seed of a chunk of n       *)
(* bytes; a seed is taken for what it is the hash of.                      *)
ExtractSFList(list, n) ==
  [k \in DOMAIN mSet |-> Target(list, n, k, SubMod)]

(* runFingerprintGen: a thread's array after it has taken chunks 1 .. k.   *)
ListAfter(stack) ==
  LET list[k \in 0 .. Len(chunks)] ==
        IF k = 0 THEN stack ELSE FpListGen(chunks[k].data, list[k - 1])
  IN  list

Seed(stack, k) == ExtractSFList(ListAfter(stack)[k], Len(chunks[k].data))
-----------------------------------------------------------------------------
(* The Simulator's chunker: bytes go to buffer, the hash fp and the tables *)
(* are those of the client.                                                *)
SimByte(s, b) ==
  LET data == Append(s.buffer, b)
      fp == IF Len(s.buffer) < Window THEN FillWindow(s.fp, s.buffer, b)
            ELSE SlideWindow(s.fp, s.buffer, b)
  IN  IF EndsHere(Len(data), fp)
      THEN [cut |-> Append(s.cut, data), buffer |-> << >>, fp |-> 0]
      ELSE [s EXCEPT !.buffer = data, !.fp = fp]

(* The chunks of a file. A read comes after every ReadSize bytes and       *)
(* zeroes the chunk buffer; what is left at the end is the last chunk.     *)
ChunkingWithID(file) ==
  LET s[i \in 0 .. Len(file)] ==
        IF i = 0 THEN [cut |-> << >>, buffer |-> << >>, fp |-> 0]
        ELSE LET t == SimByte(s[i - 1], file[i])
             IN  IF i % ReadSize = 0
                 THEN [t EXCEPT !.buffer = [j \in DOMAIN @ |-> 0]] ELSE t
      last == s[Len(file)]
  IN  IF last.buffer = << >> THEN last.cut ELSE Append(last.cut, last.buffer)

(* With a bug: the window slides before its fingerprint is pushed, so that *)
(* the first window is lost and the last is not.                           *)
FpVectorLate(d) ==
  [j \in 0 .. Len(d) - SubWindow - 1 |-> WinFp(d)[j + SubWindow + 1]]

(* The Simulator: fpList as it is pushed.                                  *)
FpVector(d) == [j \in 0 .. Len(d) - SubWindow - 1 |-> WinFp(d)[j + SubWindow]]

GetFeatureList(d) ==
  LET list == FpVector(d)
  IN  [k \in DOMAIN mSet |-> Target(list, Cardinality(DOMAIN list), k, LowMod)]
-----------------------------------------------------------------------------
(* The polynomial of a window's bytes.                                     *)
WindowHash(w) ==
  LET p[i \in 0 .. Len(w)] == IF i = 0 THEN 0 ELSE (p[i - 1] * SubBase + w[i]) % SubMod
  IN  p[Len(w)]

(* The windows of chunk d by the byte after them, the last left out.       *)
Windows(d) == [j \in SubWindow .. Len(d) - 1 |-> WindowHash(SubSeq(d, j - SubWindow + 1, j))]

(* fp is a greatest, by the k-th feature's order modulo mod, of the         *)
(* fingerprints list gives at places js.                                   *)
Wins(fp, list, js, k, mod) ==
  LET pi(x) == (mSet[k] * x + aSet[k]) % mod IN
  \/ \E j \in js : fp = list[j] /\ \A i \in js : pi(list[i]) <= pi(fp)
  \/ fp = 0 /\ \A i \in js : pi(list[i]) = 0

(* The key of a chunk is asked by its content: each feature is a greatest  *)
(* of the chunk's own windows and of what the stack held in its first      *)
(* entries before the thread took its first chunk, and two chunks of one   *)
(* content get one seed, from one thread or from two threads that found    *)
(* the same in those entries. Neither a table, nor the chunk before, which *)
(* may be longer, nor what lies further up the stack, has a part in it.    *)
SeedOfContent ==
  head # NoHead =>
    \A s \in Stacks : \A k \in DOMAIN chunks :
      LET d == chunks[k].data
          n == Len(d)
          list == [j \in 0 .. n - 1 |-> IF j < SubWindow THEN s[j] ELSE Windows(d)[j]]
      IN  /\ \A f \in DOMAIN mSet :
               Wins(Seed(s, k)[f], list, 0 .. n - 1, f, SubMod)
          /\ \A t \in Stacks, l \in DOMAIN chunks :
               /\ chunks[l].data = d
               /\ \A j \in 0 .. SubWindow - 1 : s[j] = t[j]
               => Seed(t, l) = Seed(s, k)

(* The Simulator cuts a file where the client does, the bytes that a read  *)
(* zeroes included. Its features of a chunk are over the chunk's own       *)
(* windows but the last: it tells the client's features only as far as     *)
(* these are not those of the stack, and as 32 bits of m * fp + a order    *)
(* them as 64 do.                                                          *)
SimulatorFeatures ==
  head # NoHead =>
    /\ input.type = "VariableSize" =>
         ChunkingWithID(File) = [k \in DOMAIN chunks |-> chunks[k].data]
    /\ \A k \in DOMAIN chunks :
         LET d == chunks[k].data IN
           \A f \in DOMAIN mSet :
             Wins(GetFeatureList(d)[f], Windows(d), DOMAIN Windows(d), f, LowMod)
=============================================================================
