------------------------------ MODULE MCChunker ------------------------------
(* Chunker on all variable size files of up to MaxFile bytes of three      *)
(* values, which is less than a read, on those of two values that a read   *)
(* cuts or ends with, on fixed size files that fill their reads and on     *)
(* one of each other length, and on traces of up to three lines.           *)
EXTENDS Features

CONSTANT MaxFile

Files(n) == [1 .. n -> Byte]
Typed(type, data) == {[type |-> type, data |-> d] : d \in data}

MCInputs ==
  Typed("VariableSize", UNION {Files(n) : n \in 0 .. MaxFile})
    \cup Typed("VariableSize", UNION {[1 .. n -> {1, 2}] : n \in ReadSize .. ReadSize + 1})
    \cup Typed("FixedSize", {<< >>} \cup [1 .. ReadSize -> {0, 1}])
    \cup Typed("FixedSize", {[i \in 1 .. n |-> 1 + (i % 2)] : n \in 1 .. 2 * ReadSize - 1})
    \cup Typed("Trace", UNION {[1 .. n -> {1, MaxChunk, MaxChunk + 1}] : n \in 0 .. 3})

(* A stack of zeros, and two that differ only past the first entries.      *)
MCStacks == {[j \in 0 .. MaxChunk - 1 |-> 0],
             [j \in 0 .. MaxChunk - 1 |-> j + 3],
             [j \in 0 .. MaxChunk - 1 |-> IF j < SubWindow THEN j + 3 ELSE 7]}
MCmSet == <<3, 5>>
MCaSet == <<1, 2>>
=============================================================================
