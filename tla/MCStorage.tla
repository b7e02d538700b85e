------------------------------ MODULE MCStorage -----------------------------
(* StorageCore on two chunks of one and two bytes, stored any number of    *)
(* times, and containers of at most three (MaxContainerSize is a strict    *)
(* bound), so that a container holds one to three chunks.                  *)
EXTENDS StorageCore

CONSTANTS h1, h2

MCChunk == {h1, h2}
MCChunkSize == [h \in MCChunk |-> IF h = h1 THEN 1 ELSE 2]
MCName == 0 .. LastContainer
=============================================================================
