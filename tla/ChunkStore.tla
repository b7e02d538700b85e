----------------------------- MODULE ChunkStore -----------------------------
(***************************************************************************)
(* What the storage server promises: a map from chunk hash to chunk        *)
(* content that only grows, survives a restart, and from which a restore   *)
(* reads the exact bytes of a stored chunk, or as many zero bytes as the   *)
(* chunk has when it was never stored (the TRACE_DRIVEN_TEST build).       *)
(***************************************************************************)
CONSTANTS Chunk, DataThread, NoReply,
          Content,  \* the bytes of each chunk
          Blank     \* as many zero bytes

VARIABLES stored, reply

Init == /\ stored = {}
        /\ reply = [t \in DataThread |-> NoReply]

Put(h) == /\ stored' = stored \cup {h}
          /\ UNCHANGED reply

Get(t, h) ==
  /\ reply' = [reply EXCEPT ![t] =
                 [chunk |-> h, data |-> IF h \in stored THEN Content[h] ELSE Blank[h]]]
  /\ UNCHANGED stored

(* The connections of a stopped server are gone, the stored chunks are not.*)
Restart == /\ reply' = [t \in DataThread |-> NoReply]
           /\ UNCHANGED stored

Next == \/ \E h \in Chunk : Put(h)
        \/ \E t \in DataThread, h \in Chunk : Get(t, h)
        \/ Restart

Spec == Init /\ [][Next]_<<stored, reply>>
=============================================================================
