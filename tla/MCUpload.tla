------------------------------ MODULE MCUpload ------------------------------
(* UploadPipeline on files of a few chunks, the second and third with the  *)
(* same content, with queues and batches short enough that each fills and  *)
(* each is left partly filled.                                             *)
EXTENDS UploadPipeline

MCContentOf == [x \in 1 .. FileLength |-> IF x <= 2 THEN x ELSE x - 1]
MCContent == {MCContentOf[x] : x \in 1 .. FileLength}
=============================================================================
