------------------------------ MODULE MCRestore ------------------------------
(* RestorePath on files of no chunk to six, with batches of two: every     *)
(* length below, at and above a batch. The server lacks one of the chunks. *)
EXTENDS RestorePath

CONSTANTS a, b, lost, file, c1

MCRecipes == {<< >>, <<a>>, <<a, b>>, <<b, lost, a>>, <<a, b, b, a>>, <<b, a, a, b, b>>,
              <<a, b, a, lost, a, b>>}
MCFileOf == [c \in Client |-> file]
=============================================================================
