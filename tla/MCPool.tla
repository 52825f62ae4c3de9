------------------------------- MODULE MCPool -------------------------------
(* Three blocks: the list can be empty, have one block and be permuted.    *)
EXTENDS Pool

MCMaxChunks == 3
=============================================================================
