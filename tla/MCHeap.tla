-------------------------------- MODULE MCHeap --------------------------------
(* TinyMalloc on a heap of a few words. *)
EXTENDS TinyMalloc, TLC

CONSTANTS c1, c2, c3

Symmetry == Permutations(Chunk)
===============================================================================
