------------------------------- MODULE MCHeap -------------------------------
(* The heap for TLC: room for four blocks of the least size. *)
EXTENDS Heap, TLC

Symmetry == Permutations(Thread)

=============================================================================
