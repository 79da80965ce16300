----------------------------- MODULE MCAllocator -----------------------------
(* Instances of Allocator for TLC. *)
EXTENDS Allocator

Symmetry == Permutations(Threads) \cup Permutations(Buffers)
=============================================================================
