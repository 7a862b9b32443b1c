----------------------------- MODULE MCAllocator -----------------------------
(* Instances of the allocator for TLC. *)
EXTENDS AllocatorStore, TLC

HandleSymmetry == Permutations(Handles)
=============================================================================
