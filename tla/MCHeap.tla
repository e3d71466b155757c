------------------------------- MODULE MCHeap -------------------------------
(* Small instances of the allocator for TLC. *)
EXTENDS Heap
=============================================================================
