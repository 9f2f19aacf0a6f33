-------------------------- MODULE MCMemoryManager --------------------------
(* Instances of MemoryManager for TLC. *)
EXTENDS MemoryManager, TLC

\* Threads and buffers are interchangeable (no property mixes them up).
Symmetry == Permutations(Buffers)
BothSymmetries == Permutations(Threads) \cup Permutations(Buffers)
============================================================================
