--------------------------- MODULE MCMemoryGovernance ---------------------------
(* MemoryGovernance on a small instance for TLC. *)
EXTENDS MemoryGovernance, TLC

Symmetry == Permutations(Memories) \cup Permutations(Requests)
=============================================================================
