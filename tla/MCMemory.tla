------------------------------ MODULE MCMemory ------------------------------
(* An instance of Memory for TLC: two memories, two processes at a time. *)
EXTENDS Memory, TLC

CONSTANTS k1, k2, p1, p2

\* Memories and processes are used symmetrically, and no liveness is checked.
Symmetry == Permutations(Chunks) \cup Permutations(Procs)

=============================================================================
