---------------------------- MODULE MCKernelProcs ----------------------------
EXTENDS KernelProcs, TLC

Symmetry == Permutations(Pids) \cup Permutations(Collections)
=============================================================================
