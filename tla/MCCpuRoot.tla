------------------------------ MODULE MCCpuRoot ------------------------------
(* Instance of CpuRoot: the children and the counters are interchangeable.   *)
EXTENDS CpuRoot, TLC

Symmetry == Permutations(Children) \cup Permutations(Kinds)
=============================================================================
