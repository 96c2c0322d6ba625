------------------------------- MODULE MCIoRoot -------------------------------
(* Instance of IoRoot: children and devices are interchangeable.             *)
EXTENDS IoRoot, TLC

Symmetry == Permutations(Children) \cup Permutations(Devices)
=============================================================================
