---------------------------- MODULE MCRaceHistory ----------------------------
(* Instance of RaceHistory: the groups are interchangeable.                  *)
EXTENDS RaceHistory, TLC

Symmetry == Permutations(Groups)
=============================================================================
