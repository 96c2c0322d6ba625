--------------------------- MODULE RaceController ---------------------------
(* internal/cgroups/races.go: the memory of "races", reads of a control      *)
(* group that is gone by the time it is read.  A race is forgiven (the check *)
(* returns nil and the group is silently skipped) until it repeats in too    *)
(* many collections or too many groups race at once; then it is an error.    *)
(* A map entry that is absent reads as 0 and a stored one is at least 1, so  *)
(* the Go map "active" is a total function here, 0 standing for absent.      *)
(*                                                                           *)
(* Here and in the other modules, a definition called a mutant is a bug that *)
(* the definition after it could have; no specification uses it.             *)
EXTENDS Integers, FiniteSets

CONSTANTS Groups,          \* names of control groups
          MaxRetries,      \* collections in which a race on a group is forgiven
          MaxActiveRaces   \* number of groups that may be racing at a time

ASSUME RaceAssumption == /\ MaxRetries \in Nat
                         /\ MaxActiveRaces \in Nat
                         /\ IsFiniteSet(Groups)

VARIABLES current,   \* groups that have raced in the current collection
          active     \* collections in which each group has raced

raceVars == <<current, active>>

NewRaceController == /\ current = {}
                     /\ active = [g \in Groups |-> 0]

OnCollectionStarted == /\ current' = {}
                       /\ UNCHANGED active

\* Mutant: every race counts.
RacesEach(g) == active[g] + 1

\* A group that races twice in a collection is counted once.
Races(g) == IF g \in current THEN active[g] ELSE active[g] + 1

RacedGroups(counts) == {g \in Groups : counts[g] > 0}

\* A group that has raced in this collection has an entry in the other map.
RaceTypeOK == /\ active \in [Groups -> Nat]
              /\ current \subseteq RacedGroups(active)

Counted(g) == [active EXCEPT ![g] = Races(g)]

\* Mutant: one collection too many is forgiven.
IsReportedLate(g) == \/ Cardinality(RacedGroups(Counted(g))) > MaxActiveRaces
                     \/ Races(g) > MaxRetries + 1

\* Mutant: the groups are counted before g is stored.
IsReportedBeforeStored(g) == \/ Cardinality(RacedGroups(active)) > MaxActiveRaces
                             \/ Races(g) > MaxRetries

\* Mutant: only the number of groups matters.
IsReportedTogether(g) == Cardinality(RacedGroups(Counted(g))) > MaxActiveRaces

\* Whether Check(g) returns the error (TRUE) or forgives the race (FALSE).
IsReported(g) == \/ Cardinality(RacedGroups(Counted(g))) > MaxActiveRaces
                 \/ Races(g) > MaxRetries

\* Mutant: a reported group starts again.
CheckResets(g) ==
    /\ current' = current \cup {g}
    /\ active' = IF IsReported(g) THEN [active EXCEPT ![g] = 0] ELSE Counted(g)

\* Mutant: the new count is not stored.
CheckForgetsTheCount(g) == /\ current' = current \cup {g}
                           /\ UNCHANGED active

Check(g) == /\ current' = current \cup {g}
            /\ active' = Counted(g)

OnCollectionFinished ==
    /\ active' = [g \in Groups |-> IF g \in current THEN active[g] ELSE 0]
    /\ current' = {}
=============================================================================
