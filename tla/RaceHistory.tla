----------------------------- MODULE RaceHistory -----------------------------
(* The race controller under every sequence of collections: any groups race, *)
(* any number of times, and a collection either finishes or is aborted by an *)
(* error (collector.go:69-72 returns without OnCollectionFinished).  The     *)
(* properties are stated over the history of collections, which the code     *)
(* does not keep: they say that two small maps summarise it correctly.       *)
EXTENDS RaceController, Sequences

CONSTANT MaxHistory      \* bound on the length of the history

ASSUME HistoryAssumption == MaxHistory \in Nat

VARIABLES collecting,        \* Collect holds its lock
          forgiven,          \* groups with a forgiven race in this collection
          reported,          \* groups with a reported race in this collection
          history            \* the collections that have ended

raceHistoryVars == <<current, active, collecting, forgiven, reported, history>>

Outcome == [raced : SUBSET Groups, reported : SUBSET Groups, finished : BOOLEAN]

HistoryInit == /\ NewRaceController
               /\ collecting = FALSE
               /\ forgiven = {}
               /\ reported = {}
               /\ history = <<>>

StartCollection == /\ ~collecting
                   /\ Len(history) < MaxHistory
                   /\ OnCollectionStarted
                   /\ collecting' = TRUE
                   /\ forgiven' = {}
                   /\ reported' = {}
                   /\ UNCHANGED history

\* ReadProperty finds the file of group g missing (group.go:94-109).
Race(g) == /\ collecting
           /\ Check(g)
           /\ forgiven' = IF IsReported(g) THEN forgiven ELSE forgiven \cup {g}
           /\ reported' = IF IsReported(g) THEN reported \cup {g} ELSE reported
           /\ UNCHANGED <<collecting, history>>

Remember(finished) ==
    history' = Append(history, [raced    |-> current,
                                reported |-> reported,
                                finished |-> finished])

FinishCollection == /\ collecting
                    /\ OnCollectionFinished
                    /\ collecting' = FALSE
                    /\ Remember(TRUE)
                    /\ UNCHANGED <<forgiven, reported>>

\* The hierarchy could not be observed: Collect returns without finishing.
AbortCollection == /\ collecting
                   /\ collecting' = FALSE
                   /\ Remember(FALSE)
                   /\ UNCHANGED <<current, active, forgiven, reported>>

HistoryNext == \/ StartCollection
               \/ \E g \in Groups : Race(g)
               \/ FinishCollection
               \/ AbortCollection

HistorySpec == HistoryInit /\ [][HistoryNext]_raceHistoryVars
-----------------------------------------------------------------------------
HistoryTypeOK == /\ RaceTypeOK
                 /\ collecting \in BOOLEAN
                 /\ forgiven \in SUBSET Groups
                 /\ reported \in SUBSET Groups
                 /\ history \in Seq(Outcome)

\* g has raced in every collection from the i-th on.
RacedSince(g, i) == \A k \in i..Len(history) : g \in history[k].raced

(* A race cannot be forgiven for ever: a group that has raced in more than   *)
(* MaxRetries collections in a row, aborted ones included, has been reported *)
(* in the last of them (races.go:37-43, 48-50).                              *)
PersistentRaceIsReported ==
    \A g \in Groups : \A i \in 1..Len(history) :
        ( /\ RacedSince(g, i)
          /\ Len(history) - i >= MaxRetries )
        => g \in history[Len(history)].reported

\* The collections in which g has raced since one finished without a race on g.
Streak(g) ==
    {i \in 1..Len(history) :
        /\ g \in history[i].raced
        /\ \A k \in i..Len(history) :
               history[k].finished => g \in history[k].raced}

(* The counts are exactly the history's: an aborted collection neither adds  *)
(* a race to a group that was not reached nor forgives it, and one finished  *)
(* collection without a race on a group clears it (races.go:60-67), so a     *)
(* group that recovered starts again with all its retries.                   *)
CountsMatchHistory ==
    \A g \in Groups :
        active[g] = Cardinality(Streak(g))
                    + IF collecting /\ g \in current THEN 1 ELSE 0

(* One collection forgives at most MaxActiveRaces groups, however the checks *)
(* are ordered and whatever earlier collections left in the map              *)
(* (races.go:45-47).                                                         *)
FewGroupsAreForgiven == Cardinality(forgiven) <= MaxActiveRaces

(* A report is not taken back: a later check of the same group in the same   *)
(* collection, by whichever collector, would report it again, whatever has   *)
(* raced in between (races.go:36-58).  The other way round it is possible: a *)
(* group that was forgiven may be reported when it is checked again, because *)
(* another group has reached the limit since (races.go:45-47).               *)
ReportsAreFinal == collecting => \A g \in reported : IsReported(g)
=============================================================================
