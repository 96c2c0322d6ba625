---------------------------- MODULE CgroupsProofs ----------------------------
(* Proofs about the cgroups collector, for any hierarchy, any limits and any *)
(* number of changes: what the race controller forgives and reports          *)
(* (RaceHistory), what the classifier answers (CgroupClassifier), what the   *)
(* walk sends, leaves out and says of it (CgroupsCollector), and that the    *)
(* races of the walk are races of RaceHistory.                               *)
EXTENDS CgroupsCollector, CgroupClassifier, RaceHistory, FiniteSetTheorems,
        SequenceTheorems, TLAPS

(* The race controller.  The properties of RaceHistory are about the history *)
(* of collections; what makes them inductive is how the two maps relate to   *)
(* it, collected in HistoryInv.                                              *)

\* 1 while a race of the current collection is not in the history yet.
Pending(g) == IF collecting /\ g \in current THEN 1 ELSE 0

(* The count is at least the length of any unbroken run of races that ends   *)
(* the history.                                                              *)
CountsCoverRuns ==
    \A g \in Groups : \A i \in 1..(Len(history) + 1) :
        RacedSince(g, i) => active[g] >= Len(history) - i + 1 + Pending(g)

LimitIsReported ==
    \A g \in Groups : collecting /\ g \in current /\ active[g] > MaxRetries
                      => g \in reported

RacedAreCounted ==
    collecting => /\ \A g \in current : active[g] > 0
                  /\ forgiven \subseteq current

IsOverLimit(g) == \/ Cardinality(RacedGroups(active)) > MaxActiveRaces
                  \/ active[g] > MaxRetries

ReportedAreOverLimit ==
    collecting => /\ reported \subseteq current
                  /\ \A g \in reported : IsOverLimit(g)

HistoryInv == /\ HistoryTypeOK
              /\ CountsCoverRuns
              /\ LimitIsReported
              /\ RacedAreCounted
              /\ ReportedAreOverLimit
              /\ FewGroupsAreForgiven
              /\ PersistentRaceIsReported
-----------------------------------------------------------------------------
(* The bookkeeping of a check keeps the maps well typed, never lowers a      *)
(* count, and leaves the group's count at Races(g), which is positive        *)
(* (races.go:37-43).                                                         *)
LEMMA CountedFacts ==
    ASSUME RaceTypeOK, NEW g \in Groups,
           \A h \in current : active[h] > 0
    PROVE  /\ Counted(g) \in [Groups -> Nat]
           /\ Counted(g)[g] = Races(g)
           /\ Races(g) > 0
           /\ \A h \in Groups : Counted(g)[h] >= active[h]
           /\ \A h \in Groups \ {g} : Counted(g)[h] = active[h]
           /\ Races(g) = active[g] + IF g \in current THEN 0 ELSE 1
<1>1. Races(g) \in Nat /\ Races(g) > 0 /\ Races(g) >= active[g]
  BY DEF RaceTypeOK, RacedGroups, Races
<1>2. Races(g) = active[g] + IF g \in current THEN 0 ELSE 1
  BY DEF RaceTypeOK, RacedGroups, Races
<1> QED
  BY <1>1, <1>2 DEF RaceTypeOK, RacedGroups, Counted

(* More counts, more raced groups: the size of the map only grows while a    *)
(* collection runs (races.go:45).                                            *)
LEMMA RacedGroupsGrow ==
    ASSUME NEW a \in [Groups -> Nat], NEW b \in [Groups -> Nat],
           \A h \in Groups : b[h] >= a[h]
    PROVE  /\ IsFiniteSet(RacedGroups(a)) /\ IsFiniteSet(RacedGroups(b))
           /\ RacedGroups(a) \subseteq RacedGroups(b)
           /\ Cardinality(RacedGroups(a)) \in Nat
           /\ Cardinality(RacedGroups(b)) \in Nat
           /\ Cardinality(RacedGroups(a)) <= Cardinality(RacedGroups(b))
<1>1. RacedGroups(a) \subseteq RacedGroups(b) /\ RacedGroups(b) \subseteq Groups
  BY DEF RacedGroups
<1>2. IsFiniteSet(RacedGroups(b))
  BY <1>1, RaceAssumption, FS_Subset
<1> QED
  BY <1>1, <1>2, FS_Subset, FS_CardinalityType

(* A history that only got longer says the same of its old collections.      *)
LEMMA RacedSinceAppend ==
    ASSUME NEW h \in Seq(Outcome), NEW o \in Outcome, history = h,
           history' = Append(h, o), NEW g \in Groups,
           NEW i \in 1..(Len(history) + 1)
    PROVE  /\ Len(history') = Len(history) + 1
           /\ history'[Len(history')] = o
           /\ RacedSince(g, i)' => RacedSince(g, i) /\ g \in o.raced
<1>1. /\ Len(history') = Len(history) + 1
      /\ \A k \in 1..Len(history) : history'[k] = history[k]
      /\ history'[Len(history')] = o
  OBVIOUS
<1>2. ASSUME RacedSince(g, i)' PROVE RacedSince(g, i) /\ g \in o.raced
  <2>1. \A k \in i..Len(history') : g \in history'[k].raced
    BY <1>2 DEF RacedSince
  <2>2. g \in o.raced
    BY <1>1, <2>1
  <2>3. \A k \in i..Len(history) : g \in history[k].raced
    BY <1>1, <2>1
  <2> QED
    BY <2>2, <2>3 DEF RacedSince
<1> QED
  BY <1>1, <1>2
-----------------------------------------------------------------------------
(* The initial state satisfies the invariant.                                *)
LEMMA InitHistoryInv == HistoryInit => HistoryInv
<1> SUFFICES ASSUME HistoryInit PROVE HistoryInv
  OBVIOUS
<1> USE RaceAssumption DEF HistoryInit, NewRaceController
<1>1. HistoryTypeOK
  <2>1. history \in Seq(Outcome)
    OBVIOUS
  <2>2. collecting \in BOOLEAN /\ RaceTypeOK
    BY DEF RaceTypeOK, RacedGroups
  <2> QED
    BY <2>1, <2>2 DEF HistoryTypeOK
<1>2. FewGroupsAreForgiven
  BY FS_EmptySet DEF FewGroupsAreForgiven
<1>3. CountsCoverRuns
  BY DEF CountsCoverRuns, Pending
<1>4. LimitIsReported /\ RacedAreCounted /\ ReportedAreOverLimit
  BY DEF LimitIsReported, RacedAreCounted, ReportedAreOverLimit
<1>5. PersistentRaceIsReported
  BY DEF PersistentRaceIsReported
<1> QED
  BY <1>1, <1>2, <1>3, <1>4, <1>5 DEF HistoryInv

(* A collection starts with nothing pending (races.go:32-34).                *)
LEMMA StartHistoryInv == HistoryInv /\ StartCollection => HistoryInv'
<1> SUFFICES ASSUME HistoryInv, StartCollection PROVE HistoryInv'
  OBVIOUS
<1> USE RaceAssumption DEF HistoryInv, StartCollection, OnCollectionStarted
<1>1. HistoryTypeOK'
  BY DEF HistoryTypeOK, RaceTypeOK, RacedGroups
<1>2. FewGroupsAreForgiven'
  BY FS_EmptySet DEF FewGroupsAreForgiven
<1>3. CountsCoverRuns'
  <2> SUFFICES ASSUME NEW g \in Groups, NEW i \in 1..(Len(history) + 1),
                      RacedSince(g, i)
               PROVE  active[g] >= Len(history) - i + 1
    BY DEF CountsCoverRuns, Pending, RacedSince
  <2> QED
    BY DEF CountsCoverRuns, Pending
<1>4. LimitIsReported' /\ RacedAreCounted' /\ ReportedAreOverLimit'
  BY DEF LimitIsReported, RacedAreCounted, ReportedAreOverLimit
<1>5. PersistentRaceIsReported'
  BY DEF PersistentRaceIsReported, RacedSince
<1> QED
  BY <1>1, <1>2, <1>3, <1>4, <1>5

(* A check counts the group once and remembers on which side it fell.        *)
LEMMA RaceHistoryInv == ASSUME NEW g \in Groups, HistoryInv, Race(g) PROVE HistoryInv'
<1> USE RaceAssumption DEF HistoryInv, Race, Check
<1>0. RaceTypeOK /\ current \subseteq Groups /\ history \in Seq(Outcome)
  BY DEF HistoryTypeOK, RaceTypeOK, RacedGroups
<1>1. /\ Counted(g) \in [Groups -> Nat]
      /\ Counted(g)[g] = Races(g)
      /\ Races(g) > 0
      /\ \A h \in Groups : Counted(g)[h] >= active[h]
      /\ \A h \in Groups \ {g} : Counted(g)[h] = active[h]
      /\ Races(g) = active[g] + IF g \in current THEN 0 ELSE 1
  BY <1>0, CountedFacts DEF RacedAreCounted
<1>2. HistoryTypeOK'
  BY <1>1 DEF HistoryTypeOK, RaceTypeOK, RacedGroups
<1>3. RacedAreCounted'
  BY <1>0, <1>1 DEF RacedAreCounted
<1>4. /\ IsFiniteSet(RacedGroups(active'))
      /\ Cardinality(RacedGroups(active)) \in Nat
      /\ Cardinality(RacedGroups(active')) \in Nat
      /\ Cardinality(RacedGroups(active)) <= Cardinality(RacedGroups(active'))
  BY <1>0, <1>1, RacedGroupsGrow DEF RaceTypeOK
<1>5. FewGroupsAreForgiven'
  <2>1. CASE IsReported(g)
    BY <2>1 DEF FewGroupsAreForgiven
  <2>2. CASE ~IsReported(g)
    <3>1. forgiven' \subseteq RacedGroups(active')
      BY <1>2, <1>3 DEF RacedAreCounted, RacedGroups, HistoryTypeOK, RaceTypeOK
    <3>2. Cardinality(RacedGroups(active')) <= MaxActiveRaces
      BY <1>4, <2>2 DEF IsReported
    <3> QED
      BY <1>4, <3>1, <3>2, FS_Subset, FS_CardinalityType
      DEF FewGroupsAreForgiven
  <2> QED
    BY <2>1, <2>2
<1>6. LimitIsReported'
  BY <1>0, <1>1 DEF LimitIsReported, IsReported
<1>7. ReportedAreOverLimit'
  <2>1. \A h \in reported' : h = g \/ h \in reported
    OBVIOUS
  <2>2. ASSUME NEW h \in reported' PROVE IsOverLimit(h)'
    <3>1. h \in Groups /\ active[h] \in Nat /\ active'[h] \in Nat
      BY <1>0, <1>1, <2>1 DEF HistoryTypeOK, RaceTypeOK, RacedGroups
    <3>2. CASE h \in reported
      BY <1>1, <1>4, <3>1, <3>2 DEF ReportedAreOverLimit, IsOverLimit
    <3>3. CASE h \notin reported
      BY <1>1, <3>3 DEF IsReported, IsOverLimit
    <3> QED
      BY <3>2, <3>3
  <2> QED
    BY <2>2 DEF ReportedAreOverLimit
<1>8. CountsCoverRuns'
  <2> SUFFICES ASSUME NEW h \in Groups, NEW i \in 1..(Len(history) + 1),
                      RacedSince(h, i)
               PROVE  active'[h] >= Len(history) - i + 1 + Pending(h)'
    BY DEF CountsCoverRuns, RacedSince
  <2>1. active[h] >= Len(history) - i + 1 + Pending(h)
    BY DEF CountsCoverRuns
  <2>2. active'[h] - active[h] >= Pending(h)' - Pending(h)
    BY <1>0, <1>1 DEF Pending, RaceTypeOK, RacedGroups
  <2>3. /\ active[h] \in Nat /\ active'[h] \in Nat
        /\ Pending(h) \in Nat /\ Pending(h)' \in Nat /\ Len(history) \in Nat
    BY <1>0, <1>1 DEF Pending, RaceTypeOK, RacedGroups
  <2> QED
    BY <2>1, <2>2, <2>3
<1>9. PersistentRaceIsReported'
  BY DEF PersistentRaceIsReported, RacedSince
<1> QED
  BY <1>2, <1>3, <1>5, <1>6, <1>7, <1>8, <1>9

(* Both ends of a collection turn the pending races into history; a finished *)
(* one also clears the groups that did not race.                             *)
LEMMA EndHistoryInv == ASSUME HistoryInv, FinishCollection \/ AbortCollection PROVE HistoryInv'
<1> USE RaceAssumption DEF HistoryInv
<1>0. /\ RaceTypeOK /\ current \subseteq Groups /\ history \in Seq(Outcome)
      /\ forgiven' = forgiven /\ reported' = reported
      /\ collecting /\ ~collecting'
      /\ Len(history) \in Nat
  <2>1. forgiven' = forgiven /\ reported' = reported
    BY DEF FinishCollection, AbortCollection
  <2>2. collecting /\ ~collecting'
    BY Zenon DEF FinishCollection, AbortCollection
  <2>3. RaceTypeOK /\ current \subseteq Groups /\ history \in Seq(Outcome)
    BY DEF HistoryTypeOK, RaceTypeOK, RacedGroups
  <2> QED
    BY <2>1, <2>2, <2>3
<1>1. PICK o \in Outcome : /\ history' = Append(history, o)
                           /\ o.raced = current /\ o.reported = reported
  <2>1. PICK f \in BOOLEAN : Remember(f)
    BY Zenon DEF FinishCollection, AbortCollection
  <2>2. reported \in SUBSET Groups
    BY DEF HistoryTypeOK
  <2>3. [raced |-> current, reported |-> reported, finished |-> f] \in Outcome
    BY <1>0, <2>2 DEF Outcome
  <2> QED
    BY <2>1, <2>3 DEF Remember
<1>2. /\ active' \in [Groups -> Nat] /\ \A g \in current : active'[g] = active[g]
      /\ current' \subseteq current
  <2>1. CASE FinishCollection
    BY <1>0, <2>1 DEF FinishCollection, OnCollectionFinished, RaceTypeOK, RacedGroups
  <2>2. CASE AbortCollection
    BY <1>0, <2>2 DEF AbortCollection, RaceTypeOK, RacedGroups
  <2> QED
    BY <2>1, <2>2
<1>3. HistoryTypeOK'
  <2>1. history' \in Seq(Outcome)
    BY <1>0, <1>1
  <2>2. collecting' \in BOOLEAN
    BY Zenon DEF FinishCollection, AbortCollection
  <2> QED
    BY <1>0, <1>2, <2>1, <2>2 DEF HistoryTypeOK, RaceTypeOK, RacedGroups
<1>4. /\ LimitIsReported' /\ RacedAreCounted' /\ ReportedAreOverLimit'
      /\ FewGroupsAreForgiven'
  BY <1>0 DEF LimitIsReported, RacedAreCounted, ReportedAreOverLimit,
              FewGroupsAreForgiven
<1>5. Len(history') = Len(history) + 1 /\ history'[Len(history')] = o
  BY <1>0, <1>1
<1>6. ASSUME NEW g \in Groups, NEW i \in 1..(Len(history) + 1),
             RacedSince(g, i)'
      PROVE  g \in current /\ active'[g] >= Len(history') - i + 1
  <2>1. RacedSince(g, i) /\ g \in current
    BY <1>0, <1>1, <1>6, RacedSinceAppend
  <2>2. active[g] >= Len(history) - i + 1 + 1
    BY <1>0, <2>1 DEF CountsCoverRuns, Pending
  <2> QED
    BY <1>0, <1>2, <1>5, <2>1, <2>2 DEF RaceTypeOK, RacedGroups
<1>7. CountsCoverRuns'
  <2> SUFFICES ASSUME NEW g \in Groups, NEW i \in 1..(Len(history') + 1),
                      RacedSince(g, i)'
               PROVE  active'[g] >= Len(history') - i + 1
    BY <1>0 DEF CountsCoverRuns, Pending
  <2>1. CASE i = Len(history') + 1
    BY <1>0, <1>2, <1>5, <2>1
  <2>2. CASE i \in 1..(Len(history) + 1)
    BY <1>6, <2>2
  <2> QED
    BY <1>0, <1>5, <2>1, <2>2
<1>8. PersistentRaceIsReported'
  <2> SUFFICES ASSUME NEW g \in Groups, NEW i \in 1..Len(history'),
                      RacedSince(g, i)', Len(history') - i >= MaxRetries
               PROVE  g \in reported
    BY <1>1, <1>5 DEF PersistentRaceIsReported
  <2>1. g \in current /\ active'[g] >= Len(history') - i + 1
    BY <1>0, <1>5, <1>6
  <2>2. active[g] > MaxRetries
    BY <1>0, <1>2, <1>5, <2>1 DEF RaceTypeOK, RacedGroups
  <2> QED
    BY <1>0, <2>1, <2>2 DEF LimitIsReported
<1> QED
  BY <1>3, <1>4, <1>7, <1>8

(* A step that changes nothing keeps the invariant.                          *)
LEMMA StutterHistoryInv == HistoryInv /\ UNCHANGED raceHistoryVars => HistoryInv'
BY DEF HistoryInv, raceHistoryVars, HistoryTypeOK, RaceTypeOK, RacedGroups, CountsCoverRuns, RacedSince, Pending,
       LimitIsReported, RacedAreCounted, ReportedAreOverLimit, IsOverLimit,
       RacedGroups, FewGroupsAreForgiven, PersistentRaceIsReported

(* HistoryInv is an inductive invariant of the race controller.                    *)
THEOREM HistoryInvariance == HistorySpec => []HistoryInv
<1>1. HistoryInv /\ [HistoryNext]_raceHistoryVars => HistoryInv'
  BY StartHistoryInv, RaceHistoryInv, EndHistoryInv, StutterHistoryInv DEF HistoryNext
<1> QED
  BY InitHistoryInv, <1>1, PTL DEF HistorySpec
-----------------------------------------------------------------------------
(* The maps and the history always hold what their declarations say          *)
(* (races.go:16-17).                                                         *)
THEOREM HistoryTypeCorrect == HistorySpec => []HistoryTypeOK
BY HistoryInvariance, PTL DEF HistoryInv

(* A race is never forgiven in more than MaxRetries collections in a row     *)
(* (races.go:37-51), for any limits and whichever collections are aborted.   *)
THEOREM RacesAreReported == HistorySpec => []PersistentRaceIsReported
BY HistoryInvariance, PTL DEF HistoryInv

(* One collection never forgives more than MaxActiveRaces groups             *)
(* (races.go:45-47).                                                         *)
THEOREM ForgivenessIsBounded == HistorySpec => []FewGroupsAreForgiven
BY HistoryInvariance, PTL DEF HistoryInv

(* What one more collection does to the streak of a group: a race extends    *)
(* it, a finished collection without one ends it, an aborted one without one *)
(* leaves it as it was (races.go:60-67).                                     *)
LEMMA StreakAppend ==
    ASSUME NEW h \in Seq(Outcome), NEW o \in Outcome, history = h,
           history' = Append(h, o), NEW g \in Groups
    PROVE  /\ Cardinality(Streak(g)) \in Nat
           /\ g \in o.raced => Cardinality(Streak(g)') = Cardinality(Streak(g)) + 1
           /\ g \notin o.raced /\ o.finished => Cardinality(Streak(g)') = 0
           /\ g \notin o.raced /\ ~o.finished => Streak(g)' = Streak(g)
<1>1. /\ Len(history') = Len(history) + 1 /\ Len(history) \in Nat
      /\ \A k \in 1..Len(history) : history'[k] = history[k]
      /\ history'[Len(history')] = o
  OBVIOUS
<1>2. IsFiniteSet(Streak(g)) /\ Cardinality(Streak(g)) \in Nat
  <2>1. Streak(g) \subseteq 1..Len(history) /\ IsFiniteSet(1..Len(history))
    BY <1>1, FS_Interval DEF Streak
  <2> QED
    BY <2>1, FS_Subset, FS_CardinalityType
<1>3. ASSUME g \in o.raced
      PROVE  Cardinality(Streak(g)') = Cardinality(Streak(g)) + 1
  <2>1. Streak(g)' = Streak(g) \cup {Len(history) + 1}
    BY <1>1, <1>3 DEF Streak
  <2>2. Len(history) + 1 \notin Streak(g)
    BY <1>1 DEF Streak
  <2> QED
    BY <1>2, <2>1, <2>2, FS_AddElement
<1>4. ASSUME g \notin o.raced, o.finished
      PROVE  Cardinality(Streak(g)') = 0
  <2>1. Streak(g)' = {}
    BY <1>1, <1>4 DEF Streak
  <2> QED
    BY <2>1, FS_EmptySet
<1>5. ASSUME g \notin o.raced, ~o.finished
      PROVE  Streak(g)' = Streak(g)
  BY <1>1, <1>5 DEF Streak
<1> QED
  BY <1>2, <1>3, <1>4, <1>5

(* The count of a group is the number of collections that raced on it since  *)
(* the last one that finished without a race on it (races.go:36-43, 60-67).  *)
THEOREM CountsAreExact == HistorySpec => []CountsMatchHistory
<1> DEFINE Exact(g) == active[g] = Cardinality(Streak(g)) + Pending(g)
<1>0. CountsMatchHistory <=> \A g \in Groups : Exact(g)
  BY DEF CountsMatchHistory, Pending
<1>1. HistoryInit => CountsMatchHistory
  <2> SUFFICES ASSUME HistoryInit, NEW g \in Groups PROVE Exact(g)
    BY <1>0
  <2>1. Streak(g) = {}
    BY DEF HistoryInit, Streak
  <2> QED
    BY <2>1, FS_EmptySet DEF HistoryInit, NewRaceController, Pending
<1>2. HistoryInv /\ CountsMatchHistory /\ [HistoryNext]_raceHistoryVars => CountsMatchHistory'
  <2> SUFFICES ASSUME HistoryInv, CountsMatchHistory, [HistoryNext]_raceHistoryVars, NEW g \in Groups
               PROVE  Exact(g)'
    BY DEF CountsMatchHistory, Pending
  <2>0. Exact(g) /\ RaceTypeOK /\ history \in Seq(Outcome)
    BY <1>0 DEF HistoryInv, HistoryTypeOK
  <2>1. CASE UNCHANGED raceHistoryVars
    BY <2>0, <2>1 DEF raceHistoryVars, Streak, Pending
  <2>2. CASE StartCollection
    BY <2>0, <2>2 DEF StartCollection, OnCollectionStarted, Streak, Pending
  <2>3. ASSUME NEW h \in Groups, Race(h) PROVE Exact(g)'
    <3>1. Streak(g)' = Streak(g)
      BY <2>3 DEF Race, Streak
    <3>2. \A k \in current : active[k] > 0
      BY <2>3 DEF HistoryInv, RacedAreCounted, Race
    <3>3. active'[g] - active[g] = Pending(g)' - Pending(g)
      BY <2>0, <2>3, <3>2, CountedFacts DEF Race, Check, Pending, RaceTypeOK
    <3>4. /\ active[g] \in Nat /\ active'[g] \in Nat
          /\ Pending(g) \in Nat /\ Pending(g)' \in Nat
      BY <2>0, <2>3, <3>2, CountedFacts DEF Race, Check, Pending, RaceTypeOK
    <3>5. Cardinality(Streak(g)) = active[g] - Pending(g)
      <4>1. IsFiniteSet(1..Len(history)) /\ Streak(g) \subseteq 1..Len(history)
        BY <2>0, FS_Interval DEF Streak
      <4> QED
        BY <2>0, <3>4, <4>1, FS_Subset, FS_CardinalityType
    <3> QED
      BY <3>1, <3>3, <3>4, <3>5
  <2>4. ASSUME NEW f \in BOOLEAN, Remember(f), collecting, ~collecting',
               active'[g] = IF g \in current \/ ~f THEN active[g] ELSE 0
        PROVE  Exact(g)'
    <3> DEFINE o == [raced |-> current, reported |-> reported, finished |-> f]
    <3>1. o \in Outcome /\ history' = Append(history, o)
      BY <2>4 DEF Remember, Outcome, HistoryInv, HistoryTypeOK, RaceTypeOK, RacedGroups
    <3>2. /\ Cardinality(Streak(g)) \in Nat
          /\ g \in current => Cardinality(Streak(g)') = Cardinality(Streak(g)) + 1
          /\ g \notin current /\ f => Cardinality(Streak(g)') = 0
          /\ g \notin current /\ ~f => Streak(g)' = Streak(g)
      BY <2>0, <3>1, StreakAppend
    <3>3. Pending(g)' = 0 /\ Pending(g) = IF g \in current THEN 1 ELSE 0
      BY <2>4 DEF Pending
    <3>4. active'[g] = Cardinality(Streak(g)')
      BY <2>0, <2>4, <3>2, <3>3 DEF RaceTypeOK, RacedGroups
    <3>5. Cardinality(Streak(g)') \in Nat
      BY <3>2
    <3> QED
      BY <3>3, <3>4, <3>5
  <2>5. CASE FinishCollection
    <3>1. active'[g] = IF g \in current \/ ~TRUE THEN active[g] ELSE 0
      BY <2>5 DEF FinishCollection, OnCollectionFinished
    <3>2. Remember(TRUE) /\ collecting /\ ~collecting'
      BY <2>5, Zenon DEF FinishCollection
    <3> QED
      BY <2>4, <3>1, <3>2
  <2>6. CASE AbortCollection
    <3>1. active'[g] = IF g \in current \/ ~FALSE THEN active[g] ELSE 0
      BY <2>6 DEF AbortCollection
    <3>2. Remember(FALSE) /\ collecting /\ ~collecting'
      BY <2>6, Zenon DEF AbortCollection
    <3> QED
      BY <2>4, <3>1, <3>2
  <2> QED
    BY <2>1, <2>2, <2>3, <2>5, <2>6 DEF HistoryNext
<1> QED
  BY HistoryInvariance, <1>1, <1>2, PTL DEF HistorySpec

(* Once a group is reported, any later check of it in the same collection    *)
(* reports it again (races.go:36-58).                                        *)
THEOREM ReportsStand == HistorySpec => []ReportsAreFinal
<1>1. HistoryInv => ReportsAreFinal
  <2> SUFFICES ASSUME HistoryInv, collecting, NEW g \in reported
               PROVE  IsReported(g)
    BY DEF ReportsAreFinal
  <2>1. g \in current /\ g \in Groups /\ IsOverLimit(g) /\ RaceTypeOK
    BY DEF HistoryInv, ReportedAreOverLimit, HistoryTypeOK
  <2>2. Counted(g) = active /\ Races(g) = active[g]
    BY <2>1 DEF Counted, Races, RaceTypeOK, RacedGroups
  <2> QED
    BY <2>1, <2>2 DEF IsReported, IsOverLimit
<1> QED
  BY HistoryInvariance, <1>1, PTL
-----------------------------------------------------------------------------
(* The classifier: what it answers for every path, whatever users and        *)
(* containers there are.                                                     *)

Names == [kind : STRING, id : STRING, text : STRING]

IsClassified(result) == result.outcome = "classified"

\* The user whose group it is: /user.slice/user-1000.slice and what is in it.
IsOfUser(parent) == parent # <<>> /\ parent[1].kind = "user.slice"

Owner(parent, name) == IF Len(parent) = 1 THEN name.id ELSE parent[2].id

(* The kinds of a path are those of its names.                               *)
LEMMA KindsFacts ==
    ASSUME NEW parent \in Seq(Names)
    PROVE  /\ Len(Kinds(parent)) = Len(parent)
           /\ \A i \in 1..Len(parent) : Kinds(parent)[i] = parent[i].kind
BY DEF Kinds

(* Nothing of a user is classified by the rules of the system's groups.      *)
LEMMA UserGroupCases ==
    ASSUME NEW parent \in Seq(Names), NEW name \in Names, IsOfUser(parent)
    PROVE  \/ /\ Len(parent) = 1
              /\ Classify(parent, name) = ClassifyUserSliceChild(name)
           \/ /\ Len(parent) = 2
              /\ Classify(parent, name) = ClassifyUserGroup(parent[2].id, name)
           \/ /\ Len(parent) = 3
              /\ Classify(parent, name) = ClassifyManagerChild(parent[2].id, name)
           \/ /\ Len(parent) \in {4, 5}
              /\ Classify(parent, name) =
                    ClassifyUserService(parent[2].id, name, IsUserAppSlice(parent))
           \/ Classify(parent, name) = NotClassified
<1>1. /\ parent # <<>> /\ Len(parent) > 0 /\ parent[1].kind = "user.slice"
      /\ Len(Kinds(parent)) = Len(parent) /\ Kinds(parent)[1] = "user.slice"
  BY KindsFacts DEF IsOfUser
<1>2. /\ Kinds(parent) # <<"machine.slice">> /\ Kinds(parent) # <<"system.slice">>
      /\ ~IsSystemSubslice(parent)
  BY <1>1 DEF IsSystemSubslice
<1>3. /\ Kinds(parent) = <<"user.slice">> => Len(parent) = 1
      /\ Kinds(parent) = <<"user.slice", "user-*.slice">> => Len(parent) = 2
      /\ Kinds(parent) = UserManager => Len(parent) = 3
      /\ IsInUserServices(parent) => Len(parent) \in {4, 5}
  BY <1>1 DEF UserManager, IsInUserServices
<1> QED
  BY <1>1, <1>2, <1>3 DEF Classify

-----------------------------------------------------------------------------
StartsWith(service, user) == service # <<>> /\ service[1] = user

(* A service in a user's context has the user's name before its own.         *)
LEMMA ContextFacts ==
    ASSUME NEW uid, NEW x, NEW y
    PROVE  LET user == UserContext(uid).user
           IN  /\ StartsWith(user \o <<>>, Users[uid])
               /\ StartsWith(user \o <<x>>, Users[uid])
               /\ StartsWith(user \o <<x, y>>, Users[uid])
<1> DEFINE S == {Users[uid], x, y}
<1>1. <<Users[uid]>> \in Seq(S) /\ <<>> \in Seq(S) /\ <<x>> \in Seq(S) /\ <<x, y>> \in Seq(S)
  OBVIOUS
<1>2. ASSUME NEW t \in Seq(S) PROVE StartsWith(<<Users[uid]>> \o t, Users[uid])
  <2> HIDE DEF S
  <2>1. /\ Len(<<Users[uid]>> \o t) = 1 + Len(t) /\ Len(t) \in Nat
        /\ (<<Users[uid]>> \o t)[1] = Users[uid]
    BY <1>1
  <2> QED
    BY <2>1 DEF StartsWith
<1> QED
  BY <1>1, <1>2 DEF UserContext

(* What is found in a slice of services is a service of the context's user.  *)
LEMMA SliceChildFacts ==
    ASSUME NEW context, NEW name,
           IsClassified(ClassifySliceChild(context, name))
    PROVE  \E x : ClassifySliceChild(context, name).service = context.user \o <<x>>
<1>1. ClassifySliceChild(context, name).outcome = "classified"
  BY DEF IsClassified
<1>2. CASE (name.kind = "dbus" /\ name.id = context.slice) \/ IsService(name)
  BY <1>2 DEF ClassifySliceChild, IsService, ClassifyTotal, Result
<1>3. CASE name.kind = "docker"
  BY <1>1, <1>3 DEF ClassifySliceChild, IsService, ClassifyAs, ContainerService,
     Failed, Result
<1>4. CASE name.kind = "docker-builder" /\ name.id = context.slice
  BY <1>4 DEF ClassifySliceChild, IsService, ClassifyAs, Result
<1>5. CASE name.kind = "snap"
  BY <1>5 DEF ClassifySliceChild, IsService, ClassifyAs, Result
<1>6. CASE name.kind \in {"mount", "socket"}
  BY <1>6 DEF ClassifySliceChild, ClassifySupplementaryChild, IsService, ClassifyAs,
     Result
<1> QED
  BY <1>1, <1>2, <1>3, <1>4, <1>5, <1>6
     DEF ClassifySliceChild, ClassifySupplementaryChild, NotClassified, Result

(* Each group of a user that is classified is a service of that user: the    *)
(* metrics of one user are never those of another, nor of the system unless  *)
(* a unit or container has the user's name.                                  *)
THEOREM UserServicesStartWithTheirUser ==
    ASSUME NEW parent \in Seq(Names), NEW name \in Names, IsOfUser(parent),
           IsClassified(Classify(parent, name))
    PROVE  StartsWith(Classify(parent, name).service, Users[Owner(parent, name)])
<1> DEFINE result == Classify(parent, name)
<1>1. result.outcome = "classified"
  BY DEF IsClassified
<1>2. CASE Len(parent) = 1 /\ result = ClassifyUserSliceChild(name)
  <2>1. result.service = UserContext(name.id).user \o <<"sessions">>
    BY <1>1, <1>2 DEF ClassifyUserSliceChild, ForUser, ClassifyTotal, Failed,
       NotClassified, Result
  <2> QED
    BY <1>2, <2>1, ContextFacts DEF Owner
<1>3. CASE Len(parent) = 2 /\ result = ClassifyUserGroup(parent[2].id, name)
  <2>1. result.service = UserContext(parent[2].id).user \o <<>>
    BY <1>1, <1>3 DEF ClassifyUserGroup, ForUser, ClassifyTotal, Failed,
       NotClassified, Result
  <2>2. StartsWith(result.service, Users[parent[2].id])
    BY <2>1, ContextFacts
  <2> QED
    BY <1>3, <2>2 DEF Owner
<1>4. CASE Len(parent) = 3 /\ result = ClassifyManagerChild(parent[2].id, name)
  <2>1. result.service = UserContext(parent[2].id).user \o <<"init">>
    BY <1>1, <1>4 DEF ClassifyManagerChild, ForUser, ClassifyAs, Failed,
       NotClassified, Result
  <2>2. StartsWith(result.service, Users[parent[2].id])
    BY <2>1, ContextFacts
  <2> QED
    BY <1>4, <2>2 DEF Owner
<1>5. CASE /\ Len(parent) \in {4, 5}
           /\ result = ClassifyUserService(parent[2].id, name, IsUserAppSlice(parent))
  <2>1. PICK uid : uid = parent[2].id
    OBVIOUS
  <2>2. result = ForUser(uid,
          CASE IsUserAppSlice(parent) /\ name.kind = "buildah" ->
                 ClassifyTotal(UserContext(uid), <<"podman-builder">>, <<>>)
            [] IsUserAppSlice(parent) /\ name.kind = "healthcheck" ->
                 ClassifyTotal(UserContext(uid),
                               <<"podman-containers", "healthcheck">>, <<>>)
            [] OTHER -> ClassifySliceChild(UserContext(uid), name))
    BY <1>5, <2>1 DEF ClassifyUserService
  <2>3. CASE IsUserAppSlice(parent) /\ name.kind = "buildah"
    <3>1. result.service = UserContext(uid).user \o <<"podman-builder">>
      BY <1>1, <2>2, <2>3 DEF ForUser, ClassifyTotal, Failed, Result
    <3>2. StartsWith(result.service, Users[uid])
      BY <3>1, ContextFacts
    <3> QED
      BY <1>5, <2>1, <3>2 DEF Owner
  <2>4. CASE IsUserAppSlice(parent) /\ name.kind = "healthcheck"
    <3>1. result.service = UserContext(uid).user \o <<"podman-containers", "healthcheck">>
      BY <1>1, <2>2, <2>4 DEF ForUser, ClassifyTotal, Failed, Result
    <3>2. StartsWith(result.service, Users[uid])
      BY <3>1, ContextFacts
    <3> QED
      BY <1>5, <2>1, <3>2 DEF Owner
  <2>5. CASE ~(IsUserAppSlice(parent) /\ name.kind \in {"buildah", "healthcheck"})
    <3>1. result = ClassifySliceChild(UserContext(uid), name)
      BY <1>1, <2>2, <2>5 DEF ForUser, Failed, Result
    <3>2. PICK x : result.service = UserContext(uid).user \o <<x>>
      BY <1>1, <3>1, SliceChildFacts DEF IsClassified
    <3>3. StartsWith(result.service, Users[uid])
      BY <3>2, ContextFacts
    <3> QED
      BY <1>5, <2>1, <3>3 DEF Owner
  <2> QED
    BY <2>3, <2>4, <2>5
<1>6. result = NotClassified => FALSE
  BY <1>1 DEF NotClassified, Result
<1> QED
  BY <1>2, <1>3, <1>4, <1>5, <1>6, UserGroupCases

(* Users with different names have no service in common.                     *)
COROLLARY UsersAreApart ==
    ASSUME NEW p \in Seq(Names), NEW n \in Names, IsOfUser(p),
           NEW q \in Seq(Names), NEW m \in Names, IsOfUser(q),
           IsClassified(Classify(p, n)), IsClassified(Classify(q, m)),
           Users[Owner(p, n)] # Users[Owner(q, m)]
    PROVE  Classify(p, n).service # Classify(q, m).service
BY UserServicesStartWithTheirUser DEF StartsWith

-----------------------------------------------------------------------------
(* Where a path one name longer is.                                          *)
LEMMA ChildOfUserGroup ==
    ASSUME NEW parent \in Seq(Names), NEW name \in Names, NEW child,
           Len(parent) \in {1, 2}, parent[1].kind = "user.slice",
           Len(parent) = 2 => parent[2].kind = "user-*.slice",
           name.kind = IF Len(parent) = 1 THEN "user-*.slice" ELSE "user@.service"
    PROVE  LET path == Append(parent, name)
           IN  /\ Len(parent) = 1 =>
                     Classify(path, child) = ClassifyUserGroup(name.id, child)
               /\ Len(parent) = 2 =>
                     Classify(path, child) = ClassifyManagerChild(parent[2].id, child)
<1> DEFINE path == Append(parent, name)
<1>1. /\ path \in Seq(Names) /\ Len(path) = Len(parent) + 1
      /\ \A i \in 1..Len(parent) : path[i] = parent[i]
      /\ path[Len(parent) + 1] = name /\ path # <<>>
  OBVIOUS
<1> HIDE DEF path
<1>2. /\ path[1].kind = "user.slice"
      /\ Len(Kinds(path)) = Len(path) /\ Kinds(path)[1] = "user.slice"
      /\ \A i \in 1..Len(path) : Kinds(path)[i] = path[i].kind
  BY <1>1, KindsFacts
<1>3. /\ Kinds(path) # <<"machine.slice">> /\ Kinds(path) # <<"system.slice">>
      /\ ~IsSystemSubslice(path) /\ Kinds(path) # <<"user.slice">>
      /\ ~IsInUserServices(path)
  BY <1>1, <1>2 DEF IsSystemSubslice, IsInUserServices
<1>4. Kinds(path) = [i \in 1..Len(path) |-> path[i].kind]
  BY DEF Kinds
<1>5. CASE Len(parent) = 1
  <2>1. Kinds(path) = <<"user.slice", "user-*.slice">> /\ path[2] = name
    BY <1>1, <1>2, <1>4, <1>5
  <2>2. Kinds(path) # UserManager
    BY <2>1 DEF UserManager
  <2> QED
    BY <1>1, <1>3, <1>5, <2>1, <2>2 DEF Classify, path
<1>6. CASE Len(parent) = 2
  <2>1. Kinds(path) = UserManager /\ path[2] = parent[2]
    BY <1>1, <1>2, <1>4, <1>6 DEF UserManager
  <2>2. Kinds(path) # <<"user.slice", "user-*.slice">>
    BY <2>1 DEF UserManager
  <2> QED
    BY <1>1, <1>3, <1>6, <2>1, <2>2 DEF Classify, path
<1> QED
  BY <1>5, <1>6 DEF path

(* Only a user's slice and service manager leave children out.               *)
LEMMA WhatTotalsExclude ==
    ASSUME NEW parent \in Seq(Names), NEW name \in Names,
           Classify(parent, name).excluding # <<>>
    PROVE  \/ /\ Kinds(parent) = <<"user.slice">> /\ name.kind = "user-*.slice"
              /\ name.id \in DOMAIN Users
              /\ Classify(parent, name) = ClassifyUserSliceChild(name)
           \/ /\ Kinds(parent) = <<"user.slice", "user-*.slice">>
              /\ name.kind = "user@.service" /\ name.id = parent[2].id
              /\ name.id \in DOMAIN Users
              /\ Classify(parent, name) = ClassifyUserGroup(parent[2].id, name)
<1>1. \A context, n : ClassifySupplementaryChild(context, n).excluding = <<>>
  BY DEF ClassifySupplementaryChild, ClassifyAs, NotClassified, Result
<1>2. ASSUME NEW context, NEW n
      PROVE  ClassifySliceChild(context, n).excluding = <<>>
  BY <1>1 DEF ClassifySliceChild, IsService, ClassifyTotal, ClassifyAs, Failed, Result
<1>3. \A id, suffix : ClassifyPodmanContainer(id, suffix).excluding = <<>>
  BY DEF ClassifyPodmanContainer, ClassifyTotal, Failed, Result
<1>4. NotClassified.excluding = <<>> /\ Failed.excluding = <<>>
  BY DEF NotClassified, Failed, Result
<1>5. ClassifyRootChild(name).excluding = <<>>
  BY <1>1 DEF ClassifyRootChild, ClassifyTotal, ClassifyAs, Result
<1>6. ClassifyMachineSliceChild(name).excluding = <<>>
  BY <1>3, <1>4 DEF ClassifyMachineSliceChild
<1>7. ClassifySystemSliceChild(name).excluding = <<>>
  BY <1>2, <1>3 DEF ClassifySystemSliceChild, ClassifyTotal, Result
<1>8. ASSUME NEW uid PROVE ClassifyManagerChild(uid, name).excluding = <<>>
  BY <1>4 DEF ClassifyManagerChild, ForUser, ClassifyAs, Result
<1>9. ASSUME NEW uid, NEW isAppSlice
      PROVE  ClassifyUserService(uid, name, isAppSlice).excluding = <<>>
  BY <1>2, <1>4 DEF ClassifyUserService, ForUser, ClassifyTotal, Result
<1>10. CASE /\ Kinds(parent) = <<"user.slice">>
            /\ Classify(parent, name) = ClassifyUserSliceChild(name)
  BY <1>4, <1>10 DEF ClassifyUserSliceChild, ForUser
<1>11. CASE /\ Kinds(parent) = <<"user.slice", "user-*.slice">>
            /\ Classify(parent, name) = ClassifyUserGroup(parent[2].id, name)
  BY <1>4, <1>11 DEF ClassifyUserGroup, ForUser
<1>12. \/ Classify(parent, name) = ClassifyRootChild(name)
       \/ Classify(parent, name) = ClassifyMachineSliceChild(name)
       \/ Classify(parent, name) = ClassifySystemSliceChild(name)
       \/ Classify(parent, name) = ClassifySliceChild(System, name)
       \/ /\ Kinds(parent) = <<"user.slice">>
          /\ Classify(parent, name) = ClassifyUserSliceChild(name)
       \/ /\ Kinds(parent) = <<"user.slice", "user-*.slice">>
          /\ Classify(parent, name) = ClassifyUserGroup(parent[2].id, name)
       \/ \E uid : Classify(parent, name) = ClassifyManagerChild(uid, name)
       \/ \E uid, isAppSlice :
             Classify(parent, name) = ClassifyUserService(uid, name, isAppSlice)
       \/ Classify(parent, name) = NotClassified
  BY DEF Classify
<1> QED
  BY <1>2, <1>4, <1>5, <1>6, <1>7, <1>8, <1>9, <1>10, <1>11, <1>12

(* What a total leaves out is not lost: it is a service of its own, or       *)
(* app.slice, whose services are.                                            *)
THEOREM ExcludedChildrenAreServices ==
    ASSUME NEW parent \in Seq(Names), NEW name \in Names,
           NEW i \in DOMAIN Classify(parent, name).excluding
    PROVE  LET total == Classify(parent, name)
               child == total.excluding[i]
               other == Classify(Append(parent, name), child)
           IN  \/ IsClassified(other) /\ other.service # total.service
               \/ child = Name("app.slice")
<1> DEFINE total == Classify(parent, name)
           child == total.excluding[i]
           other == Classify(Append(parent, name), child)
<1>1. total.excluding # <<>>
  OBVIOUS
<1>2. CASE /\ Kinds(parent) = <<"user.slice">> /\ name.kind = "user-*.slice"
           /\ name.id \in DOMAIN Users
           /\ total = ClassifyUserSliceChild(name)
  <2>1. Len(parent) = 1 /\ parent[1].kind = "user.slice"
    BY <1>2, KindsFacts
  <2>2. /\ total.excluding = <<NameOf("user@.service", name.id)>>
        /\ total.service = <<Users[name.id]>> \o <<"sessions">>
    BY <1>2 DEF ClassifyUserSliceChild, ForUser, ClassifyTotal, UserContext, Result
  <2>3. child = NameOf("user@.service", name.id)
    BY <2>2
  <2>4. other = ClassifyUserGroup(name.id, child)
    BY <1>2, <2>1, ChildOfUserGroup
  <2>5. IsClassified(other) /\ other.service = <<Users[name.id]>> \o <<>>
    <3>1. child.kind = "user@.service" /\ child.id = name.id
      <4> HIDE DEF child
      <4> QED
        BY <2>3 DEF NameOf
    <3>2. other = ClassifyTotal(UserContext(name.id), <<>>,
                                <<Name("app.slice"), Name("init.scope")>>)
      BY <1>2, <2>4, <3>1 DEF ClassifyUserGroup, ForUser
    <3> HIDE DEF other
    <3> QED
      BY <3>2 DEF ClassifyTotal, UserContext, IsClassified, Result
  <2>6. <<Users[name.id]>> \o <<>> # <<Users[name.id]>> \o <<"sessions">>
    OBVIOUS
  <2> QED
    BY <2>2, <2>5, <2>6
<1>3. CASE /\ Kinds(parent) = <<"user.slice", "user-*.slice">>
           /\ name.kind = "user@.service" /\ name.id = parent[2].id
           /\ name.id \in DOMAIN Users
           /\ total = ClassifyUserGroup(parent[2].id, name)
  <2>1. Len(parent) = 2 /\ parent[1].kind = "user.slice" /\ parent[2].kind = "user-*.slice"
    BY <1>3, KindsFacts
  <2>2. /\ total.excluding = <<Name("app.slice"), Name("init.scope")>>
        /\ total.service = <<Users[name.id]>> \o <<>>
    BY <1>3 DEF ClassifyUserGroup, ForUser, ClassifyTotal, UserContext, Result
  <2>3. child = Name("app.slice") \/ child = Name("init.scope")
    BY <2>2
  <2>4. ASSUME child = Name("init.scope")
        PROVE  IsClassified(other) /\ other.service = <<Users[name.id]>> \o <<"init">>
    <3>1. other = ClassifyManagerChild(name.id, child)
      BY <1>3, <2>1, ChildOfUserGroup
    <3>2. child.kind = "init.scope"
      <4> HIDE DEF child
      <4> QED
        BY <2>4 DEF Name
    <3>3. other = ClassifyAs(UserContext(name.id), <<"init">>)
      BY <1>3, <3>1, <3>2 DEF ClassifyManagerChild, ForUser
    <3> HIDE DEF other
    <3> QED
      BY <3>3 DEF ClassifyAs, UserContext, IsClassified, Result
  <2>5. <<Users[name.id]>> \o <<>> # <<Users[name.id]>> \o <<"init">>
    OBVIOUS
  <2> QED
    BY <2>2, <2>3, <2>4, <2>5
<1> QED
  BY <1>1, <1>2, <1>3, WhatTotalsExclude

(* A total that another total leaves out leaves something out itself: it is  *)
(* a root group for the collectors, which keep a state for it                *)
(* (classifier.go:149-169, cpu/collector.go:71).                             *)
THEOREM ExcludedTotalsExclude ==
    ASSUME NEW parent \in Seq(Names), NEW name \in Names,
           NEW i \in DOMAIN Classify(parent, name).excluding
    PROVE  LET child == Classify(parent, name).excluding[i]
               other == Classify(Append(parent, name), child)
           IN  other.isTotal => other.excluding # <<>>
<1> DEFINE total == Classify(parent, name)
           child == total.excluding[i]
           other == Classify(Append(parent, name), child)
<1>1. total.excluding # <<>>
  OBVIOUS
<1>2. CASE /\ Kinds(parent) = <<"user.slice">> /\ name.kind = "user-*.slice"
           /\ name.id \in DOMAIN Users
           /\ total = ClassifyUserSliceChild(name)
  <2>1. Len(parent) = 1 /\ parent[1].kind = "user.slice"
    BY <1>2, KindsFacts
  <2>2. child = NameOf("user@.service", name.id)
    BY <1>2 DEF ClassifyUserSliceChild, ForUser, ClassifyTotal, Result
  <2>3. other = ClassifyUserGroup(name.id, child)
    BY <1>2, <2>1, ChildOfUserGroup
  <2>4. child.kind = "user@.service" /\ child.id = name.id
    <3> HIDE DEF child
    <3> QED
      BY <2>2 DEF NameOf
  <2>5. other = ClassifyTotal(UserContext(name.id), <<>>,
                              <<Name("app.slice"), Name("init.scope")>>)
    BY <1>2, <2>3, <2>4 DEF ClassifyUserGroup, ForUser
  <2> HIDE DEF other
  <2>6. other.excluding = <<Name("app.slice"), Name("init.scope")>>
    BY <2>5 DEF ClassifyTotal, Result
  <2>7. <<Name("app.slice"), Name("init.scope")>> # <<>>
    OBVIOUS
  <2> QED
    BY <2>6, <2>7 DEF other
<1>3. CASE /\ Kinds(parent) = <<"user.slice", "user-*.slice">>
           /\ name.kind = "user@.service" /\ name.id = parent[2].id
           /\ name.id \in DOMAIN Users
           /\ total = ClassifyUserGroup(parent[2].id, name)
  <2>1. Len(parent) = 2 /\ parent[1].kind = "user.slice" /\ parent[2].kind = "user-*.slice"
    BY <1>3, KindsFacts
  <2>2. other = ClassifyManagerChild(name.id, child)
    BY <1>3, <2>1, ChildOfUserGroup
  <2>3. ~ClassifyManagerChild(name.id, child).isTotal
    <3> HIDE DEF child
    <3> QED
      BY DEF ClassifyManagerChild, ForUser, ClassifyAs, NotClassified, Failed, Result
  <2> QED
    BY <2>2, <2>3
<1> QED
  BY <1>1, <1>2, <1>3, WhatTotalsExclude

(* Classification fails only for want of an answer about the user or the     *)
(* container of that very group: a runtime that is down costs the groups of  *)
(* its containers and no other.                                              *)
THEOREM OnlyResolversFail ==
    ASSUME NEW parent \in Seq(Names), NEW name \in Names,
           Classify(parent, name).outcome = "failed"
    PROVE  \/ IsOfUser(parent) /\ Owner(parent, name) \notin DOMAIN Users
           \/ name.kind = "docker" /\ name.id \notin DOMAIN Docker
           \/ /\ name.kind \in {"libpod", "libpod-conmon", "healthcheck"}
              /\ name.id \notin DOMAIN Podman
<1> DEFINE DockerFails == name.kind = "docker" /\ name.id \notin DOMAIN Docker
           PodmanFails == /\ name.kind \in {"libpod", "libpod-conmon", "healthcheck"}
                          /\ name.id \notin DOMAIN Podman
<1>1. NotClassified.outcome # "failed"
  BY DEF NotClassified, Result
<1>2. /\ \A c, s : ClassifyAs(c, s).outcome # "failed"
      /\ \A c, s, e : ClassifyTotal(c, s, e).outcome # "failed"
  BY DEF ClassifyAs, ClassifyTotal, Result
<1>3. \A c : ClassifySupplementaryChild(c, name).outcome # "failed"
  BY <1>1, <1>2 DEF ClassifySupplementaryChild
<1>4. ASSUME NEW c, ClassifySliceChild(c, name).outcome = "failed" PROVE DockerFails
  BY <1>2, <1>3, <1>4 DEF ClassifySliceChild, IsService
<1>5. ASSUME NEW suffix, ClassifyPodmanContainer(name.id, suffix).outcome = "failed"
      PROVE  name.id \notin DOMAIN Podman
  BY <1>2, <1>5 DEF ClassifyPodmanContainer
<1>6. CASE IsOfUser(parent)
  <2>1. ASSUME NEW uid, NEW result, ForUser(uid, result).outcome = "failed"
        PROVE  uid \notin DOMAIN Users \/ result.outcome = "failed"
    BY <2>1 DEF ForUser
  <2>2. CASE Len(parent) = 1 /\ Classify(parent, name) = ClassifyUserSliceChild(name)
    BY <1>1, <1>2, <1>6, <2>1, <2>2 DEF ClassifyUserSliceChild, Owner
  <2>3. CASE /\ Len(parent) = 2
             /\ Classify(parent, name) = ClassifyUserGroup(parent[2].id, name)
    BY <1>1, <1>2, <1>6, <2>1, <2>3 DEF ClassifyUserGroup, Owner
  <2>4. CASE /\ Len(parent) = 3
             /\ Classify(parent, name) = ClassifyManagerChild(parent[2].id, name)
    BY <1>1, <1>2, <1>6, <2>1, <2>4 DEF ClassifyManagerChild, Owner
  <2>5. CASE /\ Len(parent) \in {4, 5}
             /\ Classify(parent, name) =
                   ClassifyUserService(parent[2].id, name, IsUserAppSlice(parent))
    BY <1>2, <1>4, <1>6, <2>1, <2>5 DEF ClassifyUserService, Owner
  <2> QED
    BY <1>1, <1>6, <2>2, <2>3, <2>4, <2>5, UserGroupCases
<1>7. CASE ~IsOfUser(parent)
  <2>1. /\ Kinds(parent) # <<"user.slice">> /\ Kinds(parent) # UserManager
        /\ Kinds(parent) # <<"user.slice", "user-*.slice">>
        /\ ~IsInUserServices(parent)
    <3>1. parent # <<>> => parent[1].kind # "user.slice"
      BY <1>7 DEF IsOfUser
    <3>2. CASE parent = <<>>
      <4>1. Len(Kinds(parent)) = 0
        BY <3>2, KindsFacts
      <4> QED
        BY <3>2, <4>1 DEF UserManager, IsInUserServices
    <3>3. CASE parent # <<>>
      <4>1. Kinds(parent)[1] # "user.slice" /\ Len(parent) \in Nat
        BY <3>1, <3>3, KindsFacts
      <4>2. IsInUserServices(parent) => Kinds(SubSeq(parent, 1, 3))[1] = "user.slice"
        BY DEF IsInUserServices, UserManager
      <4>3. ASSUME IsInUserServices(parent) PROVE FALSE
        <5>1. Len(parent) \in {4, 5}
          BY <4>3 DEF IsInUserServices
        <5>2. SubSeq(parent, 1, 3) \in Seq(Names) /\ Len(SubSeq(parent, 1, 3)) = 3
              /\ SubSeq(parent, 1, 3)[1] = parent[1]
          BY <5>1
        <5>3. Kinds(SubSeq(parent, 1, 3))[1] = parent[1].kind
          <6> DEFINE prefix == SubSeq(parent, 1, 3)
          <6>1. prefix \in Seq(Names) /\ 1 \in 1..Len(prefix) /\ prefix[1] = parent[1]
            BY <5>2
          <6> HIDE DEF prefix
          <6>2. Kinds(prefix)[1] = prefix[1].kind
            BY <6>1, KindsFacts
          <6> QED
            BY <6>1, <6>2 DEF prefix
        <5> QED
          BY <3>1, <3>3, <4>2, <4>3, <5>3
      <4> QED
        BY <4>1, <4>3 DEF UserManager
    <3> QED
      BY <3>2, <3>3
  <2>2. \/ Classify(parent, name) = ClassifyRootChild(name)
        \/ Classify(parent, name) = ClassifyMachineSliceChild(name)
        \/ Classify(parent, name) = ClassifySystemSliceChild(name)
        \/ Classify(parent, name) = ClassifySliceChild(System, name)
        \/ Classify(parent, name) = NotClassified
    BY <2>1 DEF Classify
  <2>3. ClassifyRootChild(name).outcome # "failed"
    BY <1>2, <1>3 DEF ClassifyRootChild
  <2>4. ClassifyMachineSliceChild(name).outcome = "failed" => PodmanFails
    BY <1>1, <1>5 DEF ClassifyMachineSliceChild
  <2>5. ClassifySystemSliceChild(name).outcome = "failed" => DockerFails \/ PodmanFails
    BY <1>2, <1>4, <1>5 DEF ClassifySystemSliceChild
  <2> QED
    BY <1>1, <1>4, <2>2, <2>3, <2>4, <2>5
<1> QED
  BY <1>6, <1>7
-----------------------------------------------------------------------------
(* The walk.                                                                 *)

(* What the state is made of.                                                *)
FrameTypes == [group : Groups, children : Seq(Groups), needsCollection : BOOLEAN]

Samples == {"cpu", "memory", "io"} \X {Service[g] : g \in Groups}

CollectorsLeft == {<<>>, <<"io">>, <<"memory", "io">>, <<"cpu", "memory", "io">>}

IsReading == at \in {"read", "recheck"}

(* What the walk has in hand, and how it agrees with the hierarchy.          *)
WalkTypes ==
    /\ todo \in CollectorsLeft
    /\ plan \in Seq({"own", "list", "kids"})
    /\ kids \in Seq(Groups)
    /\ services \in [DOMAIN services -> Groups]
    /\ samples \in Seq(Samples)
    /\ complaints \in SUBSET Groups /\ unresolved \in SUBSET Groups
    /\ Root \in exists
    /\ steady \in SUBSET exists /\ loaded \in SUBSET busy
    /\ quiet \in SUBSET (Groups \ busy)

(* Where the walk is agrees with its innermost frame.                        *)
FramesFit ==
    /\ at = "idle" => stack = <<>>
    /\ at \in {"procs", "list", "read", "recheck"} => stack # <<>>
    /\ at \in {"procs", "list"} =>
          Top.group \notin Totals /\ Top.children = <<>>
    /\ at = "procs" => Top.group # Root
    /\ IsReading => /\ todo # <<>> /\ Top.children = <<>>
                    /\ IsTaken(Top.group)
                    /\ services[Service[Top.group]] = Top.group
    /\ \A i \in DOMAIN stack : \A c \in ToSet(stack[i].children) :
          c # Root /\ Parent[c] = stack[i].group

(* The types and the shape of the walk: the invariant everything else here   *)
(* rests on.                                                                 *)
WalkInv == TypeOK /\ WalkTypes /\ FramesFit
-----------------------------------------------------------------------------
(* What the operations on the stack leave of its frames.                     *)
LEMMA StackFacts ==
    ASSUME NEW S, NEW s \in Seq(S), s # <<>>
    PROVE  /\ Last(s) \in S /\ Len(s) \in Nat \ {0}
           /\ Front(s) \in Seq(S) /\ Len(Front(s)) = Len(s) - 1
           /\ \A i \in 1..(Len(s) - 1) : Front(s)[i] = s[i]
<1>1. Len(s) \in Nat \ {0}
  BY EmptySeq
<1>2. s[Len(s)] \in S
  BY <1>1
<1>3. /\ SubSeq(s, 1, Len(s) - 1) \in Seq(S)
      /\ Len(SubSeq(s, 1, Len(s) - 1)) = Len(s) - 1
      /\ \A i \in 1..(Len(s) - 1) : SubSeq(s, 1, Len(s) - 1)[i] = s[i]
  <2>1. PICK n \in Nat : n = Len(s) - 1
    BY <1>1
  <2>2. \A i \in 1..n : s[i] \in S
    BY <1>1, <2>1
  <2>3. /\ SubSeq(s, 1, n) \in Seq(S)
        /\ Len(SubSeq(s, 1, n)) = IF 1 <= n THEN n - 1 + 1 ELSE 0
        /\ \A i \in 1..(n - 1 + 1) : SubSeq(s, 1, n)[i] = s[1 + i - 1]
    BY <2>2, SubSeqProperties
  <2>4. n - 1 + 1 = n /\ (IF 1 <= n THEN n - 1 + 1 ELSE 0) = n
    BY <2>1
  <2>5. \A i \in 1..n : 1 + i - 1 = i
    BY <2>1
  <2> QED
    BY <2>1, <2>3, <2>4, <2>5
<1> QED
  BY <1>1, <1>2, <1>3 DEF Last, Front

(* What a frame put on the stack makes of it.                                *)
LEMMA PushFacts ==
    ASSUME NEW S, NEW s \in Seq(S), NEW f \in S
    PROVE  /\ Append(s, f) \in Seq(S) /\ Append(s, f) # <<>>
           /\ Len(Append(s, f)) = Len(s) + 1
           /\ Last(Append(s, f)) = f /\ Front(Append(s, f)) = s
           /\ \A i \in 1..Len(s) : Append(s, f)[i] = s[i]
BY DEF Last, Front

(* The first element of a list and the others are its elements.              *)
LEMMA ListFacts ==
    ASSUME NEW S, NEW s \in Seq(S), s # <<>>
    PROVE  /\ Head(s) \in S /\ Tail(s) \in Seq(S)
           /\ ToSet(s) = {Head(s)} \cup ToSet(Tail(s))
           /\ ToSet(s) \in SUBSET S
<1>1. Len(s) \in Nat \ {0}
  BY EmptySeq
<1>2. Head(s) = s[1] /\ Tail(s) \in Seq(S) /\ Len(Tail(s)) = Len(s) - 1
  BY <1>1
<1>3. \A i \in 1..(Len(s) - 1) : Tail(s)[i] = s[i + 1]
  BY <1>1
<1>4. \A i \in 2..Len(s) : i - 1 \in 1..(Len(s) - 1) /\ s[i] = Tail(s)[i - 1]
  BY <1>1, <1>3
<1>5. /\ DOMAIN s = 1..Len(s) /\ DOMAIN Tail(s) = 1..(Len(s) - 1)
      /\ \A i \in 1..Len(s) : s[i] \in S
  BY <1>1, <1>2
<1>6. ToSet(s) \in SUBSET S
  BY <1>5 DEF ToSet
<1>7. \A i \in 1..Len(s) : s[i] \in {Head(s)} \cup ToSet(Tail(s))
  <2> SUFFICES ASSUME NEW i \in 1..Len(s), i # 1 PROVE s[i] \in ToSet(Tail(s))
    BY <1>2
  <2>1. i - 1 \in 1..(Len(s) - 1) /\ s[i] = Tail(s)[i - 1]
    BY <1>1, <1>4
  <2> QED
    BY <2>1, <1>5 DEF ToSet
<1>8. \A i \in 1..(Len(s) - 1) : Tail(s)[i] \in ToSet(s)
  <2> SUFFICES ASSUME NEW i \in 1..(Len(s) - 1) PROVE Tail(s)[i] \in ToSet(s)
    OBVIOUS
  <2>1. i + 1 \in 1..Len(s) /\ Tail(s)[i] = s[i + 1]
    BY <1>1, <1>3
  <2> QED
    BY <2>1, <1>5 DEF ToSet
<1>9. Head(s) \in ToSet(s)
  BY <1>1, <1>2, <1>5 DEF ToSet
<1>10. ToSet(s) \subseteq {Head(s)} \cup ToSet(Tail(s))
  BY <1>5, <1>7 DEF ToSet
<1>11. ToSet(Tail(s)) \subseteq ToSet(s)
  BY <1>5, <1>8 DEF ToSet
<1>12. Head(s) \in S
  BY <1>1, <1>2, <1>5
<1> QED
  BY <1>2, <1>6, <1>9, <1>10, <1>11, <1>12

(* The collectors that are left are the last of the three.                   *)
LEMMA TodoFacts == \A s \in CollectorsLeft : IsSuffix(s, Collectors)
<1> USE DEF IsSuffix, IsPrefix, Reverse, Collectors
<1>1. IsSuffix(<<>>, Collectors)
  OBVIOUS
<1>2. IsSuffix(<<"io">>, Collectors)
  OBVIOUS
<1>3. IsSuffix(<<"memory", "io">>, Collectors)
  OBVIOUS
<1>4. IsSuffix(<<"cpu", "memory", "io">>, Collectors)
  OBVIOUS
<1> QED
  BY <1>1, <1>2, <1>3, <1>4 DEF CollectorsLeft
-----------------------------------------------------------------------------
(* The initial state satisfies the invariant.                                *)
LEMMA InitWalkInv == Init => WalkInv
<1> SUFFICES ASSUME Init PROVE WalkInv
  OBVIOUS
<1> USE HierarchyAssumption, RaceAssumption
<1>1. RaceTypeOK
  BY DEF Init, NewRaceController, RaceTypeOK, RacedGroups
<1>2. TypeOK
  BY <1>1, TodoFacts DEF Init, TypeOK, CollectorsLeft, ToSet
<1>3. WalkTypes
  BY DEF Init, WalkTypes, CollectorsLeft
<1>4. FramesFit
  BY DEF Init, FramesFit, IsReading
<1> QED
  BY <1>2, <1>3, <1>4 DEF WalkInv
-----------------------------------------------------------------------------
(* The race controller keeps its types.                                      *)
LEMMA RaceTypes ==
    /\ RaceTypeOK /\ UNCHANGED raceVars => RaceTypeOK'
    /\ RaceTypeOK /\ OnCollectionStarted => RaceTypeOK'
    /\ RaceTypeOK /\ OnCollectionFinished => RaceTypeOK'
    /\ \A g \in Groups : RaceTypeOK /\ Check(g) => RaceTypeOK'
BY DEF RaceTypeOK, RacedGroups, raceVars, OnCollectionStarted, OnCollectionFinished, Check,
       Counted, Races

(* When observe returns, the frame below is innermost and nothing is being   *)
(* read.                                                                     *)
LEMMA ReturnKeeps ==
    ASSUME WalkInv, stack # <<>>, Return
    PROVE  /\ stack' \in Seq(FrameTypes) /\ FramesFit'
           /\ at' = "observe" /\ todo' = <<>> /\ plan' = <<>> /\ kids' = <<>>
           /\ services' = services
<1>1. stack \in Seq(FrameTypes)
  BY DEF WalkInv, TypeOK, FrameTypes
<1>2. /\ stack' = Front(stack) /\ at' = "observe" /\ services' = services
      /\ todo' = <<>> /\ plan' = <<>> /\ kids' = <<>>
  BY DEF Return, NoReads
<1>3. /\ stack' \in Seq(FrameTypes) /\ Len(stack') = Len(stack) - 1
      /\ \A i \in 1..(Len(stack) - 1) : stack'[i] = stack[i]
      /\ Len(stack) \in Nat \ {0}
  BY <1>1, <1>2, StackFacts
<1>4. \A i \in DOMAIN stack' : i \in DOMAIN stack /\ stack'[i] = stack[i]
  BY <1>1, <1>3
<1>5. FramesFit'
  BY <1>2, <1>4 DEF WalkInv, FramesFit, IsReading
<1> QED
  BY <1>2, <1>3, <1>5

(* When the collection is aborted, nothing is left of the walk.              *)
LEMMA AbortKeeps ==
    ASSUME WalkInv, AbortWalk
    PROVE  /\ stack' \in Seq(FrameTypes) /\ FramesFit'
           /\ at' = "idle" /\ todo' = <<>> /\ plan' = <<>> /\ kids' = <<>>
           /\ services' = <<>> /\ silent' \in [Groups -> Nat]
<1>1. /\ stack' = <<>> /\ at' = "idle" /\ services' = <<>>
      /\ todo' = <<>> /\ plan' = <<>> /\ kids' = <<>>
      /\ silent' = [g \in Groups |-> 0]
  BY DEF AbortWalk, NoReads
<1> QED
  BY <1>1 DEF FramesFit, IsReading
-----------------------------------------------------------------------------
(* A change of the hierarchy keeps the invariant.                            *)
LEMMA HierarchyWalkInv == ASSUME WalkInv, Hierarchy PROVE WalkInv'
<1> USE HierarchyAssumption
<1>1. PICK newExists, newBusy, newDisabled :
         /\ Change(newExists, newBusy, newDisabled)
         /\ newExists \in SUBSET Groups /\ newBusy \in SUBSET newExists
         /\ newDisabled \in SUBSET Switchable
         /\ Root \in newExists
  <2>1. PICK g \in Groups \ {Root} : \/ CreateGroup(g)
                                    \/ RemoveGroup(g)
                                    \/ ProcessStarts(g)
                                    \/ ProcessesExit(g)
                                    \/ SwitchController(g)
    BY DEF Hierarchy
  <2>2. /\ exists \in SUBSET Groups /\ busy \in SUBSET exists /\ Root \in exists
        /\ disabled \in SUBSET Switchable
    BY DEF WalkInv, TypeOK, WalkTypes
  <2>3. CASE CreateGroup(g)
    BY <2>2, <2>3 DEF CreateGroup
  <2>4. CASE RemoveGroup(g)
    <3>1. /\ Change(exists \ {g}, busy, {cg \in disabled : cg[2] # g})
          /\ g \notin busy
      BY <2>4 DEF RemoveGroup
    <3> QED
      BY <2>1, <2>2, <3>1
  <2>5. CASE ProcessStarts(g)
    BY <2>2, <2>5 DEF ProcessStarts
  <2>6. CASE ProcessesExit(g)
    BY <2>2, <2>6 DEF ProcessesExit
  <2>7. CASE SwitchController(g)
    <3>1. PICK cg \in Switchable :
             Change(exists, busy, IF cg \in disabled THEN disabled \ {cg}
                                                    ELSE disabled \cup {cg})
      BY <2>7 DEF SwitchController
    <3> QED
      BY <2>2, <3>1
  <2> QED
    BY <2>1, <2>3, <2>4, <2>5, <2>6, <2>7
<1>2. /\ UNCHANGED <<collections, stack, at, services, todo, plan, kids, roots,
                     collected, samples, complaints, unresolved, known, silent>>
      /\ UNCHANGED raceVars
      /\ exists' = newExists /\ busy' = newBusy /\ disabled' = newDisabled
      /\ changes < MaxChanges /\ changes' = changes + 1
      /\ steady' = steady \cap newExists /\ loaded' = loaded \cap newBusy
      /\ quiet' = quiet \ newBusy
  BY <1>1 DEF Hierarchy, Change, CollectorVars, walkVars, readVars, stateVars,
              outputVars
<1>3. TypeOK'
  BY <1>1, <1>2, RaceTypes DEF WalkInv, TypeOK
<1>4. WalkTypes'
  BY <1>1, <1>2 DEF WalkInv, WalkTypes, TypeOK
<1>5. FramesFit'
  BY <1>2 DEF WalkInv, FramesFit, IsReading, Top, IsTaken
<1> QED
  BY <1>3, <1>4, <1>5 DEF WalkInv

(* A change of the hierarchy is one change of its groups, of their processes *)
(* and of their controllers.                                                 *)
LEMMA HierarchyChanges ==
    Hierarchy => \E newExists, newBusy, newDisabled :
                    Change(newExists, newBusy, newDisabled)
BY DEF Hierarchy, CreateGroup, RemoveGroup, ProcessStarts, ProcessesExit,
       SwitchController

(* The start of a collection keeps the invariant.                            *)
LEMMA StartWalkInv == ASSUME WalkInv, Start PROVE WalkInv'
<1> USE HierarchyAssumption
<1>1. /\ OnCollectionStarted
      /\ collections < MaxCollections /\ collections' = collections + 1
      /\ collected' = [c \in StatefulCollectors |-> {}]
      /\ services' = <<>> /\ samples' = <<>>
      /\ complaints' = {} /\ unresolved' = {}
      /\ stack' = <<Frame(Root, <<>>, TRUE)>> /\ at' = "list"
      /\ steady' = exists /\ loaded' = busy /\ quiet' = exists \ busy
      /\ UNCHANGED <<exists, busy, disabled, changes, todo, plan, kids, roots,
                     silent>>
  BY DEF Start, hierarchyVars, readVars
<1>2. /\ stack' \in Seq(FrameTypes) /\ Len(stack') = 1
      /\ stack'[1] = Frame(Root, <<>>, TRUE)
  BY <1>1 DEF Frame, FrameTypes
<1>3. TypeOK'
  <2>1. ToSet(services') \subseteq Groups
    BY <1>1 DEF ToSet
  <2>2. RaceTypeOK'
    BY <1>1, RaceTypes DEF WalkInv, TypeOK
  <2>3. collected' \in [StatefulCollectors -> SUBSET Groups]
    BY <1>1
  <2>4. collections' \in 0..MaxCollections
    BY <1>1 DEF WalkInv, TypeOK
  <2> QED
    BY <1>1, <1>2, <2>1, <2>2, <2>3, <2>4 DEF WalkInv, TypeOK, FrameTypes
<1>4. WalkTypes'
  BY <1>1 DEF WalkInv, WalkTypes, TypeOK
<1>5. FramesFit'
  BY <1>1, <1>2 DEF FramesFit, IsReading, Top, Last, Frame, ToSet
<1> QED
  BY <1>3, <1>4, <1>5 DEF WalkInv

(* The child that the walk has come to, and the frames with it taken off.    *)
LEMMA NextChildFacts ==
    ASSUME WalkInv, stack # <<>>, Top.children # <<>>,
           NEW below, below = [Top EXCEPT !.children = Tail(@)]
    PROVE  /\ Head(Top.children) \in Groups \ {Root}
           /\ Parent[Head(Top.children)] = Top.group
           /\ below \in FrameTypes /\ below.group = Top.group
           /\ below.needsCollection = Top.needsCollection
           /\ below.children = Tail(Top.children)
           /\ Top \in FrameTypes /\ Len(stack) \in Nat \ {0}
           /\ ToSet(Top.children) =
                 {Head(Top.children)} \cup ToSet(Tail(Top.children))
<1>1. stack \in Seq(FrameTypes)
  BY DEF WalkInv, TypeOK, FrameTypes
<1>2. Top \in FrameTypes /\ Top = stack[Len(stack)] /\ Len(stack) \in Nat \ {0}
  BY <1>1, StackFacts DEF Top, Last
<1>3. Top.children \in Seq(Groups)
  BY <1>2 DEF FrameTypes
<1>4. /\ Head(Top.children) \in Groups /\ Tail(Top.children) \in Seq(Groups)
      /\ ToSet(Top.children) =
            {Head(Top.children)} \cup ToSet(Tail(Top.children))
  BY <1>3, ListFacts
<1>5. /\ below \in FrameTypes /\ below.group = Top.group
      /\ below.needsCollection = Top.needsCollection
      /\ below.children = Tail(Top.children)
  BY <1>2, <1>4 DEF FrameTypes
<1>6. \A c \in ToSet(Top.children) : c # Root /\ Parent[c] = Top.group
  <2>1. Len(stack) \in DOMAIN stack
    BY <1>1, <1>2
  <2> QED
    BY <1>2, <2>1 DEF WalkInv, FramesFit
<1> QED
  BY <1>2, <1>4, <1>5, <1>6

(* The innermost frame is replaced by another of the same group, whose       *)
(* children are children of the group.                                       *)
LEMMA SetTopFacts ==
    ASSUME WalkInv, stack # <<>>, NEW frame \in FrameTypes, SetTop(frame),
           frame.group = Top.group,
           \A c \in ToSet(frame.children) : c # Root /\ Parent[c] = frame.group
    PROVE  /\ stack' \in Seq(FrameTypes) /\ stack' # <<>>
           /\ Len(stack') = Len(stack) /\ Top' = frame
           /\ \A i \in 1..(Len(stack) - 1) : stack'[i] = stack[i]
           /\ \A i \in DOMAIN stack' : \A c \in ToSet(stack'[i].children) :
                 c # Root /\ Parent[c] = stack'[i].group
<1>1. stack \in Seq(FrameTypes)
  BY DEF WalkInv, TypeOK, FrameTypes
<1>2. /\ Front(stack) \in Seq(FrameTypes) /\ Len(Front(stack)) = Len(stack) - 1
      /\ \A i \in 1..(Len(stack) - 1) : Front(stack)[i] = stack[i]
      /\ Len(stack) \in Nat \ {0}
  BY <1>1, StackFacts
<1>3. stack' = Append(Front(stack), frame)
  BY DEF SetTop
<1>4. /\ stack' \in Seq(FrameTypes) /\ stack' # <<>>
      /\ Len(stack') = Len(Front(stack)) + 1 /\ Last(stack') = frame
      /\ \A i \in 1..Len(Front(stack)) : stack'[i] = Front(stack)[i]
  BY <1>2, <1>3, PushFacts
<1>5. Len(stack') = Len(stack) /\ Top' = frame /\ stack'[Len(stack)] = frame
  BY <1>2, <1>4 DEF Top, Last
<1>6. \A i \in 1..(Len(stack) - 1) : i \in DOMAIN stack /\ stack'[i] = stack[i]
  BY <1>1, <1>2, <1>4
<1>7. \A i \in DOMAIN stack' :
         \/ i = Len(stack) /\ stack'[i] = frame
         \/ i \in DOMAIN stack /\ stack'[i] = stack[i]
  <2>1. DOMAIN stack' = 1..Len(stack)
    BY <1>4, <1>5
  <2>2. \A i \in 1..Len(stack) : i = Len(stack) \/ i \in 1..(Len(stack) - 1)
    BY <1>2
  <2> QED
    BY <1>5, <1>6, <2>1, <2>2
<1>8. \A i \in DOMAIN stack : \A c \in ToSet(stack[i].children) :
         c # Root /\ Parent[c] = stack[i].group
  BY DEF WalkInv, FramesFit
<1> QED
  BY <1>4, <1>5, <1>6, <1>7, <1>8

(* A child that is not classified: the step keeps the invariant.             *)
LEMMA FailToClassifyWalkInv == ASSUME WalkInv, FailToClassify PROVE WalkInv'
<1> DEFINE below == [Top EXCEPT !.children = Tail(@)]
<1>1. /\ at = "observe" /\ stack # <<>> /\ Top.children # <<>>
      /\ changes < MaxChanges /\ changes' = changes + 1
      /\ complaints' = complaints \cup {Head(Top.children)}
      /\ unresolved' = unresolved \cup {Head(Top.children)}
      /\ SetTop(below)
      /\ UNCHANGED raceVars
      /\ UNCHANGED <<exists, busy, disabled, collections, at, services, todo,
                     plan, kids, roots, collected, samples, known, silent,
                     steady, loaded, quiet>>
  BY DEF FailToClassify, Failure, Complain, hierarchyVars, readVars, stateVars
<1>2. /\ Head(Top.children) \in Groups /\ below \in FrameTypes
      /\ below.group = Top.group
      /\ ToSet(below.children) \subseteq ToSet(Top.children)
  BY <1>1, NextChildFacts
<1>3. \A c \in ToSet(below.children) : c # Root /\ Parent[c] = below.group
  <2>1. Len(stack) \in DOMAIN stack /\ Top = stack[Len(stack)]
    BY <1>1, NextChildFacts, StackFacts DEF WalkInv, TypeOK, Top, Last
  <2> QED
    BY <1>2, <2>1 DEF WalkInv, FramesFit
<1> HIDE DEF below
<1>4. /\ stack' \in Seq(FrameTypes) /\ stack' # <<>>
      /\ \A i \in DOMAIN stack' : \A c \in ToSet(stack'[i].children) :
            c # Root /\ Parent[c] = stack'[i].group
  BY <1>1, <1>2, <1>3, SetTopFacts
<1>5. TypeOK'
  BY <1>1, <1>4, RaceTypes, HierarchyAssumption DEF WalkInv, TypeOK, FrameTypes
<1>6. WalkTypes'
  BY <1>1, <1>2 DEF WalkInv, WalkTypes, TypeOK
<1>7. FramesFit'
  BY <1>1, <1>4 DEF FramesFit, IsReading
<1> QED
  BY <1>5, <1>6, <1>7 DEF WalkInv

(* A step of the walk fails or not; what the walk found when it started is   *)
(* the same after it.                                                        *)
LEMMA FailureKeeps ==
    ASSUME WalkInv, NoFailure \/ Failure
    PROVE  /\ changes' \in 0..MaxChanges
           /\ UNCHANGED <<steady, loaded, quiet>>
<1>1. changes \in 0..MaxChanges /\ MaxChanges \in Nat
  BY HierarchyAssumption DEF WalkInv, TypeOK
<1> QED
  BY <1>1 DEF NoFailure, Failure, sinceVars

(* What every step of the walk leaves as it should be, except for the frames *)
(* and what is read of the innermost one.                                    *)
OutputsFit ==
    /\ RaceTypeOK' /\ changes' \in 0..MaxChanges
    /\ UNCHANGED <<exists, busy, disabled, collections, steady, loaded, quiet>>
    /\ complaints' \in SUBSET Groups /\ unresolved' \in SUBSET Groups
    /\ samples' \in Seq(Samples)
    /\ roots' \in [StatefulCollectors -> SUBSET Groups]
    /\ collected' \in [StatefulCollectors -> SUBSET Groups]
    /\ silent' \in [Groups -> Nat]

(* With the outputs as they should be, the types of the frames and of what   *)
(* is read give the invariant.                                               *)
LEMMA FramesThenInv ==
    ASSUME WalkInv, OutputsFit, FramesFit', stack' \in Seq(FrameTypes),
           at' \in {"idle", "observe", "procs", "list", "read", "recheck"},
           todo' \in CollectorsLeft, plan' \in Seq({"own", "list", "kids"}),
           kids' \in Seq(Groups),
           services' \in [DOMAIN services' -> Groups]
    PROVE  WalkInv'
<1>1. ToSet(services') \subseteq Groups
  BY DEF ToSet
<1>2. ToSet(plan') \subseteq {"own", "list", "kids"} /\ ToSet(kids') \subseteq Groups
  BY DEF ToSet
<1>3. IsSuffix(todo', Collectors)
  BY TodoFacts
<1>4. TypeOK'
  BY <1>1, <1>2, <1>3 DEF OutputsFit, WalkInv, TypeOK, FrameTypes
<1>5. WalkTypes'
  BY DEF OutputsFit, WalkInv, WalkTypes
<1> QED
  BY <1>4, <1>5 DEF WalkInv

(* So does a return of observe.                                              *)
LEMMA ReturnWalkInv ==
    ASSUME WalkInv, OutputsFit, stack # <<>>, Return
    PROVE  WalkInv'
<1>1. services \in [DOMAIN services -> Groups]
  BY DEF WalkInv, WalkTypes
<1>2. /\ <<>> \in CollectorsLeft /\ <<>> \in Seq({"own", "list", "kids"})
      /\ <<>> \in Seq(Groups)
  BY DEF CollectorsLeft
<1> QED
  BY <1>1, <1>2, ReturnKeeps, FramesThenInv

(* So does the end of a collection that is aborted.                          *)
LEMMA AbortWalkInv ==
    ASSUME WalkInv, OutputsFit, AbortWalk
    PROVE  WalkInv'
<1>1. <<>> \in [DOMAIN <<>> -> Groups]
  OBVIOUS
<1>2. /\ <<>> \in CollectorsLeft /\ <<>> \in Seq({"own", "list", "kids"})
      /\ <<>> \in Seq(Groups)
  BY DEF CollectorsLeft
<1> QED
  BY <1>1, <1>2, AbortKeeps, FramesThenInv

(* The innermost frame goes on being read.                                   *)
LEMMA ReadingWalkInv ==
    ASSUME WalkInv, OutputsFit, IsReading, at' \in {"read", "recheck"},
           UNCHANGED <<stack, services>>,
           todo' \in CollectorsLeft, todo' # <<>>,
           plan' \in Seq({"own", "list", "kids"}), kids' \in Seq(Groups)
    PROVE  WalkInv'
<1>1. FramesFit'
  BY DEF WalkInv, FramesFit, IsReading, Top, IsTaken
<1>2. stack' \in Seq(FrameTypes) /\ services' \in [DOMAIN services' -> Groups]
  BY DEF WalkInv, TypeOK, FrameTypes, WalkTypes
<1> QED
  BY <1>1, <1>2, FramesThenInv

(* A group complained about is one, and so is one whose file is missing.     *)
LEMMA OutputsKept ==
    ASSUME WalkInv, NoFailure \/ Failure,
           UNCHANGED <<exists, busy, disabled, collections, samples, unresolved,
                       roots, collected>>,
           silent' \in [Groups -> Nat],
           \/ UNCHANGED raceVars
           \/ \E g \in Groups : Check(g),
           complaints' \in SUBSET Groups
    PROVE  OutputsFit
<1>1. RaceTypeOK'
  BY RaceTypes DEF WalkInv, TypeOK
<1> QED
  BY <1>1, FailureKeeps DEF OutputsFit, WalkInv, TypeOK, WalkTypes

(* The innermost frame.                                                      *)
LEMMA TopFacts ==
    ASSUME WalkInv, stack # <<>>
    PROVE  /\ Top \in FrameTypes /\ Top.group \in Groups
           /\ Top = stack[Len(stack)] /\ Len(stack) \in DOMAIN stack
           /\ Len(stack) \in Nat \ {0}
           /\ \A c \in ToSet(Top.children) : c # Root /\ Parent[c] = Top.group
<1>1. stack \in Seq(FrameTypes)
  BY DEF WalkInv, TypeOK, FrameTypes
<1>2. Top \in FrameTypes /\ Top = stack[Len(stack)] /\ Len(stack) \in Nat \ {0}
  BY <1>1, StackFacts DEF Top, Last
<1>3. Len(stack) \in DOMAIN stack
  BY <1>1, <1>2
<1> QED
  BY <1>2, <1>3 DEF WalkInv, FramesFit, FrameTypes
-----------------------------------------------------------------------------
(* Coming to the next child keeps the invariant.                             *)
LEMMA ObserveWalkInv == ASSUME WalkInv, Observe PROVE WalkInv'
<1> DEFINE g == Head(Top.children)
           popped == [Top EXCEPT !.children = Tail(@)]
           below == Append(Front(stack), popped)
           entered == IF g \in Totals THEN Frame(g, Excluding[g], TRUE)
                                      ELSE Frame(g, <<>>, FALSE)
<1>1. /\ at = "observe" /\ stack # <<>> /\ Top.children # <<>>
      /\ NoFailure
      /\ UNCHANGED raceVars
      /\ UNCHANGED <<exists, busy, disabled, collections, services, todo, plan,
                     kids, roots, collected, samples, complaints, unresolved,
                     silent>>
  BY DEF Observe, hierarchyVars, readVars, stateVars, outputVars
<1>2. /\ stack' = Append(below, entered)
      /\ at' = IF g \in Totals THEN "observe" ELSE "procs"
  BY DEF Observe
<1>3. /\ g \in Groups \ {Root} /\ popped \in FrameTypes
      /\ popped.group = Top.group
      /\ ToSet(popped.children) \subseteq ToSet(Top.children)
  BY <1>1, NextChildFacts
<1>4. /\ entered \in FrameTypes /\ entered.group = g
      /\ g \notin Totals => entered.children = <<>>
      /\ \A c \in ToSet(entered.children) : c # Root /\ Parent[c] = g
  BY <1>3, HierarchyAssumption DEF Frame, FrameTypes, ToSet
<1> HIDE DEF g, popped, entered
<1>5. /\ Front(stack) \in Seq(FrameTypes) /\ Len(Front(stack)) = Len(stack) - 1
      /\ \A i \in 1..(Len(stack) - 1) : Front(stack)[i] = stack[i]
      /\ Len(stack) \in Nat \ {0}
  BY <1>1, StackFacts DEF WalkInv, TypeOK, FrameTypes
<1>6. /\ below \in Seq(FrameTypes) /\ Len(below) = Len(stack)
      /\ below[Len(stack)] = popped
      /\ \A i \in 1..(Len(stack) - 1) : below[i] = stack[i]
  BY <1>3, <1>5, PushFacts DEF Last
<1> HIDE DEF below
<1>7. /\ stack' \in Seq(FrameTypes) /\ stack' # <<>> /\ Len(stack') = Len(stack) + 1
      /\ Top' = entered /\ stack'[Len(stack) + 1] = entered
      /\ \A i \in 1..Len(stack) : stack'[i] = below[i]
  BY <1>2, <1>4, <1>6, PushFacts DEF Top, Last
<1>8. \A i \in DOMAIN stack' : \A c \in ToSet(stack'[i].children) :
         c # Root /\ Parent[c] = stack'[i].group
  <2> SUFFICES ASSUME NEW i \in DOMAIN stack', NEW c \in ToSet(stack'[i].children)
               PROVE  c # Root /\ Parent[c] = stack'[i].group
    OBVIOUS
  <2>1. i \in 1..(Len(stack) + 1)
    BY <1>7
  <2>2. CASE i = Len(stack) + 1
    BY <2>2, <1>4, <1>7
  <2>3. CASE i = Len(stack)
    <3>1. stack'[i] = popped
      BY <2>3, <1>5, <1>6, <1>7
    <3> QED
      BY <3>1, <1>1, <1>3, TopFacts
  <2>4. CASE i \in 1..(Len(stack) - 1)
    <3>1. i \in 1..Len(stack) /\ below[i] = stack[i]
      BY <2>4, <1>5, <1>6
    <3>2. stack'[i] = stack[i] /\ i \in DOMAIN stack
      BY <3>1, <1>7 DEF WalkInv, TypeOK
    <3> QED
      BY <3>2 DEF WalkInv, FramesFit
  <2> QED
    BY <2>1, <2>2, <2>3, <2>4, <1>5
<1>9. FramesFit'
  BY <1>2, <1>3, <1>4, <1>7, <1>8 DEF FramesFit, IsReading
<1>10. OutputsFit
  BY <1>1, OutputsKept DEF WalkInv, TypeOK, WalkTypes
<1> QED
  BY <1>1, <1>2, <1>7, <1>9, <1>10, FramesThenInv DEF WalkInv, WalkTypes

(* Asking whether a group has processes keeps the invariant.                 *)
LEMMA HasProcessesWalkInv == ASSUME WalkInv, HasProcesses PROVE WalkInv'
<1> DEFINE asked == [Top EXCEPT !.needsCollection = TRUE]
<1>1. /\ at = "procs" /\ Top.group \in exists /\ stack # <<>>
      /\ NoFailure
      /\ UNCHANGED raceVars
      /\ UNCHANGED <<exists, busy, disabled, collections, services, todo, plan,
                     kids, roots, collected, samples, complaints, unresolved,
                     silent>>
  BY DEF HasProcesses, hierarchyVars, readVars, stateVars, outputVars, WalkInv,
         FramesFit
<1>2. OutputsFit
  BY <1>1, OutputsKept DEF WalkInv, TypeOK, WalkTypes
<1>3. CASE SetTop(asked) /\ at' = "observe"
  <2>1. /\ asked \in FrameTypes /\ asked.group = Top.group
        /\ asked.children = Top.children
    BY <1>1, TopFacts DEF FrameTypes
  <2> HIDE DEF asked
  <2>2. /\ stack' \in Seq(FrameTypes) /\ stack' # <<>>
        /\ \A i \in DOMAIN stack' : \A c \in ToSet(stack'[i].children) :
              c # Root /\ Parent[c] = stack'[i].group
    BY <1>1, <1>3, <2>1, TopFacts, SetTopFacts
  <2>3. FramesFit'
    BY <1>3, <2>2 DEF FramesFit, IsReading
  <2> QED
    BY <1>1, <1>2, <1>3, <2>2, <2>3, FramesThenInv DEF WalkInv, WalkTypes
<1>4. CASE at' = "list" /\ UNCHANGED stack
  <2>1. FramesFit'
    BY <1>1, <1>4 DEF WalkInv, FramesFit, IsReading, Top
  <2>2. stack' \in Seq(FrameTypes)
    BY <1>4 DEF WalkInv, TypeOK, FrameTypes
  <2> QED
    BY <1>1, <1>2, <1>4, <2>1, <2>2, FramesThenInv DEF WalkInv, WalkTypes
<1> QED
  BY <1>3, <1>4 DEF HasProcesses

(* A group that is gone when it is asked for processes: the step keeps the   *)
(* invariant.                                                                *)
LEMMA HasProcessesRacesWalkInv ==
    ASSUME WalkInv, HasProcessesRaces PROVE WalkInv'
<1>1. /\ at = "procs" /\ stack # <<>> /\ Check(Top.group) /\ NoFailure
      /\ UNCHANGED <<exists, busy, disabled, collections, roots, collected,
                     samples, complaints, unresolved>>
      /\ AbortWalk \/ (Return /\ UNCHANGED silent)
  BY DEF HasProcessesRaces, hierarchyVars, stateVars, outputVars, WalkInv,
         FramesFit
<1>2. Top.group \in Groups
  BY <1>1, TopFacts
<1>3. silent' \in [Groups -> Nat]
  BY <1>1, AbortKeeps DEF WalkInv, TypeOK
<1>4. OutputsFit
  BY <1>1, <1>2, <1>3, OutputsKept DEF WalkInv, WalkTypes
<1> QED
  BY <1>1, <1>4, AbortWalkInv, ReturnWalkInv

(* Listing the children keeps the invariant.                                 *)
LEMMA ListChildrenWalkInv == ASSUME WalkInv, ListChildren PROVE WalkInv'
<1> DEFINE listed == InOrder(ChildrenOf(Top.group) \cap exists)
           filled == [Top EXCEPT !.children = listed]
<1>1. /\ at = "list" /\ stack # <<>>
      /\ NoFailure
      /\ UNCHANGED raceVars
      /\ UNCHANGED <<exists, busy, disabled, collections, roots, collected,
                     samples, complaints, unresolved, silent>>
  BY DEF ListChildren, hierarchyVars, stateVars, outputVars, WalkInv, FramesFit
<1>2. OutputsFit
  BY <1>1, OutputsKept DEF WalkInv, TypeOK, WalkTypes
<1>3. CASE Top.group \notin exists
  BY <1>1, <1>2, <1>3, ReturnWalkInv DEF ListChildren
<1>4. CASE Top.group \in exists
  <2>1. /\ SetTop(filled) /\ at' = "observe"
        /\ UNCHANGED <<services, todo, plan, kids>>
    BY <1>4 DEF ListChildren, readVars
  <2>2. /\ listed \in Seq(Groups)
        /\ ToSet(listed) = ChildrenOf(Top.group) \cap exists
    <3>1. ChildrenOf(Top.group) \cap exists \in SUBSET Groups
      BY DEF ChildrenOf
    <3> QED
      BY <3>1, HierarchyAssumption DEF InOrder
  <2> HIDE DEF listed
  <2>3. /\ filled \in FrameTypes /\ filled.group = Top.group
        /\ filled.children = listed
    BY <1>1, <2>2, TopFacts DEF FrameTypes
  <2>4. \A c \in ToSet(filled.children) : c # Root /\ Parent[c] = filled.group
    BY <2>2, <2>3 DEF ChildrenOf
  <2> HIDE DEF filled
  <2>5. /\ stack' \in Seq(FrameTypes) /\ stack' # <<>>
        /\ \A i \in DOMAIN stack' : \A c \in ToSet(stack'[i].children) :
              c # Root /\ Parent[c] = stack'[i].group
    BY <1>1, <2>1, <2>3, <2>4, SetTopFacts
  <2>6. FramesFit'
    BY <2>1, <2>5 DEF FramesFit, IsReading
  <2> QED
    BY <1>2, <2>1, <2>5, <2>6, FramesThenInv DEF WalkInv, WalkTypes
<1> QED
  BY <1>3, <1>4

(* An error of observe keeps the invariant.                                  *)
LEMMA FailToObserveWalkInv == ASSUME WalkInv, FailToObserve PROVE WalkInv'
<1>1. /\ Failure /\ AbortWalk
      /\ UNCHANGED raceVars
      /\ UNCHANGED <<exists, busy, disabled, collections, roots, collected,
                     samples, complaints, unresolved>>
  BY DEF FailToObserve, hierarchyVars, stateVars, outputVars
<1>2. OutputsFit
  BY <1>1, AbortKeeps, OutputsKept DEF WalkInv, WalkTypes
<1> QED
  BY <1>1, <1>2, AbortWalkInv

(* Leaving a group out keeps the invariant.                                  *)
LEMMA LeaveOutWalkInv == ASSUME WalkInv, LeaveOut PROVE WalkInv'
<1>1. /\ stack # <<>> /\ Return /\ NoFailure
      /\ complaints' = complaints \cup {Top.group} \/ UNCHANGED complaints
      /\ UNCHANGED raceVars
      /\ UNCHANGED <<exists, busy, disabled, collections, roots, collected,
                     samples, unresolved, silent>>
  BY DEF LeaveOut, Decided, Complain, hierarchyVars, stateVars
<1>2. complaints' \in SUBSET Groups
  BY <1>1, TopFacts DEF WalkInv, WalkTypes
<1>3. OutputsFit
  BY <1>1, <1>2, OutputsKept DEF WalkInv, TypeOK
<1> QED
  BY <1>1, <1>3, ReturnWalkInv
-----------------------------------------------------------------------------
(* Where a collector starts to read a group.                                 *)
LEMMA BeginFacts ==
    ASSUME NEW g \in Groups, NEW collectors \in CollectorsLeft,
           collectors # <<>>, Begin(collectors, g)
    PROVE  /\ todo' = collectors
           /\ plan' \in Seq({"own", "list", "kids"}) /\ kids' \in Seq(Groups)
<1>1. Excluded(g) \in Seq(Groups)
  BY HierarchyAssumption DEF Excluded
<1>2. ASSUME NEW c PROVE Plan(c, g) \in Seq({"own", "list", "kids"})
  <2>1. /\ <<"own", "list", "kids">> \in Seq({"own", "list", "kids"})
        /\ <<"list", "own", "kids">> \in Seq({"own", "list", "kids"})
        /\ <<"own", "kids">> \in Seq({"own", "list", "kids"})
        /\ <<"own">> \in Seq({"own", "list", "kids"})
    OBVIOUS
  <2>2. Plan(c, g) \in {<<"own", "list", "kids">>, <<"list", "own", "kids">>,
                        <<"own", "kids">>, <<"own">>}
    <3>1. CASE g = Root /\ c = "memory"
      BY <3>1 DEF Plan
    <3>2. CASE g = Root /\ c # "memory"
      BY <3>2 DEF Plan
    <3>3. CASE g # Root /\ IsRootGroup(g)
      BY <3>3 DEF Plan
    <3>4. CASE g # Root /\ ~IsRootGroup(g)
      BY <3>4 DEF Plan
    <3> QED
      BY <3>1, <3>2, <3>3, <3>4
  <2> QED
    BY <2>1, <2>2
<1> QED
  BY <1>1, <1>2 DEF Begin

(* Taking a group as its service keeps the invariant.                        *)
LEMMA CollectWalkInv == ASSUME WalkInv, Collect PROVE WalkInv'
<1>1. /\ at = "observe" /\ stack # <<>> /\ Top.children = <<>>
      /\ NoFailure /\ ~IsTaken(Top.group)
      /\ services' = [s \in DOMAIN services \cup {Service[Top.group]} |->
                       IF s = Service[Top.group] THEN Top.group
                       ELSE services[s]]
      /\ at' = "read"
      /\ Begin(Collectors, Top.group)
      /\ UNCHANGED raceVars
      /\ UNCHANGED <<exists, busy, disabled, collections, stack, roots,
                     collected, samples, complaints, unresolved, silent>>
  BY DEF Collect, Decided, hierarchyVars, stateVars, outputVars
<1>2. OutputsFit
  BY <1>1, OutputsKept DEF WalkInv, TypeOK, WalkTypes
<1>3. /\ Top.group \in Groups /\ Collectors \in CollectorsLeft
      /\ Collectors # <<>>
  BY <1>1, TopFacts DEF Collectors, CollectorsLeft
<1>4. /\ todo' = Collectors
      /\ plan' \in Seq({"own", "list", "kids"}) /\ kids' \in Seq(Groups)
  BY <1>1, <1>3, BeginFacts
<1>5. /\ services' \in [DOMAIN services' -> Groups]
      /\ Service[Top.group] \in DOMAIN services'
      /\ services'[Service[Top.group]] = Top.group
  BY <1>1, <1>3 DEF WalkInv, WalkTypes
<1>6. stack' \in Seq(FrameTypes)
  BY <1>1 DEF WalkInv, TypeOK, FrameTypes
<1>7. FramesFit'
  BY <1>1, <1>3, <1>4, <1>5 DEF WalkInv, FramesFit, IsReading, Top, IsTaken
<1> QED
  BY <1>1, <1>2, <1>3, <1>4, <1>5, <1>6, <1>7, FramesThenInv

(* A read that succeeds keeps the invariant.                                 *)
LEMMA ReadsWalkInv ==
    ASSUME WalkInv, ListKids \/ ReadOwn \/ ReadKid PROVE WalkInv'
<1>1. /\ at = "read" /\ NoFailure
      /\ UNCHANGED raceVars
      /\ UNCHANGED <<exists, busy, disabled, collections, stack, at, services,
                     todo, roots, collected, samples, complaints, unresolved,
                     silent>>
  BY DEF ListKids, ReadOwn, ReadKid, Reads, hierarchyVars, walkVars, stateVars,
         outputVars
<1>2. OutputsFit
  BY <1>1, OutputsKept DEF WalkInv, TypeOK, WalkTypes
<1>3. plan # <<>> => Tail(plan) \in Seq({"own", "list", "kids"})
  BY ListFacts DEF WalkInv, WalkTypes
<1>4. kids # <<>> => Tail(kids) \in Seq(Groups)
  BY ListFacts DEF WalkInv, WalkTypes
<1>5. InOrder(ChildrenOf(Top.group) \cap exists) \in Seq(Groups)
  <2>1. ChildrenOf(Top.group) \cap exists \in SUBSET Groups
    BY DEF ChildrenOf
  <2> QED
    BY <2>1, HierarchyAssumption DEF InOrder
<1>6. plan' \in Seq({"own", "list", "kids"}) /\ kids' \in Seq(Groups)
  BY <1>3, <1>4, <1>5 DEF ListKids, ReadOwn, ReadKid, Reads, WalkInv, WalkTypes
<1>7. IsReading /\ todo # <<>> /\ todo \in CollectorsLeft
  BY <1>1 DEF IsReading, WalkInv, FramesFit, WalkTypes
<1> QED
  BY <1>1, <1>2, <1>6, <1>7, ReadingWalkInv

(* A group is given up, with an error or without.                            *)
LEMMA GiveUpWalkInv ==
    ASSUME WalkInv, IsReading, NoFailure \/ Failure,
           \/ UNCHANGED raceVars
           \/ \E g \in Groups : Check(g),
           NEW isError \in BOOLEAN, GiveUp(isError)
    PROVE  WalkInv'
<1>1. /\ stack # <<>> /\ Return
      /\ complaints' = complaints \cup {Top.group} \/ UNCHANGED complaints
      /\ UNCHANGED <<exists, busy, disabled, collections, roots, collected,
                     samples, unresolved, silent>>
  BY DEF GiveUp, Complain, hierarchyVars, stateVars, WalkInv, FramesFit,
         IsReading
<1>2. complaints' \in SUBSET Groups
  BY <1>1, TopFacts DEF WalkInv, WalkTypes
<1>3. OutputsFit
  BY <1>1, <1>2, OutputsKept DEF WalkInv, TypeOK
<1> QED
  BY <1>1, <1>3, ReturnWalkInv

(* A file of the group that is missing: the step keeps the invariant.        *)
LEMMA OwnRacesWalkInv == ASSUME WalkInv, OwnRaces PROVE WalkInv'
<1>1. /\ IsReading /\ Check(Top.group) /\ NoFailure
      /\ GiveUp(IsReported(Top.group))
  BY DEF OwnRaces, Reads, IsReading
<1>2. Top.group \in Groups
  BY <1>1, TopFacts DEF WalkInv, FramesFit, IsReading
<1>3. IsReported(Top.group) \in BOOLEAN
  BY DEF IsReported
<1> QED
  BY <1>1, <1>2, <1>3, GiveUpWalkInv

(* A file of a child that is missing: the step keeps the invariant.          *)
LEMMA KidRacesWalkInv == ASSUME WalkInv, KidRaces PROVE WalkInv'
<1>1. /\ IsReading /\ kids # <<>> /\ Check(Head(kids)) /\ NoFailure
  BY DEF KidRaces, Reads, IsReading
<1>2. Head(kids) \in Groups
  BY <1>1, ListFacts DEF WalkInv, WalkTypes
<1>3. CASE GiveUp(TRUE)
  BY <1>1, <1>2, <1>3, GiveUpWalkInv
<1>4. CASE /\ at' = "recheck"
           /\ UNCHANGED <<hierarchyVars, collections, stack, services, readVars,
                          stateVars, outputVars, known, silent>>
  <2>1. UNCHANGED <<exists, busy, disabled, collections, stack, services, todo,
                    plan, kids, roots, collected, samples, complaints,
                    unresolved, silent>>
    BY <1>4 DEF hierarchyVars, readVars, stateVars, outputVars
  <2>2. OutputsFit
    BY <1>1, <1>2, <2>1, OutputsKept DEF WalkInv, TypeOK, WalkTypes
  <2>3. todo # <<>>
    BY <1>1 DEF WalkInv, FramesFit
  <2> QED
    BY <1>1, <1>4, <2>1, <2>2, <2>3, ReadingWalkInv DEF WalkInv, WalkTypes
<1> QED
  BY <1>3, <1>4 DEF KidRaces

(* The race recorded for its parent: the step keeps the invariant.           *)
LEMMA ParentRacesWalkInv == ASSUME WalkInv, ParentRaces PROVE WalkInv'
<1>1. /\ IsReading /\ Check(Top.group) /\ NoFailure
      /\ GiveUp(IsReported(Top.group))
  BY DEF ParentRaces, IsReading
<1>2. Top.group \in Groups
  BY <1>1, TopFacts DEF WalkInv, FramesFit, IsReading
<1>3. IsReported(Top.group) \in BOOLEAN
  BY DEF IsReported
<1> QED
  BY <1>1, <1>2, <1>3, GiveUpWalkInv

(* An error of a read keeps the invariant.                                   *)
LEMMA FailToReadWalkInv == ASSUME WalkInv, FailToRead PROVE WalkInv'
BY GiveUpWalkInv DEF FailToRead, IsReading

(* The collectors that have not finished, the first of them in turn.         *)
LEMMA TodoParts ==
    ASSUME NEW s \in CollectorsLeft, s # <<>>
    PROVE  /\ Head(s) \in {"cpu", "memory", "io"}
           /\ Len(s) > 1 => Tail(s) \in CollectorsLeft /\ Tail(s) # <<>>
<1>1. CASE s = <<"io">>
  BY <1>1
<1>2. CASE s = <<"memory", "io">>
  <2>1. Tail(s) = <<"io">> /\ Head(s) = "memory"
    BY <1>2
  <2>2. <<"io">> \in CollectorsLeft
    BY DEF CollectorsLeft
  <2>3. <<"io">> # <<>>
    OBVIOUS
  <2> QED
    BY <2>1, <2>2, <2>3
<1>3. CASE s = <<"cpu", "memory", "io">>
  <2>1. Tail(s) = <<"memory", "io">> /\ Head(s) = "cpu"
    BY <1>3
  <2>2. <<"memory", "io">> \in CollectorsLeft
    BY DEF CollectorsLeft
  <2>3. <<"memory", "io">> # <<>>
    OBVIOUS
  <2> QED
    BY <2>1, <2>2, <2>3
<1> QED
  BY <1>1, <1>2, <1>3 DEF CollectorsLeft

(* What the states of the root groups are after a collector's turn.          *)
LEMMA MarkTypes ==
    ASSUME WalkInv, NEW c, NEW g \in Groups, Mark(c, g) \/ UNCHANGED stateVars
    PROVE  /\ roots' \in [StatefulCollectors -> SUBSET Groups]
           /\ collected' \in [StatefulCollectors -> SUBSET Groups]
<1>1. /\ roots \in [StatefulCollectors -> SUBSET Groups]
      /\ collected \in [StatefulCollectors -> SUBSET Groups]
  BY DEF WalkInv, TypeOK
<1>2. CASE Mark(c, g)
  BY <1>1, <1>2 DEF Mark
<1>3. CASE UNCHANGED stateVars
  BY <1>1, <1>3 DEF stateVars
<1> QED
  BY <1>2, <1>3

(* A collector that finishes with a group keeps the invariant.               *)
LEMMA RecordWalkInv == ASSUME WalkInv, Record PROVE WalkInv'
<1> DEFINE c == Head(todo)
           g == Top.group
           sample == <<c, Service[g]>>
<1>1. /\ at = "read" /\ NoFailure
      /\ UNCHANGED raceVars
      /\ UNCHANGED <<exists, busy, disabled, collections, complaints,
                     unresolved, silent>>
      /\ Mark(c, g) \/ UNCHANGED stateVars
      /\ samples' = samples \/ samples' = Append(samples, sample)
      /\ \/ /\ Len(todo) > 1 /\ Begin(Tail(todo), g)
            /\ UNCHANGED <<stack, at, services>>
         \/ Return
  BY DEF Record, HasRead, hierarchyVars, walkVars
<1>2. IsReading /\ stack # <<>> /\ todo # <<>> /\ todo \in CollectorsLeft
  BY <1>1 DEF IsReading, WalkInv, FramesFit, WalkTypes
<1>3. g \in Groups /\ c \in {"cpu", "memory", "io"}
  BY <1>2, TopFacts, TodoParts
<1>4. sample \in Samples
  BY <1>3 DEF Samples
<1> HIDE DEF sample
<1>5. samples' \in Seq(Samples)
  BY <1>1, <1>4 DEF WalkInv, WalkTypes
<1>6. RaceTypeOK'
  BY <1>1, RaceTypes DEF WalkInv, TypeOK
<1>7. /\ roots' \in [StatefulCollectors -> SUBSET Groups]
      /\ collected' \in [StatefulCollectors -> SUBSET Groups]
  BY <1>1, <1>3, MarkTypes
<1>8. OutputsFit
  BY <1>1, <1>5, <1>6, <1>7, FailureKeeps DEF OutputsFit, WalkInv, WalkTypes,
     TypeOK
<1>9. CASE /\ Len(todo) > 1 /\ Begin(Tail(todo), g)
           /\ UNCHANGED <<stack, at, services>>
  <2>1. Tail(todo) \in CollectorsLeft /\ Tail(todo) # <<>>
    BY <1>2, <1>9, TodoParts
  <2>2. /\ todo' = Tail(todo)
        /\ plan' \in Seq({"own", "list", "kids"}) /\ kids' \in Seq(Groups)
    BY <1>3, <1>9, <2>1, BeginFacts
  <2> QED
    BY <1>1, <1>2, <1>8, <1>9, <2>1, <2>2, ReadingWalkInv
<1> QED
  BY <1>1, <1>2, <1>8, <1>9, ReturnWalkInv

(* A calculation that fails keeps the invariant.                             *)
LEMMA FailToCalculateWalkInv == ASSUME WalkInv, FailToCalculate PROVE WalkInv'
<1>1. /\ at = "read" /\ Failure /\ Return
      /\ UNCHANGED raceVars
      /\ UNCHANGED <<exists, busy, disabled, collections, samples, unresolved,
                     silent>>
      /\ complaints' = complaints \cup {Top.group}
      /\ Mark("io", Top.group) \/ UNCHANGED stateVars
  BY DEF FailToCalculate, HasRead, Complain, hierarchyVars
<1>2. stack # <<>> /\ Top.group \in Groups
  BY <1>1, TopFacts DEF WalkInv, FramesFit
<1>3. complaints' \in SUBSET Groups
  BY <1>1, <1>2 DEF WalkInv, WalkTypes
<1>4. RaceTypeOK'
  BY <1>1, RaceTypes DEF WalkInv, TypeOK
<1>5. /\ roots' \in [StatefulCollectors -> SUBSET Groups]
      /\ collected' \in [StatefulCollectors -> SUBSET Groups]
  BY <1>1, <1>2, MarkTypes
<1>6. OutputsFit
  BY <1>1, <1>3, <1>4, <1>5, FailureKeeps DEF OutputsFit, WalkInv, WalkTypes,
     TypeOK
<1> QED
  BY <1>1, <1>2, <1>6, ReturnWalkInv

(* The end of a collection keeps the invariant.                              *)
LEMMA FinishWalkInv == ASSUME WalkInv, Finish PROVE WalkInv'
<1>1. /\ at = "observe" /\ stack = <<>> /\ at' = "idle" /\ NoFailure
      /\ OnCollectionFinished
      /\ services' = <<>>
      /\ UNCHANGED <<exists, busy, disabled, collections, stack, todo, plan,
                     kids, samples, complaints, unresolved, collected>>
  BY DEF Finish, HasEnded, hierarchyVars, readVars, outputVars
<1>2. RaceTypeOK'
  BY <1>1, RaceTypes DEF WalkInv, TypeOK
<1>3. roots' \in [StatefulCollectors -> SUBSET Groups]
  BY DEF Finish, WalkInv, TypeOK
<1>4. silent' \in [Groups -> Nat]
  BY DEF Finish, WalkInv, TypeOK
<1>5. OutputsFit
  BY <1>1, <1>2, <1>3, <1>4, FailureKeeps DEF OutputsFit, WalkInv, WalkTypes,
     TypeOK
<1>6. FramesFit'
  BY <1>1 DEF FramesFit, IsReading
<1>7. services' \in [DOMAIN services' -> Groups] /\ stack' \in Seq(FrameTypes)
  BY <1>1 DEF WalkInv, TypeOK, FrameTypes
<1> QED
  BY <1>1, <1>5, <1>6, <1>7, FramesThenInv DEF WalkInv, WalkTypes

(* A step that changes nothing keeps the invariant.                          *)
LEMMA StutterWalkInv == ASSUME WalkInv, UNCHANGED vars PROVE WalkInv'
<1>1. /\ UNCHANGED raceVars
      /\ UNCHANGED <<exists, busy, disabled, changes, collections, stack, at,
                     services, todo, plan, kids, roots, collected, samples,
                     complaints, unresolved, steady, loaded, quiet, silent>>
  BY DEF vars, hierarchyVars, walkVars, readVars, stateVars, outputVars,
         historyVars, sinceVars
<1>2. FramesFit'
  BY <1>1 DEF WalkInv, FramesFit, IsReading, Top, IsTaken
<1>3. RaceTypeOK'
  BY <1>1, RaceTypes DEF WalkInv, TypeOK
<1> QED
  BY <1>1, <1>2, <1>3 DEF WalkInv, TypeOK, WalkTypes

(* Every step keeps the invariant.                                           *)
LEMMA NextWalkInv == WalkInv /\ [Next]_vars => WalkInv'
<1> SUFFICES ASSUME WalkInv, [Next]_vars PROVE WalkInv'
  OBVIOUS
<1>1. CASE Hierarchy
  BY <1>1, HierarchyWalkInv
<1>2. CASE Walk
  BY <1>2, StartWalkInv, ObserveWalkInv, FailToClassifyWalkInv,
     HasProcessesWalkInv, HasProcessesRacesWalkInv, ListChildrenWalkInv,
     FailToObserveWalkInv, LeaveOutWalkInv, CollectWalkInv, ReadsWalkInv,
     OwnRacesWalkInv, KidRacesWalkInv, ParentRacesWalkInv, FailToReadWalkInv,
     RecordWalkInv, FailToCalculateWalkInv, FinishWalkInv DEF Walk
<1> QED
  BY <1>1, <1>2, StutterWalkInv DEF Next

(* The types and the shape of the walk always hold.                          *)
THEOREM WalkInvariance == Spec => []WalkInv
BY InitWalkInv, NextWalkInv, PTL DEF Spec

(* The state of the walk, of the collectors and of the race controller has   *)
(* its types.                                                                *)
THEOREM WalkTypeCorrect == Spec => []TypeOK
<1>1. WalkInv => TypeOK
  BY DEF WalkInv
<1> QED
  BY <1>1, WalkInvariance, PTL
-----------------------------------------------------------------------------
(* The states of the root groups, the samples and the services change in few *)
(* steps, and only those steps go to the next group or collector to read.    *)
LEMMA OtherSteps ==
    ASSUME WalkInv, [Next]_vars,
           ~Start, ~Collect, ~Record, ~FailToCalculate, ~Finish
    PROVE  /\ UNCHANGED <<roots, collected, samples>>
           /\ at' # "idle" => at # "idle" /\ services' = services
           /\ IsReading' => IsReading /\ UNCHANGED <<stack, todo>>
<1> USE DEF IsReading, Return, stateVars, outputVars, walkVars
<1>1. CASE Hierarchy
  BY <1>1, HierarchyChanges DEF Change, CollectorVars, readVars
<1>2. CASE Observe
  BY <1>2 DEF Observe
<1>3. CASE FailToClassify
  BY <1>3 DEF FailToClassify
<1>4. CASE HasProcesses
  BY <1>4 DEF HasProcesses
<1>5. CASE HasProcessesRaces
  BY <1>5 DEF HasProcessesRaces, AbortWalk
<1>6. CASE ListChildren
  BY <1>6 DEF ListChildren
<1>7. CASE FailToObserve
  BY <1>7 DEF FailToObserve, AbortWalk
<1>8. CASE LeaveOut
  BY <1>8 DEF LeaveOut, Decided
<1>9. CASE ListKids \/ ReadOwn \/ ReadKid
  BY <1>9 DEF ListKids, ReadOwn, ReadKid, Reads
<1>10. CASE OwnRaces
  BY <1>10 DEF OwnRaces, Reads, GiveUp
<1>11. CASE KidRaces
  BY <1>11 DEF KidRaces, Reads, GiveUp, readVars
<1>12. CASE ParentRaces
  BY <1>12 DEF ParentRaces, GiveUp
<1>13. CASE FailToRead
  BY <1>13 DEF FailToRead, GiveUp
<1>14. CASE UNCHANGED vars
  BY <1>14 DEF vars, readVars
<1> QED
  BY <1>1, <1>2, <1>3, <1>4, <1>5, <1>6, <1>7, <1>8, <1>9, <1>10, <1>11, <1>12,
     <1>13, <1>14 DEF Next, Walk

(* What a collector leaves when it has finished with a group.                *)
LEMMA AfterRecord ==
    ASSUME WalkInv, Record
    PROVE  /\ at = "read" /\ services' = services /\ at' # "idle"
           /\ IsReading' => /\ UNCHANGED stack
                            /\ todo' = Tail(todo) /\ Len(todo) > 1
BY DEF Record, HasRead, Return, walkVars, Begin, IsReading

(* io runs after cpu, so what io remembers of a group cpu remembers too.     *)
BaselineInv ==
    /\ roots["io"] \subseteq roots["cpu"]
    /\ collected["io"] \subseteq collected["cpu"]
    /\ IsReading /\ todo # Collectors /\ IsRootGroup(Top.group) =>
          Top.group \in roots["cpu"] \cap collected["cpu"]

(* The initial state has no baselines.                                       *)
LEMMA InitBaselineInv == Init => BaselineInv
BY DEF Init, BaselineInv, IsReading, StatefulCollectors

(* Every step keeps the baselines of io among those of cpu.                  *)
LEMMA NextBaselineInv == WalkInv /\ BaselineInv /\ [Next]_vars => BaselineInv'
<1> SUFFICES ASSUME WalkInv, BaselineInv, [Next]_vars PROVE BaselineInv'
  OBVIOUS
<1>1. CASE ~Start /\ ~Collect /\ ~Record /\ ~FailToCalculate /\ ~Finish
  <2>1. /\ UNCHANGED <<roots, collected>>
        /\ IsReading' => IsReading /\ UNCHANGED <<stack, todo>>
    BY <1>1, OtherSteps
  <2> QED
    BY <2>1 DEF BaselineInv, Top
<1>2. CASE Start
  <2>1. /\ collected' = [c \in StatefulCollectors |-> {}]
        /\ UNCHANGED roots /\ at' = "list"
    BY <1>2 DEF Start
  <2> QED
    BY <2>1 DEF BaselineInv, IsReading, StatefulCollectors
<1>3. CASE Collect
  BY <1>3 DEF Collect, Begin, stateVars, BaselineInv
<1>4. CASE Record
  <2>1. /\ at = "read" /\ at' # "idle"
        /\ IsReading' => UNCHANGED stack /\ todo' = Tail(todo) /\ Len(todo) > 1
    BY <1>4, AfterRecord
  <2>2. todo \in CollectorsLeft /\ todo # <<>>
    BY <2>1 DEF WalkInv, WalkTypes, FramesFit, IsReading
  <2>3. IF KeepsRootState(Head(todo), Top.group) THEN Mark(Head(todo), Top.group)
        ELSE UNCHANGED <<roots, collected>>
    BY <1>4 DEF Record, stateVars
  <2>4. /\ roots \in [StatefulCollectors -> SUBSET Groups]
        /\ collected \in [StatefulCollectors -> SUBSET Groups]
    BY DEF WalkInv, TypeOK
  <2>5. CASE todo = Collectors
    <3>1. Head(todo) = "cpu"
      BY <2>5 DEF Collectors
    <3>2. CASE IsRootGroup(Top.group)
      <4>1. Mark("cpu", Top.group)
        BY <2>3, <3>1, <3>2 DEF KeepsRootState, StatefulCollectors
      <4>2. /\ roots'["cpu"] = roots["cpu"] \cup {Top.group}
            /\ roots'["io"] = roots["io"]
            /\ collected'["cpu"] = collected["cpu"] \cup {Top.group}
            /\ collected'["io"] = collected["io"]
        BY <2>4, <4>1 DEF Mark, StatefulCollectors
      <4> QED
        BY <2>1, <4>2 DEF BaselineInv, Top
    <3>3. CASE ~IsRootGroup(Top.group)
      <4>1. UNCHANGED <<roots, collected>>
        BY <2>3, <3>3 DEF KeepsRootState
      <4> QED
        BY <2>1, <3>3, <4>1 DEF BaselineInv, Top
    <3> QED
      BY <3>2, <3>3
  <2>6. CASE todo = <<"memory", "io">>
    <3>1. UNCHANGED <<roots, collected>>
      BY <2>3, <2>6 DEF KeepsRootState, StatefulCollectors
    <3>2. todo # Collectors
      BY <2>6 DEF Collectors
    <3> QED
      BY <2>1, <3>1, <3>2 DEF BaselineInv, Top, IsReading
  <2>7. CASE todo = <<"io">>
    <3>1. ~IsReading'
      BY <2>1, <2>7
    <3>2. todo # Collectors /\ Head(todo) = "io" /\ IsReading
      BY <2>1, <2>7 DEF Collectors, IsReading
    <3>3. CASE IsRootGroup(Top.group)
      <4>1. Mark("io", Top.group)
        BY <2>3, <3>2, <3>3 DEF KeepsRootState, StatefulCollectors
      <4>2. /\ roots'["io"] = roots["io"] \cup {Top.group}
            /\ roots'["cpu"] = roots["cpu"]
            /\ collected'["io"] = collected["io"] \cup {Top.group}
            /\ collected'["cpu"] = collected["cpu"]
        BY <2>4, <4>1 DEF Mark, StatefulCollectors
      <4> QED
        BY <3>1, <3>2, <3>3, <4>2 DEF BaselineInv
    <3>4. CASE ~IsRootGroup(Top.group)
      BY <2>3, <3>1, <3>4 DEF KeepsRootState, BaselineInv
    <3> QED
      BY <3>3, <3>4
  <2> QED
    BY <2>2, <2>5, <2>6, <2>7 DEF CollectorsLeft, Collectors
<1>5. CASE FailToCalculate
  <2>1. /\ at = "read" /\ at' = "observe"
        /\ IsRootGroup(Top.group)
        /\ IF Head(todo) = "io" THEN Mark("io", Top.group)
           ELSE UNCHANGED <<roots, collected>>
    BY <1>5 DEF FailToCalculate, HasRead, KeepsRootState, Return, stateVars
  <2>2. CASE Head(todo) = "io"
    <3>1. todo # Collectors /\ IsReading
      BY <2>1, <2>2 DEF Collectors, IsReading
    <3>2. /\ roots'["io"] = roots["io"] \cup {Top.group}
          /\ roots'["cpu"] = roots["cpu"]
          /\ collected'["io"] = collected["io"] \cup {Top.group}
          /\ collected'["cpu"] = collected["cpu"]
      BY <2>1, <2>2 DEF Mark, StatefulCollectors, WalkInv, TypeOK
    <3> QED
      BY <2>1, <3>1, <3>2 DEF BaselineInv, IsReading
  <2> QED
    BY <2>1, <2>2 DEF BaselineInv, IsReading
<1>6. CASE Finish
  <2>1. /\ at' = "idle" /\ UNCHANGED collected
        /\ roots' = [c \in StatefulCollectors |->
                        {g \in roots[c] : g \in collected[c] \/ g = Root}]
    BY <1>6 DEF Finish
  <2>2. /\ roots'["io"] = {g \in roots["io"] : g \in collected["io"] \/ g = Root}
        /\ roots'["cpu"] = {g \in roots["cpu"] : g \in collected["cpu"] \/ g = Root}
    BY <2>1 DEF StatefulCollectors
  <2> QED
    BY <2>1, <2>2 DEF BaselineInv, IsReading
<1> QED
  BY <1>1, <1>2, <1>3, <1>4, <1>5, <1>6

(* Between collections a service with an io baseline has a cpu baseline, for *)
(* any hierarchy and any failures (collector.go:174-178).                    *)
THEOREM BaselinesAgree == Spec => []IoBaselineImpliesCpuBaseline
<1>1. WalkInv /\ BaselineInv /\ [Next]_vars => (WalkInv /\ BaselineInv)'
  BY NextWalkInv, NextBaselineInv
<1>2. BaselineInv => IoBaselineImpliesCpuBaseline
  BY DEF BaselineInv, IoBaselineImpliesCpuBaseline
<1> QED
  BY <1>1, <1>2, InitWalkInv, InitBaselineInv, PTL DEF Spec
-----------------------------------------------------------------------------
(* A sample belongs to a service that has been taken, and, of the group that *)
(* is being read, to a collector that has finished with it.                  *)
SamplesInv ==
    /\ IsInjective(samples)
    /\ at # "idle" =>
          \A i \in DOMAIN samples : samples[i][2] \in DOMAIN services
    /\ IsReading => \A i \in DOMAIN samples :
          samples[i][2] = Service[Top.group] => samples[i][1] \notin ToSet(todo)

(* The initial state has no samples.                                         *)
LEMMA InitSamplesInv == Init => SamplesInv
BY DEF Init, SamplesInv, IsReading, IsInjective

(* The first collector that has not finished is not one of the others.       *)
LEMMA CollectorsDiffer ==
    ASSUME NEW s \in CollectorsLeft, s # <<>>
    PROVE  /\ Head(s) \in ToSet(s)
           /\ Len(s) > 1 => /\ Head(s) \notin ToSet(Tail(s))
                            /\ ToSet(Tail(s)) \subseteq ToSet(s)
<1>1. CASE s = <<"io">>
  BY <1>1 DEF ToSet
<1>2. CASE s = <<"memory", "io">>
  <2>1. /\ Tail(s) = <<"io">> /\ Head(s) = "memory"
        /\ DOMAIN s = {1, 2} /\ s[1] = "memory" /\ s[2] = "io"
    BY <1>2
  <2>2. DOMAIN <<"io">> = {1} /\ <<"io">>[1] = "io"
    OBVIOUS
  <2> QED
    BY <2>1, <2>2 DEF ToSet
<1>3. CASE s = <<"cpu", "memory", "io">>
  <2>1. /\ Tail(s) = <<"memory", "io">> /\ Head(s) = "cpu"
        /\ DOMAIN s = {1, 2, 3}
        /\ s[1] = "cpu" /\ s[2] = "memory" /\ s[3] = "io"
    BY <1>3
  <2>2. /\ DOMAIN <<"memory", "io">> = {1, 2}
        /\ <<"memory", "io">>[1] = "memory" /\ <<"memory", "io">>[2] = "io"
    OBVIOUS
  <2> QED
    BY <2>1, <2>2 DEF ToSet
<1> QED
  BY <1>1, <1>2, <1>3 DEF CollectorsLeft

(* Every step keeps the samples distinct.                                    *)
LEMMA NextSamplesInv == WalkInv /\ SamplesInv /\ [Next]_vars => SamplesInv'
<1> SUFFICES ASSUME WalkInv, SamplesInv, [Next]_vars PROVE SamplesInv'
  OBVIOUS
<1>1. CASE ~Start /\ ~Collect /\ ~Record /\ ~FailToCalculate /\ ~Finish
  <2>1. /\ UNCHANGED samples
        /\ at' # "idle" => at # "idle" /\ services' = services
        /\ IsReading' => IsReading /\ UNCHANGED <<stack, todo>>
    BY <1>1, OtherSteps
  <2> QED
    BY <2>1 DEF SamplesInv, Top
<1>2. CASE Start
  <2>1. samples' = <<>> /\ at' = "list"
    BY <1>2 DEF Start
  <2> QED
    BY <2>1 DEF SamplesInv, IsReading, IsInjective
<1>3. CASE Collect
  <2>1. /\ UNCHANGED <<stack, samples>> /\ at = "observe"
        /\ Service[Top.group] \notin DOMAIN services
        /\ DOMAIN services' = DOMAIN services \cup {Service[Top.group]}
    BY <1>3 DEF Collect, outputVars, IsTaken, Decided
  <2>2. \A i \in DOMAIN samples : /\ samples[i][2] \in DOMAIN services
                                  /\ samples[i][2] # Service[Top.group]
    BY <2>1 DEF SamplesInv
  <2> QED
    BY <2>1, <2>2 DEF SamplesInv, Top
<1>4. CASE Record
  <2> DEFINE g == Top.group
             new == <<Head(todo), Service[g]>>
  <2>1. /\ at = "read" /\ services' = services
        /\ IsReading' => UNCHANGED stack /\ todo' = Tail(todo) /\ Len(todo) > 1
    BY <1>4, AfterRecord
  <2>2. samples' = samples \/ samples' = Append(samples, new)
    BY <1>4 DEF Record
  <2>3. /\ todo \in CollectorsLeft /\ todo # <<>> /\ IsReading
        /\ Service[g] \in DOMAIN services
    BY <2>1 DEF WalkInv, WalkTypes, FramesFit, IsReading, IsTaken
  <2>4. samples \in Seq(Samples)
    BY DEF WalkInv, WalkTypes
  <2>5. \A i \in DOMAIN samples : /\ samples[i] # new
                                  /\ samples[i][2] \in DOMAIN services
    BY <2>1, <2>3, CollectorsDiffer DEF SamplesInv
  <2>6. new[1] = Head(todo) /\ new[2] = Service[g]
    OBVIOUS
  <2> HIDE DEF new, g
  <2>7. CASE samples' = samples
    BY <2>1, <2>3, <2>7, CollectorsDiffer DEF SamplesInv, Top
  <2>8. CASE samples' = Append(samples, new)
    <3>1. /\ DOMAIN samples' = 1..(Len(samples) + 1)
          /\ samples'[Len(samples) + 1] = new
          /\ \A i \in 1..Len(samples) : i \in DOMAIN samples /\ samples'[i] = samples[i]
          /\ Len(samples) \in Nat
      BY <2>4, <2>8
    <3>2. ASSUME NEW i \in DOMAIN samples' PROVE
             \/ i \in DOMAIN samples /\ samples'[i] = samples[i]
             \/ i = Len(samples) + 1 /\ samples'[i] = new
      BY <3>1
    <3>3. IsInjective(samples')
      BY <2>5, <3>1, <3>2 DEF SamplesInv, IsInjective
    <3>4. \A i \in DOMAIN samples' : samples'[i][2] \in DOMAIN services'
      BY <2>1, <2>3, <2>5, <2>6, <3>2
    <3>5. ASSUME IsReading', NEW i \in DOMAIN samples',
                 samples'[i][2] = Service[Top'.group]
          PROVE  samples'[i][1] \notin ToSet(todo')
      <4>1. /\ Top' = Top /\ todo' = Tail(todo) /\ Len(todo) > 1
        BY <2>1, <3>5 DEF Top
      <4>2. /\ Head(todo) \notin ToSet(todo')
            /\ ToSet(todo') \subseteq ToSet(todo)
        BY <2>3, <4>1, CollectorsDiffer
      <4> QED
        BY <2>3, <2>6, <3>2, <3>5, <4>1, <4>2 DEF SamplesInv
    <3> QED
      BY <3>3, <3>4, <3>5 DEF SamplesInv
  <2> QED
    BY <2>2, <2>7, <2>8
<1>5. CASE FailToCalculate
  <2>1. /\ samples' = samples /\ services' = services
        /\ at = "read" /\ at' = "observe"
    BY <1>5 DEF FailToCalculate, HasRead, Return
  <2> QED
    BY <2>1 DEF SamplesInv, IsReading
<1>6. CASE Finish
  <2>1. samples' = samples /\ at' = "idle"
    BY <1>6 DEF Finish, outputVars
  <2> QED
    BY <2>1 DEF SamplesInv, IsReading
<1> QED
  BY <1>1, <1>2, <1>3, <1>4, <1>5, <1>6

(* No metric is sent twice in a collection, however the groups come and go   *)
(* (collector.go:137-141).                                                   *)
THEOREM NothingIsSentTwice == Spec => []NoDuplicateSamples
<1>1. WalkInv /\ SamplesInv /\ [Next]_vars => (WalkInv /\ SamplesInv)'
  BY NextWalkInv, NextSamplesInv
<1>2. SamplesInv => NoDuplicateSamples
  BY DEF SamplesInv, NoDuplicateSamples
<1> QED
  BY <1>1, <1>2, InitWalkInv, InitSamplesInv, PTL DEF Spec
-----------------------------------------------------------------------------
(* The groups above a group: itself, and the parents of those that are above *)
(* it; and they are in every set that is closed in that way.                 *)
LEMMA AboveFacts ==
    ASSUME NEW g \in Groups
    PROVE  /\ Above[g] \in SUBSET Groups /\ g \in Above[g] /\ Root \in Above[g]
           /\ \A d \in Above[g] \ {Root} : Parent[d] \in Above[g]
           /\ \A upward \in SUBSET Groups :
                 g \in upward /\ (\A d \in upward \ {Root} : Parent[d] \in upward)
                 => Above[g] \subseteq upward
<1>1. Above[g] = {a \in Groups : \A upward \in SUBSET Groups :
                     g \in upward /\ (\A d \in upward \ {Root} : Parent[d] \in upward)
                     => a \in upward}
  BY DEF Above
<1>2. Above[g] \in SUBSET Groups /\ g \in Above[g]
  BY <1>1
<1>3. ASSUME NEW d \in Above[g] \ {Root} PROVE Parent[d] \in Above[g]
  <2>1. d \in Groups \ {Root} /\ Parent[d] \in Groups
    BY <1>2, HierarchyAssumption
  <2>2. ASSUME NEW upward \in SUBSET Groups, g \in upward,
               \A e \in upward \ {Root} : Parent[e] \in upward
        PROVE  Parent[d] \in upward
    <3>1. d \in upward
      BY <1>1, <2>2
    <3> QED
      BY <2>1, <2>2, <3>1
  <2> QED
    BY <1>1, <2>1, <2>2
<1>4. \A upward \in SUBSET Groups :
         g \in upward /\ (\A d \in upward \ {Root} : Parent[d] \in upward)
         => Above[g] \subseteq upward
  BY <1>1
<1>5. Root \in Above[g]
  BY TreeAssumption
<1> QED
  BY <1>2, <1>3, <1>4, <1>5

(* What is above a group above is above.                                     *)
LEMMA AboveTransitive ==
    ASSUME NEW g \in Groups, NEW a \in Above[g] PROVE Above[a] \subseteq Above[g]
<1>1. a \in Groups
  BY AboveFacts
<1> QED
  BY <1>1, AboveFacts

(* The way from a group down to one below it goes through one of its         *)
(* children.                                                                 *)
LEMMA WayDown ==
    ASSUME NEW g \in Groups, NEW a \in Above[g], a # g
    PROVE  \E d \in Above[g] \ {Root} : Parent[d] = a
<1> SUFFICES ASSUME \A d \in Above[g] \ {Root} : Parent[d] # a PROVE FALSE
  OBVIOUS
<1>1. Above[g] \in SUBSET Groups /\ g \in Above[g]
  BY AboveFacts
<1>2. PICK others \in SUBSET Groups : others = Above[g] \ {a}
  BY <1>1
<1>3. \A d \in others \ {Root} : Parent[d] \in others
  BY <1>2, AboveFacts
<1>4. g \in others
  BY <1>1, <1>2
<1>5. Above[g] \subseteq others
  BY <1>3, <1>4, AboveFacts
<1> QED
  BY <1>2, <1>5

(* What is above a child is the child and what is above its parent.          *)
LEMMA AboveChild ==
    ASSUME NEW g \in Groups \ {Root}
    PROVE  Above[g] = {g} \cup Above[Parent[g]]
<1>1. Parent[g] \in Groups
  BY HierarchyAssumption
<1>2. PICK upward \in SUBSET Groups : upward = {g} \cup Above[Parent[g]]
  BY <1>1, AboveFacts
<1>3. \A d \in upward \ {Root} : Parent[d] \in upward
  BY <1>1, <1>2, AboveFacts
<1>4. Above[g] \subseteq upward
  BY <1>2, <1>3, AboveFacts
<1>5. Parent[g] \in Above[g] /\ g \in Above[g]
  BY AboveFacts
<1>6. Above[Parent[g]] \subseteq Above[g]
  BY <1>5, AboveTransitive
<1> QED
  BY <1>2, <1>4, <1>5, <1>6

(* Nothing but the root is above it.                                         *)
LEMMA AboveRoot == Above[Root] = {Root}
<1>1. Root \in Groups /\ {Root} \in SUBSET Groups
  BY HierarchyAssumption
<1>2. Above[Root] \subseteq {Root}
  BY <1>1, AboveFacts
<1> QED
  BY <1>1, <1>2, AboveFacts

(* No group is above its parent.                                             *)
LEMMA NoCycle == ASSUME NEW g \in Groups \ {Root} PROVE g \notin Above[Parent[g]]
<1> SUFFICES ASSUME g \in Above[Parent[g]] PROVE FALSE
  OBVIOUS
<1> DEFINE p == Parent[g]
<1>1. p \in Groups /\ Above[p] \in SUBSET Groups /\ p \in Above[p]
  BY HierarchyAssumption, AboveFacts
<1>2. PICK upward \in SUBSET Groups : upward = {d \in Above[p] : g \in Above[d]}
  BY <1>1
<1>3. p \in upward
  BY <1>1, <1>2
<1>4. ASSUME NEW d \in upward \ {Root} PROVE Parent[d] \in upward
  <2>1. d \in Groups \ {Root} /\ d \in Above[p] /\ g \in Above[d]
    BY <1>1, <1>2, <1>4
  <2>2. Parent[d] \in Above[p]
    BY <1>1, <2>1, AboveFacts
  <2>3. CASE d = g
    BY <1>2, <2>2, <2>3
  <2>4. CASE d # g
    <3>1. g \in Above[Parent[d]]
      BY <2>1, <2>4, AboveChild
    <3> QED
      BY <1>2, <2>2, <3>1
  <2> QED
    BY <2>3, <2>4
<1>5. Above[p] \subseteq upward
  BY <1>1, <1>3, <1>4, AboveFacts
<1>6. g \in Above[Root]
  BY <1>1, <1>2, <1>5, AboveFacts
<1> QED
  BY <1>6, AboveRoot
-----------------------------------------------------------------------------
(* During a collection the hierarchy only gives groups up, and the walk only *)
(* learns.                                                                   *)
OnlyLearns ==
    /\ steady' \subseteq steady /\ loaded' \subseteq loaded
    /\ quiet' \subseteq quiet
    /\ unresolved \subseteq unresolved' /\ complaints \subseteq complaints'
    /\ \A s \in DOMAIN services :
          s \in DOMAIN services' /\ services'[s] = services[s]

(* Every step of a collection, and every change during it, is of that kind.  *)
LEMMA StepLearns ==
    ASSUME WalkInv, [Next]_vars, ~Start, at' # "idle" PROVE OnlyLearns
<1> USE DEF OnlyLearns, Return, outputVars, walkVars, NoFailure, Failure, sinceVars,
            Complain
<1>1. CASE Hierarchy
  BY <1>1, HierarchyChanges DEF Change, CollectorVars, readVars
<1>2. CASE Observe
  BY <1>2 DEF Observe
<1>3. CASE FailToClassify
  BY <1>3 DEF FailToClassify
<1>4. CASE HasProcesses
  BY <1>4 DEF HasProcesses
<1>5. CASE HasProcessesRaces
  BY <1>5 DEF HasProcessesRaces, AbortWalk
<1>6. CASE ListChildren
  BY <1>6 DEF ListChildren
<1>7. CASE FailToObserve
  BY <1>7 DEF FailToObserve, AbortWalk
<1>8. CASE LeaveOut
  BY <1>8 DEF LeaveOut, Decided
<1>9. CASE Collect
  BY <1>9 DEF Collect, IsTaken
<1>10. CASE ListKids \/ ReadOwn \/ ReadKid
  BY <1>10 DEF ListKids, ReadOwn, ReadKid, Reads
<1>11. CASE OwnRaces
  BY <1>11 DEF OwnRaces, Reads, GiveUp
<1>12. CASE KidRaces
  BY <1>12 DEF KidRaces, Reads, GiveUp, readVars
<1>13. CASE ParentRaces
  BY <1>13 DEF ParentRaces, GiveUp
<1>14. CASE FailToRead
  BY <1>14 DEF FailToRead, GiveUp
<1>15. CASE Record
  BY <1>15 DEF Record
<1>16. CASE FailToCalculate
  BY <1>16 DEF FailToCalculate
<1>17. CASE Finish
  BY <1>17 DEF Finish
<1>18. CASE UNCHANGED vars
  BY <1>18 DEF vars, historyVars
<1> QED
  BY <1>1, <1>2, <1>3, <1>4, <1>5, <1>6, <1>7, <1>8, <1>9, <1>10, <1>11, <1>12,
     <1>13, <1>14, <1>15, <1>16, <1>17, <1>18 DEF Next, Walk

(* What a collection owes to the groups.  A group is settled when it has got *)
(* what is due to it.                                                        *)
IsSettled(g) ==
    IsDue(g) => IsTaken(g) /\ (services[Service[g]] = g \/ g \in complaints)

(* So what is due gets less, and what has been done stays done.              *)
LEMMA LessIsDue ==
    ASSUME OnlyLearns, NEW g \in Groups
    PROVE  /\ IsReached(g)' => IsReached(g)
           /\ IsSettled(g) => IsSettled(g)'
<1>1. \A d \in Above[g] \ {Root} : IsPassedDownTo(d)' => IsPassedDownTo(d)
  BY DEF OnlyLearns, IsPassedDownTo
<1>2. IsReached(g)' => IsReached(g)
  BY <1>1 DEF IsReached
<1>3. IsDue(g)' => IsDue(g)
  BY <1>2 DEF IsDue, OnlyLearns
<1> QED
  BY <1>2, <1>3 DEF IsSettled, OnlyLearns, IsTaken

(* What is above a reached group is reached.                                 *)
LEMMA ReachedAbove ==
    ASSUME NEW g \in Groups, IsReached(g), NEW a \in Above[g]
    PROVE  /\ IsReached(a)
           /\ a # Root => IsPassedDownTo(a)
           /\ a # g => \E d \in Above[g] \ {Root} :
                          d \in Groups /\ Parent[d] = a /\ IsPassedDownTo(d)
<1>1. Above[a] \subseteq Above[g]
  BY AboveTransitive
<1>2. IsReached(a)
  BY <1>1 DEF IsReached
<1>3. a # g => \E d \in Above[g] \ {Root} : Parent[d] = a
  BY WayDown
<1>4. Above[g] \subseteq Groups
  BY AboveFacts
<1> QED
  BY <1>2, <1>3, <1>4 DEF IsReached
-----------------------------------------------------------------------------
(* What the steps do to the frames: few of them do more than stay with the   *)
(* innermost frame, return from it, or end the collection.                   *)
LEMMA OtherMoves ==
    ASSUME WalkInv, [Next]_vars,
           ~Start, ~Observe, ~FailToClassify, ~HasProcesses, ~ListChildren
    PROVE  \/ /\ UNCHANGED stack
              /\ at \in {"procs", "list"} \/ at' \in {"procs", "list"} => at' = at
           \/ stack # <<>> /\ Return
           \/ stack' = <<>> /\ at' = "idle"
<1> USE DEF walkVars
<1>1. CASE Hierarchy
  BY <1>1, HierarchyChanges DEF Change, CollectorVars
<1>2. CASE HasProcessesRaces
  BY <1>2 DEF HasProcessesRaces, AbortWalk, WalkInv, FramesFit
<1>3. CASE FailToObserve
  BY <1>3 DEF FailToObserve, AbortWalk
<1>4. CASE LeaveOut
  BY <1>4 DEF LeaveOut, Decided
<1>5. CASE Collect
  BY <1>5 DEF Collect, Decided
<1>6. CASE ListKids \/ ReadOwn \/ ReadKid
  BY <1>6 DEF ListKids, ReadOwn, ReadKid, Reads
<1>7. CASE OwnRaces
  BY <1>7 DEF OwnRaces, Reads, GiveUp, WalkInv, FramesFit
<1>8. CASE KidRaces
  BY <1>8 DEF KidRaces, Reads, GiveUp, WalkInv, FramesFit
<1>9. CASE ParentRaces
  BY <1>9 DEF ParentRaces, GiveUp, WalkInv, FramesFit
<1>10. CASE FailToRead
  BY <1>10 DEF FailToRead, GiveUp, WalkInv, FramesFit
<1>11. CASE Record
  BY <1>11 DEF Record, HasRead, WalkInv, FramesFit
<1>12. CASE FailToCalculate
  BY <1>12 DEF FailToCalculate, HasRead, WalkInv, FramesFit
<1>13. CASE Finish
  BY <1>13 DEF Finish, HasEnded
<1>14. CASE UNCHANGED vars
  BY <1>14 DEF vars
<1> QED
  BY <1>1, <1>2, <1>3, <1>4, <1>5, <1>6, <1>7, <1>8, <1>9, <1>10, <1>11, <1>12,
     <1>13, <1>14 DEF Next, Walk

(* The frames that are left when observe returns.                            *)
LEMMA PopFacts ==
    ASSUME WalkInv, stack # <<>>, Return
    PROVE  /\ \A i \in DOMAIN stack' : /\ i \in DOMAIN stack /\ i # Len(stack)
                                       /\ stack'[i] = stack[i]
           /\ \A i \in DOMAIN stack : i = Len(stack) \/ i \in DOMAIN stack'
<1>1. stack \in Seq(FrameTypes) /\ stack' = Front(stack)
  BY DEF WalkInv, TypeOK, FrameTypes, Return
<1>2. /\ stack' \in Seq(FrameTypes) /\ Len(stack') = Len(stack) - 1
      /\ \A i \in 1..(Len(stack) - 1) : stack'[i] = stack[i]
      /\ Len(stack) \in Nat \ {0}
  BY <1>1, StackFacts
<1>3. DOMAIN stack' = 1..(Len(stack) - 1) /\ DOMAIN stack = 1..Len(stack)
  BY <1>1, <1>2
<1> QED
  BY <1>2, <1>3

(* The frames when the walk comes to the next child of the innermost one.    *)
LEMMA ObserveFacts ==
    ASSUME WalkInv, Observe
    PROVE  LET g == Head(Top.children)
           IN  /\ g \in Groups \ {Root} /\ Parent[g] = Top.group
               /\ DOMAIN stack = 1..Len(stack) /\ Len(stack) \in Nat \ {0}
               /\ DOMAIN stack' = 1..(Len(stack) + 1)
               /\ \A i \in 1..(Len(stack) - 1) : stack'[i] = stack[i]
               /\ stack'[Len(stack)].group = Top.group
               /\ stack'[Len(stack)].needsCollection = Top.needsCollection
               /\ stack'[Len(stack)].children = Tail(Top.children)
               /\ ToSet(Top.children) = {g} \cup ToSet(Tail(Top.children))
               /\ Top' = stack'[Len(stack) + 1] /\ Top'.group = g
               /\ IF g \in Totals
                  THEN /\ Top'.children = Excluding[g] /\ Top'.needsCollection
                       /\ at' = "observe"
                  ELSE /\ Top'.children = <<>> /\ ~Top'.needsCollection
                       /\ at' = "procs"
<1> DEFINE g == Head(Top.children)
           popped == [Top EXCEPT !.children = Tail(@)]
           below == Append(Front(stack), popped)
           entered == IF g \in Totals THEN Frame(g, Excluding[g], TRUE)
                                      ELSE Frame(g, <<>>, FALSE)
<1>1. at = "observe" /\ stack # <<>> /\ Top.children # <<>>
  BY DEF Observe
<1>2. /\ stack' = Append(below, entered)
      /\ at' = IF g \in Totals THEN "observe" ELSE "procs"
  BY DEF Observe
<1>3. /\ g \in Groups \ {Root} /\ Parent[g] = Top.group
      /\ popped \in FrameTypes /\ popped.group = Top.group
      /\ popped.needsCollection = Top.needsCollection
      /\ popped.children = Tail(Top.children)
      /\ ToSet(Top.children) = {g} \cup ToSet(Tail(Top.children))
  BY <1>1, NextChildFacts
<1>4. /\ entered \in FrameTypes /\ entered.group = g
      /\ g \in Totals => entered.children = Excluding[g] /\ entered.needsCollection
      /\ g \notin Totals => entered.children = <<>> /\ ~entered.needsCollection
  BY <1>3, HierarchyAssumption DEF Frame, FrameTypes
<1> HIDE DEF g, popped, entered
<1>5. stack \in Seq(FrameTypes)
  BY DEF WalkInv, TypeOK, FrameTypes
<1>6. /\ Front(stack) \in Seq(FrameTypes) /\ Len(Front(stack)) = Len(stack) - 1
      /\ \A i \in 1..(Len(stack) - 1) : Front(stack)[i] = stack[i]
      /\ Len(stack) \in Nat \ {0}
  BY <1>1, <1>5, StackFacts
<1>7. /\ below \in Seq(FrameTypes) /\ Len(below) = Len(stack)
      /\ below[Len(stack)] = popped
      /\ \A i \in 1..(Len(stack) - 1) : below[i] = stack[i]
  BY <1>3, <1>6, PushFacts DEF Last
<1> HIDE DEF below
<1>8. /\ stack' \in Seq(FrameTypes) /\ Len(stack') = Len(stack) + 1
      /\ Top' = entered /\ stack'[Len(stack) + 1] = entered
      /\ \A i \in 1..Len(stack) : stack'[i] = below[i]
  BY <1>2, <1>4, <1>7, PushFacts DEF Top, Last
<1>9. /\ \A i \in 1..(Len(stack) - 1) : stack'[i] = stack[i]
      /\ stack'[Len(stack)] = popped
  <2>1. \A i \in 1..(Len(stack) - 1) : i \in 1..Len(stack)
    BY <1>6
  <2>2. Len(stack) \in 1..Len(stack)
    BY <1>6
  <2> QED
    BY <1>7, <1>8, <2>1, <2>2
<1>10. DOMAIN stack = 1..Len(stack) /\ DOMAIN stack' = 1..(Len(stack) + 1)
  BY <1>5, <1>8
<1> QED
  BY <1>2, <1>3, <1>4, <1>6, <1>8, <1>9, <1>10 DEF g

(* The frames when the innermost one is replaced: its list gets shorter,     *)
(* longer, or its group is found to have processes.                          *)
LEMMA ReplaceFacts ==
    ASSUME WalkInv, FailToClassify \/ HasProcesses \/ ListChildren
    PROVE  \/ Return /\ ListChildren /\ Top.group \notin exists
           \/ UNCHANGED stack /\ HasProcesses /\ at' = "list"
              /\ Top.group \notin busy
           \/ /\ DOMAIN stack' = DOMAIN stack /\ Len(stack') = Len(stack)
              /\ DOMAIN stack = 1..Len(stack) /\ Len(stack) \in Nat \ {0}
              /\ \A i \in 1..(Len(stack) - 1) : stack'[i] = stack[i]
              /\ Top' = stack'[Len(stack)] /\ Top'.group = Top.group
              /\ at' = "observe"
              /\ \/ /\ FailToClassify
                    /\ Top'.children = Tail(Top.children)
                    /\ Top'.needsCollection = Top.needsCollection
                 \/ /\ HasProcesses /\ Top.group \in busy
                    /\ Top'.children = Top.children /\ Top'.needsCollection
                 \/ /\ ListChildren /\ Top.group \in exists
                    /\ ToSet(Top'.children) = ChildrenOf(Top.group) \cap exists
                    /\ Top'.needsCollection = Top.needsCollection
<1>1. stack # <<>>
  BY DEF FailToClassify, HasProcesses, ListChildren, WalkInv, FramesFit
<1>2. stack \in Seq(FrameTypes) /\ Top \in FrameTypes
  BY <1>1, TopFacts DEF WalkInv, TypeOK, FrameTypes
<1>3. ASSUME NEW frame \in FrameTypes, SetTop(frame)
      PROVE  /\ DOMAIN stack' = DOMAIN stack /\ Len(stack') = Len(stack)
             /\ DOMAIN stack = 1..Len(stack) /\ Len(stack) \in Nat \ {0}
             /\ \A i \in 1..(Len(stack) - 1) : stack'[i] = stack[i]
             /\ Top' = stack'[Len(stack)] /\ Top' = frame
  <2>1. stack' = Append(Front(stack), frame)
    BY <1>3 DEF SetTop
  <2>2. /\ Front(stack) \in Seq(FrameTypes) /\ Len(Front(stack)) = Len(stack) - 1
        /\ \A i \in 1..(Len(stack) - 1) : Front(stack)[i] = stack[i]
        /\ Len(stack) \in Nat \ {0}
    BY <1>1, <1>2, StackFacts
  <2>3. /\ stack' \in Seq(FrameTypes)
        /\ Len(stack') = Len(Front(stack)) + 1 /\ Last(stack') = frame
        /\ \A i \in 1..Len(Front(stack)) : stack'[i] = Front(stack)[i]
    BY <1>3, <2>1, <2>2, PushFacts
  <2>4. Len(stack') = Len(stack) /\ Top' = stack'[Len(stack)] /\ Top' = frame
    BY <2>2, <2>3 DEF Top, Last
  <2>5. DOMAIN stack' = 1..Len(stack) /\ DOMAIN stack = 1..Len(stack)
    BY <1>2, <2>3, <2>4
  <2> QED
    BY <2>2, <2>3, <2>4, <2>5
<1>4. CASE FailToClassify
  <2>1. /\ Top.children # <<>> /\ at' = "observe"
        /\ SetTop([Top EXCEPT !.children = Tail(@)])
    BY <1>4 DEF FailToClassify
  <2>2. PICK frame \in FrameTypes :
           /\ frame = [Top EXCEPT !.children = Tail(@)]
           /\ frame.group = Top.group /\ frame.children = Tail(Top.children)
           /\ frame.needsCollection = Top.needsCollection
    BY <1>1, <2>1, NextChildFacts
  <2> QED
    BY <1>3, <1>4, <2>1, <2>2
<1>5. CASE HasProcesses
  <2>1. CASE Top.group \in busy
    <3> DEFINE asked == [Top EXCEPT !.needsCollection = TRUE]
    <3>1. /\ asked \in FrameTypes
          /\ asked.group = Top.group /\ asked.children = Top.children
          /\ asked.needsCollection
      BY <1>2 DEF FrameTypes
    <3>2. PICK frame \in FrameTypes :
             /\ frame = asked
             /\ frame.group = Top.group /\ frame.children = Top.children
             /\ frame.needsCollection
      BY <3>1
    <3>3. SetTop(frame) /\ at' = "observe"
      BY <1>5, <2>1, <3>2 DEF HasProcesses
    <3> QED
      BY <1>3, <1>5, <2>1, <3>2, <3>3
  <2>2. CASE Top.group \notin busy
    BY <1>5, <2>2 DEF HasProcesses
  <2> QED
    BY <2>1, <2>2
<1>6. CASE ListChildren
  <2>1. CASE Top.group \in exists
    <3> DEFINE listed == InOrder(ChildrenOf(Top.group) \cap exists)
    <3>1. /\ listed \in Seq(Groups)
          /\ ToSet(listed) = ChildrenOf(Top.group) \cap exists
      <4>1. ChildrenOf(Top.group) \cap exists \in SUBSET Groups
        BY DEF ChildrenOf
      <4> QED
        BY <4>1, HierarchyAssumption DEF InOrder
    <3>2. SetTop([Top EXCEPT !.children = listed]) /\ at' = "observe"
      BY <1>6, <2>1 DEF ListChildren
    <3> HIDE DEF listed
    <3> DEFINE filled == [Top EXCEPT !.children = listed]
    <3>3. /\ filled \in FrameTypes
          /\ filled.group = Top.group /\ filled.children = listed
          /\ filled.needsCollection = Top.needsCollection
      BY <1>2, <3>1 DEF FrameTypes
    <3>4. PICK frame \in FrameTypes :
             /\ frame = filled
             /\ frame.group = Top.group /\ frame.children = listed
             /\ frame.needsCollection = Top.needsCollection
      BY <3>3
    <3> QED
      BY <1>3, <1>6, <2>1, <3>1, <3>2, <3>4
  <2>2. CASE Top.group \notin exists
    BY <1>6, <2>2 DEF ListChildren
  <2> QED
    BY <2>1, <2>2
<1> QED
  BY <1>4, <1>5, <1>6
-----------------------------------------------------------------------------
(* A frame that does not need collection is of a group that was found to     *)
(* have no processes, or has not been asked yet.                             *)
NeedInv ==
    \A i \in DOMAIN stack :
        /\ stack[i].group \in Totals \cup {Root} => stack[i].needsCollection
        /\ \/ stack[i].needsCollection
           \/ stack[i].group \notin loaded
           \/ i = Len(stack) /\ at = "procs"

(* The initial state has no frames.                                          *)
LEMMA InitNeedInv == Init => NeedInv
BY DEF Init, NeedInv

(* During a collection no group becomes one that has had processes all       *)
(* along.                                                                    *)
LEMMA LoadedShrinks == ASSUME WalkInv, [Next]_vars, ~Start PROVE loaded' \subseteq loaded
<1>1. CASE at' # "idle"
  BY <1>1, StepLearns DEF OnlyLearns
<1>2. CASE at' = "idle"
  <2>1. CASE Hierarchy
    BY <2>1, HierarchyChanges DEF Change
  <2>2. CASE HasProcessesRaces \/ FailToObserve \/ Finish
    BY <2>2 DEF HasProcessesRaces, FailToObserve, Finish, NoFailure, Failure,
                sinceVars
  <2>3. CASE UNCHANGED vars
    BY <2>3 DEF vars, historyVars, sinceVars
  <2> QED
    BY <1>2, <2>1, <2>2, <2>3 DEF Next, Walk, Observe, FailToClassify,
       HasProcesses, ListChildren, LeaveOut, Return, Collect, ListKids, ReadOwn,
       ReadKid, Reads, walkVars, OwnRaces, KidRaces, ParentRaces, GiveUp,
       FailToRead, Record, HasRead, FailToCalculate
<1> QED
  BY <1>1, <1>2

(* Every step keeps what frames without a need for collection say.           *)
LEMMA NextNeedInv == WalkInv /\ NeedInv /\ [Next]_vars => NeedInv'
<1> SUFFICES ASSUME WalkInv, NeedInv, [Next]_vars PROVE NeedInv'
  OBVIOUS
<1>1. CASE Start
  <2>1. stack' = <<Frame(Root, <<>>, TRUE)>>
    BY <1>1 DEF Start
  <2>2. DOMAIN stack' = {1} /\ stack'[1].needsCollection
    BY <2>1 DEF Frame
  <2> QED
    BY <2>2 DEF NeedInv
<1>2. ~Start => loaded' \subseteq loaded
  BY LoadedShrinks
<1>3. CASE Observe
  <2> DEFINE g == Head(Top.children)
  <2>1. /\ g \in Groups \ {Root} /\ at = "observe"
        /\ DOMAIN stack = 1..Len(stack) /\ Len(stack) \in Nat \ {0}
        /\ DOMAIN stack' = 1..(Len(stack) + 1)
        /\ \A i \in 1..(Len(stack) - 1) : stack'[i] = stack[i]
        /\ stack'[Len(stack)].group = Top.group
        /\ stack'[Len(stack)].needsCollection = Top.needsCollection
        /\ Top' = stack'[Len(stack) + 1] /\ Top'.group = g
        /\ IF g \in Totals THEN Top'.needsCollection ELSE at' = "procs"
    BY <1>3, ObserveFacts DEF Observe
  <2>2. Len(stack') = Len(stack) + 1 /\ Top = stack[Len(stack)]
    BY <1>3, ObserveWalkInv, <2>1 DEF WalkInv, TypeOK, Top, Last
  <2>3. loaded' \subseteq loaded
    BY <1>3, <1>2 DEF Observe, Start
  <2> HIDE DEF g
  <2>4. ASSUME NEW i \in DOMAIN stack', i \in 1..Len(stack)
        PROVE  /\ stack'[i].group \in Totals \cup {Root} => stack'[i].needsCollection
               /\ stack'[i].needsCollection \/ stack'[i].group \notin loaded'
    <3>1. /\ stack'[i].group = stack[i].group
          /\ stack'[i].needsCollection = stack[i].needsCollection
      BY <2>1, <2>2, <2>4
    <3> QED
      BY <2>1, <2>3, <2>4, <3>1 DEF NeedInv
  <2>5. ASSUME NEW i \in DOMAIN stack', i = Len(stack) + 1
        PROVE  /\ stack'[i].group \in Totals \cup {Root} => stack'[i].needsCollection
               /\ stack'[i].needsCollection \/ (i = Len(stack') /\ at' = "procs")
    BY <2>1, <2>2, <2>5
  <2>6. \A i \in DOMAIN stack' : i \in 1..Len(stack) \/ i = Len(stack) + 1
    BY <2>1
  <2> QED
    BY <2>4, <2>5, <2>6 DEF NeedInv
<1>4. CASE Return /\ stack # <<>> /\ ~Start
  <2>1. \A i \in DOMAIN stack' : /\ i \in DOMAIN stack /\ i # Len(stack)
                                 /\ stack'[i] = stack[i]
    BY <1>4, PopFacts
  <2> QED
    BY <1>2, <1>4, <2>1 DEF NeedInv
<1>5. CASE FailToClassify \/ HasProcesses \/ ListChildren
  <2>1. loaded' \subseteq loaded /\ stack # <<>> /\ loaded \subseteq busy
    BY <1>2, <1>5 DEF FailToClassify, HasProcesses, ListChildren, Start, WalkInv,
                      WalkTypes, FramesFit
  <2>2. CASE Return /\ ListChildren
    BY <1>4, <2>1, <2>2 DEF ListChildren, Start
  <2>3. CASE UNCHANGED stack /\ HasProcesses /\ Top.group \notin busy
    <3>1. Top = stack[Len(stack)]
      BY DEF Top, Last
    <3> QED
      BY <2>1, <2>3, <3>1 DEF NeedInv
  <2>4. CASE /\ DOMAIN stack' = DOMAIN stack /\ Len(stack') = Len(stack)
             /\ DOMAIN stack = 1..Len(stack) /\ Len(stack) \in Nat \ {0}
             /\ \A i \in 1..(Len(stack) - 1) : stack'[i] = stack[i]
             /\ Top' = stack'[Len(stack)] /\ Top'.group = Top.group
             /\ \/ Top'.needsCollection
                \/ at # "procs" /\ Top'.needsCollection = Top.needsCollection
    <3>1. Top = stack[Len(stack)]
      BY DEF Top, Last
    <3>2. \A i \in DOMAIN stack' : i \in 1..(Len(stack) - 1) \/ i = Len(stack)
      BY <2>4
    <3>3. PICK n \in Nat \ {0} : n = Len(stack) /\ DOMAIN stack = 1..n
      BY <2>4
    <3>4. \A i \in 1..(n - 1) : i \in 1..n /\ i # n
      OBVIOUS
    <3>5. \A i \in 1..(Len(stack) - 1) : i \in DOMAIN stack /\ i # Len(stack)
      BY <3>3, <3>4
    <3>6. \A i \in 1..(Len(stack) - 1) : stack'[i] = stack[i]
      BY <2>4
    <3> QED
      BY <2>1, <2>4, <3>1, <3>2, <3>5, <3>6 DEF NeedInv
  <2> QED
    BY <1>5, <2>2, <2>3, <2>4, ReplaceFacts
       DEF FailToClassify, ListChildren, HasProcesses
<1>6. CASE /\ ~Start /\ ~Observe /\ ~FailToClassify /\ ~HasProcesses
           /\ ~ListChildren
  <2>1. CASE /\ UNCHANGED stack
             /\ at \in {"procs", "list"} \/ at' \in {"procs", "list"} => at' = at
    BY <1>2, <1>6, <2>1 DEF NeedInv
  <2>2. CASE stack' = <<>>
    BY <2>2 DEF NeedInv
  <2> QED
    BY <1>4, <1>6, <2>1, <2>2, OtherMoves
<1> QED
  BY <1>1, <1>3, <1>5, <1>6
-----------------------------------------------------------------------------
(* Where the walk will come to a group: through a child it has listed, the   *)
(* frames it is in, or the children it has not listed yet.                   *)
IsListed(g) ==
    \E i \in DOMAIN stack : \E c \in ToSet(stack[i].children) : c \in Above[g]

IsOpen(g) == \E i \in DOMAIN stack : stack[i].group = g

IsAwaited(g) == at \in {"procs", "list"} /\ Top.group \in Above[g]

(* Every group that is still reached is settled, or the walk will come to    *)
(* it.                                                                       *)
CoverageInv ==
    at # "idle" => \A g \in Groups :
        IsReached(g) => IsListed(g) \/ IsOpen(g) \/ IsAwaited(g) \/ IsSettled(g)

(* A frame that is left has nothing more to list, so it is enough that its   *)
(* group, and what was still to be listed of it, is settled.                 *)
LEMMA PopCovers ==
    ASSUME WalkInv, CoverageInv, stack # <<>>, Return, Top.children = <<>>,
           OnlyLearns, at # "idle",
           \A g \in Groups : IsReached(g)' /\ (g = Top.group \/ IsAwaited(g))
                             => IsSettled(g)'
    PROVE  CoverageInv'
<1> SUFFICES ASSUME NEW g \in Groups, IsReached(g)'
             PROVE  IsListed(g)' \/ IsOpen(g)' \/ IsSettled(g)'
  BY DEF CoverageInv
<1>1. /\ Top = stack[Len(stack)]
      /\ \A i \in DOMAIN stack : i = Len(stack) \/ i \in DOMAIN stack'
      /\ \A i \in DOMAIN stack' : stack'[i] = stack[i]
  BY PopFacts, TopFacts
<1>2. CASE IsListed(g)
  <2>1. PICK i \in DOMAIN stack :
           \E c \in ToSet(stack[i].children) : c \in Above[g]
    BY <1>2 DEF IsListed
  <2>2. i # Len(stack)
    BY <1>1, <2>1 DEF ToSet
  <2> QED
    BY <1>1, <2>1, <2>2 DEF IsListed
<1>3. CASE IsOpen(g)
  BY <1>1, <1>3 DEF IsOpen
<1>4. CASE IsAwaited(g)
  BY <1>4
<1>5. CASE IsSettled(g)
  BY <1>5, LessIsDue
<1> QED
  BY <1>2, <1>3, <1>4, <1>5, LessIsDue DEF CoverageInv

(* A group that is gone, and what is below it, is not reached.               *)
LEMMA GoneIsNotReached ==
    ASSUME WalkInv, NEW a \in Groups, a \notin exists,
           NEW g \in Groups, a \in Above[g]
    PROVE  ~IsReached(g)
BY ReachedAbove DEF IsPassedDownTo, WalkInv, WalkTypes

(* A step that leaves the frames alone leaves the walk where it was.         *)
LEMMA StayCovers ==
    ASSUME CoverageInv, OnlyLearns, at # "idle", UNCHANGED stack,
           at \in {"procs", "list"} => at' \in {"procs", "list"}
    PROVE  CoverageInv'
<1> SUFFICES ASSUME NEW g \in Groups, IsReached(g)'
             PROVE  IsListed(g)' \/ IsOpen(g)' \/ IsAwaited(g)' \/ IsSettled(g)'
  BY DEF CoverageInv
<1>1. /\ IsListed(g) => IsListed(g)'
      /\ IsOpen(g) => IsOpen(g)'
      /\ IsAwaited(g) => IsAwaited(g)'
  BY DEF IsListed, IsOpen, IsAwaited, Top
<1> QED
  BY <1>1, LessIsDue DEF CoverageInv

(* The walk that starts at the root will come to every group.                *)
LEMMA StartCovers == ASSUME Start PROVE CoverageInv'
<1>1. at' = "list" /\ stack' = <<Frame(Root, <<>>, TRUE)>>
  BY DEF Start
<1>2. Top'.group = Root
  BY <1>1 DEF Top, Last, Frame
<1> QED
  BY <1>1, <1>2, TreeAssumption DEF CoverageInv, IsAwaited

(* The child the walk comes to is taken from the list and opened.            *)
LEMMA ObserveCovers ==
    ASSUME WalkInv, CoverageInv, Observe, OnlyLearns PROVE CoverageInv'
<1> DEFINE c == Head(Top.children)
<1>1. /\ c \in Groups \ {Root} /\ Parent[c] = Top.group /\ at = "observe"
      /\ DOMAIN stack = 1..Len(stack) /\ Len(stack) \in Nat \ {0}
      /\ DOMAIN stack' = 1..(Len(stack) + 1)
      /\ \A i \in 1..(Len(stack) - 1) : stack'[i] = stack[i]
      /\ stack'[Len(stack)].group = Top.group
      /\ stack'[Len(stack)].children = Tail(Top.children)
      /\ ToSet(Top.children) = {c} \cup ToSet(Tail(Top.children))
      /\ Top' = stack'[Len(stack) + 1] /\ Top'.group = c
      /\ IF c \in Totals THEN Top'.children = Excluding[c] ELSE at' = "procs"
  BY ObserveFacts DEF Observe
<1>2. Top = stack[Len(stack)]
  BY DEF Top, Last
<1> HIDE DEF c
<1>3. \A i \in DOMAIN stack : /\ i \in DOMAIN stack'
                              /\ stack'[i].group = stack[i].group
                              /\ \/ stack'[i].children = stack[i].children
                                 \/ i = Len(stack)
  <2>1. PICK n \in Nat \ {0} : n = Len(stack)
    BY <1>1
  <2>2. \A i \in 1..n : i \in 1..(n + 1) /\ (i = n \/ i \in 1..(n - 1))
    OBVIOUS
  <2> QED
    BY <1>1, <1>2, <2>1, <2>2
<1>4. Len(stack) + 1 \in DOMAIN stack' /\ Len(stack) \in DOMAIN stack'
  BY <1>1
<1> SUFFICES ASSUME NEW g \in Groups, IsReached(g)'
             PROVE  IsListed(g)' \/ IsOpen(g)' \/ IsAwaited(g)' \/ IsSettled(g)'
  BY DEF CoverageInv
<1>5. IsReached(g)
  BY LessIsDue
<1>6. CASE c \in Above[g]
  <2>1. CASE c \notin Totals
    BY <1>1, <1>6, <2>1 DEF IsAwaited
  <2>2. CASE c = g
    BY <1>1, <1>4, <2>2 DEF IsOpen
  <2>3. CASE c \in Totals /\ c # g
    <3>1. PICK d \in Above[g] \ {Root} : Parent[d] = c /\ IsPassedDownTo(d)
      BY <1>5, <1>6, <2>3, ReachedAbove
    <3>2. d \in ToSet(Excluding[c])
      BY <1>1, <2>3, <3>1 DEF IsPassedDownTo
    <3> QED
      BY <1>1, <1>4, <2>3, <3>1, <3>2 DEF IsListed
  <2> QED
    BY <2>1, <2>2, <2>3
<1>7. CASE c \notin Above[g]
  <2>1. CASE IsListed(g)
    <3>1. PICK i \in DOMAIN stack :
             \E b \in ToSet(stack[i].children) : b \in Above[g]
      BY <2>1 DEF IsListed
    <3>2. PICK b \in ToSet(stack[i].children) : b \in Above[g]
      BY <3>1
    <3>3. b \in ToSet(stack'[i].children)
      BY <1>1, <1>2, <1>3, <1>7, <3>2
    <3> QED
      BY <1>3, <3>2, <3>3 DEF IsListed
  <2>2. CASE IsOpen(g)
    BY <1>3, <2>2 DEF IsOpen
  <2>3. CASE IsAwaited(g)
    BY <1>1, <2>3 DEF IsAwaited
  <2>4. CASE IsSettled(g)
    BY <2>4, LessIsDue
  <2> QED
    BY <1>1, <1>5, <2>1, <2>2, <2>3, <2>4 DEF CoverageInv
<1> QED
  BY <1>6, <1>7

(* A list that gets shorter loses a group that is not reached, one that is   *)
(* listed names all the children that are reached, and a group with          *)
(* processes has no children that are.                                       *)
LEMMA ReplaceCovers ==
    ASSUME WalkInv, CoverageInv, FailToClassify \/ HasProcesses \/ ListChildren,
           OnlyLearns
    PROVE  CoverageInv'
<1>1. at # "idle" /\ stack # <<>>
  BY DEF FailToClassify, HasProcesses, ListChildren, WalkInv, FramesFit
<1>2. CASE Return /\ ListChildren /\ Top.group \notin exists
  <2>1. Top.group \in Groups /\ Top.children = <<>>
    BY <1>1, <1>2, TopFacts DEF ListChildren, WalkInv, FramesFit
  <2>2. ASSUME NEW g \in Groups, IsReached(g)', g = Top.group \/ IsAwaited(g)
        PROVE  FALSE
    <3>1. Top.group \in Above[g]
      BY <2>2, AboveFacts DEF IsAwaited
    <3> QED
      BY <1>2, <2>1, <2>2, <3>1, GoneIsNotReached, LessIsDue
  <2> QED
    BY <1>1, <1>2, <2>1, <2>2, PopCovers
<1>3. CASE UNCHANGED stack /\ at' = "list"
  BY <1>1, <1>3, StayCovers
<1>4. CASE /\ DOMAIN stack' = DOMAIN stack /\ Len(stack') = Len(stack)
           /\ DOMAIN stack = 1..Len(stack) /\ Len(stack) \in Nat \ {0}
           /\ \A i \in 1..(Len(stack) - 1) : stack'[i] = stack[i]
           /\ Top' = stack'[Len(stack)] /\ Top'.group = Top.group
           /\ \/ /\ FailToClassify
                 /\ Top'.children = Tail(Top.children)
              \/ /\ HasProcesses /\ Top.group \in busy
                 /\ Top'.children = Top.children
              \/ /\ ListChildren
                 /\ ToSet(Top'.children) = ChildrenOf(Top.group) \cap exists
  <2>1. Top = stack[Len(stack)]
    BY DEF Top, Last
  <2>2. \A i \in DOMAIN stack : /\ i \in DOMAIN stack'
                                /\ stack'[i].group = stack[i].group
                                /\ stack'[i] = stack[i] \/ i = Len(stack)
    <3>1. PICK n \in Nat \ {0} : n = Len(stack)
      BY <1>4
    <3>2. \A i \in 1..n : i = n \/ i \in 1..(n - 1)
      OBVIOUS
    <3> QED
      BY <1>4, <2>1, <3>1, <3>2
  <2>3. Len(stack) \in DOMAIN stack'
    BY <1>4
  <2> SUFFICES ASSUME NEW g \in Groups, IsReached(g)'
               PROVE  IsListed(g)' \/ IsOpen(g)' \/ IsSettled(g)'
    BY DEF CoverageInv
  <2>4. IsReached(g)
    BY LessIsDue
  <2>5. CASE IsListed(g)
    <3>1. PICK i \in DOMAIN stack :
             \E c \in ToSet(stack[i].children) : c \in Above[g]
      BY <2>5 DEF IsListed
    <3>2. PICK c \in ToSet(stack[i].children) : c \in Above[g]
      BY <3>1
    <3>3. CASE stack'[i] = stack[i]
      BY <2>2, <3>2, <3>3 DEF IsListed
    <3>4. CASE i = Len(stack) /\ FailToClassify
      <4>1. /\ Top.children # <<>>
            /\ unresolved' = unresolved \cup {Head(Top.children)}
        BY <3>4 DEF FailToClassify
      <4>2. /\ Head(Top.children) # Root
            /\ ToSet(Top.children) =
                 {Head(Top.children)} \cup ToSet(Tail(Top.children))
        BY <1>1, <4>1, NextChildFacts
      <4>3. c # Head(Top.children)
        BY <3>2, <4>1, <4>2 DEF IsReached, IsPassedDownTo
      <4>4. c \in ToSet(Top'.children)
        BY <1>4, <2>1, <3>2, <3>4, <4>2, <4>3 DEF ListChildren, FailToClassify,
           HasProcesses
      <4> QED
        BY <1>4, <2>3, <3>2, <4>4 DEF IsListed
    <3>5. CASE i = Len(stack) /\ HasProcesses
      BY <1>4, <2>1, <2>3, <3>2, <3>5 DEF IsListed, HasProcesses, FailToClassify,
         ListChildren
    <3>6. CASE i = Len(stack) /\ ListChildren
      BY <2>1, <3>2, <3>6 DEF ListChildren, WalkInv, FramesFit, ToSet
    <3> QED
      BY <1>4, <2>2, <3>3, <3>4, <3>5, <3>6
  <2>6. CASE IsOpen(g)
    BY <2>2, <2>6 DEF IsOpen
  <2>7. CASE IsAwaited(g)
    <3>1. CASE Top.group = g
      BY <1>4, <2>3, <3>1 DEF IsOpen
    <3>2. CASE Top.group # g
      <4>1. PICK d \in Above[g] \ {Root} :
               d \in Groups /\ Parent[d] = Top.group /\ IsPassedDownTo(d)
        BY <2>4, <2>7, <3>2, ReachedAbove DEF IsAwaited
      <4>2. CASE HasProcesses /\ Top.group \in busy
        <5>1. Top.group # Root /\ Top.group \notin Totals
          BY <4>2 DEF HasProcesses, WalkInv, FramesFit
        <5> QED
          BY <4>1, <4>2, <5>1 DEF IsPassedDownTo, WalkInv, WalkTypes
      <4>3. CASE ListChildren
        <5>1. ToSet(Top'.children) = ChildrenOf(Top.group) \cap exists
          BY <1>4, <4>3 DEF ListChildren, FailToClassify, HasProcesses
        <5>2. d \in ToSet(Top'.children)
          BY <4>1, <5>1 DEF IsPassedDownTo, WalkInv, WalkTypes, ChildrenOf
        <5> QED
          BY <1>4, <2>3, <4>1, <5>2 DEF IsListed
      <4>4. CASE FailToClassify
        BY <2>7, <4>4 DEF FailToClassify, IsAwaited
      <4> QED
        BY <1>4, <4>2, <4>3, <4>4
    <3> QED
      BY <3>1, <3>2
  <2>8. CASE IsSettled(g)
    BY <2>8, LessIsDue
  <2> QED
    BY <1>1, <2>4, <2>5, <2>6, <2>7, <2>8 DEF CoverageInv
<1> QED
  BY <1>2, <1>3, <1>4, ReplaceFacts

(* The other steps leave a frame when it is settled, or leave the frames     *)
(* alone.                                                                    *)
LEMMA OtherCovers ==
    ASSUME WalkInv, NeedInv, CoverageInv, [Next]_vars, at' # "idle",
           ~Start, ~Observe, ~FailToClassify, ~HasProcesses, ~ListChildren
    PROVE  CoverageInv'
<1>1. OnlyLearns
  BY StepLearns
<1>2. CASE Hierarchy \/ UNCHANGED vars
  <2>1. UNCHANGED <<stack, at>>
    BY <1>2, HierarchyChanges DEF vars, walkVars, Change, CollectorVars
  <2> QED
    BY <1>1, <2>1, StayCovers
<1>3. CASE Walk
  <2>1. at # "idle"
    BY <1>3 DEF Walk, HasProcessesRaces, FailToObserve, LeaveOut, Decided,
       Collect, ListKids, ReadOwn, ReadKid, Reads, OwnRaces, KidRaces,
       ParentRaces, FailToRead, Record, HasRead, FailToCalculate, Finish, HasEnded
  <2>2. CASE /\ UNCHANGED stack
             /\ at \in {"procs", "list"} \/ at' \in {"procs", "list"} => at' = at
    BY <1>1, <2>1, <2>2, StayCovers
  <2>3. CASE stack # <<>> /\ Return /\ IsReading
    <3>1. /\ Top.children = <<>> /\ IsTaken(Top.group)
          /\ services[Service[Top.group]] = Top.group /\ Top.group \in Groups
      BY <2>3, TopFacts DEF WalkInv, FramesFit
    <3>2. PICK top \in Groups : top = Top.group
      BY <3>1
    <3>3. \A g \in Groups : ~IsAwaited(g)
      BY <2>3 DEF IsAwaited, IsReading
    <3>4. IsSettled(top)'
      BY <1>1, <3>1, <3>2, LessIsDue DEF IsSettled
    <3> QED
      BY <1>1, <2>1, <2>3, <3>1, <3>2, <3>3, <3>4, PopCovers
  <2>4. CASE stack # <<>> /\ Return /\ HasProcessesRaces
    <3>1. Top.group \in Groups /\ Top.group \notin exists /\ Top.children = <<>>
      BY <2>4, TopFacts DEF HasProcessesRaces, WalkInv, FramesFit
    <3>2. ASSUME NEW g \in Groups, IsReached(g)', g = Top.group \/ IsAwaited(g)
          PROVE  FALSE
      <4>1. Top.group \in Above[g]
        BY <3>2, AboveFacts DEF IsAwaited
      <4> QED
        BY <1>1, <3>1, <3>2, <4>1, GoneIsNotReached, LessIsDue
    <3> QED
      BY <1>1, <2>1, <2>4, <3>1, <3>2, PopCovers
  <2>5. CASE stack # <<>> /\ Return /\ LeaveOut
    <3>1. /\ Top.group \in Groups /\ Top.children = <<>> /\ at = "observe"
          /\ Top = stack[Len(stack)] /\ Len(stack) \in DOMAIN stack
      BY <2>5, TopFacts DEF LeaveOut, Decided
    <3>2. PICK top \in Groups : top = Top.group
      BY <3>1
    <3>3. IsSettled(top)'
      <4>1. CASE Top.needsCollection /\ Service[top] = Unclassified
        BY <4>1 DEF IsSettled, IsDue
      <4>2. CASE Top.needsCollection /\ IsTaken(top)
        <5>1. top \in complaints'
          BY <2>5, <3>2, <4>2 DEF LeaveOut, Complain
        <5> QED
          BY <1>1, <4>2, <5>1 DEF IsSettled, OnlyLearns, IsTaken
      <4>3. CASE ~Top.needsCollection
        <5>1. top \notin Totals \cup {Root} /\ top \notin loaded
          BY <3>1, <3>2, <4>3 DEF NeedInv
        <5> QED
          BY <1>1, <5>1 DEF IsSettled, IsDue, OnlyLearns
      <4> QED
        BY <2>5, <3>2, <4>1, <4>2, <4>3 DEF LeaveOut
    <3>4. \A g \in Groups : ~IsAwaited(g)
      BY <3>1 DEF IsAwaited
    <3> QED
      BY <1>1, <2>1, <2>5, <3>1, <3>2, <3>3, <3>4, PopCovers
  <2>6. CASE at \in {"observe", "procs", "list"}
    <3>1. \/ HasProcessesRaces \/ FailToObserve \/ LeaveOut \/ Collect
          \/ Finish
      BY <1>3, <2>6 DEF Walk, ListKids, ReadOwn, ReadKid, Reads, OwnRaces,
         KidRaces, ParentRaces, FailToRead, Record, HasRead, FailToCalculate
    <3>2. CASE FailToObserve \/ Finish
      BY <3>2 DEF FailToObserve, AbortWalk, Finish
    <3>3. CASE Collect
      BY <2>2, <3>3 DEF Collect, Decided
    <3>4. CASE stack # <<>> /\ Return
      BY <2>4, <2>5, <3>1, <3>2, <3>3, <3>4
    <3> QED
      BY <2>2, <3>1, <3>2, <3>3, <3>4, OtherMoves
  <2> QED
    BY <2>1, <2>2, <2>3, <2>6, OtherMoves DEF IsReading, WalkInv, TypeOK
<1> QED
  BY <1>2, <1>3 DEF Next

(* Every step keeps the walk on its way to what is due.                      *)
LEMMA NextCoverageInv ==
    WalkInv /\ NeedInv /\ CoverageInv /\ [Next]_vars => CoverageInv'
<1> SUFFICES ASSUME WalkInv, NeedInv, CoverageInv, [Next]_vars, at' # "idle"
             PROVE  CoverageInv'
  BY DEF CoverageInv
<1>1. CASE Start
  BY <1>1, StartCovers
<1>2. CASE ~Start
  <2>1. OnlyLearns
    BY <1>2, StepLearns
  <2> QED
    BY <1>2, <2>1, ObserveCovers, ReplaceCovers, OtherCovers
<1> QED
  BY <1>1, <1>2

(* Between collections nothing is due.                                       *)
LEMMA InitCoverageInv == Init => CoverageInv
BY DEF Init, CoverageInv

(* At the end nothing is listed, open or awaited, so everything is settled.  *)
LEMMA EndIsSettled ==
    ASSUME CoverageInv, HasEnded PROVE DueGroupsAreCollected
BY DEF CoverageInv, HasEnded, DueGroupsAreCollected, IsListed, IsOpen, IsAwaited,
       IsSettled, IsDue

(* A collection that finishes has collected, or complained about, every      *)
(* group that was there with its processes all along under parents without   *)
(* any (collector.go:92-141).                                                *)
THEOREM WhatIsDueIsCollected == Spec => []DueGroupsAreCollected
<1>1. Init => WalkInv /\ NeedInv /\ CoverageInv
  BY InitWalkInv, InitNeedInv, InitCoverageInv
<1>2. WalkInv /\ NeedInv /\ CoverageInv /\ [Next]_vars
      => (WalkInv /\ NeedInv /\ CoverageInv)'
  BY NextWalkInv, NextNeedInv, NextCoverageInv
<1>3. CoverageInv => DueGroupsAreCollected
  BY EndIsSettled DEF DueGroupsAreCollected
<1> QED
  BY <1>1, <1>2, <1>3, PTL DEF Spec
-----------------------------------------------------------------------------
(* A group whose cpu usage is missing without an error has raced in this     *)
(* collection, and not too often.                                            *)
IsSilenced(g) == g \in current /\ active[g] <= MaxRetries

(* cpu is reading the group.                                                 *)
IsBeingRead(g) == IsReading /\ Top.group = g /\ todo = Collectors

(* 1 while a race of the current collection is not counted as a silent       *)
(* collection.                                                               *)
InHand(g) == IF at # "idle" /\ g \in current THEN 1 ELSE 0

(* Every silent collection in a row is one race in a row.                    *)
SilenceIsCounted ==
    \A g \in Groups :
        silent[g] <= MaxRetries /\ silent[g] + InHand(g) <= active[g]

(* The cpu usage of a group that has been taken is sent, is complained       *)
(* about, is silenced by the race controller or is being read.               *)
CpuIsAccountedFor ==
    at # "idle" => \A g \in Groups :
        IsTaken(g) /\ services[Service[g]] = g =>
            \/ HasSample("cpu", g) \/ g \in complaints
            \/ IsSilenced(g) \/ IsBeingRead(g)

(* The initial state has no silent collections.                              *)
LEMMA InitSilence == Init => SilenceIsCounted /\ CpuIsAccountedFor
<1> SUFFICES ASSUME Init PROVE SilenceIsCounted /\ CpuIsAccountedFor
  OBVIOUS
<1>1. \A g \in Groups : silent[g] = 0 /\ active[g] = 0 /\ InHand(g) = 0
  BY DEF Init, NewRaceController, InHand
<1> QED
  BY <1>1, RaceAssumption DEF Init, SilenceIsCounted, CpuIsAccountedFor

(* A check counts a group at most once in a collection.                      *)
CountsGrow ==
    /\ current \subseteq current'
    /\ \A h \in Groups :
          active'[h] = IF h \in current' \ current THEN active[h] + 1
                       ELSE active[h]

(* A check that is forgiven silences the group.                              *)
LEMMA CheckCounts ==
    ASSUME RaceTypeOK, NEW g \in Groups, Check(g)
    PROVE  CountsGrow /\ (~IsReported(g) => IsSilenced(g)')
<1>1. /\ current' = current \cup {g}
      /\ active' = [active EXCEPT ![g] = Races(g)]
      /\ active \in [Groups -> Nat]
  BY DEF Check, Counted, RaceTypeOK, RacedGroups
<1>2. active'[g] = Races(g) /\ (\A h \in Groups : h # g => active'[h] = active[h])
  BY <1>1
<1>3. CountsGrow
  BY <1>1, <1>2 DEF CountsGrow, Races
<1>4. ASSUME ~IsReported(g) PROVE g \in current' /\ active'[g] <= MaxRetries
  <2>1. ~(Races(g) > MaxRetries)
    BY <1>4 DEF IsReported
  <2>2. Races(g) \in Nat /\ MaxRetries \in Nat
    BY <1>1, RaceAssumption DEF Races
  <2> QED
    BY <1>1, <1>2, <2>1, <2>2
<1> QED
  BY <1>3, <1>4 DEF IsSilenced

(* A step without a check leaves the counts alone.                           *)
LEMMA SameCounts ==
    ASSUME RaceTypeOK, UNCHANGED raceVars PROVE CountsGrow
BY DEF raceVars, CountsGrow

(* Every step inside a collection is of that kind.                           *)
LEMMA StepCounts ==
    ASSUME WalkInv, [Next]_vars, ~Start, ~Finish
    PROVE  CountsGrow /\ (silent' = silent \/ silent' = [g \in Groups |-> 0])
<1>1. RaceTypeOK
  BY DEF WalkInv, TypeOK
<1> USE DEF AbortWalk
<1>2. CASE HasProcessesRaces \/ OwnRaces \/ ParentRaces
  <2>1. Check(Top.group) /\ stack # <<>>
    BY <1>2 DEF HasProcessesRaces, OwnRaces, ParentRaces, Reads, WalkInv,
       FramesFit
  <2>2. Top.group \in Groups
    BY <2>1, TopFacts
  <2> QED
    BY <1>1, <1>2, <2>1, <2>2, CheckCounts
       DEF HasProcessesRaces, OwnRaces, ParentRaces, GiveUp
<1>3. CASE KidRaces
  <2>1. Check(Head(kids)) /\ kids # <<>>
    BY <1>3 DEF KidRaces
  <2>2. Head(kids) \in Groups
    BY <2>1, ListFacts DEF WalkInv, WalkTypes
  <2> QED
    BY <1>1, <1>3, <2>1, <2>2, CheckCounts DEF KidRaces, GiveUp
<1>4. CASE Hierarchy
  BY <1>1, <1>4, SameCounts, HierarchyChanges DEF Change, CollectorVars
<1>5. CASE Observe \/ FailToClassify \/ HasProcesses \/ ListChildren
  BY <1>1, <1>5, SameCounts DEF Observe, FailToClassify, HasProcesses,
     ListChildren
<1>6. CASE FailToObserve \/ LeaveOut \/ Collect \/ ListKids \/ ReadOwn \/ ReadKid
  BY <1>1, <1>6, SameCounts DEF FailToObserve, LeaveOut, Collect, ListKids,
     ReadOwn, ReadKid
<1>7. CASE FailToRead \/ Record \/ FailToCalculate
  BY <1>1, <1>7, SameCounts DEF FailToRead, GiveUp, Record, FailToCalculate
<1>8. CASE UNCHANGED vars
  BY <1>1, <1>8, SameCounts DEF vars, historyVars
<1> QED
  BY <1>2, <1>3, <1>4, <1>5, <1>6, <1>7, <1>8 DEF Next, Walk

(* A group stays silenced until the collection ends: it is counted once.     *)
LEMMA SilencedStays ==
    ASSUME CountsGrow, NEW g \in Groups, IsSilenced(g) PROVE IsSilenced(g)'
BY DEF CountsGrow, IsSilenced

(* Every step keeps the silent collections within the counted races; the end *)
(* of a collection adds one to both, as the group has been silenced.         *)
LEMMA NextSilenceIsCounted ==
    WalkInv /\ CoverageInv /\ SilenceIsCounted /\ CpuIsAccountedFor /\ [Next]_vars
    => SilenceIsCounted'
<1> SUFFICES ASSUME WalkInv, CoverageInv, SilenceIsCounted, CpuIsAccountedFor,
                    [Next]_vars, NEW g \in Groups
             PROVE  /\ silent'[g] <= MaxRetries
                    /\ silent'[g] + InHand(g)' <= active'[g]
  BY DEF SilenceIsCounted
<1>1. /\ silent[g] \in Nat /\ active[g] \in Nat /\ MaxRetries \in Nat
      /\ silent[g] <= MaxRetries /\ silent[g] + InHand(g) <= active[g]
      /\ InHand(g) \in {0, 1}
  BY RaceAssumption DEF WalkInv, TypeOK, RaceTypeOK, RacedGroups, SilenceIsCounted, InHand
<1>2. CASE Start
  <2>1. /\ silent' = silent /\ active' = active /\ current' = {}
    BY <1>2 DEF Start, OnCollectionStarted
  <2>2. InHand(g)' = 0
    BY <2>1 DEF InHand
  <2> QED
    BY <1>1, <2>1, <2>2
<1>3. CASE Finish
  <2>1. /\ at' = "idle" /\ HasEnded
        /\ active' = [h \in Groups |-> IF h \in current THEN active[h] ELSE 0]
        /\ silent' = [h \in Groups |->
                         IF IsDue(h) /\ h \notin complaints /\ ~HasSample("cpu", h)
                         THEN silent[h] + 1 ELSE 0]
    BY <1>3 DEF Finish, OnCollectionFinished
  <2>2. InHand(g)' = 0
    BY <2>1 DEF InHand
  <2>3. CASE IsDue(g) /\ g \notin complaints /\ ~HasSample("cpu", g)
    <3>1. IsTaken(g) /\ services[Service[g]] = g
      BY <2>1, <2>3, EndIsSettled DEF DueGroupsAreCollected
    <3>2. at = "observe" /\ ~IsReading
      BY <2>1 DEF HasEnded, IsReading
    <3>3. g \in current /\ active[g] <= MaxRetries
      BY <2>3, <3>1, <3>2 DEF CpuIsAccountedFor, IsSilenced, IsBeingRead
    <3>4. InHand(g) = 1
      BY <3>2, <3>3 DEF InHand
    <3>5. silent'[g] = silent[g] + 1 /\ active'[g] = active[g]
      BY <2>1, <2>3, <3>3
    <3> QED
      BY <1>1, <2>2, <3>3, <3>4, <3>5
  <2>4. CASE ~(IsDue(g) /\ g \notin complaints /\ ~HasSample("cpu", g))
    <3>1. silent'[g] = 0 /\ active'[g] \in Nat
      BY <1>1, <2>1, <2>4
    <3> QED
      BY <1>1, <2>2, <3>1
  <2> QED
    BY <2>3, <2>4
<1>4. CASE ~Start /\ ~Finish
  <2>1. CountsGrow /\ (silent'[g] = silent[g] \/ silent'[g] = 0)
    BY <1>4, StepCounts
  <2>2. at' # "idle" => at # "idle"
    BY <1>4, OtherSteps DEF Collect, Decided, Record, HasRead, FailToCalculate
  <2>3. CASE g \in current' \ current
    <3>1. active'[g] = active[g] + 1 /\ InHand(g) = 0 /\ InHand(g)' \in {0, 1}
      BY <2>1, <2>3 DEF CountsGrow, InHand
    <3> QED
      BY <1>1, <2>1, <3>1
  <2>4. CASE g \notin current' \ current
    <3>1. active'[g] = active[g]
      BY <2>1, <2>4 DEF CountsGrow
    <3>2. InHand(g)' \in {0, 1} /\ (InHand(g)' = 1 => InHand(g) = 1)
      BY <2>2, <2>4 DEF InHand
    <3> QED
      BY <1>1, <2>1, <3>1, <3>2
  <2> QED
    BY <2>3, <2>4
<1> QED
  BY <1>2, <1>3, <1>4

(* What is said of the cpu usage of a group stays so, unless the step is one *)
(* about the group that is being read.                                       *)
IsAccountedFor(g) ==
    HasSample("cpu", g) \/ g \in complaints \/ IsSilenced(g)

(* What is accounted for stays so.                                           *)
LEMMA AccountedStays ==
    ASSUME WalkInv, OnlyLearns, CountsGrow,
           samples' = samples \/ \E e \in Samples : samples' = Append(samples, e),
           NEW g \in Groups, IsAccountedFor(g)
    PROVE  IsAccountedFor(g)'
<1>1. samples \in Seq(Samples)
  BY DEF WalkInv, WalkTypes
<1>2. \A i \in DOMAIN samples : i \in DOMAIN samples' /\ samples'[i] = samples[i]
  <2>1. CASE samples' = samples
    BY <2>1
  <2>2. CASE \E e \in Samples : samples' = Append(samples, e)
    BY <1>1, <2>2
  <2> QED
    BY <2>1, <2>2
<1>3. HasSample("cpu", g) => HasSample("cpu", g)'
  BY <1>2 DEF HasSample, ToSet
<1> QED
  BY <1>3, SilencedStays DEF IsAccountedFor, OnlyLearns

(* Every step keeps the cpu usages accounted for: what is read is sent, or   *)
(* given up with an error or a race.                                         *)
LEMMA NextCpuIsAccountedFor ==
    WalkInv /\ CpuIsAccountedFor /\ [Next]_vars => CpuIsAccountedFor'
<1> SUFFICES ASSUME WalkInv, CpuIsAccountedFor, [Next]_vars, at' # "idle",
                    NEW g \in Groups, IsTaken(g)', services'[Service[g]] = g
             PROVE  IsAccountedFor(g)' \/ IsBeingRead(g)'
  BY DEF CpuIsAccountedFor, IsAccountedFor
<1>1. CASE Start
  BY <1>1 DEF Start, IsTaken
<1>2. CASE ~Start
  <2>1. OnlyLearns /\ CountsGrow
    BY <1>2, StepLearns, StepCounts DEF Finish
  <2>2. samples' = samples \/ \E e \in Samples : samples' = Append(samples, e)
    <3>1. CASE Record
      <4>1. /\ at = "read" /\ todo \in CollectorsLeft /\ todo # <<>>
            /\ stack # <<>>
        BY <3>1 DEF Record, HasRead, WalkInv, WalkTypes, FramesFit, IsReading
      <4>2. <<Head(todo), Service[Top.group]>> \in Samples
        BY <4>1, TopFacts, TodoParts DEF Samples
      <4> QED
        BY <3>1, <4>2 DEF Record
    <3>2. CASE Collect \/ FailToCalculate \/ Finish
      BY <3>2 DEF Collect, FailToCalculate, Finish, outputVars
    <3> QED
      BY <1>2, <3>1, <3>2, OtherSteps
  <2>3. IsAccountedFor(g) => IsAccountedFor(g)'
    BY <2>1, <2>2, AccountedStays
  <2>4. CASE Collect
    <3>1. /\ services' = [s \in DOMAIN services \cup {Service[Top.group]} |->
                             IF s = Service[Top.group] THEN Top.group
                             ELSE services[s]]
          /\ at = "observe" /\ at' = "read" /\ todo' = Collectors
          /\ UNCHANGED stack
      BY <2>4 DEF Collect, Decided, Begin
    <3>2. CASE g = Top.group
      BY <3>1, <3>2 DEF IsBeingRead, IsReading, Top
    <3>3. CASE g # Top.group
      <4>1. IsTaken(g) /\ services[Service[g]] = g
        BY <3>1, <3>3 DEF IsTaken
      <4> QED
        BY <2>3, <3>1, <4>1
           DEF CpuIsAccountedFor, IsAccountedFor, IsBeingRead, IsReading
    <3> QED
      BY <3>2, <3>3
  <2>5. CASE ~Collect
    <3>1. at # "idle" /\ services' = services
      BY <1>2, <2>5, OtherSteps
         DEF Record, HasRead, FailToCalculate, Finish, walkVars, Return
    <3>2. IsAccountedFor(g) \/ IsBeingRead(g)
      BY <3>1 DEF CpuIsAccountedFor, IsAccountedFor, IsTaken
    <3>3. CASE IsBeingRead(g)
      <4>1. /\ IsReading /\ g = Top.group /\ todo = Collectors /\ stack # <<>>
        BY <3>3 DEF IsBeingRead, WalkInv, FramesFit, IsReading
      <4>2. RaceTypeOK
        BY DEF WalkInv, TypeOK
      <4>3. CASE Hierarchy \/ UNCHANGED vars
        <5>1. UNCHANGED <<stack, at, todo>>
          BY <4>3, HierarchyChanges DEF vars, walkVars, readVars, Change,
             CollectorVars
        <5> QED
          BY <3>3, <5>1 DEF IsBeingRead, IsReading, Top
      <4>4. CASE ListKids \/ ReadOwn \/ ReadKid
        <5>1. UNCHANGED <<stack, at, todo>>
          BY <4>4 DEF ListKids, ReadOwn, ReadKid, walkVars
        <5> QED
          BY <3>3, <5>1 DEF IsBeingRead, IsReading, Top
      <4>5. CASE OwnRaces \/ ParentRaces
        <5>1. Check(g) /\ GiveUp(IsReported(g))
          BY <4>1, <4>5 DEF OwnRaces, ParentRaces
        <5>2. CASE IsReported(g)
          BY <4>1, <5>1, <5>2 DEF GiveUp, Complain, IsAccountedFor
        <5>3. CASE ~IsReported(g)
          BY <4>2, <5>1, <5>3, CheckCounts DEF IsAccountedFor
        <5> QED
          BY <5>2, <5>3
      <4>6. CASE KidRaces
        <5>1. CASE GiveUp(TRUE)
          BY <4>1, <5>1 DEF GiveUp, Complain, IsAccountedFor
        <5>2. CASE at' = "recheck" /\ UNCHANGED <<stack, todo>>
          BY <4>1, <5>2 DEF IsBeingRead, IsReading, Top
        <5> QED
          BY <4>6, <5>1, <5>2 DEF KidRaces, readVars
      <4>7. CASE FailToRead \/ FailToCalculate
        BY <4>1, <4>7 DEF FailToRead, GiveUp, FailToCalculate, Complain,
           IsAccountedFor
      <4>8. CASE Record
        <5>1. Head(todo) = "cpu" /\ ~OnlyStartsState("cpu", TRUE)
              /\ ~OnlyStartsState("cpu", FALSE)
          BY <4>1 DEF Collectors, OnlyStartsState
        <5>2. samples' = Append(samples, <<"cpu", Service[g]>>)
          BY <4>1, <4>8, <5>1 DEF Record, OnlyStartsState
        <5>3. samples \in Seq(Samples) /\ <<"cpu", Service[g]>> \in Samples
          BY DEF WalkInv, WalkTypes, Samples
        <5>4. /\ Len(samples) + 1 \in DOMAIN samples'
              /\ samples'[Len(samples) + 1] = <<"cpu", Service[g]>>
          BY <5>2, <5>3
        <5> QED
          BY <5>4 DEF IsAccountedFor, HasSample, ToSet
      <4> QED
        BY <1>2, <2>5, <4>1, <4>3, <4>4, <4>5, <4>6, <4>7, <4>8
           DEF Next, Walk, Observe, FailToClassify, HasProcesses,
               HasProcessesRaces, ListChildren, FailToObserve, LeaveOut, Decided,
               Finish, HasEnded, IsReading
    <3> QED
      BY <2>3, <3>2, <3>3
  <2> QED
    BY <2>4, <2>5
<1> QED
  BY <1>1, <1>2

(* After MaxRetries collections in a row that lost the cpu usage of a group  *)
(* silently, the next one to lose it logs an error (races.go:36-58 with      *)
(* cpu/collector.go:112-123).                                                *)
THEOREM SilenceEnds == Spec => []SilenceIsBounded
<1> DEFINE Inv == /\ WalkInv /\ NeedInv /\ CoverageInv
                  /\ SilenceIsCounted /\ CpuIsAccountedFor
<1>1. Init => Inv
  BY InitWalkInv, InitNeedInv, InitCoverageInv, InitSilence
<1>2. Inv /\ [Next]_vars => Inv'
  BY NextWalkInv, NextNeedInv, NextCoverageInv, NextSilenceIsCounted,
     NextCpuIsAccountedFor
<1>3. Inv => SilenceIsBounded
  BY DEF SilenceIsCounted, SilenceIsBounded
<1> QED
  BY <1>1, <1>2, <1>3, PTL DEF Spec
-----------------------------------------------------------------------------
(* What is collected twice, and what is not collected at all: the walk keeps *)
(* the parts of the hierarchy apart.                                         *)

(* What the walk has come to, and has in hand or has done with.              *)
Open == {stack[i].group : i \in DOMAIN stack}

Listed == UNION {ToSet(stack[i].children) : i \in DOMAIN stack}

Collected == {services[s] : s \in DOMAIN services}

Seen == Open \cup Listed \cup Collected

(* Groups none of whose children the walk comes to: they have processes, or  *)
(* have been collected with all that is below them.                          *)
Closed ==
    {g \in Groups \ (Totals \cup {Root}) :
        \/ g \in Collected
        \/ \E i \in DOMAIN stack : stack[i].group = g /\ stack[i].needsCollection}

(* The walk enters every part of the hierarchy once: nothing it has come to  *)
(* is below a group it has listed and not entered yet, or below a group that *)
(* is closed, and below a total it only comes to what the total leaves out.  *)
ApartInv ==
    /\ \A c \in Listed : \A g \in Seen : c \in Above[g] =>
          g = c /\ g \notin Open \cup Collected
    /\ \A h \in Closed : \A g \in Seen : h \in Above[g] => g = h
    /\ \A g \in Seen : \A d \in Above[g] \ {Root} :
          Parent[d] \in Totals => d \in ToSet(Excluding[Parent[d]])

(* So the frames are of different groups, and a group that may have children *)
(* listed has none of them yet.                                              *)
PathInv ==
    /\ \A i, j \in DOMAIN stack : stack[i].group = stack[j].group => i = j
    /\ \A i \in DOMAIN stack : IsInjective(stack[i].children)
    /\ at \in {"procs", "list"} =>
          /\ Top.group \notin Collected
          /\ \A g \in Seen : Top.group \in Above[g] => g = Top.group
          /\ Top.group # Root => ~Top.needsCollection

(* What the walk has come to are groups.                                     *)
LEMMA SeenAreGroups == ASSUME WalkInv PROVE Seen \subseteq Groups
<1>1. stack \in Seq(FrameTypes) /\ services \in [DOMAIN services -> Groups]
  BY DEF WalkInv, TypeOK, WalkTypes, FrameTypes
<1>2. ASSUME NEW i \in DOMAIN stack
      PROVE  stack[i].group \in Groups /\ ToSet(stack[i].children) \subseteq Groups
  <2>1. PICK frame \in FrameTypes : frame = stack[i]
    BY <1>1
  <2>2. PICK kin \in Seq(Groups) : kin = frame.children
    BY <2>1 DEF FrameTypes
  <2>3. frame.group \in Groups
    BY <2>1 DEF FrameTypes
  <2>4. ToSet(kin) \subseteq Groups
    BY DEF ToSet
  <2> QED
    BY <2>1, <2>2, <2>3, <2>4
<1> QED
  BY <1>1, <1>2 DEF Seen, Open, Listed, Collected

(* With less in hand, and no more of it closed, the parts stay apart.        *)
LEMMA ShrinkKeepsApart ==
    ASSUME ApartInv, Seen' \subseteq Seen, Listed' \subseteq Listed,
           (Open \cup Collected)' \subseteq Open \cup Collected,
           Closed' \subseteq Closed
    PROVE  ApartInv'
BY DEF ApartInv

(* The walk enters a group that is not closed, and below which it has not    *)
(* been, or comes to children of it.                                         *)
LEMMA GrowKeepsApart ==
    ASSUME WalkInv, ApartInv, NEW t \in Seen, t \notin Closed,
           \A g \in Seen : t \in Above[g] => g = t,
           NEW kin, \A d \in kin : d \in Groups \ {Root} /\ Parent[d] = t,
           t \in Totals => kin \subseteq ToSet(Excluding[t]),
           (Open \cup Collected)' \subseteq Open \cup Collected \cup {t},
           Listed' \subseteq (Listed \ {t}) \cup kin,
           Closed' \subseteq Closed
    PROVE  ApartInv'
<1> USE SeenAreGroups
<1>1. Seen' \subseteq Seen \cup kin
  BY DEF Seen
<1>2. \A d \in kin : /\ Above[d] = {d} \cup Above[t] /\ d \notin Above[t]
                     /\ t \in Above[d]
  BY AboveChild, NoCycle, AboveFacts
<1>3. \A d \in kin : d \notin Seen
  BY <1>2, NoCycle
<1>4. \A d \in kin : \A g \in Seen : d \notin Above[g]
  <2> SUFFICES ASSUME NEW d \in kin, NEW g \in Seen, d \in Above[g] PROVE FALSE
    OBVIOUS
  <2>1. t \in Above[g]
    BY <1>2, AboveTransitive
  <2> QED
    BY <1>2, <2>1
<1>5. Open \cup Collected \subseteq Seen
  BY DEF Seen
<1>6. ASSUME NEW c \in Listed', NEW g \in Seen', c \in Above[g]
      PROVE  g = c /\ g \notin (Open \cup Collected)'
  <2>1. CASE c \in kin
    <3>1. g \in kin
      BY <1>1, <1>4, <1>6, <2>1
    <3>2. g = c
      BY <1>2, <1>6, <2>1, <3>1
    <3>3. t \notin kin
      BY <1>3
    <3> QED
      BY <1>3, <1>5, <2>1, <3>2, <3>3
  <2>2. CASE c \in Listed /\ c # t
    <3>1. CASE g \in Seen
      BY <1>6, <2>2, <3>1 DEF ApartInv
    <3>2. CASE g \in kin
      <4>1. c \in Above[t]
        BY <1>2, <1>3, <1>6, <2>2, <3>2 DEF Seen
      <4> QED
        BY <2>2, <4>1 DEF ApartInv
    <3> QED
      BY <1>1, <3>1, <3>2
  <2> QED
    BY <2>1, <2>2
<1>7. ASSUME NEW h \in Closed', NEW g \in Seen', h \in Above[g] PROVE g = h
  <2>1. h \in Closed /\ h # t
    OBVIOUS
  <2>2. CASE g \in Seen
    BY <1>7, <2>1, <2>2 DEF ApartInv
  <2>3. CASE g \in kin /\ g # h
    <3>1. h \in Above[t]
      BY <1>2, <1>7, <2>3
    <3> QED
      BY <2>1, <3>1 DEF ApartInv
  <2> QED
    BY <1>1, <2>2, <2>3
<1>8. ASSUME NEW g \in Seen', NEW d \in Above[g] \ {Root}, Parent[d] \in Totals
      PROVE  d \in ToSet(Excluding[Parent[d]])
  <2>1. CASE g \in Seen
    BY <1>8, <2>1 DEF ApartInv
  <2>2. CASE g \in kin /\ d = g
    BY <1>8, <2>2
  <2>3. CASE g \in kin /\ d # g
    <3>1. d \in Above[t]
      BY <1>2, <1>8, <2>3
    <3> QED
      BY <1>8, <3>1 DEF ApartInv
  <2> QED
    BY <1>1, <2>1, <2>2, <2>3
<1> QED
  BY <1>6, <1>7, <1>8 DEF ApartInv

(* The rest of an injective list.                                            *)
LEMMA InjectiveTail ==
    ASSUME NEW s \in Seq(Groups), s # <<>>, IsInjective(s)
    PROVE  Head(s) \notin ToSet(Tail(s)) /\ IsInjective(Tail(s))
<1>1. PICK n \in Nat \ {0} : n = Len(s) /\ DOMAIN s = 1..n
  OBVIOUS
<1>2. /\ Head(s) = s[1] /\ DOMAIN Tail(s) = 1..(n - 1)
      /\ \A i \in 1..(n - 1) : Tail(s)[i] = s[i + 1]
  BY <1>1
<1>3. \A i \in 1..(n - 1) : i + 1 \in 1..n /\ i + 1 # 1
  OBVIOUS
<1>4. \A i, j \in 1..(n - 1) : i + 1 = j + 1 => i = j
  OBVIOUS
<1>5. 1 \in 1..n
  OBVIOUS
<1>6. Head(s) \notin ToSet(Tail(s))
  BY <1>1, <1>2, <1>3, <1>5 DEF ToSet, IsInjective
<1> QED
  BY <1>1, <1>2, <1>3, <1>4, <1>6 DEF IsInjective

(* Who is listed and open after the walk has come to the next child.         *)
LEMMA ObserveMoves ==
    ASSUME WalkInv, PathInv, ApartInv, Observe, NEW c, c = Head(Top.children)
    PROVE  /\ c \in Listed /\ c \in Groups \ {Root}
           /\ Listed' \subseteq (Listed \ {c}) \cup
                 (IF c \in Totals THEN ToSet(Excluding[c]) ELSE {})
           /\ Open' \subseteq Open \cup {c} /\ Collected' = Collected
           /\ Closed' \subseteq Closed
<1>1. /\ at = "observe" /\ stack # <<>> /\ Top.children # <<>>
      /\ services' = services
  BY DEF Observe
<1>2. PICK n \in Nat \ {0} : n = Len(stack) /\ DOMAIN stack = 1..n
  BY <1>1, ObserveFacts
<1>3. /\ c \in Groups \ {Root} /\ Parent[c] = Top.group
      /\ DOMAIN stack' = 1..(n + 1)
      /\ \A i \in 1..(n - 1) : stack'[i] = stack[i]
      /\ stack'[n].group = Top.group
      /\ stack'[n].needsCollection = Top.needsCollection
      /\ stack'[n].children = Tail(Top.children)
      /\ ToSet(Top.children) = {c} \cup ToSet(Tail(Top.children))
      /\ stack'[n + 1].group = c
      /\ IF c \in Totals
         THEN stack'[n + 1].children = Excluding[c]
         ELSE stack'[n + 1].children = <<>> /\ ~stack'[n + 1].needsCollection
  BY <1>2, ObserveFacts
<1>4. Top = stack[n] /\ n \in 1..n /\ \A i \in 1..(n - 1) : i \in 1..n /\ i # n
  BY <1>1, <1>2, TopFacts
<1>5. \A i \in 1..(n + 1) : i \in 1..(n - 1) \/ i = n \/ i = n + 1
  OBVIOUS
<1>6. \A i \in 1..n : stack[i].group = Top.group => i = n
  BY <1>2, <1>4 DEF PathInv
<1>7. \A i \in 1..(n - 1) : c \notin ToSet(stack[i].children)
  BY <1>2, <1>3, <1>4, <1>6 DEF WalkInv, FramesFit
<1>8. c \notin ToSet(Tail(Top.children))
  <2>1. PICK s \in Seq(Groups) : s = Top.children
    BY <1>1, TopFacts DEF FrameTypes
  <2>2. IsInjective(s)
    BY <1>2, <1>4, <2>1 DEF PathInv
  <2> QED
    BY <1>1, <2>1, <2>2, InjectiveTail
<1>9. c \in Listed
  BY <1>2, <1>3, <1>4 DEF Listed
<1>10. ASSUME NEW d \in Listed'
       PROVE  d \in (Listed \ {c}) \cup
                       (IF c \in Totals THEN ToSet(Excluding[c]) ELSE {})
  <2>1. PICK i \in 1..(n + 1) : d \in ToSet(stack'[i].children)
    BY <1>3, <1>10 DEF Listed
  <2>2. CASE i \in 1..(n - 1)
    BY <1>2, <1>3, <1>4, <1>7, <2>1, <2>2 DEF Listed
  <2>3. CASE i = n
    BY <1>2, <1>3, <1>4, <1>8, <2>1, <2>3 DEF Listed
  <2>4. CASE i = n + 1 /\ c \in Totals
    BY <1>3, <2>1, <2>4
  <2>5. CASE i = n + 1 /\ c \notin Totals
    BY <1>3, <2>1, <2>5 DEF ToSet
  <2> QED
    BY <1>5, <2>2, <2>3, <2>4, <2>5
<1>11. Open' \subseteq Open \cup {c}
  BY <1>2, <1>3, <1>4, <1>5 DEF Open
<1>12. Collected' = Collected
  BY <1>1 DEF Collected
<1>13. Closed' \subseteq Closed
  BY <1>2, <1>3, <1>4, <1>5, <1>12 DEF Closed
<1> QED
  BY <1>3, <1>9, <1>10, <1>11, <1>12, <1>13

(* Coming to the next child keeps the parts of the hierarchy apart.          *)
LEMMA ObserveApart ==
    ASSUME WalkInv, PathInv, ApartInv, Observe PROVE ApartInv' /\ PathInv'
<1>1. PICK c : c = Head(Top.children)
  OBVIOUS
<1>2. /\ c \in Listed /\ c \in Groups \ {Root}
      /\ Listed' \subseteq (Listed \ {c}) \cup
            (IF c \in Totals THEN ToSet(Excluding[c]) ELSE {})
      /\ Open' \subseteq Open \cup {c} /\ Collected' = Collected
      /\ Closed' \subseteq Closed
  BY <1>1, ObserveMoves
<1>3. c \in Seen /\ Closed \subseteq Open \cup Collected
  BY <1>2 DEF Seen, Closed, Open
<1>4. /\ c \notin Open \cup Collected
      /\ \A g \in Seen : c \in Above[g] => g = c
  BY <1>2, <1>3, AboveFacts DEF ApartInv
<1>5. PICK kin : kin = IF c \in Totals THEN ToSet(Excluding[c]) ELSE {}
  OBVIOUS
<1>6. \A d \in kin : d \in Groups \ {Root} /\ Parent[d] = c
  <2>1. CASE c \in Totals
    <3>1. PICK s \in Seq(Groups) : s = Excluding[c]
      BY <2>1, HierarchyAssumption
    <3>2. ToSet(s) \subseteq Groups
      BY DEF ToSet
    <3> QED
      BY <1>5, <2>1, <3>1, <3>2, HierarchyAssumption
  <2> QED
    BY <1>5, <2>1
<1>7. ApartInv'
  BY <1>2, <1>3, <1>4, <1>5, <1>6, GrowKeepsApart
<1>8. PathInv'
  <2>1. /\ at = "observe" /\ stack # <<>> /\ Top.children # <<>>
        /\ services' = services
    BY DEF Observe
  <2>2. PICK n \in Nat \ {0} : n = Len(stack) /\ DOMAIN stack = 1..n
    BY <2>1, ObserveFacts
  <2>3. /\ DOMAIN stack' = 1..(n + 1)
        /\ \A i \in 1..(n - 1) : stack'[i] = stack[i]
        /\ stack'[n].group = Top.group
        /\ stack'[n].children = Tail(Top.children)
        /\ Top' = stack'[n + 1] /\ stack'[n + 1].group = c
        /\ IF c \in Totals
           THEN stack'[n + 1].children = Excluding[c] /\ at' = "observe"
           ELSE stack'[n + 1].children = <<>> /\ ~stack'[n + 1].needsCollection
    BY <1>1, <2>2, ObserveFacts
  <2>4. Top = stack[n] /\ n \in 1..n /\ \A i \in 1..(n - 1) : i \in 1..n /\ i # n
    BY <2>1, <2>2, TopFacts
  <2>5. \A i \in 1..(n + 1) : i \in 1..(n - 1) \/ i = n \/ i = n + 1
    OBVIOUS
  <2>6. \A i \in 1..n : stack'[i].group = stack[i].group
    BY <2>3, <2>4, <2>5
  <2>7. \A i, j \in 1..n : stack'[i].group = stack'[j].group => i = j
    BY <2>2, <2>6 DEF PathInv
  <2>8. \A i \in 1..n : stack'[i].group # c
    BY <1>4, <2>2, <2>6 DEF Open
  <2>9. \A i \in 1..(n + 1) : i \in 1..n \/ i = n + 1
    OBVIOUS
  <2>10. \A i, j \in DOMAIN stack' : stack'[i].group = stack'[j].group => i = j
    BY <2>3, <2>7, <2>8, <2>9
  <2>11. ASSUME NEW i \in DOMAIN stack' PROVE IsInjective(stack'[i].children)
    <3>1. CASE i \in 1..(n - 1)
      BY <2>2, <2>3, <2>4, <3>1 DEF PathInv
    <3>2. CASE i = n
      <4>1. PICK s \in Seq(Groups) : s = Top.children
        BY <2>1, TopFacts DEF FrameTypes
      <4> QED
        BY <2>1, <2>2, <2>3, <2>4, <3>2, <4>1, InjectiveTail DEF PathInv
    <3>3. CASE i = n + 1 /\ c \in Totals
      BY <2>3, <3>3, HierarchyAssumption
    <3>4. CASE i = n + 1 /\ c \notin Totals
      BY <2>3, <3>4 DEF IsInjective
    <3> QED
      BY <2>3, <2>5, <3>1, <3>2, <3>3, <3>4
  <2>12. ASSUME at' \in {"procs", "list"}
         PROVE  /\ c \notin Collected'
                /\ \A g \in Seen' : c \in Above[g] => g = c
                /\ ~Top'.needsCollection
    <3>1. c \notin Totals
      BY <2>3, <2>12
    <3>2. Seen' \subseteq Seen
      BY <1>2, <3>1 DEF Seen
    <3> QED
      BY <1>2, <1>4, <2>3, <3>1, <3>2
  <2>13. Top'.group = c
    BY <2>3
  <2> QED
    BY <2>10, <2>11, <2>12, <2>13 DEF PathInv
<1> QED
  BY <1>7, <1>8

(* Frames that are left, and nothing more collected.                         *)
LEMMA FewerFramesApart ==
    ASSUME PathInv, ApartInv,
           \A i \in DOMAIN stack' : i \in DOMAIN stack /\ stack'[i] = stack[i],
           Collected' \subseteq Collected,
           at' \in {"procs", "list"} => at \in {"procs", "list"} /\ UNCHANGED stack
    PROVE  ApartInv' /\ PathInv'
<1>1. Open' \subseteq Open /\ Listed' \subseteq Listed /\ Closed' \subseteq Closed
  BY DEF Open, Listed, Closed
<1>2. Seen' \subseteq Seen
  BY <1>1 DEF Seen
<1>3. ApartInv'
  BY <1>1, <1>2, ShrinkKeepsApart
<1>4. ASSUME at' \in {"procs", "list"}
      PROVE  /\ Top'.group \notin Collected'
             /\ \A g \in Seen' : Top'.group \in Above[g] => g = Top'.group
             /\ Top'.group # Root => ~Top'.needsCollection
  <2>1. Top' = Top /\ at \in {"procs", "list"}
    BY <1>4 DEF Top
  <2> QED
    BY <1>2, <2>1 DEF PathInv
<1>5. /\ \A i, j \in DOMAIN stack' : stack'[i].group = stack'[j].group => i = j
      /\ \A i \in DOMAIN stack' : IsInjective(stack'[i].children)
  BY DEF PathInv
<1> QED
  BY <1>3, <1>4, <1>5 DEF PathInv

(* What is collected changes when a group is taken, and with the collection. *)
LEMMA ServicesMove ==
    ASSUME WalkInv, [Next]_vars, ~Start, ~Collect
    PROVE  services' = services \/ services' = <<>>
<1> USE DEF Return, walkVars
<1>1. CASE Hierarchy
  BY <1>1, HierarchyChanges DEF Change, CollectorVars
<1>2. CASE Observe \/ FailToClassify \/ HasProcesses \/ ListChildren
  BY <1>2 DEF Observe, FailToClassify, HasProcesses, ListChildren
<1>3. CASE HasProcessesRaces \/ FailToObserve \/ LeaveOut
  BY <1>3 DEF HasProcessesRaces, FailToObserve, AbortWalk, LeaveOut
<1>4. CASE ListKids \/ ReadOwn \/ ReadKid
  BY <1>4 DEF ListKids, ReadOwn, ReadKid
<1>5. CASE OwnRaces \/ KidRaces \/ ParentRaces \/ FailToRead
  BY <1>5 DEF OwnRaces, KidRaces, ParentRaces, FailToRead, GiveUp
<1>6. CASE Record \/ FailToCalculate \/ Finish
  BY <1>6 DEF Record, FailToCalculate, Finish
<1>7. CASE UNCHANGED vars
  BY <1>7 DEF vars
<1> QED
  BY <1>1, <1>2, <1>3, <1>4, <1>5, <1>6, <1>7 DEF Next, Walk

(* Taking a group closes it, if what is below is not apart from it.          *)
LEMMA CollectApart ==
    ASSUME WalkInv, PathInv, ApartInv, Collect PROVE ApartInv' /\ PathInv'
<1>1. /\ at = "observe" /\ stack # <<>> /\ Top.needsCollection
      /\ stack' = stack /\ at' = "read"
      /\ services' = [s \in DOMAIN services \cup {Service[Top.group]} |->
                         IF s = Service[Top.group] THEN Top.group ELSE services[s]]
  BY DEF Collect, Decided
<1>2. Top = stack[Len(stack)] /\ Len(stack) \in DOMAIN stack
  BY <1>1, TopFacts
<1>3. Open' = Open /\ Listed' = Listed /\ Top.group \in Open
  BY <1>1, <1>2 DEF Open, Listed
<1>4. Collected' \subseteq Collected \cup {Top.group}
  BY <1>1 DEF Collected
<1>5. Closed' \subseteq Closed
  BY <1>1, <1>2, <1>4 DEF Closed
<1>6. Seen' \subseteq Seen
  BY <1>3, <1>4 DEF Seen
<1>7. ApartInv'
  BY <1>3, <1>4, <1>5, <1>6, ShrinkKeepsApart
<1> QED
  BY <1>1, <1>7 DEF PathInv

(* The start: nothing but the root has been come to.                         *)
LEMMA StartApart == ASSUME Start PROVE ApartInv' /\ PathInv'
<1> DEFINE frame == [group |-> Root, children |-> <<>>, needsCollection |-> TRUE]
<1>1. services' = <<>> /\ stack' = <<frame>> /\ at' = "list"
  BY DEF Start, Frame
<1>2. /\ frame \in FrameTypes /\ frame.group = Root
      /\ frame.children = <<>>
  BY HierarchyAssumption DEF FrameTypes
<1> HIDE DEF frame
<1>3. DOMAIN stack' = {1} /\ stack'[1] = frame /\ Top' = frame
  <2>1. stack' \in Seq(FrameTypes) /\ Len(stack') = 1 /\ stack'[1] = frame
    BY <1>1, <1>2
  <2> QED
    BY <2>1 DEF Top, Last
<1>4. Open' = {Root} /\ Listed' = {} /\ Collected' = {}
  <2>1. Open' = {Root}
    BY <1>2, <1>3 DEF Open
  <2>2. Listed' = {}
    BY <1>2, <1>3 DEF Listed, ToSet
  <2>3. DOMAIN services' = {}
    BY <1>1
  <2>4. Collected' = {}
    BY <2>3 DEF Collected
  <2> QED
    BY <2>1, <2>2, <2>4
<1>5. Seen' = {Root}
  BY <1>4 DEF Seen
<1>6. Closed' = {}
  BY <1>2, <1>3, <1>4 DEF Closed
<1>7. ApartInv'
  BY <1>4, <1>5, <1>6, AboveRoot DEF ApartInv
<1>8. IsInjective(<<>>)
  BY DEF IsInjective
<1>9. \A g \in Seen' : g = Root
  BY <1>5
<1>10. PathInv'
  BY <1>2, <1>3, <1>4, <1>8, <1>9 DEF PathInv
<1> QED
  BY <1>7, <1>10

(* A child that cannot be classified is no longer listed.                    *)
LEMMA FailToClassifyApart ==
    ASSUME WalkInv, PathInv, ApartInv, FailToClassify PROVE ApartInv' /\ PathInv'
<1>1. /\ at = "observe" /\ stack # <<>> /\ Top.children # <<>>
      /\ services' = services
  BY DEF FailToClassify
<1>2. /\ DOMAIN stack' = DOMAIN stack /\ at' = "observe"
      /\ \A i \in DOMAIN stack :
            /\ stack'[i].group = stack[i].group
            /\ stack'[i].needsCollection = stack[i].needsCollection
            /\ \/ stack'[i].children = stack[i].children
               \/ i = Len(stack) /\ stack'[i].children = Tail(Top.children)
  <2>0. ~HasProcesses /\ ~ListChildren /\ at \notin {"procs", "list"}
    BY <1>1 DEF HasProcesses, ListChildren
  <2>1. PICK n \in Nat \ {0} : n = Len(stack) /\ DOMAIN stack = 1..n
    BY <1>1, TopFacts DEF WalkInv, TypeOK
  <2>2. /\ DOMAIN stack' = 1..n /\ \A i \in 1..(n - 1) : stack'[i] = stack[i]
        /\ Top' = stack'[n] /\ Top'.group = Top.group
        /\ at' = "observe" /\ Top'.children = Tail(Top.children)
        /\ Top'.needsCollection = Top.needsCollection
    BY <2>0, <2>1, ReplaceFacts
  <2>3. Top = stack[n] /\ \A i \in 1..n : i \in 1..(n - 1) \/ i = n
    BY <1>1, <2>1, TopFacts
  <2> QED
    BY <2>1, <2>2, <2>3
<1>3. PICK s \in Seq(Groups) : s = Top.children
  BY <1>1, TopFacts DEF FrameTypes
<1>4. Top = stack[Len(stack)] /\ Len(stack) \in DOMAIN stack
  BY <1>1, TopFacts
<1>5. /\ ToSet(Tail(Top.children)) \subseteq ToSet(Top.children)
      /\ IsInjective(Tail(Top.children))
  BY <1>1, <1>3, <1>4, ListFacts, InjectiveTail DEF PathInv
<1>6. Open' = Open /\ Collected' = Collected /\ Closed' = Closed
  <2>1. Open' = Open /\ Collected' = Collected
    BY <1>1, <1>2 DEF Open, Collected
  <2> QED
    BY <1>2, <2>1 DEF Closed
<1>7. Listed' \subseteq Listed
  BY <1>2, <1>4, <1>5 DEF Listed
<1>8. ApartInv'
  BY <1>6, <1>7, ShrinkKeepsApart DEF Seen
<1> QED
  BY <1>2, <1>4, <1>5, <1>8 DEF PathInv

(* A group with processes is closed: nothing below it has been come to.      *)
LEMMA HasProcessesApart ==
    ASSUME WalkInv, PathInv, ApartInv, HasProcesses PROVE ApartInv' /\ PathInv'
<1>1. at = "procs" /\ stack # <<>> /\ services' = services
  BY DEF HasProcesses, WalkInv, FramesFit
<1>2. ~FailToClassify /\ ~ListChildren
  BY <1>1 DEF FailToClassify, ListChildren
<1>3. PICK n \in Nat \ {0} : n = Len(stack) /\ DOMAIN stack = 1..n
  BY <1>1, TopFacts DEF WalkInv, TypeOK
<1>4. Top = stack[n] /\ \A i \in 1..n : i \in 1..(n - 1) \/ i = n
  BY <1>1, <1>3, TopFacts
<1>5. CASE UNCHANGED stack /\ at' = "list"
  <2>1. /\ Open' = Open /\ Listed' = Listed /\ Closed' = Closed
        /\ Collected' = Collected
    BY <1>1, <1>5 DEF Open, Listed, Closed, Collected
  <2>2. ApartInv' /\ Seen' = Seen
    BY <2>1, ShrinkKeepsApart DEF Seen
  <2>3. Top' = Top
    BY <1>5 DEF Top
  <2> QED
    BY <1>1, <1>5, <2>1, <2>2, <2>3 DEF PathInv
<1>6. CASE /\ DOMAIN stack' = 1..n /\ \A i \in 1..(n - 1) : stack'[i] = stack[i]
           /\ Top' = stack'[n] /\ Top'.group = Top.group /\ at' = "observe"
           /\ Top'.children = Top.children
  <2>1. /\ \A i \in 1..n : /\ stack'[i].group = stack[i].group
                           /\ stack'[i].children = stack[i].children
    BY <1>4, <1>6
  <2>2. /\ Open' = Open /\ Listed' = Listed /\ Collected' = Collected
    BY <1>1, <1>3, <1>6, <2>1 DEF Open, Listed, Collected
  <2>3. Seen' = Seen
    BY <2>2 DEF Seen
  <2>4. PICK t : t = Top.group
    OBVIOUS
  <2>5. \A h \in Closed' : h \in Closed \/ h = t
    BY <1>3, <1>4, <1>6, <2>1, <2>2, <2>4 DEF Closed
  <2>6. \A g \in Seen : t \in Above[g] => g = t
    BY <1>1, <2>4 DEF PathInv
  <2>7. ApartInv'
    BY <2>2, <2>3, <2>5, <2>6 DEF ApartInv
  <2> QED
    BY <1>3, <1>6, <2>1, <2>7 DEF PathInv
<1> QED
  BY <1>2, <1>3, <1>5, <1>6, ReplaceFacts

(* The children that are listed are different.                               *)
LEMMA ListedOnce ==
    ASSUME WalkInv, ListChildren, Top.group \in exists
    PROVE  IsInjective(Top'.children)
<1>1. /\ stack # <<>>
      /\ SetTop([Top EXCEPT !.children =
                    InOrder(ChildrenOf(Top.group) \cap exists)])
  BY DEF ListChildren, WalkInv, FramesFit
<1>2. PICK kin \in SUBSET Groups : kin = ChildrenOf(Top.group) \cap exists
  BY DEF ChildrenOf
<1>3. InOrder(kin) \in Seq(Groups) /\ IsInjective(InOrder(kin))
  BY HierarchyAssumption DEF InOrder
<1>4. PICK frame : frame = [Top EXCEPT !.children = InOrder(kin)]
  OBVIOUS
<1>5. frame \in FrameTypes /\ frame.children = InOrder(kin)
  BY <1>1, <1>3, <1>4, TopFacts DEF FrameTypes
<1>6. stack' = Append(Front(stack), frame)
  BY <1>1, <1>2, <1>4 DEF SetTop
<1>7. Front(stack) \in Seq(FrameTypes)
  BY <1>1, StackFacts DEF WalkInv, TypeOK, FrameTypes
<1>8. Top' = frame
  BY <1>5, <1>6, <1>7, PushFacts DEF Top
<1> QED
  BY <1>3, <1>5, <1>8

(* The group whose children are listed had none that the walk has come to.   *)
LEMMA ListChildrenApart ==
    ASSUME WalkInv, PathInv, ApartInv, ListChildren PROVE ApartInv' /\ PathInv'
<1>1. /\ at = "list" /\ stack # <<>> /\ services' = services
      /\ Top.children = <<>> /\ Top.group \notin Totals
  BY DEF ListChildren, Return, WalkInv, FramesFit
<1>2. ~FailToClassify /\ ~HasProcesses
  BY <1>1 DEF FailToClassify, HasProcesses
<1>3. PICK n \in Nat \ {0} : n = Len(stack) /\ DOMAIN stack = 1..n
  BY <1>1, TopFacts DEF WalkInv, TypeOK
<1>4. /\ Top = stack[n] /\ n \in 1..n
      /\ \A i \in 1..n : i \in 1..(n - 1) \/ i = n
      /\ \A i \in 1..(n - 1) : i \in 1..n
  BY <1>1, <1>3, TopFacts
<1>5. Collected' = Collected
  BY <1>1 DEF Collected
<1>6. CASE Return
  <2>1. at' = "observe" /\ Collected' \subseteq Collected
    BY <1>5, <1>6 DEF Return
  <2>2. \A i \in DOMAIN stack' : i \in DOMAIN stack /\ stack'[i] = stack[i]
    BY <1>1, <1>6, PopFacts
  <2> QED
    BY <2>1, <2>2, FewerFramesApart
<1>7. CASE /\ DOMAIN stack' = 1..n /\ \A i \in 1..(n - 1) : stack'[i] = stack[i]
           /\ Top' = stack'[n] /\ Top'.group = Top.group /\ at' = "observe"
           /\ Top.group \in exists
           /\ ToSet(Top'.children) = ChildrenOf(Top.group) \cap exists
           /\ Top'.needsCollection = Top.needsCollection
  <2>1. PICK t : t = Top.group
    OBVIOUS
  <2>2. PICK kin : kin = ChildrenOf(t) \cap exists
    OBVIOUS
  <2>3. /\ \A i \in 1..n : /\ stack'[i].group = stack[i].group
                           /\ stack'[i].needsCollection = stack[i].needsCollection
        /\ \A i \in 1..(n - 1) : stack'[i].children = stack[i].children
        /\ ToSet(stack'[n].children) = kin
    BY <1>4, <1>7, <2>1, <2>2
  <2>4. Open' = Open /\ t \in Open
    <3>1. Open' = Open
      BY <1>3, <1>7, <2>3 DEF Open
    <3>2. t \in Open
      BY <1>3, <1>4, <2>1 DEF Open
    <3> QED
      BY <3>1, <3>2
  <2>5. Closed' = Closed
    BY <1>3, <1>5, <1>7, <2>3 DEF Closed
  <2>6. t \in Seen /\ \A g \in Seen : t \in Above[g] => g = t
    BY <1>1, <2>1, <2>4 DEF PathInv, Seen
  <2>7. t \notin Listed
    BY <1>1, <2>1, <2>4, <2>6, TopFacts, AboveFacts DEF ApartInv
  <2>8. Listed' \subseteq (Listed \ {t}) \cup kin
    BY <1>3, <1>4, <1>7, <2>3, <2>7 DEF Listed
  <2>9. t \notin Closed
    <3>1. t # Root => ~Top.needsCollection
      BY <1>1, <2>1 DEF PathInv
    <3>2. \A i \in DOMAIN stack : stack[i].group = t => stack[i] = Top
      BY <1>3, <1>4, <2>1 DEF PathInv
    <3>3. t \notin Collected
      BY <1>1, <2>1 DEF PathInv
    <3> QED
      BY <3>1, <3>2, <3>3 DEF Closed
  <2>10. \A d \in kin : d \in Groups \ {Root} /\ Parent[d] = t
    BY <2>2 DEF ChildrenOf
  <2>11. (Open \cup Collected)' \subseteq Open \cup Collected \cup {t}
    BY <1>5, <2>4
  <2>12. t \notin Totals
    BY <1>1, <2>1
  <2>13. ApartInv'
    BY <2>5, <2>6, <2>8, <2>9, <2>10, <2>11, <2>12, GrowKeepsApart
  <2>14. IsInjective(stack'[n].children)
    BY <1>7, ListedOnce
  <2>15. \A i \in DOMAIN stack' : IsInjective(stack'[i].children)
    BY <1>3, <1>4, <1>7, <2>3, <2>14 DEF PathInv
  <2>16. \A i, j \in DOMAIN stack' : stack'[i].group = stack'[j].group => i = j
    BY <1>3, <1>7, <2>3 DEF PathInv
  <2> QED
    BY <1>7, <2>13, <2>15, <2>16 DEF PathInv
<1> QED
  BY <1>2, <1>3, <1>6, <1>7, ReplaceFacts

(* Every step keeps the parts of the hierarchy apart.                        *)
LEMMA NextApart ==
    WalkInv /\ PathInv /\ ApartInv /\ [Next]_vars => ApartInv' /\ PathInv'
<1> SUFFICES ASSUME WalkInv, PathInv, ApartInv, [Next]_vars
             PROVE  ApartInv' /\ PathInv'
  OBVIOUS
<1>1. CASE Start
  BY <1>1, StartApart
<1>2. CASE Observe
  BY <1>2, ObserveApart
<1>3. CASE FailToClassify
  BY <1>3, FailToClassifyApart
<1>4. CASE HasProcesses
  BY <1>4, HasProcessesApart
<1>5. CASE ListChildren
  BY <1>5, ListChildrenApart
<1>6. CASE Collect
  BY <1>6, CollectApart
<1>7. CASE ~Start /\ ~Observe /\ ~FailToClassify /\ ~HasProcesses /\ ~ListChildren
           /\ ~Collect
  <2>1. services' = services \/ services' = <<>>
    BY <1>7, ServicesMove
  <2>2. Collected' \subseteq Collected
    <3>1. CASE services' = services
      BY <3>1 DEF Collected
    <3>2. CASE services' = <<>>
      <4>1. DOMAIN services' = {}
        BY <3>2
      <4> QED
        BY <4>1 DEF Collected
    <3> QED
      BY <2>1, <3>1, <3>2
  <2>3. CASE /\ UNCHANGED stack
             /\ at \in {"procs", "list"} \/ at' \in {"procs", "list"} => at' = at
    BY <2>2, <2>3, FewerFramesApart
  <2>4. CASE stack # <<>> /\ Return
    <3>1. \A i \in DOMAIN stack' : i \in DOMAIN stack /\ stack'[i] = stack[i]
      BY <2>4, PopFacts
    <3>2. at' = "observe"
      BY <2>4 DEF Return
    <3> QED
      BY <2>2, <3>1, <3>2, FewerFramesApart
  <2>5. CASE stack' = <<>> /\ at' = "idle"
    <3>1. DOMAIN stack' = {}
      BY <2>5
    <3> QED
      BY <2>2, <2>5, <3>1, FewerFramesApart
  <2> QED
    BY <1>7, <2>3, <2>4, <2>5, OtherMoves
<1> QED
  BY <1>1, <1>2, <1>3, <1>4, <1>5, <1>6, <1>7

(* At first there is nothing to be apart.                                    *)
LEMMA InitApart == Init => ApartInv /\ PathInv
<1> SUFFICES ASSUME Init PROVE ApartInv /\ PathInv
  OBVIOUS
<1>1. DOMAIN stack = {} /\ DOMAIN services = {} /\ at = "idle"
  BY DEF Init
<1>2. Open = {} /\ Listed = {} /\ Collected = {}
  BY <1>1 DEF Open, Listed, Collected
<1>3. Seen = {} /\ Closed = {}
  BY <1>1, <1>2 DEF Seen, Closed
<1> QED
  BY <1>1, <1>2, <1>3 DEF ApartInv, PathInv
-----------------------------------------------------------------------------
(* Of two groups above a third one, one is above the other.                  *)
LEMMA Linear ==
    ASSUME NEW g \in Groups, NEW a \in Above[g], NEW b \in Above[g]
    PROVE  a \in Above[b] \/ b \in Above[a]
<1> DEFINE upward == {d \in Above[g] : d \in Above[a] \/ a \in Above[d]}
<1>1. Above[g] \in SUBSET Groups /\ g \in Above[g]
  BY AboveFacts
<1>2. upward \in SUBSET Groups /\ g \in upward
  BY <1>1
<1>3. ASSUME NEW d \in upward \ {Root} PROVE Parent[d] \in upward
  <2>1. /\ d \in Groups \ {Root} /\ Parent[d] \in Groups
        /\ Parent[d] \in Above[g] /\ Parent[d] \in Above[d]
        /\ Above[d] = {d} \cup Above[Parent[d]]
    BY <1>1, AboveFacts, AboveChild, HierarchyAssumption
  <2>2. CASE a \in Above[d] /\ a # d
    BY <2>1, <2>2
  <2>3. CASE d \in Above[a]
    BY <1>1, <2>1, <2>3, AboveFacts
  <2>4. CASE a = d
    BY <2>1, <2>4, AboveFacts
  <2> QED
    BY <2>1, <2>2, <2>3, <2>4
<1>4. Above[g] \subseteq upward
  BY <1>2, <1>3, AboveFacts
<1> QED
  BY <1>4

(* Of two groups that are collected one is not charged for a process of      *)
(* which the other is.                                                       *)
LEMMA ChargedOnce ==
    ASSUME WalkInv, ApartInv, NEW p \in Groups,
           NEW a \in Collected, NEW b \in Collected,
           IsCharged(p, a), IsCharged(p, b), a \in Above[b]
    PROVE  a = b
<1> SUFFICES ASSUME a # b PROVE FALSE
  OBVIOUS
<1>1. a \in Seen /\ b \in Seen /\ Seen \subseteq Groups
  BY SeenAreGroups DEF Seen
<1>2. b \in Above[p] /\ a \in Above[p]
  BY DEF IsCharged
<1>3. PICK d \in Above[b] \ {Root} : Parent[d] = a
  BY <1>1, WayDown
<1>4. d \in Above[p]
  BY <1>1, <1>2, <1>3, AboveTransitive
<1>5. a # Root /\ d \notin ToSet(Excluded(a))
  BY <1>3, <1>4 DEF IsCharged
<1>6. CASE a \in Totals
  BY <1>1, <1>3, <1>5, <1>6 DEF ApartInv, Excluded
<1>7. CASE a \notin Totals
  BY <1>1, <1>5, <1>7 DEF ApartInv, Closed
<1> QED
  BY <1>6, <1>7

(* What a process uses is in the metrics of one service at most.             *)
LEMMA AtMostOnce ==
    ASSUME WalkInv, ApartInv, NEW p \in Groups
    PROVE  Cardinality({g \in ToSet(services) : IsCharged(p, g)}) <= 1
<1> DEFINE by == {g \in ToSet(services) : IsCharged(p, g)}
<1>1. ToSet(services) = Collected
  BY DEF ToSet, Collected
<1>2. \A a, b \in by : a = b
  <2> SUFFICES ASSUME NEW a \in by, NEW b \in by PROVE a = b
    OBVIOUS
  <2>1. a \in Collected /\ b \in Collected /\ IsCharged(p, a) /\ IsCharged(p, b)
    BY <1>1
  <2>2. a \in Above[b] \/ b \in Above[a]
    BY <2>1, Linear DEF IsCharged
  <2> QED
    BY <2>1, <2>2, ChargedOnce
<1>3. PICK few : few = by
  OBVIOUS
<1>4. Cardinality(few) <= 1
  <2>1. CASE few = {}
    BY <2>1, FS_EmptySet
  <2>2. CASE few # {}
    <3>1. PICK a \in few : few = {a}
      BY <1>2, <1>3, <2>2
    <3> QED
      BY <3>1, FS_Singleton
  <2> QED
    BY <2>1, <2>2
<1> QED
  BY <1>3, <1>4

-----------------------------------------------------------------------------
(* What is there has its parents, and in a calm collection what the kernel   *)
(* says of the groups is what it said when the collection started.           *)
UpInv == \A g \in exists \ {Root} : Parent[g] \in exists

CalmInv ==
    calm /\ at # "idle" =>
        steady = exists /\ loaded = busy /\ quiet = exists \ busy

(* What a process uses is still to be reached, is charged to a group that is *)
(* to be collected, or has been collected or complained about.               *)
IsToBeCharged(p) ==
    \/ \E i \in DOMAIN stack : stack[i].needsCollection /\ IsCharged(p, stack[i].group)
    \/ \E g \in Collected \cup complaints : IsCharged(p, g)

ProcessInv ==
    calm /\ at # "idle" =>
        \A p \in busy : IsListed(p) \/ IsAwaited(p) \/ IsToBeCharged(p)

(* What is above an existing group exists.                                   *)
LEMMA AboveExists ==
    ASSUME WalkInv, UpInv, NEW g \in exists PROVE Above[g] \subseteq exists
<1>1. exists \in SUBSET Groups
  BY DEF WalkInv, TypeOK
<1> QED
  BY <1>1, AboveFacts DEF UpInv

(* At first.                                                                 *)
LEMMA InitCalm == Init => UpInv /\ CalmInv /\ ProcessInv
BY DEF Init, UpInv, CalmInv, ProcessInv

(* A step of a collection that stays calm changes nothing of the hierarchy.  *)
LEMMA CalmStep ==
    ASSUME WalkInv, [Next]_vars, ~Start, calm'
    PROVE  /\ calm /\ UNCHANGED <<exists, busy, disabled, steady, loaded,
                                  quiet>>
           /\ ~FailToClassify /\ ~FailToObserve /\ ~FailToRead /\ ~FailToCalculate
<1> USE DEF NoFailure, sinceVars, hierarchyVars
<1>1. ~Failure /\ ~Hierarchy
  BY HierarchyChanges DEF Failure, Change
<1>2. ~FailToClassify /\ ~FailToObserve /\ ~FailToRead /\ ~FailToCalculate
  BY <1>1 DEF FailToClassify, FailToObserve, FailToRead, FailToCalculate
<1>3. CASE Observe \/ HasProcesses \/ HasProcessesRaces \/ ListChildren
  BY <1>2, <1>3 DEF Observe, HasProcesses, HasProcessesRaces, ListChildren
<1>4. CASE LeaveOut \/ Collect \/ ListKids \/ ReadOwn \/ ReadKid
  BY <1>2, <1>4 DEF LeaveOut, Collect, ListKids, ReadOwn, ReadKid
<1>5. CASE OwnRaces \/ KidRaces \/ ParentRaces
  BY <1>2, <1>5 DEF OwnRaces, KidRaces, ParentRaces, GiveUp
<1>6. CASE Record \/ Finish
  BY <1>2, <1>6 DEF Record, Finish
<1>7. CASE UNCHANGED vars
  BY <1>2, <1>7 DEF vars, historyVars
<1> QED
  BY <1>1, <1>2, <1>3, <1>4, <1>5, <1>6, <1>7 DEF Next, Walk

(* A collection that is not idle was not before, unless it starts.           *)
LEMMA StaysBusy ==
    ASSUME WalkInv, [Next]_vars, ~Start, at' # "idle" PROVE at # "idle"
BY OtherSteps DEF Collect, Decided, Record, HasRead, FailToCalculate, Finish

(* Every step keeps the parents of what is there.                            *)
LEMMA NextUpInv == WalkInv /\ UpInv /\ [Next]_vars => UpInv'
<1> SUFFICES ASSUME WalkInv, UpInv, [Next]_vars PROVE UpInv'
  OBVIOUS
<1> USE DEF hierarchyVars
<1>1. CASE Hierarchy
  <2>1. PICK g \in Groups \ {Root} :
           \/ CreateGroup(g) \/ RemoveGroup(g)
           \/ ProcessStarts(g) \/ ProcessesExit(g) \/ SwitchController(g)
    BY <1>1 DEF Hierarchy
  <2>2. exists \in SUBSET Groups
    BY DEF WalkInv, TypeOK
  <2>3. CASE CreateGroup(g)
    BY <2>3 DEF CreateGroup, Change, UpInv
  <2>4. CASE RemoveGroup(g)
    BY <2>2, <2>4 DEF RemoveGroup, Change, ChildrenOf, UpInv
  <2>5. CASE ProcessStarts(g) \/ ProcessesExit(g) \/ SwitchController(g)
    BY <2>5 DEF ProcessStarts, ProcessesExit, SwitchController, Change, UpInv
  <2> QED
    BY <2>1, <2>3, <2>4, <2>5
<1>2. CASE exists' = exists
  BY <1>2 DEF UpInv
<1>3. CASE Walk
  <2>1. CASE Start \/ Observe \/ FailToClassify \/ HasProcesses
             \/ HasProcessesRaces \/ ListChildren \/ FailToObserve
    BY <1>2, <2>1 DEF Start, Observe, FailToClassify, HasProcesses,
       HasProcessesRaces, ListChildren, FailToObserve
  <2>2. CASE LeaveOut \/ Collect \/ ListKids \/ ReadOwn \/ ReadKid \/ OwnRaces
             \/ KidRaces \/ ParentRaces \/ FailToRead
    BY <1>2, <2>2 DEF LeaveOut, Collect, ListKids, ReadOwn, ReadKid, OwnRaces,
       KidRaces, ParentRaces, FailToRead, GiveUp
  <2>3. CASE Record \/ FailToCalculate \/ Finish
    BY <1>2, <2>3 DEF Record, FailToCalculate, Finish
  <2> QED
    BY <1>3, <2>1, <2>2, <2>3 DEF Walk
<1>4. CASE UNCHANGED vars
  BY <1>2, <1>4 DEF vars
<1> QED
  BY <1>1, <1>3, <1>4 DEF Next

(* Every step keeps what a calm collection knows.                            *)
LEMMA NextCalmInv == WalkInv /\ CalmInv /\ [Next]_vars => CalmInv'
<1> SUFFICES ASSUME WalkInv, CalmInv, [Next]_vars, calm', at' # "idle"
             PROVE  steady' = exists' /\ loaded' = busy' /\ quiet' = exists' \ busy'
  BY DEF CalmInv
<1>1. CASE Start
  BY <1>1 DEF Start, hierarchyVars
<1>2. CASE ~Start
  BY <1>2, CalmStep, StaysBusy DEF CalmInv
<1> QED
  BY <1>1, <1>2

(* What is collected or complained about stays so.                           *)
LEMMA ChargedStays ==
    ASSUME WalkInv, OnlyLearns, NEW p \in Groups,
           NEW g \in Collected \cup complaints, IsCharged(p, g)
    PROVE  \E h \in (Collected \cup complaints)' : IsCharged(p, h)
BY DEF OnlyLearns, Collected

(* The frame of the group and those below it are left as they are.           *)
LEMMA StaysToBeCharged ==
    ASSUME WalkInv, OnlyLearns, NEW p \in Groups, IsToBeCharged(p),
           \A i \in DOMAIN stack :
              \/ ~stack[i].needsCollection
              \/ stack[i].group \in (Collected \cup complaints)'
              \/ /\ i \in DOMAIN stack' /\ stack'[i].group = stack[i].group
                 /\ stack'[i].needsCollection
    PROVE  IsToBeCharged(p)'
<1>1. CASE \E g \in Collected \cup complaints : IsCharged(p, g)
  <2>1. \E h \in (Collected \cup complaints)' : IsCharged(p, h)
    BY <1>1, ChargedStays
  <2> QED
    BY <2>1 DEF IsToBeCharged
<1>2. CASE \E i \in DOMAIN stack :
               stack[i].needsCollection /\ IsCharged(p, stack[i].group)
  <2>1. PICK i \in DOMAIN stack :
               stack[i].needsCollection /\ IsCharged(p, stack[i].group)
    BY <1>2
  <2>2. PICK g : g = stack[i].group
    OBVIOUS
  <2>3. IsCharged(p, g)
    BY <2>1, <2>2
  <2>4. CASE g \in (Collected \cup complaints)'
    BY <2>3, <2>4 DEF IsToBeCharged
  <2>5. CASE /\ i \in DOMAIN stack' /\ stack'[i].group = g
             /\ stack'[i].needsCollection
    BY <2>3, <2>5 DEF IsToBeCharged
  <2> QED
    BY <2>1, <2>2, <2>4, <2>5
<1> QED
  BY <1>1, <1>2 DEF IsToBeCharged

(* The next child is awaited, or a total that is to be collected.            *)
LEMMA ObserveCharges ==
    ASSUME WalkInv, Observe, OnlyLearns, NEW p \in Groups,
           IsListed(p) \/ IsToBeCharged(p)
    PROVE  IsListed(p)' \/ IsAwaited(p)' \/ IsToBeCharged(p)'
<1>1. at = "observe" /\ stack # <<>> /\ Top.children # <<>>
  BY DEF Observe
<1>2. PICK n \in Nat \ {0} : n = Len(stack) /\ DOMAIN stack = 1..n
  BY <1>1, ObserveFacts
<1>3. PICK c : c = Head(Top.children)
  OBVIOUS
<1>4. /\ c \in Groups \ {Root} /\ DOMAIN stack' = 1..(n + 1)
      /\ \A i \in 1..(n - 1) : stack'[i] = stack[i]
      /\ stack'[n].group = Top.group
      /\ stack'[n].needsCollection = Top.needsCollection
      /\ stack'[n].children = Tail(Top.children)
      /\ ToSet(Top.children) = {c} \cup ToSet(Tail(Top.children))
      /\ Top' = stack'[n + 1] /\ stack'[n + 1].group = c
      /\ IF c \in Totals
         THEN /\ stack'[n + 1].children = Excluding[c]
              /\ stack'[n + 1].needsCollection
         ELSE at' = "procs"
  BY <1>2, <1>3, ObserveFacts
<1>5. /\ Top = stack[n] /\ \A i \in 1..n : i \in 1..(n - 1) \/ i = n
      /\ \A i \in 1..n : i \in 1..(n + 1)
      /\ n + 1 \in 1..(n + 1)
  BY <1>1, <1>2, TopFacts
<1>6. CASE c \in Above[p]
  <2>1. CASE c \notin Totals
    BY <1>4, <1>6, <2>1 DEF IsAwaited
  <2>2. CASE c \in Totals
    <3>1. Excluded(c) = Excluding[c]
      BY <2>2 DEF Excluded
    <3>2. CASE IsCharged(p, c)
      BY <1>4, <1>5, <2>2, <3>2 DEF IsToBeCharged
    <3>3. CASE ~IsCharged(p, c)
      <4>1. PICK d \in Above[p] \ {Root} : d \in ToSet(Excluding[c])
        BY <1>4, <1>6, <3>1, <3>3 DEF IsCharged
      <4> QED
        BY <1>4, <1>5, <2>2, <4>1 DEF IsListed
    <3> QED
      BY <3>2, <3>3
  <2> QED
    BY <2>1, <2>2
<1>7. CASE IsListed(p) /\ c \notin Above[p]
  <2>1. PICK i \in 1..n, d \in Groups :
          d \in ToSet(stack[i].children) /\ d \in Above[p]
    BY <1>2, <1>7, AboveFacts DEF IsListed
  <2>2. d \in ToSet(stack'[i].children)
    BY <1>4, <1>5, <1>7, <2>1
  <2>3. i \in DOMAIN stack'
    BY <1>4, <1>5
  <2> QED
    BY <2>1, <2>2, <2>3 DEF IsListed
<1>8. CASE IsToBeCharged(p)
  <2>1. \A i \in DOMAIN stack :
           /\ i \in DOMAIN stack' /\ stack'[i].group = stack[i].group
           /\ stack'[i].needsCollection = stack[i].needsCollection
    BY <1>2, <1>4, <1>5
  <2>2. IsToBeCharged(p)'
    BY <1>8, <2>1, StaysToBeCharged
  <2> QED
    BY <2>2
<1> QED
  BY <1>6, <1>7, <1>8

(* The group with the processes is to be collected, and one without is asked *)
(* for its children.                                                         *)
LEMMA HasProcessesCharges ==
    ASSUME WalkInv, HasProcesses, OnlyLearns, NEW p \in Groups,
           IsListed(p) \/ IsAwaited(p) \/ IsToBeCharged(p)
    PROVE  IsListed(p)' \/ IsAwaited(p)' \/ IsToBeCharged(p)'
<1>1. at = "procs" /\ stack # <<>> /\ services' = services
  BY DEF HasProcesses, WalkInv, FramesFit
<1>2. ~FailToClassify /\ ~ListChildren
  BY <1>1 DEF FailToClassify, ListChildren
<1>3. PICK n \in Nat \ {0} : n = Len(stack) /\ DOMAIN stack = 1..n
  BY <1>1, TopFacts DEF WalkInv, TypeOK
<1>4. /\ Top = stack[n] /\ n \in 1..n
      /\ \A i \in 1..n : i \in 1..(n - 1) \/ i = n
  BY <1>1, <1>3, TopFacts
<1>5. CASE UNCHANGED stack /\ at' = "list"
  <2>1. Top' = Top
    BY <1>5 DEF Top
  <2>2. IsToBeCharged(p) => IsToBeCharged(p)'
    BY <1>5, StaysToBeCharged
  <2> QED
    BY <1>1, <1>5, <2>1, <2>2 DEF IsListed, IsAwaited
<1>6. CASE /\ DOMAIN stack' = 1..n /\ \A i \in 1..(n - 1) : stack'[i] = stack[i]
           /\ Top' = stack'[n] /\ Top'.group = Top.group /\ at' = "observe"
           /\ Top'.children = Top.children /\ Top'.needsCollection
  <2>1. \A i \in 1..n : /\ stack'[i].group = stack[i].group
                        /\ stack'[i].children = stack[i].children
                        /\ stack[i].needsCollection => stack'[i].needsCollection
    BY <1>4, <1>6
  <2>2. IsListed(p) => IsListed(p)'
    BY <1>3, <1>6, <2>1 DEF IsListed
  <2>3. IsToBeCharged(p) => IsToBeCharged(p)'
    BY <1>3, <1>6, <2>1, StaysToBeCharged
  <2>4. ASSUME IsAwaited(p) PROVE IsToBeCharged(p)'
    <3>1. PICK t : t = Top.group
      OBVIOUS
    <3>2. t \in Above[p] /\ t \notin Totals /\ t # Root
      BY <1>1, <2>4, <3>1 DEF IsAwaited, WalkInv, FramesFit
    <3>3. \A d : d \notin ToSet(Excluded(t))
      BY <3>2 DEF Excluded, ToSet
    <3>4. IsCharged(p, t)
      BY <3>2, <3>3 DEF IsCharged
    <3> QED
      BY <1>4, <1>6, <3>1, <3>4 DEF IsToBeCharged
  <2> QED
    BY <2>2, <2>3, <2>4
<1> QED
  BY <1>2, <1>3, <1>5, <1>6, ReplaceFacts

(* When observe returns, its group has been collected or complained about,   *)
(* or did not need it; a group it was asking is gone.                        *)
LEMMA ReturnCharges ==
    ASSUME WalkInv, UpInv, OnlyLearns, stack # <<>>, Return,
           Top.children = <<>>,
           ~Top.needsCollection \/ Top.group \in (Collected \cup complaints)',
           at \in {"procs", "list"} => Top.group \notin exists,
           NEW p \in busy, IsListed(p) \/ IsAwaited(p) \/ IsToBeCharged(p)
    PROVE  IsListed(p)' \/ IsToBeCharged(p)'
<1>1. /\ p \in exists /\ p \in Groups
  BY DEF WalkInv, TypeOK
<1>2. ~IsAwaited(p)
  BY <1>1, AboveExists DEF IsAwaited
<1>3. \A i \in DOMAIN stack :
         \/ i = Len(stack) /\ stack[i] = Top
         \/ i \in DOMAIN stack' /\ stack'[i] = stack[i]
  BY PopFacts, TopFacts
<1>4. CASE IsListed(p)
  <2>1. PICK i \in DOMAIN stack : \E c \in ToSet(stack[i].children) : c \in Above[p]
    BY <1>4 DEF IsListed
  <2>2. stack[i] # Top
    BY <2>1 DEF ToSet
  <2>3. i \in DOMAIN stack' /\ stack'[i] = stack[i]
    BY <1>3, <2>2
  <2> QED
    BY <2>1, <2>3 DEF IsListed
<1>5. CASE IsToBeCharged(p)
  <2>1. IsToBeCharged(p)'
    BY <1>1, <1>3, <1>5, StaysToBeCharged
  <2> QED
    BY <2>1
<1> QED
  BY <1>2, <1>4, <1>5

(* The children that exist are listed, and the group has no processes.       *)
LEMMA ListChildrenCharges ==
    ASSUME WalkInv, PathInv, NeedInv, UpInv, CalmInv, ListChildren, OnlyLearns,
           calm, NEW p \in busy,
           IsListed(p) \/ IsAwaited(p) \/ IsToBeCharged(p)
    PROVE  IsListed(p)' \/ IsToBeCharged(p)'
<1>1. /\ at = "list" /\ stack # <<>> /\ services' = services
      /\ Top.children = <<>> /\ Top.group \notin Totals
  BY DEF ListChildren, Return, WalkInv, FramesFit
<1>2. ~FailToClassify /\ ~HasProcesses
  BY <1>1 DEF FailToClassify, HasProcesses
<1>3. PICK n \in Nat \ {0} : n = Len(stack) /\ DOMAIN stack = 1..n
  BY <1>1, TopFacts DEF WalkInv, TypeOK
<1>4. /\ Top = stack[n] /\ n \in 1..n
      /\ \A i \in 1..n : i \in 1..(n - 1) \/ i = n
      /\ \A i \in 1..(n - 1) : i \in 1..n
  BY <1>1, <1>3, TopFacts
<1>5. /\ p \in exists /\ p \in Groups /\ loaded = busy
      /\ exists \in SUBSET Groups
  BY <1>1 DEF CalmInv, WalkInv, TypeOK
<1>6. Top.needsCollection => Top.group = Root
  BY <1>1 DEF PathInv
<1>7. CASE Return /\ Top.group \notin exists
  <2>1. ~Top.needsCollection
    BY <1>6, <1>7 DEF WalkInv, WalkTypes
  <2> QED
    BY <1>1, <1>7, <2>1, ReturnCharges
<1>8. CASE /\ DOMAIN stack' = 1..n /\ \A i \in 1..(n - 1) : stack'[i] = stack[i]
           /\ Top' = stack'[n] /\ Top'.group = Top.group /\ at' = "observe"
           /\ Top.group \in exists
           /\ ToSet(Top'.children) = ChildrenOf(Top.group) \cap exists
           /\ Top'.needsCollection = Top.needsCollection
  <2>1. /\ \A i \in 1..n : /\ stack'[i].group = stack[i].group
                           /\ stack'[i].needsCollection = stack[i].needsCollection
        /\ \A i \in 1..(n - 1) : stack'[i].children = stack[i].children
    BY <1>4, <1>8
  <2>2. IsToBeCharged(p) => IsToBeCharged(p)'
    BY <1>3, <1>5, <1>8, <2>1, StaysToBeCharged
  <2>3. ASSUME IsListed(p) PROVE IsListed(p)'
    <3>1. PICK i \in 1..n : \E c \in ToSet(stack[i].children) : c \in Above[p]
      BY <1>3, <2>3 DEF IsListed
    <3>2. i # n
      BY <1>1, <1>4, <3>1 DEF ToSet
    <3>3. i \in 1..(n - 1) /\ i \in 1..n
      BY <1>4, <3>2
    <3> QED
      BY <1>8, <2>1, <3>1, <3>3 DEF IsListed
  <2>4. PICK t : t = Top.group
    OBVIOUS
  <2>5. ASSUME t \in Above[p], t # p PROVE IsListed(p)'
    <3>1. PICK d \in Above[p] \ {Root} : Parent[d] = t
      BY <1>5, <2>5, WayDown
    <3>2. d \in exists
      BY <1>5, <3>1, AboveExists
    <3>3. d \in ToSet(stack'[n].children)
      BY <1>5, <1>8, <2>4, <3>1, <3>2 DEF ChildrenOf
    <3> QED
      BY <1>4, <1>8, <3>1, <3>3 DEF IsListed
  <2>6. ASSUME t = p PROVE IsToBeCharged(p)'
    <3>1. Top.needsCollection
      BY <1>1, <1>3, <1>4, <1>5, <2>4, <2>6 DEF NeedInv
    <3>2. t = Root
      BY <1>6, <2>4, <3>1
    <3>3. IsCharged(p, t)
      BY <2>6, <3>2, AboveRoot DEF IsCharged
    <3> QED
      BY <1>4, <1>8, <2>4, <3>1, <3>3 DEF IsToBeCharged
  <2> QED
    BY <2>2, <2>3, <2>4, <2>5, <2>6 DEF IsAwaited
<1> QED
  BY <1>2, <1>3, <1>7, <1>8, ReplaceFacts

(* What a group that is returned from has come to in the other steps.        *)
LEMMA OtherReturns ==
    ASSUME WalkInv, PathInv, [Next]_vars, calm', at' # "idle",
           ~Start, ~Observe, ~HasProcesses, ~ListChildren, stack # <<>>, Return
    PROVE  \/ UNCHANGED stack
           \/ /\ Top.children = <<>>
              /\ ~Top.needsCollection \/ Top.group \in (Collected \cup complaints)'
              /\ at \in {"procs", "list"} => Top.group \notin exists
<1>1. ~FailToClassify /\ ~FailToObserve /\ ~FailToRead /\ ~FailToCalculate
  BY CalmStep
<1>2. services' = services
  BY DEF Return
<1>3. CASE HasProcessesRaces
  <2>1. at = "procs" /\ Top.group \notin exists
    BY <1>3 DEF HasProcessesRaces
  <2> QED
    BY <2>1 DEF PathInv, WalkInv, FramesFit
<1>4. CASE LeaveOut
  BY <1>4 DEF LeaveOut, Decided, Complain
<1>5. CASE OwnRaces \/ KidRaces \/ ParentRaces \/ Record
  <2>1. IsReading
    BY <1>5 DEF IsReading, OwnRaces, KidRaces, ParentRaces, Record, Reads, HasRead
  <2>2. at \notin {"procs", "list"}
    BY <2>1 DEF IsReading
  <2>3. /\ Top.children = <<>> /\ Service[Top.group] \in DOMAIN services
        /\ services[Service[Top.group]] = Top.group
    BY <2>1 DEF WalkInv, FramesFit, IsTaken
  <2>4. Top.group \in Collected'
    BY <1>2, <2>3 DEF Collected
  <2> QED
    BY <2>2, <2>3, <2>4
<1>6. CASE Hierarchy
  BY <1>6, HierarchyChanges DEF Change
<1>7. CASE Collect \/ ListKids \/ ReadOwn \/ ReadKid \/ Finish \/ UNCHANGED vars
  BY <1>7 DEF Collect, ListKids, ReadOwn, ReadKid, Finish, walkVars, vars
<1> QED
  BY <1>1, <1>3, <1>4, <1>5, <1>6, <1>7 DEF Next, Walk

(* Every step keeps account of what the processes use.                       *)
LEMMA NextProcessInv ==
    /\ WalkInv /\ PathInv /\ NeedInv /\ UpInv /\ CalmInv /\ ProcessInv
    /\ [Next]_vars
    => ProcessInv'
<1> SUFFICES ASSUME WalkInv, PathInv, NeedInv, UpInv, CalmInv, ProcessInv,
                    [Next]_vars, calm', at' # "idle", NEW p \in busy'
             PROVE  IsListed(p)' \/ IsAwaited(p)' \/ IsToBeCharged(p)'
  BY DEF ProcessInv
<1>1. CASE Start
  <2>1. /\ at' = "list" /\ Top'.group = Root /\ busy' = busy
    <3>1. /\ stack' = <<Frame(Root, <<>>, TRUE)>> /\ at' = "list"
          /\ busy' = busy
      BY <1>1 DEF Start, hierarchyVars
    <3>2. Top' = Frame(Root, <<>>, TRUE)
      BY <3>1, HierarchyAssumption DEF Top, Last
    <3> QED
      BY <3>1, <3>2 DEF Frame
  <2>2. p \in Groups
    BY <2>1 DEF WalkInv, TypeOK
  <2> QED
    BY <2>1, <2>2, AboveFacts DEF IsAwaited
<1>2. CASE ~Start
  <2>1. /\ calm /\ at # "idle" /\ OnlyLearns /\ p \in busy /\ p \in Groups
        /\ ~FailToClassify
    BY <1>2, CalmStep, StaysBusy, StepLearns DEF WalkInv, TypeOK
  <2>2. IsListed(p) \/ IsAwaited(p) \/ IsToBeCharged(p)
    BY <2>1 DEF ProcessInv
  <2>3. CASE Observe
    <3>1. ~IsAwaited(p)
      BY <2>3 DEF Observe, IsAwaited
    <3> QED
      BY <2>1, <2>2, <2>3, <3>1, ObserveCharges
  <2>4. CASE HasProcesses
    BY <2>1, <2>2, <2>4, HasProcessesCharges
  <2>5. CASE ListChildren
    BY <2>1, <2>2, <2>5, ListChildrenCharges
  <2>6. CASE ~Observe /\ ~HasProcesses /\ ~ListChildren
    <3>1. CASE /\ UNCHANGED stack
               /\ at \in {"procs", "list"} => at' = at
      <4>1. Top' = Top
        BY <3>1 DEF Top
      <4>2. IsToBeCharged(p) => IsToBeCharged(p)'
        BY <2>1, <3>1, StaysToBeCharged
      <4> QED
        BY <2>2, <3>1, <4>1, <4>2 DEF IsListed, IsAwaited
    <3>2. CASE stack # <<>> /\ Return /\ ~UNCHANGED stack
      <4>1. /\ Top.children = <<>>
            /\ ~Top.needsCollection \/ Top.group \in (Collected \cup complaints)'
            /\ at \in {"procs", "list"} => Top.group \notin exists
        BY <1>2, <2>6, <3>2, OtherReturns
      <4> QED
        BY <2>1, <2>2, <3>2, <4>1, ReturnCharges
    <3>3. CASE stack # <<>> /\ Return /\ UNCHANGED stack
      BY <3>3, PopFacts, TopFacts
    <3> QED
      BY <1>2, <2>1, <2>6, <3>1, <3>2, <3>3, OtherMoves
  <2> QED
    BY <2>3, <2>4, <2>5, <2>6
<1> QED
  BY <1>1, <1>2

(* What a process uses is in the metrics of one service at most, wherever it *)
(* is in the hierarchy, and in none only if the log says why or something    *)
(* has changed or failed during the collection (collector.go:92-141 with the *)
(* classifier's TotalExcluding).                                             *)
THEOREM ProcessesAreCountedOnce == Spec => []EveryProcessIsCountedOnce
<1> DEFINE Inv == /\ WalkInv /\ NeedInv /\ PathInv /\ ApartInv
                  /\ UpInv /\ CalmInv /\ ProcessInv
<1>1. Init => Inv
  BY InitWalkInv, InitNeedInv, InitApart, InitCalm
<1>2. Inv /\ [Next]_vars => Inv'
  BY NextWalkInv, NextNeedInv, NextApart, NextUpInv, NextCalmInv, NextProcessInv
<1>3. Inv => EveryProcessIsCountedOnce
  <2> SUFFICES ASSUME Inv, HasEnded, NEW p \in busy
               PROVE  LET by == {g \in ToSet(services) : IsCharged(p, g)}
                      IN  /\ Cardinality(by) <= 1
                          /\ by = {} /\ calm
                             => \E g \in complaints : IsCharged(p, g)
    BY DEF EveryProcessIsCountedOnce
  <2>1. p \in Groups /\ at = "observe" /\ stack = <<>>
    BY DEF WalkInv, TypeOK, HasEnded
  <2>2. Cardinality({g \in ToSet(services) : IsCharged(p, g)}) <= 1
    BY <2>1, AtMostOnce
  <2>3. ASSUME {g \in ToSet(services) : IsCharged(p, g)} = {}, calm
        PROVE  \E g \in complaints : IsCharged(p, g)
    <3>1. IsListed(p) \/ IsAwaited(p) \/ IsToBeCharged(p)
      BY <2>1, <2>3 DEF ProcessInv
    <3>2. ~IsListed(p) /\ ~IsAwaited(p) /\ DOMAIN stack = {}
      BY <2>1 DEF IsListed, IsAwaited
    <3>3. \E g \in Collected \cup complaints : IsCharged(p, g)
      BY <3>1, <3>2 DEF IsToBeCharged
    <3>4. Collected = ToSet(services)
      BY DEF Collected, ToSet
    <3> QED
      BY <2>3, <3>3, <3>4
  <2> QED
    BY <2>2, <2>3
<1> QED
  BY <1>1, <1>2, <1>3, PTL DEF Spec
-----------------------------------------------------------------------------
(* What a collection during which nothing changes and nothing fails says.    *)

(* A group that is collected is not in hand any more, unless it is read.     *)
OpenInv == \A g \in Open \cap Collected : IsReading /\ g = Top.group

(* At first nothing is in hand.                                              *)
LEMMA InitDone == Init => OpenInv
<1> SUFFICES ASSUME Init PROVE OpenInv
  OBVIOUS
<1>1. DOMAIN stack = {} /\ at = "idle"
  BY DEF Init
<1> QED
  BY <1>1 DEF OpenInv, Open

(* A group is read until observe returns.                                    *)
LEMMA ReadingStays ==
    ASSUME WalkInv, [Next]_vars, IsReading
    PROVE  \/ Return
           \/ IsReading' /\ UNCHANGED <<stack, services>>
<1>1. at = "read" \/ at = "recheck"
  BY DEF IsReading
<1> USE <1>1 DEF IsReading, walkVars
<1>2. CASE Hierarchy
  BY <1>2, HierarchyChanges DEF Change, CollectorVars
<1>3. ~Start /\ ~Observe /\ ~FailToClassify /\ ~HasProcesses /\ ~HasProcessesRaces
      /\ ~ListChildren /\ ~FailToObserve /\ ~LeaveOut /\ ~Collect /\ ~Finish
  BY DEF Start, Observe, FailToClassify, HasProcesses, HasProcessesRaces,
     ListChildren, FailToObserve, LeaveOut, Collect, Decided, Finish, HasEnded
<1>4. CASE ListKids \/ ReadOwn \/ ReadKid
  BY <1>4 DEF ListKids, ReadOwn, ReadKid, Reads
<1>5. CASE OwnRaces \/ KidRaces \/ ParentRaces \/ FailToRead
  BY <1>5 DEF OwnRaces, KidRaces, ParentRaces, FailToRead, GiveUp, Reads
<1>6. CASE Record \/ FailToCalculate
  BY <1>6 DEF Record, FailToCalculate, HasRead
<1>7. CASE UNCHANGED vars
  BY <1>7 DEF vars
<1> QED
  BY <1>2, <1>3, <1>4, <1>5, <1>6, <1>7 DEF Next, Walk

(* The groups in hand, and those collected, other than by a step that starts *)
(* or takes one.                                                             *)
LEMMA OpenMoves ==
    ASSUME WalkInv, PathInv, [Next]_vars, ~Start, ~Observe, ~Collect
    PROVE  /\ Collected' \subseteq Collected
           /\ \/ Open' \subseteq Open \ {Top.group} /\ stack # <<>>
              \/ Open' \subseteq Open /\ (IsReading => IsReading' /\ Top' = Top)
              \/ Open' = {}
<1>1. services' = services \/ services' = <<>>
  BY ServicesMove
<1>2. Collected' \subseteq Collected
  <2>1. CASE services' = services
    BY <2>1 DEF Collected
  <2>2. CASE services' = <<>>
    <3>1. DOMAIN services' = {}
      BY <2>2
    <3> QED
      BY <3>1 DEF Collected
  <2> QED
    BY <1>1, <2>1, <2>2
<1>3. ASSUME stack # <<>>, Return PROVE Open' \subseteq Open \ {Top.group}
  <2>1. \A i \in DOMAIN stack' : /\ i \in DOMAIN stack /\ i # Len(stack)
                                 /\ stack'[i] = stack[i]
    BY <1>3, PopFacts
  <2>2. Top = stack[Len(stack)] /\ Len(stack) \in DOMAIN stack
    BY <1>3, TopFacts
  <2>3. \A i \in DOMAIN stack : stack[i].group = Top.group => i = Len(stack)
    BY <2>2 DEF PathInv
  <2> QED
    BY <2>1, <2>3 DEF Open
<1>4. CASE IsReading
  <2>1. stack # <<>>
    BY <1>4 DEF WalkInv, FramesFit, IsReading
  <2>2. CASE Return
    BY <1>2, <1>3, <2>1, <2>2
  <2>3. CASE IsReading' /\ UNCHANGED <<stack, services>>
    BY <1>2, <2>3 DEF Open, Top
  <2> QED
    BY <1>4, <2>2, <2>3, ReadingStays
<1>5. CASE ~IsReading
  <2>1. CASE FailToClassify \/ HasProcesses \/ ListChildren
    <3>1. stack # <<>>
      BY <2>1 DEF FailToClassify, HasProcesses, ListChildren, WalkInv, FramesFit
    <3>2. CASE Return
      BY <1>2, <1>3, <3>1, <3>2
    <3>3. CASE UNCHANGED stack
      BY <1>2, <1>5, <3>3 DEF Open
    <3>4. CASE /\ DOMAIN stack' = DOMAIN stack
               /\ DOMAIN stack = 1..Len(stack) /\ Len(stack) \in Nat \ {0}
               /\ \A i \in 1..(Len(stack) - 1) : stack'[i] = stack[i]
               /\ Top' = stack'[Len(stack)] /\ Top'.group = Top.group
      <4>1. Top = stack[Len(stack)]
        BY <3>1, TopFacts
      <4>2. \A i \in 1..Len(stack) : i \in 1..(Len(stack) - 1) \/ i = Len(stack)
        <5>1. PICK n \in Nat \ {0} : n = Len(stack)
          BY <3>4
        <5>2. \A i \in 1..n : i \in 1..(n - 1) \/ i = n
          OBVIOUS
        <5> QED
          BY <5>1, <5>2
      <4>3. \A i \in DOMAIN stack' : stack'[i].group = stack[i].group
        BY <3>4, <4>1, <4>2
      <4>4. Open' \subseteq Open
        BY <3>4, <4>3 DEF Open
      <4> QED
        BY <1>2, <1>5, <4>4
    <3> QED
      BY <2>1, <3>2, <3>3, <3>4, ReplaceFacts
  <2>2. CASE ~FailToClassify /\ ~HasProcesses /\ ~ListChildren
    <3>1. CASE UNCHANGED stack
      BY <1>2, <1>5, <3>1 DEF Open
    <3>2. CASE stack # <<>> /\ Return
      BY <1>2, <1>3, <3>2
    <3>3. CASE stack' = <<>>
      <4>1. DOMAIN stack' = {}
        BY <3>3
      <4> QED
        BY <1>2, <4>1 DEF Open
    <3> QED
      BY <2>2, <3>1, <3>2, <3>3, OtherMoves
  <2> QED
    BY <2>1, <2>2
<1> QED
  BY <1>4, <1>5

(* Every step keeps what is collected apart from what is in hand.            *)
LEMMA NextOpenInv ==
    WalkInv /\ PathInv /\ ApartInv /\ OpenInv /\ [Next]_vars => OpenInv'
<1> SUFFICES ASSUME WalkInv, PathInv, ApartInv, OpenInv, [Next]_vars PROVE OpenInv'
  OBVIOUS
<1>1. CASE Start
  <2>1. DOMAIN services' = {}
    BY <1>1 DEF Start
  <2> QED
    BY <2>1 DEF OpenInv, Collected
<1>2. CASE Observe
  <2>1. PICK c : c = Head(Top.children)
    OBVIOUS
  <2>2. /\ c \in Listed /\ c \in Groups
        /\ Open' \subseteq Open \cup {c} /\ Collected' = Collected
    BY <1>2, <2>1, ObserveMoves
  <2>3. c \notin Collected
    BY <2>2, AboveFacts DEF ApartInv, Seen
  <2>4. ~IsReading
    BY <1>2 DEF Observe, IsReading
  <2> QED
    BY <2>2, <2>3, <2>4 DEF OpenInv
<1>3. CASE Collect
  <2>1. /\ ~IsReading /\ IsReading' /\ stack' = stack
        /\ services' = [s \in DOMAIN services \cup {Service[Top.group]} |->
                           IF s = Service[Top.group] THEN Top.group ELSE services[s]]
    BY <1>3 DEF Collect, Decided, IsReading
  <2>2. Top' = Top /\ Open' = Open /\ Collected' \subseteq Collected \cup {Top.group}
    BY <2>1 DEF Top, Open, Collected
  <2> QED
    BY <2>1, <2>2 DEF OpenInv
<1>4. CASE ~Start /\ ~Observe /\ ~Collect
  BY <1>4, OpenMoves DEF OpenInv
<1> QED
  BY <1>1, <1>2, <1>3, <1>4

(* What is read of a group is needed for it, and the group is asked for      *)
(* again if some of that is missing.                                         *)
ReadInv ==
    IsReading =>
        /\ Top.group # Root => "list" \notin ToSet(plan)
        /\ calm => /\ ToSet(kids) \subseteq Subtracted(Top.group)
                   /\ at = "recheck" => ~CanRead(Head(todo), Top.group)

(* At first nothing is read.                                                 *)
LEMMA InitReadInv == Init => ReadInv
BY DEF Init, ReadInv, IsReading

(* A collector's turn starts with nothing to list of a group but the root.   *)
LEMMA BeginReads ==
    ASSUME NEW g \in Groups, NEW collectors, Begin(collectors, g)
    PROVE  /\ g # Root => "list" \notin ToSet(plan')
           /\ ToSet(kids') \subseteq IF g = Root THEN {} ELSE ToSet(Excluded(g))
<1>1. plan' = Plan(Head(collectors), g) /\ kids' = Excluded(g)
  BY DEF Begin
<1>2. ASSUME g # Root PROVE "list" \notin ToSet(plan')
  <2>1. plan' = <<"own", "kids">> \/ plan' = <<"own">>
    BY <1>1, <1>2 DEF Plan
  <2>2. CASE plan' = <<"own">>
    BY <2>2 DEF ToSet
  <2>3. CASE plan' = <<"own", "kids">>
    <3>1. DOMAIN plan' = {1, 2} /\ plan'[1] = "own" /\ plan'[2] = "kids"
      BY <2>3
    <3> QED
      BY <3>1 DEF ToSet
  <2> QED
    BY <2>1, <2>2, <2>3
<1>3. ASSUME g = Root PROVE ToSet(kids') = {}
  <2>1. Excluded(g) = <<>>
    BY <1>3, HierarchyAssumption DEF Excluded
  <2> QED
    BY <1>1, <2>1 DEF ToSet
<1> QED
  BY <1>1, <1>2, <1>3

(* A step that changes nothing in the file system changes nothing that can   *)
(* be read.                                                                  *)
LEMMA CalmReads ==
    ASSUME exists' = exists, disabled' = disabled, NEW g
    PROVE  /\ Subtracted(g)' = Subtracted(g)
           /\ \A c : CanRead(c, g)' <=> CanRead(c, g)
<1>1. Subtracted(g)' = Subtracted(g)
  BY DEF Subtracted
<1>2. ASSUME NEW c, NEW h PROVE HasFile(c, h)' <=> HasFile(c, h)
  BY DEF HasFile
<1> QED
  BY <1>1, <1>2 DEF CanRead

(* Every step reads what is to be read.                                      *)
LEMMA NextReadInv == WalkInv /\ ReadInv /\ [Next]_vars => ReadInv'
<1> SUFFICES ASSUME WalkInv, ReadInv, [Next]_vars, IsReading' PROVE ReadInv'
  BY DEF ReadInv
<1>1. ~Start /\ ~Finish /\ ~FailToCalculate
  BY DEF Start, Finish, FailToCalculate, Return, IsReading
<1>2. CASE Collect
  <2>1. /\ at = "observe" /\ stack # <<>> /\ at' = "read" /\ stack' = stack
        /\ Begin(Collectors, Top.group)
    BY <1>2 DEF Collect, Decided
  <2>2. PICK g \in Groups : g = Top.group /\ Top'.group = g
    BY <2>1, TopFacts DEF Top
  <2>3. /\ g # Root => "list" \notin ToSet(plan')
        /\ ToSet(kids') \subseteq IF g = Root THEN {} ELSE ToSet(Excluded(g))
    BY <2>1, <2>2, BeginReads
  <2> QED
    BY <2>1, <2>2, <2>3 DEF ReadInv, Subtracted
<1>3. CASE Record
  <2>1. /\ at = "read" /\ stack' = stack /\ IsReading /\ stack # <<>>
    BY <1>3, AfterRecord DEF IsReading, WalkInv, FramesFit
  <2>2. at' = at /\ Begin(Tail(todo), Top.group)
    <3>1. at' # "observe"
      BY DEF IsReading
    <3>2. ~Return
      BY <3>1 DEF Return
    <3> QED
      BY <1>3, <3>2 DEF Record, walkVars
  <2>3. PICK g \in Groups : g = Top.group /\ Top'.group = g
    BY <2>1, TopFacts DEF Top
  <2>4. /\ g # Root => "list" \notin ToSet(plan')
        /\ ToSet(kids') \subseteq IF g = Root THEN {} ELSE ToSet(Excluded(g))
    BY <2>2, <2>3, BeginReads
  <2> QED
    BY <2>1, <2>2, <2>3, <2>4 DEF ReadInv, Subtracted
<1>4. CASE ~Collect /\ ~Record
  <2>1. IsReading /\ stack' = stack /\ ~Return
    <3>1. IsReading /\ stack' = stack
      BY <1>1, <1>4, OtherSteps
    <3>2. ~Return
      BY DEF Return, IsReading
    <3> QED
      BY <3>1, <3>2
  <2>2. PICK t \in Groups : t = Top.group /\ Top'.group = t
    <3>1. stack # <<>> /\ Top' = Top
      BY <2>1 DEF Top, WalkInv, FramesFit, IsReading
    <3> QED
      BY <3>1, TopFacts
  <2>3. /\ t # Root => "list" \notin ToSet(plan)
        /\ calm => /\ ToSet(kids) \subseteq Subtracted(t)
                   /\ at = "recheck" => ~CanRead(Head(todo), t)
    BY <2>1, <2>2 DEF ReadInv
  <2>4. plan \in Seq({"own", "list", "kids"}) /\ kids \in Seq(Groups)
    BY DEF WalkInv, WalkTypes
  <2>5. /\ todo' = todo
        /\ calm' => calm /\ exists' = exists /\ disabled' = disabled
    BY <1>1, <1>4, CalmStep, OtherSteps
  <2>6. calm' => /\ Subtracted(t)' = Subtracted(t)
                 /\ CanRead(Head(todo), t)' <=> CanRead(Head(todo), t)
    BY <2>5, CalmReads
  <2>7. CASE ListKids
    <3>1. /\ at = "read" /\ at' = at /\ plan # <<>> /\ Head(plan) = "list"
          /\ plan' = Tail(plan) /\ kids' = InOrder(ChildrenOf(t) \cap exists)
      BY <2>2, <2>7 DEF ListKids, Reads, walkVars
    <3>2. "list" \in ToSet(plan)
      BY <2>4, <3>1, ListFacts
    <3>3. t = Root
      BY <2>3, <3>2
    <3>4. PICK kin \in SUBSET Groups : kin = ChildrenOf(t) \cap exists
      BY DEF ChildrenOf
    <3>5. ToSet(kids') = kin
      BY <3>1, <3>4, HierarchyAssumption DEF InOrder
    <3> QED
      BY <2>2, <2>5, <2>6, <3>1, <3>3, <3>4, <3>5 DEF ReadInv, Subtracted
  <2>8. CASE ReadOwn
    <3>1. /\ at = "read" /\ at' = at /\ plan # <<>>
          /\ plan' = Tail(plan) /\ kids' = kids
      BY <2>8 DEF ReadOwn, Reads, walkVars
    <3>2. ToSet(plan') \subseteq ToSet(plan)
      BY <2>4, <3>1, ListFacts
    <3> QED
      BY <2>2, <2>3, <2>5, <2>6, <3>1, <3>2 DEF ReadInv
  <2>9. CASE ReadKid
    <3>1. /\ at = "read" /\ at' = at /\ kids # <<>>
          /\ plan' = plan /\ kids' = Tail(kids)
      BY <2>9 DEF ReadKid, Reads, walkVars
    <3>2. ToSet(kids') \subseteq ToSet(kids)
      BY <2>4, <3>1, ListFacts
    <3> QED
      BY <2>2, <2>3, <2>5, <2>6, <3>1, <3>2 DEF ReadInv
  <2>10. CASE KidRaces
    <3>1. /\ kids # <<>> /\ ~HasFile(Head(todo), Head(kids))
          /\ plan' = plan /\ kids' = kids
      BY <2>1, <2>2, <2>10 DEF KidRaces, GiveUp, readVars
    <3>2. Head(kids) \in ToSet(kids)
      BY <2>4, <3>1, ListFacts
    <3>3. calm => ~CanRead(Head(todo), t)
      BY <2>3, <3>1, <3>2 DEF CanRead
    <3> QED
      BY <2>2, <2>3, <2>5, <2>6, <3>1, <3>3 DEF ReadInv
  <2>11. CASE Hierarchy \/ UNCHANGED vars
    <3>1. UNCHANGED <<at, plan, kids>>
      BY <2>11, HierarchyChanges DEF vars, walkVars, readVars, Change,
         CollectorVars
    <3> QED
      BY <2>2, <2>3, <2>5, <2>6, <3>1 DEF ReadInv
  <2> QED
    BY <1>1, <1>4, <2>1, <2>7, <2>8, <2>9, <2>10, <2>11
       DEF Next, Walk, Observe, FailToClassify, HasProcesses, HasProcessesRaces,
           ListChildren, FailToObserve, LeaveOut, Decided, OwnRaces, ParentRaces,
           FailToRead, GiveUp, IsReading
<1> QED
  BY <1>2, <1>3, <1>4

(* What fails in a calm collection fails for want of a file.                 *)
LEMMA FileIsMissing ==
    ASSUME WalkInv, ReadInv, calm, OwnRaces \/ ParentRaces \/ KidRaces
    PROVE  ~CanRead(Head(todo), Top.group)
<1>1. IsReading
  BY DEF OwnRaces, ParentRaces, KidRaces, Reads, IsReading
<1>2. CASE ParentRaces
  BY <1>1, <1>2 DEF ParentRaces, ReadInv
<1>3. CASE KidRaces
  <2>1. kids # <<>> /\ ~HasFile(Head(todo), Head(kids))
    BY <1>3 DEF KidRaces
  <2>2. Head(kids) \in ToSet(kids)
    BY <2>1, ListFacts DEF WalkInv, WalkTypes
  <2> QED
    BY <1>1, <2>1, <2>2 DEF ReadInv, CanRead
<1>4. CASE OwnRaces
  BY <1>4 DEF OwnRaces, CanRead
<1> QED
  BY <1>2, <1>3, <1>4

(* There are the three collectors.                                           *)
LEMMA CollectorsFacts == {"cpu", "memory", "io"} \subseteq ToSet(Collectors)
<1>1. /\ DOMAIN Collectors = {1, 2, 3} /\ Collectors[1] = "cpu"
      /\ Collectors[2] = "memory" /\ Collectors[3] = "io"
  BY DEF Collectors
<1> QED
  BY <1>1 DEF ToSet

(* What a calm collection complains about it cannot collect.                 *)
ComplaintInv ==
    calm /\ at # "idle" =>
        \A g \in complaints : \/ Service[g] = Unclassified
                              \/ IsTaken(g) /\ services[Service[g]] # g
                              \/ \E c \in ToSet(Collectors) : ~CanRead(c, g)

(* At first nothing is complained about.                                     *)
LEMMA InitComplaintInv == Init => ComplaintInv
BY DEF Init, ComplaintInv

(* The group a step complains about is the innermost one.                    *)
LEMMA NewComplaints ==
    ASSUME WalkInv, [Next]_vars, ~Start, calm', NEW g \in complaints', g \notin complaints
    PROVE  /\ stack # <<>> /\ g = Top.group
           /\ LeaveOut \/ (Return /\ (OwnRaces \/ ParentRaces \/ KidRaces))
<1> USE DEF outputVars, Complain
<1>1. ~FailToClassify /\ ~FailToObserve /\ ~FailToRead /\ ~FailToCalculate
  BY CalmStep
<1>2. complaints' # complaints
  OBVIOUS
<1>3. ~Observe /\ ~HasProcesses /\ ~HasProcessesRaces /\ ~ListChildren
  BY <1>2 DEF Observe, HasProcesses, HasProcessesRaces, ListChildren
<1>4. ~Collect /\ ~ListKids /\ ~ReadOwn /\ ~ReadKid /\ ~Record /\ ~Finish
  BY <1>2 DEF Collect, ListKids, ReadOwn, ReadKid, Record, Finish
<1>5. ~Hierarchy
  BY <1>2, HierarchyChanges DEF Change, CollectorVars
<1>6. ~UNCHANGED vars
  BY <1>2 DEF vars
<1>7. CASE LeaveOut
  BY <1>2, <1>7 DEF LeaveOut, Decided
<1>8. CASE OwnRaces \/ ParentRaces
  BY <1>2, <1>8 DEF OwnRaces, ParentRaces, GiveUp, Reads, WalkInv, FramesFit
<1>9. CASE KidRaces
  BY <1>2, <1>9 DEF KidRaces, GiveUp, Reads, WalkInv, FramesFit
<1> QED
  BY <1>1, <1>3, <1>4, <1>5, <1>6, <1>7, <1>8, <1>9 DEF Next, Walk

(* Every step keeps the complaints of a calm collection to those.            *)
LEMMA NextComplaintInv ==
    WalkInv /\ OpenInv /\ ReadInv /\ ComplaintInv /\ [Next]_vars => ComplaintInv'
<1> SUFFICES ASSUME WalkInv, OpenInv, ReadInv, ComplaintInv, [Next]_vars,
                    calm', at' # "idle", NEW g \in complaints'
             PROVE  \/ Service[g] = Unclassified
                    \/ IsTaken(g)' /\ services'[Service[g]] # g
                    \/ \E c \in ToSet(Collectors) : ~CanRead(c, g)'
  BY DEF ComplaintInv
<1>1. CASE Start
  BY <1>1 DEF Start
<1>2. CASE ~Start
  <2>1. /\ calm /\ at # "idle" /\ OnlyLearns
        /\ exists' = exists /\ disabled' = disabled
    BY <1>2, CalmStep, StaysBusy, StepLearns
  <2>2. \A c : CanRead(c, g)' <=> CanRead(c, g)
    BY <2>1, CalmReads
  <2>3. IsTaken(g) /\ services[Service[g]] # g
        => IsTaken(g)' /\ services'[Service[g]] # g
    BY <2>1 DEF OnlyLearns, IsTaken
  <2>4. CASE g \in complaints
    BY <2>1, <2>2, <2>3, <2>4 DEF ComplaintInv
  <2>5. CASE g \notin complaints
    <3>1. /\ stack # <<>> /\ g = Top.group
          /\ LeaveOut \/ (Return /\ (OwnRaces \/ ParentRaces \/ KidRaces))
      BY <1>2, <2>5, NewComplaints
    <3>2. CASE LeaveOut
      <4>1. /\ at = "observe" /\ Top.needsCollection
            /\ Service[g] = Unclassified \/ IsTaken(g)
        BY <2>5, <3>1, <3>2 DEF LeaveOut, Decided
      <4>2. g \in Open
        BY <3>1, TopFacts DEF Open
      <4>3. g \notin Collected
        BY <4>1, <4>2 DEF OpenInv, IsReading
      <4>4. IsTaken(g) => services[Service[g]] # g
        BY <4>3 DEF IsTaken, Collected
      <4> QED
        BY <2>3, <4>1, <4>4
    <3>3. CASE Return /\ (OwnRaces \/ ParentRaces \/ KidRaces)
      <4>1. todo \in CollectorsLeft /\ todo # <<>>
        BY <3>3 DEF OwnRaces, ParentRaces, KidRaces, Reads, IsReading, WalkInv,
           WalkTypes, FramesFit
      <4>2. Head(todo) \in ToSet(Collectors)
        BY <4>1, TodoParts, CollectorsFacts
      <4> QED
        BY <2>1, <2>2, <3>1, <3>3, <4>2, FileIsMissing
    <3> QED
      BY <3>1, <3>2, <3>3
  <2> QED
    BY <2>4, <2>5
<1> QED
  BY <1>1, <1>2
-----------------------------------------------------------------------------
(* The io states that there were when the collection started are there.      *)
KnownInv == at # "idle" => known["io"] \subseteq roots["io"]

(* At first nothing is known.                                                *)
LEMMA InitKnownInv == Init => KnownInv
BY DEF Init, KnownInv

(* What was known stays so until the next collection.                        *)
LEMMA KnownStays == ASSUME WalkInv, [Next]_vars, ~Start PROVE known' = known
<1>1. CASE Hierarchy
  BY <1>1, HierarchyChanges DEF Change, CollectorVars
<1>2. CASE Observe \/ FailToClassify \/ HasProcesses \/ ListChildren
  BY <1>2 DEF Observe, FailToClassify, HasProcesses, ListChildren
<1>3. CASE HasProcessesRaces \/ FailToObserve \/ LeaveOut \/ Collect
  BY <1>3 DEF HasProcessesRaces, FailToObserve, LeaveOut, Collect
<1>4. CASE ListKids \/ ReadOwn \/ ReadKid
  BY <1>4 DEF ListKids, ReadOwn, ReadKid
<1>5. CASE OwnRaces \/ KidRaces \/ ParentRaces \/ FailToRead
  BY <1>5 DEF OwnRaces, KidRaces, ParentRaces, FailToRead, GiveUp
<1>6. CASE Record \/ FailToCalculate \/ Finish
  BY <1>6 DEF Record, FailToCalculate, Finish
<1>7. CASE UNCHANGED vars
  BY <1>7 DEF vars, historyVars
<1> QED
  BY <1>1, <1>2, <1>3, <1>4, <1>5, <1>6, <1>7 DEF Next, Walk

(* Every step of a collection keeps the states there were.                   *)
LEMMA NextKnownInv == WalkInv /\ KnownInv /\ [Next]_vars => KnownInv'
<1> SUFFICES ASSUME WalkInv, KnownInv, [Next]_vars, at' # "idle"
             PROVE  known'["io"] \subseteq roots'["io"]
  BY DEF KnownInv
<1>1. CASE Start
  BY <1>1 DEF Start
<1>2. CASE ~Start
  <2>1. known' = known /\ at # "idle" /\ known["io"] \subseteq roots["io"]
    BY <1>2, KnownStays, StaysBusy DEF KnownInv
  <2>2. roots["io"] \subseteq roots'["io"]
    <3>1. CASE Record \/ FailToCalculate
      <4>1. UNCHANGED roots \/ \E c, g : Mark(c, g)
        BY <3>1 DEF Record, FailToCalculate, stateVars
      <4>2. \A c, g : Mark(c, g) => roots["io"] \subseteq roots'["io"]
        BY DEF Mark, WalkInv, TypeOK, StatefulCollectors
      <4> QED
        BY <4>1, <4>2
    <3>2. CASE Collect
      BY <3>2 DEF Collect, stateVars
    <3>3. CASE ~Record /\ ~FailToCalculate /\ ~Collect
      BY <1>2, <3>3, OtherSteps DEF Finish
    <3> QED
      BY <3>1, <3>2, <3>3
  <2> QED
    BY <2>1, <2>2
<1> QED
  BY <1>1, <1>2

-----------------------------------------------------------------------------
(* A collector has its turn with a group after those before it have read     *)
(* theirs.                                                                   *)
UpTo == [cpu |-> {"cpu"}, memory |-> {"cpu", "memory"},
         io |-> {"cpu", "memory", "io"}]

CanReach(c, g) == \A b \in UpTo[c] : CanRead(b, g)

(* The collectors that are left have the first of them before them.          *)
LEMMA UpToFacts ==
    ASSUME NEW s \in CollectorsLeft, s # <<>>, NEW c \in ToSet(s)
    PROVE  Head(s) \in UpTo[c]
<1>1. CASE s = <<"io">>
  BY <1>1 DEF ToSet, UpTo
<1>2. CASE s = <<"memory", "io">>
  <2>1. DOMAIN s = {1, 2} /\ s[1] = "memory" /\ s[2] = "io" /\ Head(s) = "memory"
    BY <1>2
  <2> QED
    BY <2>1 DEF ToSet, UpTo
<1>3. CASE s = <<"cpu", "memory", "io">>
  <2>1. /\ DOMAIN s = {1, 2, 3} /\ s[1] = "cpu" /\ s[2] = "memory" /\ s[3] = "io"
        /\ Head(s) = "cpu"
    BY <1>3
  <2> QED
    BY <2>1 DEF ToSet, UpTo
<1> QED
  BY <1>1, <1>2, <1>3 DEF CollectorsLeft

(* Collector c has said what it has to of g, or is still to do so.           *)
IsSaid(c, g) ==
    \/ HasSample(c, g)
    \/ c = "io" /\ IsRootGroup(g) /\ g \notin known["io"]

IsToBeSaid(c, g) == IsReading /\ Top.group = g /\ c \in ToSet(todo)

SampleInv ==
    calm /\ at # "idle" =>
        \A g \in Groups : IsTaken(g) /\ services[Service[g]] = g =>
            \A c \in ToSet(Collectors) :
                CanReach(c, g) => IsSaid(c, g) \/ IsToBeSaid(c, g)

(* At first nothing is owed a sample.                                        *)
LEMMA InitSampleInv == Init => SampleInv
BY DEF Init, SampleInv

(* What is said stays so.                                                    *)
LEMMA SaidStays ==
    ASSUME WalkInv,
           samples' = samples \/ \E e \in Samples : samples' = Append(samples, e),
           known' = known, NEW g \in Groups, NEW c, IsSaid(c, g)
    PROVE  IsSaid(c, g)'
<1>1. samples \in Seq(Samples)
  BY DEF WalkInv, WalkTypes
<1>2. \A i \in DOMAIN samples : i \in DOMAIN samples' /\ samples'[i] = samples[i]
  <2>1. CASE samples' = samples
    BY <2>1
  <2>2. CASE \E e \in Samples : samples' = Append(samples, e)
    BY <1>1, <2>2
  <2> QED
    BY <2>1, <2>2
<1>3. HasSample(c, g) => HasSample(c, g)'
  BY <1>2 DEF HasSample, ToSet
<1> QED
  BY <1>3 DEF IsSaid

(* Every step but the start of a collection says at most one thing more.     *)
LEMMA OneMoreSample ==
    ASSUME WalkInv, [Next]_vars, ~Start
    PROVE  samples' = samples \/ \E e \in Samples : samples' = Append(samples, e)
<1>1. CASE Record
  <2>1. /\ at = "read" /\ todo \in CollectorsLeft /\ todo # <<>> /\ stack # <<>>
    BY <1>1 DEF Record, HasRead, WalkInv, WalkTypes, FramesFit, IsReading
  <2>2. <<Head(todo), Service[Top.group]>> \in Samples
    BY <2>1, TopFacts, TodoParts DEF Samples
  <2> QED
    BY <1>1, <2>2 DEF Record
<1>2. CASE Collect \/ FailToCalculate \/ Finish
  BY <1>2 DEF Collect, FailToCalculate, Finish, outputVars
<1>3. CASE ~Record /\ ~Collect /\ ~FailToCalculate /\ ~Finish
  BY <1>3, OtherSteps
<1> QED
  BY <1>1, <1>2, <1>3

(* The collector whose turn it is says what it has to.                       *)
LEMMA RecordSays ==
    ASSUME WalkInv, KnownInv, Record, NEW c, c = Head(todo),
           NEW t \in Groups, t = Top.group
    PROVE  IsSaid(c, t)' /\ \A d \in ToSet(todo) \ {c} : IsToBeSaid(d, t)'
<1>1. /\ at = "read" /\ IsReading /\ todo \in CollectorsLeft /\ todo # <<>>
      /\ stack # <<>>
  BY DEF Record, HasRead, WalkInv, WalkTypes, FramesFit, IsReading
<1>3. known' = known /\ at # "idle"
  BY <1>1 DEF Record
<1>4. IsSaid(c, t)'
  <2>1. PICK isFirst : isFirst = (KeepsRootState(c, t) /\ t \notin roots[c])
    OBVIOUS
  <2>2. samples' = IF OnlyStartsState(c, isFirst) THEN samples
                   ELSE Append(samples, <<c, Service[t]>>)
    BY <2>1 DEF Record
  <2>3. CASE OnlyStartsState(c, isFirst)
    <3>1. c = "io" /\ IsRootGroup(t) /\ t \notin roots["io"]
      BY <2>1, <2>3 DEF OnlyStartsState, KeepsRootState
    <3> QED
      BY <1>3, <3>1 DEF KnownInv, IsSaid
  <2>4. CASE ~OnlyStartsState(c, isFirst)
    <3>1. samples \in Seq(Samples) /\ <<c, Service[t]>> \in Samples
      BY <1>1, TodoParts DEF WalkInv, WalkTypes, Samples
    <3>2. samples' = Append(samples, <<c, Service[t]>>)
      BY <2>2, <2>4
    <3>3. /\ Len(samples) + 1 \in DOMAIN samples'
          /\ samples'[Len(samples) + 1] = <<c, Service[t]>>
      BY <3>1, <3>2
    <3> QED
      BY <3>3 DEF IsSaid, HasSample, ToSet
  <2> QED
    BY <2>3, <2>4
<1>5. ASSUME NEW d \in ToSet(todo) \ {c} PROVE IsToBeSaid(d, t)'
  <2>1. todo \in Seq({"cpu", "memory", "io"})
    <3>1. /\ <<"io">> \in Seq({"cpu", "memory", "io"})
          /\ <<"memory", "io">> \in Seq({"cpu", "memory", "io"})
          /\ <<"cpu", "memory", "io">> \in Seq({"cpu", "memory", "io"})
      OBVIOUS
    <3>2. todo \in {<<"io">>, <<"memory", "io">>, <<"cpu", "memory", "io">>}
      BY <1>1 DEF CollectorsLeft
    <3> QED
      BY <3>1, <3>2
  <2>2. d \in ToSet(Tail(todo))
    BY <1>1, <1>5, <2>1, ListFacts
  <2>3. Len(todo) > 1
    <3>1. DOMAIN Tail(todo) # {}
      BY <2>2 DEF ToSet
    <3>2. PICK n \in Nat \ {0} : n = Len(todo)
      BY <1>1, <2>1, EmptySeq
    <3>3. DOMAIN Tail(todo) = 1..(n - 1)
      BY <1>1, <2>1, <3>2
    <3>4. n = 1 => 1..(n - 1) = {}
      OBVIOUS
    <3> QED
      BY <3>1, <3>2, <3>3, <3>4
  <2>4. Begin(Tail(todo), t) /\ stack' = stack /\ at' = at
    BY <2>3 DEF Record, walkVars
  <2>5. todo' = Tail(todo) /\ Top' = Top
    BY <2>4 DEF Begin, Top
  <2> QED
    BY <1>1, <2>2, <2>4, <2>5 DEF IsToBeSaid, IsReading
<1> QED
  BY <1>4, <1>5

(* Every step keeps what the collectors have to say said, or to be said.     *)
LEMMA NextSampleInv ==
    WalkInv /\ ReadInv /\ KnownInv /\ SampleInv /\ [Next]_vars => SampleInv'
<1> SUFFICES ASSUME WalkInv, ReadInv, KnownInv, SampleInv, [Next]_vars,
                    calm', at' # "idle", NEW g \in Groups,
                    IsTaken(g)', services'[Service[g]] = g,
                    NEW c \in ToSet(Collectors), CanReach(c, g)'
             PROVE  IsSaid(c, g)' \/ IsToBeSaid(c, g)'
  BY DEF SampleInv
<1>1. CASE Start
  BY <1>1 DEF Start, IsTaken
<1>2. CASE ~Start
  <2>1. /\ calm /\ at # "idle" /\ exists' = exists /\ disabled' = disabled
        /\ known' = known /\ ~FailToRead /\ ~FailToCalculate
    BY <1>2, CalmStep, StaysBusy, KnownStays
  <2>2. CanReach(c, g)
    BY <2>1, CalmReads DEF CanReach
  <2>3. IsSaid(c, g) => IsSaid(c, g)'
    BY <1>2, <2>1, SaidStays, OneMoreSample
  <2>4. CASE Collect
    <3>1. /\ services' = [s \in DOMAIN services \cup {Service[Top.group]} |->
                             IF s = Service[Top.group] THEN Top.group
                             ELSE services[s]]
          /\ at = "observe" /\ at' = "read" /\ todo' = Collectors
          /\ UNCHANGED stack
      BY <2>4 DEF Collect, Decided, Begin
    <3>2. CASE g = Top.group
      BY <3>1, <3>2 DEF IsToBeSaid, IsReading, Top
    <3>3. CASE g # Top.group
      <4>1. IsTaken(g) /\ services[Service[g]] = g
        BY <3>1, <3>3 DEF IsTaken
      <4>2. ~IsToBeSaid(c, g)
        BY <3>1 DEF IsToBeSaid, IsReading
      <4> QED
        BY <2>1, <2>2, <2>3, <4>1, <4>2 DEF SampleInv
    <3> QED
      BY <3>2, <3>3
  <2>5. CASE ~Collect
    <3>1. services' = services
      BY <1>2, <2>1, <2>5, OtherSteps, AfterRecord DEF Finish
    <3>2. IsSaid(c, g) \/ IsToBeSaid(c, g)
      BY <2>1, <2>2, <3>1 DEF SampleInv, IsTaken
    <3>3. CASE IsToBeSaid(c, g)
      <4>1. IsReading /\ g = Top.group /\ c \in ToSet(todo) /\ stack # <<>>
        BY <3>3 DEF IsToBeSaid, IsReading, WalkInv, FramesFit
      <4>2. CASE Record
        <5>1. PICK d : d = Head(todo)
          OBVIOUS
        <5> QED
          BY <4>1, <4>2, <5>1, RecordSays
      <4>3. CASE ~Record /\ Return
        <5>1. at' = "observe" /\ at # "observe"
          BY <4>1, <4>3 DEF Return, IsReading
        <5>2. CASE OwnRaces \/ ParentRaces \/ KidRaces
          <6>1. todo \in CollectorsLeft
            BY DEF WalkInv, WalkTypes
          <6>2. todo # <<>>
            BY <4>1 DEF WalkInv, FramesFit
          <6>3. Head(todo) \in UpTo[c]
            BY <4>1, <6>1, <6>2, UpToFacts
          <6> QED
            BY <2>1, <2>2, <4>1, <5>2, <6>3, FileIsMissing DEF CanReach
        <5>3. CASE Hierarchy \/ ListKids \/ ReadOwn \/ ReadKid \/ UNCHANGED vars
          <6>1. at' = at
            BY <5>3, HierarchyChanges DEF Change, CollectorVars, ListKids,
               ReadOwn, ReadKid, walkVars, vars
          <6> QED
            BY <5>1, <6>1
        <5> QED
          BY <1>2, <2>1, <2>5, <4>1, <4>3, <5>2, <5>3
             DEF Next, Walk, Observe, FailToClassify, HasProcesses,
                 HasProcessesRaces, ListChildren, FailToObserve, LeaveOut,
                 Decided, Finish, HasEnded, IsReading
      <4>4. CASE ~Record /\ IsReading' /\ UNCHANGED <<stack, services>>
        <5>1. ~Finish
          BY <4>4 DEF Finish, IsReading
        <5>2. todo' = todo /\ Top' = Top
          BY <1>2, <2>1, <2>5, <4>4, <5>1, OtherSteps DEF Top
        <5> QED
          BY <4>1, <4>4, <5>2 DEF IsToBeSaid
      <4> QED
        BY <4>1, <4>2, <4>3, <4>4, ReadingStays
    <3> QED
      BY <2>3, <3>2, <3>3
  <2> QED
    BY <2>4, <2>5
<1> QED
  BY <1>1, <1>2

(* A collection during which nothing changes and nothing fails says all that *)
(* can be read, collector by collector, and complains only about groups it   *)
(* cannot collect, whichever files are missing (collector.go:92-179,         *)
(* group.go:94-109).                                                         *)
THEOREM CalmIsComplete == Spec => []CalmCollectionIsComplete
<1> DEFINE Inv == /\ WalkInv /\ NeedInv /\ CoverageInv /\ PathInv /\ ApartInv
                  /\ OpenInv /\ ReadInv /\ ComplaintInv /\ KnownInv /\ SampleInv
<1>1. Init => Inv
  BY InitWalkInv, InitNeedInv, InitCoverageInv, InitApart, InitDone,
     InitReadInv, InitComplaintInv, InitKnownInv, InitSampleInv
<1>2. Inv /\ [Next]_vars => Inv'
  BY NextWalkInv, NextNeedInv, NextCoverageInv, NextApart, NextOpenInv,
     NextReadInv, NextComplaintInv, NextKnownInv, NextSampleInv
<1>3. Inv => CalmCollectionIsComplete
  <2> SUFFICES ASSUME Inv, HasEnded, calm
               PROVE  CalmCollectionIsComplete
    BY DEF CalmCollectionIsComplete
  <2>1. at # "idle" /\ ~IsReading
    BY DEF HasEnded, IsReading
  <2>2. ASSUME NEW g \in complaints
        PROVE  \/ Service[g] = Unclassified
               \/ services[Service[g]] # g
               \/ \E c \in ToSet(Collectors) : ~CanRead(c, g)
    BY <2>1 DEF ComplaintInv
  <2>3. ASSUME NEW g \in Groups, IsDue(g), services[Service[g]] = g,
               NEW c \in {"cpu", "memory", "io"}, CanReach(c, g)
        PROVE  IsSaid(c, g)
    <3>1. IsTaken(g)
      BY <2>3, EndIsSettled DEF DueGroupsAreCollected
    <3> QED
      BY <2>1, <2>3, <3>1, CollectorsFacts DEF SampleInv, IsToBeSaid
  <2>4. ASSUME NEW g \in Groups, IsDue(g), services[Service[g]] = g,
               CanRead("cpu", g)
        PROVE  /\ HasSample("cpu", g)
               /\ CanRead("memory", g) =>
                     /\ HasSample("memory", g)
                     /\ CanRead("io", g) =>
                           \/ HasSample("io", g)
                           \/ IsRootGroup(g) /\ g \notin known["io"]
    <3>1. /\ CanReach("cpu", g)
          /\ CanRead("memory", g) => CanReach("memory", g)
          /\ CanRead("memory", g) /\ CanRead("io", g) => CanReach("io", g)
      BY <2>4 DEF CanReach, UpTo
    <3>2. IsSaid("cpu", g)
      BY <2>3, <2>4, <3>1
    <3>3. CanRead("memory", g) => IsSaid("memory", g)
      BY <2>3, <2>4, <3>1
    <3>4. CanRead("memory", g) /\ CanRead("io", g) => IsSaid("io", g)
      BY <2>3, <2>4, <3>1
    <3> QED
      BY <3>2, <3>3, <3>4 DEF IsSaid
  <2> QED
    BY <2>2, <2>4 DEF CalmCollectionIsComplete
<1> QED
  BY <1>1, <1>2, <1>3, PTL DEF Spec
-----------------------------------------------------------------------------
(* How far a collection is from its end.                                     *)

(* The groups the walk may still enter, one by one.                          *)
IsLeft(d) ==
    \/ \E c \in Listed : c \in Above[d]
    \/ IsAwaited(d) /\ d # Top.group

(* They are the groups below those listed, and below the one that is asked.  *)
LEMMA LeftIs ==
    /\ GroupsLeft = {d \in Groups : IsLeft(d)}
    /\ GroupsLeft' = {d \in Groups : IsLeft(d)'}
<1>1. \A d \in Groups : (\E c \in Listed : c \in Above[d])
         <=> \E frame \in ToSet(stack) : ToSet(frame.children) \cap Above[d] # {}
  BY DEF Listed, ToSet
<1>2. \A d \in Groups : (\E c \in Listed' : c \in Above[d])
         <=> \E frame \in ToSet(stack') : ToSet(frame.children) \cap Above[d] # {}
  BY DEF Listed, ToSet
<1> QED
  BY <1>1, <1>2 DEF GroupsLeft, IsLeft, IsAwaited

(* There are finitely many of them.                                          *)
LEMMA LeftFacts ==
    /\ GroupsLeft \subseteq Groups
    /\ IsFiniteSet(GroupsLeft) /\ Cardinality(GroupsLeft) \in Nat
BY LeftIs, RaceAssumption, FS_Subset, FS_CardinalityType

(* Six numbers of which the first that differs is less.                      *)
LEMMA Lexicographic ==
    ASSUME NEW a1 \in Nat, NEW a2 \in Nat, NEW a3 \in Nat,
           NEW a4 \in Nat, NEW a5 \in Nat, NEW a6 \in Nat,
           NEW b1 \in Nat, NEW b2 \in Nat, NEW b3 \in Nat,
           NEW b4 \in Nat, NEW b5 \in Nat, NEW b6 \in Nat,
           \/ b1 < a1
           \/ b1 = a1 /\ \/ b2 < a2
                         \/ b2 = a2 /\ \/ b3 < a3
                                       \/ b3 = a3 /\ \/ b4 < a4
                                                     \/ b4 = a4 /\ \/ b5 < a5
                                                                   \/ b5 = a5 /\ b6 < a6
    PROVE  IsLess(<<b1, b2, b3, b4, b5, b6>>, <<a1, a2, a3, a4, a5, a6>>)
<1> DEFINE b == <<b1, b2, b3, b4, b5, b6>>
           a == <<a1, a2, a3, a4, a5, a6>>
<1>1. /\ DOMAIN b = 1..6
      /\ b[1] = b1 /\ b[2] = b2 /\ b[3] = b3 /\ b[4] = b4 /\ b[5] = b5 /\ b[6] = b6
      /\ a[1] = a1 /\ a[2] = a2 /\ a[3] = a3 /\ a[4] = a4 /\ a[5] = a5 /\ a[6] = a6
  OBVIOUS
<1>2. \E i \in 1..6 : b[i] < a[i] /\ \A j \in 1..(i - 1) : b[j] = a[j]
  <2> HIDE DEF a, b
  <2>1. CASE b1 < a1
    <3>1. 1 \in 1..6 /\ \A j \in 1..(1 - 1) : b[j] = a[j]
      OBVIOUS
    <3> QED
      BY <1>1, <2>1, <3>1
  <2>2. CASE b1 = a1 /\ b2 < a2
    <3>1. 2 \in 1..6 /\ \A j \in 1..(2 - 1) : j = 1
      OBVIOUS
    <3> QED
      BY <1>1, <2>2, <3>1
  <2>3. CASE b1 = a1 /\ b2 = a2 /\ b3 < a3
    <3>1. 3 \in 1..6 /\ \A j \in 1..(3 - 1) : j = 1 \/ j = 2
      OBVIOUS
    <3> QED
      BY <1>1, <2>3, <3>1
  <2>4. CASE b1 = a1 /\ b2 = a2 /\ b3 = a3 /\ b4 < a4
    <3>1. 4 \in 1..6 /\ \A j \in 1..(4 - 1) : j = 1 \/ j = 2 \/ j = 3
      OBVIOUS
    <3> QED
      BY <1>1, <2>4, <3>1
  <2>5. CASE b1 = a1 /\ b2 = a2 /\ b3 = a3 /\ b4 = a4 /\ b5 < a5
    <3>1. 5 \in 1..6 /\ \A j \in 1..(5 - 1) : j = 1 \/ j = 2 \/ j = 3 \/ j = 4
      OBVIOUS
    <3> QED
      BY <1>1, <2>5, <3>1
  <2>6. CASE b1 = a1 /\ b2 = a2 /\ b3 = a3 /\ b4 = a4 /\ b5 = a5 /\ b6 < a6
    <3>1. /\ 6 \in 1..6
          /\ \A j \in 1..(6 - 1) : j = 1 \/ j = 2 \/ j = 3 \/ j = 4 \/ j = 5
      OBVIOUS
    <3> QED
      BY <1>1, <2>6, <3>1
  <2> QED
    BY <2>1, <2>2, <2>3, <2>4, <2>5, <2>6
<1> QED
  BY <1>1, <1>2 DEF IsLess

(* The stages of a frame.                                                    *)
LEMMA StageFacts ==
    /\ Stages["idle"] = 0 /\ Stages["recheck"] = 1 /\ Stages["read"] = 2
    /\ Stages["observe"] = 3 /\ Stages["list"] = 4 /\ Stages["procs"] = 5
    /\ \A s \in {"idle", "observe", "procs", "list", "read", "recheck"} :
          Stages[s] \in Nat
BY DEF Stages

(* What it takes for a step to leave less to do.                             *)
LEMMA LeavesLess ==
    ASSUME WalkInv, WalkInv', GroupsLeft' \subseteq GroupsLeft,
           \/ GroupsLeft' # GroupsLeft
           \/ Len(stack') < Len(stack)
           \/ /\ Len(stack') = Len(stack)
              /\ \/ Stages[at'] < Stages[at]
                 \/ at' = at /\ Len(todo') < Len(todo)
                 \/ at' = at /\ todo' = todo /\ Len(plan') < Len(plan)
                 \/ at' = at /\ todo' = todo /\ plan' = plan /\ Len(kids') < Len(kids)
    PROVE  IsLess(WorkLeft', WorkLeft)
<1>1. IsFiniteSet(GroupsLeft) /\ Cardinality(GroupsLeft) \in Nat
  BY LeftFacts
<1>2. /\ Cardinality(GroupsLeft') <= Cardinality(GroupsLeft)
      /\ Cardinality(GroupsLeft) = Cardinality(GroupsLeft') => GroupsLeft = GroupsLeft'
      /\ Cardinality(GroupsLeft') \in Nat
  BY <1>1, FS_Subset, FS_CardinalityType
<1>3. \A s \in CollectorsLeft : Len(s) \in Nat
  BY DEF CollectorsLeft
<1>4. PICK a1 \in Nat, a2 \in Nat, a3 \in Nat, a4 \in Nat, a5 \in Nat, a6 \in Nat :
         /\ a1 = Cardinality(GroupsLeft) /\ a2 = Len(stack) /\ a3 = Stages[at]
         /\ a4 = Len(todo) /\ a5 = Len(plan) /\ a6 = Len(kids)
  <2>1. /\ Len(stack) \in Nat /\ Len(todo) \in Nat
        /\ Len(plan) \in Nat /\ Len(kids) \in Nat
    <3>1. /\ stack \in Seq(FrameTypes) /\ todo \in CollectorsLeft
          /\ plan \in Seq({"own", "list", "kids"}) /\ kids \in Seq(Groups)
      BY DEF WalkInv, TypeOK, WalkTypes, FrameTypes
    <3> QED
      BY <1>3, <3>1
  <2>2. Stages[at] \in Nat
    BY StageFacts DEF WalkInv, TypeOK
  <2> QED
    BY <1>1, <2>1, <2>2
<1>5. PICK b1 \in Nat, b2 \in Nat, b3 \in Nat, b4 \in Nat, b5 \in Nat, b6 \in Nat :
         /\ b1 = Cardinality(GroupsLeft') /\ b2 = Len(stack') /\ b3 = Stages[at']
         /\ b4 = Len(todo') /\ b5 = Len(plan') /\ b6 = Len(kids')
  <2>1. /\ Len(stack') \in Nat /\ Len(todo') \in Nat
        /\ Len(plan') \in Nat /\ Len(kids') \in Nat
    <3>1. /\ stack' \in Seq(FrameTypes) /\ todo' \in CollectorsLeft
          /\ plan' \in Seq({"own", "list", "kids"}) /\ kids' \in Seq(Groups)
      BY DEF WalkInv, TypeOK, WalkTypes, FrameTypes
    <3> QED
      BY <1>3, <3>1
  <2>2. Stages[at'] \in Nat
    BY StageFacts DEF WalkInv, TypeOK
  <2> QED
    BY <1>2, <2>1, <2>2
<1>6. /\ WorkLeft = <<a1, a2, a3, a4, a5, a6>>
      /\ WorkLeft' = <<b1, b2, b3, b4, b5, b6>>
  BY <1>4, <1>5 DEF WorkLeft
<1>7. \/ b1 < a1
      \/ b1 = a1 /\ b2 < a2
      \/ b1 = a1 /\ b2 = a2 /\ b3 < a3
      \/ b1 = a1 /\ b2 = a2 /\ b3 = a3 /\ b4 < a4
      \/ b1 = a1 /\ b2 = a2 /\ b3 = a3 /\ b4 = a4 /\ b5 < a5
      \/ b1 = a1 /\ b2 = a2 /\ b3 = a3 /\ b4 = a4 /\ b5 = a5 /\ b6 < a6
  BY <1>2, <1>4, <1>5
<1> QED
  BY <1>6, <1>7, Lexicographic

(* A step back leaves a frame less, and lists nothing.                       *)
LEMMA FewerFramesAdvance ==
    ASSUME WalkInv, WalkInv', at' \notin {"procs", "list"},
           \A i \in DOMAIN stack' : i \in DOMAIN stack /\ stack'[i] = stack[i],
           Len(stack') < Len(stack)
    PROVE  IsLess(WorkLeft', WorkLeft)
<1>1. Listed' \subseteq Listed
  BY DEF Listed
<1>2. \A d \in Groups : IsLeft(d)' => IsLeft(d)
  BY <1>1 DEF IsLeft, IsAwaited
<1>3. GroupsLeft' \subseteq GroupsLeft
  BY <1>2, LeftIs
<1> QED
  BY <1>3, LeavesLess

(* observe returns to the frame below.                                       *)
LEMMA ReturnAdvances ==
    ASSUME WalkInv, WalkInv', stack # <<>>, Return
    PROVE  IsLess(WorkLeft', WorkLeft)
<1>1. \A i \in DOMAIN stack' : i \in DOMAIN stack /\ stack'[i] = stack[i]
  BY PopFacts
<1>2. Len(stack') < Len(stack)
  <2>1. /\ Len(Front(stack)) = Len(stack) - 1 /\ Len(stack) \in Nat \ {0}
    BY StackFacts DEF WalkInv, TypeOK, FrameTypes
  <2> QED
    BY <2>1 DEF Return
<1>3. at' = "observe"
  BY DEF Return
<1> QED
  BY <1>1, <1>2, <1>3, FewerFramesAdvance

(* observe returns an error, and every frame with it.                        *)
LEMMA AbortAdvances ==
    ASSUME WalkInv, WalkInv', stack # <<>>, AbortWalk
    PROVE  IsLess(WorkLeft', WorkLeft)
<1>1. stack' = <<>> /\ at' = "idle"
  BY DEF AbortWalk
<1>2. DOMAIN stack' = {} /\ Len(stack') = 0
  BY <1>1
<1>3. Len(stack) \in Nat \ {0}
  BY TopFacts
<1> QED
  BY <1>1, <1>2, <1>3, FewerFramesAdvance

(* The frames are those there were, and the innermost goes on.               *)
LEMMA SameFramesAdvance ==
    ASSUME WalkInv, WalkInv', UNCHANGED stack,
           at' \in {"procs", "list"} => at \in {"procs", "list"},
           \/ Stages[at'] < Stages[at]
           \/ at' = at /\ Len(todo') < Len(todo)
           \/ at' = at /\ todo' = todo /\ Len(plan') < Len(plan)
           \/ at' = at /\ todo' = todo /\ plan' = plan /\ Len(kids') < Len(kids)
    PROVE  IsLess(WorkLeft', WorkLeft)
<1>1. Listed' = Listed /\ Top' = Top
  BY DEF Listed, Top
<1>2. \A d \in Groups : IsLeft(d)' => IsLeft(d)
  BY <1>1 DEF IsLeft, IsAwaited
<1>3. GroupsLeft' \subseteq GroupsLeft
  BY <1>2, LeftIs
<1>4. Len(stack') = Len(stack)
  OBVIOUS
<1> QED
  BY <1>3, <1>4, LeavesLess

(* A list gets shorter.                                                      *)
LEMMA TailIsShorter ==
    ASSUME NEW S, NEW s \in Seq(S), s # <<>> PROVE Len(Tail(s)) < Len(s)
BY EmptySeq

(* What happens to a group that is read.                                     *)
LEMMA ReadingAdvances ==
    ASSUME WalkInv, WalkInv', IsReading, stack # <<>>,
           \/ ListKids \/ ReadOwn \/ ReadKid \/ OwnRaces \/ KidRaces
           \/ ParentRaces \/ FailToRead \/ Record \/ FailToCalculate
    PROVE  IsLess(WorkLeft', WorkLeft)
<1>1. /\ plan \in Seq({"own", "list", "kids"}) /\ kids \in Seq(Groups)
      /\ todo \in CollectorsLeft /\ todo # <<>>
  BY DEF WalkInv, WalkTypes, FramesFit
<1>2. CASE Return
  BY <1>2, ReturnAdvances
<1>3. CASE ListKids \/ ReadOwn
  <2>1. /\ UNCHANGED <<stack, at, todo>> /\ plan' = Tail(plan) /\ plan # <<>>
    BY <1>3 DEF ListKids, ReadOwn, Reads, walkVars
  <2> QED
    BY <1>1, <2>1, TailIsShorter, SameFramesAdvance
<1>4. CASE ReadKid
  <2>1. /\ UNCHANGED <<stack, at, todo, plan>> /\ kids' = Tail(kids) /\ kids # <<>>
    BY <1>4 DEF ReadKid, Reads, walkVars
  <2> QED
    BY <1>1, <2>1, TailIsShorter, SameFramesAdvance
<1>5. CASE KidRaces /\ ~Return
  <2>1. UNCHANGED stack /\ at = "read" /\ at' = "recheck"
    BY <1>5 DEF KidRaces, GiveUp, Reads
  <2>2. Stages[at'] < Stages[at]
    BY <2>1, StageFacts
  <2> QED
    BY <2>1, <2>2, SameFramesAdvance
<1>6. CASE Record /\ ~Return
  <2>1. UNCHANGED <<stack, at>> /\ todo' = Tail(todo)
    BY <1>6 DEF Record, Begin, walkVars
  <2>2. Len(todo') < Len(todo)
    BY <1>1, <2>1 DEF CollectorsLeft
  <2>3. at' \in {"procs", "list"} => at \in {"procs", "list"}
    BY <2>1
  <2> QED
    BY <2>1, <2>2, <2>3, SameFramesAdvance
<1>7. CASE OwnRaces \/ ParentRaces \/ FailToRead \/ FailToCalculate
  BY <1>2, <1>7 DEF OwnRaces, ParentRaces, FailToRead, FailToCalculate, GiveUp
<1> QED
  BY <1>2, <1>3, <1>4, <1>5, <1>6, <1>7

(* A child is taken off its list; only it, and groups below it, are put in   *)
(* its place.                                                                *)
LEMMA ChildIsTakenOff ==
    ASSUME WalkInv, ApartInv, NEW c \in Groups \ {Root}, c \in Listed, NEW kin,
           \A d \in kin : d \in Groups \ {Root} /\ Parent[d] = c,
           Listed' \subseteq (Listed \ {c}) \cup kin,
           at' \in {"procs", "list"} => Top'.group = c
    PROVE  GroupsLeft' \subseteq GroupsLeft /\ GroupsLeft' # GroupsLeft
<1>1. IsLeft(c)
  BY AboveFacts DEF IsLeft
<1>2. ASSUME NEW d \in Groups, IsLeft(d)' PROVE IsLeft(d)
  <2>1. CASE \E e \in Listed' : e \in Above[d]
    <3>1. PICK e \in Listed' : e \in Above[d]
      BY <2>1
    <3>2. CASE e \in Listed
      BY <3>1, <3>2 DEF IsLeft
    <3>3. CASE e \in kin
      <4>1. e \in Above[d] \ {Root} /\ Parent[e] = c
        BY <3>1, <3>3
      <4>2. c \in Above[d]
        BY <4>1, AboveFacts
      <4> QED
        BY <4>2 DEF IsLeft
    <3> QED
      BY <3>1, <3>2, <3>3
  <2>2. CASE IsAwaited(d)'
    <3>1. c \in Above[d]
      BY <2>2 DEF IsAwaited
    <3> QED
      BY <3>1 DEF IsLeft
  <2> QED
    BY <1>2, <2>1, <2>2 DEF IsLeft
<1>3. ASSUME IsLeft(c)' PROVE FALSE
  <2>1. CASE \E e \in Listed' : e \in Above[c]
    <3>1. PICK e \in Listed' : e \in Above[c]
      BY <2>1
    <3>2. CASE e \in Listed \ {c}
      <4>1. c \in Seen
        BY DEF Seen
      <4> QED
        BY <3>1, <3>2, <4>1 DEF ApartInv
    <3>3. CASE e \in kin
      BY <3>1, <3>3, NoCycle
    <3> QED
      BY <3>1, <3>2, <3>3
  <2>2. CASE IsAwaited(c)' /\ c # Top'.group
    BY <2>2 DEF IsAwaited
  <2> QED
    BY <1>3, <2>1, <2>2 DEF IsLeft
<1>4. c \in GroupsLeft /\ c \notin GroupsLeft'
  BY <1>1, <1>3, LeftIs
<1>5. GroupsLeft' \subseteq GroupsLeft
  BY <1>2, LeftIs
<1> QED
  BY <1>4, <1>5

(* The next child.                                                           *)
LEMMA ObserveAdvances ==
    ASSUME WalkInv, WalkInv', PathInv, ApartInv, Observe
    PROVE  IsLess(WorkLeft', WorkLeft)
<1>1. PICK c : c = Head(Top.children)
  OBVIOUS
<1>2. PICK kin : kin = IF c \in Totals THEN ToSet(Excluding[c]) ELSE {}
  OBVIOUS
<1>3. /\ c \in Listed /\ c \in Groups \ {Root}
      /\ Listed' \subseteq (Listed \ {c}) \cup kin
  BY <1>1, <1>2, ObserveMoves
<1>4. Top'.group = c
  BY <1>1, ObserveFacts
<1>5. \A d \in kin : d \in Groups \ {Root} /\ Parent[d] = c
  <2>1. CASE c \in Totals
    <3>1. PICK s \in Seq(Groups) : s = Excluding[c]
      BY <2>1, HierarchyAssumption
    <3>2. ToSet(s) \subseteq Groups
      BY DEF ToSet
    <3> QED
      BY <1>2, <2>1, <3>1, <3>2, HierarchyAssumption
  <2> QED
    BY <1>2, <2>1
<1>6. GroupsLeft' \subseteq GroupsLeft /\ GroupsLeft' # GroupsLeft
  BY <1>3, <1>4, <1>5, ChildIsTakenOff
<1> QED
  BY <1>6, LeavesLess

(* A child that cannot be classified.                                        *)
LEMMA FailToClassifyAdvances ==
    ASSUME WalkInv, WalkInv', PathInv, ApartInv, FailToClassify
    PROVE  IsLess(WorkLeft', WorkLeft)
<1>1. at = "observe" /\ stack # <<>> /\ Top.children # <<>>
  BY DEF FailToClassify
<1>2. PICK n \in Nat \ {0} : n = Len(stack) /\ DOMAIN stack = 1..n
  BY <1>1, TopFacts DEF WalkInv, TypeOK
<1>3. /\ DOMAIN stack' = 1..n /\ \A i \in 1..(n - 1) : stack'[i] = stack[i]
      /\ Top' = stack'[n] /\ at' = "observe"
      /\ Top'.children = Tail(Top.children)
  <2>1. ~HasProcesses /\ ~ListChildren
    BY <1>1 DEF HasProcesses, ListChildren
  <2> QED
    BY <1>2, <2>1, ReplaceFacts
<1>4. /\ Top = stack[n] /\ n \in 1..n
      /\ \A i \in 1..n : i \in 1..(n - 1) \/ i = n
      /\ \A i \in 1..(n - 1) : i \in 1..n /\ i # n
  BY <1>1, <1>2, TopFacts
<1>5. PICK s \in Seq(Groups) : s = Top.children
  BY <1>1, TopFacts DEF FrameTypes
<1>6. PICK c \in Groups : c = Head(s)
  BY <1>1, <1>5, ListFacts
<1>7. /\ c \in ToSet(s) /\ ToSet(Tail(s)) \subseteq ToSet(s)
      /\ c \notin ToSet(Tail(s))
  <2>1. IsInjective(s)
    BY <1>2, <1>4, <1>5 DEF PathInv
  <2> QED
    BY <1>1, <1>5, <1>6, <2>1, ListFacts, InjectiveTail
<1>8. c # Root /\ Parent[c] = Top.group
  BY <1>1, <1>5, <1>7, TopFacts
<1>9. \A i \in 1..(n - 1) : c \notin ToSet(stack[i].children)
  <2>1. \A i \in 1..n : stack[i].group = Top.group => i = n
    BY <1>2, <1>4 DEF PathInv
  <2>2. \A i \in 1..n : c \in ToSet(stack[i].children) =>
           Parent[c] = stack[i].group
    BY <1>2 DEF WalkInv, FramesFit
  <2>3. ASSUME NEW i \in 1..(n - 1), c \in ToSet(stack[i].children) PROVE FALSE
    <3>1. i \in 1..n /\ i # n
      BY <1>4
    <3> QED
      BY <1>8, <2>1, <2>2, <2>3, <3>1
  <2> QED
    BY <2>3
<1>10. c \in Listed
  BY <1>2, <1>4, <1>5, <1>7 DEF Listed
<1>11. PICK kin : kin = {}
  OBVIOUS
<1>12. Listed' \subseteq (Listed \ {c}) \cup kin
  BY <1>2, <1>3, <1>4, <1>5, <1>7, <1>9 DEF Listed
<1>13. /\ c \in Groups \ {Root} /\ at' \notin {"procs", "list"}
       /\ \A d \in kin : d \in Groups \ {Root} /\ Parent[d] = c
  BY <1>3, <1>8, <1>11
<1>14. GroupsLeft' \subseteq GroupsLeft /\ GroupsLeft' # GroupsLeft
  BY <1>10, <1>12, <1>13, ChildIsTakenOff
<1> QED
  BY <1>14, LeavesLess

(* A group that turns out to have processes, or not to.                      *)
LEMMA HasProcessesAdvances ==
    ASSUME WalkInv, WalkInv', HasProcesses
    PROVE  IsLess(WorkLeft', WorkLeft)
<1>1. at = "procs" /\ ~FailToClassify /\ ~ListChildren /\ stack # <<>>
  BY DEF HasProcesses, FailToClassify, ListChildren, WalkInv, FramesFit
<1>2. CASE UNCHANGED stack /\ at' = "list"
  <2>1. Stages[at'] < Stages[at]
    BY <1>1, <1>2, StageFacts
  <2> QED
    BY <1>1, <1>2, <2>1, SameFramesAdvance
<1>3. CASE /\ DOMAIN stack' = DOMAIN stack /\ Len(stack') = Len(stack)
           /\ DOMAIN stack = 1..Len(stack) /\ Len(stack) \in Nat \ {0}
           /\ \A i \in 1..(Len(stack) - 1) : stack'[i] = stack[i]
           /\ Top' = stack'[Len(stack)] /\ at' = "observe"
           /\ Top'.children = Top.children
  <2>1. PICK n \in Nat \ {0} : n = Len(stack)
    BY <1>3
  <2>2. Top = stack[n] /\ \A i \in 1..n : i \in 1..(n - 1) \/ i = n
    BY <1>1, <2>1, TopFacts
  <2>3. \A i \in DOMAIN stack : stack'[i].children = stack[i].children
    BY <1>3, <2>1, <2>2
  <2>4. Listed' = Listed
    BY <1>3, <2>3 DEF Listed
  <2>5. \A d \in Groups : IsLeft(d)' => IsLeft(d)
    BY <1>3, <2>4 DEF IsLeft, IsAwaited
  <2>6. GroupsLeft' \subseteq GroupsLeft
    BY <2>5, LeftIs
  <2>7. Stages[at'] < Stages[at]
    BY <1>1, <1>3, StageFacts
  <2> QED
    BY <1>3, <2>6, <2>7, LeavesLess
<1> QED
  BY <1>1, <1>2, <1>3, ReplaceFacts

(* The children of a group are listed: it was to enter them before.          *)
LEMMA ListChildrenAdvances ==
    ASSUME WalkInv, WalkInv', ListChildren
    PROVE  IsLess(WorkLeft', WorkLeft)
<1>1. at = "list" /\ ~FailToClassify /\ ~HasProcesses /\ stack # <<>>
  BY DEF HasProcesses, FailToClassify, ListChildren, WalkInv, FramesFit
<1>2. CASE Return
  BY <1>1, <1>2, ReturnAdvances
<1>3. CASE /\ DOMAIN stack' = DOMAIN stack /\ Len(stack') = Len(stack)
           /\ DOMAIN stack = 1..Len(stack) /\ Len(stack) \in Nat \ {0}
           /\ \A i \in 1..(Len(stack) - 1) : stack'[i] = stack[i]
           /\ Top' = stack'[Len(stack)] /\ at' = "observe"
           /\ ToSet(Top'.children) = ChildrenOf(Top.group) \cap exists
  <2>1. PICK n \in Nat \ {0} : n = Len(stack)
    BY <1>3
  <2>2. PICK t \in Groups : t = Top.group
    BY <1>1, TopFacts
  <2>3. PICK kin : kin = ChildrenOf(t) \cap exists
    OBVIOUS
  <2>4. /\ \A i \in 1..n : i \in 1..(n - 1) \/ i = n
        /\ \A i \in 1..(n - 1) : i \in 1..n
    BY <2>1
  <2>5. \A e \in kin : e \in Groups \ {Root} /\ Parent[e] = t
    BY <2>3 DEF ChildrenOf
  <2>6. Listed' \subseteq Listed \cup kin
    BY <1>3, <2>1, <2>2, <2>3, <2>4 DEF Listed
  <2>7. ASSUME NEW d \in Groups, IsLeft(d)' PROVE IsLeft(d)
    <3>1. PICK e \in Listed' : e \in Above[d]
      BY <1>3, <2>7 DEF IsLeft, IsAwaited
    <3>2. CASE e \in Listed
      BY <3>1, <3>2 DEF IsLeft
    <3>3. CASE e \in kin
      <4>1. e \in Groups \ {Root} /\ Parent[e] = t /\ e \in Above[d] \ {Root}
        BY <2>5, <3>1, <3>3
      <4>2. t \in Above[d]
        BY <4>1, AboveFacts
      <4>3. d # t
        BY <4>1, NoCycle
      <4> QED
        BY <1>1, <2>2, <4>2, <4>3 DEF IsLeft, IsAwaited
    <3> QED
      BY <2>6, <3>1, <3>2, <3>3
  <2>8. GroupsLeft' \subseteq GroupsLeft
    BY <2>7, LeftIs
  <2>9. Stages[at'] < Stages[at]
    BY <1>1, <1>3, StageFacts
  <2> QED
    BY <1>3, <2>8, <2>9, LeavesLess
<1> QED
  BY <1>1, <1>2, <1>3, ReplaceFacts

(* Every step of the walk leaves less to do.                                 *)
LEMMA NextAdvances ==
    WalkInv /\ WalkInv' /\ PathInv /\ ApartInv /\ [Next]_vars =>
       (at # "idle" => UNCHANGED CollectorVars \/ IsLess(WorkLeft', WorkLeft))
<1> SUFFICES ASSUME WalkInv, WalkInv', PathInv, ApartInv, [Next]_vars, at # "idle"
             PROVE  UNCHANGED CollectorVars \/ IsLess(WorkLeft', WorkLeft)
  OBVIOUS
<1>1. CASE Hierarchy \/ UNCHANGED vars
  BY <1>1, HierarchyChanges DEF Change, vars, CollectorVars, historyVars
<1>2. CASE Start
  BY <1>2 DEF Start
<1>3. CASE Observe
  BY <1>3, ObserveAdvances
<1>4. CASE FailToClassify
  BY <1>4, FailToClassifyAdvances
<1>5. CASE HasProcesses
  BY <1>5, HasProcessesAdvances
<1>6. CASE ListChildren
  BY <1>6, ListChildrenAdvances
<1>7. CASE HasProcessesRaces \/ FailToObserve
  <2>1. stack # <<>> /\ (Return \/ AbortWalk)
    BY <1>7 DEF HasProcessesRaces, FailToObserve, WalkInv, FramesFit
  <2> QED
    BY <2>1, ReturnAdvances, AbortAdvances
<1>8. CASE LeaveOut
  <2>1. stack # <<>> /\ Return
    BY <1>8 DEF LeaveOut, Decided
  <2> QED
    BY <2>1, ReturnAdvances
<1>9. CASE Collect
  <2>1. at = "observe" /\ at' = "read" /\ UNCHANGED stack
    BY <1>9 DEF Collect, Decided
  <2>2. Stages[at'] < Stages[at]
    BY <2>1, StageFacts
  <2> QED
    BY <2>1, <2>2, SameFramesAdvance
<1>10. CASE \/ ListKids \/ ReadOwn \/ ReadKid \/ OwnRaces \/ KidRaces
            \/ ParentRaces \/ FailToRead \/ Record \/ FailToCalculate
  <2>1. IsReading
    BY <1>10 DEF IsReading, ListKids, ReadOwn, ReadKid, OwnRaces, KidRaces,
                 ParentRaces, FailToRead, Record, FailToCalculate, Reads, HasRead
  <2>2. stack # <<>>
    BY <2>1 DEF IsReading, WalkInv, FramesFit
  <2> QED
    BY <1>10, <2>1, <2>2, ReadingAdvances
<1>11. CASE Finish
  <2>1. at = "observe" /\ at' = "idle" /\ UNCHANGED stack
    BY <1>11 DEF Finish, HasEnded
  <2>2. Stages[at'] < Stages[at]
    BY <2>1, StageFacts
  <2> QED
    BY <2>1, <2>2, SameFramesAdvance
<1> QED
  BY <1>1, <1>2, <1>3, <1>4, <1>5, <1>6, <1>7, <1>8, <1>9, <1>10, <1>11
     DEF Next, Walk

(* Every collection comes to its end however the hierarchy changes: each     *)
(* step of the walk (collector.go:85-179, group.go:94-109) leaves it less to *)
(* do in an order without infinite descent, and changes of the hierarchy     *)
(* leave it as much.                                                         *)
THEOREM WalkAdvances == Spec => WalkOnlyAdvances
<1>1. Init => WalkInv /\ PathInv /\ ApartInv
  BY InitWalkInv, InitApart
<1>2. WalkInv /\ PathInv /\ ApartInv /\ [Next]_vars
         => WalkInv' /\ PathInv' /\ ApartInv'
  BY NextWalkInv, NextApart
<1>3. /\ WalkInv /\ PathInv /\ ApartInv /\ WalkInv' /\ PathInv' /\ ApartInv'
      /\ [Next]_vars
      => [at # "idle" => UNCHANGED CollectorVars \/ IsLess(WorkLeft', WorkLeft)]_vars
  BY NextAdvances
<1>4. /\ WalkInv /\ PathInv /\ ApartInv /\ WalkInv' /\ PathInv' /\ ApartInv'
      /\ [Next]_vars
      => [at # "idle" => UNCHANGED CollectorVars \/ WorkShrinks]_vars
  BY <1>3 DEF WorkShrinks
<1> QED
  BY <1>1, <1>2, <1>4, PTL DEF Spec, WalkOnlyAdvances
-----------------------------------------------------------------------------
(* The walk with the history of its collections.  RaceHistory lets any       *)
(* groups race in any order; here they race as the walk comes upon them, and *)
(* its history variables follow the walk without a say in what it does.  A   *)
(* race on cgroup.procs that is reported ends the collection in one step of  *)
(* the walk and in two of RaceHistory: ending makes room for the second.     *)
VARIABLE ending          \* a reported race has failed the collection

walkHistoryVars == <<vars, collecting, forgiven, reported, history, ending>>

WalkHistoryInit == /\ Init
                   /\ collecting = FALSE
                   /\ forgiven = {} /\ reported = {} /\ history = <<>>
                   /\ ending = FALSE

\* A step of the walk that finds a file of g missing.
RacesOn(g) == \/ (HasProcessesRaces \/ OwnRaces \/ ParentRaces) /\ g = Top.group
              \/ KidRaces /\ g = Head(kids)

\* A step that neither begins nor ends a collection and finds nothing missing.
GoesOn == \/ Hierarchy
          \/ Observe \/ FailToClassify \/ HasProcesses \/ ListChildren
          \/ LeaveOut \/ Collect
          \/ ListKids \/ ReadOwn \/ ReadKid \/ FailToRead
          \/ Record \/ FailToCalculate

WalkHistoryNext ==
    \/ /\ ~ending
       /\ \/ /\ Start
             /\ collecting' = TRUE /\ forgiven' = {} /\ reported' = {}
             /\ UNCHANGED <<history, ending>>
          \/ \E g \in Groups :
                /\ RacesOn(g)
                /\ forgiven' = IF IsReported(g) THEN forgiven ELSE forgiven \cup {g}
                /\ reported' = IF IsReported(g) THEN reported \cup {g} ELSE reported
                /\ ending' = (at' = "idle")
                /\ UNCHANGED <<collecting, history>>
          \/ /\ \/ Finish /\ Remember(TRUE)
                \/ FailToObserve /\ Remember(FALSE)
             /\ collecting' = FALSE
             /\ UNCHANGED <<forgiven, reported, ending>>
          \/ /\ GoesOn
             /\ UNCHANGED <<collecting, forgiven, reported, history, ending>>
    \/ /\ ending
       /\ ending' = FALSE
       /\ collecting' = FALSE /\ Remember(FALSE)
       /\ UNCHANGED <<vars, forgiven, reported>>

WalkHistorySpec == WalkHistoryInit /\ [][WalkHistoryNext]_walkHistoryVars


(* How the history follows the walk, with the types of what it holds.        *)
HistoryFollows ==
    /\ reported \in SUBSET Groups /\ history \in Seq(Outcome)
    /\ ending \in BOOLEAN /\ collecting \in BOOLEAN
    /\ ending => at = "idle"
    /\ collecting <=> at # "idle" \/ ending
    /\ Len(history) + (IF collecting THEN 1 ELSE 0) = collections

\* The children in hand are the group's.
KidsFit == IsReading => \A c \in ToSet(kids) : c # Root /\ Parent[c] = Top.group

\* A log that names g or the group above it.
IsLogged(g) == g \in complaints \/ (g # Root /\ Parent[g] \in complaints)

\* A race that has been reported is in the log, unless it has failed the
\* collection.
ReportsAreLogged == at # "idle" => \A g \in reported : IsLogged(g)

(* A collection that finishes has logged every group that was missing in it  *)
(* and in the MaxRetries collections before it, by name or with the group    *)
(* above it.                                                                 *)
PersistentRaceIsLogged ==
    HasEnded => \A g \in current : \A i \in 1..(Len(history) + 1) :
        RacedSince(g, i) /\ Len(history) + 1 - i >= MaxRetries => IsLogged(g)

(* What a missing file does: the group is counted, and a report is logged or *)
(* fails the collection.                                                     *)
LEMMA RaceStep ==
    ASSUME WalkInv, KidsFit, NEW g \in Groups, RacesOn(g)
    PROVE  /\ at # "idle" /\ Check(g) /\ collections' = collections
           /\ complaints \subseteq complaints'
           /\ IsReported(g) /\ at' # "idle" => IsLogged(g)'
<1>1. CASE HasProcessesRaces /\ g = Top.group
  BY <1>1 DEF HasProcessesRaces, Return, AbortWalk, outputVars
<1>2. CASE (OwnRaces \/ ParentRaces) /\ g = Top.group
  BY <1>2 DEF OwnRaces, ParentRaces, Reads, GiveUp, Complain, IsLogged
<1>3. CASE KidRaces /\ g = Head(kids)
  <2>1. g \in ToSet(kids) /\ IsReading
    BY <1>3, ListFacts DEF KidRaces, Reads, IsReading, WalkInv, WalkTypes
  <2>2. g # Root /\ Parent[g] = Top.group
    BY <2>1 DEF KidsFit
  <2>3. PICK t : t = Top.group
    OBVIOUS
  <2>4. /\ at = "read" /\ Check(g)
        /\ \/ GiveUp(TRUE)
           \/ /\ ~IsReported(g)
              /\ UNCHANGED <<collections, complaints>>
    BY <1>3 DEF KidRaces, Reads, outputVars
  <2> QED
    BY <2>2, <2>3, <2>4 DEF GiveUp, Complain, IsLogged
<1> QED
  BY <1>1, <1>2, <1>3 DEF RacesOn

(* What a step that finds nothing missing and begins or ends nothing does.   *)
LEMMA GoesOnStep ==
    ASSUME WalkInv, GoesOn
    PROVE  /\ UNCHANGED raceVars /\ collections' = collections
           /\ complaints \subseteq complaints'
           /\ at = "idle" <=> at' = "idle"
<1> USE DEF Return, outputVars, walkVars, Complain
<1>1. CASE Hierarchy
  BY <1>1, HierarchyChanges DEF Change, CollectorVars
<1>2. CASE Observe
  BY <1>2 DEF Observe
<1>3. CASE FailToClassify
  BY <1>3 DEF FailToClassify
<1>4. CASE HasProcesses
  BY <1>4 DEF HasProcesses
<1>5. CASE ListChildren
  BY <1>5 DEF ListChildren
<1>6. CASE LeaveOut
  BY <1>6 DEF LeaveOut, Decided
<1>7. CASE Collect
  BY <1>7 DEF Collect, Decided
<1>8. CASE ListKids \/ ReadOwn \/ ReadKid
  BY <1>8 DEF ListKids, ReadOwn, ReadKid, Reads
<1>9. CASE FailToRead
  BY <1>9 DEF FailToRead, GiveUp
<1>10. CASE Record
  BY <1>10 DEF Record, HasRead
<1>11. CASE FailToCalculate
  BY <1>11 DEF FailToCalculate, HasRead
<1> QED
  BY <1>1, <1>2, <1>3, <1>4, <1>5, <1>6, <1>7, <1>8, <1>9, <1>10, <1>11 DEF GoesOn


(* The history has no say in what the walk does: while no collection is      *)
(* ending, whatever the walk may do has a step here.                         *)
LEMMA EveryStepHasItsHistory ==
    ASSUME WalkInv, Next
    PROVE  \/ Start \/ Finish \/ FailToObserve \/ GoesOn
           \/ \E g \in Groups : RacesOn(g)
<1>1. CASE HasProcessesRaces \/ OwnRaces \/ ParentRaces
  <2>1. Top.group \in Groups
    BY <1>1, TopFacts DEF HasProcessesRaces, OwnRaces, ParentRaces, Reads, WalkInv,
                          FramesFit
  <2> QED
    BY <1>1, <2>1 DEF RacesOn
<1>2. CASE KidRaces
  <2>1. Head(kids) \in Groups
    BY <1>2, ListFacts DEF KidRaces, WalkInv, WalkTypes
  <2> QED
    BY <1>2, <2>1 DEF RacesOn
<1> QED
  BY <1>1, <1>2 DEF Next, Walk, GoesOn

(* Every step keeps the children in hand those of the group that is read.    *)
LEMMA NextKidsFit == WalkInv /\ KidsFit /\ [Next]_vars => KidsFit'
<1> SUFFICES ASSUME WalkInv, KidsFit, [Next]_vars, IsReading' PROVE KidsFit'
  BY DEF KidsFit
<1> DEFINE Fit(list, g) == \A c \in ToSet(list) : c # Root /\ Parent[c] = g
<1> USE DEF IsReading
<1>1. KidsFit' <=> Fit(kids', Top.group')
  BY DEF KidsFit
<1>2. ASSUME NEW g \in Groups PROVE Fit(Excluded(g), g)
  BY <1>2, HierarchyAssumption DEF Excluded, ToSet
<1>3. ASSUME NEW g PROVE Fit(InOrder(ChildrenOf(g) \cap exists), g)
  <2>1. ChildrenOf(g) \cap exists \in SUBSET Groups
    BY DEF ChildrenOf
  <2>2. ToSet(InOrder(ChildrenOf(g) \cap exists)) = ChildrenOf(g) \cap exists
    BY <2>1, HierarchyAssumption DEF InOrder
  <2> QED
    BY <2>2 DEF ChildrenOf
<1>4. stack' = stack => Top.group' = Top.group
  BY DEF Top
<1>5. CASE Collect
  <2>1. stack # <<>> /\ stack' = stack /\ kids' = Excluded(Top.group)
    BY <1>5 DEF Collect, Decided, Begin
  <2> QED
    BY <1>1, <1>2, <1>4, <2>1, TopFacts
<1>6. CASE Record
  <2>1. stack # <<>> /\ stack' = stack /\ kids' = Excluded(Top.group)
    BY <1>6 DEF Record, Begin, Return, HasRead, walkVars, WalkInv, FramesFit
  <2> QED
    BY <1>1, <1>2, <1>4, <2>1, TopFacts
<1>7. CASE Start \/ Finish \/ FailToCalculate
  BY <1>7 DEF Start, Finish, FailToCalculate, Return
<1>8. CASE ~Start /\ ~Collect /\ ~Record /\ ~FailToCalculate /\ ~Finish
  <2>1. IsReading /\ UNCHANGED stack /\ Fit(kids, Top.group)
    BY <1>8, OtherSteps DEF KidsFit
  <2>2. CASE kids' = kids
    BY <1>1, <1>4, <2>1, <2>2
  <2>3. CASE kids # <<>> /\ kids' = Tail(kids)
    <3>1. ToSet(kids') \subseteq ToSet(kids)
      BY <2>3, ListFacts DEF WalkInv, WalkTypes
    <3> QED
      BY <1>1, <1>4, <2>1, <3>1
  <2>4. CASE kids' = InOrder(ChildrenOf(Top.group) \cap exists)
    BY <1>1, <1>3, <1>4, <2>1, <2>4
  <2>5. \/ kids' = kids
        \/ kids # <<>> /\ kids' = Tail(kids)
        \/ kids' = InOrder(ChildrenOf(Top.group) \cap exists)
    <3> USE <1>8, <2>1 DEF Return
    <3>1. CASE Hierarchy
      BY <3>1, HierarchyChanges DEF Change, CollectorVars, readVars
    <3>2. CASE ListKids \/ ReadOwn \/ ReadKid
      BY <3>2 DEF ListKids, ReadOwn, ReadKid
    <3>3. CASE KidRaces
      BY <3>3 DEF KidRaces, GiveUp, readVars
    <3>4. CASE OwnRaces \/ ParentRaces \/ FailToRead
      BY <3>4 DEF OwnRaces, ParentRaces, FailToRead, GiveUp
    <3>5. CASE Observe \/ FailToClassify \/ HasProcesses \/ HasProcessesRaces
               \/ ListChildren \/ FailToObserve \/ LeaveOut
      BY <3>5 DEF Observe, FailToClassify, HasProcesses, HasProcessesRaces,
                  ListChildren, FailToObserve, LeaveOut, Decided
    <3>6. CASE UNCHANGED vars
      BY <3>6 DEF vars, readVars
    <3> QED
      BY <3>1, <3>2, <3>3, <3>4, <3>5, <3>6 DEF Next, Walk
  <2> QED
    BY <2>2, <2>3, <2>4, <2>5
<1> QED
  BY <1>5, <1>6, <1>7, <1>8

(* A step of the walk with its history is a step of the walk.                *)
LEMMA HistoryStepIsStep == [WalkHistoryNext]_walkHistoryVars => [Next]_vars
BY DEF WalkHistoryNext, walkHistoryVars, RacesOn, GoesOn, Next, Walk

(* The history does not change what the walk does.                           *)
THEOREM HistoryOnlyFollows == WalkHistorySpec => Spec
<1>1. WalkHistoryInit => Init
  BY DEF WalkHistoryInit
<1> QED
  BY <1>1, HistoryStepIsStep, PTL DEF WalkHistorySpec, Spec

(* What ends is remembered with the types the history has.                   *)
LEMMA RememberFacts ==
    ASSUME WalkInv, HistoryFollows, NEW finished \in BOOLEAN, Remember(finished)
    PROVE  history' \in Seq(Outcome) /\ Len(history') = Len(history) + 1
<1>1. [raced |-> current, reported |-> reported, finished |-> finished] \in Outcome
  BY DEF WalkInv, TypeOK, RaceTypeOK, RacedGroups, HistoryFollows, Outcome
<1> QED
  BY <1>1 DEF Remember, HistoryFollows

(* Every step keeps the history where the walk is.                           *)
LEMMA NextHistoryFollows ==
    /\ WalkInv /\ KidsFit /\ HistoryFollows /\ [WalkHistoryNext]_walkHistoryVars
    => HistoryFollows'
<1> SUFFICES ASSUME WalkInv, KidsFit, HistoryFollows,
                    [WalkHistoryNext]_walkHistoryVars
             PROVE  HistoryFollows'
  OBVIOUS
<1>0. /\ Len(history) \in Nat /\ collections \in Nat
  BY DEF HistoryFollows, WalkInv, TypeOK
<1>1. CASE /\ ~ending /\ Start
           /\ collecting' = TRUE /\ forgiven' = {} /\ reported' = {}
           /\ UNCHANGED <<history, ending>>
  BY <1>0, <1>1 DEF Start, HistoryFollows
<1>2. ASSUME NEW g \in Groups, ~ending, RacesOn(g),
             reported' = IF IsReported(g) THEN reported \cup {g} ELSE reported,
             ending' = (at' = "idle"),
             UNCHANGED <<collecting, history>>
      PROVE  HistoryFollows'
  BY <1>0, <1>2, RaceStep DEF HistoryFollows
<1>3. CASE /\ ~ending
           /\ \/ Finish /\ Remember(TRUE)
              \/ FailToObserve /\ Remember(FALSE)
           /\ collecting' = FALSE
           /\ UNCHANGED <<forgiven, reported, ending>>
  <2>1. at # "idle" /\ at' = "idle" /\ collections' = collections
    BY <1>3 DEF Finish, HasEnded, FailToObserve, AbortWalk
  <2>2. history' \in Seq(Outcome) /\ Len(history') = Len(history) + 1
    BY <1>3, RememberFacts
  <2>3. collecting /\ Len(history) + 1 = collections
    BY <2>1 DEF HistoryFollows
  <2>4. Len(history') + (IF collecting' THEN 1 ELSE 0) = collections'
    BY <1>0, <1>3, <2>1, <2>2, <2>3
  <2> QED
    BY <1>3, <2>1, <2>2, <2>4 DEF HistoryFollows
<1>4. CASE /\ ~ending /\ GoesOn
           /\ UNCHANGED <<collecting, forgiven, reported, history, ending>>
  BY <1>0, <1>4, GoesOnStep DEF HistoryFollows
<1>5. CASE /\ ending /\ ending' = FALSE
           /\ collecting' = FALSE /\ Remember(FALSE)
           /\ UNCHANGED <<vars, forgiven, reported>>
  <2>1. history' \in Seq(Outcome) /\ Len(history') = Len(history) + 1
    BY <1>5, RememberFacts
  <2>2. UNCHANGED <<at, collections, reported>>
    BY <1>5 DEF vars, walkVars
  <2>3. at = "idle" /\ collecting /\ Len(history) + 1 = collections
    BY <1>5 DEF HistoryFollows
  <2>4. Len(history') + (IF collecting' THEN 1 ELSE 0) = collections'
    BY <1>0, <1>5, <2>1, <2>2, <2>3
  <2> QED
    BY <1>5, <2>1, <2>2, <2>3, <2>4 DEF HistoryFollows
<1>6. CASE UNCHANGED walkHistoryVars
  BY <1>6 DEF walkHistoryVars, vars, walkVars, HistoryFollows
<1> QED
  BY <1>1, <1>2, <1>3, <1>4, <1>5, <1>6 DEF WalkHistoryNext

(* Every step keeps what has been reported in the log.                       *)
LEMMA NextReportsAreLogged ==
    /\ WalkInv /\ KidsFit /\ HistoryFollows /\ ReportsAreLogged
    /\ [WalkHistoryNext]_walkHistoryVars
    => ReportsAreLogged'
<1> SUFFICES ASSUME WalkInv, KidsFit, HistoryFollows, ReportsAreLogged,
                    [WalkHistoryNext]_walkHistoryVars, at' # "idle",
                    NEW h \in reported'
             PROVE  IsLogged(h)'
  BY DEF ReportsAreLogged
<1>1. ASSUME h \in reported, at # "idle", complaints \subseteq complaints'
      PROVE  IsLogged(h)'
  BY <1>1 DEF ReportsAreLogged, IsLogged
<1>2. CASE Start /\ reported' = {}
  BY <1>2
<1>3. ASSUME NEW g \in Groups, RacesOn(g),
             reported' = IF IsReported(g) THEN reported \cup {g} ELSE reported
      PROVE  IsLogged(h)'
  BY <1>1, <1>3, RaceStep
<1>4. CASE Finish \/ FailToObserve
  BY <1>4 DEF Finish, FailToObserve, AbortWalk
<1>5. CASE GoesOn /\ UNCHANGED reported
  BY <1>1, <1>5, GoesOnStep
<1>6. CASE UNCHANGED vars /\ UNCHANGED reported
  BY <1>1, <1>6 DEF vars, walkVars, outputVars
<1> QED
  BY <1>2, <1>3, <1>4, <1>5, <1>6 DEF WalkHistoryNext, walkHistoryVars

(* The walk with its history keeps all of these.                             *)
THEOREM WalkHistoryInvariance ==
    WalkHistorySpec => [](WalkInv /\ KidsFit /\ HistoryFollows /\ ReportsAreLogged)
<1>1. WalkHistoryInit => WalkInv /\ KidsFit /\ HistoryFollows /\ ReportsAreLogged
  <2> SUFFICES ASSUME WalkHistoryInit
               PROVE  WalkInv /\ KidsFit /\ HistoryFollows /\ ReportsAreLogged
    OBVIOUS
  <2>1. WalkInv
    BY InitWalkInv DEF WalkHistoryInit
  <2>2. at = "idle" /\ collections = 0
    BY DEF WalkHistoryInit, Init
  <2>3. KidsFit /\ ReportsAreLogged
    BY <2>2 DEF KidsFit, IsReading, ReportsAreLogged
  <2>4. /\ collecting = FALSE /\ ending = FALSE /\ reported = {}
        /\ history = <<>>
    BY DEF WalkHistoryInit
  <2>5. history \in Seq(Outcome) /\ Len(history) = 0
    BY <2>4
  <2>6. HistoryFollows
    <3>1. Len(history) + (IF collecting THEN 1 ELSE 0) = collections
      BY <2>2, <2>4, <2>5
    <3>2. reported \in SUBSET Groups /\ ending \in BOOLEAN /\ collecting \in BOOLEAN
      BY <2>4
    <3>3. ~ending /\ ~collecting
      BY <2>4
    <3> QED
      BY <2>2, <2>5, <3>1, <3>2, <3>3 DEF HistoryFollows
  <2> QED
    BY <2>1, <2>3, <2>6
<1>2. /\ WalkInv /\ KidsFit /\ HistoryFollows /\ ReportsAreLogged
      /\ [WalkHistoryNext]_walkHistoryVars
      => (WalkInv /\ KidsFit /\ HistoryFollows /\ ReportsAreLogged)'
  BY HistoryStepIsStep, NextWalkInv, NextKidsFit, NextHistoryFollows,
     NextReportsAreLogged
<1> QED
  BY <1>1, <1>2, PTL DEF WalkHistorySpec

(* The races of the walk are races of RaceHistory: what is proved of the     *)
(* race controller under every sequence of races is true of the collector    *)
(* that uses it, as long as the history may be as long as the walk's.        *)
THEOREM WalkImplementsRaceHistory ==
    ASSUME MaxCollections <= MaxHistory PROVE WalkHistorySpec => HistorySpec
<1>1. WalkHistoryInit => HistoryInit
  BY DEF WalkHistoryInit, HistoryInit, Init
<1>2. /\ WalkInv /\ KidsFit /\ HistoryFollows /\ [WalkHistoryNext]_walkHistoryVars
      => [HistoryNext]_raceHistoryVars
  <2> SUFFICES ASSUME WalkInv, KidsFit, HistoryFollows,
                      [WalkHistoryNext]_walkHistoryVars
               PROVE  [HistoryNext]_raceHistoryVars
    OBVIOUS
  <2>1. CASE /\ ~ending /\ Start
             /\ collecting' = TRUE /\ forgiven' = {} /\ reported' = {}
             /\ UNCHANGED <<history, ending>>
    <3>1. ~collecting /\ Len(history) < MaxHistory
      <4>1. /\ MaxHistory \in Nat /\ MaxCollections \in Nat
            /\ Len(history) \in Nat
        BY HistoryAssumption, HierarchyAssumption DEF HistoryFollows
      <4> QED
        BY <2>1, <4>1 DEF Start, HistoryFollows
    <3> QED
      BY <2>1, <3>1 DEF Start, StartCollection, HistoryNext
  <2>2. ASSUME NEW g \in Groups, RacesOn(g),
               forgiven' = IF IsReported(g) THEN forgiven ELSE forgiven \cup {g},
               reported' = IF IsReported(g) THEN reported \cup {g} ELSE reported,
               UNCHANGED <<collecting, history>>
        PROVE  HistoryNext
    <3>1. Check(g) /\ collecting
      BY <2>2, RaceStep DEF HistoryFollows
    <3> QED
      BY <2>2, <3>1 DEF Race, HistoryNext
  <2>3. CASE /\ Finish /\ Remember(TRUE)
             /\ collecting' = FALSE
             /\ UNCHANGED <<forgiven, reported, ending>>
    BY <2>3 DEF Finish, HasEnded, FinishCollection, HistoryNext, HistoryFollows
  <2>4. CASE /\ FailToObserve /\ Remember(FALSE)
             /\ collecting' = FALSE
             /\ UNCHANGED <<forgiven, reported, ending>>
    BY <2>4 DEF FailToObserve, raceVars, AbortCollection, HistoryNext,
                HistoryFollows
  <2>5. CASE /\ GoesOn
             /\ UNCHANGED <<collecting, forgiven, reported, history, ending>>
    BY <2>5, GoesOnStep DEF raceVars, raceHistoryVars
  <2>6. CASE /\ ending /\ ending' = FALSE
             /\ collecting' = FALSE /\ Remember(FALSE)
             /\ UNCHANGED <<vars, forgiven, reported>>
    BY <2>6 DEF vars, raceVars, AbortCollection, HistoryNext, HistoryFollows
  <2>7. CASE UNCHANGED walkHistoryVars
    BY <2>7 DEF walkHistoryVars, vars, raceVars, raceHistoryVars
  <2> QED
    BY <2>1, <2>2, <2>3, <2>4, <2>5, <2>6, <2>7 DEF WalkHistoryNext
<1> QED
  BY <1>1, <1>2, WalkHistoryInvariance, PTL DEF WalkHistorySpec, HistorySpec

(* What the controller promises of the history of its collections it         *)
(* promises of the walk's.                                                   *)
THEOREM WalkRacesAreBounded ==
    ASSUME MaxCollections <= MaxHistory
    PROVE  WalkHistorySpec => /\ []PersistentRaceIsReported
                              /\ []CountsMatchHistory
                              /\ []FewGroupsAreForgiven
                              /\ []ReportsAreFinal
BY WalkImplementsRaceHistory, RacesAreReported, CountsAreExact,
   ForgivenessIsBounded, ReportsStand, PTL

(* A group cannot be lost to races for ever without a word: one that was     *)
(* found missing in a finished collection and in the maxRetries before it is *)
(* named in the log, or the group that subtracts it is                       *)
(* (races.go:36-58 with collector.go:143-145 and group.go:94-109).           *)
THEOREM PersistentRacesAreLogged ==
    ASSUME MaxCollections <= MaxHistory
    PROVE  WalkHistorySpec => []PersistentRaceIsLogged
<1>1. HistoryFollows /\ ReportsAreLogged /\ HistoryInv => PersistentRaceIsLogged
  <2> SUFFICES ASSUME HistoryFollows, ReportsAreLogged, HistoryInv, HasEnded,
                      NEW g \in current, NEW i \in 1..(Len(history) + 1),
                      RacedSince(g, i), Len(history) + 1 - i >= MaxRetries
               PROVE  IsLogged(g)
    BY DEF PersistentRaceIsLogged
  <2>1. at # "idle" /\ collecting
    BY DEF HasEnded, HistoryFollows
  <2>2. g \in Groups /\ active[g] \in Nat /\ MaxRetries \in Nat
        /\ Len(history) \in Nat
    BY RaceAssumption DEF HistoryInv, HistoryTypeOK, RaceTypeOK, RacedGroups, HistoryFollows
  <2>3. active[g] >= Len(history) - i + 1 + 1
    BY <2>1, <2>2 DEF HistoryInv, CountsCoverRuns, Pending
  <2>4. active[g] > MaxRetries
    BY <2>2, <2>3
  <2>5. g \in reported
    BY <2>1, <2>2, <2>4 DEF HistoryInv, LimitIsReported
  <2> QED
    BY <2>1, <2>5 DEF ReportsAreLogged
<1> QED
  BY <1>1, WalkImplementsRaceHistory, WalkHistoryInvariance, HistoryInvariance, PTL
=============================================================================
