-------------------------- MODULE CgroupsCollector --------------------------
(* internal/cgroups/collector/collector.go: one collection walks the control *)
(* group hierarchy, decides which groups stand for services and has the cpu, *)
(* memory and io collectors read each of them.  Every read of the cgroup     *)
(* file system is a step of its own: between two of them groups appear and   *)
(* disappear and processes come and go.  The race controller decides what a  *)
(* read of a missing file means.                                             *)
(*                                                                           *)
(* Counters are abstracted (CpuRoot models them): a root group's state is    *)
(* there or not, collected or not, and a calculation may fail.  The file     *)
(* system and the classifier's answers are parameters; "/" always exists.    *)
EXTENDS RaceController, Sequences, SequencesExt

CONSTANTS
    Root,            \* "/"
    Parent,          \* Parent[g]: the group above g
    Listing,         \* Listing[s]: the groups of s in the order ReadDir returns
    Service,         \* Service[g], or Unclassified
    Unclassified,
    Totals,          \* groups whose classification has a TotalExcluding ...
    Excluding,       \* ... and its list, a sequence of groups
    Unresolvable,    \* containers and users, whose name may not be resolved
    Switchable,      \* <<c, g>>: what c reads of g may be missing while g exists
    MaxChanges,      \* bound: changes of the hierarchy and failures
    MaxCollections   \* bound: collections

ASSUME HierarchyAssumption ==
    /\ Root \in Groups /\ Root \notin Totals /\ Totals \subseteq Groups
    /\ Parent \in [Groups \ {Root} -> Groups]
    /\ Listing \in [SUBSET Groups -> Seq(Groups)]
    /\ \A s \in SUBSET Groups : ToSet(Listing[s]) = s /\ IsInjective(Listing[s])
    /\ DOMAIN Service = Groups
    /\ Excluding \in [Totals -> Seq(Groups)]
    /\ \A g \in Totals : IsInjective(Excluding[g])
    /\ \A g \in Totals : \A c \in ToSet(Excluding[g]) : c # Root /\ Parent[c] = g
    /\ Unresolvable \subseteq Groups \ {Root}
    \* cgroup.procs and cpu.stat are there as long as the group is, and "/" has
    \* all the files.
    /\ Switchable \subseteq {"memory", "io"} \X (Groups \ {Root})
    /\ MaxChanges \in Nat /\ MaxCollections \in Nat

\* A group and the groups above it: the least set that holds the group and the
\* parents of what it holds.
Above ==
    [g \in Groups |->
        {a \in Groups : \A upward \in SUBSET Groups :
            g \in upward /\ (\A d \in upward \ {Root} : Parent[d] \in upward)
            => a \in upward}]

ASSUME TreeAssumption == \A g \in Groups : Root \in Above[g]

VARIABLES
    exists,          \* groups that exist
    busy,            \* groups that have processes
    disabled,        \* <<c, g>>: the controller c reads is off in group g
    changes,         \* changes and failures so far
    collections,     \* collections so far
    stack,           \* frames of observe, the innermost last
    at,              \* what the innermost frame does next
    services,        \* services[s]: the group collected as s
    todo,            \* collectors that have not finished with the group
    plan,            \* what the first of them has left to read
    kids,            \* children of the group it has left to read
    roots,           \* roots[c]: groups that collector c has a rootState for
    collected,       \* collected[c]: those marked collected
    samples,         \* history: metrics sent by this collection
    complaints,      \* history: groups named by an error of this collection
    unresolved,      \* history: groups whose classification failed in it
    steady,          \* history: groups that have existed since it started
    loaded,          \* history: groups that have had processes since
    quiet,           \* history: groups that have had no process since
    calm,            \* history: nothing has changed or failed since
    known,           \* history: roots when it started
    silent           \* history: collections in a row that lost a group silently

hierarchyVars == <<exists, busy, disabled>>
walkVars == <<stack, at, services>>
readVars == <<todo, plan, kids>>
stateVars == <<roots, collected>>
outputVars == <<samples, complaints, unresolved>>
sinceVars == <<steady, loaded, quiet, calm>>
historyVars == <<sinceVars, known, silent>>
vars == <<raceVars, hierarchyVars, changes, collections, walkVars, readVars,
          stateVars, outputVars, historyVars>>

\* Mutant: io comes first.
CollectorsReversed == <<"io", "memory", "cpu">>

Collectors == <<"cpu", "memory", "io">>

StatefulCollectors == {"cpu", "io"}

\* Whether the file of group g that collector c reads is there.
HasFile(c, g) == g \in exists /\ <<c, g>> \notin disabled

ChildrenOf(g) == {c \in Groups \ {Root} : Parent[c] = g}

InOrder(groups) == Listing[groups]

\* Mutant: the list is used to observe the children only.
ExcludedNever(g) == <<>>

Excluded(g) == IF g \in Totals THEN Excluding[g] ELSE <<>>

\* The groups whose own usage is theirs minus their children's.
IsRootGroup(g) == g = Root \/ Excluded(g) # <<>>

Frame(g, children, needsCollection) ==
    [group |-> g, children |-> children, needsCollection |-> needsCollection]

Top == Last(stack)

SetTop(frame) == stack' = Append(Front(stack), frame)

NoReads == todo' = <<>> /\ plan' = <<>> /\ kids' = <<>>

Init == /\ NewRaceController
        /\ exists \in {s \in SUBSET Groups :
                          Root \in s /\ \A g \in s \ {Root} : Parent[g] \in s}
        /\ busy = {g \in exists : ChildrenOf(g) = {}}
        /\ disabled \in SUBSET {cg \in Switchable : cg[2] \in exists}
        /\ changes = 0 /\ collections = 0
        /\ stack = <<>> /\ at = "idle" /\ services = <<>>
        /\ todo = <<>> /\ plan = <<>> /\ kids = <<>>
        /\ roots = [c \in StatefulCollectors |-> {}]
        /\ collected = [c \in StatefulCollectors |-> {}]
        /\ samples = <<>> /\ complaints = {} /\ unresolved = {}
        /\ steady = {} /\ loaded = {} /\ quiet = {} /\ calm = FALSE
        /\ known = roots
        /\ silent = [g \in Groups |-> 0]

-----------------------------------------------------------------------------
(* The file system                                                           *)

CollectorVars == <<raceVars, collections, walkVars, readVars, stateVars,
                   outputVars, known, silent>>

Change(newExists, newBusy, newDisabled) ==
    /\ changes' = changes + 1
    /\ exists' = newExists /\ busy' = newBusy /\ disabled' = newDisabled
    /\ steady' = steady \cap newExists
    /\ loaded' = loaded \cap newBusy
    /\ quiet' = quiet \ newBusy
    /\ calm' = FALSE
    /\ UNCHANGED CollectorVars

\* A new group does not have all its controllers at once: systemd configures
\* it for seconds (races.go:7-9).
CreateGroup(g) == /\ g \notin exists /\ Parent[g] \in exists
                  /\ \E off \in SUBSET {cg \in Switchable : cg[2] = g} :
                        Change(exists \cup {g}, busy, disabled \cup off)

RemoveGroup(g) ==
    /\ g \in exists \ busy /\ ChildrenOf(g) \cap exists = {}
    /\ Change(exists \ {g}, busy, {cg \in disabled : cg[2] # g})

ProcessStarts(g) == /\ g \in exists \ busy
                    /\ Change(exists, busy \cup {g}, disabled)

\* The last process of g exits, or is moved to another group.
ProcessesExit(g) == /\ g \in busy
                    /\ Change(exists, busy \ {g}, disabled)

\* A controller of g is enabled or disabled.
SwitchController(g) ==
    /\ g \in exists
    /\ \E cg \in Switchable :
          /\ cg[2] = g
          /\ Change(exists, busy, IF cg \in disabled THEN disabled \ {cg}
                                                    ELSE disabled \cup {cg})

\* A read fails otherwise than by the file missing, a calculation or a
\* resolver returns an error.
Failure == /\ changes < MaxChanges
           /\ changes' = changes + 1
           /\ calm' = FALSE
           /\ UNCHANGED <<steady, loaded, quiet>>

NoFailure == UNCHANGED <<changes, sinceVars>>

-----------------------------------------------------------------------------
(* Collect and observe                                                       *)

\* Lock, OnCollectionStarted, Pre, and observe is entered for the root.
Start ==
    /\ at = "idle" /\ collections < MaxCollections
    /\ collections' = collections + 1
    /\ OnCollectionStarted
    /\ collected' = [c \in StatefulCollectors |-> {}]
    /\ services' = <<>>
    /\ stack' = <<Frame(Root, <<>>, TRUE)>> /\ at' = "list"
    /\ samples' = <<>> /\ complaints' = {} /\ unresolved' = {}
    /\ steady' = exists /\ loaded' = busy /\ quiet' = exists \ busy
    /\ calm' = TRUE /\ known' = roots
    /\ UNCHANGED <<hierarchyVars, changes, readVars, roots, silent>>

\* observe returns nil to the frame below, which goes on with its children.
Return == stack' = Front(stack) /\ at' = "observe" /\ NoReads
          /\ UNCHANGED services

Complain(g) == complaints' = complaints \cup {g}

\* observe returns an error: so does every frame, and Collect returns without
\* Post and OnCollectionFinished.
AbortWalk == /\ stack' = <<>> /\ at' = "idle" /\ services' = <<>> /\ NoReads
             /\ silent' = [g \in Groups |-> 0]

\* The next child is classified; HasProcesses is next unless it is a total.
Observe ==
    /\ at = "observe" /\ stack # <<>> /\ Top.children # <<>>
    /\ LET g == Head(Top.children)
           below == Append(Front(stack), [Top EXCEPT !.children = Tail(@)])
       IN  IF g \in Totals
           THEN /\ stack' = Append(below, Frame(g, Excluding[g], TRUE))
                /\ at' = "observe"
           ELSE /\ stack' = Append(below, Frame(g, <<>>, FALSE))
                /\ at' = "procs"
    /\ NoFailure
    /\ UNCHANGED <<raceVars, hierarchyVars, collections, services, readVars,
                   stateVars, outputVars, known, silent>>

\* Mutant: the siblings that remain are given up with it.
FailToClassifySiblings ==
    /\ at = "observe" /\ stack # <<>> /\ Top.children # <<>>
    /\ Head(Top.children) \in Unresolvable
    /\ Failure
    /\ Complain(Head(Top.children))
    /\ unresolved' = unresolved \cup {Head(Top.children)}
    /\ SetTop([Top EXCEPT !.children = <<>>])
    /\ UNCHANGED <<raceVars, hierarchyVars, collections, at, services, readVars,
                   stateVars, samples, known, silent>>

\* Its container or user cannot be resolved: the error is only logged.
FailToClassify ==
    /\ at = "observe" /\ stack # <<>> /\ Top.children # <<>>
    /\ Head(Top.children) \in Unresolvable
    /\ Failure
    /\ Complain(Head(Top.children))
    /\ unresolved' = unresolved \cup {Head(Top.children)}
    /\ SetTop([Top EXCEPT !.children = Tail(@)])
    /\ UNCHANGED <<raceVars, hierarchyVars, collections, at, services, readVars,
                   stateVars, samples, known, silent>>

\* Children are observed only if there are no processes.
HasProcesses ==
    /\ at = "procs" /\ Top.group \in exists
    /\ IF Top.group \in busy
       THEN SetTop([Top EXCEPT !.needsCollection = TRUE]) /\ at' = "observe"
       ELSE at' = "list" /\ UNCHANGED stack
    /\ NoFailure
    /\ UNCHANGED <<raceVars, hierarchyVars, collections, services, readVars,
                   stateVars, outputVars, known, silent>>

\* cgroup.procs is missing: a forgiven race skips the group, a reported one
\* fails the collection.
HasProcessesRaces ==
    /\ at = "procs" /\ Top.group \notin exists
    /\ Check(Top.group)
    /\ IF IsReported(Top.group) THEN AbortWalk ELSE Return /\ UNCHANGED silent
    /\ NoFailure
    /\ UNCHANGED <<hierarchyVars, collections, stateVars, outputVars, known>>

ListChildren ==
    /\ at = "list"
    /\ IF Top.group \in exists
       THEN /\ SetTop([Top EXCEPT !.children =
                         InOrder(ChildrenOf(Top.group) \cap exists)])
            /\ at' = "observe"
            /\ UNCHANGED <<services, readVars>>
       ELSE Return
    /\ NoFailure
    /\ UNCHANGED <<raceVars, hierarchyVars, collections, stateVars, outputVars,
                   known, silent>>

FailToObserve ==
    /\ at \in {"procs", "list"}
    /\ Failure
    /\ AbortWalk
    /\ UNCHANGED <<raceVars, hierarchyVars, collections, stateVars, outputVars,
                   known>>

Decided == at = "observe" /\ stack # <<>> /\ Top.children = <<>>

\* Mutant: services are not remembered.
IsNeverTaken(g) == FALSE

IsTaken(g) == Service[g] \in DOMAIN services

LeaveOut ==
    /\ Decided
    /\ ~Top.needsCollection \/ Service[Top.group] = Unclassified \/ IsTaken(Top.group)
    /\ IF Top.needsCollection THEN Complain(Top.group) ELSE UNCHANGED complaints
    /\ Return
    /\ NoFailure
    /\ UNCHANGED <<raceVars, hierarchyVars, collections, stateVars, samples,
                   unresolved, known, silent>>

-----------------------------------------------------------------------------
(* collect: the three collectors, one after the other                        *)

\* memory reads the group before it lists the children, cpu and io after.
Plan(collector, g) ==
    CASE g = Root /\ collector = "memory" -> <<"own", "list", "kids">>
      [] g = Root /\ collector # "memory" -> <<"list", "own", "kids">>
      [] g # Root /\ IsRootGroup(g)       -> <<"own", "kids">>
      [] OTHER                            -> <<"own">>

Begin(collectors, g) ==
    /\ todo' = collectors
    /\ plan' = Plan(Head(collectors), g)
    /\ kids' = Excluded(g)

Collect ==
    /\ Decided /\ Top.needsCollection
    /\ Service[Top.group] # Unclassified /\ ~IsTaken(Top.group)
    /\ services' = [s \in DOMAIN services \cup {Service[Top.group]} |->
                       IF s = Service[Top.group] THEN Top.group ELSE services[s]]
    /\ at' = "read"
    /\ Begin(Collectors, Top.group)
    /\ NoFailure
    /\ UNCHANGED <<raceVars, hierarchyVars, collections, stack, stateVars,
                   outputVars, known, silent>>

Reads(what) == at = "read" /\ plan # <<>> /\ Head(plan) = what

ListKids ==
    /\ Reads("list")
    /\ kids' = InOrder(ChildrenOf(Top.group) \cap exists)
    /\ plan' = Tail(plan)
    /\ NoFailure
    /\ UNCHANGED <<raceVars, hierarchyVars, collections, walkVars, todo,
                   stateVars, outputVars, known, silent>>

ReadOwn ==
    /\ Reads("own") /\ HasFile(Head(todo), Top.group)
    /\ plan' = Tail(plan)
    /\ NoFailure
    /\ UNCHANGED <<raceVars, hierarchyVars, collections, walkVars, todo, kids,
                   stateVars, outputVars, known, silent>>

ReadKid ==
    /\ Reads("kids") /\ kids # <<>> /\ HasFile(Head(todo), Head(kids))
    /\ kids' = Tail(kids)
    /\ NoFailure
    /\ UNCHANGED <<raceVars, hierarchyVars, collections, walkVars, todo, plan,
                   stateVars, outputVars, known, silent>>

\* The group is given up: the remaining collectors do not see it.  The error,
\* if there is one, is logged and the walk goes on.
GiveUp(isError) ==
    /\ IF isError THEN Complain(Top.group) ELSE UNCHANGED complaints
    /\ Return
    /\ UNCHANGED <<hierarchyVars, collections, stateVars, samples, unresolved,
                   known, silent>>

\* Mutant: a forgiven read is retried.
OwnRacesAgain ==
    /\ Reads("own") /\ ~HasFile(Head(todo), Top.group)
    /\ Check(Top.group)
    /\ IF IsReported(Top.group)
       THEN GiveUp(TRUE)
       ELSE UNCHANGED <<hierarchyVars, collections, walkVars, readVars,
                        stateVars, outputVars, known, silent>>
    /\ NoFailure

OwnRaces ==
    /\ Reads("own") /\ ~HasFile(Head(todo), Top.group)
    /\ Check(Top.group)
    /\ GiveUp(IsReported(Top.group))
    /\ NoFailure

\* A missing child is a race on the child, and an error for "/" ...
KidRaces ==
    /\ Reads("kids") /\ kids # <<>> /\ ~HasFile(Head(todo), Head(kids))
    /\ Check(Head(kids))
    /\ IF IsReported(Head(kids)) \/ Top.group = Root
       THEN GiveUp(TRUE)
       ELSE /\ at' = "recheck"
            /\ UNCHANGED <<hierarchyVars, collections, stack, services, readVars,
                           stateVars, outputVars, known, silent>>
    /\ NoFailure

\* ... and a second race, on the group itself, for the others.
ParentRaces ==
    /\ at = "recheck"
    /\ Check(Top.group)
    /\ GiveUp(IsReported(Top.group))
    /\ NoFailure

FailToRead ==
    /\ at = "read" /\ plan # <<>>
    /\ Failure
    /\ GiveUp(TRUE)
    /\ UNCHANGED raceVars

\* What remains of a collector once everything is read.
HasRead == at = "read" /\ ToSet(plan) \subseteq {"kids"} /\ kids = <<>>

KeepsRootState(c, g) == c \in StatefulCollectors /\ IsRootGroup(g)

Mark(c, g) == /\ roots' = [roots EXCEPT ![c] = @ \cup {g}]
              /\ collected' = [collected EXCEPT ![c] = @ \cup {g}]

\* Mutant: cpu reports nothing at first either.
OnlyStartsAnyState(c, isFirst) == isFirst

\* The first time io has no usage to report, cpu reports zero.
OnlyStartsState(c, isFirst) == c = "io" /\ isFirst

Record ==
    /\ HasRead
    /\ LET c == Head(todo)
           g == Top.group
           isFirst == KeepsRootState(c, g) /\ g \notin roots[c]
       IN  /\ IF KeepsRootState(c, g) THEN Mark(c, g) ELSE UNCHANGED stateVars
           /\ samples' = IF OnlyStartsState(c, isFirst) THEN samples
                         ELSE Append(samples, <<c, Service[g]>>)
    /\ IF Len(todo) > 1
       THEN Begin(Tail(todo), Top.group) /\ UNCHANGED walkVars
       ELSE Return
    /\ NoFailure
    /\ UNCHANGED <<raceVars, hierarchyVars, collections, complaints, unresolved,
                   known, silent>>

\* The calculation finds a counter that went back, or io a child that is
\* gone.  By then io has marked the state collected, cpu has not.
FailToCalculate ==
    /\ HasRead
    /\ KeepsRootState(Head(todo), Top.group) /\ Top.group \in roots[Head(todo)]
    /\ Failure
    /\ IF Head(todo) = "io" THEN Mark("io", Top.group) ELSE UNCHANGED stateVars
    /\ Complain(Top.group)
    /\ Return
    /\ UNCHANGED <<raceVars, hierarchyVars, collections, samples, unresolved,
                   known, silent>>

-----------------------------------------------------------------------------
(* What a collection owes to a group: the walk must reach it whatever        *)
(* happens elsewhere.                                                        *)

\* The walk that has come to the parent of d comes to d.
IsPassedDownTo(d) ==
    LET p == Parent[d]
    IN  /\ d \in steady /\ d \notin unresolved
        /\ \/ p = Root
           \/ p \in Totals /\ d \in ToSet(Excluding[p])
           \/ p \notin Totals /\ p \in quiet

IsReached(g) == \A d \in Above[g] \ {Root} : IsPassedDownTo(d)

IsDue(g) == /\ IsReached(g) /\ Service[g] # Unclassified
            /\ g = Root \/ g \in Totals \/ g \in loaded

\* What the kernel charges to a group, without what is subtracted from it,
\* includes what the processes of p use.
IsCharged(p, g) ==
    /\ g \in Above[p]
    /\ \A d \in Above[p] \ {Root} :
          Parent[d] = g => g # Root /\ d \notin ToSet(Excluded(g))

HasSample(c, g) == <<c, Service[g]>> \in ToSet(samples)

HasEnded == at = "observe" /\ stack = <<>>

\* Post and OnCollectionFinished.
Finish ==
    /\ HasEnded
    /\ at' = "idle"
    /\ roots' = [c \in StatefulCollectors |->
                    {g \in roots[c] : g \in collected[c] \/ g = Root}]
    /\ OnCollectionFinished
    /\ silent' = [g \in Groups |->
                    IF IsDue(g) /\ g \notin complaints /\ ~HasSample("cpu", g)
                    THEN silent[g] + 1 ELSE 0]
    /\ services' = <<>>
    /\ NoFailure
    /\ UNCHANGED <<hierarchyVars, collections, stack, readVars, collected,
                   outputVars, known>>

Hierarchy == /\ changes < MaxChanges
             /\ \E g \in Groups \ {Root} : \/ CreateGroup(g)
                                          \/ RemoveGroup(g)
                                          \/ ProcessStarts(g)
                                          \/ ProcessesExit(g)
                                          \/ SwitchController(g)

Walk == \/ Start
        \/ Observe
        \/ FailToClassify
        \/ HasProcesses
        \/ HasProcessesRaces
        \/ ListChildren
        \/ FailToObserve
        \/ LeaveOut
        \/ Collect
        \/ ListKids
        \/ ReadOwn
        \/ ReadKid
        \/ OwnRaces
        \/ KidRaces
        \/ ParentRaces
        \/ FailToRead
        \/ Record
        \/ FailToCalculate
        \/ Finish

Next == Hierarchy \/ Walk

Spec == Init /\ [][Next]_vars
-----------------------------------------------------------------------------
(* How far a collection is from its end, for WalkOnlyAdvances.               *)

\* The groups the walk may still enter: those below children it has listed,
\* and below the group whose children it may list.
GroupsLeft ==
    {g \in Groups :
        \/ \E frame \in ToSet(stack) : ToSet(frame.children) \cap Above[g] # {}
        \/ at \in {"procs", "list"} /\ Top.group \in Above[g] \ {g}}

\* What a frame does, the last first.
Stages == [idle |-> 0, recheck |-> 1, read |-> 2, observe |-> 3, list |-> 4,
           procs |-> 5]

WorkLeft == <<Cardinality(GroupsLeft), Len(stack), Stages[at], Len(todo),
              Len(plan), Len(kids)>>

\* The lexicographic order of two lists of one length, which has no infinite
\* descent.
IsLess(work, other) ==
    \E i \in DOMAIN work : /\ work[i] < other[i]
                           /\ \A j \in 1..(i - 1) : work[j] = other[j]

\* Both lists are bound, so that TLC evaluates each of them once.
WorkShrinks ==
    \E left \in {WorkLeft'}, before \in {WorkLeft} : IsLess(left, before)
-----------------------------------------------------------------------------
TypeOK ==
    /\ RaceTypeOK
    /\ exists \in SUBSET Groups /\ busy \in SUBSET exists
    /\ disabled \in SUBSET Switchable
    /\ changes \in 0..MaxChanges /\ collections \in 0..MaxCollections
    /\ stack \in Seq([group : Groups, children : Seq(Groups),
                     needsCollection : BOOLEAN])
    /\ at \in {"idle", "observe", "procs", "list", "read", "recheck"}
    /\ ToSet(services) \subseteq Groups
    /\ IsSuffix(todo, Collectors)
    /\ ToSet(plan) \subseteq {"own", "list", "kids"}
    /\ ToSet(kids) \subseteq Groups
    /\ roots \in [StatefulCollectors -> SUBSET Groups]
    /\ collected \in [StatefulCollectors -> SUBSET Groups]
    /\ silent \in [Groups -> Nat]

(* No metric is sent twice in a collection, however groups come and go       *)
(* during the walk: the registry would fail the whole scrape                 *)
(* (collector.go:137-141).                                                   *)
NoDuplicateSamples == IsInjective(samples)

(* A collection that finishes has collected every group it had to: one that  *)
(* existed, with its processes, all along, under parents that had none, is   *)
(* reached whatever happens to its siblings, and is collected, or complained *)
(* about if another group has been collected as the same service             *)
(* (collector.go:92-141).                                                    *)
DueGroupsAreCollected ==
    HasEnded => \A g \in Groups :
        IsDue(g) => IsTaken(g) /\ (services[Service[g]] = g \/ g \in complaints)

\* The groups whose usage is subtracted from that of g.
Subtracted(g) == IF g = Root THEN ChildrenOf(Root) \cap exists
                 ELSE ToSet(Excluded(g))

\* Everything that collector c needs for g is there.
CanRead(c, g) == \A h \in {g} \cup Subtracted(g) : HasFile(c, h)

(* A collection during which nothing changes and nothing fails says          *)
(* everything that can be read, and nothing else is missing from it: a group *)
(* gets its metrics of each collector, cpu, memory and io, up to the first   *)
(* that lacks a file of the group or of a child that is subtracted, its io   *)
(* metrics only if there was earlier usage to compare with.  Only groups it  *)
(* cannot collect are complained about: unclassified, of a service that is   *)
(* taken, or with such a file missing (collector.go:126-179).                *)
CalmCollectionIsComplete ==
    HasEnded /\ calm =>
        /\ \A g \in complaints :
              \/ Service[g] = Unclassified
              \/ services[Service[g]] # g
              \/ \E c \in ToSet(Collectors) : ~CanRead(c, g)
        /\ \A g \in Groups :
              IsDue(g) /\ services[Service[g]] = g /\ CanRead("cpu", g) =>
                 /\ HasSample("cpu", g)
                 /\ CanRead("memory", g) =>
                       /\ HasSample("memory", g)
                       /\ CanRead("io", g) =>
                             \/ HasSample("io", g)
                             \/ IsRootGroup(g) /\ g \notin known["io"]

(* What a process uses is in the metrics of one service at most, wherever it *)
(* is in the hierarchy, and in none only if the log says why or something    *)
(* has changed or failed: the children a total leaves out, and those that    *)
(* are traversed, are exactly what is collected apart from it                *)
(* (collector.go:92-141 with the classifier's TotalExcluding).               *)
EveryProcessIsCountedOnce ==
    HasEnded => \A p \in busy :
        LET by == {g \in ToSet(services) : IsCharged(p, g)}
        IN  /\ Cardinality(by) <= 1
            /\ by = {} /\ calm => \E g \in complaints : IsCharged(p, g)

(* A service that is there cannot vanish from the metrics quietly for long:  *)
(* after MaxRetries finished collections in a row without its cpu usage, the *)
(* next one without it logs an error (races.go:36-58 with                    *)
(* cpu/collector.go:112-123).                                                *)
SilenceIsBounded == \A g \in Groups : silent[g] <= MaxRetries

(* Between collections a service with an io baseline has a cpu baseline: io  *)
(* runs only after cpu has succeeded, so the two can be dropped apart in one *)
(* direction only (collector.go:174-178).                                    *)
IoBaselineImpliesCpuBaseline == at = "idle" => roots["io"] \subseteq roots["cpu"]

(* No churn keeps a collection, and its lock, going: whatever is created,    *)
(* removed or missing between two reads, each step of the walk leaves it     *)
(* less to do, and changes of the hierarchy never leave it more.  Races are  *)
(* not retried, and groups that appear under a group already listed wait for *)
(* the next collection (collector.go:85-179, group.go:94-109).               *)
WalkOnlyAdvances ==
    [][at # "idle" => UNCHANGED CollectorVars \/ WorkShrinks]_vars

(* cpu/collector.go:45 and io/collector.go:52 log, of a root whose state     *)
(* they drop, "Assuming it deleted": a group whose state is dropped was not  *)
(* there all through the collection.                                         *)
DroppedMeansDeleted ==
    [][\A c \in StatefulCollectors : \A g \in roots[c] \ roots'[c] :
          g \notin steady]_vars
=============================================================================
