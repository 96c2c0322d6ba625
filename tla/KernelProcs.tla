----------------------------- MODULE KernelProcs -----------------------------
(* The collector of the CPU usage of kernel processes                        *)
(* (internal/kernelprocs/collector.go).  The server runs two scrapes at a    *)
(* time, so two collections may overlap: each lists the processes of the     *)
(* root cgroup, takes the lock, and reads /proc/<pid>/stat for every line of *)
(* its list.  kworkers change their names all the time, so their usage is    *)
(* one counter, fed with the growth of each since the last collection.       *)
(*                                                                           *)
(* One step is one line of cgroup.procs or one access to /proc, between      *)
(* which processes work, exit and start, also with the PID of one that has   *)
(* exited: the list may then have the PID twice (group.go:64-87 keeps both). *)
EXTENDS Integers, Sequences, SequencesExt, FiniteSetsExt

CONSTANTS Pids,
          Collections,      \* the collections that may run at a time
          Names,            \* the names of kernel processes
          Kworker,          \* stands for the names that begin with "kworker/"
          None,             \* not a process, not a collection
          MaxTicks,         \* bound: clock ticks used by all the processes
          MaxStarts,        \* bound: processes started
          MaxCollections    \* bound: collections begun

ASSUME PidsAssumption == IsFiniteSet(Pids)
ASSUME NamesAssumption == Kworker \in Names
ASSUME NoneAssumption == None \notin Collections \cup Names
ASSUME BoundsAssumption == /\ MaxTicks \in Nat /\ MaxStarts \in Nat
                           /\ MaxCollections \in Nat

VARIABLES
    \* the kernel
    name,          \* name[p]: that of the process with PID p, or None
    time,          \* time[p]: its stime
    ticks, starts,
    \* the collector
    lock,          \* None, or the collection that holds it
    kworkers,      \* c.kworkers: stime by PID
    kworkersUsage, \* c.kworkersUsage
    \* the collections
    running,       \* the collections begun and not ended
    ahead,         \* ahead[c]: the processes c's listing has not come to yet
    todo,          \* todo[c][p]: how often p is on c's list and not read yet
    newKworkers, newUsage, names, \* observe's variables, of the lock's holder
    samples,       \* the names of the metrics it has sent
    begun,
    \* history
    worked,        \* the ticks all the kworkers have used
    repeated,      \* those a collection had counted when it read a PID again
    reads,         \* by PID: stime of the kworkers the lock's holder has read
    first, last,   \* by PID: stime of a kworker in the first and in the last
                   \* completed collection that read it
    disturbed      \* collections overlapped, a PID was reused, a file was
                   \* not parsed

kernelVars == <<name, time, ticks, starts>>
stateVars == <<kworkers, kworkersUsage>>
collectionVars == <<lock, running, ahead, todo, newKworkers, newUsage, names,
                    samples, begun>>
historyVars == <<reads, first, last, disturbed>>
vars == <<kernelVars, stateVars, collectionVars, worked, repeated, historyVars>>

Empty == [p \in {} |-> 0]
NoLines == [p \in Pids |-> 0]
Live == {p \in Pids : name[p] # None}
KworkersName == "kworkers"

Init == /\ name \in [Pids -> Names \cup {None}]
        /\ time = [p \in Pids |-> 0]
        /\ ticks = 0 /\ starts = 0
        /\ lock = None
        /\ kworkers = Empty /\ kworkersUsage = 0
        /\ running = {}
        /\ ahead = [c \in Collections |-> {}]
        /\ todo = [c \in Collections |-> NoLines]
        /\ newKworkers = Empty /\ newUsage = 0 /\ names = {} /\ samples = <<>>
        /\ begun = 0
        /\ worked = 0 /\ repeated = 0
        /\ reads = Empty /\ first = Empty /\ last = Empty /\ disturbed = FALSE

-----------------------------------------------------------------------------
(* The kernel                                                                *)

Work(p) == /\ name[p] # None /\ ticks < MaxTicks
           /\ time' = [time EXCEPT ![p] = @ + 1]
           /\ ticks' = ticks + 1
           /\ worked' = IF name[p] = Kworker THEN worked + 1 ELSE worked
           /\ UNCHANGED <<name, starts, stateVars, collectionVars, repeated,
                          historyVars>>

Exit(p) == /\ name[p] # None
           /\ name' = [name EXCEPT ![p] = None]
           /\ ahead' = [c \in Collections |-> ahead[c] \ {p}]
           /\ UNCHANGED <<time, ticks, starts, stateVars, lock, running, todo,
                          newKworkers, newUsage, names, samples, begun, worked,
                          repeated, historyVars>>

\* The list of c is still being read.
IsListing(c) == c \in running /\ lock # c

\* A listing in progress may come to the new process, or be past its place.
StartProcess(p) ==
    /\ name[p] = None /\ starts < MaxStarts
    /\ \E n \in Names : name' = [name EXCEPT ![p] = n]
    /\ time' = [time EXCEPT ![p] = 0]
    /\ starts' = starts + 1
    /\ \E cs \in SUBSET {c \in Collections : IsListing(c)} :
          ahead' = [c \in Collections |-> IF c \in cs THEN ahead[c] \cup {p}
                                                      ELSE ahead[c]]
    /\ disturbed' = (disturbed \/ p \in DOMAIN first \cup DOMAIN reads)
    /\ UNCHANGED <<ticks, stateVars, lock, running, todo, newKworkers, newUsage,
                   names, samples, begun, worked, repeated, reads, first, last>>

-----------------------------------------------------------------------------
(* Collections                                                               *)

\* group.PIDs opens cgroup.procs, before the lock is taken ...
List(c) ==
    /\ c \notin running /\ begun < MaxCollections
    /\ running' = running \cup {c}
    /\ ahead' = [ahead EXCEPT ![c] = Live]
    /\ begun' = begun + 1
    /\ disturbed' = (disturbed \/ running # {})
    /\ UNCHANGED <<kernelVars, stateVars, lock, todo, newKworkers, newUsage,
                   names, samples, worked, repeated, reads, first, last>>

\* ... and appends each line it reads from it.
ListPid(c, p) ==
    /\ IsListing(c) /\ p \in ahead[c]
    /\ ahead' = [ahead EXCEPT ![c] = @ \ {p}]
    /\ todo' = [todo EXCEPT ![c][p] = @ + 1]
    /\ UNCHANGED <<kernelVars, stateVars, lock, running, newKworkers, newUsage,
                   names, samples, begun, worked, repeated, historyVars>>

\* The file cannot be read, or is not there.
ListFails(c) ==
    /\ IsListing(c)
    /\ running' = running \ {c}
    /\ ahead' = [ahead EXCEPT ![c] = {}]
    /\ todo' = [todo EXCEPT ![c] = NoLines]
    /\ UNCHANGED <<kernelVars, stateVars, lock, newKworkers, newUsage, names,
                   samples, begun, worked, repeated, historyVars>>

Acquire(c) ==
    /\ IsListing(c) /\ ahead[c] = {} /\ lock = None
    /\ lock' = c
    /\ newKworkers' = Empty /\ newUsage' = kworkersUsage
    /\ names' = {KworkersName} /\ samples' = <<>> /\ reads' = Empty
    /\ UNCHANGED <<kernelVars, stateVars, running, ahead, todo, begun, worked,
                   repeated, first, last, disturbed>>

Unlock(c) == /\ lock' = None
             /\ running' = running \ {c}
             /\ todo' = [todo EXCEPT ![c] = NoLines]
             /\ newKworkers' = Empty /\ newUsage' = 0
             /\ names' = {} /\ reads' = Empty
             /\ UNCHANGED ahead

\* The stimes in f with that of p.
With(f, p) == [q \in DOMAIN f \cup {p} |-> IF q = p THEN time[p] ELSE f[q]]

\* os.ReadFile(/proc/<p>/stat).
Reads(c, p) == /\ lock = c /\ todo[c][p] > 0
               /\ todo' = [todo EXCEPT ![c][p] = @ - 1]
               /\ reads' = IF name[p] = Kworker THEN With(reads, p)
                                                ELSE reads
               /\ UNCHANGED <<kernelVars, stateVars, lock, running, ahead,
                              begun, worked, first, last>>

\* ESRCH or ENOENT: it has exited since it was listed.
ReadExited(c, p) == /\ Reads(c, p) /\ name[p] = None
                    /\ UNCHANGED <<newKworkers, newUsage, names, samples,
                                   repeated, disturbed>>

\* parseProcStat does not understand the file.
ReadUnparsable(c, p) == /\ Reads(c, p) /\ name[p] # None
                        /\ disturbed' = TRUE
                        /\ UNCHANGED <<newKworkers, newUsage, names, samples,
                                       repeated>>

\* Mutant: what a kworker used before it was first seen counts as growth.
GrowthFromZero(p) ==
    LET recorded == IF p \in DOMAIN kworkers THEN kworkers[p] ELSE 0
    IN  IF time[p] < recorded THEN 0 ELSE time[p] - recorded

\* Mutant: all the time of a recorded kworker counts, every time.
GrowthAgain(p) == IF p \in DOMAIN kworkers THEN time[p] ELSE 0

\* Mutant: a decrease is counted too.
GrowthSigned(p) == IF p \in DOMAIN kworkers THEN time[p] - kworkers[p] ELSE 0

\* What a kworker has used since it was last recorded.  A decrease, which is
\* only logged, is not counted.
Growth(p) ==
    IF p \in DOMAIN kworkers /\ time[p] >= kworkers[p]
    THEN time[p] - kworkers[p] ELSE 0

\* What this collection has counted for a PID it has read before.
Counted(p) ==
    IF p \in DOMAIN newKworkers \cap DOMAIN kworkers /\ newKworkers[p] >= kworkers[p]
    THEN newKworkers[p] - kworkers[p] ELSE 0

\* The growth is that since the last collection, for a repeated PID as well.
ReadKworker(c, p) ==
    /\ Reads(c, p) /\ name[p] = Kworker
    /\ newKworkers' = With(newKworkers, p)
    /\ newUsage' = newUsage + Growth(p)
    /\ repeated' = repeated + Counted(p)
    /\ UNCHANGED <<names, samples, disturbed>>

\* A process that has used nothing, or whose name is taken, is left out.
IsSent(p) == time[p] # 0 /\ name[p] \notin names

\* Mutant: the name is not remembered.
ReadNamedForgets(c, p) ==
    /\ Reads(c, p) /\ name[p] \notin {Kworker, None}
    /\ samples' = IF IsSent(p) THEN Append(samples, name[p]) ELSE samples
    /\ UNCHANGED <<newKworkers, newUsage, names, repeated, disturbed>>

ReadNamed(c, p) ==
    /\ Reads(c, p) /\ name[p] \notin {Kworker, None}
    /\ names' = IF IsSent(p) THEN names \cup {name[p]} ELSE names
    /\ samples' = IF IsSent(p) THEN Append(samples, name[p]) ELSE samples
    /\ UNCHANGED <<newKworkers, newUsage, repeated, disturbed>>

\* Any other error, or /proc is not mounted: the collector's state is kept.
ReadFails(c) ==
    /\ lock = c /\ todo[c] # NoLines
    /\ Unlock(c)
    /\ UNCHANGED <<kernelVars, stateVars, samples, begun, worked, repeated,
                   first, last, disturbed>>

\* The stimes in f, and those in g of other processes.
Merge(f, g) == [p \in DOMAIN f \cup DOMAIN g |->
                  IF p \in DOMAIN f THEN f[p] ELSE g[p]]

Finish(c) ==
    /\ lock = c /\ todo[c] = NoLines
    /\ kworkers' = newKworkers /\ kworkersUsage' = newUsage
    /\ samples' = Append(samples, KworkersName)
    /\ first' = Merge(first, reads) /\ last' = Merge(reads, last)
    /\ Unlock(c)
    /\ UNCHANGED <<kernelVars, begun, worked, repeated, disturbed>>

Kernel == \E p \in Pids : Work(p) \/ Exit(p) \/ StartProcess(p)

Read == \E c \in Collections, p \in Pids : \/ ReadExited(c, p)
                                           \/ ReadUnparsable(c, p)
                                           \/ ReadKworker(c, p)
                                           \/ ReadNamed(c, p)

Collect == \/ Read
           \/ \E c \in Collections, p \in Pids : ListPid(c, p)
           \/ \E c \in Collections : \/ List(c) \/ ListFails(c) \/ Acquire(c)
                                     \/ ReadFails(c) \/ Finish(c)

Next == Kernel \/ Collect

Spec == Init /\ [][Next]_vars

Times == UNION {[ps -> 0..MaxTicks] : ps \in SUBSET Pids}

TypeOK == /\ name \in [Pids -> Names \cup {None}]
          /\ time \in [Pids -> 0..MaxTicks]
          /\ ticks \in 0..MaxTicks /\ starts \in 0..MaxStarts
          /\ lock \in Collections \cup {None}
          /\ kworkers \in Times /\ newKworkers \in Times
          /\ kworkersUsage \in Nat /\ newUsage \in Nat
          /\ running \subseteq Collections
          /\ ahead \in [Collections -> SUBSET Pids]
          /\ todo \in [Collections -> [Pids -> Nat]]
          /\ names \subseteq Names \cup {KworkersName}
          /\ samples \in Seq(Names \cup {KworkersName})
          /\ begun \in 0..MaxCollections
          /\ worked \in 0..MaxTicks /\ repeated \in Nat
          /\ reads \in Times /\ first \in Times /\ last \in Times
          /\ disturbed \in BOOLEAN

-----------------------------------------------------------------------------
(* However collections overlap, with lists of processes older than the       *)
(* other's, and whatever PIDs are used again, the kworkers are charged with  *)
(* no time they have not worked, but for a PID that is on a list twice: what *)
(* the collection has counted at its first line is then counted once more at *)
(* its second (group.go:64-87, collector.go:114-123, 141-142).               *)
OnlyRepeatedIsCountedTwice == /\ kworkersUsage <= worked + repeated
                              /\ newUsage <= worked + repeated

(* The exported usage of kworkers is a counter: the collection that stores   *)
(* its sum last does not take back what the other has added                  *)
(* (collector.go:75-78, 142).                                                *)
KworkersNeverGoBack == [][kworkersUsage' >= kworkersUsage]_vars

\* What all kworkers have used from one of their stimes to another.
Contributions(from, to) ==
    SumFunctionOnSet([p \in Pids |-> IF p \in DOMAIN from THEN to[p] - from[p]
                                     ELSE 0], Pids)

(* As long as collections do not overlap and no PID is used again, every     *)
(* kworker contributes all it has used between the first and the last        *)
(* completed collection that has read it.  A collection that fails halfway   *)
(* loses nothing: the next one catches up (collector.go:80-142).             *)
ExactWhenUndisturbed ==
    lock = None /\ ~disturbed =>
        kworkersUsage = Contributions(first, last)

(* No collection sends two metrics of one name, though processes share names *)
(* and may be called as the sum of kworkers is: the registry would refuse    *)
(* the whole scrape (collector.go:71, 130-134).                              *)
NoDuplicateSamples == IsInjective(samples)
=============================================================================
