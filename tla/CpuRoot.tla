------------------------------- MODULE CpuRoot -------------------------------
(* internal/cgroups/cpu/collector.go: the CPU usage of a group that is not   *)
(* spent in its children, for one such group: "/" (all top-level groups are  *)
(* its children) or a service slice with a fixed list of excluded children.  *)
(* The files are read one at a time while the kernel goes on counting and    *)
(* groups come and go, so a snapshot is never taken at one instant.          *)
(*                                                                           *)
(* The kernel side is external: a group's counter includes those of its      *)
(* descendants, keeps what a removed child used, and starts at zero when the *)
(* group is created.  The counter of "/" lacks some of that: the children of *)
(* "/" sum to about 10% more than it has counted (usage.go:35-43).           *)
EXTENDS RootUsage, FiniteSets, Functions

CONSTANTS Children,      \* names of the group's child groups
          MaxTicks,      \* bound: units of CPU time ever used
          MaxLost,       \* bound: units of a counter that "/" loses at most
          MaxRemovals    \* bound: groups ever removed

ASSUME CpuAssumption == /\ MaxTicks \in Nat /\ MaxRemovals \in Nat
                        /\ MaxLost \in Nat
                        /\ IsFiniteSet(Children)
                        /\ Children # {} /\ Kinds # {}

VARIABLES
    isRoot,        \* the group is "/"
    present,       \* the group exists
    alive,         \* its children that exist
    total,         \* its counters, descendants included
    childTotal,    \* the counters of its children
    ticks,         \* units of CPU time used so far
    removals,      \* groups removed so far
    pc,            \* where the collection is
    children,      \* children taken into this snapshot
    todo,          \* those not read yet
    snapshot,      \* the rootUsage being read ("current" in collectRoot)
    hasState,      \* the collector has a rootState for the group
    collected, lastUsage, netUsage,                   \* its fields
    ownUsage,      \* history: CPU time the group itself has used
    ownAtRead,     \* history: ownUsage when this snapshot's root was read
    ownFirst,      \* history: ownAtRead of the snapshot that made the state
    ownLast,       \* history: ownAtRead of the snapshot in lastUsage
    firstUsage,    \* history: the snapshot that made the state
    unseen,        \* history: time no snapshot could attribute (see Miss)
    lost           \* history: time used but not counted by "/" (see Charge)

kernelVars == <<isRoot, present, alive, total, childTotal, ticks, removals>>
readVars == <<pc, children, todo, snapshot>>
stateVars == <<hasState, collected, lastUsage, netUsage>>
historyVars == <<ownUsage, ownAtRead, ownFirst, ownLast, firstUsage, unseen, lost>>
vars == <<kernelVars, readVars, stateVars, historyVars>>

NoRootUsage == [root |-> NoUsage, children |-> NoUsage]

Init == /\ isRoot \in BOOLEAN
        /\ present = TRUE
        /\ alive \in SUBSET Children
        /\ total = NoUsage
        /\ childTotal = [c \in Children |-> NoUsage]
        /\ ticks = 0 /\ removals = 0
        /\ pc = "idle" /\ children = {} /\ todo = {} /\ snapshot = NoRootUsage
        /\ hasState = FALSE /\ collected = FALSE
        /\ lastUsage = NoRootUsage /\ netUsage = NoUsage
        /\ ownUsage = NoUsage /\ ownAtRead = NoUsage
        /\ ownFirst = NoUsage /\ ownLast = NoUsage
        /\ firstUsage = NoRootUsage /\ unseen = NoUsage /\ lost = NoUsage

-----------------------------------------------------------------------------
(* The kernel                                                                *)

Tick(k) == [j \in Kinds |-> IF j = k THEN 1 ELSE 0]

\* Time that this collection or a later one cannot attribute to the group or
\* to a child: it widens the margin of NetTracksOwnUsage.
Miss(usage) == unseen' = AddUsage(unseen, usage)

\* The group's counter takes what it or a child uses, unless "/" loses it.
Charge(k) ==
    \/ /\ total' = AddUsage(total, Tick(k))
       /\ UNCHANGED lost
    \/ /\ isRoot /\ lost[k] < MaxLost
       /\ lost' = AddUsage(lost, Tick(k))
       /\ UNCHANGED total

UseOwn(k) ==
    /\ present /\ ticks < MaxTicks
    /\ ticks' = ticks + 1
    /\ Charge(k)
    /\ ownUsage' = AddUsage(ownUsage, Tick(k))
    /\ UNCHANGED <<isRoot, present, alive, childTotal, removals, readVars,
                   stateVars, ownAtRead, ownFirst, ownLast, firstUsage, unseen>>

\* What a child uses after the snapshot read its parent and before it reads
\* the child is in the child's counter only.
UseChild(c, k) ==
    /\ present /\ c \in alive /\ ticks < MaxTicks
    /\ ticks' = ticks + 1
    /\ Charge(k)
    /\ childTotal' = [childTotal EXCEPT ![c] = AddUsage(@, Tick(k))]
    /\ IF pc = "children" /\ c \in todo THEN Miss(Tick(k)) ELSE UNCHANGED unseen
    /\ UNCHANGED <<isRoot, present, alive, removals, readVars, stateVars,
                   ownUsage, ownAtRead, ownFirst, ownLast, firstUsage>>

CreateChild(c) ==
    /\ present /\ c \notin alive
    /\ alive' = alive \cup {c}
    /\ childTotal' = [childTotal EXCEPT ![c] = NoUsage]
    /\ UNCHANGED <<isRoot, present, total, ticks, removals, readVars, stateVars,
                   historyVars>>

\* The parent's counter keeps what the child has used.
RemoveChild(c) ==
    /\ c \in alive /\ removals < MaxRemovals
    /\ removals' = removals + 1
    /\ alive' = alive \ {c}
    /\ Miss(childTotal[c])
    /\ UNCHANGED <<isRoot, present, total, childTotal, ticks, readVars,
                   stateVars, ownUsage, ownAtRead, ownFirst, ownLast, firstUsage,
                   lost>>

\* A service is stopped: "/" never is.
RemoveGroup ==
    /\ ~isRoot /\ present /\ alive = {} /\ removals < MaxRemovals
    /\ removals' = removals + 1
    /\ present' = FALSE
    /\ Miss(total)
    /\ UNCHANGED <<isRoot, alive, total, childTotal, ticks, readVars, stateVars,
                   ownUsage, ownAtRead, ownFirst, ownLast, firstUsage,
                   lost>>

CreateGroup ==
    /\ ~present
    /\ present' = TRUE
    /\ total' = NoUsage
    /\ UNCHANGED <<isRoot, alive, childTotal, ticks, removals, readVars,
                   stateVars, historyVars>>

-----------------------------------------------------------------------------
(* The collector                                                             *)

\* Pre.  While there is no state there is nothing for the history to explain.
Start == /\ pc = "idle"
         /\ pc' = "started"
         /\ collected' = FALSE
         /\ unseen' = IF hasState THEN unseen ELSE NoUsage
         /\ lost' = IF hasState THEN lost ELSE NoUsage
         /\ UNCHANGED <<kernelVars, children, todo, snapshot, hasState,
                        lastUsage, netUsage, ownUsage, ownAtRead, ownFirst,
                        ownLast, firstUsage>>

\* Collect: the children of "/" are listed, those of a service are given.
ListChildren ==
    /\ pc = "started"
    /\ pc' = "listed"
    /\ children' = IF isRoot THEN alive ELSE Children
    /\ UNCHANGED <<kernelVars, todo, snapshot, stateVars, historyVars>>

\* What some of the children have used together.
UsageOf(counters, group) == [k \in Kinds |->
    SumFunctionOnSet([c \in Children |-> counters[c][k]], group)]

\* What is in the group's counter but belongs to children created since they
\* were listed.
UnlistedUsage == UsageOf(childTotal, alive \ children)

\* The locals of Collect and collectRoot go out of scope.
Return == /\ pc' = "visited"
          /\ children' = {} /\ todo' = {} /\ snapshot' = NoRootUsage

\* The group's own cpu.stat; if it is gone the collection of the group ends.
ReadGroup ==
    /\ pc = "listed"
    /\ IF present
       THEN /\ pc' = "children"
            /\ snapshot' = [root |-> total, children |-> NoUsage]
            /\ todo' = children
            /\ ownAtRead' = ownUsage
            /\ Miss(UnlistedUsage)
            /\ UNCHANGED children
       ELSE Return /\ UNCHANGED <<ownAtRead, unseen>>
    /\ UNCHANGED <<kernelVars, stateVars, ownUsage, ownFirst, ownLast,
                   firstUsage, lost>>

ReadChild(c) ==
    /\ pc = "children" /\ c \in todo /\ c \in alive
    /\ todo' = todo \ {c}
    /\ snapshot' = [snapshot EXCEPT !.children = AddUsage(@, childTotal[c])]
    /\ UNCHANGED <<kernelVars, pc, children, stateVars, historyVars>>

\* A child is gone: an error for "/", a race for a service.  Whether the race
\* is forgiven or reported, collectRoot returns before it touches the state.
MissChild(c) ==
    /\ pc = "children" /\ c \in todo /\ c \notin alive
    /\ Return
    /\ UNCHANGED <<kernelVars, stateVars, historyVars>>

\* Any other error, of the group's file or a child's.
FailToRead == /\ pc = "listed" \/ (pc = "children" /\ todo # {})
              /\ Return
              /\ UNCHANGED <<kernelVars, stateVars, historyVars>>

\* The end of collectRoot, for a group that has no state yet ...
MakeState ==
    /\ pc = "children" /\ todo = {} /\ ~hasState
    /\ Return
    /\ hasState' = TRUE
    /\ netUsage' = NoUsage
    /\ lastUsage' = snapshot
    /\ collected' = TRUE
    /\ firstUsage' = snapshot
    /\ ownFirst' = ownAtRead
    /\ ownLast' = ownAtRead
    /\ UNCHANGED <<kernelVars, ownUsage, ownAtRead, unseen, lost>>

\* Mutant: the last usage is replaced also when the calculation fails.
UpdateStateAlways ==
    /\ pc = "children" /\ todo = {} /\ hasState
    /\ Return
    /\ netUsage' = IF CalculationFails(snapshot, lastUsage) THEN netUsage
                   ELSE CalculateRootGroupUsage(netUsage, snapshot, lastUsage)
    /\ lastUsage' = snapshot /\ collected' = TRUE /\ ownLast' = ownAtRead
    /\ UNCHANGED <<kernelVars, hasState, ownUsage, ownAtRead, ownFirst,
                   firstUsage, unseen, lost>>

\* ... and for one that has: a failed calculation returns before the last
\* usage and the collected flag are updated.
UpdateState ==
    /\ pc = "children" /\ todo = {} /\ hasState
    /\ Return
    /\ IF CalculationFails(snapshot, lastUsage)
       THEN UNCHANGED <<stateVars, ownLast>>
       ELSE /\ netUsage' = CalculateRootGroupUsage(netUsage, snapshot, lastUsage)
            /\ lastUsage' = snapshot
            /\ collected' = TRUE
            /\ ownLast' = ownAtRead
            /\ UNCHANGED hasState
    /\ UNCHANGED <<kernelVars, ownUsage, ownAtRead, ownFirst, firstUsage,
                   unseen, lost>>

\* The walk did not find the service, or could not classify it.
Skip == /\ pc = "started" /\ ~isRoot
        /\ pc' = "visited"
        /\ UNCHANGED <<kernelVars, children, todo, snapshot, stateVars,
                       historyVars>>

\* Mutant: "/" is forgotten as well.
PostDropsAll == /\ pc = "visited"
                /\ pc' = "idle"
                /\ hasState' = (hasState /\ collected)
                /\ UNCHANGED <<kernelVars, children, todo, snapshot, collected,
                               lastUsage, netUsage, historyVars>>

\* Post: a service that has not been collected is forgotten.
Post == /\ pc = "visited"
        /\ pc' = "idle"
        /\ hasState' = (hasState /\ (collected \/ isRoot))
        /\ UNCHANGED <<kernelVars, children, todo, snapshot, collected,
                       lastUsage, netUsage, historyVars>>

\* The walk fails before or after it got to the group: there is no Post.
Abort == /\ pc \in {"started", "visited"}
         /\ pc' = "idle"
         /\ UNCHANGED <<kernelVars, children, todo, snapshot, stateVars,
                        historyVars>>

Kernel == \/ \E k \in Kinds : UseOwn(k)
          \/ \E c \in Children, k \in Kinds : UseChild(c, k)
          \/ \E c \in Children : CreateChild(c)
          \/ \E c \in Children : RemoveChild(c)
          \/ RemoveGroup
          \/ CreateGroup

Collect == \/ Start
           \/ ListChildren
           \/ ReadGroup
           \/ \E c \in Children : ReadChild(c)
           \/ \E c \in Children : MissChild(c)
           \/ FailToRead
           \/ MakeState
           \/ UpdateState
           \/ Skip
           \/ Post
           \/ Abort

Next == Kernel \/ Collect

Spec == Init /\ [][Next]_vars
-----------------------------------------------------------------------------
TypeOK == /\ isRoot \in BOOLEAN /\ present \in BOOLEAN
          /\ alive \in SUBSET Children
          /\ total \in Usage
          /\ childTotal \in [Children -> Usage]
          /\ ticks \in 0..MaxTicks /\ removals \in 0..MaxRemovals
          /\ pc \in {"idle", "started", "listed", "children", "visited"}
          /\ children \in SUBSET Children /\ todo \in SUBSET children
          /\ snapshot \in RootUsages
          /\ hasState \in BOOLEAN /\ collected \in BOOLEAN
          /\ lastUsage \in RootUsages /\ netUsage \in [Kinds -> Nat]
          /\ ownUsage \in Usage /\ ownAtRead \in Usage
          /\ ownFirst \in Usage /\ ownLast \in Usage
          /\ firstUsage \in RootUsages
          /\ unseen \in Usage /\ lost \in [Kinds -> 0..MaxLost]

(* The exported usage is the time the group itself has used between the      *)
(* first and the last snapshot, up to the time that no snapshot can          *)
(* attribute: what children used while a snapshot was being read, children   *)
(* created after the listing, and groups removed.  What "/" does not count   *)
(* can be missing from it as well, but never adds to it (usage.go:35-43).    *)
(* Failed, raced and aborted collections in between add no other error,      *)
(* because the last usage is kept until the next one that succeeds           *)
(* (cpu/collector.go:127-140).                                               *)
NetTracksOwnUsage ==
    hasState => \A k \in Kinds :
        /\ netUsage[k] <= ownLast[k] - ownFirst[k] + unseen[k]
        /\ netUsage[k] >= ownLast[k] - ownFirst[k] - unseen[k] - lost[k]

(* Whatever happens to the children, the exported usage never exceeds what   *)
(* the group's own file has counted since the state was made, and never      *)
(* falls behind the growth of the group over its children                    *)
(* (usage.go:59-64).                                                         *)
NetIsBoundedByCounters ==
    hasState => \A k \in Kinds :
        /\ netUsage[k] <= lastUsage.root[k] - firstUsage.root[k]
        /\ netUsage[k] >= (lastUsage.root[k] - lastUsage.children[k])
                            - (firstUsage.root[k] - firstUsage.children[k])

(* The exported value is a counter: it never goes back while the collector   *)
(* has a state for the group, and the state of "/" is never given up         *)
(* (cpu/collector.go:39-50).                                                 *)
NetNeverGoesBack ==
    [][hasState => /\ isRoot => hasState'
                   /\ hasState' => \A k \in Kinds : netUsage'[k] >= netUsage[k]]_vars
=============================================================================
