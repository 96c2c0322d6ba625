------------------------------- MODULE IoRoot -------------------------------
(* internal/cgroups/io/collector.go: the I/O of a group that is not done in  *)
(* its children, per block device, for one such group: "/" or a service      *)
(* slice with a fixed list of excluded children.  It differs from CpuRoot in *)
(* what makes devices hard: they appear and disappear, each is calculated on *)
(* its own so that a collection can fail after some of them, and the last    *)
(* usage is replaced before anything is checked.                             *)
(*                                                                           *)
(* The kernel side is external.  io.stat has a line for a device once the    *)
(* group or a descendant has used it, and none once it is unplugged; Devices *)
(* leaves out the loop devices, which the collector skips.                   *)
EXTENDS RootUsage, FiniteSetsExt

CONSTANTS Devices,
          Children,      \* names of the group's child groups
          MaxTicks,      \* bound: I/O operations ever done
          MaxRemovals    \* bound: groups and devices ever removed

ASSUME IoAssumption == /\ MaxTicks \in Nat /\ MaxRemovals \in Nat
                       /\ Devices # {} /\ Children # {} /\ Kinds # {}
                       /\ IsFiniteSet(Children)

VARIABLES
    isRoot,        \* the group is "/"
    alive,         \* its children that exist
    total,         \* total[d]: its counters, descendants included
    childTotal,    \* childTotal[c][d]: the counters of its children
    ticks,         \* operations done so far
    removals,      \* groups and devices removed so far
    pc,            \* where the collection is
    children,      \* children taken into this snapshot
    todo,          \* those not read yet
    snapshot,      \* currentUsage: a rootUsage for each device seen
    hasState,      \* the collector has a rootState for the group
    collected, lastChildren, lastUsage, netUsage,     \* its fields
    done,          \* history: operations ever done, by the group itself and
                   \* with its descendants, on each device
    doneAtRead,    \* history: done when this snapshot's root was read
    doneFirst,     \* history: doneAtRead of the snapshot that made the state
    doneLast,      \* history: doneAtRead of the snapshot in lastUsage
    begun,         \* history: removals when this snapshot was begun
    lastBegun,     \* history: removals when the previous one was
    failed,        \* history: the last calculation has returned an error
    disturbed      \* history: a snapshot was not consistent (see Disturb)

kernelVars == <<isRoot, alive, total, childTotal, ticks, removals>>
readVars == <<pc, children, todo, snapshot>>
stateVars == <<hasState, collected, lastChildren, lastUsage, netUsage>>
markVars == <<doneFirst, doneLast, lastBegun, failed>>
vars == <<kernelVars, readVars, stateVars, markVars, done, doneAtRead, begun,
          disturbed>>

Nothing == [d \in Devices |-> NoUsage]

NothingDone == [own |-> Nothing, all |-> Nothing]

NoDevices == [d \in {} |-> NoUsage]

Init == /\ isRoot \in BOOLEAN
        /\ alive \in SUBSET Children
        /\ total = Nothing
        /\ childTotal = [c \in Children |-> Nothing]
        /\ ticks = 0 /\ removals = 0
        /\ pc = "idle" /\ children = {} /\ todo = {} /\ snapshot = NoDevices
        /\ hasState = FALSE /\ collected = FALSE
        /\ lastChildren = {} /\ lastUsage = NoDevices /\ netUsage = NoDevices
        /\ done = NothingDone /\ doneAtRead = NothingDone
        /\ doneFirst = NothingDone /\ doneLast = NothingDone
        /\ begun = 0 /\ lastBegun = 0
        /\ failed = FALSE /\ disturbed = FALSE

-----------------------------------------------------------------------------
(* The kernel                                                                *)

Add(counters, d, k) ==
    [counters EXCEPT ![d] = AddUsage(@, [j \in Kinds |-> IF j = k THEN 1 ELSE 0])]

\* A child counts for less, or for nothing, in the snapshot that is being read
\* or in the next one.
Disturb(condition) == disturbed' = (disturbed \/ (hasState /\ condition)
                                              \/ (pc # "idle" /\ condition))

UseOwn(d, k) ==
    /\ ticks < MaxTicks
    /\ ticks' = ticks + 1
    /\ total' = Add(total, d, k)
    /\ done' = [own |-> Add(done.own, d, k), all |-> Add(done.all, d, k)]
    /\ UNCHANGED <<isRoot, alive, childTotal, removals, readVars, stateVars,
                   markVars, doneAtRead, begun, disturbed>>

UseChild(c, d, k) ==
    /\ c \in alive /\ ticks < MaxTicks
    /\ ticks' = ticks + 1
    /\ total' = Add(total, d, k)
    /\ childTotal' = [childTotal EXCEPT ![c] = Add(@, d, k)]
    /\ done' = [done EXCEPT !.all = Add(@, d, k)]
    /\ Disturb(\/ pc = "listed" /\ c \notin children
               \/ pc = "children" /\ c \in todo)
    /\ UNCHANGED <<isRoot, alive, removals, readVars, stateVars, markVars,
                   doneAtRead, begun>>

CreateChild(c) ==
    /\ c \notin alive
    /\ alive' = alive \cup {c}
    /\ UNCHANGED <<isRoot, total, childTotal, ticks, removals, readVars, stateVars, markVars,
                   done, doneAtRead, begun, disturbed>>

\* The group's own counters keep what the child has done.
RemoveChild(c) ==
    /\ c \in alive /\ removals < MaxRemovals
    /\ removals' = removals + 1
    /\ alive' = alive \ {c}
    /\ childTotal' = [childTotal EXCEPT ![c] = Nothing]
    /\ Disturb(TRUE)
    /\ UNCHANGED <<isRoot, total, ticks, readVars, stateVars, markVars, done,
                   doneAtRead, begun>>

\* The counters of a device that is plugged in again start at zero.
Unplug(d) ==
    /\ total[d] # NoUsage /\ removals < MaxRemovals
    /\ removals' = removals + 1
    /\ total' = [total EXCEPT ![d] = NoUsage]
    /\ childTotal' = [c \in Children |-> [childTotal[c] EXCEPT ![d] = NoUsage]]
    /\ Disturb(TRUE)
    /\ UNCHANGED <<isRoot, alive, ticks, readVars, stateVars, markVars, done,
                   doneAtRead, begun>>

\* A service is stopped and started again: "/" never is.  (Skip and FailToRead
\* are what a collection makes of it in between.)
RestartGroup ==
    /\ ~isRoot /\ alive = {} /\ removals < MaxRemovals
    /\ removals' = removals + 1
    /\ total' = Nothing
    /\ Disturb(TRUE)
    /\ UNCHANGED <<isRoot, alive, childTotal, ticks, readVars, stateVars,
                   markVars, done, doneAtRead, begun>>

-----------------------------------------------------------------------------
(* The collector                                                             *)

Start == /\ pc = "idle"
         /\ pc' = "started"
         /\ collected' = FALSE
         /\ disturbed' = (disturbed /\ hasState)
         /\ failed' = FALSE
         /\ UNCHANGED <<kernelVars, children, todo, snapshot, hasState,
                        lastChildren, lastUsage, netUsage, doneFirst, doneLast,
                        lastBegun, done, doneAtRead, begun>>

ListChildren ==
    /\ pc = "started"
    /\ pc' = "listed"
    /\ children' = IF isRoot THEN alive ELSE Children
    /\ begun' = removals
    /\ UNCHANGED <<kernelVars, todo, snapshot, stateVars, markVars, done,
                   doneAtRead, disturbed>>

Lines(counters) == {d \in Devices : counters[d] # NoUsage}

\* The locals of Collect and collectRoot go out of scope.
Return == /\ pc' = "visited"
          /\ children' = {} /\ todo' = {} /\ snapshot' = NoDevices
          /\ doneAtRead' = NothingDone /\ begun' = 0

ReadGroup ==
    /\ pc = "listed"
    /\ pc' = "children"
    /\ snapshot' = [d \in Lines(total) |-> [root     |-> total[d],
                                            children |-> NoUsage]]
    /\ todo' = children
    /\ doneAtRead' = done
    /\ disturbed' = (disturbed \/ \E c \in alive \ children :
                                      childTotal[c] # Nothing)
    /\ UNCHANGED <<kernelVars, children, stateVars, markVars, done, begun>>

\* A device may have a line in the child and none yet in its parent.
ReadChild(c) ==
    /\ pc = "children" /\ c \in todo /\ c \in alive
    /\ todo' = todo \ {c}
    /\ snapshot' =
         [d \in DOMAIN snapshot \cup Lines(childTotal[c]) |->
            LET seen == IF d \in DOMAIN snapshot THEN snapshot[d]
                        ELSE [root |-> NoUsage, children |-> NoUsage]
            IN  [seen EXCEPT !.children = AddUsage(@, childTotal[c][d])]]
    /\ UNCHANGED <<kernelVars, pc, children, stateVars, markVars, done,
                   doneAtRead, begun, disturbed>>

\* A child that is gone, or an error of any file: the state is not touched.
FailToRead ==
    /\ pc = "listed" \/ (pc = "children" /\ todo # {})
    /\ Return
    /\ UNCHANGED <<kernelVars, stateVars, markVars, done, disturbed>>

CurrentChildren == IF isRoot THEN children ELSE {}

\* The first snapshot has nothing to be compared with: no device is reported.
MakeState ==
    /\ pc = "children" /\ todo = {} /\ ~hasState
    /\ Return
    /\ hasState' = TRUE /\ collected' = TRUE
    /\ lastChildren' = CurrentChildren
    /\ lastUsage' = snapshot
    /\ netUsage' = NoDevices
    /\ doneFirst' = doneAtRead /\ doneLast' = doneAtRead
    /\ lastBegun' = begun /\ failed' = FALSE
    /\ UNCHANGED <<kernelVars, done, disturbed>>

\* Mutant: the first usage of a device is only remembered.
LastOrCurrent(d) == IF d \in DOMAIN lastUsage THEN lastUsage[d] ELSE snapshot[d]

\* A device without an earlier usage has done nothing before.
Last(d) == IF d \in DOMAIN lastUsage THEN lastUsage[d]
           ELSE [root |-> NoUsage, children |-> NoUsage]

Net(d) == IF d \in DOMAIN netUsage THEN netUsage[d] ELSE NoUsage

Failing == {d \in DOMAIN snapshot : CalculationFails(snapshot[d], Last(d))}

ChildrenAreGone == isRoot /\ ~(lastChildren \subseteq children)

\* Mutant: only the devices of this snapshot are reported.
CalculateCurrent(devices, failing) ==
    netUsage' = [d \in devices \cup failing |->
                   IF d \in devices
                   THEN CalculateRootGroupUsage(Net(d), snapshot[d], Last(d))
                   ELSE Net(d)]

\* The devices are calculated in any order, up to one that fails: its usage is
\* left alone, but is there from now on.
Calculate(devices, failing) ==
    netUsage' = [d \in DOMAIN netUsage \cup devices \cup failing |->
                   IF d \in devices
                   THEN CalculateRootGroupUsage(Net(d), snapshot[d], Last(d))
                   ELSE Net(d)]

\* Mutant: the snapshot replaces the last one only when nothing has failed.
UpdateStateIfCalculated ==
    /\ pc = "children" /\ todo = {} /\ hasState
    /\ Return
    /\ LET ok == ~ChildrenAreGone /\ Failing = {}
       IN  /\ lastChildren' = IF ok THEN CurrentChildren ELSE lastChildren
           /\ lastUsage' = IF ok THEN snapshot ELSE lastUsage
           /\ collected' = (ok \/ collected)
           /\ failed' = ~ok
    /\ \/ ChildrenAreGone /\ UNCHANGED netUsage
       \/ ~ChildrenAreGone /\ Failing = {} /\ Calculate(DOMAIN snapshot, {})
       \/ /\ ~ChildrenAreGone
          /\ \E d \in Failing, devices \in SUBSET (DOMAIN snapshot \ Failing) :
                Calculate(devices, {d})
    /\ doneLast' = doneAtRead /\ lastBegun' = begun
    /\ UNCHANGED <<kernelVars, hasState, done, doneFirst, disturbed>>

\* The snapshot replaces the last one before anything is compared.
UpdateState ==
    /\ pc = "children" /\ todo = {} /\ hasState
    /\ Return
    /\ lastChildren' = CurrentChildren
    /\ lastUsage' = snapshot
    /\ collected' = TRUE
    /\ \/ /\ ChildrenAreGone
          /\ failed' = TRUE
          /\ UNCHANGED netUsage
       \/ /\ ~ChildrenAreGone /\ Failing = {}
          /\ failed' = FALSE
          /\ Calculate(DOMAIN snapshot, {})
       \/ /\ ~ChildrenAreGone
          /\ failed' = TRUE
          /\ \E d \in Failing, devices \in SUBSET (DOMAIN snapshot \ Failing) :
                Calculate(devices, {d})
    /\ doneLast' = doneAtRead /\ lastBegun' = begun
    /\ UNCHANGED <<kernelVars, hasState, done, doneFirst, disturbed>>

\* The walk did not find the service, or could not classify it.
Skip == /\ pc = "started" /\ ~isRoot
        /\ pc' = "visited"
        /\ UNCHANGED <<kernelVars, children, todo, snapshot, stateVars, markVars,
                       done, doneAtRead, begun, disturbed>>

NoState == /\ hasState' = FALSE /\ collected' = FALSE
           /\ lastChildren' = {} /\ lastUsage' = NoDevices
           /\ netUsage' = NoDevices

\* Post: a service that has not been collected is forgotten.
Post == /\ pc = "visited"
        /\ pc' = "idle"
        /\ IF collected \/ isRoot THEN UNCHANGED <<stateVars, doneFirst, doneLast,
                                                  lastBegun>>
           ELSE NoState /\ doneFirst' = NothingDone /\ doneLast' = NothingDone
                        /\ lastBegun' = 0
        /\ UNCHANGED <<kernelVars, children, todo, snapshot, failed, done,
                       doneAtRead, begun, disturbed>>

\* The walk fails before or after it got to the group: there is no Post.
Abort == /\ pc \in {"started", "visited"}
         /\ pc' = "idle"
         /\ UNCHANGED <<kernelVars, children, todo, snapshot, stateVars,
                        markVars, done, doneAtRead, begun, disturbed>>

Kernel == \/ \E d \in Devices, k \in Kinds : UseOwn(d, k)
          \/ \E c \in Children, d \in Devices, k \in Kinds : UseChild(c, d, k)
          \/ \E c \in Children : CreateChild(c)
          \/ \E c \in Children : RemoveChild(c)
          \/ \E d \in Devices : Unplug(d)
          \/ RestartGroup

Collect == \/ Start
           \/ ListChildren
           \/ ReadGroup
           \/ \E c \in Children : ReadChild(c)
           \/ FailToRead
           \/ MakeState
           \/ UpdateState
           \/ Skip
           \/ Post
           \/ Abort

Next == Kernel \/ Collect

Spec == Init /\ [][Next]_vars
-----------------------------------------------------------------------------
MapsDevices(usage, values) == /\ DOMAIN usage \subseteq Devices
                              /\ usage \in [DOMAIN usage -> values]

Done == [own : [Devices -> Usage], all : [Devices -> Usage]]

TypeOK == /\ isRoot \in BOOLEAN
          /\ alive \in SUBSET Children
          /\ total \in [Devices -> Usage]
          /\ childTotal \in [Children -> [Devices -> Usage]]
          /\ ticks \in 0..MaxTicks /\ removals \in 0..MaxRemovals
          /\ pc \in {"idle", "started", "listed", "children", "visited"}
          /\ children \in SUBSET Children /\ todo \in SUBSET children
          /\ MapsDevices(snapshot, RootUsages)
          /\ hasState \in BOOLEAN /\ collected \in BOOLEAN
          /\ lastChildren \in SUBSET Children
          /\ MapsDevices(lastUsage, RootUsages)
          /\ MapsDevices(netUsage, [Kinds -> Nat])
          /\ done \in Done /\ doneAtRead \in Done
          /\ doneFirst \in Done /\ doneLast \in Done
          /\ begun \in Nat /\ lastBegun \in Nat
          /\ failed \in BOOLEAN /\ disturbed \in BOOLEAN

(* No operation is reported twice: the reported I/O of a device never        *)
(* exceeds what has been done on it in the group between the first and the   *)
(* last snapshot, though counters restart with the device, a device may be   *)
(* missing from a snapshot, and a collection may fail after some devices     *)
(* have been calculated (io/collector.go:186-214).                           *)
NothingIsCountedTwice ==
    hasState => \A d \in DOMAIN netUsage, k \in Kinds :
        netUsage[d][k] <= doneLast.all[d][k] - doneFirst.all[d][k]

(* While no child and no device is removed and no child is busy while it is  *)
(* waiting to be read, the reported I/O is exactly what the group itself has *)
(* done between the first and the last snapshot.  Collections that are       *)
(* aborted or fail to read a file lose nothing (io/collector.go:136-216).    *)
ExactWhenUndisturbed ==
    hasState /\ ~disturbed => \A d \in Devices, k \in Kinds :
        Net(d)[k] = doneLast.own[d][k] - doneFirst.own[d][k]

(* An error does not repeat itself: a calculation fails only if a child or a *)
(* device has been removed since the previous snapshot was begun, so one     *)
(* removal costs at most two collections (io/collector.go:186-197).          *)
FailuresHaveACause ==
    [][pc = "children" /\ pc' = "visited" /\ todo = {} /\ failed'
          => removals > lastBegun]_vars

(* The reported values are counters: none goes back and no device is taken   *)
(* from the report while the collector has a state for the group, and that   *)
(* of "/" is never given up (io/collector.go:46-57, 199-216).                *)
ReportNeverGoesBack ==
    [][hasState =>
          /\ isRoot => hasState'
          /\ hasState' => /\ DOMAIN netUsage \subseteq DOMAIN netUsage'
                          /\ \A d \in DOMAIN netUsage, k \in Kinds :
                                netUsage'[d][k] >= netUsage[d][k]]_vars
=============================================================================
