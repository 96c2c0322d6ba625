----------------------------- MODULE IoRootProofs -----------------------------
(* Proofs, for any devices, children, counters and bounds, of what the       *)
(* reported I/O of a root group can be: a counter, of nothing that has not   *)
(* been done, and of all that the group has done itself while nothing it is  *)
(* compared with disappears.  The last part is about sums over the children  *)
(* (SumTheorems).  Memory, which has no such state, needs one fact only, and *)
(* it is here with the numbers it is about.                                  *)
EXTENDS IoRoot, SumTheorems

Counters == [Kinds -> Nat]

Pairs == [root : Counters, children : Counters]

Histories == [own : [Devices -> Counters], all : [Devices -> Counters]]

\* The types of TypeOK, with numbers that are natural.
NumbersOK ==
    /\ total \in [Devices -> Counters]
    /\ childTotal \in [Children -> [Devices -> Counters]]
    /\ MapsDevices(snapshot, Pairs)
    /\ MapsDevices(lastUsage, Pairs)
    /\ MapsDevices(netUsage, Counters)
    /\ done \in Histories /\ doneAtRead \in Histories
    /\ doneFirst \in Histories /\ doneLast \in Histories

ControlOK ==
    /\ isRoot \in BOOLEAN /\ alive \in SUBSET Children
    /\ ticks \in 0..MaxTicks /\ removals \in 0..MaxRemovals
    /\ pc \in {"idle", "started", "listed", "children", "visited"}
    /\ children \in SUBSET Children /\ todo \in SUBSET children
    /\ pc # "children" => todo = {}
    /\ hasState \in BOOLEAN /\ collected \in BOOLEAN
    /\ lastChildren \in SUBSET Children
    /\ begun \in Nat /\ lastBegun \in Nat
    /\ failed \in BOOLEAN /\ disturbed \in BOOLEAN

\* The group's counters in a snapshot, zero for a device it has no line for.
RootOf(usage, d) == IF d \in DOMAIN usage THEN usage[d].root ELSE NoUsage

\* The snapshots are older than the counters, and a counter has grown by what
\* has been done since, unless it has started again: then it is less.
LastIsBehind(d, k) ==
    /\ doneFirst.all[d][k] <= doneLast.all[d][k]
    /\ doneLast.all[d][k] <= done.all[d][k]
    /\ total[d][k] - RootOf(lastUsage, d)[k] <= done.all[d][k] - doneLast.all[d][k]

SnapshotIsBehind(d, k) ==
    /\ doneAtRead.all[d][k] <= done.all[d][k]
    /\ total[d][k] - RootOf(snapshot, d)[k] <= done.all[d][k] - doneAtRead.all[d][k]

LastIsBehindSnapshot(d, k) ==
    /\ doneLast.all[d][k] <= doneAtRead.all[d][k]
    /\ RootOf(snapshot, d)[k] - RootOf(lastUsage, d)[k]
         <= doneAtRead.all[d][k] - doneLast.all[d][k]

NetIsDone(d, k) == d \in DOMAIN netUsage =>
    netUsage[d][k] <= doneLast.all[d][k] - doneFirst.all[d][k]

Behind ==
    \A d \in Devices, k \in Kinds :
        /\ hasState => LastIsBehind(d, k) /\ NetIsDone(d, k)
        /\ pc = "children" => SnapshotIsBehind(d, k)
        /\ hasState /\ pc = "children" => LastIsBehindSnapshot(d, k)

IInv == ControlOK /\ NumbersOK /\ Behind

\* What one step may do to the report.
ReportGrows ==
    hasState =>
        /\ isRoot => hasState'
        /\ hasState' => /\ DOMAIN netUsage \subseteq DOMAIN netUsage'
                        /\ \A d \in DOMAIN netUsage, k \in Kinds :
                              netUsage'[d][k] >= netUsage[d][k]
-----------------------------------------------------------------------------
(* Numbers                                                                   *)

(* What the state starts from.                                               *)
LEMMA Zeros == /\ NoUsage \in Counters
               /\ \A k \in Kinds : NoUsage[k] = 0
               /\ Nothing \in [Devices -> Counters]
               /\ \A d \in Devices, k \in Kinds : Nothing[d][k] = 0
               /\ NothingDone \in Histories
               /\ \A d \in Devices, k \in Kinds : NothingDone.all[d][k] = 0
BY DEF NoUsage, Counters, Nothing, NothingDone, Histories

(* The empty map maps devices to anything.                                   *)
LEMMA NoDevicesType == ASSUME NEW S PROVE MapsDevices(NoDevices, S)
BY DEF MapsDevices, NoDevices

(* A sum of counters has counters.                                           *)
LEMMA AddUsageType ==
    ASSUME NEW a \in Counters, NEW b \in Counters
    PROVE  AddUsage(a, b) \in Counters
BY DEF AddUsage, Counters

(* One request adds one to one counter of one device.                        *)
LEMMA AddDoes ==
    ASSUME NEW counters \in [Devices -> Counters], NEW d \in Devices, NEW k \in Kinds
    PROVE  /\ Add(counters, d, k) \in [Devices -> Counters]
           /\ \A e \in Devices, j \in Kinds :
                 Add(counters, d, k)[e][j] =
                     counters[e][j] + (IF e = d /\ j = k THEN 1 ELSE 0)
<1> DEFINE one == [j \in Kinds |-> IF j = k THEN 1 ELSE 0]
<1>1. one \in Counters
  BY DEF Counters
<1>2. AddUsage(counters[d], one) \in Counters
  BY <1>1, AddUsageType
<1>3. Add(counters, d, k) = [counters EXCEPT ![d] = AddUsage(counters[d], one)]
  BY DEF Add
<1>4. \A j \in Kinds : AddUsage(counters[d], one)[j] =
                           counters[d][j] + (IF j = k THEN 1 ELSE 0)
  BY DEF AddUsage
<1>5. \A e \in Devices, j \in Kinds : counters[e][j] \in Nat
  BY DEF Counters
<1> HIDE DEF one
<1> QED
  BY <1>2, <1>3, <1>4, <1>5

(* A successful calculation adds to the net usage no negative amount, and no *)
(* more than the group's own counter has grown by (usage.go:59-64).          *)
LEMMA CalculationBounds ==
    ASSUME NEW net \in Counters, NEW cur \in Pairs, NEW prev \in Pairs,
           ~CalculationFails(cur, prev)
    PROVE  /\ CalculateRootGroupUsage(net, cur, prev) \in Counters
           /\ \A k \in Kinds :
                LET new == CalculateRootGroupUsage(net, cur, prev)[k]
                IN  new >= net[k] /\ new <= net[k] + (cur.root[k] - prev.root[k])
<1> DEFINE f == CalculateRootGroupUsage(net, cur, prev)
<1>1. ASSUME NEW k \in Kinds
      PROVE  f[k] \in Nat /\ f[k] >= net[k]
                          /\ f[k] <= net[k] + (cur.root[k] - prev.root[k])
  <2>1. /\ net[k] \in Nat /\ cur.root[k] \in Nat /\ prev.root[k] \in Nat
        /\ cur.children[k] \in Nat /\ prev.children[k] \in Nat
    BY DEF Counters, Pairs
  <2>2. /\ RootDiff(cur, prev)[k] = cur.root[k] - prev.root[k]
        /\ ChildrenDiff(cur, prev)[k] = cur.children[k] - prev.children[k]
    BY DEF RootDiff, ChildrenDiff, Diff
  <2>3. ~(RootDiff(cur, prev)[k] < 0) /\ ~(ChildrenDiff(cur, prev)[k] < 0)
    BY DEF CalculationFails, IsNegative
  <2>4. f[k] = net[k] + NetGrowth(cur.root[k] - prev.root[k],
                                  cur.children[k] - prev.children[k])
    BY <2>2 DEF CalculateRootGroupUsage
  <2> HIDE DEF f
  <2> QED
    BY <2>1, <2>2, <2>3, <2>4 DEF NetGrowth
<1>2. f = [k \in Kinds |-> f[k]]
  BY DEF CalculateRootGroupUsage
<1> HIDE DEF f
<1>3. f \in Counters
  BY <1>1, <1>2 DEF Counters
<1> QED
  BY <1>1, <1>3 DEF f

(* A device that is missing from a map has the group's counters at zero.     *)
LEMMA RootOfType ==
    ASSUME NEW usage, MapsDevices(usage, Pairs), NEW d \in Devices, NEW k \in Kinds
    PROVE  RootOf(usage, d) \in Counters /\ RootOf(usage, d)[k] \in Nat
<1>1. CASE d \in DOMAIN usage
  <2>1. usage[d] \in Pairs
    BY <1>1 DEF MapsDevices
  <2> QED
    BY <1>1, <2>1 DEF RootOf, Pairs, Counters
<1>2. CASE d \notin DOMAIN usage
  BY <1>2, Zeros DEF RootOf
<1> QED
  BY <1>1, <1>2

(* In a state with the types, what the invariant compares are numbers.       *)
LEMMA AreNumbers ==
    ASSUME NumbersOK, NEW d \in Devices, NEW k \in Kinds
    PROVE  /\ total[d][k] \in Nat
           /\ done.all[d][k] \in Nat /\ doneAtRead.all[d][k] \in Nat
           /\ doneFirst.all[d][k] \in Nat /\ doneLast.all[d][k] \in Nat
           /\ RootOf(snapshot, d)[k] \in Nat /\ RootOf(lastUsage, d)[k] \in Nat
           /\ d \in DOMAIN netUsage => netUsage[d][k] \in Nat
<1>1. total[d][k] \in Nat
  BY DEF NumbersOK, Counters
<1>2. /\ done.all[d][k] \in Nat /\ doneAtRead.all[d][k] \in Nat
      /\ doneFirst.all[d][k] \in Nat /\ doneLast.all[d][k] \in Nat
  BY DEF NumbersOK, Histories, Counters
<1>3. d \in DOMAIN netUsage => netUsage[d][k] \in Nat
  BY DEF NumbersOK, MapsDevices, Counters
<1> QED
  BY <1>1, <1>2, <1>3, RootOfType DEF NumbersOK

(* Memory clips the difference after every child.  That two children are     *)
(* subtracted one after the other, in any order, is the same as subtracting  *)
(* their sum, so clipping halfway loses nothing: the result is what the      *)
(* group has over all of its children, or zero (memory/collector.go:134-137).*)
THEOREM MemoryHasNoOrder ==
    ASSUME NEW usage \in Counters, NEW a \in Counters, NEW b \in Counters
    PROVE  /\ SubtractUsage(usage, a) \in Counters
           /\ SubtractUsage(SubtractUsage(usage, a), b)
                = SubtractUsage(usage, AddUsage(a, b))
           /\ SubtractUsage(SubtractUsage(usage, a), b)
                = SubtractUsage(SubtractUsage(usage, b), a)
<1>1. \A k \in Kinds : usage[k] \in Nat /\ a[k] \in Nat /\ b[k] \in Nat
  BY DEF Counters
<1>2. SubtractUsage(usage, a) \in Counters
  BY <1>1 DEF SubtractUsage, Counters
<1>3. ASSUME NEW k \in Kinds
      PROVE  /\ SubtractUsage(SubtractUsage(usage, a), b)[k]
                  = SubtractUsage(usage, AddUsage(a, b))[k]
             /\ SubtractUsage(SubtractUsage(usage, a), b)[k]
                  = SubtractUsage(SubtractUsage(usage, b), a)[k]
  BY <1>1 DEF SubtractUsage, AddUsage
<1> QED
  BY <1>2, <1>3 DEF SubtractUsage

(* The initial state satisfies the invariant.                                *)
LEMMA InitIInv == Init => IInv
<1> SUFFICES ASSUME Init PROVE IInv
  OBVIOUS
<1>1. ControlOK
  <2>1. ticks \in 0..MaxTicks /\ removals \in 0..MaxRemovals
    BY IoAssumption DEF Init
  <2>2. begun \in Nat /\ lastBegun \in Nat
    BY DEF Init
  <2> QED
    BY <2>1, <2>2, Zenon DEF Init, ControlOK
<1>2. NumbersOK
  BY Zeros, NoDevicesType DEF Init, NumbersOK
<1>3. Behind
  BY DEF Init, Behind
<1> QED
  BY <1>1, <1>2, <1>3 DEF IInv

-----------------------------------------------------------------------------
(* The kernel never touches what the collector has read.  A counter grows by *)
(* what is done, or starts again.                                            *)
LEMMA KernelNumbers ==
    ASSUME IInv, Kernel
    PROVE  /\ total' \in [Devices -> Counters]
           /\ childTotal' \in [Children -> [Devices -> Counters]]
           /\ done' \in Histories
           /\ \A d \in Devices, k \in Kinds :
                /\ done'.all[d][k] >= done.all[d][k]
                /\ \/ total'[d][k] - total[d][k] = done'.all[d][k] - done.all[d][k]
                   \/ total'[d][k] = 0
<1> DEFINE Goal == /\ total' \in [Devices -> Counters]
                   /\ childTotal' \in [Children -> [Devices -> Counters]]
                   /\ done' \in Histories
                   /\ \A d \in Devices, k \in Kinds :
                        /\ done'.all[d][k] >= done.all[d][k]
                        /\ \/ total'[d][k] - total[d][k]
                                = done'.all[d][k] - done.all[d][k]
                           \/ total'[d][k] = 0
<1>1. /\ total \in [Devices -> Counters]
      /\ childTotal \in [Children -> [Devices -> Counters]]
      /\ done \in Histories
  BY DEF IInv, NumbersOK
<1>2. \A d \in Devices, k \in Kinds : total[d][k] \in Nat /\ done.all[d][k] \in Nat
  BY AreNumbers DEF IInv
<1>3. done.own \in [Devices -> Counters] /\ done.all \in [Devices -> Counters]
  BY <1>1 DEF Histories
<1>4. CASE UNCHANGED <<total, childTotal, done>>
  BY <1>1, <1>2, <1>4
<1>5. ASSUME NEW d \in Devices, NEW k \in Kinds, UseOwn(d, k) PROVE Goal
  <2>1. total' = Add(total, d, k) /\ UNCHANGED childTotal
    BY <1>5 DEF UseOwn
  <2>2. done' = [own |-> Add(done.own, d, k), all |-> Add(done.all, d, k)]
    BY <1>5 DEF UseOwn
  <2>3. done' \in Histories /\ done'.all = Add(done.all, d, k)
    BY <2>2, <1>3, AddDoes DEF Histories
  <2>4. total' \in [Devices -> Counters] /\ childTotal' = childTotal
    BY <1>1, <2>1, AddDoes
  <2>5. ASSUME NEW e \in Devices, NEW j \in Kinds
        PROVE  /\ total'[e][j] = total[e][j] + (IF e = d /\ j = k THEN 1 ELSE 0)
               /\ done'.all[e][j]
                    = done.all[e][j] + (IF e = d /\ j = k THEN 1 ELSE 0)
    <3>1. Add(total, d, k)[e][j] = total[e][j] + (IF e = d /\ j = k THEN 1 ELSE 0)
      BY <1>1, AddDoes
    <3>2. Add(done.all, d, k)[e][j]
            = done.all[e][j] + (IF e = d /\ j = k THEN 1 ELSE 0)
      BY <1>3, AddDoes
    <3> QED
      BY <2>1, <2>3, <3>1, <3>2
  <2> QED
    BY <1>1, <1>2, <2>3, <2>4, <2>5
<1>6. ASSUME NEW c \in Children, NEW d \in Devices, NEW k \in Kinds,
             UseChild(c, d, k)
      PROVE  Goal
  <2>1. /\ total' = Add(total, d, k)
        /\ childTotal' = [childTotal EXCEPT ![c] = Add(childTotal[c], d, k)]
        /\ done' = [done EXCEPT !.all = Add(done.all, d, k)]
    BY <1>6 DEF UseChild
  <2>2. done' \in Histories /\ done'.all = Add(done.all, d, k)
    BY <2>1, <1>1, <1>3, AddDoes DEF Histories
  <2>3. childTotal' \in [Children -> [Devices -> Counters]]
    BY <1>1, <2>1, AddDoes
  <2>4. total' \in [Devices -> Counters]
    BY <1>1, <2>1, AddDoes
  <2>5. ASSUME NEW e \in Devices, NEW j \in Kinds
        PROVE  /\ total'[e][j] = total[e][j] + (IF e = d /\ j = k THEN 1 ELSE 0)
               /\ done'.all[e][j]
                    = done.all[e][j] + (IF e = d /\ j = k THEN 1 ELSE 0)
    <3>1. Add(total, d, k)[e][j] = total[e][j] + (IF e = d /\ j = k THEN 1 ELSE 0)
      BY <1>1, AddDoes
    <3>2. Add(done.all, d, k)[e][j]
            = done.all[e][j] + (IF e = d /\ j = k THEN 1 ELSE 0)
      BY <1>3, AddDoes
    <3> QED
      BY <2>1, <2>2, <3>1, <3>2
  <2> QED
    BY <1>2, <2>2, <2>3, <2>4, <2>5
<1>7. ASSUME NEW c \in Children, RemoveChild(c) PROVE Goal
  BY <1>1, <1>2, <1>7, Zeros DEF RemoveChild
<1>8. ASSUME NEW d \in Devices, Unplug(d) PROVE Goal
  <2>1. /\ total' = [total EXCEPT ![d] = NoUsage]
        /\ childTotal' = [c \in Children |-> [childTotal[c] EXCEPT ![d] = NoUsage]]
        /\ UNCHANGED done
    BY <1>8 DEF Unplug
  <2>2. childTotal' \in [Children -> [Devices -> Counters]]
    BY <1>1, <2>1, Zeros
  <2> QED
    BY <1>1, <1>2, <2>1, <2>2, Zeros
<1>9. CASE RestartGroup
  BY <1>1, <1>2, <1>9, Zeros DEF RestartGroup
<1>10. CASE \E c \in Children : CreateChild(c)
  BY <1>4, <1>10 DEF CreateChild
<1> QED
  BY <1>5, <1>6, <1>7, <1>8, <1>9, <1>10 DEF Kernel

(* What happens in the kernel keeps the control state.                       *)
LEMMA KernelControl == ControlOK /\ Kernel => ControlOK'
<1> SUFFICES ASSUME ControlOK, Kernel PROVE ControlOK'
  OBVIOUS
<1> USE DEF ControlOK
<1>1. UNCHANGED <<readVars, stateVars, markVars, begun>>
  BY DEF Kernel, UseOwn, UseChild, CreateChild, RemoveChild, Unplug, RestartGroup
<1>2. isRoot' = isRoot /\ alive' \in SUBSET Children
  BY DEF Kernel, UseOwn, UseChild, CreateChild, RemoveChild, Unplug, RestartGroup
<1>3. ticks' \in 0..MaxTicks /\ removals' \in 0..MaxRemovals
  <2>1. /\ ticks' = ticks \/ (ticks < MaxTicks /\ ticks' = ticks + 1)
        /\ removals' = removals \/ (removals < MaxRemovals /\ removals' = removals + 1)
    BY DEF Kernel, UseOwn, UseChild, CreateChild, RemoveChild, Unplug, RestartGroup
  <2> QED
    BY <2>1, IoAssumption
<1>4. disturbed' \in BOOLEAN
  BY Zenon DEF Kernel, UseOwn, UseChild, CreateChild, RemoveChild, Unplug,
     RestartGroup, Disturb
<1> QED
  BY <1>1, <1>2, <1>3, <1>4, Zenon DEF readVars, stateVars, markVars

(* What happens in the kernel keeps the invariant and the report.            *)
LEMMA KernelIInv == IInv /\ Kernel => IInv' /\ ReportGrows
<1> SUFFICES ASSUME IInv, Kernel PROVE IInv' /\ ReportGrows
  OBVIOUS
<1>1. UNCHANGED <<readVars, stateVars, markVars, doneAtRead, isRoot>>
  BY DEF Kernel, UseOwn, UseChild, CreateChild, RemoveChild, Unplug, RestartGroup
<1>2. ControlOK'
  BY KernelControl DEF IInv
<1>3. NumbersOK'
  BY <1>1, KernelNumbers DEF IInv, NumbersOK, readVars, stateVars, markVars,
     MapsDevices
<1>4. ASSUME NEW d \in Devices, NEW k \in Kinds
      PROVE  /\ (hasState => LastIsBehind(d, k) /\ NetIsDone(d, k))'
             /\ (pc = "children" => SnapshotIsBehind(d, k))'
             /\ (hasState /\ pc = "children" => LastIsBehindSnapshot(d, k))'
  <2>1. /\ hasState' = hasState /\ pc' = pc /\ netUsage' = netUsage
        /\ doneFirst' = doneFirst /\ doneLast' = doneLast
        /\ doneAtRead' = doneAtRead
        /\ RootOf(lastUsage, d)' = RootOf(lastUsage, d)
        /\ RootOf(snapshot, d)' = RootOf(snapshot, d)
    BY <1>1 DEF readVars, stateVars, markVars, RootOf
  <2>2. /\ hasState => LastIsBehind(d, k) /\ NetIsDone(d, k)
        /\ pc = "children" => SnapshotIsBehind(d, k)
        /\ hasState /\ pc = "children" => LastIsBehindSnapshot(d, k)
    BY DEF IInv, Behind
  <2>3. /\ done'.all[d][k] >= done.all[d][k]
        /\ \/ total'[d][k] - total[d][k] = done'.all[d][k] - done.all[d][k]
           \/ total'[d][k] = 0
    BY KernelNumbers
  <2>4. total'[d][k] \in Nat /\ done'.all[d][k] \in Nat
    BY <1>3, KernelNumbers DEF Counters, Histories
  <2>5. (hasState => LastIsBehind(d, k) /\ NetIsDone(d, k))'
    BY <2>1, <2>2, <2>3, <2>4, AreNumbers DEF IInv, LastIsBehind, NetIsDone
  <2>6. (pc = "children" => SnapshotIsBehind(d, k))'
    BY <2>1, <2>2, <2>3, <2>4, AreNumbers DEF IInv, SnapshotIsBehind
  <2>7. (hasState /\ pc = "children" => LastIsBehindSnapshot(d, k))'
    BY <2>1, <2>2, Zenon DEF LastIsBehindSnapshot
  <2> QED
    BY <2>5, <2>6, <2>7
<1>5. Behind'
  BY <1>4 DEF Behind
<1>6. ReportGrows
  BY <1>1, AreNumbers DEF IInv, NumbersOK, MapsDevices, ReportGrows, stateVars
<1> QED
  BY <1>2, <1>3, <1>5, <1>6 DEF IInv

-----------------------------------------------------------------------------
(* The collector                                                             *)

(* A step of a collection keeps the control state.                           *)
LEMMA CollectControl == ControlOK /\ Collect => ControlOK'
<1> SUFFICES ASSUME ControlOK, Collect PROVE ControlOK'
  OBVIOUS
<1>1. /\ isRoot' = isRoot /\ alive' = alive /\ ticks' = ticks
      /\ removals' = removals
  BY DEF Collect, Start, ListChildren, ReadGroup, ReadChild, FailToRead, MakeState,
     UpdateState, Skip, Post, Abort, kernelVars
<1>2. pc' \in {"idle", "started", "listed", "children", "visited"}
  BY DEF Collect, Start, ListChildren, ReadGroup, ReadChild, FailToRead, MakeState,
     UpdateState, Skip, Post, Abort, Return, ControlOK
<1>3. /\ children' \in SUBSET Children /\ todo' \in SUBSET children'
      /\ pc' # "children" => todo' = {}
  <2>1. CASE ListChildren
    BY <2>1 DEF ListChildren, ControlOK
  <2>2. CASE Start \/ ReadGroup \/ Skip \/ Post \/ Abort
    BY <2>2 DEF Start, ReadGroup, Skip, Post, Abort, ControlOK
  <2>3. CASE \E c \in Children : ReadChild(c)
    BY <2>3 DEF ReadChild, ControlOK
  <2>4. CASE FailToRead \/ MakeState \/ UpdateState
    BY <2>4 DEF FailToRead, MakeState, UpdateState, Return
  <2> QED
    BY <2>1, <2>2, <2>3, <2>4 DEF Collect
<1>4. hasState' \in BOOLEAN /\ collected' \in BOOLEAN
  BY Zenon DEF Collect, Start, ListChildren, ReadGroup, ReadChild, FailToRead,
     MakeState, UpdateState, Skip, Post, Abort, NoState, stateVars, ControlOK
<1>5. lastChildren' \in SUBSET Children
  <2>1. CurrentChildren \in SUBSET Children
    BY DEF CurrentChildren, ControlOK
  <2> QED
    BY <2>1 DEF Collect, Start, ListChildren, ReadGroup, ReadChild, FailToRead,
       MakeState, UpdateState, Skip, Post, Abort, NoState, stateVars, ControlOK
<1>6. begun' \in Nat /\ lastBegun' \in Nat
  <2>1. begun \in Nat /\ lastBegun \in Nat /\ removals \in Nat
    BY IoAssumption DEF ControlOK
  <2>2. begun' \in {begun, removals, 0} /\ lastBegun' \in {lastBegun, begun, 0}
    BY DEF Collect, Start, ListChildren, ReadGroup, ReadChild, FailToRead,
       MakeState, UpdateState, Skip, Post, Abort, Return, markVars
  <2> QED
    BY <2>1, <2>2
<1>7. failed' \in BOOLEAN
  BY Zenon DEF Collect, Start, ListChildren, ReadGroup, ReadChild, FailToRead,
     MakeState, UpdateState, Skip, Post, Abort, markVars, ControlOK
<1>8. disturbed' \in BOOLEAN
  BY Zenon DEF Collect, Start, ListChildren, ReadGroup, ReadChild, FailToRead,
     MakeState, UpdateState, Skip, Post, Abort, ControlOK
<1> QED
  BY <1>1, <1>2, <1>3, <1>4, <1>5, <1>6, <1>7, <1>8 DEF ControlOK

\* What is the same in every step of the collector but the last ones.
KeepsState == UNCHANGED <<total, childTotal, done, isRoot, hasState, lastUsage,
                          netUsage, doneFirst, doneLast>>

(* A step that leaves the state of the collector alone keeps the report.     *)
LEMMA KeepsReport == IInv /\ KeepsState => ReportGrows
BY AreNumbers DEF IInv, NumbersOK, MapsDevices, KeepsState, ReportGrows

(* Steps that read nothing, or give up what has been read.                   *)
LEMMA IdleIInv ==
    ASSUME IInv, Start \/ ListChildren \/ FailToRead \/ Skip \/ Abort
    PROVE  IInv' /\ ReportGrows
<1>1. KeepsState
  BY DEF Start, ListChildren, FailToRead, Skip, Abort, KeepsState, kernelVars,
     stateVars, markVars
<1>2. pc' # "children"
  BY DEF Start, ListChildren, FailToRead, Skip, Abort, Return
<1>3. ControlOK'
  BY CollectControl DEF IInv, Collect
<1>4. MapsDevices(snapshot, Pairs)' /\ doneAtRead' \in Histories
  BY NoDevicesType, Zeros DEF Start, ListChildren, FailToRead, Skip, Abort, Return,
     IInv, NumbersOK, MapsDevices
<1>5. NumbersOK'
  BY <1>1, <1>4 DEF IInv, NumbersOK, KeepsState, MapsDevices
<1>6. Behind'
  BY <1>1, <1>2 DEF IInv, Behind, KeepsState, LastIsBehind, NetIsDone, RootOf
<1> QED
  BY <1>1, <1>3, <1>5, <1>6, KeepsReport DEF IInv

(* The root's counters are read: the snapshot is of this moment.             *)
LEMMA ReadGroupIInv == IInv /\ ReadGroup => IInv' /\ ReportGrows
<1> SUFFICES ASSUME IInv, ReadGroup PROVE IInv' /\ ReportGrows
  OBVIOUS
<1>1. KeepsState
  BY DEF ReadGroup, KeepsState, kernelVars, stateVars, markVars
<1>2. ControlOK'
  BY CollectControl DEF IInv, Collect
<1>3. /\ snapshot' = [d \in Lines(total) |-> [root |-> total[d], children |-> NoUsage]]
      /\ doneAtRead' = done
  BY DEF ReadGroup
<1>4. MapsDevices(snapshot, Pairs)'
  BY <1>3, Zeros DEF IInv, NumbersOK, MapsDevices, Pairs, Lines
<1>5. NumbersOK'
  BY <1>1, <1>3, <1>4 DEF IInv, NumbersOK, KeepsState, MapsDevices
<1>6. ASSUME NEW d \in Devices, NEW k \in Kinds
      PROVE  /\ (hasState => LastIsBehind(d, k) /\ NetIsDone(d, k))'
             /\ SnapshotIsBehind(d, k)'
             /\ (hasState => LastIsBehindSnapshot(d, k))'
  <2>1. RootOf(snapshot, d)' = total[d]
    BY <1>3 DEF RootOf, Lines
  <2>2. /\ hasState' = hasState /\ netUsage' = netUsage /\ total' = total
        /\ done' = done /\ doneFirst' = doneFirst /\ doneLast' = doneLast
        /\ RootOf(lastUsage, d)' = RootOf(lastUsage, d)
    BY <1>1 DEF KeepsState, RootOf
  <2>3. hasState => LastIsBehind(d, k) /\ NetIsDone(d, k)
    BY DEF IInv, Behind
  <2> QED
    BY <1>3, <2>1, <2>2, <2>3, AreNumbers
    DEF IInv, LastIsBehind, NetIsDone, SnapshotIsBehind, LastIsBehindSnapshot
<1>7. Behind'
  BY <1>6 DEF Behind
<1> QED
  BY <1>1, <1>2, <1>5, <1>7, KeepsReport DEF IInv

(* A child's counters change nothing of what the root's line says.           *)
LEMMA ReadChildIInv ==
    ASSUME IInv, NEW c \in Children, ReadChild(c)
    PROVE  IInv' /\ ReportGrows
<1>1. KeepsState /\ UNCHANGED <<pc, doneAtRead>>
  BY DEF ReadChild, KeepsState, kernelVars, stateVars, markVars
<1>2. ControlOK'
  BY CollectControl DEF IInv, Collect
<1> DEFINE Seen(d) == IF d \in DOMAIN snapshot THEN snapshot[d]
                      ELSE [root |-> NoUsage, children |-> NoUsage]
           Sum(d) == [Seen(d) EXCEPT !.children = AddUsage(Seen(d).children,
                                                           childTotal[c][d])]
<1>3. snapshot' = [d \in DOMAIN snapshot \cup Lines(childTotal[c]) |-> Sum(d)]
  BY DEF ReadChild
<1>4. ASSUME NEW d \in Devices
      PROVE  Sum(d) \in Pairs /\ Sum(d).root = Seen(d).root
  <2>1. Seen(d) \in Pairs
    BY Zeros DEF IInv, NumbersOK, MapsDevices, Pairs
  <2>2. childTotal[c][d] \in Counters
    BY DEF IInv, NumbersOK
  <2>3. AddUsage(Seen(d).children, childTotal[c][d]) \in Counters
    BY <2>1, <2>2, AddUsageType DEF Pairs
  <2> HIDE DEF Seen
  <2> QED
    BY <2>1, <2>3 DEF Pairs
<1>5. DOMAIN snapshot \cup Lines(childTotal[c]) \subseteq Devices
  BY DEF IInv, NumbersOK, MapsDevices, Lines
<1>6. MapsDevices(snapshot, Pairs)'
  <2> HIDE DEF Sum
  <2> QED
    BY <1>3, <1>4, <1>5 DEF MapsDevices
<1>7. \A d \in Devices : RootOf(snapshot, d)' = RootOf(snapshot, d)
  <2> SUFFICES ASSUME NEW d \in Devices
               PROVE  RootOf(snapshot, d)' = RootOf(snapshot, d)
    OBVIOUS
  <2>1. Seen(d).root = RootOf(snapshot, d)
    BY DEF RootOf
  <2>2. d \in DOMAIN snapshot => d \in DOMAIN snapshot'
    BY <1>3
  <2>3. d \in DOMAIN snapshot' => snapshot'[d].root = Seen(d).root
    <3> HIDE DEF Sum, Seen
    <3> QED
      BY <1>3, <1>4
  <2> HIDE DEF Seen
  <2> QED
    BY <2>1, <2>2, <2>3 DEF RootOf
<1>8. NumbersOK'
  BY <1>1, <1>6 DEF IInv, NumbersOK, KeepsState, MapsDevices
<1>9. Behind'
  <2>1. \A d : RootOf(lastUsage, d)' = RootOf(lastUsage, d)
    BY <1>1 DEF KeepsState, RootOf
  <2>2. /\ hasState' = hasState /\ netUsage' = netUsage /\ total' = total
        /\ done' = done /\ doneFirst' = doneFirst /\ doneLast' = doneLast
        /\ pc' = pc /\ doneAtRead' = doneAtRead
    BY <1>1 DEF KeepsState
  <2> QED
    BY <1>7, <2>1, <2>2 DEF IInv, Behind, LastIsBehind, NetIsDone,
       SnapshotIsBehind, LastIsBehindSnapshot
<1> QED
  BY <1>1, <1>2, <1>8, <1>9, KeepsReport DEF IInv

(* What is the last snapshot once the current one has replaced it.           *)
LEMMA Replaces ==
    ASSUME IInv, pc = "children", NEW d \in Devices, NEW k \in Kinds,
           UNCHANGED <<total, done>>,
           lastUsage' = snapshot, doneLast' = doneAtRead,
           doneFirst'.all[d][k] <= doneAtRead.all[d][k]
    PROVE  LastIsBehind(d, k)'
<1>1. SnapshotIsBehind(d, k)
  BY DEF IInv, Behind
<1>2. RootOf(lastUsage, d)' = RootOf(snapshot, d)
  BY DEF RootOf
<1> QED
  BY <1>1, <1>2 DEF SnapshotIsBehind, LastIsBehind

(* The first snapshot becomes the last usage.                                *)
LEMMA MakeStateIInv == IInv /\ MakeState => IInv' /\ ReportGrows
<1> SUFFICES ASSUME IInv, MakeState PROVE IInv' /\ ReportGrows
  OBVIOUS
<1>1. ControlOK'
  BY CollectControl DEF IInv, Collect
<1>2. /\ pc = "children" /\ pc' = "visited" /\ ~hasState
      /\ lastUsage' = snapshot /\ netUsage' = NoDevices /\ snapshot' = NoDevices
      /\ doneFirst' = doneAtRead /\ doneLast' = doneAtRead
      /\ doneAtRead' = NothingDone
      /\ UNCHANGED <<total, childTotal, done>>
  BY DEF MakeState, Return, kernelVars
<1>3. NumbersOK'
  BY <1>2, Zeros, NoDevicesType DEF IInv, NumbersOK, MapsDevices
<1>4. ASSUME NEW d \in Devices, NEW k \in Kinds
      PROVE  (LastIsBehind(d, k) /\ NetIsDone(d, k))'
  BY <1>2, Replaces, AreNumbers DEF IInv, NetIsDone, NoDevices
<1>5. Behind'
  BY <1>2, <1>4 DEF Behind
<1> QED
  BY <1>1, <1>2, <1>3, <1>5 DEF IInv, ReportGrows

(* However many devices have been calculated: no device leaves the report,   *)
(* and what is added is no more than what the root's counter has grown by.   *)
LEMMA CalculateDoes ==
    ASSUME NumbersOK, NEW devices \in SUBSET (DOMAIN snapshot \ Failing),
           NEW failing \in SUBSET Failing, Calculate(devices, failing)
    PROVE  /\ MapsDevices(netUsage', Counters)
           /\ DOMAIN netUsage \subseteq DOMAIN netUsage'
           /\ \A d \in DOMAIN netUsage', k \in Kinds :
                /\ netUsage'[d][k] >= Net(d)[k]
                /\ \/ netUsage'[d][k] = Net(d)[k]
                   \/ netUsage'[d][k] <= Net(d)[k] + (RootOf(snapshot, d)[k]
                                                      - RootOf(lastUsage, d)[k])
<1> DEFINE New(d) == CalculateRootGroupUsage(Net(d), snapshot[d], Last(d))
<1>1. netUsage' = [d \in DOMAIN netUsage \cup devices \cup failing |->
                      IF d \in devices THEN New(d) ELSE Net(d)]
  BY DEF Calculate
<1>2. DOMAIN netUsage \cup devices \cup failing \subseteq Devices
  BY DEF NumbersOK, MapsDevices, Failing
<1>3. \A d \in Devices : Net(d) \in Counters
  BY Zeros DEF NumbersOK, MapsDevices, Net
<1>4. ASSUME NEW d \in devices
      PROVE  /\ New(d) \in Counters
             /\ \A k \in Kinds :
                  /\ New(d)[k] >= Net(d)[k]
                  /\ New(d)[k] <= Net(d)[k] + (RootOf(snapshot, d)[k]
                                               - RootOf(lastUsage, d)[k])
  <2>1. d \in DOMAIN snapshot /\ d \in Devices
    BY DEF NumbersOK, MapsDevices
  <2>2. snapshot[d] \in Pairs /\ Last(d) \in Pairs
    BY <2>1, Zeros DEF NumbersOK, MapsDevices, Last, Pairs
  <2>3. ~CalculationFails(snapshot[d], Last(d))
    BY <2>1 DEF Failing
  <2>4. RootOf(snapshot, d) = snapshot[d].root /\ RootOf(lastUsage, d) = Last(d).root
    BY <2>1 DEF RootOf, Last
  <2> QED
    BY <1>3, <2>1, <2>2, <2>3, <2>4, CalculationBounds
<1>5. \A d \in Devices, k \in Kinds : Net(d)[k] \in Nat
  BY <1>3 DEF Counters
<1> HIDE DEF New
<1>6. MapsDevices(netUsage', Counters)
  BY <1>1, <1>2, <1>3, <1>4 DEF MapsDevices
<1>7. ASSUME NEW d \in DOMAIN netUsage', NEW k \in Kinds
      PROVE  /\ netUsage'[d][k] >= Net(d)[k]
             /\ \/ netUsage'[d][k] = Net(d)[k]
                \/ netUsage'[d][k] <= Net(d)[k] + (RootOf(snapshot, d)[k]
                                                   - RootOf(lastUsage, d)[k])
  <2>1. d \in Devices
    BY <1>1, <1>2
  <2>2. CASE d \in devices
    BY <1>1, <1>4, <2>2
  <2>3. CASE d \notin devices
    BY <1>1, <1>5, <2>1, <2>3
  <2> QED
    BY <2>2, <2>3
<1> QED
  BY <1>1, <1>6, <1>7

(* Whether it fails at once, halfway or not at all.                          *)
LEMMA UpdateStateCalculates ==
    ASSUME IInv, UpdateState
    PROVE  /\ MapsDevices(netUsage', Counters)
           /\ DOMAIN netUsage \subseteq DOMAIN netUsage'
           /\ \A d \in DOMAIN netUsage', k \in Kinds :
                /\ netUsage'[d][k] >= Net(d)[k]
                /\ \/ netUsage'[d][k] = Net(d)[k]
                   \/ netUsage'[d][k] <= Net(d)[k] + (RootOf(snapshot, d)[k]
                                                      - RootOf(lastUsage, d)[k])
<1>1. CASE UNCHANGED netUsage
  BY <1>1, AreNumbers DEF IInv, NumbersOK, MapsDevices, Net
<1>2. CASE Failing = {} /\ Calculate(DOMAIN snapshot, {})
  BY <1>2, CalculateDoes DEF IInv
<1>3. CASE \E d \in Failing, devices \in SUBSET (DOMAIN snapshot \ Failing) :
                Calculate(devices, {d})
  BY <1>3, CalculateDoes DEF IInv
<1> QED
  BY <1>1, <1>2, <1>3 DEF UpdateState

(* A later snapshot replaces the last usage, and the report grows by what    *)
(* was done between the two.                                                 *)
LEMMA UpdateStateIInv == IInv /\ UpdateState => IInv' /\ ReportGrows
<1> SUFFICES ASSUME IInv, UpdateState PROVE IInv' /\ ReportGrows
  OBVIOUS
<1>1. ControlOK'
  BY CollectControl DEF IInv, Collect
<1>2. /\ pc = "children" /\ pc' = "visited" /\ hasState /\ hasState' = hasState
      /\ lastUsage' = snapshot /\ snapshot' = NoDevices
      /\ doneFirst' = doneFirst /\ doneLast' = doneAtRead
      /\ doneAtRead' = NothingDone
      /\ UNCHANGED <<total, childTotal, done>>
  BY DEF UpdateState, Return, kernelVars
<1>3. NumbersOK'
  BY <1>2, UpdateStateCalculates, Zeros, NoDevicesType DEF IInv, NumbersOK,
     MapsDevices
<1>4. ASSUME NEW d \in Devices, NEW k \in Kinds
      PROVE  (LastIsBehind(d, k) /\ NetIsDone(d, k))'
  <2>1. LastIsBehind(d, k) /\ NetIsDone(d, k) /\ LastIsBehindSnapshot(d, k)
    BY <1>2 DEF IInv, Behind
  <2>2. Net(d)[k] \in Nat /\ Net(d)[k] <= doneLast.all[d][k] - doneFirst.all[d][k]
    BY <2>1, AreNumbers, Zeros DEF IInv, Net, NetIsDone, LastIsBehind
  <2>3. d \in DOMAIN netUsage' => netUsage'[d][k] \in Nat
    BY <1>3 DEF NumbersOK, MapsDevices, Counters
  <2>4. NetIsDone(d, k)'
    BY <1>2, <2>1, <2>2, <2>3, UpdateStateCalculates, AreNumbers
    DEF IInv, NetIsDone, LastIsBehindSnapshot
  <2>5. LastIsBehind(d, k)'
    BY <1>2, <2>1, Replaces, AreNumbers DEF IInv, LastIsBehind, LastIsBehindSnapshot
  <2> QED
    BY <2>4, <2>5
<1>5. Behind'
  BY <1>2, <1>4 DEF Behind
<1>6. ReportGrows
  BY <1>2, UpdateStateCalculates DEF ReportGrows, Net
<1> QED
  BY <1>1, <1>3, <1>5, <1>6 DEF IInv

(* Only the state of a service is given up.                                  *)
LEMMA PostIInv == IInv /\ Post => IInv' /\ ReportGrows
<1> SUFFICES ASSUME IInv, Post PROVE IInv' /\ ReportGrows
  OBVIOUS
<1>1. ControlOK'
  BY CollectControl DEF IInv, Collect
<1>2. pc' = "idle" /\ UNCHANGED <<total, childTotal, done, snapshot, doneAtRead>>
  BY DEF Post, kernelVars
<1>3. CASE UNCHANGED <<stateVars, doneFirst, doneLast>>
  <2>1. KeepsState
    BY <1>3 DEF Post, KeepsState, kernelVars, stateVars
  <2>2. NumbersOK'
    BY <1>2, <2>1 DEF IInv, NumbersOK, KeepsState, MapsDevices
  <2>3. Behind'
    BY <1>2, <2>1 DEF IInv, Behind, KeepsState, LastIsBehind, NetIsDone, RootOf
  <2> QED
    BY <1>1, <2>1, <2>2, <2>3, KeepsReport DEF IInv
<1>4. CASE /\ NoState /\ ~isRoot
           /\ doneFirst' = NothingDone /\ doneLast' = NothingDone
  <2>1. NumbersOK'
    BY <1>2, <1>4, Zeros, NoDevicesType DEF IInv, NumbersOK, NoState, MapsDevices
  <2>2. Behind'
    BY <1>2, <1>4 DEF Behind, NoState
  <2> QED
    BY <1>1, <1>4, <2>1, <2>2 DEF IInv, ReportGrows, NoState
<1> QED
  BY <1>3, <1>4 DEF Post

(* Every step keeps the invariant, and no report goes back.                  *)
LEMMA NextIInv == IInv /\ [Next]_vars => IInv' /\ ReportGrows
<1> SUFFICES ASSUME IInv, [Next]_vars PROVE IInv' /\ ReportGrows
  OBVIOUS
<1>1. CASE Kernel
  BY <1>1, KernelIInv
<1>2. CASE Collect
  BY <1>2, IdleIInv, ReadGroupIInv, ReadChildIInv, MakeStateIInv, UpdateStateIInv,
     PostIInv DEF Collect
<1>3. CASE UNCHANGED vars
  <2>1. KeepsState
    BY <1>3 DEF vars, kernelVars, stateVars, markVars, KeepsState
  <2>2. ControlOK'
    BY <1>3, Zenon DEF IInv, ControlOK, vars, kernelVars, readVars, stateVars, markVars
  <2>3. NumbersOK' /\ Behind'
    BY <1>3 DEF IInv, NumbersOK, MapsDevices, Behind, LastIsBehind, NetIsDone,
       SnapshotIsBehind, LastIsBehindSnapshot, RootOf, vars, kernelVars, readVars,
       stateVars, markVars
  <2> QED
    BY <2>1, <2>2, <2>3, KeepsReport DEF IInv
<1> QED
  BY <1>1, <1>2, <1>3 DEF Next
-----------------------------------------------------------------------------
(* The collector's maps and the history keep their types; the numbers are    *)
(* never negative (io/collector.go).                                         *)
THEOREM TypeCorrect == Spec => []TypeOK
<1>1. IInv => TypeOK
  <2> SUFFICES ASSUME IInv PROVE TypeOK
    OBVIOUS
  <2>1. Counters \subseteq Usage /\ [Kinds -> Nat] = Counters
    BY DEF Counters, Usage
  <2>2. Pairs \subseteq RootUsages /\ Histories \subseteq Done
    BY <2>1 DEF Pairs, RootUsages, Histories, Done
  <2>3. /\ total \in [Devices -> Usage]
        /\ childTotal \in [Children -> [Devices -> Usage]]
    BY <2>1 DEF IInv, NumbersOK
  <2>4. MapsDevices(snapshot, RootUsages) /\ MapsDevices(lastUsage, RootUsages)
    BY <2>2 DEF IInv, NumbersOK, MapsDevices
  <2>5. /\ MapsDevices(netUsage, [Kinds -> Nat])
        /\ done \in Done /\ doneAtRead \in Done
        /\ doneFirst \in Done /\ doneLast \in Done
    BY <2>1, <2>2 DEF IInv, NumbersOK
  <2> QED
    BY <2>3, <2>4, <2>5, Zenon DEF IInv, ControlOK, TypeOK
<1> QED
  BY <1>1, InitIInv, NextIInv, PTL DEF Spec

(* The reported I/O of a device never exceeds what has been done on it       *)
(* between the first and the last snapshot (io/collector.go:186-214).        *)
THEOREM NothingIsInvented == Spec => []NothingIsCountedTwice
<1>1. IInv => NothingIsCountedTwice
  BY DEF IInv, NumbersOK, MapsDevices, Behind, NetIsDone, NothingIsCountedTwice
<1> QED
  BY <1>1, InitIInv, NextIInv, PTL DEF Spec

(* While the collector has a state for the group no device leaves the report *)
(* and no value goes back (io/collector.go:46-57, 199-216).                  *)
THEOREM ReportIsCounter == Spec => ReportNeverGoesBack
<1>1. IInv /\ [Next]_vars => [ReportGrows]_vars
  BY NextIInv
<1> QED
  BY <1>1, InitIInv, NextIInv, PTL DEF Spec, ReportNeverGoesBack, ReportGrows
-----------------------------------------------------------------------------
(* Sums over the children                                                    *)

ChildSum(counters, S, d, k) ==
    SumFunctionOnSet([c \in Children |-> counters[c][d][k]], S)

ChildCounters == [Children -> [Devices -> Counters]]

(* The sum of no child is zero, of some is at most that of more, and is that *)
(* of all the others once one that has done nothing is left out.             *)
LEMMA ChildSumFacts ==
    \A counters \in ChildCounters, d \in Devices, k \in Kinds, S \in SUBSET Children :
        /\ ChildSum(counters, S, d, k) \in Nat
        /\ S = {} => ChildSum(counters, S, d, k) = 0
        /\ \A T \in SUBSET S :
              /\ ChildSum(counters, T, d, k) <= ChildSum(counters, S, d, k)
              /\ (\A c \in S \ T : counters[c][d][k] = 0)
                    => ChildSum(counters, T, d, k) = ChildSum(counters, S, d, k)
        /\ \A c \in S : \A T : T = S \ {c} =>
              ChildSum(counters, S, d, k) =
                  counters[c][d][k] + ChildSum(counters, T, d, k)
<1> SUFFICES ASSUME NEW counters \in ChildCounters, NEW d \in Devices,
                    NEW k \in Kinds, NEW S \in SUBSET Children
             PROVE  /\ ChildSum(counters, S, d, k) \in Nat
                    /\ S = {} => ChildSum(counters, S, d, k) = 0
                    /\ \A T \in SUBSET S :
                          /\ ChildSum(counters, T, d, k) <= ChildSum(counters, S, d, k)
                          /\ (\A c \in S \ T : counters[c][d][k] = 0)
                                => ChildSum(counters, T, d, k) = ChildSum(counters, S, d, k)
                    /\ \A c \in S : \A T : T = S \ {c} =>
                          ChildSum(counters, S, d, k) =
                              counters[c][d][k] + ChildSum(counters, T, d, k)
  OBVIOUS
<1>1. PICK f : f = [c \in Children |-> counters[c][d][k]]
  OBVIOUS
<1>2. \A T : ChildSum(counters, T, d, k) = SumFunctionOnSet(f, T)
  BY <1>1, Zenon DEF ChildSum
<1>3. \A c \in Children : f[c] = counters[c][d][k] /\ f[c] \in Nat
  BY <1>1 DEF ChildCounters, Counters
<1>4. \A T \in SUBSET Children : IsFiniteSet(T) /\ IsIntOn(f, T)
  BY <1>3, IoAssumption, FS_Subset DEF IsIntOn
<1>5. \A T \in SUBSET Children : SumFunctionOnSet(f, T) \in Nat
  <2> SUFFICES ASSUME NEW T \in SUBSET Children
               PROVE  SumFunctionOnSet(f, T) \in Nat
    OBVIOUS
  <2>1. IsFiniteSet(T) /\ \A x \in T : f[x] \in Nat
    BY <1>3, <1>4
  <2> QED
    BY <2>1, SumIsNat
<1>6. ASSUME NEW T \in SUBSET S
      PROVE  /\ SumFunctionOnSet(f, T) <= SumFunctionOnSet(f, S)
             /\ (\A c \in S \ T : f[c] = 0)
                   => SumFunctionOnSet(f, T) = SumFunctionOnSet(f, S)
  <2>1. PICK R : R = S \ T
    OBVIOUS
  <2>2. T = S \cap T /\ R \in SUBSET Children /\ T \in SUBSET Children
    BY <2>1
  <2>3. SumFunctionOnSet(f, S) = SumFunctionOnSet(f, T) + SumFunctionOnSet(f, R)
    BY <1>4, <2>1, <2>2, SumSplit
  <2>4. SumFunctionOnSet(f, R) \in Nat /\ SumFunctionOnSet(f, T) \in Nat
    BY <1>5, <2>2
  <2>5. (\A c \in R : f[c] = 0) => SumFunctionOnSet(f, R) = 0
    BY <1>4, <2>2, SumOfZeros
  <2> QED
    BY <2>1, <2>3, <2>4, <2>5
<1>7. ASSUME NEW c \in S, NEW T, T = S \ {c}
      PROVE  SumFunctionOnSet(f, S) = f[c] + SumFunctionOnSet(f, T)
  BY <1>4, <1>7, SumRemove
<1>8. SumFunctionOnSet(f, {}) = 0
  BY SumEmpty
<1>9. SumFunctionOnSet(f, S) \in Nat
  BY <1>5
<1>10. ASSUME NEW T \in SUBSET S, \A c \in S \ T : counters[c][d][k] = 0
       PROVE  \A c \in S \ T : f[c] = 0
  BY <1>3, <1>10
<1> QED
  BY <1>2, <1>3, <1>6, <1>7, <1>8, <1>9, <1>10

(* What a child does counts in every sum it is in.                           *)
LEMMA ChildSumUse ==
    ASSUME NEW counters \in ChildCounters, NEW c \in Children, NEW d \in Devices,
           NEW k \in Kinds, NEW new \in ChildCounters,
           new = [counters EXCEPT ![c] = Add(counters[c], d, k)]
    PROVE  \A e \in Devices, j \in Kinds, S \in SUBSET Children :
              ChildSum(new, S, e, j) = ChildSum(counters, S, e, j)
                  + (IF c \in S /\ e = d /\ j = k THEN 1 ELSE 0)
<1> SUFFICES ASSUME NEW e \in Devices, NEW j \in Kinds, NEW S \in SUBSET Children
             PROVE  ChildSum(new, S, e, j) = ChildSum(counters, S, e, j)
                       + (IF c \in S /\ e = d /\ j = k THEN 1 ELSE 0)
  OBVIOUS
<1>1. PICK f, g : /\ f = [x \in Children |-> counters[x][e][j]]
                  /\ g = [x \in Children |-> new[x][e][j]]
  OBVIOUS
<1>2. /\ ChildSum(new, S, e, j) = SumFunctionOnSet(g, S)
      /\ ChildSum(counters, S, e, j) = SumFunctionOnSet(f, S)
  BY <1>1, Zenon DEF ChildSum
<1>3. \A x \in Children : f[x] \in Nat /\ g[x] \in Nat
  BY <1>1 DEF ChildCounters, Counters
<1>4. IsFiniteSet(S) /\ IsIntOn(f, S) /\ IsIntOn(g, S)
  BY <1>3, IoAssumption, FS_Subset DEF IsIntOn
<1>5. \A x \in Children \ {c} : g[x] = f[x]
  BY <1>1 DEF ChildCounters
<1>6. g[c] = f[c] + (IF e = d /\ j = k THEN 1 ELSE 0)
  <2>1. counters[c] \in [Devices -> Counters] /\ new[c] = Add(counters[c], d, k)
    BY DEF ChildCounters
  <2>2. Add(counters[c], d, k)[e][j]
            = counters[c][e][j] + (IF e = d /\ j = k THEN 1 ELSE 0)
    BY <2>1, AddDoes
  <2> QED
    BY <1>1, <2>1, <2>2
<1>7. CASE c \in S
  <2>1. SumFunctionOnSet(g, S) = SumFunctionOnSet(f, S) + (g[c] - f[c])
    BY <1>4, <1>5, <1>7, SumChange
  <2>2. SumFunctionOnSet(f, S) \in Int
    BY <1>4, SumIsInt
  <2> QED
    BY <1>2, <1>3, <1>6, <1>7, <2>1, <2>2
<1>8. CASE c \notin S
  <2>1. SumFunctionOnSet(g, S) = SumFunctionOnSet(f, S)
    BY <1>4, <1>5, <1>8, SumSame
  <2>2. SumFunctionOnSet(f, S) \in Int
    BY <1>4, SumIsInt
  <2> QED
    BY <1>2, <1>8, <2>1, <2>2
<1> QED
  BY <1>7, <1>8
-----------------------------------------------------------------------------
(* Why a calculation fails                                                   *)

\* The children's counters in a snapshot.
ChildrenOf(usage, d) == IF d \in DOMAIN usage THEN usage[d].children ELSE NoUsage

\* A snapshot is being taken.
IsReading == pc \in {"listed", "children"}

\* The children that the next snapshot must have for the last one to be less.
Compared == IF isRoot THEN lastChildren ELSE Children

\* No group and no device has been removed since the snapshot was begun.
LastIsQuiet == hasState /\ lastBegun = removals

SnapshotIsQuiet == IsReading /\ begun = removals

(* Without a removal lists of children only get longer.                      *)
ListsGrow ==
    /\ hasState => lastBegun <= removals
    /\ IsReading => begun <= removals
    /\ IsReading /\ ~isRoot => children = Children
    /\ isRoot /\ LastIsQuiet => lastChildren \subseteq alive
    /\ isRoot /\ SnapshotIsQuiet => children \subseteq alive
    /\ isRoot /\ LastIsQuiet /\ IsReading => lastChildren \subseteq children

LastIsBelow(d, k) ==
    /\ RootOf(lastUsage, d)[k] <= total[d][k]
    /\ ChildrenOf(lastUsage, d)[k] <= ChildSum(childTotal, Compared, d, k)

SnapshotIsBelow(d, k) ==
    /\ RootOf(snapshot, d)[k] <= total[d][k]
    /\ ChildrenOf(snapshot, d)[k] + ChildSum(childTotal, todo, d, k)
          <= ChildSum(childTotal, children, d, k)

LastIsBelowSnapshot(d, k) ==
    /\ RootOf(lastUsage, d)[k] <= RootOf(snapshot, d)[k]
    /\ ChildrenOf(lastUsage, d)[k]
          <= ChildrenOf(snapshot, d)[k] + ChildSum(childTotal, todo, d, k)

(* Without a removal counters only grow, and so do sums of more children.    *)
CountersGrow ==
    \A d \in Devices, k \in Kinds :
        /\ LastIsQuiet => LastIsBelow(d, k)
        /\ pc = "children" /\ SnapshotIsQuiet => SnapshotIsBelow(d, k)
        /\ pc = "children" /\ LastIsQuiet => LastIsBelowSnapshot(d, k)

CauseInv == ListsGrow /\ CountersGrow

(* A device that is missing from a map has its children's counters at zero.  *)
LEMMA ChildrenOfType ==
    ASSUME NEW usage, MapsDevices(usage, Pairs), NEW d \in Devices, NEW k \in Kinds
    PROVE  ChildrenOf(usage, d) \in Counters /\ ChildrenOf(usage, d)[k] \in Nat
<1>1. CASE d \in DOMAIN usage
  <2>1. usage[d] \in Pairs
    BY <1>1 DEF MapsDevices
  <2> QED
    BY <1>1, <2>1 DEF ChildrenOf, Pairs, Counters
<1>2. CASE d \notin DOMAIN usage
  BY <1>2, Zeros DEF ChildrenOf
<1> QED
  BY <1>1, <1>2

(* The numbers that the sums are of.                                         *)
LEMMA SumsAreNumbers ==
    ASSUME IInv, NEW d \in Devices, NEW k \in Kinds
    PROVE  /\ childTotal \in ChildCounters
           /\ todo \subseteq children /\ children \subseteq Children
           /\ Compared \subseteq Children
           /\ ChildrenOf(lastUsage, d)[k] \in Nat
           /\ ChildrenOf(snapshot, d)[k] \in Nat
           /\ \A S \in SUBSET Children : ChildSum(childTotal, S, d, k) \in Nat
<1>1. childTotal \in ChildCounters
  BY DEF IInv, NumbersOK, ChildCounters
<1>2. todo \subseteq children /\ children \subseteq Children /\ Compared \subseteq Children
  BY DEF IInv, ControlOK, Compared
<1>3. /\ ChildrenOf(lastUsage, d)[k] \in Nat /\ ChildrenOf(snapshot, d)[k] \in Nat
  BY ChildrenOfType DEF IInv, NumbersOK
<1> QED
  BY <1>1, <1>2, <1>3, ChildSumFacts

(* The initial state satisfies the invariant of the causes.                  *)
LEMMA InitCause == Init => CauseInv
BY DEF Init, CauseInv, ListsGrow, CountersGrow, IsReading, LastIsQuiet, SnapshotIsQuiet

(* Any removal makes the snapshots older than it.                            *)
LEMMA RemovalCause ==
    ASSUME IInv, CauseInv, Kernel, removals' = removals + 1
    PROVE  CauseInv'
<1>0. removals \in Nat
  BY IoAssumption DEF IInv, ControlOK
<1>1. UNCHANGED <<hasState, lastBegun, pc, begun, isRoot, children, lastChildren>>
  BY DEF Kernel, UseOwn, UseChild, CreateChild, RemoveChild, Unplug, RestartGroup,
     readVars, stateVars, markVars
<1>2. /\ hasState => lastBegun \in Nat /\ lastBegun <= removals
      /\ IsReading => begun \in Nat /\ begun <= removals
      /\ IsReading /\ ~isRoot => children = Children
  BY DEF CauseInv, ListsGrow, IInv, ControlOK
<1>3. ~LastIsQuiet' /\ ~SnapshotIsQuiet'
  BY <1>0, <1>1, <1>2 DEF LastIsQuiet, SnapshotIsQuiet, IsReading
<1>4. ListsGrow'
  BY <1>0, <1>1, <1>2, <1>3 DEF ListsGrow, IsReading
<1>5. CountersGrow'
  BY <1>3 DEF CountersGrow
<1> QED
  BY <1>4, <1>5 DEF CauseInv

(* What the group or a child does is in the counters that are compared next. *)
LEMMA UseSums ==
    ASSUME IInv, IInv', NEW c \in Children, NEW d \in Devices, NEW k \in Kinds,
           UseChild(c, d, k) \/ UseOwn(d, k)
    PROVE  \A e \in Devices, j \in Kinds :
              LET one == IF e = d /\ j = k THEN 1 ELSE 0
              IN  /\ total'[e][j] = total[e][j] + one
                  /\ UseOwn(d, k) => childTotal' = childTotal
                                     /\ done'.own[e][j] = done.own[e][j] + one
                  /\ UseChild(c, d, k) =>
                       /\ done'.own[e][j] = done.own[e][j]
                       /\ \A S \in SUBSET Children :
                             ChildSum(childTotal', S, e, j) =
                                ChildSum(childTotal, S, e, j)
                                   + (IF c \in S THEN one ELSE 0)
<1> SUFFICES ASSUME NEW e \in Devices, NEW j \in Kinds
             PROVE  LET one == IF e = d /\ j = k THEN 1 ELSE 0
                    IN  /\ total'[e][j] = total[e][j] + one
                        /\ UseOwn(d, k) => childTotal' = childTotal
                                           /\ done'.own[e][j] = done.own[e][j] + one
                        /\ UseChild(c, d, k) =>
                             /\ done'.own[e][j] = done.own[e][j]
                             /\ \A S \in SUBSET Children :
                                   ChildSum(childTotal', S, e, j) =
                                      ChildSum(childTotal, S, e, j)
                                         + (IF c \in S THEN one ELSE 0)
  OBVIOUS
<1>1. /\ total \in [Devices -> Counters] /\ done.own \in [Devices -> Counters]
      /\ done \in Histories /\ childTotal \in ChildCounters
  BY DEF IInv, NumbersOK, Histories, ChildCounters
<1>2. childTotal' \in ChildCounters
  <2>1. NumbersOK'
    BY DEF IInv
  <2> QED
    BY <2>1 DEF NumbersOK, ChildCounters
<1>3. total' = Add(total, d, k)
  BY DEF UseOwn, UseChild
<1>4. UseOwn(d, k) => childTotal' = childTotal /\ done'.own = Add(done.own, d, k)
  BY DEF UseOwn
<1>5. UseChild(c, d, k) =>
         /\ childTotal' = [childTotal EXCEPT ![c] = Add(childTotal[c], d, k)]
         /\ done'.own = done.own
  BY <1>1 DEF UseChild, Histories
<1>6. UseChild(c, d, k) => \A S \in SUBSET Children :
         ChildSum(childTotal', S, e, j) = ChildSum(childTotal, S, e, j)
            + (IF c \in S /\ e = d /\ j = k THEN 1 ELSE 0)
  BY <1>1, <1>2, <1>5, ChildSumUse
<1>7. Add(total, d, k)[e][j] = total[e][j] + (IF e = d /\ j = k THEN 1 ELSE 0)
  BY <1>1, AddDoes
<1>8. Add(done.own, d, k)[e][j]
         = done.own[e][j] + (IF e = d /\ j = k THEN 1 ELSE 0)
  <2>1. PICK own \in [Devices -> Counters] : own = done.own
    BY <1>1
  <2>2. Add(own, d, k)[e][j] = own[e][j] + (IF e = d /\ j = k THEN 1 ELSE 0)
    BY AddDoes
  <2> QED
    BY <2>1, <2>2
<1> QED
  BY <1>3, <1>4, <1>5, <1>6, <1>7, <1>8

(* What happens in the kernel keeps the invariant of the causes.             *)
LEMMA KernelCause == IInv /\ IInv' /\ CauseInv /\ Kernel => CauseInv'
<1> SUFFICES ASSUME IInv, IInv', CauseInv, Kernel PROVE CauseInv'
  OBVIOUS
<1>1. CASE removals' = removals + 1
  BY <1>1, RemovalCause
<1>2. CASE removals' # removals + 1
  <2>1. UNCHANGED <<isRoot, readVars, stateVars, markVars, begun>>
    BY DEF Kernel, UseOwn, UseChild, CreateChild, RemoveChild, Unplug, RestartGroup
  <2>2. /\ removals' = removals /\ alive \subseteq alive'
        /\ \/ UNCHANGED <<total, childTotal>>
           \/ \E d \in Devices, k \in Kinds : UseOwn(d, k)
           \/ \E c \in Children, d \in Devices, k \in Kinds : UseChild(c, d, k)
    BY <1>2 DEF Kernel, UseOwn, UseChild, CreateChild, RemoveChild, Unplug, RestartGroup
  <2>3. /\ UNCHANGED <<hasState, lastBegun, pc, begun, isRoot, children, todo,
                       lastChildren, lastUsage, snapshot>>
        /\ Compared' = Compared
    BY <2>1 DEF readVars, stateVars, markVars, Compared
  <2>4. /\ LastIsQuiet' = LastIsQuiet /\ SnapshotIsQuiet' = SnapshotIsQuiet
        /\ IsReading' = IsReading
    BY <2>2, <2>3, Zenon DEF LastIsQuiet, SnapshotIsQuiet, IsReading
  <2>5. ListsGrow'
    BY <2>2, <2>3, <2>4 DEF ListsGrow, CauseInv
  <2>6. ASSUME NEW e \in Devices, NEW j \in Kinds
        PROVE  /\ LastIsBelow(e, j) => LastIsBelow(e, j)'
               /\ SnapshotIsBelow(e, j) => SnapshotIsBelow(e, j)'
               /\ LastIsBelowSnapshot(e, j) => LastIsBelowSnapshot(e, j)'
    <3>1. /\ RootOf(lastUsage, e)' = RootOf(lastUsage, e)
          /\ RootOf(snapshot, e)' = RootOf(snapshot, e)
          /\ ChildrenOf(lastUsage, e)' = ChildrenOf(lastUsage, e)
          /\ ChildrenOf(snapshot, e)' = ChildrenOf(snapshot, e)
      BY <2>3 DEF RootOf, ChildrenOf
    <3>2. /\ total[e][j] \in Nat /\ RootOf(snapshot, e)[j] \in Nat
          /\ RootOf(lastUsage, e)[j] \in Nat
      BY AreNumbers DEF IInv
    <3>3. /\ todo \in SUBSET children /\ todo \in SUBSET Children
          /\ children \in SUBSET Children /\ Compared \in SUBSET Children
          /\ ChildrenOf(lastUsage, e)[j] \in Nat /\ ChildrenOf(snapshot, e)[j] \in Nat
          /\ \A S \in SUBSET Children : ChildSum(childTotal, S, e, j) \in Nat
      BY SumsAreNumbers
    <3>4. CASE UNCHANGED <<total, childTotal>>
      BY <2>3, <3>1, <3>4 DEF LastIsBelow, SnapshotIsBelow, LastIsBelowSnapshot
    <3>5. ASSUME NEW d \in Devices, NEW k \in Kinds, UseOwn(d, k)
          PROVE  /\ LastIsBelow(e, j) => LastIsBelow(e, j)'
                 /\ SnapshotIsBelow(e, j) => SnapshotIsBelow(e, j)'
                 /\ LastIsBelowSnapshot(e, j) => LastIsBelowSnapshot(e, j)'
      <4>1. PICK one \in Nat : total'[e][j] = total[e][j] + one /\ childTotal' = childTotal
        BY <3>5, UseSums, IoAssumption
      <4> QED
        BY <2>3, <3>1, <3>2, <4>1 DEF LastIsBelow, SnapshotIsBelow, LastIsBelowSnapshot
    <3>6. ASSUME NEW c \in Children, NEW d \in Devices, NEW k \in Kinds, UseChild(c, d, k)
          PROVE  /\ LastIsBelow(e, j) => LastIsBelow(e, j)'
                 /\ SnapshotIsBelow(e, j) => SnapshotIsBelow(e, j)'
                 /\ LastIsBelowSnapshot(e, j) => LastIsBelowSnapshot(e, j)'
      <4>1. PICK one \in Nat :
              /\ total'[e][j] = total[e][j] + one
              /\ \A S \in SUBSET Children :
                    ChildSum(childTotal', S, e, j) = ChildSum(childTotal, S, e, j)
                       + (IF c \in S THEN one ELSE 0)
        BY <3>6, UseSums
      <4>2. /\ ChildSum(childTotal', Compared, e, j) >= ChildSum(childTotal, Compared, e, j)
            /\ ChildSum(childTotal', todo, e, j) >= ChildSum(childTotal, todo, e, j)
            /\ ChildSum(childTotal', children, e, j) - ChildSum(childTotal, children, e, j)
                  >= ChildSum(childTotal', todo, e, j) - ChildSum(childTotal, todo, e, j)
            /\ ChildSum(childTotal', Compared, e, j) \in Nat
            /\ ChildSum(childTotal', todo, e, j) \in Nat
            /\ ChildSum(childTotal', children, e, j) \in Nat
        BY <3>3, <4>1
      <4> QED
        BY <2>3, <3>1, <3>2, <3>3, <4>1, <4>2
           DEF LastIsBelow, SnapshotIsBelow, LastIsBelowSnapshot
    <3> QED
      BY <2>2, <3>4, <3>5, <3>6
  <2>7. CountersGrow'
    BY <2>3, <2>4, <2>6 DEF CountersGrow, CauseInv
  <2> QED
    BY <2>5, <2>7 DEF CauseInv
<1> QED
  BY <1>1, <1>2

(* The group's counters are read before those of any child.                  *)
LEMMA ReadGroupSums ==
    ASSUME ReadGroup, NEW d \in Devices
    PROVE  RootOf(snapshot, d)' = total[d] /\ ChildrenOf(snapshot, d)' = NoUsage
<1>1. snapshot' = [e \in Lines(total) |-> [root |-> total[e], children |-> NoUsage]]
  BY DEF ReadGroup
<1> QED
  BY <1>1 DEF RootOf, ChildrenOf, Lines

(* A child moves from the sum of those not read into the snapshot.           *)
LEMMA ReadChildSums ==
    ASSUME IInv, NEW c \in Children, ReadChild(c), NEW d \in Devices, NEW k \in Kinds
    PROVE  /\ RootOf(snapshot, d)' = RootOf(snapshot, d)
           /\ ChildrenOf(snapshot, d)'[k]
                 + ChildSum(childTotal, todo', d, k)
                 = ChildrenOf(snapshot, d)[k] + ChildSum(childTotal, todo, d, k)
<1> DEFINE Seen == IF d \in DOMAIN snapshot THEN snapshot[d]
                   ELSE [root |-> NoUsage, children |-> NoUsage]
           lines == Lines(childTotal[c])
<1>1. /\ DOMAIN snapshot' = DOMAIN snapshot \cup lines
      /\ d \in DOMAIN snapshot' => snapshot'[d] =
            [Seen EXCEPT !.children = AddUsage(Seen.children, childTotal[c][d])]
  BY DEF ReadChild
<1>2. Seen \in Pairs /\ childTotal[c][d] \in Counters
  BY Zeros DEF IInv, NumbersOK, MapsDevices, Pairs
<1>3. /\ Seen.root = RootOf(snapshot, d) /\ Seen.children = ChildrenOf(snapshot, d)
  BY DEF RootOf, ChildrenOf
<1>4. d \notin lines => childTotal[c][d] = NoUsage
  BY DEF Lines
<1>5. todo \in SUBSET Children /\ c \in todo /\ todo' = todo \ {c}
  BY DEF IInv, ControlOK, ReadChild
<1>6. childTotal \in ChildCounters
  BY DEF IInv, NumbersOK, ChildCounters
<1>7. ChildSum(childTotal, todo, d, k) =
         childTotal[c][d][k] + ChildSum(childTotal, todo', d, k)
  BY <1>5, <1>6, ChildSumFacts
<1>8. ChildSum(childTotal, todo', d, k) \in Nat /\ childTotal[c][d][k] \in Nat
  BY <1>2, <1>5, <1>6, ChildSumFacts DEF Counters
<1> HIDE DEF Seen, lines
<1>9. CASE d \in DOMAIN snapshot'
  <2>1. RootOf(snapshot, d)' = Seen.root
    BY <1>1, <1>2, <1>9 DEF RootOf, Pairs
  <2>2. ChildrenOf(snapshot, d)' = AddUsage(Seen.children, childTotal[c][d])
    BY <1>1, <1>2, <1>9 DEF ChildrenOf, Pairs
  <2>3. AddUsage(Seen.children, childTotal[c][d])[k]
            = ChildrenOf(snapshot, d)[k] + childTotal[c][d][k]
    BY <1>3 DEF AddUsage
  <2>4. ChildrenOf(snapshot, d)[k] \in Nat
    BY <1>2, <1>3 DEF Pairs, Counters
  <2> QED
    BY <1>3, <1>7, <1>8, <2>1, <2>2, <2>3, <2>4
<1>10. CASE d \notin DOMAIN snapshot'
  <2>1. d \notin DOMAIN snapshot /\ childTotal[c][d][k] = 0
    BY <1>1, <1>4, <1>10, Zeros
  <2>2. /\ RootOf(snapshot, d)' = RootOf(snapshot, d)
        /\ ChildrenOf(snapshot, d)' = ChildrenOf(snapshot, d)
    BY <1>10, <2>1 DEF RootOf, ChildrenOf
  <2> QED
    BY <1>7, <1>8, <2>1, <2>2
<1> QED
  BY <1>9, <1>10

(* Steps after which no snapshot is being taken and the last one is the same *)
(* as before, or is forgotten.                                               *)
LEMMA RestCause ==
    ASSUME CauseInv, Start \/ FailToRead \/ Skip \/ Abort \/ Post
    PROVE  CauseInv'
<1>1. pc' \notin {"listed", "children"} /\ UNCHANGED kernelVars
  BY DEF Start, FailToRead, Skip, Abort, Post, Return
<1>2. hasState' => UNCHANGED <<hasState, lastBegun, lastChildren, lastUsage>>
  BY DEF Start, FailToRead, Skip, Abort, Post, NoState, stateVars, markVars
<1>3. CASE ~hasState'
  BY <1>1, <1>3 DEF CauseInv, ListsGrow, CountersGrow, IsReading, LastIsQuiet, SnapshotIsQuiet
<1>4. CASE hasState'
  <2>1. UNCHANGED <<isRoot, alive, total, childTotal, removals, hasState, lastBegun,
                    lastChildren, lastUsage>>
    BY <1>1, <1>2, <1>4 DEF kernelVars
  <2>2. ListsGrow'
    BY <1>1, <2>1 DEF CauseInv, ListsGrow, IsReading, LastIsQuiet, SnapshotIsQuiet
  <2>3. CountersGrow'
    BY <1>1, <2>1 DEF CauseInv, CountersGrow, LastIsQuiet, SnapshotIsQuiet,
       LastIsBelow, RootOf, ChildrenOf, Compared
  <2> QED
    BY <2>2, <2>3 DEF CauseInv
<1> QED
  BY <1>3, <1>4

(* Listing the children keeps the invariant of the causes.                   *)
LEMMA ListChildrenCause == IInv /\ CauseInv /\ ListChildren => CauseInv'
<1> SUFFICES ASSUME IInv, CauseInv, ListChildren PROVE CauseInv'
  OBVIOUS
<1>1. /\ UNCHANGED <<isRoot, alive, total, childTotal, removals, hasState, lastBegun,
                     lastChildren, lastUsage>>
      /\ pc' = "listed" /\ begun' = removals
      /\ children' = IF isRoot THEN alive ELSE Children
  BY DEF ListChildren, kernelVars, stateVars, markVars
<1>2. removals \in Nat
  BY IoAssumption DEF IInv, ControlOK
<1>3. ListsGrow'
  BY <1>1, <1>2 DEF CauseInv, ListsGrow, IsReading, LastIsQuiet, SnapshotIsQuiet
<1>4. CountersGrow'
  BY <1>1 DEF CauseInv, CountersGrow, LastIsQuiet, SnapshotIsQuiet, LastIsBelow,
     RootOf, ChildrenOf, Compared
<1> QED
  BY <1>3, <1>4 DEF CauseInv

(* Reading the group's counters keeps the invariant of the causes.           *)
LEMMA ReadGroupCause == IInv /\ CauseInv /\ ReadGroup => CauseInv'
<1> SUFFICES ASSUME IInv, CauseInv, ReadGroup PROVE CauseInv'
  OBVIOUS
<1>1. /\ UNCHANGED <<isRoot, alive, total, childTotal, removals, hasState, lastBegun,
                     lastChildren, lastUsage, children, begun>>
      /\ pc = "listed" /\ pc' = "children" /\ todo' = children
  BY DEF ReadGroup, kernelVars, stateVars, markVars
<1>2. ListsGrow'
  BY <1>1 DEF CauseInv, ListsGrow, IsReading, LastIsQuiet, SnapshotIsQuiet
<1>3. LastIsQuiet => Compared \in SUBSET children
  BY <1>1 DEF CauseInv, ListsGrow, IsReading, Compared
<1>4. Compared' = Compared /\ LastIsQuiet' = LastIsQuiet
  BY <1>1, Zenon DEF Compared, LastIsQuiet
<1>5. ASSUME NEW d \in Devices, NEW k \in Kinds
      PROVE  /\ (LastIsQuiet => LastIsBelow(d, k))'
             /\ SnapshotIsBelow(d, k)'
             /\ (LastIsQuiet => LastIsBelowSnapshot(d, k))'
  <2>1. RootOf(snapshot, d)' = total[d] /\ ChildrenOf(snapshot, d)' = NoUsage
    BY ReadGroupSums
  <2>2. /\ RootOf(lastUsage, d)' = RootOf(lastUsage, d)
        /\ ChildrenOf(lastUsage, d)' = ChildrenOf(lastUsage, d)
    BY <1>1 DEF RootOf, ChildrenOf
  <2>3. LastIsQuiet => LastIsBelow(d, k)
    BY DEF CauseInv, CountersGrow
  <2>4. /\ childTotal \in ChildCounters /\ children \in SUBSET Children
        /\ ChildrenOf(lastUsage, d)[k] \in Nat
        /\ ChildSum(childTotal, children, d, k) \in Nat
        /\ ChildSum(childTotal, Compared, d, k) \in Nat
    BY SumsAreNumbers
  <2>5. LastIsQuiet => ChildSum(childTotal, Compared, d, k)
                          <= ChildSum(childTotal, children, d, k)
    BY <1>3, <2>4, ChildSumFacts
  <2>6. total[d][k] \in Nat /\ NoUsage[k] = 0
    BY AreNumbers, Zeros DEF IInv
  <2>7. (LastIsQuiet => LastIsBelow(d, k))'
    BY <1>1, <1>4, <2>2, <2>3 DEF LastIsBelow
  <2>8. SnapshotIsBelow(d, k)'
    BY <1>1, <2>1, <2>4, <2>6 DEF SnapshotIsBelow
  <2>9. (LastIsQuiet => LastIsBelowSnapshot(d, k))'
    BY <1>1, <1>4, <2>1, <2>2, <2>3, <2>4, <2>5, <2>6
       DEF LastIsBelow, LastIsBelowSnapshot
  <2> QED
    BY <2>7, <2>8, <2>9
<1>6. CountersGrow'
  BY <1>5 DEF CountersGrow
<1> QED
  BY <1>2, <1>6 DEF CauseInv

(* Reading a child's counters keeps the invariant of the causes.             *)
LEMMA ReadChildCause ==
    ASSUME IInv, CauseInv, NEW c \in Children, ReadChild(c)
    PROVE  CauseInv'
<1>1. /\ UNCHANGED <<isRoot, alive, total, childTotal, removals, hasState, lastBegun,
                     lastChildren, lastUsage, children, begun, pc>>
      /\ pc = "children"
  BY DEF ReadChild, kernelVars, stateVars, markVars
<1>2. ListsGrow'
  BY <1>1 DEF CauseInv, ListsGrow, IsReading, LastIsQuiet, SnapshotIsQuiet
<1>3. /\ Compared' = Compared /\ LastIsQuiet' = LastIsQuiet
      /\ SnapshotIsQuiet' = SnapshotIsQuiet
  BY <1>1, Zenon DEF Compared, LastIsQuiet, SnapshotIsQuiet, IsReading
<1>4. ASSUME NEW d \in Devices, NEW k \in Kinds
      PROVE  /\ (LastIsQuiet => LastIsBelow(d, k))'
             /\ (SnapshotIsQuiet => SnapshotIsBelow(d, k))'
             /\ (LastIsQuiet => LastIsBelowSnapshot(d, k))'
  <2>1. /\ RootOf(snapshot, d)' = RootOf(snapshot, d)
        /\ ChildrenOf(snapshot, d)'[k] + ChildSum(childTotal, todo', d, k)
              = ChildrenOf(snapshot, d)[k] + ChildSum(childTotal, todo, d, k)
    BY ReadChildSums
  <2>2. /\ RootOf(lastUsage, d)' = RootOf(lastUsage, d)
        /\ ChildrenOf(lastUsage, d)' = ChildrenOf(lastUsage, d)
    BY <1>1 DEF RootOf, ChildrenOf
  <2>3. /\ LastIsQuiet => LastIsBelow(d, k) /\ LastIsBelowSnapshot(d, k)
        /\ SnapshotIsQuiet => SnapshotIsBelow(d, k)
    BY <1>1 DEF CauseInv, CountersGrow
  <2> QED
    BY <1>1, <1>3, <2>1, <2>2, <2>3
       DEF LastIsBelow, SnapshotIsBelow, LastIsBelowSnapshot
<1>5. CountersGrow'
  BY <1>4 DEF CountersGrow
<1> QED
  BY <1>2, <1>5 DEF CauseInv

(* The snapshot becomes the last one.                                        *)
LEMMA ReplaceCause ==
    ASSUME IInv, CauseInv, MakeState \/ UpdateState
    PROVE  CauseInv'
<1>1. /\ UNCHANGED <<isRoot, alive, total, childTotal, removals>>
      /\ pc = "children" /\ pc' = "visited" /\ todo = {} /\ hasState'
      /\ lastBegun' = begun /\ lastUsage' = snapshot
      /\ lastChildren' = CurrentChildren
  BY DEF MakeState, UpdateState, Return, kernelVars
<1>2. LastIsQuiet' => SnapshotIsQuiet
  BY <1>1 DEF LastIsQuiet, SnapshotIsQuiet, IsReading
<1>3. Compared' = children
  BY <1>1 DEF Compared, CurrentChildren, CauseInv, ListsGrow, IsReading
<1>4. ListsGrow'
  <2>1. begun <= removals /\ ~IsReading'
    BY <1>1 DEF CauseInv, ListsGrow, IsReading
  <2>2. isRoot /\ SnapshotIsQuiet => CurrentChildren \subseteq alive
    BY DEF CauseInv, ListsGrow, CurrentChildren
  <2>3. isRoot /\ LastIsQuiet' => lastChildren' \subseteq alive
    BY <1>1, <1>2, <2>2
  <2>4. SnapshotIsQuiet' => IsReading'
    BY DEF SnapshotIsQuiet
  <2> QED
    BY <1>1, <2>1, <2>3, <2>4 DEF ListsGrow
<1>5. ASSUME NEW d \in Devices, NEW k \in Kinds, LastIsQuiet'
      PROVE  LastIsBelow(d, k)'
  <2>1. SnapshotIsBelow(d, k)
    BY <1>1, <1>2, <1>5 DEF CauseInv, CountersGrow
  <2>2. /\ RootOf(lastUsage, d)' = RootOf(snapshot, d)
        /\ ChildrenOf(lastUsage, d)' = ChildrenOf(snapshot, d)
    BY <1>1 DEF RootOf, ChildrenOf
  <2>3. /\ ChildSum(childTotal, todo, d, k) = 0 /\ ChildrenOf(snapshot, d)[k] \in Nat
    BY <1>1, SumsAreNumbers, ChildSumFacts
  <2> QED
    BY <1>1, <1>3, <2>1, <2>2, <2>3 DEF LastIsBelow, SnapshotIsBelow
<1>6. CountersGrow'
  BY <1>1, <1>5 DEF CountersGrow
<1> QED
  BY <1>4, <1>6 DEF CauseInv

(* Every step keeps the invariant of the causes.                             *)
LEMMA NextCause == IInv /\ IInv' /\ CauseInv /\ [Next]_vars => CauseInv'
<1> SUFFICES ASSUME IInv, IInv', CauseInv, [Next]_vars PROVE CauseInv'
  OBVIOUS
<1>1. CASE Kernel
  BY <1>1, KernelCause
<1>2. CASE Collect
  BY <1>2, RestCause, ListChildrenCause, ReadGroupCause, ReadChildCause, ReplaceCause
     DEF Collect
<1>3. CASE UNCHANGED vars
  <2>1. UNCHANGED <<isRoot, alive, total, childTotal, removals, hasState, lastBegun,
                    lastChildren, lastUsage, children, begun, pc, todo, snapshot>>
    BY <1>3 DEF vars, kernelVars, readVars, stateVars, markVars
  <2> QED
    BY <2>1 DEF CauseInv, ListsGrow, CountersGrow, IsReading, LastIsQuiet,
       SnapshotIsQuiet, LastIsBelow, SnapshotIsBelow, LastIsBelowSnapshot, RootOf,
       ChildrenOf, Compared
<1> QED
  BY <1>1, <1>2, <1>3 DEF Next

(* Without a removal since the last snapshot was begun nothing has gone back.*)
LEMMA QuietSucceeds ==
    ASSUME IInv, CauseInv, pc = "children", todo = {}, LastIsQuiet
    PROVE  /\ ~ChildrenAreGone /\ Failing = {}
           /\ \A d \in Devices, k \in Kinds :
                 /\ RootOf(lastUsage, d)[k] <= RootOf(snapshot, d)[k]
                 /\ ChildrenOf(lastUsage, d)[k] <= ChildrenOf(snapshot, d)[k]
<1>1. ~ChildrenAreGone
  BY DEF ChildrenAreGone, CauseInv, ListsGrow, IsReading
<1>2. ASSUME NEW d \in Devices, NEW k \in Kinds
      PROVE  /\ RootOf(lastUsage, d)[k] <= RootOf(snapshot, d)[k]
             /\ ChildrenOf(lastUsage, d)[k] <= ChildrenOf(snapshot, d)[k]
  <2>1. LastIsBelowSnapshot(d, k)
    BY DEF CauseInv, CountersGrow
  <2>2. ChildSum(childTotal, todo, d, k) = 0 /\ ChildrenOf(snapshot, d)[k] \in Nat
    BY SumsAreNumbers, ChildSumFacts
  <2> QED
    BY <2>1, <2>2 DEF LastIsBelowSnapshot
<1>3. ASSUME NEW d \in Failing PROVE FALSE
  <2>1. d \in DOMAIN snapshot /\ d \in Devices /\ CalculationFails(snapshot[d], Last(d))
    BY DEF Failing, IInv, NumbersOK, MapsDevices
  <2>2. /\ snapshot[d].root = RootOf(snapshot, d) /\ Last(d).root = RootOf(lastUsage, d)
        /\ snapshot[d].children = ChildrenOf(snapshot, d)
        /\ Last(d).children = ChildrenOf(lastUsage, d)
    BY <2>1 DEF RootOf, ChildrenOf, Last
  <2>3. PICK k \in Kinds : \/ RootOf(snapshot, d)[k] - RootOf(lastUsage, d)[k] < 0
                           \/ ChildrenOf(snapshot, d)[k] - ChildrenOf(lastUsage, d)[k] < 0
    BY <2>1, <2>2 DEF CalculationFails, IsNegative, RootDiff, ChildrenDiff, Diff
  <2>4. /\ RootOf(snapshot, d)[k] \in Nat /\ RootOf(lastUsage, d)[k] \in Nat
        /\ ChildrenOf(snapshot, d)[k] \in Nat /\ ChildrenOf(lastUsage, d)[k] \in Nat
    BY <2>1, AreNumbers, SumsAreNumbers DEF IInv
  <2> QED
    BY <1>2, <2>1, <2>3, <2>4
<1> QED
  BY <1>1, <1>2, <1>3

(* An error does not repeat itself: a calculation fails only if a child or a *)
(* device has been removed since the previous snapshot was begun, so one     *)
(* removal costs at most two collections (io/collector.go:186-197).          *)
THEOREM FailuresAreExplained == Spec => FailuresHaveACause
<1>1. IInv /\ CauseInv /\ Next /\ pc = "children" /\ pc' = "visited" /\ todo = {} /\ failed'
        => removals > lastBegun
  <2> SUFFICES ASSUME IInv, CauseInv, Next, pc = "children", pc' = "visited", todo = {},
                      failed'
               PROVE  removals > lastBegun
    OBVIOUS
  <2>1. UpdateState
    BY DEF Next, Kernel, UseOwn, UseChild, CreateChild, RemoveChild, Unplug,
       RestartGroup, readVars, Collect, Start, ListChildren, ReadGroup, ReadChild,
       FailToRead, MakeState, Skip, Post, Abort
  <2>2. hasState /\ (ChildrenAreGone \/ Failing # {})
    BY <2>1 DEF UpdateState
  <2>3. ~LastIsQuiet
    BY <2>2, QuietSucceeds
  <2>4. lastBegun <= removals /\ lastBegun \in Nat /\ removals \in Nat
    BY <2>2, IoAssumption DEF CauseInv, ListsGrow, IInv, ControlOK
  <2> QED
    BY <2>2, <2>3, <2>4 DEF LastIsQuiet
<1>2. IInv /\ CauseInv /\ [Next]_vars =>
         [pc = "children" /\ pc' = "visited" /\ todo = {} /\ failed'
             => removals > lastBegun]_vars
  BY <1>1
<1> QED
  BY <1>2, InitIInv, NextIInv, InitCause, NextCause, PTL DEF Spec, FailuresHaveACause
-----------------------------------------------------------------------------
(* What the report misses                                                    *)

\* What the counters say the group has done itself, less what it has done.  No
\* use changes it.
Gap(d, k) == total[d][k] - ChildSum(childTotal, Children, d, k) - done.own[d][k]

LastIsExact(d, k) ==
    RootOf(lastUsage, d)[k] - ChildrenOf(lastUsage, d)[k] - doneLast.own[d][k]
        = Gap(d, k)

\* The children not read yet are idle until they are.
SnapshotIsExact(d, k) ==
    RootOf(snapshot, d)[k]
        - (ChildrenOf(snapshot, d)[k] + ChildSum(childTotal, todo, d, k))
        - doneAtRead.own[d][k] = Gap(d, k)

NetIsExact(d, k) == Net(d)[k] = doneLast.own[d][k] - doneFirst.own[d][k]

OwnGrows ==
    \A d \in Devices, k \in Kinds :
        /\ hasState => doneLast.own[d][k] <= done.own[d][k]
        /\ pc = "children" => doneAtRead.own[d][k] <= done.own[d][k]
        /\ hasState /\ pc = "children" => doneLast.own[d][k] <= doneAtRead.own[d][k]

DeadAreEmpty == \A c \in Children \ alive : childTotal[c] = Nothing

(* While nothing is disturbed both snapshots miss the same.                  *)
OwnIsExact ==
    /\ hasState => LastIsQuiet
    /\ IsReading => SnapshotIsQuiet
    /\ \A d \in Devices, k \in Kinds :
          /\ hasState => LastIsExact(d, k) /\ NetIsExact(d, k)
          /\ pc = "children" => SnapshotIsExact(d, k)

OwnInv == OwnGrows /\ DeadAreEmpty /\ (~disturbed => OwnIsExact)

(* In a state with the types, what the equalities are about are numbers.     *)
LEMMA OwnNumbers ==
    ASSUME IInv, NEW d \in Devices, NEW k \in Kinds
    PROVE  /\ done.own[d][k] \in Nat /\ doneAtRead.own[d][k] \in Nat
           /\ doneFirst.own[d][k] \in Nat /\ doneLast.own[d][k] \in Nat
           /\ total[d][k] \in Nat /\ Net(d) \in Counters /\ Net(d)[k] \in Nat
           /\ RootOf(snapshot, d)[k] \in Nat /\ RootOf(lastUsage, d)[k] \in Nat
           /\ ChildSum(childTotal, Children, d, k) \in Nat
           /\ ChildSum(childTotal, todo, d, k) \in Nat
<1>1. /\ done.own[d][k] \in Nat /\ doneAtRead.own[d][k] \in Nat
      /\ doneFirst.own[d][k] \in Nat /\ doneLast.own[d][k] \in Nat
  BY DEF IInv, NumbersOK, Histories, Counters
<1>2. Net(d) \in Counters
  BY Zeros DEF IInv, NumbersOK, MapsDevices, Net
<1>3. Net(d)[k] \in Nat
  BY <1>2 DEF Counters
<1>4. Children \in SUBSET Children /\ todo \in SUBSET Children
  BY SumsAreNumbers
<1> QED
  BY <1>1, <1>2, <1>3, <1>4, AreNumbers, SumsAreNumbers DEF IInv

(* The initial state satisfies the equalities.                               *)
LEMMA InitOwn == Init => OwnInv
<1> SUFFICES ASSUME Init PROVE OwnInv
  OBVIOUS
<1>1. OwnGrows /\ DeadAreEmpty
  BY DEF Init, OwnGrows, DeadAreEmpty
<1>2. OwnIsExact
  BY DEF Init, OwnIsExact, IsReading
<1> QED
  BY <1>1, <1>2 DEF OwnInv

(* A removal disturbs whatever is in progress.                               *)
LEMMA RemovalOwn ==
    ASSUME IInv, IInv', OwnInv, Kernel,
           ~ (\E d \in Devices, k \in Kinds : UseOwn(d, k)),
           ~ (\E c \in Children, d \in Devices, k \in Kinds : UseChild(c, d, k)),
           ~ (\E c \in Children : CreateChild(c))
    PROVE  OwnInv'
<1>1. UNCHANGED <<hasState, pc, done, doneAtRead, doneLast, readVars, stateVars>>
  BY DEF Kernel, RemoveChild, Unplug, RestartGroup, readVars, stateVars, markVars
<1>2. Disturb(TRUE)
  BY DEF Kernel, RemoveChild, Unplug, RestartGroup
<1>3. OwnGrows'
  BY <1>1 DEF OwnInv, OwnGrows
<1>4. ~disturbed' => ~hasState' /\ pc' = "idle"
  <2>1. disturbed' = (disturbed \/ (hasState /\ TRUE) \/ (pc # "idle" /\ TRUE))
    BY <1>2, Zenon DEF Disturb
  <2>2. hasState' = hasState /\ pc' = pc
    BY <1>1
  <2> QED
    BY <2>1, <2>2, Zenon
<1>5. DeadAreEmpty'
  <2>1. DeadAreEmpty
    BY DEF OwnInv
  <2>2. ASSUME NEW c \in Children, RemoveChild(c) PROVE DeadAreEmpty'
    BY <2>1, <2>2 DEF DeadAreEmpty, RemoveChild, IInv, NumbersOK
  <2>3. ASSUME NEW d \in Devices, Unplug(d) PROVE DeadAreEmpty'
    <3>1. [Nothing EXCEPT ![d] = NoUsage] = Nothing
      BY DEF Nothing
    <3> QED
      BY <2>1, <2>3, <3>1 DEF DeadAreEmpty, Unplug
  <2>4. CASE RestartGroup
    BY <2>1, <2>4 DEF DeadAreEmpty, RestartGroup
  <2> QED
    BY <2>2, <2>3, <2>4 DEF Kernel
<1>6. ~disturbed' => OwnIsExact'
  BY <1>4 DEF OwnIsExact, IsReading
<1> QED
  BY <1>3, <1>5, <1>6 DEF OwnInv

(* Requests of the group and of its children keep the equalities: a child    *)
(* adds as much to the two counters.                                         *)
LEMMA UseOwnOwn ==
    ASSUME IInv, IInv', OwnInv, NEW d \in Devices, NEW k \in Kinds,
           \/ UseOwn(d, k)
           \/ \E c \in Children : UseChild(c, d, k)
           \/ \E c \in Children : CreateChild(c)
    PROVE  OwnInv'
<1>1. UNCHANGED <<hasState, pc, removals, begun, lastBegun, children, todo, snapshot,
                  lastUsage, netUsage, doneFirst, doneLast, doneAtRead>>
  BY DEF UseOwn, UseChild, CreateChild, readVars, stateVars, markVars
<1>2. /\ IsReading' = IsReading /\ LastIsQuiet' = LastIsQuiet
      /\ SnapshotIsQuiet' = SnapshotIsQuiet
  BY <1>1, Zenon DEF IsReading, LastIsQuiet, SnapshotIsQuiet
<1>3. ASSUME NEW e \in Devices, NEW j \in Kinds
      PROVE  /\ Net(e)' = Net(e)
             /\ RootOf(lastUsage, e)' = RootOf(lastUsage, e)
             /\ RootOf(snapshot, e)' = RootOf(snapshot, e)
             /\ ChildrenOf(lastUsage, e)' = ChildrenOf(lastUsage, e)
             /\ ChildrenOf(snapshot, e)' = ChildrenOf(snapshot, e)
  BY <1>1 DEF Net, RootOf, ChildrenOf
<1>4. ASSUME NEW e \in Devices, NEW j \in Kinds
      PROVE  /\ done'.own[e][j] >= done.own[e][j] /\ done'.own[e][j] \in Nat
             /\ Gap(e, j)' = Gap(e, j)
             /\ ~disturbed' /\ pc = "children" =>
                   ChildSum(childTotal', todo, e, j) = ChildSum(childTotal, todo, e, j)
  <2>1. /\ done.own[e][j] \in Nat /\ total[e][j] \in Nat
        /\ ChildSum(childTotal, Children, e, j) \in Nat
        /\ ChildSum(childTotal, todo, e, j) \in Nat
    BY OwnNumbers
  <2>2. CASE UseOwn(d, k)
    <3>1. PICK one \in Nat : /\ total'[e][j] = total[e][j] + one
                             /\ done'.own[e][j] = done.own[e][j] + one
                             /\ childTotal' = childTotal
      BY <2>2, UseSums, IoAssumption
    <3> QED
      BY <2>1, <3>1 DEF Gap
  <2>3. ASSUME NEW c \in Children, UseChild(c, d, k)
        PROVE  /\ done'.own[e][j] >= done.own[e][j] /\ done'.own[e][j] \in Nat
               /\ Gap(e, j)' = Gap(e, j)
               /\ ~disturbed' /\ pc = "children" =>
                     ChildSum(childTotal', todo, e, j) = ChildSum(childTotal, todo, e, j)
    <3>1. PICK one \in Nat :
            /\ total'[e][j] = total[e][j] + one
            /\ done'.own[e][j] = done.own[e][j]
            /\ \A S \in SUBSET Children :
                  ChildSum(childTotal', S, e, j) = ChildSum(childTotal, S, e, j)
                     + (IF c \in S THEN one ELSE 0)
      BY <2>3, UseSums
    <3>2. ~disturbed' /\ pc = "children" => c \notin todo
      BY <2>3, Zenon DEF UseChild, Disturb
    <3>3. Children \in SUBSET Children /\ todo \in SUBSET Children
      BY SumsAreNumbers
    <3>4. ChildSum(childTotal', Children, e, j) = ChildSum(childTotal, Children, e, j) + one
      BY <3>1, <3>3
    <3>5. Gap(e, j)' = Gap(e, j)
      BY <2>1, <3>1, <3>4 DEF Gap
    <3> QED
      BY <2>1, <3>1, <3>2, <3>3, <3>5
  <2>4. CASE \E c \in Children : CreateChild(c)
    <3>1. UNCHANGED <<total, childTotal, done>>
      BY <2>4 DEF CreateChild
    <3> QED
      BY <2>1, <3>1 DEF Gap
  <2> QED
    BY <2>2, <2>3, <2>4
<1>5. OwnGrows'
  <2> SUFFICES ASSUME NEW e \in Devices, NEW j \in Kinds
               PROVE  /\ (hasState => doneLast.own[e][j] <= done.own[e][j])'
                      /\ (pc = "children" => doneAtRead.own[e][j] <= done.own[e][j])'
                      /\ (hasState /\ pc = "children"
                            => doneLast.own[e][j] <= doneAtRead.own[e][j])'
    BY DEF OwnGrows
  <2>1. /\ done.own[e][j] \in Nat /\ doneAtRead.own[e][j] \in Nat
        /\ doneLast.own[e][j] \in Nat
    BY OwnNumbers
  <2> QED
    BY <1>1, <1>4, <2>1 DEF OwnInv, OwnGrows
<1>6. DeadAreEmpty'
  BY DEF OwnInv, DeadAreEmpty, UseOwn, UseChild, CreateChild, IInv, NumbersOK
<1>7. ~disturbed' => ~disturbed
  BY Zenon DEF UseOwn, UseChild, CreateChild, Disturb
<1>8. ASSUME ~disturbed' PROVE OwnIsExact'
  <2>1. OwnIsExact
    BY <1>7, <1>8 DEF OwnInv
  <2>2. ASSUME NEW e \in Devices, NEW j \in Kinds
        PROVE  /\ (hasState => LastIsExact(e, j) /\ NetIsExact(e, j))'
               /\ (pc = "children" => SnapshotIsExact(e, j))'
    <3>1. /\ hasState => LastIsExact(e, j) /\ NetIsExact(e, j)
          /\ pc = "children" => SnapshotIsExact(e, j)
      BY <2>1 DEF OwnIsExact
    <3> QED
      BY <1>1, <1>3, <1>4, <1>8, <3>1 DEF LastIsExact, NetIsExact, SnapshotIsExact
  <2> QED
    BY <1>1, <1>2, <2>1, <2>2 DEF OwnIsExact
<1> QED
  BY <1>5, <1>6, <1>8 DEF OwnInv

(* What happens in the kernel keeps the equalities.                          *)
LEMMA KernelOwn == IInv /\ IInv' /\ OwnInv /\ Kernel => OwnInv'
<1>1. Devices # {} /\ Kinds # {}
  BY IoAssumption
<1> QED
  BY <1>1, RemovalOwn, UseOwnOwn

(* Steps after which no device is being compared, and the state is the same  *)
(* as before, or is forgotten.                                               *)
LEMMA RestOwn ==
    ASSUME IInv, OwnInv, Start \/ ListChildren \/ FailToRead \/ Skip \/ Abort \/ Post
    PROVE  OwnInv'
<1>1. /\ pc' # "children" /\ UNCHANGED <<kernelVars, done>>
      /\ IsReading' => begun' = removals
      /\ hasState' => UNCHANGED <<hasState, lastUsage, netUsage, doneFirst, doneLast,
                                  lastBegun>>
  BY DEF Start, ListChildren, FailToRead, Skip, Abort, Post, Return, NoState, stateVars,
     markVars, IsReading
<1>2. UNCHANGED <<alive, total, childTotal, removals, done>>
  BY <1>1 DEF kernelVars
<1>3. hasState' => UNCHANGED <<hasState, lastUsage, netUsage, doneFirst, doneLast, lastBegun>>
  BY <1>1
<1>4. OwnGrows' /\ DeadAreEmpty'
  BY <1>1, <1>2, <1>3 DEF OwnInv, OwnGrows, DeadAreEmpty
<1>5. ~disturbed' /\ hasState' => ~disturbed
  BY <1>3, Zenon DEF Start, ListChildren, FailToRead, Skip, Abort, Post
<1>6. ASSUME ~disturbed' PROVE OwnIsExact'
  <2>1. (hasState => LastIsQuiet)' /\ (IsReading => SnapshotIsQuiet)'
    BY <1>1, <1>2, <1>3, <1>5, <1>6 DEF OwnInv, OwnIsExact, LastIsQuiet, SnapshotIsQuiet
  <2>2. ASSUME NEW d \in Devices, NEW k \in Kinds, hasState'
        PROVE  (LastIsExact(d, k) /\ NetIsExact(d, k))'
    <3>1. LastIsExact(d, k) /\ NetIsExact(d, k)
      BY <1>3, <1>5, <1>6, <2>2 DEF OwnInv, OwnIsExact
    <3> QED
      BY <1>2, <1>3, <2>2, <3>1 DEF LastIsExact, NetIsExact, RootOf, ChildrenOf, Net, Gap
  <2> QED
    BY <1>1, <2>1, <2>2 DEF OwnIsExact
<1> QED
  BY <1>4, <1>6 DEF OwnInv

(* Reading the group's counters keeps the equalities.                        *)
LEMMA ReadGroupOwn == IInv /\ OwnInv /\ ReadGroup => OwnInv'
<1> SUFFICES ASSUME IInv, OwnInv, ReadGroup PROVE OwnInv'
  OBVIOUS
<1>1. /\ UNCHANGED <<alive, total, childTotal, removals, done, hasState, lastUsage, netUsage,
                     doneFirst, doneLast, lastBegun, begun, children>>
      /\ pc = "listed" /\ pc' = "children" /\ todo' = children /\ doneAtRead' = done
  BY DEF ReadGroup, kernelVars, stateVars, markVars
<1>2. DeadAreEmpty'
  BY <1>1 DEF OwnInv, DeadAreEmpty
<1>3. OwnGrows'
  BY <1>1, OwnNumbers DEF OwnInv, OwnGrows
<1>4. ASSUME ~disturbed' PROVE OwnIsExact'
  <2>1. ~disturbed /\ \A c \in alive \ children : childTotal[c] = Nothing
    BY <1>4, Zenon DEF ReadGroup
  <2>2. OwnIsExact
    BY <2>1 DEF OwnInv
  <2>3. (hasState => LastIsQuiet)' /\ (IsReading => SnapshotIsQuiet)'
    BY <1>1, <2>2 DEF OwnIsExact, LastIsQuiet, SnapshotIsQuiet, IsReading
  <2>4. ASSUME NEW d \in Devices, NEW k \in Kinds
        PROVE  /\ (hasState => LastIsExact(d, k) /\ NetIsExact(d, k))'
               /\ SnapshotIsExact(d, k)'
    <3>1. hasState => LastIsExact(d, k) /\ NetIsExact(d, k)
      BY <2>2 DEF OwnIsExact
    <3>2. (hasState => LastIsExact(d, k) /\ NetIsExact(d, k))'
      BY <1>1, <3>1 DEF LastIsExact, NetIsExact, RootOf, ChildrenOf, Net, Gap
    <3>3. \A c \in Children \ children : childTotal[c][d][k] = 0
      BY <2>1, Zeros DEF OwnInv, DeadAreEmpty
    <3>4. childTotal \in ChildCounters /\ children \in SUBSET Children
      BY SumsAreNumbers
    <3>5. Children \in SUBSET Children
      OBVIOUS
    <3>6. ChildSum(childTotal, children, d, k) = ChildSum(childTotal, Children, d, k)
      BY <3>3, <3>4, <3>5, ChildSumFacts
    <3>7. RootOf(snapshot, d)' = total[d] /\ ChildrenOf(snapshot, d)' = NoUsage
      BY ReadGroupSums
    <3>8. /\ NoUsage[k] = 0 /\ total[d][k] \in Nat
          /\ ChildSum(childTotal, Children, d, k) \in Nat
      BY Zeros, OwnNumbers
    <3>9. SnapshotIsExact(d, k)'
      BY <1>1, <3>6, <3>7, <3>8 DEF SnapshotIsExact, Gap
    <3> QED
      BY <3>2, <3>9
  <2> QED
    BY <2>3, <2>4 DEF OwnIsExact
<1> QED
  BY <1>2, <1>3, <1>4 DEF OwnInv

(* Reading a child's counters keeps the equalities.                          *)
LEMMA ReadChildOwn ==
    ASSUME IInv, OwnInv, NEW c \in Children, ReadChild(c)
    PROVE  OwnInv'
<1>1. /\ UNCHANGED <<alive, total, childTotal, removals, done, doneAtRead, hasState, lastUsage,
                     netUsage, doneFirst, doneLast, lastBegun, begun, children, pc, disturbed>>
      /\ pc = "children"
  BY DEF ReadChild, kernelVars, stateVars, markVars
<1>2. OwnGrows' /\ DeadAreEmpty'
  BY <1>1 DEF OwnInv, OwnGrows, DeadAreEmpty
<1>3. ASSUME ~disturbed' PROVE OwnIsExact'
  <2>1. OwnIsExact
    BY <1>1, <1>3 DEF OwnInv
  <2>2. (hasState => LastIsQuiet)' /\ (IsReading => SnapshotIsQuiet)'
    BY <1>1, <2>1 DEF OwnIsExact, LastIsQuiet, SnapshotIsQuiet, IsReading
  <2>3. ASSUME NEW d \in Devices, NEW k \in Kinds
        PROVE  /\ (hasState => LastIsExact(d, k) /\ NetIsExact(d, k))'
               /\ SnapshotIsExact(d, k)'
    <3>1. /\ hasState => LastIsExact(d, k) /\ NetIsExact(d, k)
          /\ SnapshotIsExact(d, k)
      BY <1>1, <2>1 DEF OwnIsExact
    <3>2. (hasState => LastIsExact(d, k) /\ NetIsExact(d, k))'
      BY <1>1, <3>1 DEF LastIsExact, NetIsExact, RootOf, ChildrenOf, Net, Gap
    <3>3. /\ RootOf(snapshot, d)' = RootOf(snapshot, d)
          /\ ChildrenOf(snapshot, d)'[k] + ChildSum(childTotal, todo', d, k)
                = ChildrenOf(snapshot, d)[k] + ChildSum(childTotal, todo, d, k)
      BY ReadChildSums
    <3>4. SnapshotIsExact(d, k)'
      BY <1>1, <3>1, <3>3 DEF SnapshotIsExact, Gap
    <3> QED
      BY <3>2, <3>4
  <2> QED
    BY <2>2, <2>3 DEF OwnIsExact
<1> QED
  BY <1>2, <1>3 DEF OwnInv

(* The first snapshot becomes the last usage, and nothing has been reported. *)
LEMMA MakeStateOwn == IInv /\ OwnInv /\ MakeState => OwnInv'
<1> SUFFICES ASSUME IInv, OwnInv, MakeState PROVE OwnInv'
  OBVIOUS
<1>1. /\ UNCHANGED <<alive, total, childTotal, removals, done, disturbed>>
      /\ pc = "children" /\ pc' = "visited" /\ todo = {} /\ lastUsage' = snapshot
      /\ netUsage' = NoDevices /\ doneFirst' = doneAtRead /\ doneLast' = doneAtRead
      /\ lastBegun' = begun
  BY DEF MakeState, Return, kernelVars
<1>2. OwnGrows' /\ DeadAreEmpty'
  BY <1>1 DEF OwnInv, OwnGrows, DeadAreEmpty
<1>3. ASSUME ~disturbed' PROVE OwnIsExact'
  <2>1. OwnIsExact
    BY <1>1, <1>3 DEF OwnInv
  <2>2. (hasState => LastIsQuiet)' /\ (IsReading => SnapshotIsQuiet)'
    BY <1>1, <2>1 DEF OwnIsExact, LastIsQuiet, SnapshotIsQuiet, IsReading
  <2>3. ASSUME NEW d \in Devices, NEW k \in Kinds
        PROVE  (LastIsExact(d, k) /\ NetIsExact(d, k))'
    <3>1. SnapshotIsExact(d, k)
      BY <1>1, <2>1 DEF OwnIsExact
    <3>2. /\ ChildSum(childTotal, todo, d, k) = 0 /\ ChildrenOf(snapshot, d)[k] \in Nat
          /\ doneAtRead.own[d][k] \in Nat
      BY <1>1, SumsAreNumbers, ChildSumFacts, OwnNumbers
    <3>3. Net(d)'[k] = 0
      BY <1>1, Zeros DEF Net, NoDevices
    <3>4. /\ RootOf(lastUsage, d)' = RootOf(snapshot, d)
          /\ ChildrenOf(lastUsage, d)' = ChildrenOf(snapshot, d)
      BY <1>1 DEF RootOf, ChildrenOf
    <3>5. LastIsExact(d, k)'
      BY <1>1, <3>1, <3>2, <3>4 DEF LastIsExact, SnapshotIsExact, Gap
    <3>6. NetIsExact(d, k)'
      BY <1>1, <3>2, <3>3 DEF NetIsExact
    <3> QED
      BY <3>5, <3>6
  <2> QED
    BY <1>1, <2>2, <2>3 DEF OwnIsExact
<1> QED
  BY <1>2, <1>3 DEF OwnInv

(* What the last snapshot misses and the next one misses is the same: their  *)
(* difference is all that the group has done itself.                         *)
LEMMA UpdateStateOwn == IInv /\ CauseInv /\ OwnInv /\ UpdateState => OwnInv'
<1> SUFFICES ASSUME IInv, CauseInv, OwnInv, UpdateState PROVE OwnInv'
  OBVIOUS
<1>1. /\ UNCHANGED <<alive, total, childTotal, removals, done, disturbed, doneFirst>>
      /\ hasState /\ pc = "children" /\ pc' = "visited" /\ todo = {}
      /\ lastUsage' = snapshot /\ doneLast' = doneAtRead /\ lastBegun' = begun
      /\ hasState' = hasState
  BY DEF UpdateState, Return, kernelVars
<1>2. OwnGrows' /\ DeadAreEmpty'
  BY <1>1 DEF OwnInv, OwnGrows, DeadAreEmpty
<1>3. ASSUME ~disturbed' PROVE OwnIsExact'
  <2>1. OwnIsExact
    BY <1>1, <1>3 DEF OwnInv
  <2>2. (hasState => LastIsQuiet)' /\ (IsReading => SnapshotIsQuiet)'
    BY <1>1, <2>1 DEF OwnIsExact, LastIsQuiet, SnapshotIsQuiet, IsReading
  <2>3. LastIsQuiet
    BY <1>1, <2>1 DEF OwnIsExact
  <2>4. Failing = {} /\ Calculate(DOMAIN snapshot, {})
    BY <1>1, <2>3, QuietSucceeds DEF UpdateState
  <2>5. ASSUME NEW d \in Devices, NEW k \in Kinds
        PROVE  (LastIsExact(d, k) /\ NetIsExact(d, k))'
    <3>1. SnapshotIsExact(d, k) /\ LastIsExact(d, k) /\ NetIsExact(d, k)
      BY <1>1, <2>1 DEF OwnIsExact
    <3>2. /\ ChildSum(childTotal, todo, d, k) = 0 /\ ChildrenOf(snapshot, d)[k] \in Nat
          /\ ChildrenOf(lastUsage, d)[k] \in Nat
      BY <1>1, SumsAreNumbers, ChildSumFacts
    <3>3. /\ RootOf(lastUsage, d)' = RootOf(snapshot, d)
          /\ ChildrenOf(lastUsage, d)' = ChildrenOf(snapshot, d)
      BY <1>1 DEF RootOf, ChildrenOf
    <3>4. LastIsExact(d, k)'
      BY <1>1, <3>1, <3>2, <3>3 DEF LastIsExact, SnapshotIsExact, Gap
    <3>5. PICK r, s, a, b \in Nat :
            /\ r = RootOf(snapshot, d)[k] /\ s = RootOf(lastUsage, d)[k]
            /\ a = ChildrenOf(snapshot, d)[k] /\ b = ChildrenOf(lastUsage, d)[k]
      BY <3>2, OwnNumbers
    <3>6. PICK old, new, net \in Nat :
            /\ old = doneLast.own[d][k] /\ new = doneAtRead.own[d][k] /\ net = Net(d)[k]
      BY OwnNumbers
    <3>7. s <= r /\ b <= a /\ old <= new
      BY <1>1, <2>3, <3>5, <3>6, QuietSucceeds DEF OwnInv, OwnGrows
    <3>8. PICK gap \in Int : gap = Gap(d, k)
      BY OwnNumbers DEF Gap
    <3>9. r - a - new = s - b - old
      <4>1. r - (a + 0) - new = gap
        BY <3>1, <3>2, <3>5, <3>6, <3>8 DEF SnapshotIsExact
      <4>2. s - b - old = gap
        BY <3>1, <3>5, <3>6, <3>8 DEF LastIsExact
      <4> QED
        BY <3>5, <4>1, <4>2
    <3>10. Net(d)'[k] = net + (new - old)
      <4>1. CASE d \in DOMAIN snapshot
        <5>1. Net(d)' = CalculateRootGroupUsage(Net(d), snapshot[d], Last(d))
          BY <2>4, <4>1 DEF Calculate, Net
        <5>2. /\ RootDiff(snapshot[d], Last(d))[k] = r - s
              /\ ChildrenDiff(snapshot[d], Last(d))[k] = a - b
          BY <3>5, <4>1 DEF RootDiff, ChildrenDiff, Diff, Last, RootOf, ChildrenOf
        <5>3. Net(d)'[k] = net + NetGrowth(r - s, a - b)
          BY <3>6, <5>1, <5>2 DEF CalculateRootGroupUsage
        <5>4. NetGrowth(r - s, a - b) = new - old
          BY <3>5, <3>6, <3>7, <3>9 DEF NetGrowth
        <5> QED
          BY <5>3, <5>4
      <4>2. CASE d \notin DOMAIN snapshot
        <5>1. Net(d)' = Net(d)
          BY <2>4, <4>2 DEF Calculate, Net
        <5>2. r = 0 /\ a = 0
          BY <3>5, <4>2, Zeros DEF RootOf, ChildrenOf
        <5>3. new = old
          BY <3>5, <3>6, <3>7, <3>9, <5>2
        <5> QED
          BY <3>6, <5>1, <5>3
      <4> QED
        BY <4>1, <4>2
    <3>11. doneFirst.own[d][k] \in Nat /\ net = old - doneFirst.own[d][k]
      BY <3>1, <3>6, OwnNumbers DEF NetIsExact
    <3>12. NetIsExact(d, k)'
      BY <1>1, <3>6, <3>10, <3>11 DEF NetIsExact
    <3> QED
      BY <3>4, <3>12
  <2> QED
    BY <1>1, <2>2, <2>5 DEF OwnIsExact
<1> QED
  BY <1>2, <1>3 DEF OwnInv

(* Every step keeps the equalities.                                          *)
LEMMA NextOwn == IInv /\ IInv' /\ CauseInv /\ OwnInv /\ [Next]_vars => OwnInv'
<1> SUFFICES ASSUME IInv, IInv', CauseInv, OwnInv, [Next]_vars PROVE OwnInv'
  OBVIOUS
<1>1. CASE Kernel
  BY <1>1, KernelOwn
<1>2. CASE Collect
  BY <1>2, RestOwn, ReadGroupOwn, ReadChildOwn, MakeStateOwn, UpdateStateOwn DEF Collect
<1>3. CASE UNCHANGED vars
  <2>1. UNCHANGED <<alive, total, childTotal, removals, done, doneAtRead, hasState,
                    lastUsage, netUsage, doneFirst, doneLast, lastBegun, begun, pc, todo,
                    snapshot, disturbed>>
    BY <1>3 DEF vars, kernelVars, readVars, stateVars, markVars
  <2> QED
    BY <2>1 DEF OwnInv, OwnGrows, DeadAreEmpty, OwnIsExact, IsReading, LastIsQuiet,
       SnapshotIsQuiet, LastIsExact, NetIsExact, SnapshotIsExact, RootOf, ChildrenOf,
       Net, Gap
<1> QED
  BY <1>1, <1>2, <1>3 DEF Next

(* While no child and no device is removed and no child is busy while it is  *)
(* waiting to be read, the reported I/O is exactly what the group itself has *)
(* done between the first and the last snapshot: collections that are        *)
(* aborted or fail to read a file lose nothing (io/collector.go:136-216).    *)
THEOREM ReportIsExactWhenUndisturbed == Spec => []ExactWhenUndisturbed
<1>1. OwnInv => ExactWhenUndisturbed
  BY DEF OwnInv, OwnIsExact, NetIsExact, ExactWhenUndisturbed
<1> QED
  BY <1>1, InitIInv, NextIInv, InitCause, NextCause, InitOwn, NextOwn, PTL DEF Spec
=============================================================================
