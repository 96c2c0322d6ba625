---------------------------- MODULE CpuRootProofs ----------------------------
(* Proofs, for any children, counters and bounds, of what the exported CPU   *)
(* usage of a root group can be: between the growth of the counters          *)
(* (NetIsBounded), a counter (NetIsCounter), and the group's own usage up to *)
(* what no snapshot could attribute (UsageIsTracked).  The last needs more   *)
(* than its own statement: how far the kernel's counters, the snapshot being *)
(* read and the last one may be from each other (MarginInv).                 *)
EXTENDS CpuRoot, SumTheorems

NumbersOK == /\ total \in Usage
             /\ childTotal \in [Children -> Usage]
             /\ snapshot \in RootUsages
             /\ lastUsage \in RootUsages
             /\ netUsage \in Usage
             /\ firstUsage \in RootUsages

IInv == NumbersOK /\ NetIsBoundedByCounters

\* What one step may do to the state of the group.
KeepsState == UNCHANGED <<hasState, lastUsage, netUsage, firstUsage>>
-----------------------------------------------------------------------------
(* The operations on usages stay among usages.                               *)
LEMMA UsageTypes ==
    ASSUME NEW a \in Usage, NEW b \in Usage, NEW k \in Kinds
    PROVE  AddUsage(a, b) \in Usage /\ Tick(k) \in Usage /\ NoUsage \in Usage
BY DEF Usage, AddUsage, Tick, NoUsage

(* A successful calculation adds to the net usage at least what the group    *)
(* grew over its children, at most what the group grew, and never a negative *)
(* amount (usage.go:59-64).                                                  *)
LEMMA CalculationBounds ==
    ASSUME NEW net \in Usage, NEW cur \in RootUsages, NEW prev \in RootUsages,
           ~CalculationFails(cur, prev)
    PROVE  /\ CalculateRootGroupUsage(net, cur, prev) \in Usage
           /\ \A k \in Kinds :
                LET grown == CalculateRootGroupUsage(net, cur, prev)[k] - net[k]
                IN  /\ grown >= 0
                    /\ grown <= cur.root[k] - prev.root[k]
                    /\ grown >= (cur.root[k] - cur.children[k])
                                - (prev.root[k] - prev.children[k])
<1>1. ASSUME NEW k \in Kinds
      PROVE  /\ net[k] \in Int /\ cur.root[k] \in Int /\ prev.root[k] \in Int
             /\ cur.children[k] \in Int /\ prev.children[k] \in Int
  BY <1>1 DEF Usage, RootUsages
<1>2. ASSUME NEW k \in Kinds
      PROVE  /\ RootDiff(cur, prev)[k] = cur.root[k] - prev.root[k]
             /\ ChildrenDiff(cur, prev)[k] = cur.children[k] - prev.children[k]
             /\ cur.root[k] - prev.root[k] >= 0
             /\ cur.children[k] - prev.children[k] >= 0
  <2>1. /\ RootDiff(cur, prev)[k] = cur.root[k] - prev.root[k]
        /\ ChildrenDiff(cur, prev)[k] = cur.children[k] - prev.children[k]
    BY DEF RootDiff, ChildrenDiff, Diff
  <2>2. ~(RootDiff(cur, prev)[k] < 0) /\ ~(ChildrenDiff(cur, prev)[k] < 0)
    BY DEF CalculationFails, IsNegative
  <2> QED
    BY <1>1, <2>1, <2>2
<1>3. ASSUME NEW k \in Kinds
      PROVE  CalculateRootGroupUsage(net, cur, prev)[k] =
                 net[k] + NetGrowth(cur.root[k] - prev.root[k],
                                    cur.children[k] - prev.children[k])
  BY <1>2 DEF CalculateRootGroupUsage
<1>4. ASSUME NEW k \in Kinds
      PROVE  CalculateRootGroupUsage(net, cur, prev)[k] \in Int
  BY <1>1, <1>3 DEF NetGrowth
<1>5. CalculateRootGroupUsage(net, cur, prev) \in Usage
  <2> DEFINE f == CalculateRootGroupUsage(net, cur, prev)
  <2>1. f = [k \in Kinds |-> f[k]]
    BY DEF CalculateRootGroupUsage
  <2> QED
    BY <1>4, <2>1 DEF Usage
<1> QED
  BY <1>1, <1>2, <1>3, <1>5 DEF NetGrowth

(* The initial state satisfies the invariant.                                *)
LEMMA InitIInv == Init => IInv
<1> SUFFICES ASSUME Init PROVE IInv
  OBVIOUS
<1>1. NumbersOK
  BY DEF Init, NumbersOK, NoRootUsage, NoUsage, Usage, RootUsages
<1>2. NetIsBoundedByCounters
  BY DEF Init, NetIsBoundedByCounters
<1> QED
  BY <1>1, <1>2 DEF IInv

(* The kernel never touches the collector's state.                           *)
LEMMA KernelIInv == IInv /\ Kernel => IInv' /\ KeepsState
<1> SUFFICES ASSUME IInv, Kernel PROVE IInv' /\ KeepsState
  OBVIOUS
<1>1. KeepsState /\ UNCHANGED snapshot
  BY DEF Kernel, UseOwn, UseChild, CreateChild, RemoveChild, RemoveGroup,
         CreateGroup, readVars, stateVars, historyVars, KeepsState
<1>2. total' \in Usage /\ childTotal' \in [Children -> Usage]
  <2> USE UsageTypes DEF IInv, NumbersOK
  <2>1. ASSUME NEW k \in Kinds, UseOwn(k)
        PROVE  total' \in Usage /\ childTotal' \in [Children -> Usage]
    BY <2>1 DEF UseOwn, Charge
  <2>2. ASSUME NEW c \in Children, NEW k \in Kinds, UseChild(c, k)
        PROVE  total' \in Usage /\ childTotal' \in [Children -> Usage]
    BY <2>2 DEF UseChild, Charge
  <2>3. ASSUME NEW c \in Children, CreateChild(c)
        PROVE  total' \in Usage /\ childTotal' \in [Children -> Usage]
    BY <2>3 DEF CreateChild, NoUsage, Usage
  <2>4. CASE \/ \E c \in Children : RemoveChild(c)
             \/ RemoveGroup
    BY <2>4 DEF RemoveChild, RemoveGroup
  <2>5. CASE CreateGroup
    BY <2>5 DEF CreateGroup, NoUsage, Usage
  <2> QED
    BY <2>1, <2>2, <2>3, <2>4, <2>5 DEF Kernel
<1>3. IInv'
  BY <1>1, <1>2 DEF IInv, KeepsState, NumbersOK, NetIsBoundedByCounters
<1> QED
  BY <1>1, <1>3

(* A read extends the snapshot and touches nothing else.                     *)
LEMMA ReadIInv ==
    ASSUME IInv, \/ ListChildren \/ ReadGroup \/ FailToRead
                 \/ \E c \in Children : ReadChild(c) \/ MissChild(c)
    PROVE  IInv' /\ KeepsState
<1> USE DEF IInv
<1>1. KeepsState /\ UNCHANGED <<total, childTotal>>
  BY DEF ListChildren, ReadGroup, ReadChild, MissChild, FailToRead, stateVars,
         kernelVars, historyVars, KeepsState
<1>2. snapshot' \in RootUsages
  <2> USE DEF NumbersOK
  <2>1. CASE ListChildren
    BY <2>1 DEF ListChildren, readVars
  <2>2. CASE ReadGroup
    <3>1. NoRootUsage \in RootUsages
      BY DEF RootUsages, NoRootUsage, NoUsage, Usage
    <3>2. [root |-> total, children |-> NoUsage] \in RootUsages
      BY DEF RootUsages, NoUsage, Usage
    <3> QED
      BY <2>2, <3>1, <3>2 DEF ReadGroup, Return
  <2>3. ASSUME NEW c \in Children, ReadChild(c)
        PROVE  snapshot' \in RootUsages
    <3>1. AddUsage(snapshot.children, childTotal[c]) \in Usage
      BY DEF RootUsages, AddUsage, Usage
    <3> QED
      BY <2>3, <3>1 DEF ReadChild, RootUsages
  <2>4. ASSUME NEW c \in Children, MissChild(c)
        PROVE  snapshot' \in RootUsages
    BY <2>4 DEF MissChild, Return, RootUsages, NoRootUsage, NoUsage, Usage
  <2>5. CASE FailToRead
    BY <2>5 DEF FailToRead, Return, RootUsages, NoRootUsage, NoUsage, Usage
  <2> QED
    BY <2>1, <2>2, <2>3, <2>4, <2>5
<1>3. IInv'
  BY <1>1, <1>2 DEF KeepsState, NumbersOK, NetIsBoundedByCounters
<1> QED
  BY <1>1, <1>3

(* The first snapshot makes a state with nothing to report.                  *)
LEMMA MakeStateIInv == IInv /\ MakeState => IInv'
<1> SUFFICES ASSUME IInv, MakeState PROVE IInv'
  OBVIOUS
<1> USE DEF IInv, NumbersOK, MakeState, Return
<1>1. NumbersOK'
  BY DEF kernelVars, RootUsages, NoRootUsage, NoUsage, Usage
<1>2. NetIsBoundedByCounters'
  BY DEF NetIsBoundedByCounters, NoUsage, RootUsages, Usage
<1> QED
  BY <1>1, <1>2

(* A later one moves the net usage within the growth of the counters.        *)
LEMMA UpdateStateIInv ==
    ASSUME IInv, UpdateState
    PROVE  /\ IInv' /\ hasState' = hasState
           /\ \A k \in Kinds : netUsage'[k] >= netUsage[k]
<1> USE DEF IInv, UpdateState
<1>0. /\ UNCHANGED <<total, childTotal, firstUsage>> /\ hasState
      /\ snapshot' \in RootUsages
  BY DEF kernelVars, Return, RootUsages, NoRootUsage, NoUsage, Usage
<1>1. CASE CalculationFails(snapshot, lastUsage)
  <2>1. KeepsState
    BY <1>0, <1>1 DEF stateVars, KeepsState
  <2>2. IInv'
    BY <1>0, <2>1 DEF KeepsState, NumbersOK, NetIsBoundedByCounters
  <2> QED
    BY <2>1, <2>2 DEF KeepsState, NumbersOK, Usage
<1>2. CASE ~CalculationFails(snapshot, lastUsage)
  <2>1. /\ netUsage' = CalculateRootGroupUsage(netUsage, snapshot, lastUsage)
        /\ lastUsage' = snapshot /\ hasState' = hasState
    BY <1>2
  <2>2. /\ netUsage' \in Usage
        /\ \A k \in Kinds :
             /\ netUsage'[k] - netUsage[k] >= 0
             /\ netUsage'[k] - netUsage[k] <= snapshot.root[k] - lastUsage.root[k]
             /\ netUsage'[k] - netUsage[k] >=
                    (snapshot.root[k] - snapshot.children[k])
                    - (lastUsage.root[k] - lastUsage.children[k])
    BY <1>2, <2>1, CalculationBounds DEF NumbersOK
  <2>3. NumbersOK'
    BY <1>0, <2>1, <2>2 DEF NumbersOK
  <2>4. \A k \in Kinds :
            /\ netUsage[k] \in Int /\ netUsage'[k] \in Int
            /\ snapshot.root[k] \in Int /\ snapshot.children[k] \in Int
            /\ lastUsage.root[k] \in Int /\ lastUsage.children[k] \in Int
            /\ firstUsage.root[k] \in Int /\ firstUsage.children[k] \in Int
    BY <2>2 DEF NumbersOK, RootUsages, Usage
  <2>5. ASSUME NEW k \in Kinds
        PROVE  /\ netUsage[k] <= lastUsage.root[k] - firstUsage.root[k]
               /\ netUsage[k] >= (lastUsage.root[k] - lastUsage.children[k])
                                  - (firstUsage.root[k] - firstUsage.children[k])
    BY <1>0 DEF NetIsBoundedByCounters
  <2>6. NetIsBoundedByCounters'
    BY <1>0, <2>1, <2>2, <2>4, <2>5 DEF NetIsBoundedByCounters
  <2>7. \A k \in Kinds : netUsage'[k] >= netUsage[k]
    BY <2>2, <2>4
  <2> QED
    BY <1>0, <2>1, <2>3, <2>6, <2>7
<1> QED
  BY <1>1, <1>2

(* The ends of a collection only ever drop the state of a service.           *)
LEMMA EndIInv ==
    ASSUME IInv, Start \/ Skip \/ Post \/ Abort
    PROVE  /\ IInv' /\ netUsage' = netUsage
           /\ hasState /\ isRoot => hasState'
<1>1. /\ UNCHANGED <<total, childTotal, snapshot, lastUsage, netUsage,
                     firstUsage>>
      /\ hasState' => hasState
      /\ hasState /\ isRoot => hasState'
  <2>1. CASE Start
    BY <2>1 DEF Start, kernelVars
  <2>2. CASE Skip \/ Abort
    BY <2>2 DEF Skip, Abort, kernelVars, stateVars, historyVars
  <2>3. CASE Post
    BY <2>3 DEF Post, kernelVars, historyVars
  <2> QED
    BY <2>1, <2>2, <2>3
<1> QED
  BY <1>1 DEF IInv, NumbersOK, NetIsBoundedByCounters

(* A step that changes nothing keeps the invariant.                          *)
LEMMA StutterIInv == IInv /\ UNCHANGED vars => IInv' /\ KeepsState
BY DEF IInv, vars, kernelVars, readVars, stateVars, historyVars, NumbersOK,
       NetIsBoundedByCounters, KeepsState

(* Every step keeps the invariant.                                           *)
LEMMA NextIInv == IInv /\ [Next]_vars => IInv'
<1> SUFFICES ASSUME IInv, [Next]_vars PROVE IInv'
  OBVIOUS
<1>1. CASE UNCHANGED vars
  BY <1>1, StutterIInv
<1>2. CASE Kernel
  BY <1>2, KernelIInv
<1>3. CASE Collect
  BY <1>3, ReadIInv, MakeStateIInv, UpdateStateIInv, EndIInv DEF Collect
<1> QED
  BY <1>1, <1>2, <1>3 DEF Next

(* IInv is an inductive invariant of the CPU collector and the kernel.       *)
THEOREM Invariance == Spec => []IInv
BY InitIInv, NextIInv, PTL DEF Spec
-----------------------------------------------------------------------------
(* The exported usage lies between the growth of the group over its children *)
(* and the growth of the group, in every interleaving of reads with use,     *)
(* creation and removal (cpu/collector.go:109-141, usage.go:34-67).          *)
THEOREM NetIsBounded == Spec => []NetIsBoundedByCounters
BY Invariance, PTL DEF IInv

(* The exported usage is a counter (cpu/collector.go:39-50, 127-140).        *)
THEOREM NetIsCounter == Spec => NetNeverGoesBack
<1> DEFINE Kept == hasState => /\ isRoot => hasState'
                               /\ hasState' => \A k \in Kinds :
                                                  netUsage'[k] >= netUsage[k]
<1>1. IInv /\ [Next]_vars => [Kept]_vars
  <2> SUFFICES ASSUME IInv, Next, hasState PROVE Kept
    OBVIOUS
  <2>0. \A k \in Kinds : netUsage[k] >= netUsage[k]
    BY DEF IInv, NumbersOK, Usage
  <2>1. CASE Kernel
    BY <2>0, <2>1, KernelIInv DEF KeepsState
  <2>2. CASE \/ ListChildren \/ ReadGroup \/ FailToRead
             \/ \E c \in Children : ReadChild(c) \/ MissChild(c)
    BY <2>0, <2>2, ReadIInv DEF KeepsState
  <2>3. CASE MakeState
    BY <2>3 DEF MakeState
  <2>4. CASE UpdateState
    BY <2>4, UpdateStateIInv
  <2>5. CASE Start \/ Skip \/ Post \/ Abort
    BY <2>0, <2>5, EndIInv
  <2> QED
    BY <2>1, <2>2, <2>3, <2>4, <2>5 DEF Next, Collect
<1> QED
  BY Invariance, <1>1, PTL DEF Spec, NetNeverGoesBack
-----------------------------------------------------------------------------
(* Types                                                                     *)

(* What a snapshot is made of.                                               *)
LEMMA RootUsageTypes ==
    ASSUME NEW a \in Usage, NEW b \in Usage
    PROVE  /\ [root |-> a, children |-> b] \in RootUsages
           /\ NoRootUsage \in RootUsages /\ NoUsage \in Usage
           /\ AddUsage(a, b) \in Usage
BY DEF Usage, RootUsages, NoRootUsage, NoUsage, AddUsage

\* What makes the types inductive: nothing is left to read between snapshots.
TypeInv == TypeOK /\ (pc # "children" => todo = {})

(* The initial state has the types.                                          *)
LEMMA InitTypeOK == Init => TypeInv
<1> SUFFICES ASSUME Init PROVE TypeInv
  OBVIOUS
<1>1. NoUsage \in Usage /\ NoRootUsage \in RootUsages
  BY DEF Usage, RootUsages, NoRootUsage, NoUsage
<1>2. NoUsage \in [Kinds -> Nat] /\ NoUsage \in [Kinds -> 0..MaxLost]
  BY CpuAssumption DEF NoUsage
<1>3. /\ ticks \in 0..MaxTicks /\ removals \in 0..MaxRemovals
      /\ childTotal \in [Children -> Usage]
  BY <1>1, CpuAssumption DEF Init
<1> QED
  BY <1>1, <1>2, <1>3 DEF Init, TypeOK, TypeInv

\* What some children have used is a usage, and natural if each counter is.
LEMMA UsageOfTypes ==
    ASSUME NEW f \in [Children -> Usage], NEW s \in SUBSET Children
    PROVE  /\ UsageOf(f, s) \in Usage
           /\ \A k \in Kinds : (\A c \in Children : f[c][k] >= 0)
                                  => UsageOf(f, s)[k] >= 0
<1>1. IsFiniteSet(s)
  BY CpuAssumption, FS_Subset
<1>2. ASSUME NEW k \in Kinds
      PROVE  /\ UsageOf(f, s)[k] \in Int
             /\ (\A c \in Children : f[c][k] >= 0) => UsageOf(f, s)[k] >= 0
  <2> DEFINE g == [c \in Children |-> f[c][k]]
  <2>1. UsageOf(f, s)[k] = SumFunctionOnSet(g, s)
    BY DEF UsageOf
  <2>2. \A c \in s : g[c] \in Int
    BY DEF Usage
  <2>3. UsageOf(f, s)[k] \in Int
    <3> HIDE DEF g
    <3> QED
      BY <1>1, <2>1, <2>2, SumIsInt DEF IsIntOn
  <2>4. ASSUME \A c \in Children : f[c][k] >= 0 PROVE UsageOf(f, s)[k] >= 0
    <3>1. \A c \in s : g[c] \in Nat
      BY <2>4, <2>2
    <3> HIDE DEF g
    <3>2. SumFunctionOnSet(g, s) \in Nat
      BY <1>1, <3>1, SumIsNat
    <3> QED
      BY <2>1, <3>2
  <2> QED
    BY <2>3, <2>4
<1>3. UsageOf(f, s) = [k \in Kinds |-> UsageOf(f, s)[k]]
  BY DEF UsageOf
<1> QED
  BY <1>2, <1>3 DEF Usage

(* How that changes with the set and with the counters.                      *)
LEMMA UsageOfFacts ==
    ASSUME NEW f \in [Children -> Usage], NEW s \in SUBSET Children, NEW k \in Kinds
    PROVE  /\ UsageOf(f, {})[k] = 0
           /\ \A c \in s : UsageOf(f, s)[k] = f[c][k] + UsageOf(f, s \ {c})[k]
           /\ \A g \in [Children -> Usage] :
                 (\A c \in s : g[c] = f[c]) => UsageOf(g, s)[k] = UsageOf(f, s)[k]
           /\ \A r : UsageOf(f, s)[k]
                       = UsageOf(f, s \cap r)[k] + UsageOf(f, s \ r)[k]
<1>1. IsFiniteSet(s)
  BY CpuAssumption, FS_Subset
<1> DEFINE At(g) == [c \in Children |-> g[c][k]]
<1>2. \A g, t : UsageOf(g, t)[k] = SumFunctionOnSet(At(g), t)
  BY DEF UsageOf
<1>3. \A c \in s : At(f)[c] \in Int /\ At(f)[c] = f[c][k]
  BY DEF Usage
<1>4. \A g \in [Children -> Usage] : (\A c \in s : g[c] = f[c])
                                       => \A c \in s : At(g)[c] = At(f)[c]
  OBVIOUS
<1> HIDE DEF At
<1>5. \A c \in s : UsageOf(f, s)[k] = f[c][k] + UsageOf(f, s \ {c})[k]
  BY <1>1, <1>2, <1>3, SumRemove DEF IsIntOn
<1>6. ASSUME NEW g \in [Children -> Usage], \A c \in s : g[c] = f[c]
      PROVE  UsageOf(g, s)[k] = UsageOf(f, s)[k]
  <2>1. \A c \in s : At(g)[c] = At(f)[c]
    BY <1>4, <1>6
  <2> QED
    BY <1>1, <1>2, <2>1, SumSame
<1>7. ASSUME NEW r
      PROVE  UsageOf(f, s)[k] = UsageOf(f, s \cap r)[k] + UsageOf(f, s \ r)[k]
  <2>1. IsIntOn(At(f), s)
    BY <1>3 DEF IsIntOn
  <2>2. SumFunctionOnSet(At(f), s) = SumFunctionOnSet(At(f), s \cap r)
                                     + SumFunctionOnSet(At(f), s \ r)
    BY <1>1, <2>1, SumSplit
  <2> QED
    BY <1>2, <2>2, Zenon
<1> QED
  BY <1>2, <1>5, <1>6, <1>7, SumEmpty

(* What happens in the kernel keeps the types.                               *)
LEMMA KernelTypeOK == TypeInv /\ Kernel => TypeInv'
<1> SUFFICES ASSUME TypeInv, Kernel PROVE TypeInv'
  OBVIOUS
<1> USE CpuAssumption DEF TypeInv, TypeOK
<1>1. UNCHANGED <<isRoot, readVars, stateVars, ownAtRead, ownFirst, ownLast,
                  firstUsage>>
  BY DEF Kernel, UseOwn, UseChild, CreateChild, RemoveChild, RemoveGroup,
         CreateGroup, historyVars
<1>2. \A a, b \in Usage : AddUsage(a, b) \in Usage
  BY UsageTypes DEF AddUsage, Usage
<1>3. NoUsage \in Usage /\ \A k \in Kinds : Tick(k) \in Usage
  BY DEF NoUsage, Tick, Usage
<1>4. /\ present' \in BOOLEAN /\ alive' \in SUBSET Children
      /\ total' \in Usage /\ childTotal' \in [Children -> Usage]
      /\ ticks' \in 0..MaxTicks /\ removals' \in 0..MaxRemovals
      /\ ownUsage' \in Usage /\ unseen' \in Usage
      /\ lost' \in [Kinds -> 0..MaxLost]
  <2>0. ASSUME NEW k \in Kinds, Charge(k)
        PROVE  total' \in Usage /\ lost' \in [Kinds -> 0..MaxLost]
    <3>1. CASE lost' = lost
      BY <1>2, <1>3, <2>0, <3>1 DEF Charge
    <3>2. CASE lost' # lost
      <4>1. /\ lost[k] < MaxLost /\ total' = total
            /\ lost' = AddUsage(lost, Tick(k))
        BY <2>0, <3>2 DEF Charge
      <4>2. \A j \in Kinds : lost[j] + Tick(k)[j] \in 0..MaxLost
        BY <4>1 DEF Tick
      <4> QED
        BY <4>1, <4>2 DEF AddUsage
    <3> QED
      BY <3>1, <3>2
  <2>1. ASSUME NEW k \in Kinds, UseOwn(k) PROVE <1>4!:
    BY <1>2, <1>3, <2>0, <2>1 DEF UseOwn
  <2>2. ASSUME NEW c \in Children, NEW k \in Kinds, UseChild(c, k) PROVE <1>4!:
    <3>1. /\ childTotal' \in [Children -> Usage] /\ total' \in Usage
          /\ lost' \in [Kinds -> 0..MaxLost]
      BY <1>2, <1>3, <2>0, <2>2 DEF UseChild
    <3>2. unseen' \in Usage
      BY <1>2, <1>3, <2>2 DEF UseChild, Miss
    <3> QED
      BY <2>2, <3>1, <3>2 DEF UseChild
  <2>3. ASSUME NEW c \in Children, CreateChild(c) PROVE <1>4!:
    BY <1>3, <2>3 DEF CreateChild, historyVars
  <2>4. ASSUME NEW c \in Children, RemoveChild(c) PROVE <1>4!:
    <3>1. unseen' \in Usage
      BY <1>2, <2>4 DEF RemoveChild, Miss
    <3> QED
      BY <2>4, <3>1 DEF RemoveChild
  <2>5. CASE RemoveGroup
    <3>1. unseen' \in Usage
      BY <1>2, <2>5 DEF RemoveGroup, Miss
    <3>2. removals' \in 0..MaxRemovals
      BY <2>5 DEF RemoveGroup
    <3> QED
      BY <2>5, <3>1, <3>2 DEF RemoveGroup
  <2>6. CASE CreateGroup
    BY <1>3, <2>6 DEF CreateGroup, historyVars
  <2> QED
    BY <2>1, <2>2, <2>3, <2>4, <2>5, <2>6 DEF Kernel
<1> QED
  BY <1>1, <1>4 DEF readVars, stateVars

(* A step of a collection keeps the types.                                   *)
LEMMA CollectTypeOK == TypeInv /\ Collect => TypeInv'
<1> SUFFICES ASSUME TypeInv, Collect PROVE TypeInv'
  OBVIOUS
<1> USE CpuAssumption DEF TypeInv, TypeOK
<1>0. /\ UNCHANGED <<kernelVars, ownUsage>>
      /\ NoUsage \in Usage /\ NoUsage \in [Kinds -> Nat]
      /\ NoUsage \in [Kinds -> 0..MaxLost]
      /\ NoRootUsage \in RootUsages
  <2>1. UNCHANGED <<kernelVars, ownUsage>>
    BY DEF Collect, Start, ListChildren, ReadGroup, ReadChild, MissChild,
           FailToRead, MakeState, UpdateState, Skip, Post, Abort, historyVars
  <2> QED
    BY <2>1 DEF RootUsages, NoRootUsage, NoUsage, Usage
<1>1. CASE Start
  BY <1>0, <1>1 DEF Start, kernelVars
<1>2. CASE ListChildren
  <2>1. todo = {}
    BY <1>2 DEF ListChildren
  <2>2. todo \in SUBSET children' /\ children' \in SUBSET Children
    BY <1>2, <2>1 DEF ListChildren
  <2> QED
    BY <1>0, <1>2, <2>1, <2>2 DEF ListChildren, kernelVars, stateVars, historyVars
<1>3. CASE ReadGroup
  <2>1. CASE present
    <3>1. UnlistedUsage \in Usage
      <4>1. alive \ children \in SUBSET Children
        OBVIOUS
      <4> QED
        BY <4>1, UsageOfTypes DEF UnlistedUsage
    <3>2. unseen' \in Usage
      BY <1>3, <2>1, <3>1, RootUsageTypes DEF ReadGroup, Miss
    <3>3. snapshot' \in RootUsages
      BY <1>0, <1>3, <2>1, RootUsageTypes DEF ReadGroup
    <3> QED
      BY <1>0, <1>3, <2>1, <3>2, <3>3 DEF ReadGroup, kernelVars, stateVars
  <2>2. CASE ~present
    BY <1>0, <1>3, <2>2 DEF ReadGroup, Return, kernelVars, stateVars
  <2> QED
    BY <2>1, <2>2
<1>4. ASSUME NEW c \in Children, ReadChild(c) PROVE TypeInv'
  <2>1. AddUsage(snapshot.children, childTotal[c]) \in Usage
    BY RootUsageTypes DEF RootUsages
  <2>2. snapshot' \in RootUsages
    BY <1>4, <2>1 DEF ReadChild, RootUsages
  <2> QED
    BY <1>0, <1>4, <2>2 DEF ReadChild, kernelVars, stateVars, historyVars
<1>5. ASSUME NEW c \in Children, MissChild(c) PROVE TypeInv'
  BY <1>0, <1>5 DEF MissChild, Return, kernelVars, stateVars, historyVars
<1>6. CASE FailToRead
  BY <1>0, <1>6 DEF FailToRead, Return, kernelVars, stateVars, historyVars
<1>7. CASE MakeState
  BY <1>0, <1>7 DEF MakeState, Return, kernelVars
<1>8. CASE UpdateState
  <2>1. CASE CalculationFails(snapshot, lastUsage)
    BY <1>0, <1>8, <2>1 DEF UpdateState, Return, kernelVars, stateVars
  <2>2. CASE ~CalculationFails(snapshot, lastUsage)
    <3> DEFINE net == CalculateRootGroupUsage(netUsage, snapshot, lastUsage)
    <3>1. netUsage \in Usage /\ \A k \in Kinds : netUsage[k] \in Nat
      BY DEF Usage
    <3>2. /\ net \in Usage
          /\ \A k \in Kinds : net[k] - netUsage[k] >= 0
      BY <2>2, <3>1, CalculationBounds
    <3>3. net \in [Kinds -> Nat]
      <4> HIDE DEF net
      <4>1. \A k \in Kinds : net[k] \in Int /\ net[k] - netUsage[k] >= 0
        BY <3>2 DEF Usage
      <4>2. ASSUME NEW k \in Kinds PROVE net[k] \in Nat
        <5>1. net[k] \in Int /\ netUsage[k] \in Nat /\ net[k] - netUsage[k] >= 0
          BY <3>1, <4>1
        <5> QED
          BY <5>1
      <4> QED
        BY <3>2, <4>2 DEF Usage
    <3> QED
      BY <1>0, <1>8, <2>2, <3>3 DEF UpdateState, Return, kernelVars
  <2> QED
    BY <2>1, <2>2
<1>9. CASE Skip \/ Abort
  BY <1>0, <1>9 DEF Skip, Abort, kernelVars, stateVars, historyVars
<1>10. CASE Post
  BY <1>0, <1>10 DEF Post, kernelVars, historyVars
<1> QED
  BY <1>1, <1>2, <1>3, <1>4, <1>5, <1>6, <1>7, <1>8, <1>9, <1>10 DEF Collect

(* The counters, the snapshot and the state are always of their types; the   *)
(* exported usage is never negative (cpu/collector.go:25-37).                *)
THEOREM TypeCorrect == Spec => []TypeOK
<1>1. TypeInv /\ UNCHANGED vars => TypeInv'
  BY DEF TypeInv, TypeOK, vars, kernelVars, readVars, stateVars, historyVars
<1> QED
  BY <1>1, InitTypeOK, KernelTypeOK, CollectTypeOK, PTL DEF Spec, Next, TypeInv
-----------------------------------------------------------------------------
(* The margin of NetTracksOwnUsage.  What the counters say of the group's    *)
(* own usage, over what it really is, changes only by what unseen counts,    *)
(* and falls by what lost counts:                                            *)
(* for the kernel's counters (Held), for the snapshot being read, with what  *)
(* it would get from the children it has not read (Seeing), and for the last *)
(* one (Seen).  The exported usage deviates (Drift) by no more than these    *)
(* have varied, clipped growth included.                                     *)

Held(k) == (IF present THEN total[k] ELSE 0) - ownUsage[k]
              - UsageOf(childTotal, alive)[k]

Seeing(k) == snapshot.root[k] - snapshot.children[k] - ownAtRead[k]
                - UsageOf(childTotal, todo \cap alive)[k]

Seen(k) == lastUsage.root[k] - lastUsage.children[k] - ownLast[k]

Drift(k) == netUsage[k] - (ownLast[k] - ownFirst[k])

Within(x, margin, loss) == x <= margin /\ 0 - x <= margin + loss

Reading == pc = "children"

CountersOK == /\ ~present => alive = {}
              /\ \A k \in Kinds : /\ unseen[k] >= 0 /\ lost[k] >= 0
                                  /\ total[k] >= 0
                                  /\ \A c \in Children : childTotal[c][k] >= 0

StateMargin(k) == /\ ownLast[k] <= ownUsage[k]
                  /\ Within(Drift(k), unseen[k], lost[k])
                  /\ Within(Drift(k) + Held(k) - Seen(k), unseen[k], lost[k])

ReadMargin(k) == /\ ownAtRead[k] <= ownUsage[k]
                 /\ Within(Held(k) - Seeing(k), unseen[k], lost[k])

BothMargin(k) == /\ ownLast[k] <= ownAtRead[k]
                 /\ Within(Drift(k) + Seeing(k) - Seen(k), unseen[k], lost[k])
                 /\ Within(Drift(k) + Held(k) - Seeing(k), unseen[k], lost[k])

MarginInv == /\ CountersOK
             /\ \A k \in Kinds : /\ hasState => StateMargin(k)
                                 /\ Reading => ReadMargin(k)
                                 /\ hasState /\ Reading => BothMargin(k)

\* The numbers the margin is made of.
Numbers ==
    \A k \in Kinds :
        /\ total[k] \in Int /\ ownUsage[k] \in Int /\ unseen[k] \in Int
        /\ lost[k] \in Int
        /\ ownAtRead[k] \in Int /\ ownLast[k] \in Int /\ ownFirst[k] \in Int
        /\ snapshot.root[k] \in Int /\ snapshot.children[k] \in Int
        /\ lastUsage.root[k] \in Int /\ lastUsage.children[k] \in Int
        /\ netUsage[k] \in Int
        /\ \A c \in Children : childTotal[c][k] \in Int
        /\ \A s \in SUBSET Children : UsageOf(childTotal, s)[k] \in Int
        /\ Held(k) \in Int /\ Seeing(k) \in Int /\ Seen(k) \in Int
        /\ Drift(k) \in Int

(* In a state with the types, what the margins are about are numbers.        *)
LEMMA TypeNumbers == TypeOK => Numbers
<1> SUFFICES ASSUME TypeOK, NEW k \in Kinds PROVE Numbers!(k)
  BY DEF Numbers
<1>1. /\ total[k] \in Int /\ ownUsage[k] \in Int /\ unseen[k] \in Int
      /\ lost[k] \in Int
      /\ ownAtRead[k] \in Int /\ ownLast[k] \in Int /\ ownFirst[k] \in Int
      /\ snapshot.root[k] \in Int /\ snapshot.children[k] \in Int
      /\ lastUsage.root[k] \in Int /\ lastUsage.children[k] \in Int
      /\ netUsage[k] \in Int
      /\ \A c \in Children : childTotal[c][k] \in Int
  BY DEF TypeOK, Usage, RootUsages
<1>2. \A s \in SUBSET Children : UsageOf(childTotal, s)[k] \in Int
  BY UsageOfTypes DEF TypeOK, Usage
<1>3. alive \in SUBSET Children /\ todo \cap alive \in SUBSET Children
  BY DEF TypeOK
<1>4. /\ UsageOf(childTotal, alive)[k] \in Int
      /\ UsageOf(childTotal, todo \cap alive)[k] \in Int
  BY <1>2, <1>3
<1> QED
  BY <1>1, <1>2, <1>4 DEF Held, Seeing, Seen, Drift

(* They are numbers before and after a step.                                 *)
LEMMA NumbersNext == TypeInv /\ [Next]_vars => Numbers /\ Numbers'
<1>1. TypeOK' => Numbers'
  BY TypeNumbers, PTL
<1>2. TypeInv /\ UNCHANGED vars => TypeInv'
  BY DEF TypeInv, TypeOK, vars, kernelVars, readVars, stateVars, historyVars
<1> QED
  BY <1>1, <1>2, TypeNumbers, KernelTypeOK, CollectTypeOK DEF Next, TypeInv

(* The initial state satisfies the margins.                                  *)
LEMMA InitMargin == Init => MarginInv
BY DEF Init, MarginInv, CountersOK, Reading, NoUsage

(* A kernel step moves what the counters hold and what the snapshot would    *)
(* get by no more than it adds to unseen, and to lost when they fall, and    *)
(* together by no more than that.                                            *)
Shifts(k) == LET miss == unseen'[k] - unseen[k]
                 loss == lost'[k] - lost[k]
                 held == Held(k)' - Held(k)
                 seeing == Seeing(k)' - Seeing(k)
             IN  /\ miss >= 0 /\ loss >= 0
                 /\ Within(held, miss, loss) /\ Within(seeing, miss, loss)
                 /\ Within(held - seeing, miss, loss)

(* It is enough to name the differences.                                     *)
LEMMA ShiftsBy ==
    ASSUME Numbers, NEW k \in Kinds,
           NEW h \in Int, NEW s \in Int, NEW u \in Int, NEW l \in Int,
           Held(k)' = Held(k) + h, Seeing(k)' = Seeing(k) + s,
           unseen'[k] = unseen[k] + u, lost'[k] = lost[k] + l,
           u >= 0, l >= 0,
           Within(h, u, l), Within(s, u, l), Within(h - s, u, l)
    PROVE  Shifts(k)
<1>1. /\ Held(k) \in Int /\ Seeing(k) \in Int /\ unseen[k] \in Int
      /\ lost[k] \in Int
  BY DEF Numbers
<1>2. /\ Held(k)' - Held(k) = h /\ Seeing(k)' - Seeing(k) = s
      /\ unseen'[k] - unseen[k] = u /\ lost'[k] - lost[k] = l
  BY <1>1
<1> QED
  BY <1>2 DEF Shifts

(* What the group's counter does not take is lost.                           *)
LEMMA ChargeFacts ==
    ASSUME TypeInv, NEW j \in Kinds, Charge(j), NEW k \in Kinds
    PROVE  \E loss \in 0..1 : /\ lost'[k] = lost[k] + loss
                             /\ total'[k] = total[k] + Tick(j)[k] - loss
                             /\ loss <= Tick(j)[k]
<1>1. /\ total[k] \in Int /\ lost[k] \in Int /\ Tick(j)[k] \in 0..1
  BY DEF TypeInv, TypeOK, Usage, Tick
<1>2. CASE total' = AddUsage(total, Tick(j)) /\ lost' = lost
  <2>1. lost'[k] = lost[k] + 0 /\ total'[k] = total[k] + Tick(j)[k] - 0
    BY <1>1, <1>2 DEF AddUsage
  <2> QED
    BY <1>1, <2>1
<1>3. CASE lost' = AddUsage(lost, Tick(j)) /\ total' = total
  <2>1. /\ lost'[k] = lost[k] + Tick(j)[k]
        /\ total'[k] = total[k] + Tick(j)[k] - Tick(j)[k]
    BY <1>1, <1>3 DEF AddUsage
  <2> QED
    BY <1>1, <2>1
<1> QED
  BY <1>2, <1>3 DEF Charge

(* Time the group spends itself is in the group's own usage and in the       *)
(* counter, or is lost.                                                      *)
LEMMA UseOwnShifts ==
    ASSUME TypeInv, Numbers, Numbers', NEW j \in Kinds, UseOwn(j), NEW k \in Kinds
    PROVE  Shifts(k)
<1>1. PICK loss \in 0..1 : /\ lost'[k] = lost[k] + loss
                           /\ total'[k] = total[k] + Tick(j)[k] - loss
  BY ChargeFacts DEF UseOwn
<1>2. /\ ownUsage'[k] = ownUsage[k] + Tick(j)[k]
      /\ Tick(j)[k] \in Int
  BY DEF UseOwn, AddUsage, Tick
<1>3. /\ UNCHANGED <<present, alive, childTotal, todo, snapshot, ownAtRead, unseen>>
      /\ present
  BY DEF UseOwn, readVars
<1>4. UNCHANGED Seeing(k)
  BY <1>3 DEF Seeing
<1>5. /\ Held(k) = total[k] - ownUsage[k] - UsageOf(childTotal, alive)[k]
      /\ Held(k)' = total'[k] - ownUsage'[k] - UsageOf(childTotal, alive)[k]
      /\ UsageOf(childTotal, alive)[k] \in Int
  BY <1>3 DEF Held, Numbers, TypeInv, TypeOK
<1>6. Held(k)' = Held(k) - loss
  BY <1>1, <1>2, <1>5 DEF Numbers
<1>7. /\ Held(k)' = Held(k) + (0 - loss) /\ Seeing(k)' = Seeing(k) + 0
      /\ unseen'[k] = unseen[k] + 0
  BY <1>3, <1>4, <1>6 DEF Numbers
<1>8. /\ Within(0 - loss, 0, loss) /\ Within(0, 0, loss)
      /\ Within((0 - loss) - 0, 0, loss)
  BY DEF Within
<1>9. 0 - loss \in Int /\ loss \in Int /\ loss >= 0 /\ 0 \in Int /\ 0 >= 0
  OBVIOUS
<1> QED
  BY <1>1, <1>7, <1>8, <1>9, ShiftsBy

(* Time a child spends is in both counters, or is unseen, or lost.           *)
LEMMA UseChildShifts ==
    ASSUME TypeInv, Numbers, Numbers', NEW c \in Children, NEW j \in Kinds,
           UseChild(c, j), NEW k \in Kinds
    PROVE  Shifts(k)
<1> DEFINE tick == Tick(j)[k]
<1>0. PICK loss \in 0..1 : /\ lost'[k] = lost[k] + loss
                           /\ total'[k] = total[k] + tick - loss
                           /\ loss <= tick
  BY ChargeFacts DEF UseChild
<1>1. tick \in Nat /\ childTotal'[c][k] = childTotal[c][k] + tick
  BY DEF UseChild, AddUsage, Tick, TypeInv, TypeOK
<1>2. /\ UNCHANGED <<present, alive, todo, snapshot, ownAtRead, ownUsage>>
      /\ present /\ c \in alive
      /\ \A d \in Children \ {c} : childTotal'[d] = childTotal[d]
      /\ childTotal \in [Children -> Usage] /\ alive \in SUBSET Children
      /\ todo \in SUBSET Children
  BY DEF UseChild, readVars, TypeInv, TypeOK
<1>3. childTotal' \in [Children -> Usage]
  BY UsageTypes DEF UseChild, TypeInv, TypeOK
<1>4. ASSUME NEW s \in SUBSET Children, c \in s
      PROVE  UsageOf(childTotal', s)[k] = UsageOf(childTotal, s)[k] + tick
  <2>1. /\ UsageOf(childTotal', s)[k]
              = childTotal'[c][k] + UsageOf(childTotal', s \ {c})[k]
        /\ UsageOf(childTotal, s)[k]
              = childTotal[c][k] + UsageOf(childTotal, s \ {c})[k]
    BY <1>2, <1>3, <1>4, UsageOfFacts
  <2>2. s \ {c} \in SUBSET Children
    OBVIOUS
  <2>3. UsageOf(childTotal', s \ {c})[k] = UsageOf(childTotal, s \ {c})[k]
    BY <1>2, <1>3, <2>2, UsageOfFacts
  <2>4. UsageOf(childTotal, s \ {c})[k] \in Int /\ childTotal[c][k] \in Int
    BY <2>2 DEF Numbers
  <2> HIDE DEF tick
  <2> QED
    BY <1>1, <2>1, <2>3, <2>4
<1>5. Held(k)' = Held(k) - loss
  <2>1. UsageOf(childTotal', alive)[k] = UsageOf(childTotal, alive)[k] + tick
    BY <1>2, <1>4
  <2>2. UsageOf(childTotal, alive)[k] \in Int
    BY <1>2 DEF Numbers
  <2> HIDE DEF tick
  <2>3. PICK x \in Int : /\ UsageOf(childTotal, alive)[k] = x
                        /\ UsageOf(childTotal', alive)[k] = x + tick
    BY <2>1, <2>2
  <2>4. /\ Held(k) = total[k] - ownUsage[k] - x
        /\ Held(k)' = total'[k] - ownUsage[k] - (x + tick)
    BY <1>2, <2>3 DEF Held
  <2>5. total[k] \in Int /\ ownUsage[k] \in Int
    BY DEF Numbers
  <2> QED
    BY <1>0, <1>1, <2>3, <2>4, <2>5
<1>6. CASE pc = "children" /\ c \in todo
  <2>1. unseen'[k] = unseen[k] + tick
    BY <1>6 DEF UseChild, Miss, AddUsage
  <2>2. UsageOf(childTotal', todo \cap alive)[k]
            = UsageOf(childTotal, todo \cap alive)[k] + tick
    BY <1>2, <1>4, <1>6
  <2>3. UsageOf(childTotal, todo \cap alive)[k] \in Int
    BY <1>2 DEF Numbers
  <2> HIDE DEF tick
  <2>4. Seeing(k)' = Seeing(k) - tick
    BY <1>1, <1>2, <2>2, <2>3 DEF Seeing, Numbers
  <2> QED
    <3>1. Held(k)' = Held(k) + (0 - loss) /\ Seeing(k)' = Seeing(k) + (0 - tick)
      BY <1>1, <1>5, <2>4 DEF Numbers
    <3>2. /\ Within(0 - loss, tick, loss) /\ Within(0 - tick, tick, loss)
          /\ Within((0 - loss) - (0 - tick), tick, loss)
      BY <1>0, <1>1 DEF Within
    <3>3. /\ 0 - loss \in Int /\ 0 - tick \in Int /\ tick \in Int /\ loss \in Int
          /\ tick >= 0 /\ loss >= 0
      BY <1>1
    <3> QED
      BY <1>0, <2>1, <3>1, <3>2, <3>3, ShiftsBy
<1>7. CASE ~(pc = "children" /\ c \in todo)
  <2>1. unseen' = unseen
    BY <1>7 DEF UseChild
  <2>2. c \notin todo
    BY <1>7 DEF TypeInv
  <2>3. \A d \in todo \cap alive : childTotal'[d] = childTotal[d]
    BY <1>2, <2>2
  <2>4. UsageOf(childTotal', todo \cap alive)[k] = UsageOf(childTotal, todo \cap alive)[k]
    BY <1>2, <1>3, <2>3, UsageOfFacts
  <2>5. Seeing(k)' = Seeing(k)
    BY <1>2, <2>4 DEF Seeing
  <2> QED
    <3>1. /\ Held(k)' = Held(k) + (0 - loss) /\ Seeing(k)' = Seeing(k) + 0
          /\ unseen'[k] = unseen[k] + 0
      BY <1>5, <2>1, <2>5 DEF Numbers
    <3>2. /\ Within(0 - loss, 0, loss) /\ Within(0, 0, loss)
          /\ Within((0 - loss) - 0, 0, loss)
      BY DEF Within
    <3>3. 0 - loss \in Int /\ loss \in Int /\ loss >= 0 /\ 0 \in Int /\ 0 >= 0
      OBVIOUS
    <3> QED
      BY <1>0, <3>1, <3>2, <3>3, ShiftsBy
<1> QED
  BY <1>6, <1>7

(* A child is created with counters at zero.                                 *)
LEMMA CreateChildShifts ==
    ASSUME TypeInv, Numbers, Numbers', NEW c \in Children, CreateChild(c),
           NEW k \in Kinds
    PROVE  Shifts(k)
<1>1. /\ UNCHANGED <<present, total, todo, snapshot, ownAtRead, ownUsage,
                     unseen, lost>>
      /\ present /\ c \notin alive /\ alive' = alive \cup {c}
      /\ \A d \in Children \ {c} : childTotal'[d] = childTotal[d]
      /\ childTotal'[c][k] = 0
      /\ childTotal \in [Children -> Usage] /\ alive \in SUBSET Children
      /\ todo \in SUBSET Children
  BY DEF CreateChild, readVars, historyVars, TypeInv, TypeOK, NoUsage
<1>2. childTotal' \in [Children -> Usage]
  BY DEF CreateChild, TypeInv, TypeOK, NoUsage, Usage
<1>3. ASSUME NEW s \in SUBSET Children
      PROVE  UsageOf(childTotal', s)[k] = UsageOf(childTotal, s \ {c})[k]
  <2>1. s \ {c} \in SUBSET Children
    OBVIOUS
  <2>2. UsageOf(childTotal', s \ {c})[k] = UsageOf(childTotal, s \ {c})[k]
    BY <1>1, <1>2, <2>1, UsageOfFacts
  <2>3. UsageOf(childTotal, s \ {c})[k] \in Int
    BY <2>1 DEF Numbers
  <2>4. CASE c \in s
    <3>1. UsageOf(childTotal', s)[k]
              = childTotal'[c][k] + UsageOf(childTotal', s \ {c})[k]
      BY <1>2, <2>4, UsageOfFacts
    <3> QED
      BY <1>1, <2>2, <2>3, <3>1
  <2>5. CASE c \notin s
    <3>1. s \ {c} = s
      BY <2>5
    <3> QED
      BY <2>2, <3>1
  <2> QED
    BY <2>4, <2>5
<1>4. Held(k)' = Held(k)
  <2>1. alive' \in SUBSET Children /\ alive' \ {c} = alive
    BY <1>1
  <2>2. UsageOf(childTotal', alive')[k] = UsageOf(childTotal, alive)[k]
    BY <1>3, <2>1
  <2> QED
    BY <1>1, <2>2 DEF Held
<1>5. Seeing(k)' = Seeing(k)
  <2>1. /\ todo \cap alive' \in SUBSET Children
        /\ (todo \cap alive') \ {c} = todo \cap alive
    BY <1>1
  <2>2. UsageOf(childTotal', todo \cap alive')[k]
            = UsageOf(childTotal, todo \cap alive)[k]
    BY <1>3, <2>1
  <2> QED
    BY <1>1, <2>2 DEF Seeing
<1> QED
  BY <1>1, <1>4, <1>5 DEF Shifts, Within, Numbers

(* What a removed child had used is unseen from now on.                      *)
LEMMA RemoveChildShifts ==
    ASSUME TypeInv, CountersOK, Numbers, Numbers', NEW c \in Children,
           RemoveChild(c), NEW k \in Kinds
    PROVE  Shifts(k)
<1>1. /\ UNCHANGED <<present, total, childTotal, todo, snapshot, ownAtRead,
                     ownUsage, lost>>
      /\ c \in alive /\ alive' = alive \ {c} /\ present
      /\ unseen'[k] = unseen[k] + childTotal[c][k]
      /\ childTotal \in [Children -> Usage] /\ alive \in SUBSET Children
      /\ todo \in SUBSET Children
      /\ childTotal[c][k] >= 0 /\ childTotal[c][k] \in Int
  BY DEF RemoveChild, readVars, TypeInv, TypeOK, Miss, AddUsage, CountersOK,
         Numbers
<1>2. UsageOf(childTotal, alive)[k]
          = childTotal[c][k] + UsageOf(childTotal, alive')[k]
  BY <1>1, UsageOfFacts
<1>3. UsageOf(childTotal, alive)[k] \in Int /\ UsageOf(childTotal, alive')[k] \in Int
  BY <1>1 DEF Numbers
<1>4. Held(k)' = Held(k) + childTotal[c][k]
  BY <1>1, <1>2, <1>3 DEF Held, Numbers
<1>5. CASE c \in todo
  <2>1. todo \cap alive' = (todo \cap alive) \ {c} /\ c \in todo \cap alive
    BY <1>1, <1>5
  <2>2. /\ todo \cap alive \in SUBSET Children
        /\ todo \cap alive' \in SUBSET Children
    BY <1>1
  <2>3. UsageOf(childTotal, todo \cap alive)[k]
            = childTotal[c][k] + UsageOf(childTotal, todo \cap alive')[k]
    BY <1>1, <2>1, <2>2, UsageOfFacts
  <2>4. /\ UsageOf(childTotal, todo \cap alive)[k] \in Int
        /\ UsageOf(childTotal, todo \cap alive')[k] \in Int
    BY <2>2 DEF Numbers
  <2>5. Seeing(k)' = Seeing(k) + childTotal[c][k]
    <3>1. PICK x \in Int, y \in Int :
              /\ x = UsageOf(childTotal, todo \cap alive)[k]
              /\ y = UsageOf(childTotal, todo \cap alive')[k]
      BY <2>4
    <3>2. /\ Seeing(k) = snapshot.root[k] - snapshot.children[k] - ownAtRead[k] - x
          /\ Seeing(k)' = snapshot.root[k] - snapshot.children[k] - ownAtRead[k] - y
      BY <1>1, <3>1 DEF Seeing
    <3>3. x = childTotal[c][k] + y
      BY <2>3, <3>1
    <3>4. /\ snapshot.root[k] \in Int /\ snapshot.children[k] \in Int
          /\ ownAtRead[k] \in Int
      BY DEF Numbers
    <3> QED
      BY <1>1, <3>2, <3>3, <3>4
  <2>6. /\ Held(k) \in Int /\ Seeing(k) \in Int /\ unseen[k] \in Int
        /\ lost[k] \in Int
    BY DEF Numbers
  <2>7. /\ Held(k)' - Held(k) = childTotal[c][k]
        /\ Seeing(k)' - Seeing(k) = childTotal[c][k]
        /\ unseen'[k] - unseen[k] = childTotal[c][k]
        /\ lost'[k] - lost[k] = 0
    BY <1>1, <1>4, <2>5, <2>6
  <2> QED
    BY <1>1, <2>7 DEF Shifts, Within
<1>6. CASE c \notin todo
  <2>1. todo \cap alive' = todo \cap alive
    BY <1>1, <1>6
  <2>2. Seeing(k)' = Seeing(k)
    BY <1>1, <2>1 DEF Seeing
  <2> QED
    BY <1>1, <1>4, <2>2 DEF Shifts, Within, Numbers
<1> QED
  BY <1>5, <1>6

(* The group itself is removed or created with its counters at zero.         *)
LEMMA GroupShifts ==
    ASSUME TypeInv, CountersOK, Numbers, Numbers', RemoveGroup \/ CreateGroup,
           NEW k \in Kinds
    PROVE  Shifts(k)
<1>1. /\ UNCHANGED <<alive, childTotal, todo, snapshot, ownAtRead, ownUsage,
                     lost>>
      /\ alive = {}
  BY DEF RemoveGroup, CreateGroup, readVars, historyVars, CountersOK
<1>2. Seeing(k)' = Seeing(k)
  BY <1>1 DEF Seeing
<1>3. UsageOf(childTotal, alive)[k] = 0
  BY <1>1, UsageOfFacts DEF TypeInv, TypeOK
<1>4. CASE RemoveGroup
  <2>1. /\ present /\ ~present' /\ unseen'[k] = unseen[k] + total[k]
        /\ total[k] >= 0
    BY <1>4 DEF RemoveGroup, Miss, AddUsage, CountersOK
  <2>2. Held(k)' = Held(k) - total[k]
    BY <1>1, <1>3, <2>1 DEF Held, Numbers
  <2> QED
    BY <1>1, <1>2, <2>1, <2>2 DEF Shifts, Within, Numbers
<1>5. CASE CreateGroup
  <2>1. ~present /\ present' /\ total'[k] = 0 /\ unseen' = unseen
    BY <1>5 DEF CreateGroup, NoUsage, historyVars
  <2>2. Held(k)' = Held(k)
    BY <1>1, <1>3, <2>1 DEF Held, Numbers
  <2> QED
    BY <1>1, <1>2, <2>1, <2>2 DEF Shifts, Within, Numbers
<1> QED
  BY <1>4, <1>5

(* What happens in the kernel keeps the margins.                             *)
LEMMA KernelMargin ==
    ASSUME TypeInv, MarginInv, Numbers, Numbers', Kernel
    PROVE  MarginInv'
<1> USE DEF MarginInv
<1>1. \A k \in Kinds : Shifts(k)
  BY UseOwnShifts, UseChildShifts, CreateChildShifts, RemoveChildShifts,
     GroupShifts DEF Kernel
<1>2. /\ UNCHANGED <<pc, hasState, ownLast, ownAtRead, ownFirst, netUsage, lastUsage>>
      /\ \A k \in Kinds : ownUsage'[k] >= ownUsage[k]
  <2>1. ASSUME NEW j \in Kinds, UseOwn(j)
        PROVE  \A k \in Kinds : ownUsage'[k] >= ownUsage[k]
    BY <2>1 DEF UseOwn, AddUsage, Tick, Numbers
  <2>2. ownUsage' = ownUsage \/ \E j \in Kinds : UseOwn(j)
    BY DEF Kernel, UseChild, CreateChild, RemoveChild, RemoveGroup, CreateGroup,
           historyVars
  <2>3. \A k \in Kinds : ownUsage'[k] >= ownUsage[k]
    BY <2>1, <2>2 DEF Numbers
  <2>4. UNCHANGED <<pc, hasState, ownLast, ownAtRead, ownFirst, netUsage, lastUsage>>
    BY DEF Kernel, UseOwn, UseChild, CreateChild, RemoveChild, RemoveGroup,
           CreateGroup, readVars, stateVars, historyVars
  <2> QED
    BY <2>3, <2>4
<1>3. \A k \in Kinds : UNCHANGED <<Seen(k), Drift(k)>>
  BY <1>2 DEF Seen, Drift
<1>4. CountersOK'
  <2> USE DEF CountersOK
  <2>1. \A k \in Kinds : unseen'[k] >= 0 /\ lost'[k] >= 0
    BY <1>1 DEF Shifts, Numbers
  <2>2. ~present' => alive' = {}
    BY DEF Kernel, UseOwn, UseChild, CreateChild, RemoveChild, RemoveGroup,
           CreateGroup
  <2>3. ASSUME NEW k \in Kinds
        PROVE  total'[k] >= 0 /\ \A c \in Children : childTotal'[c][k] >= 0
    <3>1. ASSUME NEW j \in Kinds, UseOwn(j)
          PROVE  total'[k] >= 0 /\ \A d \in Children : childTotal'[d][k] >= 0
      BY <3>1 DEF UseOwn, Charge, AddUsage, Tick, Numbers
    <3>2. ASSUME NEW c \in Children, NEW j \in Kinds, UseChild(c, j)
          PROVE  total'[k] >= 0 /\ \A d \in Children : childTotal'[d][k] >= 0
      BY <3>2 DEF UseChild, Charge, AddUsage, Tick, Numbers, TypeInv, TypeOK
    <3>3. ASSUME NEW c \in Children, CreateChild(c)
          PROVE  total'[k] >= 0 /\ \A d \in Children : childTotal'[d][k] >= 0
      BY <3>3 DEF CreateChild, NoUsage, TypeInv, TypeOK
    <3>4. ASSUME NEW c \in Children, RemoveChild(c)
          PROVE  total'[k] >= 0 /\ \A d \in Children : childTotal'[d][k] >= 0
      BY <3>4 DEF RemoveChild
    <3>5. CASE RemoveGroup \/ CreateGroup
      BY <3>5 DEF RemoveGroup, CreateGroup, NoUsage
    <3> QED
      BY <3>1, <3>2, <3>3, <3>4, <3>5 DEF Kernel
  <2> QED
    BY <2>1, <2>2, <2>3
<1>5. ASSUME NEW k \in Kinds
      PROVE  /\ hasState' => StateMargin(k)'
             /\ Reading' => ReadMargin(k)'
             /\ hasState' /\ Reading' => BothMargin(k)'
  <2>1. PICK h, s, u, l \in Int :
            /\ Held(k)' = Held(k) + h /\ Seeing(k)' = Seeing(k) + s
            /\ unseen'[k] = unseen[k] + u /\ lost'[k] = lost[k] + l
            /\ Within(h, u, l) /\ Within(s, u, l) /\ Within(h - s, u, l)
            /\ u >= 0 /\ l >= 0
    <3> DEFINE h == Held(k)' - Held(k)
               s == Seeing(k)' - Seeing(k)
               u == unseen'[k] - unseen[k]
               l == lost'[k] - lost[k]
    <3>1. h \in Int /\ s \in Int /\ u \in Int /\ l \in Int
      BY DEF Numbers
    <3>2. /\ Held(k)' = Held(k) + h /\ Seeing(k)' = Seeing(k) + s
          /\ unseen'[k] = unseen[k] + u /\ lost'[k] = lost[k] + l
      BY DEF Numbers
    <3>3. /\ Within(h, u, l) /\ Within(s, u, l) /\ Within(h - s, u, l)
          /\ u >= 0 /\ l >= 0
      BY <1>1 DEF Shifts
    <3> HIDE DEF h, s, u, l
    <3> QED
      BY <3>1, <3>2, <3>3
  <2>2. /\ Drift(k)' = Drift(k) /\ Seen(k)' = Seen(k)
        /\ Held(k) \in Int /\ Seeing(k) \in Int /\ Seen(k) \in Int
        /\ Drift(k) \in Int /\ unseen[k] \in Int /\ lost[k] \in Int
        /\ ownUsage[k] \in Int /\ ownUsage'[k] \in Int /\ ownLast[k] \in Int
        /\ ownAtRead[k] \in Int /\ ownUsage'[k] >= ownUsage[k]
    BY <1>2, <1>3 DEF Numbers
  <2>3. hasState => StateMargin(k)'
    BY <1>2, <2>1, <2>2 DEF StateMargin, Within
  <2>4. Reading => ReadMargin(k)'
    BY <1>2, <2>1, <2>2 DEF ReadMargin, Within
  <2>5. hasState /\ Reading => BothMargin(k)'
    BY <1>2, <2>1, <2>2 DEF BothMargin, Within
  <2> QED
    BY <1>2, <2>3, <2>4, <2>5 DEF Reading
<1> QED
  BY <1>4, <1>5

(* A step that ends or gives up a snapshot and leaves the state as it was.   *)
LEMMA SettledMargin ==
    ASSUME MarginInv, hasState' => hasState, ~Reading',
           UNCHANGED <<kernelVars, ownUsage, unseen, lost, ownLast, ownFirst,
                       netUsage, lastUsage>>
    PROVE  MarginInv'
<1>1. \A k \in Kinds : UNCHANGED <<Held(k), Seen(k), Drift(k)>>
  BY DEF Held, Seen, Drift, kernelVars
<1>2. CountersOK'
  BY DEF MarginInv, CountersOK, kernelVars
<1>3. \A k \in Kinds : hasState' => StateMargin(k)'
  BY <1>1 DEF MarginInv, StateMargin
<1> QED
  BY <1>2, <1>3 DEF MarginInv

(* The start of a collection keeps the margins.                              *)
LEMMA StartMargin ==
    ASSUME TypeInv, MarginInv, Numbers, Start
    PROVE  MarginInv'
<1>1. CASE hasState
  BY <1>1, SettledMargin DEF Start, Reading
<1>2. CASE ~hasState
  <2>1. /\ ~hasState' /\ ~Reading' /\ UNCHANGED kernelVars
        /\ unseen' = NoUsage /\ lost' = NoUsage
    BY <1>2 DEF Start, Reading
  <2>2. CountersOK'
    BY <2>1 DEF MarginInv, CountersOK, kernelVars, NoUsage
  <2> QED
    BY <2>1, <2>2 DEF MarginInv
<1> QED
  BY <1>1, <1>2

(* Reading the group's counters keeps the margins.                           *)
LEMMA ReadGroupMargin ==
    ASSUME TypeInv, MarginInv, Numbers, Numbers', ReadGroup
    PROVE  MarginInv'
<1>1. CASE ~present
  <2>1. ~Reading'
    BY <1>1 DEF ReadGroup, Return, Reading
  <2> QED
    BY <1>1, <2>1, SettledMargin DEF ReadGroup, stateVars
<1>2. CASE present
  <2>1. /\ UNCHANGED <<kernelVars, ownUsage, ownLast, ownFirst, netUsage,
                       lastUsage, hasState, lost>>
        /\ unseen' = AddUsage(unseen, UnlistedUsage)
        /\ snapshot' = [root |-> total, children |-> NoUsage]
        /\ todo' = children /\ ownAtRead' = ownUsage
    BY <1>2 DEF ReadGroup, stateVars, Miss
  <2>2. \A k \in Kinds : UNCHANGED <<Held(k), Seen(k), Drift(k)>>
    BY <2>1 DEF Held, Seen, Drift, kernelVars
  <2>3. ASSUME NEW k \in Kinds
        PROVE  \E u \in Int : /\ u >= 0 /\ unseen'[k] = unseen[k] + u
                              /\ Seeing(k)' = Held(k) + u
    <3>1. /\ childTotal \in [Children -> Usage] /\ alive \in SUBSET Children
          /\ children \in SUBSET Children
      BY DEF TypeInv, TypeOK
    <3>2. PICK a, b : a = alive \cap children /\ b = alive \ children
      OBVIOUS
    <3>3. a \in SUBSET Children /\ b \in SUBSET Children
      BY <3>1, <3>2
    <3>4. UsageOf(childTotal, alive)[k]
              = UsageOf(childTotal, a)[k] + UsageOf(childTotal, b)[k]
      BY <3>1, <3>2, UsageOfFacts
    <3>5. UsageOf(childTotal, a)[k] \in Int /\ UsageOf(childTotal, b)[k] \in Int
      BY <3>3 DEF Numbers
    <3>6. UsageOf(childTotal, b)[k] >= 0
      BY <3>1, <3>3, UsageOfTypes DEF MarginInv, CountersOK
    <3>7. unseen'[k] = unseen[k] + UsageOf(childTotal, b)[k]
      BY <2>1, <3>2 DEF UnlistedUsage, AddUsage
    <3>8. Seeing(k)' = total[k] - 0 - ownUsage[k] - UsageOf(childTotal, a)[k]
      <4>1. (todo \cap alive)' = a /\ childTotal' = childTotal
        BY <2>1, <3>2 DEF kernelVars
      <4>2. snapshot'.root[k] = total[k] /\ snapshot'.children[k] = 0
        BY <2>1 DEF NoUsage
      <4> QED
        BY <2>1, <4>1, <4>2 DEF Seeing
    <3>9. Held(k) = total[k] - ownUsage[k]
                       - (UsageOf(childTotal, a)[k] + UsageOf(childTotal, b)[k])
      BY <1>2, <3>4 DEF Held
    <3>10. total[k] \in Int /\ ownUsage[k] \in Int
      BY DEF Numbers
    <3>11. Seeing(k)' = Held(k) + UsageOf(childTotal, b)[k]
      BY <3>5, <3>8, <3>9, <3>10
    <3> QED
      BY <3>5, <3>6, <3>7, <3>11
  <2>4. CountersOK'
    <3>1. ASSUME NEW k \in Kinds PROVE unseen'[k] >= 0
      <4>1. unseen[k] \in Int /\ unseen[k] >= 0
        BY DEF Numbers, MarginInv, CountersOK
      <4> QED
        BY <2>3, <4>1
    <3> QED
      BY <2>1, <3>1 DEF MarginInv, CountersOK, kernelVars
  <2>5. ASSUME NEW k \in Kinds
        PROVE  /\ hasState' => StateMargin(k)'
               /\ ReadMargin(k)'
               /\ hasState' => BothMargin(k)'
    <3>1. PICK u \in Int : /\ u >= 0 /\ unseen'[k] = unseen[k] + u
                           /\ Seeing(k)' = Held(k) + u
      BY <2>3
    <3>2. /\ Held(k) \in Int /\ Seen(k) \in Int /\ Drift(k) \in Int
          /\ unseen[k] \in Int /\ unseen[k] >= 0
          /\ lost[k] \in Int /\ lost[k] >= 0
          /\ ownUsage[k] \in Int /\ ownLast[k] \in Int
      BY DEF Numbers, MarginInv, CountersOK
    <3>3. /\ Held(k)' = Held(k) /\ Seen(k)' = Seen(k) /\ Drift(k)' = Drift(k)
          /\ ownUsage' = ownUsage /\ ownLast' = ownLast /\ ownAtRead' = ownUsage
          /\ hasState' = hasState /\ lost' = lost
      BY <2>1, <2>2
    <3>4. ReadMargin(k)'
      BY <3>1, <3>2, <3>3 DEF ReadMargin, Within
    <3>5. ASSUME hasState PROVE StateMargin(k)' /\ BothMargin(k)'
      <4>1. StateMargin(k)
        BY <3>5 DEF MarginInv
      <4> QED
        BY <3>1, <3>2, <3>3, <4>1 DEF StateMargin, BothMargin, Within
    <3> QED
      BY <3>3, <3>4, <3>5
  <2> QED
    BY <2>4, <2>5 DEF MarginInv
<1> QED
  BY <1>1, <1>2

(* Reading a child's counters keeps the margins.                             *)
LEMMA ReadChildMargin ==
    ASSUME TypeInv, MarginInv, Numbers, Numbers', NEW c \in Children, ReadChild(c)
    PROVE  MarginInv'
<1>1. /\ UNCHANGED <<kernelVars, pc, hasState, ownUsage, unseen, lost, ownAtRead,
                     ownLast, ownFirst, netUsage, lastUsage>>
      /\ c \in todo /\ c \in alive /\ todo' = todo \ {c}
      /\ snapshot'.root = snapshot.root
      /\ snapshot'.children = AddUsage(snapshot.children, childTotal[c])
  BY DEF ReadChild, stateVars, historyVars, TypeInv, TypeOK, RootUsages
<1>2. ASSUME NEW k \in Kinds PROVE Seeing(k)' = Seeing(k)
  <2>1. PICK s, t : s = todo \cap alive /\ t = todo' \cap alive
    OBVIOUS
  <2>2. /\ s \in SUBSET Children /\ t \in SUBSET Children /\ c \in s
        /\ t = s \ {c}
    BY <1>1, <2>1 DEF TypeInv, TypeOK
  <2>3. UsageOf(childTotal, s)[k] = childTotal[c][k] + UsageOf(childTotal, t)[k]
    BY <2>2, UsageOfFacts DEF TypeInv, TypeOK
  <2>4. /\ UsageOf(childTotal, s)[k] \in Int /\ UsageOf(childTotal, t)[k] \in Int
        /\ childTotal[c][k] \in Int /\ snapshot.root[k] \in Int
        /\ snapshot.children[k] \in Int /\ ownAtRead[k] \in Int
    BY <2>2 DEF Numbers
  <2>5. Seeing(k) = snapshot.root[k] - snapshot.children[k] - ownAtRead[k]
                       - UsageOf(childTotal, s)[k]
    BY <2>1 DEF Seeing
  <2>6. Seeing(k)' = snapshot.root[k] - (snapshot.children[k] + childTotal[c][k])
                        - ownAtRead[k] - UsageOf(childTotal, t)[k]
    <3>1. /\ (todo \cap alive)' = t /\ childTotal' = childTotal
          /\ snapshot'.children[k] = snapshot.children[k] + childTotal[c][k]
      BY <1>1, <2>1 DEF kernelVars, AddUsage
    <3> QED
      BY <1>1, <3>1 DEF Seeing
  <2> QED
    BY <2>3, <2>4, <2>5, <2>6
<1>3. \A k \in Kinds : UNCHANGED <<Held(k), Seen(k), Drift(k)>>
  BY <1>1 DEF Held, Seen, Drift, kernelVars
<1>4. CountersOK'
  BY <1>1 DEF MarginInv, CountersOK, kernelVars
<1>5. ASSUME NEW k \in Kinds
      PROVE  /\ StateMargin(k) => StateMargin(k)'
             /\ ReadMargin(k) => ReadMargin(k)'
             /\ BothMargin(k) => BothMargin(k)'
  BY <1>1, <1>2, <1>3 DEF StateMargin, ReadMargin, BothMargin
<1> QED
  BY <1>1, <1>4, <1>5 DEF MarginInv, Reading

\* Once everything is read, the snapshot is what it was going to be.
LEMMA AllRead ==
    ASSUME TypeInv, Numbers, todo = {}, NEW k \in Kinds
    PROVE  Seeing(k) = snapshot.root[k] - snapshot.children[k] - ownAtRead[k]
<1>1. todo \cap alive = {}
  OBVIOUS
<1>2. UsageOf(childTotal, {})[k] = 0
  BY UsageOfFacts DEF TypeInv, TypeOK
<1> QED
  BY <1>1, <1>2 DEF Seeing, Numbers

(* The first snapshot becomes the last usage, and nothing has been reported. *)
LEMMA MakeStateMargin ==
    ASSUME TypeInv, MarginInv, Numbers, Numbers', MakeState
    PROVE  MarginInv'
<1>1. /\ UNCHANGED <<kernelVars, ownUsage, ownAtRead, unseen, lost>>
      /\ netUsage' = NoUsage /\ lastUsage' = snapshot
      /\ ownFirst' = ownAtRead /\ ownLast' = ownAtRead
      /\ Reading /\ todo = {} /\ ~Reading'
  BY DEF MakeState, Return, Reading
<1>2. CountersOK'
  BY <1>1 DEF MarginInv, CountersOK, kernelVars
<1>3. ASSUME NEW k \in Kinds PROVE StateMargin(k)'
  <2>1. Drift(k)' = 0
    BY <1>1 DEF Drift, NoUsage, Numbers
  <2>2. Seen(k)' = Seeing(k)
    BY <1>1, AllRead DEF Seen
  <2>3. Held(k)' = Held(k)
    BY <1>1 DEF Held, kernelVars
  <2>4. ReadMargin(k) /\ unseen[k] >= 0 /\ lost[k] >= 0
    BY <1>1 DEF MarginInv, CountersOK
  <2>5. /\ Held(k) \in Int /\ Seeing(k) \in Int /\ unseen[k] \in Int
        /\ lost[k] \in Int
    BY DEF Numbers
  <2>6. /\ ownLast'[k] <= ownUsage'[k]
        /\ Within(0, unseen[k], lost[k])
        /\ Within(0 + Held(k) - Seeing(k), unseen[k], lost[k])
    BY <1>1, <2>4, <2>5 DEF ReadMargin, Within
  <2> QED
    BY <1>1, <2>1, <2>2, <2>3, <2>6 DEF StateMargin
<1> QED
  BY <1>1, <1>2, <1>3 DEF MarginInv

(* The clipped growth of the net usage deviates from the group's own usage   *)
(* by what the snapshots' errors differ in, or is between that and none.     *)
LEMMA UpdateStateMargin ==
    ASSUME TypeInv, MarginInv, Numbers, Numbers', UpdateState
    PROVE  MarginInv'
<1>0. ~Reading' /\ Reading /\ hasState /\ todo = {}
  BY DEF UpdateState, Return, Reading
<1>1. CASE CalculationFails(snapshot, lastUsage)
  <2>1. UNCHANGED <<kernelVars, stateVars, ownLast, ownUsage, ownFirst, unseen,
                    lost>>
    BY <1>1 DEF UpdateState
  <2> QED
    BY <1>0, <2>1, SettledMargin DEF stateVars
<1>2. CASE ~CalculationFails(snapshot, lastUsage)
  <2>1. /\ UNCHANGED <<kernelVars, ownUsage, ownFirst, unseen, lost, hasState>>
        /\ netUsage' = CalculateRootGroupUsage(netUsage, snapshot, lastUsage)
        /\ lastUsage' = snapshot /\ ownLast' = ownAtRead
    BY <1>2 DEF UpdateState
  <2>2. CountersOK'
    BY <2>1 DEF MarginInv, CountersOK, kernelVars
  <2>3. ASSUME NEW k \in Kinds PROVE StateMargin(k)'
    <3>1. PICK grown \in Int :
              /\ netUsage'[k] = netUsage[k] + grown
              /\ LET d == (snapshot.root[k] - lastUsage.root[k])
                            - (snapshot.children[k] - lastUsage.children[k])
                 IN  grown = IF d > 0 THEN d ELSE 0
      <4>1. netUsage'[k] = netUsage[k]
                + NetGrowth(snapshot.root[k] - lastUsage.root[k],
                            snapshot.children[k] - lastUsage.children[k])
        BY <2>1 DEF CalculateRootGroupUsage, RootDiff, ChildrenDiff, Diff
      <4>2. /\ snapshot.root[k] \in Int /\ lastUsage.root[k] \in Int
            /\ snapshot.children[k] \in Int /\ lastUsage.children[k] \in Int
        BY DEF Numbers
      <4> QED
        BY <4>1, <4>2 DEF NetGrowth
    <3>2. Seen(k)' = Seeing(k) /\ Held(k)' = Held(k)
      BY <1>0, <2>1, AllRead DEF Seen, Held, kernelVars
    <3>3. Drift(k)' = Drift(k) + grown - (ownAtRead[k] - ownLast[k])
      BY <2>1, <3>1 DEF Drift, Numbers
    <3>4. /\ snapshot.root[k] - lastUsage.root[k]
                - (snapshot.children[k] - lastUsage.children[k])
                = (Seeing(k) - Seen(k)) + (ownAtRead[k] - ownLast[k])
      BY <1>0, AllRead DEF Seen, Numbers
    <3>5. PICK own \in Int : own = ownAtRead[k] - ownLast[k]
      BY DEF Numbers
    <3>6. StateMargin(k) /\ ReadMargin(k) /\ BothMargin(k)
      BY <1>0 DEF MarginInv
    <3>7. own >= 0
      BY <3>5, <3>6 DEF BothMargin, Numbers
    <3>8. /\ Held(k) \in Int /\ Seeing(k) \in Int /\ Seen(k) \in Int
          /\ Drift(k) \in Int /\ unseen[k] \in Int /\ lost[k] \in Int
      BY DEF Numbers
    <3>9. \/ Drift(k)' = Drift(k) + (Seeing(k) - Seen(k))
          \/ /\ Drift(k)' = Drift(k) - own
             /\ Seeing(k) - Seen(k) <= 0 - own
      BY <3>1, <3>3, <3>4, <3>5, <3>8
    <3>10. Within(Drift(k)', unseen[k], lost[k])
      BY <3>6, <3>7, <3>8, <3>9 DEF StateMargin, BothMargin, Within
    <3>11. Within(Drift(k)' + Held(k) - Seeing(k), unseen[k], lost[k])
      BY <3>6, <3>7, <3>8, <3>9 DEF StateMargin, BothMargin, Within
    <3>12. ownLast'[k] <= ownUsage'[k]
      BY <2>1, <3>6 DEF ReadMargin
    <3> QED
      BY <2>1, <3>2, <3>10, <3>11, <3>12 DEF StateMargin
  <2> QED
    BY <1>0, <2>2, <2>3 DEF MarginInv
<1> QED
  BY <1>1, <1>2

(* The steps that give up, or only list the children, keep the margins.      *)
LEMMA OtherMargin ==
    ASSUME MarginInv, \/ ListChildren \/ FailToRead \/ Skip \/ Post \/ Abort
                      \/ \E c \in Children : MissChild(c)
    PROVE  MarginInv'
<1>1. /\ hasState' => hasState
      /\ UNCHANGED <<kernelVars, ownUsage, unseen, lost, ownLast, ownFirst,
                     netUsage, lastUsage>>
  <2>1. CASE Post
    BY <2>1 DEF Post, historyVars
  <2>2. CASE ~Post
    BY <2>2 DEF ListChildren, FailToRead, Skip, Abort, MissChild, stateVars,
                historyVars
  <2> QED
    BY <2>1, <2>2
<1>2. ~Reading'
  BY DEF ListChildren, FailToRead, Skip, Post, Abort, MissChild, Return, Reading
<1> QED
  BY <1>1, <1>2, SettledMargin

(* Every step keeps the margins.                                             *)
LEMMA NextMargin == TypeInv /\ MarginInv /\ [Next]_vars => MarginInv'
<1> SUFFICES ASSUME TypeInv, MarginInv, [Next]_vars PROVE MarginInv'
  OBVIOUS
<1>1. Numbers /\ Numbers'
  BY NumbersNext
<1>2. CASE UNCHANGED vars
  <2>1. CountersOK'
    BY <1>2 DEF MarginInv, CountersOK, vars, kernelVars, historyVars
  <2> QED
    BY <1>2, <2>1 DEF MarginInv, StateMargin, ReadMargin, BothMargin, Held,
       Seeing, Seen, Drift, Reading, vars, kernelVars, readVars, stateVars,
       historyVars
<1>3. CASE Kernel
  BY <1>1, <1>3, KernelMargin
<1>4. CASE Collect
  BY <1>1, <1>4, StartMargin, ReadGroupMargin, ReadChildMargin, MakeStateMargin,
     UpdateStateMargin, OtherMargin DEF Collect
<1> QED
  BY <1>2, <1>3, <1>4 DEF Next

(* The exported usage is the group's own between the first and the last      *)
(* snapshot, up to what no snapshot could attribute and what the counter of  *)
(* "/" misses, for any number of children, removals and failed collections   *)
(* (cpu/collector.go:109-141, usage.go:34-67).                               *)
THEOREM UsageIsTracked == Spec => []NetTracksOwnUsage
<1>1. TypeInv /\ [Next]_vars => TypeInv'
  BY KernelTypeOK, CollectTypeOK DEF Next, TypeInv, TypeOK, vars, kernelVars,
     readVars, stateVars, historyVars
<1>2. TypeInv /\ MarginInv => NetTracksOwnUsage
  <2> SUFFICES ASSUME TypeInv, MarginInv, hasState, NEW k \in Kinds
               PROVE  /\ netUsage[k] <= ownLast[k] - ownFirst[k] + unseen[k]
                      /\ netUsage[k] >= ownLast[k] - ownFirst[k] - unseen[k]
                                          - lost[k]
    BY DEF NetTracksOwnUsage
  <2>1. StateMargin(k) /\ Numbers
    BY TypeNumbers DEF MarginInv, TypeInv
  <2> QED
    BY <2>1 DEF StateMargin, Within, Drift, Numbers
<1> QED
  BY InitTypeOK, InitMargin, NextMargin, <1>1, <1>2, PTL DEF Spec
=============================================================================
