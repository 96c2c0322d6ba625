------------------------------ MODULE RootUsage ------------------------------
(* internal/cgroups/usage.go: the usage a "root" group adds over its         *)
(* children, accumulated from the differences between two collections.  A    *)
(* usage is a tuple of counters (user and system time; reads, writes and     *)
(* bytes), here a function on Kinds, and a rootUsage pairs the counters of   *)
(* the group with the sum of its children's.  Memory is not accumulated: its *)
(* collector subtracts the children from the group as it reads them          *)
(* (internal/cgroups/memory/collector.go).                                   *)
EXTENDS Integers

CONSTANT Kinds     \* the counters of a usage

Usage == [Kinds -> Int]

NoUsage == [k \in Kinds |-> 0]

RootUsages == [root : Usage, children : Usage]

AddUsage(total, other) == [k \in Kinds |-> total[k] + other[k]]

\* diffUsage: it fails when any counter has gone back.
Diff(current, previous) == [k \in Kinds |-> current[k] - previous[k]]

IsNegative(diff) == \E k \in Kinds : diff[k] < 0

RootDiff(current, previous) == Diff(current.root, previous.root)

ChildrenDiff(current, previous) == Diff(current.children, previous.children)

\* Mutant: the children may go back.
CalculationFailsForRoot(current, previous) ==
    IsNegative(RootDiff(current, previous))

\* CalculateRootGroupUsage returns an error and leaves the net usage alone.
CalculationFails(current, previous) ==
    \/ IsNegative(RootDiff(current, previous))
    \/ IsNegative(ChildrenDiff(current, previous))

\* Mutant: the difference is not clipped.
SignedNetGrowth(rootDiff, childrenDiff) == rootDiff - childrenDiff

\* The net usage grows by what the children's growth does not explain.
NetGrowth(rootDiff, childrenDiff) ==
    IF rootDiff > childrenDiff THEN rootDiff - childrenDiff ELSE 0

CalculateRootGroupUsage(netUsage, current, previous) ==
    [k \in Kinds |-> netUsage[k] + NetGrowth(RootDiff(current, previous)[k],
                                             ChildrenDiff(current, previous)[k])]

\* collectRoot of memory: one child is subtracted, and no value gets negative.
SubtractUsage(usage, childUsage) ==
    [k \in Kinds |-> IF usage[k] > childUsage[k] THEN usage[k] - childUsage[k] ELSE 0]
=============================================================================
