-------------------------- MODULE KernelProcsProofs --------------------------
(* For any number of processes and of collections that overlap: the sum of   *)
(* the kworkers is a counter, the samples have different names, no time is   *)
(* counted twice, and while collections do not overlap, no PID is reused and *)
(* every file is parsed the sum is what the kworkers have used between the   *)
(* first read of each and the last.                                          *)
EXTENDS KernelProcs, SumTheorems

IsTimes(f) == f = [p \in DOMAIN f |-> f[p]] /\ \A p \in DOMAIN f : f[p] \in Nat

Types == /\ time \in [Pids -> Nat]
         /\ IsTimes(kworkers) /\ IsTimes(newKworkers)
         /\ kworkersUsage \in Nat /\ newUsage \in Nat /\ repeated \in Nat

(* Whoever holds the lock has started from the sum that is stored, and only  *)
(* the holder stores one.                                                    *)
HolderIsAhead == lock # None => newUsage >= kworkersUsage

IInv == Types /\ HolderIsAhead

(* What a read adds to the sum is never negative.                            *)
LEMMA GrowthIsNat == ASSUME Types, NEW p \in Pids PROVE Growth(p) \in Nat
BY DEF Types, IsTimes, Growth

(* Nor is what it counts once more.                                          *)
LEMMA CountedIsNat == ASSUME Types, NEW p \in Pids PROVE Counted(p) \in Nat
BY DEF Types, IsTimes, Counted

(* The empty map is a map of times.                                          *)
LEMMA EmptyIsTimes == IsTimes(Empty)
BY DEF IsTimes, Empty

(* The initial state satisfies the invariant.                                *)
LEMMA InitInv == Init => IInv
BY EmptyIsTimes DEF Init, IInv, Types, HolderIsAhead

(* What happens to the processes keeps the invariant.                        *)
LEMMA KernelInv == IInv /\ Kernel => IInv'
<1> SUFFICES ASSUME IInv, Kernel PROVE IInv'
  OBVIOUS
<1>1. UNCHANGED <<kworkers, kworkersUsage, newKworkers, newUsage, lock,
                  repeated>>
  BY DEF Kernel, Work, Exit, StartProcess, stateVars, collectionVars
<1>2. time' \in [Pids -> Nat]
  BY DEF Kernel, Work, Exit, StartProcess, IInv, Types
<1> QED
  BY <1>1, <1>2 DEF IInv, Types, HolderIsAhead, IsTimes

(* A step of a collection keeps the invariant, and the sum that is stored    *)
(* does not decrease.                                                        *)
LEMMA CollectInv == IInv /\ Collect => IInv' /\ kworkersUsage' >= kworkersUsage
<1> SUFFICES ASSUME IInv, Collect PROVE IInv' /\ kworkersUsage' >= kworkersUsage
  OBVIOUS
<1> USE DEF IInv, Types, HolderIsAhead
<1>1. ASSUME NEW c \in Collections, List(c)
      PROVE  IInv' /\ kworkersUsage' >= kworkersUsage
  BY <1>1 DEF List, kernelVars, stateVars, IsTimes
<1>2. ASSUME NEW c \in Collections, Acquire(c)
      PROVE  IInv' /\ kworkersUsage' >= kworkersUsage
  BY <1>2, EmptyIsTimes DEF Acquire, kernelVars, stateVars, IsTimes
<1>7. ASSUME NEW c \in Collections,
             ListFails(c) \/ \E p \in Pids : ListPid(c, p)
      PROVE  IInv' /\ kworkersUsage' >= kworkersUsage
  BY <1>7 DEF ListPid, ListFails, kernelVars, stateVars, IsTimes
<1>3. ASSUME NEW c \in Collections, NEW p \in Pids, Reads(c, p),
             newUsage' = newUsage, newKworkers' = newKworkers,
             repeated' = repeated
      PROVE  IInv' /\ kworkersUsage' >= kworkersUsage
  BY <1>3 DEF Reads, kernelVars, stateVars, IsTimes
<1>4. ASSUME NEW c \in Collections, NEW p \in Pids, ReadKworker(c, p)
      PROVE  IInv' /\ kworkersUsage' >= kworkersUsage
  <2>1. /\ UNCHANGED <<time, kworkers, kworkersUsage, lock>>
        /\ newUsage' = newUsage + Growth(p)
        /\ newKworkers' = With(newKworkers, p)
        /\ repeated' = repeated + Counted(p)
    BY <1>4 DEF ReadKworker, Reads, kernelVars, stateVars
  <2>2. IsTimes(newKworkers')
    BY <2>1 DEF IsTimes, With
  <2>3. Growth(p) \in Nat /\ Counted(p) \in Nat
    BY GrowthIsNat, CountedIsNat
  <2> QED
    BY <2>1, <2>2, <2>3 DEF IsTimes
<1>5. ASSUME NEW c \in Collections, ReadFails(c)
      PROVE  IInv' /\ kworkersUsage' >= kworkersUsage
  BY <1>5, EmptyIsTimes DEF ReadFails, Unlock, kernelVars, stateVars, IsTimes
<1>6. ASSUME NEW c \in Collections, Finish(c)
      PROVE  IInv' /\ kworkersUsage' >= kworkersUsage
  <2>1. lock # None
    BY <1>6, NoneAssumption DEF Finish
  <2> QED
    BY <1>6, <2>1, EmptyIsTimes DEF Finish, Unlock, kernelVars, IsTimes
<1> QED
  BY <1>1, <1>2, <1>3, <1>4, <1>5, <1>6, <1>7
     DEF Collect, Read, ReadExited, ReadUnparsable, ReadNamed

(* Every step keeps the invariant.                                           *)
LEMMA NextInv ==
    IInv /\ [Next]_vars => IInv' /\ (Next => kworkersUsage' >= kworkersUsage)
<1> SUFFICES ASSUME IInv, [Next]_vars
             PROVE  IInv' /\ (Next => kworkersUsage' >= kworkersUsage)
  OBVIOUS
<1>1. CASE Kernel
  <2>1. kworkersUsage' = kworkersUsage
    BY <1>1 DEF Kernel, Work, Exit, StartProcess, stateVars
  <2> QED
    BY <1>1, <2>1, KernelInv DEF IInv, Types
<1>2. CASE Collect
  BY <1>2, CollectInv
<1>3. CASE UNCHANGED vars
  BY <1>3 DEF vars, kernelVars, stateVars, collectionVars, IInv, Types,
              HolderIsAhead, IsTimes
<1> QED
  BY <1>1, <1>2, <1>3 DEF Next

(* The sum is never negative, and never ahead of what its holder has.        *)
THEOREM Invariance == Spec => []IInv
BY InitInv, NextInv, PTL DEF Spec

(* The exported usage of kworkers never goes back, however collections       *)
(* overlap and whatever becomes of PIDs (collector.go:75-78, 117-123, 142).  *)
THEOREM KworkersAreCounter == Spec => KworkersNeverGoBack
<1>1. IInv /\ [Next]_vars => [kworkersUsage' >= kworkersUsage]_vars
  BY NextInv
<1> QED
  BY <1>1, Invariance, PTL DEF Spec, KworkersNeverGoBack

-----------------------------------------------------------------------------
(* Types                                                                     *)

\* No process, nor all the kworkers, have used more than all processes.
TimeIsBounded == /\ time \in [Pids -> Nat] /\ \A p \in Pids : time[p] <= ticks
                 /\ ticks \in 0..MaxTicks /\ worked \in 0..ticks

CollectionTypes ==
    /\ lock \in running \cup {None}
    /\ running \subseteq Collections
    /\ ahead \in [Collections -> SUBSET Pids]
    /\ todo \in [Collections -> [Pids -> Nat]]
    /\ begun \in 0..MaxCollections

SampleTypes == /\ names \subseteq Names \cup {KworkersName}
               /\ samples \in Seq(Names \cup {KworkersName})

RecordTypes == /\ kworkers \in Times /\ newKworkers \in Times
               /\ reads \in Times /\ first \in Times /\ last \in Times

TypeInv == /\ TimeIsBounded /\ CollectionTypes /\ SampleTypes /\ RecordTypes
           /\ name \in [Pids -> Names \cup {None}]
           /\ starts \in 0..MaxStarts
           /\ disturbed \in BOOLEAN

(* What the maps from PIDs to stimes are, and what is made of them.          *)
LEMMA TimesFacts ==
    /\ Empty \in Times
    /\ \A f, g \in Times : Merge(f, g) \in Times
    /\ TimeIsBounded => \A f \in Times, p \in Pids : With(f, p) \in Times
<1>1. \A f : f \in Times <=> /\ DOMAIN f \subseteq Pids
                             /\ f \in [DOMAIN f -> 0..MaxTicks]
  BY DEF Times
<1>2. Empty \in Times
  BY <1>1 DEF Empty
<1>3. ASSUME NEW f \in Times, NEW g \in Times PROVE Merge(f, g) \in Times
  <2>1. DOMAIN (Merge(f, g)) = DOMAIN f \cup DOMAIN g
    BY DEF Merge
  <2>2. Merge(f, g) \in [DOMAIN f \cup DOMAIN g -> 0..MaxTicks]
    BY <1>1 DEF Merge
  <2> QED
    BY <1>1, <2>1, <2>2
<1>4. ASSUME TimeIsBounded, NEW f \in Times, NEW p \in Pids
      PROVE  With(f, p) \in Times
  <2>1. time[p] \in 0..MaxTicks
    BY <1>4, BoundsAssumption DEF TimeIsBounded
  <2>2. With(f, p) \in [DOMAIN f \cup {p} -> 0..MaxTicks]
    BY <1>1, <2>1 DEF With
  <2> QED
    BY <1>1, <2>2
<1> QED
  BY <1>2, <1>3, <1>4

(* The initial state has the types.                                          *)
LEMMA InitTypeInv == Init => TypeInv
<1>1. <<>> \in Seq(Names \cup {KworkersName})
  OBVIOUS
<1> SUFFICES ASSUME Init PROVE TypeInv
  OBVIOUS
<1>2. TimeIsBounded /\ starts \in 0..MaxStarts
  BY BoundsAssumption DEF Init, TimeIsBounded
<1>3. CollectionTypes
  BY BoundsAssumption DEF Init, CollectionTypes, NoLines
<1>4. SampleTypes /\ RecordTypes
  BY <1>1, TimesFacts DEF Init, SampleTypes, RecordTypes
<1> QED
  BY <1>2, <1>3, <1>4 DEF Init, TypeInv

(* What happens to the processes keeps the types.                            *)
LEMMA KernelTypeInv == TypeInv /\ Kernel => TypeInv'
<1> SUFFICES ASSUME TypeInv, Kernel PROVE TypeInv'
  OBVIOUS
<1> USE DEF TypeInv
<1>1. CollectionTypes' /\ SampleTypes' /\ RecordTypes'
  <2>1. UNCHANGED <<kworkers, lock, running, todo, newKworkers, names, samples,
                    begun, reads, first, last>>
    BY DEF Kernel, Work, Exit, StartProcess, stateVars, collectionVars,
           historyVars
  <2>2. ahead' \in [Collections -> SUBSET Pids]
    BY DEF Kernel, Work, Exit, StartProcess, collectionVars, CollectionTypes
  <2> QED
    BY <2>1, <2>2 DEF CollectionTypes, SampleTypes, RecordTypes, Times
<1>2. TimeIsBounded'
  <2> USE DEF TimeIsBounded
  <2>1. ASSUME NEW p \in Pids, Work(p) PROVE TimeIsBounded'
    BY <2>1, BoundsAssumption DEF Work
  <2>2. ASSUME NEW p \in Pids, Exit(p) \/ StartProcess(p) PROVE TimeIsBounded'
    BY <2>2, BoundsAssumption DEF Exit, StartProcess
  <2> QED
    BY <2>1, <2>2 DEF Kernel
<1>3. name' \in [Pids -> Names \cup {None}] /\ starts' \in 0..MaxStarts
  BY BoundsAssumption DEF Kernel, Work, Exit, StartProcess
<1>4. disturbed' \in BOOLEAN
  BY Zenon DEF Kernel, Work, Exit, StartProcess, historyVars
<1> QED
  BY <1>1, <1>2, <1>3, <1>4

(* A step of a collection keeps the types.                                   *)
LEMMA CollectTypeInv == TypeInv /\ Collect => TypeInv'
<1> SUFFICES ASSUME TypeInv, Collect PROVE TypeInv'
  OBVIOUS
<1> USE DEF TypeInv, CollectionTypes
<1>1. /\ UNCHANGED kernelVars /\ UNCHANGED worked /\ disturbed' \in BOOLEAN
  BY DEF Collect, Read, ReadExited, ReadUnparsable, ReadKworker, ReadNamed,
         Reads, List, ListPid, ListFails, Acquire, ReadFails, Finish, historyVars
<1>0. NoLines \in [Pids -> Nat]
  BY DEF NoLines
<1>2. TimeIsBounded' /\ name' = name /\ starts' = starts
  BY <1>1 DEF kernelVars, TimeIsBounded
<1>3. ASSUME NEW c \in Collections, List(c) PROVE TypeInv'
  BY <1>1, <1>2, <1>3, BoundsAssumption
     DEF List, Live, stateVars, SampleTypes, RecordTypes
<1>9. ASSUME NEW c \in Collections, NEW p \in Pids, ListPid(c, p) PROVE TypeInv'
  <2>1. CollectionTypes'
    BY <1>9 DEF ListPid
  <2> QED
    BY <1>1, <1>2, <1>9, <2>1
       DEF ListPid, stateVars, historyVars, SampleTypes, RecordTypes
<1>10. ASSUME NEW c \in Collections, ListFails(c) PROVE TypeInv'
  <2>1. CollectionTypes'
    BY <1>0, <1>10 DEF ListFails, IsListing
  <2> QED
    BY <1>1, <1>2, <1>10, <2>1
       DEF ListFails, stateVars, historyVars, SampleTypes, RecordTypes
<1>4. ASSUME NEW c \in Collections, Acquire(c) PROVE TypeInv'
  <2>1. <<>> \in Seq(Names \cup {KworkersName})
    OBVIOUS
  <2> QED
    BY <1>1, <1>2, <1>4, <2>1, TimesFacts
       DEF Acquire, IsListing, stateVars, SampleTypes, RecordTypes
<1>5. ASSUME NEW c \in Collections, NEW p \in Pids, Reads(c, p),
             \/ newKworkers' = newKworkers
             \/ newKworkers' = With(newKworkers, p),
             \/ UNCHANGED <<names, samples>>
             \/ /\ names' = names \cup {name[p]} /\ name[p] # None
                /\ samples' = Append(samples, name[p])
      PROVE  TypeInv'
  <2>1. CollectionTypes'
    <3>1. /\ UNCHANGED <<lock, running, ahead, begun>>
          /\ todo' = [todo EXCEPT ![c][p] = @ - 1] /\ todo[c][p] > 0
      BY <1>5 DEF Reads
    <3>2. todo' \in [Collections -> [Pids -> Nat]]
      BY <3>1
    <3> QED
      BY <3>1, <3>2
  <2>2. SampleTypes'
    <3>1. CASE UNCHANGED <<names, samples>>
      BY <3>1 DEF SampleTypes
    <3>2. CASE /\ names' = names \cup {name[p]} /\ name[p] # None
               /\ samples' = Append(samples, name[p])
      <4>1. name[p] \in Names
        BY <3>2
      <4> HIDE DEF TypeInv, CollectionTypes
      <4>2. samples \in Seq(Names \cup {KworkersName})
        BY DEF TypeInv, SampleTypes
      <4>3. samples' \in Seq(Names \cup {KworkersName})
        BY <3>2, <4>1, <4>2
      <4> QED
        BY <3>2, <4>1, <4>3 DEF TypeInv, SampleTypes
    <3> QED
      BY <1>5, <3>1, <3>2
  <2>3. RecordTypes'
    BY <1>5, TimesFacts DEF Reads, stateVars, RecordTypes
  <2> QED
    BY <1>1, <1>2, <2>1, <2>2, <2>3
<1>6. CASE Read
  BY <1>5, <1>6 DEF Read, ReadExited, ReadUnparsable, ReadKworker, ReadNamed
<1>7. ASSUME NEW c \in Collections, ReadFails(c) PROVE TypeInv'
  <2>1. CollectionTypes'
    BY <1>0, <1>7 DEF ReadFails, Unlock
  <2> QED
    BY <1>1, <1>2, <1>7, <2>1, TimesFacts
       DEF ReadFails, Unlock, stateVars, SampleTypes, RecordTypes
<1>8. ASSUME NEW c \in Collections, Finish(c) PROVE TypeInv'
  <2>1. RecordTypes'
    BY <1>8, TimesFacts DEF Finish, Unlock, RecordTypes
  <2>2. SampleTypes'
    BY <1>8 DEF Finish, Unlock, SampleTypes
  <2>3. CollectionTypes'
    BY <1>0, <1>8 DEF Finish, Unlock
  <2> QED
    BY <1>1, <1>2, <2>1, <2>2, <2>3
<1> QED
  BY <1>3, <1>4, <1>6, <1>7, <1>8, <1>9, <1>10 DEF Collect

(* The types, with the bound of the times and the shape of the records,      *)
(* always hold.                                                              *)
LEMMA TypeInvariance == Spec => []TypeInv
<1>1. TypeInv /\ [Next]_vars => TypeInv'
  <2>1. TypeInv /\ UNCHANGED vars => TypeInv'
    BY DEF vars, kernelVars, stateVars, collectionVars, historyVars, TypeInv,
           TimeIsBounded, CollectionTypes, SampleTypes, RecordTypes, Times
  <2> QED
    BY <2>1, KernelTypeInv, CollectTypeInv DEF Next
<1> QED
  BY InitTypeInv, <1>1, PTL DEF Spec

(* All state keeps its type: no time is ever more than the processes have    *)
(* used, and the maps hold PIDs of processes (collector.go:24-33).           *)
THEOREM TypeCorrect == Spec => []TypeOK
<1>1. TypeInv /\ IInv => TypeOK
  <2>1. TypeInv => /\ time \in [Pids -> 0..MaxTicks] /\ worked \in 0..MaxTicks
    BY BoundsAssumption DEF TypeInv, TimeIsBounded
  <2> QED
    BY <2>1 DEF TypeInv, TimeIsBounded, CollectionTypes, SampleTypes,
                RecordTypes, IInv, Types, TypeOK
<1> QED
  BY <1>1, Invariance, TypeInvariance, PTL
-----------------------------------------------------------------------------
(* The names of the samples                                                  *)

(* Whoever holds the lock keeps the names of its samples, and the name of    *)
(* the sum, which it sends last.                                             *)
NamesAreKept ==
    lock # None => /\ KworkersName \in names
                   /\ \A i \in DOMAIN samples : /\ samples[i] \in names
                                                /\ samples[i] # KworkersName

SamplesInv == /\ samples \in Seq(Names \cup {KworkersName})
              /\ IsInjective(samples)
              /\ NamesAreKept

(* A new name after the others keeps them distinct.                          *)
LEMMA AppendNew ==
    ASSUME NEW S, NEW s \in Seq(S), IsInjective(s), NEW n \in S,
           \A i \in DOMAIN s : s[i] # n
    PROVE  /\ Append(s, n) \in Seq(S) /\ IsInjective(Append(s, n))
           /\ \A i \in DOMAIN Append(s, n) :
                 Append(s, n)[i] = n \/ \E j \in DOMAIN s : Append(s, n)[i] = s[j]
<1> DEFINE t == Append(s, n)
<1>1. /\ t \in Seq(S) /\ Len(s) \in Nat /\ DOMAIN t = 1..(Len(s) + 1)
      /\ DOMAIN s = 1..Len(s) /\ t[Len(s) + 1] = n
      /\ \A i \in DOMAIN s : t[i] = s[i]
  OBVIOUS
<1> HIDE DEF t
<1>2. \A i \in DOMAIN t : i \in DOMAIN s \/ i = Len(s) + 1
  BY <1>1
<1>3. IsInjective(t)
  <2> SUFFICES ASSUME NEW i \in DOMAIN t, NEW j \in DOMAIN t, t[i] = t[j]
               PROVE  i = j
    BY DEF IsInjective
  <2> QED
    BY <1>1, <1>2 DEF IsInjective
<1> QED
  BY <1>1, <1>2, <1>3 DEF t

(* Every step keeps the names of the samples distinct.                       *)
LEMMA SamplesNext == TypeInv /\ SamplesInv /\ [Next]_vars => SamplesInv'
<1> SUFFICES ASSUME TypeInv, SamplesInv, [Next]_vars PROVE SamplesInv'
  OBVIOUS
<1> USE DEF SamplesInv, NamesAreKept
<1>1. CASE UNCHANGED <<samples, names, lock>>
  BY <1>1
<1>2. CASE Kernel \/ UNCHANGED vars
  BY <1>1, <1>2 DEF Kernel, Work, Exit, StartProcess, vars, collectionVars
<1>3. ASSUME NEW c \in Collections,
             List(c) \/ ListFails(c) \/ \E p \in Pids : ListPid(c, p)
      PROVE  SamplesInv'
  BY <1>1, <1>3 DEF List, ListFails, ListPid
<1>4. ASSUME NEW c \in Collections, Acquire(c) PROVE SamplesInv'
  BY <1>4 DEF Acquire, IsInjective
<1>5. ASSUME NEW c \in Collections, NEW p \in Pids,
             ReadExited(c, p) \/ ReadUnparsable(c, p) \/ ReadKworker(c, p)
      PROVE  SamplesInv'
  BY <1>1, <1>5 DEF ReadExited, ReadUnparsable, ReadKworker, Reads
<1>6. ASSUME NEW c \in Collections, NEW p \in Pids, ReadNamed(c, p)
      PROVE  SamplesInv'
  <2>1. lock # None /\ lock' = lock
    BY <1>6, NoneAssumption DEF ReadNamed, Reads
  <2>2. CASE ~IsSent(p)
    BY <1>1, <1>6, <2>1, <2>2 DEF ReadNamed
  <2>3. CASE IsSent(p)
    <3>1. /\ names' = names \cup {name[p]} /\ samples' = Append(samples, name[p])
          /\ name[p] \notin names /\ name[p] \in Names \cup {KworkersName}
      BY <1>6, <2>3 DEF ReadNamed, IsSent, TypeInv
    <3>2. \A i \in DOMAIN samples : samples[i] # name[p]
      BY <2>1, <3>1
    <3>3. /\ samples' \in Seq(Names \cup {KworkersName}) /\ IsInjective(samples')
          /\ \A i \in DOMAIN samples' :
                samples'[i] = name[p] \/ \E j \in DOMAIN samples : samples'[i] = samples[j]
      BY <3>1, <3>2, AppendNew
    <3> QED
      BY <2>1, <3>1, <3>3
  <2> QED
    BY <2>2, <2>3
<1>7. ASSUME NEW c \in Collections, ReadFails(c) PROVE SamplesInv'
  BY <1>7 DEF ReadFails, Unlock
<1>8. ASSUME NEW c \in Collections, Finish(c) PROVE SamplesInv'
  <2>1. /\ lock # None /\ lock' = None /\ samples' = Append(samples, KworkersName)
    BY <1>8, NoneAssumption DEF Finish, Unlock
  <2>2. samples' \in Seq(Names \cup {KworkersName}) /\ IsInjective(samples')
    BY <2>1, AppendNew
  <2> QED
    BY <2>1, <2>2
<1> QED
  BY <1>2, <1>3, <1>4, <1>5, <1>6, <1>7, <1>8 DEF Next, Collect, Read

(* No collection sends two metrics of one name, whatever names the processes *)
(* have (collector.go:71, 130-134).                                          *)
THEOREM SamplesAreDistinct == Spec => []NoDuplicateSamples
<1>1. Init => SamplesInv
  BY DEF Init, SamplesInv, NamesAreKept, IsInjective
<1>2. SamplesInv => NoDuplicateSamples
  BY DEF SamplesInv, NoDuplicateSamples
<1> QED
  BY SamplesNext, <1>1, <1>2, TypeInvariance, PTL DEF Spec
-----------------------------------------------------------------------------
(* No time is counted twice                                                  *)

\* What the kworker with PID p has used since its stime in f: no collection
\* that starts from f can add more for it.
Credit(f, p) ==
    IF name[p] = Kworker /\ p \in DOMAIN f /\ time[p] >= f[p]
    THEN time[p] - f[p] ELSE 0

Owed == [p \in Pids |-> Credit(kworkers, p)]

\* What the lock's holder may still add, and what the next one may.
Pending == [p \in Pids |-> IF todo[lock][p] > 0 /\ p \notin DOMAIN newKworkers
                           THEN Credit(kworkers, p) ELSE Credit(newKworkers, p)]

(* There is never less worked than is counted or may still be counted, but   *)
(* for what repeated PIDs have made count again.                             *)
CountedInv ==
    /\ kworkersUsage + SumFunctionOnSet(Owed, Pids) <= worked + repeated
    /\ lock = None => newUsage = 0
    /\ lock # None =>
          newUsage + SumFunctionOnSet(Pending, Pids) <= worked + repeated

AllInv == TypeInv /\ IInv /\ CountedInv

(* Recorded times are naturals.                                              *)
LEMMA TimesAreNat == \A f \in Times : \A p \in DOMAIN f : p \in Pids /\ f[p] \in Nat
BY BoundsAssumption DEF Times

(* The time of a process that no record holds is a natural.                  *)
LEMMA CreditIsNat == TypeInv => \A f \in Times, p \in Pids : Credit(f, p) \in Nat
BY TimesAreNat DEF TypeInv, TimeIsBounded, Credit

(* So the sums of these times are naturals.                                  *)
LEMMA CreditsAreInt ==
    TypeInv => /\ IsIntOn(Owed, Pids) /\ IsIntOn(Pending, Pids)
               /\ SumFunctionOnSet(Owed, Pids) \in Nat
               /\ SumFunctionOnSet(Pending, Pids) \in Nat
<1> SUFFICES ASSUME TypeInv
             PROVE  /\ IsIntOn(Owed, Pids) /\ IsIntOn(Pending, Pids)
                    /\ SumFunctionOnSet(Owed, Pids) \in Nat
                    /\ SumFunctionOnSet(Pending, Pids) \in Nat
  OBVIOUS
<1>1. \A p \in Pids : Owed[p] \in Nat /\ Pending[p] \in Nat
  BY CreditIsNat DEF Owed, Pending, TypeInv, RecordTypes
<1> QED
  BY <1>1, PidsAssumption, SumIsNat DEF IsIntOn

(* One step of the kernel adds to the credit of a process no more than the   *)
(* kworkers have worked in it.                                               *)
LEMMA KernelCredit ==
    ASSUME TypeInv, TypeInv', Kernel
    PROVE  /\ worked' \in Nat /\ worked \in Nat /\ worked <= worked'
           /\ \E p \in Pids : \A f \in Times :
                 /\ Credit(f, p)' <= Credit(f, p) + (worked' - worked)
                 /\ \A q \in Pids \ {p} : Credit(f, q)' = Credit(f, q)
<1> USE DEF TypeInv, TimeIsBounded
<1>1. ASSUME NEW p \in Pids, Work(p)
      PROVE  /\ worked' \in Nat /\ worked \in Nat /\ worked <= worked'
             /\ \A f \in Times :
                   /\ Credit(f, p)' <= Credit(f, p) + (worked' - worked)
                   /\ \A q \in Pids \ {p} : Credit(f, q)' = Credit(f, q)
  <2>1. /\ name' = name /\ time' = [time EXCEPT ![p] = @ + 1]
        /\ worked' = IF name[p] = Kworker THEN worked + 1 ELSE worked
    BY <1>1 DEF Work
  <2>2. worked' \in Nat /\ worked \in Nat /\ worked <= worked'
    BY <2>1
  <2>3. ASSUME NEW f \in Times
        PROVE  Credit(f, p)' <= Credit(f, p) + (worked' - worked)
    BY <2>1, <2>2, TimesAreNat DEF Credit
  <2>4. ASSUME NEW f \in Times, NEW q \in Pids \ {p}
        PROVE  Credit(f, q)' = Credit(f, q)
    BY <2>1 DEF Credit
  <2> QED
    BY <2>2, <2>3, <2>4
<1>2. ASSUME NEW p \in Pids, Exit(p) \/ StartProcess(p)
      PROVE  /\ worked' \in Nat /\ worked \in Nat /\ worked <= worked'
             /\ \A f \in Times :
                   /\ Credit(f, p)' <= Credit(f, p) + (worked' - worked)
                   /\ \A q \in Pids \ {p} : Credit(f, q)' = Credit(f, q)
  <2>1. /\ worked' = worked /\ worked \in Nat
        /\ \A q \in Pids \ {p} : name'[q] = name[q] /\ time'[q] = time[q]
        /\ name'[p] = None \/ time'[p] = 0
    BY <1>2 DEF Exit, StartProcess
  <2>2. ASSUME NEW f \in Times
        PROVE  Credit(f, p)' <= Credit(f, p) + (worked' - worked)
    <3>1. Credit(f, p) \in Nat
      BY CreditIsNat
    <3>2. Credit(f, p)' = 0
      BY <2>1, TimesAreNat, NamesAssumption, NoneAssumption DEF Credit
    <3> QED
      BY <2>1, <3>1, <3>2
  <2>3. ASSUME NEW f \in Times, NEW q \in Pids \ {p}
        PROVE  Credit(f, q)' = Credit(f, q)
    BY <2>1 DEF Credit
  <2> QED
    BY <2>1, <2>2, <2>3
<1> QED
  BY <1>1, <1>2 DEF Kernel

(* What happens to the processes adds no more to what may be counted than    *)
(* the time that was worked.                                                 *)
LEMMA KernelCounted ==
    TypeInv /\ TypeInv' /\ IInv /\ CountedInv /\ Kernel => CountedInv'
<1> SUFFICES ASSUME TypeInv, TypeInv', IInv, CountedInv, Kernel PROVE CountedInv'
  OBVIOUS
<1>1. UNCHANGED <<kworkers, kworkersUsage, newKworkers, newUsage, lock, todo,
                  repeated>>
  BY DEF Kernel, Work, Exit, StartProcess, stateVars, collectionVars
<1>2. PICK d \in Nat : worked' = worked + d /\ worked \in Nat
  BY KernelCredit
<1>3. PICK p \in Pids : \A f \in Times :
          /\ Credit(f, p)' <= Credit(f, p) + (worked' - worked)
          /\ \A q \in Pids \ {p} : Credit(f, q)' = Credit(f, q)
  BY KernelCredit
<1>4. kworkers \in Times /\ newKworkers \in Times
  BY DEF TypeInv, RecordTypes
<1>5. /\ IsIntOn(Owed, Pids) /\ SumFunctionOnSet(Owed, Pids) \in Nat
      /\ IsIntOn(Pending, Pids) /\ SumFunctionOnSet(Pending, Pids) \in Nat
  BY CreditsAreInt
<1>6. (TypeInv => IsIntOn(Owed, Pids) /\ IsIntOn(Pending, Pids))'
  BY CreditsAreInt, PTL
<1>7. IsIntOn(Owed', Pids) /\ IsIntOn(Pending', Pids)
  BY <1>6 DEF IsIntOn
<1>8. SumFunctionOnSet(Owed', Pids) <= SumFunctionOnSet(Owed, Pids) + d
  <2>1. /\ \A q \in Pids \ {p} : Owed'[q] = Owed[q]
        /\ Owed'[p] <= Owed[p] + (worked' - worked)
    BY <1>1, <1>3, <1>4 DEF Owed, Credit
  <2>2. SumFunctionOnSet(Owed', Pids)
            = SumFunctionOnSet(Owed, Pids) + (Owed'[p] - Owed[p])
    BY <1>5, <1>7, <2>1, PidsAssumption, SumChange
  <2>3. Owed'[p] \in Int /\ Owed[p] \in Int
    BY <1>5, <1>7 DEF IsIntOn
  <2> QED
    BY <1>2, <1>5, <2>1, <2>2, <2>3
<1>9. SumFunctionOnSet(Pending', Pids) <= SumFunctionOnSet(Pending, Pids) + d
  <2>1. /\ \A q \in Pids \ {p} : Pending'[q] = Pending[q]
        /\ Pending'[p] <= Pending[p] + (worked' - worked)
    BY <1>1, <1>3, <1>4 DEF Pending, Credit
  <2>2. SumFunctionOnSet(Pending', Pids)
            = SumFunctionOnSet(Pending, Pids) + (Pending'[p] - Pending[p])
    BY <1>5, <1>7, <2>1, PidsAssumption, SumChange
  <2>3. Pending'[p] \in Int /\ Pending[p] \in Int
    BY <1>5, <1>7 DEF IsIntOn
  <2> QED
    BY <1>2, <1>5, <2>1, <2>2, <2>3
<1>10. /\ SumFunctionOnSet(Owed', Pids) \in Int
       /\ SumFunctionOnSet(Pending', Pids) \in Int
       /\ kworkersUsage \in Nat /\ newUsage \in Nat /\ repeated \in Nat
  BY <1>7, PidsAssumption, SumIsInt DEF IInv, Types
<1>11. kworkersUsage' + SumFunctionOnSet(Owed', Pids) <= worked' + repeated
  BY <1>1, <1>2, <1>5, <1>8, <1>10 DEF CountedInv
<1>12. lock # None =>
          newUsage' + SumFunctionOnSet(Pending', Pids) <= worked' + repeated
  BY <1>1, <1>2, <1>5, <1>9, <1>10 DEF CountedInv
<1> QED
  BY <1>1, <1>11, <1>12 DEF CountedInv

(* A collection only moves credit into its sum.                              *)
LEMMA CollectCounted ==
    TypeInv /\ TypeInv' /\ IInv /\ IInv' /\ CountedInv /\ Collect => CountedInv'
<1> SUFFICES ASSUME TypeInv, TypeInv', IInv, IInv', CountedInv, Collect
             PROVE  CountedInv'
  OBVIOUS
<1>1. UNCHANGED <<name, time, worked>> /\ worked \in Nat
  BY DEF Collect, Read, ReadExited, ReadUnparsable, ReadKworker, ReadNamed,
         Reads, List, ListPid, ListFails, Acquire, ReadFails, Finish, kernelVars,
         TypeInv, TimeIsBounded
<1>2. /\ IsIntOn(Owed, Pids) /\ SumFunctionOnSet(Owed, Pids) \in Nat
      /\ IsIntOn(Pending, Pids) /\ SumFunctionOnSet(Pending, Pids) \in Nat
  BY CreditsAreInt
<1>3. (TypeInv => /\ IsIntOn(Owed, Pids) /\ IsIntOn(Pending, Pids)
                  /\ SumFunctionOnSet(Owed, Pids) \in Nat
                  /\ SumFunctionOnSet(Pending, Pids) \in Nat)'
  BY CreditsAreInt, PTL
<1>4. /\ IsIntOn(Owed', Pids) /\ SumFunctionOnSet(Owed', Pids) \in Nat
      /\ IsIntOn(Pending', Pids) /\ SumFunctionOnSet(Pending', Pids) \in Nat
  BY <1>3 DEF IsIntOn
<1>5. /\ kworkersUsage \in Nat /\ newUsage \in Nat
      /\ kworkersUsage' \in Nat /\ newUsage' \in Nat /\ repeated \in Nat
  BY DEF IInv, Types
<1>6. /\ kworkers \in Times /\ newKworkers \in Times
      /\ \A f \in Times, p \in Pids : Credit(f, p) \in Nat
  BY CreditIsNat DEF TypeInv, RecordTypes
<1>7. kworkers' = kworkers => Owed' = Owed
  BY <1>1 DEF Owed, Credit
<1>8. ASSUME NEW c \in Collections,
             List(c) \/ ListFails(c) \/ \E p \in Pids : ListPid(c, p)
      PROVE  CountedInv'
  <2>1. UNCHANGED <<kworkers, kworkersUsage, newKworkers, newUsage, lock,
                    repeated>>
    BY <1>8 DEF List, ListFails, ListPid, stateVars
  <2>2. \A q \in Pids : lock # None => todo'[lock][q] = todo[lock][q]
    BY <1>8 DEF List, ListFails, ListPid, IsListing, TypeInv, CollectionTypes
  <2>3. lock # None => Pending' = Pending
    BY <1>1, <2>1, <2>2 DEF Pending, Credit
  <2> QED
    BY <1>1, <1>7, <2>1, <2>3 DEF CountedInv
<1>9. ASSUME NEW c \in Collections, Acquire(c) PROVE CountedInv'
  <2>1. /\ UNCHANGED <<kworkers, kworkersUsage, todo, repeated>>
        /\ newUsage' = kworkersUsage
        /\ lock' = c /\ lock' # None /\ newKworkers' = Empty
    BY <1>9, NoneAssumption DEF Acquire, stateVars
  <2>2. \A p \in Pids : Credit(Empty, p) = 0
    BY DEF Credit, Empty
  <2>3. \A p \in Pids : Pending'[p] <= Owed[p]
    BY <1>1, <1>6, <2>1, <2>2 DEF Pending, Owed, Credit
  <2>4. SumFunctionOnSet(Pending', Pids) <= SumFunctionOnSet(Owed, Pids)
    BY <1>2, <1>4, <2>3, PidsAssumption, SumGrows
  <2>5. newUsage' + SumFunctionOnSet(Pending', Pids) <= worked' + repeated'
    BY <1>1, <1>2, <1>4, <1>5, <2>1, <2>4 DEF CountedInv
  <2> QED
    BY <1>1, <1>7, <2>1, <2>5 DEF CountedInv
<1>10. ASSUME NEW c \in Collections, NEW p \in Pids, Reads(c, p),
              \/ UNCHANGED <<newKworkers, newUsage, repeated>>
              \/ /\ newKworkers' = With(newKworkers, p)
                 /\ newUsage' = newUsage + Growth(p)
                 /\ repeated' = repeated + Counted(p)
                 /\ name[p] = Kworker
       PROVE  CountedInv'
  <2>1. /\ UNCHANGED <<kworkers, kworkersUsage, lock>>
        /\ lock = c /\ lock # None /\ todo[lock][p] > 0
        /\ \A q \in Pids \ {p} : todo'[lock][q] = todo[lock][q]
    BY <1>10, NoneAssumption DEF Reads, stateVars, TypeInv, CollectionTypes
  <2>2. \A q \in Pids \ {p} : Pending'[q] = Pending[q]
    <3>1. ASSUME NEW q \in Pids \ {p}
          PROVE  /\ Credit(newKworkers, q)' = Credit(newKworkers, q)
                 /\ q \in DOMAIN newKworkers' <=> q \in DOMAIN newKworkers
      BY <1>1, <1>10 DEF Credit, With
    <3> QED
      BY <1>1, <2>1, <3>1 DEF Pending, Credit
  <2>3. SumFunctionOnSet(Pending', Pids)
            = SumFunctionOnSet(Pending, Pids) + (Pending'[p] - Pending[p])
    BY <1>2, <1>4, <2>2, PidsAssumption, SumChange
  <2>4. Pending[p] \in Nat /\ Pending'[p] \in Nat
    <3>1. PICK f, g \in Times : f = kworkers' /\ g = newKworkers'
      BY DEF TypeInv, RecordTypes
    <3>2. \A q \in Pids : /\ Credit(kworkers, q)' = Credit(f, q)
                          /\ Credit(newKworkers, q)' = Credit(g, q)
      BY <1>1, <3>1 DEF Credit
    <3> QED
      BY <1>6, <3>2 DEF Pending
  <2>5. CASE UNCHANGED <<newKworkers, newUsage, repeated>>
    <3>1. Pending'[p] <= Pending[p]
      <4>1. Credit(newKworkers, p)' = Credit(newKworkers, p)
        BY <1>1, <2>5 DEF Credit
      <4>2. Credit(kworkers, p)' = Credit(kworkers, p)
        BY <1>1, <2>1 DEF Credit
      <4>3. p \notin DOMAIN newKworkers => Credit(newKworkers, p) = 0
        BY DEF Credit
      <4> QED
        BY <1>6, <2>1, <2>5, <4>1, <4>2, <4>3 DEF Pending
    <3>2. newUsage' + SumFunctionOnSet(Pending', Pids) <= worked' + repeated'
      BY <1>1, <1>2, <1>4, <1>5, <2>1, <2>3, <2>4, <2>5, <3>1 DEF CountedInv
    <3> QED
      BY <1>1, <1>7, <2>1, <2>5, <3>2 DEF CountedInv
  <2>6. CASE /\ newKworkers' = With(newKworkers, p)
             /\ newUsage' = newUsage + Growth(p)
             /\ repeated' = repeated + Counted(p)
             /\ name[p] = Kworker
    <3>1. Growth(p) \in Nat /\ Counted(p) \in Nat
      BY GrowthIsNat, CountedIsNat DEF IInv
    <3>2. Pending'[p] = 0
      <4>1. p \in DOMAIN newKworkers' /\ newKworkers'[p] = time[p]
        BY <2>6 DEF With
      <4>2. time[p] \in Nat
        BY DEF TypeInv, TimeIsBounded
      <4> QED
        BY <1>1, <4>1, <4>2 DEF Pending, Credit
    <3>3. Growth(p) <= Pending[p] + Counted(p)
      <4>1. CASE p \notin DOMAIN newKworkers
        BY <2>1, <2>6, <3>1, <4>1 DEF Pending, Growth, Credit
      <4>2. CASE p \in DOMAIN newKworkers
        <5>1. /\ newKworkers[p] \in Nat /\ time[p] \in Nat
              /\ p \in DOMAIN kworkers => kworkers[p] \in Nat
          BY <1>6, <4>2, TimesAreNat DEF TypeInv, TimeIsBounded
        <5>2. Pending[p] = IF time[p] >= newKworkers[p]
                           THEN time[p] - newKworkers[p] ELSE 0
          BY <2>6, <4>2 DEF Pending, Credit
        <5> QED
          BY <4>2, <5>1, <5>2 DEF Growth, Counted
      <4> QED
        BY <4>1, <4>2
    <3>4. newUsage' + SumFunctionOnSet(Pending', Pids) <= worked' + repeated'
      BY <1>1, <1>2, <1>4, <1>5, <2>1, <2>3, <2>4, <2>6, <3>1, <3>2, <3>3
         DEF CountedInv
    <3>5. kworkersUsage' + SumFunctionOnSet(Owed', Pids) <= worked' + repeated'
      BY <1>1, <1>2, <1>5, <1>7, <2>1, <2>6, <3>1 DEF CountedInv
    <3> QED
      BY <2>1, <3>4, <3>5 DEF CountedInv
  <2> QED
    BY <1>10, <2>5, <2>6
<1>11. ASSUME NEW c \in Collections, ReadFails(c) PROVE CountedInv'
  BY <1>1, <1>7, <1>11 DEF ReadFails, Unlock, stateVars, CountedInv
<1>12. ASSUME NEW c \in Collections, Finish(c) PROVE CountedInv'
  <2>1. /\ kworkers' = newKworkers /\ kworkersUsage' = newUsage
        /\ lock # None /\ lock' = None /\ newUsage' = 0
        /\ \A p \in Pids : todo[lock][p] = 0
        /\ repeated' = repeated
    BY <1>12, NoneAssumption DEF Finish, Unlock, NoLines
  <2>2. Owed' = Pending
    BY <1>1, <2>1 DEF Owed, Pending, Credit
  <2> QED
    BY <1>1, <2>1, <2>2 DEF CountedInv
<1> QED
  BY <1>8, <1>9, <1>10, <1>11, <1>12
     DEF Collect, Read, ReadExited, ReadUnparsable, ReadKworker, ReadNamed

(* The initial state owes nothing.                                           *)
LEMMA InitCounted == Init => CountedInv
<1> SUFFICES ASSUME Init PROVE CountedInv
  OBVIOUS
<1>1. \A p \in Pids : Owed[p] = 0
  BY DEF Init, Owed, Credit, Empty
<1>2. SumFunctionOnSet(Owed, Pids) = 0
  BY <1>1, PidsAssumption, SumOfZeros
<1> QED
  BY <1>2 DEF Init, CountedInv

(* However collections overlap, with lists of processes older than the       *)
(* other's, and whatever PIDs are used again, the kworkers are charged with  *)
(* no time they have not worked, but for what a collection had counted at    *)
(* the first line of a PID that its list has twice (group.go:64-87,          *)
(* collector.go:114-123, 141-142).                                           *)
THEOREM OnlyRepeatedTimeIsCountedTwice == Spec => []OnlyRepeatedIsCountedTwice
<1>1. AllInv => OnlyRepeatedIsCountedTwice
  <2> SUFFICES ASSUME AllInv PROVE OnlyRepeatedIsCountedTwice
    OBVIOUS
  <2>1. /\ SumFunctionOnSet(Owed, Pids) \in Nat
        /\ SumFunctionOnSet(Pending, Pids) \in Nat
        /\ kworkersUsage \in Nat /\ newUsage \in Nat /\ worked \in Nat
        /\ repeated \in Nat
    BY CreditsAreInt DEF AllInv, IInv, Types, TypeInv, TimeIsBounded
  <2> QED
    BY <2>1 DEF AllInv, CountedInv, OnlyRepeatedIsCountedTwice
<1>2. TypeInv /\ TypeInv' /\ IInv /\ IInv' /\ CountedInv /\ [Next]_vars => CountedInv'
  <2>1. CountedInv /\ UNCHANGED vars => CountedInv'
    <3> SUFFICES ASSUME CountedInv, UNCHANGED vars PROVE CountedInv'
      OBVIOUS
    <3>1. UNCHANGED <<name, time, lock, todo, kworkers, kworkersUsage,
                      newKworkers, newUsage, worked, repeated>>
      BY DEF vars, kernelVars, stateVars, collectionVars
    <3>2. Owed' = Owed /\ Pending' = Pending
      BY <3>1 DEF Owed, Pending, Credit
    <3> QED
      BY <3>1, <3>2 DEF CountedInv
  <2> QED
    BY <2>1, KernelCounted, CollectCounted DEF Next
<1>3. AllInv <=> TypeInv /\ IInv /\ CountedInv
  BY DEF AllInv
<1> QED
  BY <1>1, <1>2, <1>3, InitCounted, TypeInvariance, Invariance, PTL DEF Spec
-----------------------------------------------------------------------------
(* The sum is exact when nothing disturbs the collections                    *)

\* The process with PID p is still the kworker whose stime is in f, or none.
IsSame(f, p) == /\ name[p] \in {Kworker, None}
                /\ name[p] = Kworker => time[p] >= f[p]

(* What has been read of a process is recorded as long as it lives.          *)
RecordsAreKept ==
    /\ DOMAIN first = DOMAIN last /\ DOMAIN kworkers \subseteq DOMAIN first
    /\ \A p \in DOMAIN kworkers : kworkers[p] = last[p]
    /\ \A p \in DOMAIN first : /\ IsSame(last, p)
                               /\ name[p] # None => p \in DOMAIN kworkers
    /\ newKworkers = reads
    /\ \A p \in DOMAIN reads : IsSame(reads, p)

\* Whether c has p on its list or comes to it, or has read it.
IsRead(c, p) == lock = c /\ p \in DOMAIN reads
IsCovered(c, p) == p \in ahead[c] \/ todo[c][p] > 0 \/ IsRead(c, p)

\* p is on c's list once, if at all.
IsListedOnce(c, p) ==
    /\ todo[c][p] <= 1
    /\ todo[c][p] = 1 => p \notin ahead[c] /\ ~IsRead(c, p)
    /\ lock = c => p \notin ahead[c]

(* The one collection there may be reads all recorded processes that live,   *)
(* and reads them once: only a PID used again is on a list twice.            *)
ListIsComplete ==
    /\ \A c, d \in running : c = d
    /\ \A c \in running : \A p \in DOMAIN first :
          /\ name[p] # None => IsCovered(c, p)
          /\ IsListedOnce(c, p)
    /\ \A c \in Collections \ running : todo[c] = NoLines

SumsAreExact ==
    /\ kworkersUsage = Contributions(first, last)
    /\ lock # None =>
          newUsage = Contributions(Merge(first, reads), Merge(reads, last))

ExactInv == ~disturbed => RecordsAreKept /\ ListIsComplete /\ SumsAreExact

(* What happens to the processes, undisturbed, keeps the equalities.         *)
LEMMA KernelExact == TypeInv /\ ExactInv /\ Kernel => ExactInv'
<1> SUFFICES ASSUME TypeInv, ExactInv, Kernel, ~disturbed' PROVE ExactInv'
  BY DEF ExactInv
<1>1. UNCHANGED <<kworkers, kworkersUsage, newKworkers, newUsage, lock, running,
                  todo, reads, first, last>>
  BY DEF Kernel, Work, Exit, StartProcess, stateVars, collectionVars, historyVars
<1>2. ~disturbed
  BY DEF Kernel, Work, Exit, StartProcess, historyVars
<1>3. RecordsAreKept /\ ListIsComplete /\ SumsAreExact
  BY <1>2 DEF ExactInv
<1>4. ASSUME NEW f \in {last, reads}, NEW p \in DOMAIN first \cup DOMAIN reads,
             p \in DOMAIN f, IsSame(f, p)
      PROVE  IsSame(f, p)' /\ (name'[p] # None => name[p] # None)
  <2>1. p \in Pids /\ time[p] \in Nat /\ f[p] \in Nat
    BY <1>4, TimesAreNat DEF TypeInv, RecordTypes, TimeIsBounded
  <2>2. ASSUME NEW q \in Pids, Work(q)
        PROVE  IsSame(f, p)' /\ (name'[p] # None => name[p] # None)
    <3>1. name' = name /\ time'[p] \in {time[p], time[p] + 1}
      BY <2>1, <2>2 DEF Work, TypeInv, TimeIsBounded
    <3>2. f' = f
      BY <1>1
    <3> QED
      BY <1>4, <2>1, <3>1, <3>2 DEF IsSame
  <2>3. ASSUME NEW q \in Pids, Exit(q)
        PROVE  IsSame(f, p)' /\ (name'[p] # None => name[p] # None)
    BY <1>4, <2>1, <2>3, <1>1, NamesAssumption, NoneAssumption DEF Exit, TypeInv, IsSame
  <2>4. ASSUME NEW q \in Pids, StartProcess(q)
        PROVE  IsSame(f, p)' /\ (name'[p] # None => name[p] # None)
    <3>1. q # p
      BY <2>4 DEF StartProcess
    <3>2. name'[p] = name[p] /\ time'[p] = time[p]
      BY <2>1, <2>4, <3>1 DEF StartProcess, TypeInv, TimeIsBounded
    <3> QED
      BY <1>1, <1>4, <3>2 DEF IsSame
  <2> QED
    BY <2>2, <2>3, <2>4 DEF Kernel
<1>5. RecordsAreKept'
  BY <1>1, <1>3, <1>4 DEF RecordsAreKept, IsSame
<1>6. ListIsComplete'
  <2>1. ASSUME NEW c \in Collections, NEW p \in DOMAIN first
        PROVE  /\ p \in ahead'[c] => p \in ahead[c]
               /\ name'[p] # None /\ p \in ahead[c] => p \in ahead'[c]
    <3> DEFINE Stays == /\ p \in ahead'[c] => p \in ahead[c]
                        /\ name'[p] # None /\ p \in ahead[c] => p \in ahead'[c]
    <3>1. ASSUME NEW q \in Pids, Work(q) PROVE Stays
      BY <3>1 DEF Work, collectionVars
    <3>2. ASSUME NEW q \in Pids, Exit(q) PROVE Stays
      BY <2>1, <3>2 DEF Exit, TypeInv
    <3>3. ASSUME NEW q \in Pids, StartProcess(q) PROVE Stays
      <4>1. q # p
        BY <2>1, <3>3 DEF StartProcess
      <4> QED
        BY <2>1, <3>3, <4>1 DEF StartProcess
    <3> QED
      BY <3>1, <3>2, <3>3 DEF Kernel
  <2>2. \A p \in DOMAIN first : name'[p] # None => name[p] # None
    BY <1>3, <1>4 DEF RecordsAreKept
  <2>3. running \subseteq Collections
    BY DEF TypeInv, CollectionTypes
  <2>4. ASSUME NEW c \in running, NEW p \in DOMAIN first
        PROVE  (name[p] # None => IsCovered(c, p))'
    BY <1>1, <1>3, <2>1, <2>2, <2>3, <2>4 DEF ListIsComplete, IsCovered, IsRead
  <2>5. ASSUME NEW c \in running, NEW p \in DOMAIN first
        PROVE  IsListedOnce(c, p)'
    BY <1>1, <1>3, <2>1, <2>3, <2>5 DEF ListIsComplete, IsListedOnce, IsRead
  <2> QED
    BY <1>1, <1>3, <2>4, <2>5 DEF ListIsComplete
<1>7. SumsAreExact'
  BY <1>1, <1>3 DEF SumsAreExact
<1> QED
  BY <1>5, <1>6, <1>7 DEF ExactInv

\* What the sum of Contributions adds up.
Contribution(from, to, p) == IF p \in DOMAIN from THEN to[p] - from[p] ELSE 0

(* Two records that differ in one process: the sum of what the processes     *)
(* contribute differs by what that one does.                                 *)
LEMMA ContributionsChange ==
    \A f, t, g, u \in Times :
        \A p \in Pids :
            /\ DOMAIN f \subseteq DOMAIN t /\ DOMAIN g \subseteq DOMAIN u
            /\ \A q \in Pids \ {p} : Contribution(g, u, q) = Contribution(f, t, q)
            => /\ Contributions(f, t) \in Int
               /\ Contributions(g, u) = Contributions(f, t)
                     + (Contribution(g, u, p) - Contribution(f, t, p))
<1> SUFFICES ASSUME NEW f \in Times, NEW t \in Times, NEW g \in Times,
                    NEW u \in Times, NEW p \in Pids,
                    DOMAIN f \subseteq DOMAIN t, DOMAIN g \subseteq DOMAIN u,
                    \A q \in Pids \ {p} : Contribution(g, u, q) = Contribution(f, t, q)
             PROVE  /\ Contributions(f, t) \in Int
                    /\ Contributions(g, u) = Contributions(f, t)
                          + (Contribution(g, u, p) - Contribution(f, t, p))
  OBVIOUS
<1>1. PICK a, b : /\ a = [q \in Pids |-> Contribution(f, t, q)]
                  /\ b = [q \in Pids |-> Contribution(g, u, q)]
  OBVIOUS
<1>2. /\ SumFunctionOnSet(a, Pids) = Contributions(f, t)
      /\ SumFunctionOnSet(b, Pids) = Contributions(g, u)
  BY <1>1, Zenon DEF Contributions, Contribution
<1>3. IsIntOn(a, Pids) /\ IsIntOn(b, Pids)
  BY <1>1, TimesAreNat DEF Contribution, IsIntOn
<1>4. \A q \in Pids \ {p} : b[q] = a[q]
  BY <1>1
<1>5. SumFunctionOnSet(b, Pids) = SumFunctionOnSet(a, Pids) + (b[p] - a[p])
  BY <1>3, <1>4, PidsAssumption, SumChange
<1>6. SumFunctionOnSet(a, Pids) \in Int
  BY <1>3, PidsAssumption, SumIsInt
<1> QED
  BY <1>1, <1>2, <1>5, <1>6

(* A read, undisturbed, keeps the equalities.                                *)
LEMMA ReadExact ==
    ASSUME TypeInv, IInv, ExactInv, ~disturbed', NEW c \in Collections, NEW p \in Pids,
           Reads(c, p), ReadExited(c, p) \/ ReadKworker(c, p) \/ ReadNamed(c, p)
    PROVE  ExactInv'
<1>1. /\ UNCHANGED <<name, time, kworkers, kworkersUsage, lock, running, ahead,
                     first, last, disturbed>>
      /\ lock = c /\ lock # None /\ todo[c][p] > 0
      /\ todo' = [todo EXCEPT ![c][p] = @ - 1]
  BY NoneAssumption DEF Reads, ReadExited, ReadKworker, ReadNamed, kernelVars, stateVars
<1>2. RecordsAreKept /\ ListIsComplete /\ SumsAreExact
  BY <1>1 DEF ExactInv
<1>3. IF name[p] = Kworker
      THEN /\ reads' = With(reads, p) /\ newKworkers' = With(newKworkers, p)
           /\ newUsage' = newUsage + Growth(p)
      ELSE UNCHANGED <<reads, newKworkers, newUsage>>
  BY NamesAssumption, NoneAssumption DEF Reads, ReadExited, ReadKworker, ReadNamed
<1>4. /\ DOMAIN reads' = DOMAIN reads \cup (IF name[p] = Kworker THEN {p} ELSE {})
      /\ c \in running /\ running \subseteq Collections
      /\ p \in DOMAIN first => todo[c][p] = 1 /\ p \notin DOMAIN reads
  <2>1. c \in running /\ running \subseteq Collections /\ todo[c][p] \in Nat
    BY <1>1 DEF TypeInv, CollectionTypes
  <2>2. p \in DOMAIN first => todo[c][p] = 1 /\ p \notin DOMAIN reads
    BY <1>1, <1>2, <2>1 DEF ListIsComplete, IsListedOnce, IsRead
  <2> QED
    BY <1>3, <2>1, <2>2 DEF With
<1>5. RecordsAreKept'
  <2>1. newKworkers' = reads'
    BY <1>2, <1>3 DEF RecordsAreKept
  <2>2. ASSUME NEW q \in DOMAIN reads' PROVE IsSame(reads, q)'
    BY <1>1, <1>2, <1>3, <1>4 DEF RecordsAreKept, IsSame, With, TypeInv, TimeIsBounded
  <2> QED
    BY <1>1, <1>2, <2>1, <2>2 DEF RecordsAreKept, IsSame
<1>6. ListIsComplete'
  <2>1. /\ todo'[c][p] = todo[c][p] - 1
        /\ \A q \in Pids \ {p} : todo'[c][q] = todo[c][q]
        /\ \A d \in Collections \ {c} : todo'[d] = todo[d]
        /\ \A q \in Pids : todo[c][q] \in Nat
    BY <1>1 DEF TypeInv, CollectionTypes
  <2>2. \A q \in DOMAIN first : q \in Pids
    BY TimesAreNat DEF TypeInv, RecordTypes
  <2>3. ASSUME NEW q \in DOMAIN first, name[q] # None PROVE IsCovered(c, q)'
    <3>1. IsCovered(c, q)
      BY <1>2, <1>4, <2>3 DEF ListIsComplete
    <3>2. name[q] = Kworker
      BY <1>2, <2>3 DEF RecordsAreKept, IsSame
    <3> QED
      BY <1>1, <1>4, <2>1, <2>2, <3>1, <3>2 DEF IsCovered, IsRead
  <2>4. ASSUME NEW q \in DOMAIN first PROVE IsListedOnce(c, q)'
    <3>1. IsListedOnce(c, q)
      BY <1>2, <1>4 DEF ListIsComplete
    <3>2. CASE q = p
      BY <1>1, <1>4, <2>1, <2>2, <3>1, <3>2 DEF IsListedOnce, IsRead
    <3>3. CASE q # p
      BY <1>1, <1>4, <2>1, <2>2, <3>1, <3>3 DEF IsListedOnce, IsRead
    <3> QED
      BY <3>2, <3>3
  <2>5. \A d \in running : d = c
    BY <1>2, <1>4 DEF ListIsComplete
  <2> QED
    BY <1>1, <1>2, <1>4, <2>1, <2>3, <2>4, <2>5 DEF ListIsComplete
<1>7. SumsAreExact'
  <2>1. CASE name[p] # Kworker
    BY <1>1, <1>2, <1>3, <2>1 DEF SumsAreExact
  <2>2. CASE name[p] = Kworker
    <3>1. PICK f, t, g, u : /\ f = Merge(first, reads) /\ t = Merge(reads, last)
                            /\ g = Merge(first, With(reads, p))
                            /\ u = Merge(With(reads, p), last)
      OBVIOUS
    <3>2. /\ first \in Times /\ last \in Times /\ reads \in Times
          /\ kworkers \in Times
      BY DEF TypeInv, RecordTypes
    <3>3. f \in Times /\ t \in Times /\ g \in Times /\ u \in Times
      BY <3>1, <3>2, TimesFacts DEF TypeInv
    <3>4. DOMAIN first = DOMAIN last
      BY <1>2 DEF RecordsAreKept
    <3>5. DOMAIN f \subseteq DOMAIN t /\ DOMAIN g \subseteq DOMAIN u
      BY <3>1, <3>4 DEF Merge
    <3>6. \A q \in Pids \ {p} : Contribution(g, u, q) = Contribution(f, t, q)
      <4> SUFFICES ASSUME NEW q \in Pids \ {p}
                   PROVE  Contribution(g, u, q) = Contribution(f, t, q)
        OBVIOUS
      <4>1. q \in DOMAIN g <=> q \in DOMAIN f
        BY <3>1 DEF Merge, With
      <4>2. q \in DOMAIN f => q \in DOMAIN reads \cup DOMAIN last
        BY <3>1, <3>4 DEF Merge
      <4>3. q \in DOMAIN f => g[q] = f[q]
        BY <3>1 DEF Merge, With
      <4>4. q \in DOMAIN f => u[q] = t[q]
        BY <3>1, <4>2 DEF Merge, With
      <4> QED
        BY <4>1, <4>3, <4>4 DEF Contribution
    <3>7. Contribution(g, u, p) - Contribution(f, t, p) = Growth(p)
      <4>1. time[p] \in Nat
        BY DEF TypeInv, TimeIsBounded
      <4>2. CASE p \in DOMAIN first
        <5>1. /\ p \in DOMAIN kworkers /\ kworkers[p] = last[p] /\ time[p] >= last[p]
          BY <1>2, <2>2, <4>2, NamesAssumption, NoneAssumption DEF RecordsAreKept, IsSame
        <5>2. first[p] \in Nat /\ last[p] \in Nat
          BY <3>2, <3>4, <4>2, TimesAreNat
        <5>3. Contribution(g, u, p) = time[p] - first[p]
          BY <3>1, <4>2 DEF Contribution, Merge, With
        <5>4. Contribution(f, t, p) = last[p] - first[p]
          <6>1. f[p] = first[p] /\ p \in DOMAIN f /\ t[p] = last[p]
            BY <1>4, <3>1, <3>4, <4>2 DEF Merge
          <6> QED
            BY <6>1 DEF Contribution
        <5>5. Growth(p) = time[p] - last[p]
          BY <5>1 DEF Growth
        <5> QED
          BY <4>1, <5>2, <5>3, <5>4, <5>5
      <4>3. CASE p \notin DOMAIN first
        <5>1. p \notin DOMAIN kworkers
          BY <1>2, <4>3 DEF RecordsAreKept
        <5>2. Contribution(g, u, p) = time[p] - time[p]
          BY <3>1, <4>3 DEF Contribution, Merge, With
        <5>3. Contribution(f, t, p) = 0
          <6>1. p \in DOMAIN reads => reads[p] \in Nat
            BY <3>2, TimesAreNat
          <6>2. p \in DOMAIN f <=> p \in DOMAIN reads
            BY <3>1, <4>3 DEF Merge
          <6>3. p \in DOMAIN reads => f[p] = reads[p] /\ t[p] = reads[p]
            BY <3>1, <4>3 DEF Merge
          <6> QED
            BY <6>1, <6>2, <6>3 DEF Contribution
        <5>4. Growth(p) = 0
          BY <5>1 DEF Growth
        <5> QED
          BY <4>1, <5>2, <5>3, <5>4
      <4> QED
        BY <4>2, <4>3
    <3>8. Contributions(g, u) = Contributions(f, t) + Growth(p)
      BY <3>3, <3>5, <3>6, <3>7, ContributionsChange
    <3>9. newUsage' = Contributions(g, u)
      BY <1>1, <1>2, <1>3, <2>2, <3>1, <3>8 DEF SumsAreExact
    <3>10. newUsage' = Contributions(Merge(first', reads'), Merge(reads', last'))
      BY <1>1, <1>3, <2>2, <3>1, <3>9
    <3> QED
      BY <1>1, <1>2, <3>10 DEF SumsAreExact
  <2> QED
    BY <2>1, <2>2
<1> QED
  BY <1>5, <1>6, <1>7 DEF ExactInv

(* A step of a collection, undisturbed, keeps the equalities.                *)
LEMMA CollectExact == TypeInv /\ IInv /\ ExactInv /\ Collect => ExactInv'
<1> SUFFICES ASSUME TypeInv, IInv, ExactInv, Collect, ~disturbed' PROVE ExactInv'
  BY DEF ExactInv
<1>1. ~disturbed /\ RecordsAreKept /\ ListIsComplete /\ SumsAreExact
  <2>1. ASSUME NEW c \in Collections, List(c) PROVE ~disturbed
    BY <2>1, Zenon DEF List
  <2>2. ASSUME NEW c \in Collections, Acquire(c) \/ ReadFails(c) \/ Finish(c)
        PROVE  ~disturbed
    BY <2>2 DEF Acquire, ReadFails, Finish
  <2>5. ASSUME NEW c \in Collections,
               ListFails(c) \/ \E p \in Pids : ListPid(c, p)
        PROVE  ~disturbed
    BY <2>5 DEF ListPid, ListFails, historyVars
  <2>3. ASSUME NEW c \in Collections, NEW p \in Pids,
               \/ ReadExited(c, p) \/ ReadUnparsable(c, p)
               \/ ReadKworker(c, p) \/ ReadNamed(c, p)
        PROVE  ~disturbed
    BY <2>3 DEF ReadExited, ReadUnparsable, ReadKworker, ReadNamed
  <2>4. ~disturbed
    BY <2>1, <2>2, <2>3, <2>5 DEF Collect, Read
  <2> QED
    BY <2>4 DEF ExactInv
<1>0. /\ running \subseteq Collections /\ lock \in running \cup {None}
      /\ todo \in [Collections -> [Pids -> Nat]]
      /\ ahead \in [Collections -> SUBSET Pids]
      /\ \A p \in DOMAIN first : p \in Pids
  BY TimesAreNat DEF TypeInv, CollectionTypes, RecordTypes
<1>2. ASSUME NEW c \in Collections, List(c) PROVE ExactInv'
  <2>1. /\ UNCHANGED <<name, time, kworkers, kworkersUsage, lock, todo,
                       newKworkers, newUsage, reads, first, last>>
        /\ running = {} /\ running' = {c}
        /\ ahead' = [ahead EXCEPT ![c] = Live]
    BY <1>2 DEF List, kernelVars, stateVars
  <2>2. lock = None /\ lock # c
    BY <1>0, <2>1, NoneAssumption
  <2>3. RecordsAreKept' /\ SumsAreExact'
    BY <1>1, <2>1 DEF RecordsAreKept, IsSame, SumsAreExact
  <2>4. ahead'[c] = Live /\ \A d \in Collections : todo[d] = NoLines
    BY <1>0, <1>1, <2>1 DEF ListIsComplete
  <2>5. ListIsComplete'
    BY <1>0, <2>1, <2>2, <2>4
       DEF ListIsComplete, IsCovered, IsListedOnce, IsRead, Live, NoLines
  <2> QED
    BY <2>3, <2>5 DEF ExactInv
<1>8. ASSUME NEW c \in Collections, NEW p \in Pids, ListPid(c, p) PROVE ExactInv'
  <2>1. /\ UNCHANGED <<name, time, kworkers, kworkersUsage, lock, running,
                       newKworkers, newUsage, reads, first, last>>
        /\ c \in running /\ lock # c /\ p \in ahead[c]
    BY <1>8 DEF ListPid, IsListing, kernelVars, stateVars, historyVars
  <2>2. RecordsAreKept' /\ SumsAreExact'
    BY <1>1, <2>1 DEF RecordsAreKept, IsSame, SumsAreExact
  <2>3. /\ ahead'[c] = ahead[c] \ {p}
        /\ todo'[c][p] = todo[c][p] + 1
        /\ \A q \in Pids \ {p} : todo'[c][q] = todo[c][q]
        /\ \A d \in Collections \ {c} : todo'[d] = todo[d]
        /\ \A q \in Pids : todo[c][q] \in Nat
    BY <1>0, <1>8 DEF ListPid
  <2>4. \A d \in running : d = c
    BY <1>1, <2>1 DEF ListIsComplete
  <2>5. ASSUME NEW q \in DOMAIN first PROVE (name[q] # None => IsCovered(c, q))'
    <3>1. name[q] # None => IsCovered(c, q)
      BY <1>1, <2>1 DEF ListIsComplete
    <3>2. q \in Pids /\ (q = p \/ q # p)
      BY <1>0
    <3> QED
      BY <2>1, <2>3, <3>1, <3>2 DEF IsCovered, IsRead
  <2>6. ASSUME NEW q \in DOMAIN first PROVE IsListedOnce(c, q)'
    <3>1. IsListedOnce(c, q) /\ q \in Pids
      BY <1>0, <1>1, <2>1 DEF ListIsComplete
    <3>2. CASE q = p
      <4>1. todo[c][p] = 0
        BY <2>1, <2>3, <3>1, <3>2 DEF IsListedOnce
      <4> QED
        BY <2>1, <2>3, <3>2, <4>1 DEF IsListedOnce, IsRead
    <3>3. CASE q # p
      BY <2>1, <2>3, <3>1, <3>3 DEF IsListedOnce, IsRead
    <3> QED
      BY <3>2, <3>3
  <2>7. ListIsComplete'
    BY <1>1, <2>1, <2>3, <2>4, <2>5, <2>6 DEF ListIsComplete
  <2> QED
    BY <2>2, <2>7 DEF ExactInv
<1>9. ASSUME NEW c \in Collections, ListFails(c) PROVE ExactInv'
  <2>1. /\ UNCHANGED <<name, time, kworkers, kworkersUsage, lock,
                       newKworkers, newUsage, reads, first, last>>
        /\ c \in running /\ running' = running \ {c}
        /\ todo' = [todo EXCEPT ![c] = NoLines]
    BY <1>9 DEF ListFails, IsListing, kernelVars, stateVars, historyVars
  <2>2. RecordsAreKept' /\ SumsAreExact'
    BY <1>1, <2>1 DEF RecordsAreKept, IsSame, SumsAreExact
  <2>3. running' = {} /\ \A d \in Collections : todo'[d] = NoLines
    BY <1>0, <1>1, <2>1 DEF ListIsComplete
  <2>4. ListIsComplete'
    BY <2>3 DEF ListIsComplete
  <2> QED
    BY <2>2, <2>4 DEF ExactInv
<1>3. ASSUME NEW c \in Collections, Acquire(c) PROVE ExactInv'
  <2>1. /\ UNCHANGED <<name, time, kworkers, kworkersUsage, running, ahead,
                       todo, first, last>>
        /\ lock = None /\ lock' = c /\ c \in running /\ ahead[c] = {}
        /\ newUsage' = kworkersUsage
        /\ newKworkers' = Empty /\ reads' = Empty /\ DOMAIN Empty = {}
    BY <1>3 DEF Acquire, IsListing, kernelVars, stateVars, Empty
  <2>2. RecordsAreKept'
    BY <1>1, <2>1 DEF RecordsAreKept, IsSame
  <2>3. ListIsComplete'
    <3>1. \A d \in running : d = c /\ d # None
      BY <1>0, <1>1, <2>1, NoneAssumption DEF ListIsComplete
    <3>2. ASSUME NEW p \in DOMAIN first
          PROVE  /\ (name[p] # None => IsCovered(c, p))'
                 /\ IsListedOnce(c, p)'
      BY <1>1, <2>1, <3>1 DEF ListIsComplete, IsCovered, IsListedOnce, IsRead
    <3> QED
      BY <1>1, <2>1, <3>1, <3>2 DEF ListIsComplete
  <2>4. Merge(first, Empty) = first /\ Merge(Empty, last) = last
    <3>1. /\ first = [p \in DOMAIN first |-> first[p]]
          /\ last = [p \in DOMAIN last |-> last[p]]
      BY DEF TypeInv, RecordTypes, Times
    <3>2. /\ Merge(first, Empty) = [p \in DOMAIN first |-> first[p]]
          /\ Merge(Empty, last) = [p \in DOMAIN last |-> last[p]]
      BY DEF Merge, Empty
    <3> QED
      BY <3>1, <3>2
  <2>5. SumsAreExact'
    BY <1>1, <2>1, <2>4 DEF SumsAreExact
  <2> QED
    BY <2>2, <2>3, <2>5 DEF ExactInv
<1>4. ASSUME NEW c \in Collections, ReadFails(c) PROVE ExactInv'
  <2>1. /\ UNCHANGED <<name, time, kworkers, kworkersUsage, first, last>>
        /\ lock = c /\ lock' = None /\ todo' = [todo EXCEPT ![c] = NoLines]
        /\ running' = running \ {c}
        /\ newKworkers' = Empty /\ reads' = Empty /\ DOMAIN Empty = {}
    BY <1>4 DEF ReadFails, Unlock, kernelVars, stateVars, Empty
  <2>2. RecordsAreKept' /\ SumsAreExact'
    BY <1>1, <2>1 DEF RecordsAreKept, IsSame, SumsAreExact
  <2>4. running' = {} /\ \A d \in Collections : todo'[d] = NoLines
    BY <1>0, <1>1, <2>1, NoneAssumption DEF ListIsComplete
  <2>5. ListIsComplete'
    BY <2>1, <2>4 DEF ListIsComplete
  <2> QED
    BY <2>2, <2>5 DEF ExactInv
<1>5. ASSUME NEW c \in Collections, Finish(c) PROVE ExactInv'
  <2>1. /\ UNCHANGED <<name, time>> /\ kworkers' = reads /\ kworkersUsage' = newUsage
        /\ first' = Merge(first, reads) /\ last' = Merge(reads, last)
        /\ lock = c /\ lock # None /\ lock' = None
        /\ \A p \in Pids : todo[c][p] = 0
        /\ todo' = [todo EXCEPT ![c] = NoLines] /\ running' = running \ {c}
        /\ newKworkers' = Empty /\ reads' = Empty /\ DOMAIN Empty = {}
    BY <1>1, <1>5, NoneAssumption
       DEF Finish, Unlock, kernelVars, Empty, RecordsAreKept, NoLines
  <2>2. c \in running
    BY <1>0, <2>1
  <2>3. running' = {} /\ \A d \in Collections : todo'[d] = NoLines
    BY <1>0, <1>1, <2>1, <2>2 DEF ListIsComplete
  <2>4. ListIsComplete'
    BY <2>1, <2>3 DEF ListIsComplete
  <2>5. SumsAreExact'
    BY <1>1, <2>1 DEF SumsAreExact
  <2>6. \A p \in DOMAIN first : name[p] # None => p \in DOMAIN reads
    BY <1>0, <1>1, <2>1, <2>2
       DEF ListIsComplete, IsCovered, IsListedOnce, IsRead
  <2>7. /\ DOMAIN first = DOMAIN last
        /\ DOMAIN first' = DOMAIN first \cup DOMAIN reads
        /\ DOMAIN last' = DOMAIN first'
        /\ \A p \in DOMAIN reads : last'[p] = reads[p]
        /\ \A p \in DOMAIN last \ DOMAIN reads : last'[p] = last[p]
    BY <1>1, <2>1 DEF RecordsAreKept, Merge
  <2>8. ASSUME NEW p \in DOMAIN first'
        PROVE  IsSame(last, p)' /\ (name'[p] # None => p \in DOMAIN kworkers')
    <3>1. CASE p \in DOMAIN reads
      BY <1>1, <2>1, <2>7, <3>1 DEF RecordsAreKept, IsSame
    <3>2. CASE p \notin DOMAIN reads
      BY <2>1, <2>6, <2>7, <3>2, NamesAssumption, NoneAssumption DEF IsSame
    <3> QED
      BY <3>1, <3>2
  <2>9. RecordsAreKept'
    BY <2>1, <2>7, <2>8 DEF RecordsAreKept
  <2> QED
    BY <2>4, <2>5, <2>9 DEF ExactInv
<1>6. ASSUME NEW c \in Collections, NEW p \in Pids,
             ReadExited(c, p) \/ ReadKworker(c, p) \/ ReadNamed(c, p)
      PROVE  ExactInv'
  <2>1. Reads(c, p)
    BY <1>6 DEF ReadExited, ReadKworker, ReadNamed
  <2> QED
    BY <1>6, <2>1, ReadExact
<1>7. ~ \E c \in Collections, p \in Pids : ReadUnparsable(c, p)
  BY DEF ReadUnparsable
<1> QED
  BY <1>2, <1>3, <1>4, <1>5, <1>6, <1>7, <1>8, <1>9 DEF Collect, Read

(* The initial state satisfies the equalities.                               *)
LEMMA InitExact == Init => ExactInv
<1> SUFFICES ASSUME Init PROVE ExactInv
  OBVIOUS
<1>1. DOMAIN Empty = {}
  BY DEF Empty
<1>2. RecordsAreKept /\ ListIsComplete
  BY <1>1 DEF Init, RecordsAreKept, ListIsComplete
<1>3. Contributions(Empty, Empty) = 0
  <2>1. PICK a : a = [p \in Pids |-> 0]
    OBVIOUS
  <2>2. Contributions(Empty, Empty) = SumFunctionOnSet(a, Pids)
    BY <2>1, <1>1, Zenon DEF Contributions
  <2> QED
    BY <2>1, <2>2, PidsAssumption, SumOfZeros
<1>4. SumsAreExact
  BY <1>3 DEF Init, SumsAreExact
<1> QED
  BY <1>2, <1>4 DEF ExactInv

(* As long as collections do not overlap and no PID is used again, every     *)
(* kworker contributes all it has used between the first and the last        *)
(* completed collection that has read it: a collection that fails halfway    *)
(* loses nothing, the next one catches up (collector.go:80-142).             *)
THEOREM UsageIsExactWhenUndisturbed == Spec => []ExactWhenUndisturbed
<1>1. ExactInv => ExactWhenUndisturbed
  BY DEF ExactInv, SumsAreExact, ExactWhenUndisturbed
<1>2. TypeInv /\ IInv /\ ExactInv /\ [Next]_vars => ExactInv'
  <2>1. ExactInv /\ UNCHANGED vars => ExactInv'
    <3> SUFFICES ASSUME ExactInv, UNCHANGED vars PROVE ExactInv'
      OBVIOUS
    <3>1. UNCHANGED <<name, time, lock, running, ahead, todo, kworkers,
                      kworkersUsage, newKworkers, newUsage, reads, first, last,
                      disturbed>>
      BY DEF vars, kernelVars, stateVars, collectionVars, historyVars
    <3>2. RecordsAreKept /\ ListIsComplete => RecordsAreKept' /\ ListIsComplete'
      BY <3>1 DEF RecordsAreKept, ListIsComplete, IsSame, IsCovered,
                    IsListedOnce, IsRead
    <3>3. SumsAreExact => SumsAreExact'
      BY <3>1 DEF SumsAreExact
    <3> QED
      BY <3>1, <3>2, <3>3 DEF ExactInv
  <2> QED
    BY <2>1, KernelExact, CollectExact DEF Next
<1> QED
  BY <1>1, <1>2, InitExact, TypeInvariance, Invariance, PTL DEF Spec
=============================================================================
