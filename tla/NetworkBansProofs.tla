-------------------------- MODULE NetworkBansProofs --------------------------
(* What the network collector deletes and whom it warns about, and that a    *)
(* scan does not escape it, for every set of elements, every batch size and  *)
(* any number of collections.                                                *)
EXTENDS NetworkBans, SumTheorems

(* The collection whose warnings the bans kept in memory are: this one when  *)
(* none is running, the one before otherwise.                                *)
BannedIn == IF pc = "idle" THEN collection ELSE collection - 1

Types == /\ dryRun \in BOOLEAN
         /\ pc \in {"idle", "reading", "deleting", "scored"}
         /\ collection \in Nat /\ (pc # "idle" => collection > 0)
         /\ warned \in [Ips -> Nat]
         /\ banned \subseteq Ips /\ toBan \subseteq Ips
         /\ elements \subseteq Elements /\ stats \subseteq Elements
         /\ toDelete \subseteq Elements /\ deleted \subseteq Elements

BansWereWarned == IF dryRun THEN banned = {}
                            ELSE \A ip \in banned : warned[ip] = BannedIn

(* Before the scores nobody has been warned about by this collection, and    *)
(* whoever was by the last is banned.                                        *)
WarnedAreBanned ==
    pc # "scored" /\ ~dryRun =>
        \A ip \in Ips : /\ warned[ip] <= BannedIn
                        /\ warned[ip] = BannedIn /\ warned[ip] > 0 => ip \in banned

(* After them the addresses to ban are those just warned about.              *)
ToBanAreWarned ==
    pc = "scored" /\ ~dryRun =>
        \A ip \in Ips : /\ warned[ip] <= collection
                        /\ warned[ip] = collection <=> ip \in toBan

DeletedAreBanned == \A e \in toDelete \cup deleted : e.ip \in banned

ScoredAreNotBanned ==
    pc \in {"reading", "deleting"} => \A e \in stats : e.ip \notin banned

IdleIsEmpty == /\ pc = "idle" => toDelete = {} /\ deleted = {} /\ stats = {}
               /\ pc = "scored" => stats = {}

IInv == /\ Types /\ BansWereWarned /\ WarnedAreBanned /\ ToBanAreWarned
        /\ DeletedAreBanned /\ ScoredAreNotBanned /\ IdleIsEmpty

(* An element belongs to one of the addresses.                               *)
LEMMA ElementHasIp == \A e \in Elements : e.ip \in Ips
BY DEF Ips

(* Only addresses that have an element are scored.                           *)
LEMMA ScannersHaveElements ==
    ASSUME NEW es, es \subseteq Elements
    PROVE  /\ Scanners(es) \subseteq Ips
           /\ \A ip \in Scanners(es) : \E e \in es : e.ip = ip
BY DEF Scanners, Scans, Ips

(* Scans are by addresses, in protocols.                                     *)
LEMMA ScansHaveProtocols ==
    ASSUME NEW es, es \subseteq Elements
    PROVE  Scans(es) \subseteq Ips \X ToSet(Protocols)
<1> SUFFICES ASSUME NEW scan \in Scans(es)
             PROVE  scan \in Ips \X ToSet(Protocols)
  OBVIOUS
<1>1. PICK e \in es : scan = <<e.ip, e.set[1]>>
  BY DEF Scans
<1>2. e.set[1] \in ToSet(Protocols)
  BY ElementsAssumption DEF ToSet, Sets, SetOf, Protocols
<1> QED
  BY <1>1, <1>2, ElementHasIp

(* The initial state satisfies the invariant.                                *)
LEMMA InitInv == Init => IInv
BY DEF Init, IInv, Types, BansWereWarned, WarnedAreBanned, ToBanAreWarned,
       DeletedAreBanned, ScoredAreNotBanned, IdleIsEmpty, BannedIn

(* The kernel changes nothing but its sets.                                  *)
LEMMA KernelInv == IInv /\ Kernel => IInv'
<1> SUFFICES ASSUME IInv, Kernel PROVE IInv'
  OBVIOUS
<1>1. elements' \subseteq Elements
  BY DEF Kernel, Reject, Expire, IInv, Types
<1>2. UNCHANGED <<dryRun, banned, pc, toDelete, stats, toBan, collection,
                  warned, deleted>>
  BY DEF Kernel, Reject, Expire, collectionVars, historyVars
<1> QED
  BY <1>1, <1>2 DEF IInv, Types, BansWereWarned, WarnedAreBanned, ToBanAreWarned,
       DeletedAreBanned, ScoredAreNotBanned, IdleIsEmpty, BannedIn

(* A collection that fails forgets the bans: nobody was warned about by it.  *)
LEMMA FailInv ==
    ASSUME IInv, Fail, pc \in {"reading", "deleting"}
    PROVE  IInv'
<1> USE DEF IInv, Types, BannedIn
<1>1. /\ pc' = "idle" /\ toDelete' = {} /\ stats' = {} /\ toBan' = {}
      /\ deleted' = {}
      /\ UNCHANGED <<elements, dryRun, collection, warned>>
      /\ banned' = IF dryRun THEN banned ELSE {}
  BY DEF Fail, ForgetBans, Return
<1>2. Types' /\ BansWereWarned'
  BY <1>1 DEF BansWereWarned
<1>3. WarnedAreBanned'
  BY <1>1 DEF WarnedAreBanned
<1> QED
  BY <1>1, <1>2, <1>3 DEF ToBanAreWarned, DeletedAreBanned, ScoredAreNotBanned,
                          IdleIsEmpty

(* The steps of a collection.                                                *)
LEMMA CollectInv == IInv /\ Collect => IInv'
<1> SUFFICES ASSUME IInv, Collect PROVE IInv'
  OBVIOUS
<1> USE DEF IInv, Types, BannedIn
<1>1. CASE Start
  BY <1>1 DEF Start, BansWereWarned, WarnedAreBanned, ToBanAreWarned,
              DeletedAreBanned, ScoredAreNotBanned, IdleIsEmpty
<1>2. CASE ReadSet
  <2> DEFINE found == {e \in elements : e.set = Head(todo)}
             skipped == {e \in found : e.ip \in banned}
  <2>1. /\ pc = "reading"
        /\ toDelete' = toDelete \cup skipped
        /\ stats' = stats \cup (found \ skipped)
        /\ UNCHANGED <<elements, dryRun, banned, pc, toBan, collection, warned,
                       deleted>>
    BY <1>2 DEF ReadSet, historyVars
  <2>2. Types' /\ BansWereWarned' /\ WarnedAreBanned' /\ ToBanAreWarned'
    BY <2>1 DEF BansWereWarned, WarnedAreBanned, ToBanAreWarned
  <2>3. DeletedAreBanned'
    BY <2>1 DEF DeletedAreBanned
  <2>4. ScoredAreNotBanned'
    BY <2>1 DEF ScoredAreNotBanned
  <2> QED
    BY <2>1, <2>2, <2>3, <2>4 DEF IdleIsEmpty
<1>3. CASE StartDeleting
  BY <1>3 DEF StartDeleting, BansWereWarned, WarnedAreBanned, ToBanAreWarned,
              DeletedAreBanned, ScoredAreNotBanned, IdleIsEmpty, historyVars
<1>4. CASE DeleteBatch
  <2>1. PICK batch \in SUBSET toDelete :
           /\ elements' = elements \ batch
           /\ toDelete' = toDelete \ batch
           /\ deleted' = deleted \cup batch
    BY <1>4 DEF DeleteBatch, kSubset
  <2>2. /\ pc = "deleting"
        /\ UNCHANGED <<dryRun, banned, pc, stats, toBan, collection, warned>>
    BY <1>4 DEF DeleteBatch
  <2>3. Types' /\ BansWereWarned' /\ WarnedAreBanned' /\ ToBanAreWarned'
    BY <2>1, <2>2 DEF BansWereWarned, WarnedAreBanned, ToBanAreWarned
  <2>4. DeletedAreBanned'
    BY <2>1, <2>2 DEF DeletedAreBanned
  <2> QED
    BY <2>2, <2>3, <2>4 DEF ScoredAreNotBanned, IdleIsEmpty
<1>5. CASE CollectFails
  BY <1>5, FailInv DEF CollectFails
<1>6. CASE FlushFails
  BY <1>6, FailInv DEF FlushFails
<1>7. CASE ScoreAddresses
  <2>1. /\ pc = "deleting" /\ pc' = "scored"
        /\ toBan' = Scanners(stats) /\ stats' = {}
        /\ warned' = [ip \in Ips |-> IF ip \in toBan' THEN collection
                                                      ELSE warned[ip]]
        /\ UNCHANGED <<elements, dryRun, banned, toDelete, collection, deleted>>
    BY <1>7 DEF ScoreAddresses
  <2>2. toBan' \subseteq Ips /\ \A ip \in toBan' : ip \notin banned
    BY <2>1, ScannersHaveElements DEF ScoredAreNotBanned
  <2>3. Types'
    BY <2>1, <2>2
  <2>4. BansWereWarned'
    BY <2>1, <2>2 DEF BansWereWarned
  <2>5. ToBanAreWarned'
    BY <2>1, <2>2 DEF ToBanAreWarned, WarnedAreBanned
  <2> QED
    BY <2>1, <2>3, <2>4, <2>5 DEF WarnedAreBanned, DeletedAreBanned,
                                  ScoredAreNotBanned, IdleIsEmpty
<1>8. CASE Finish
  <2>1. /\ pc = "scored" /\ pc' = "idle"
        /\ toDelete' = {} /\ stats' = {} /\ toBan' = {} /\ deleted' = {}
        /\ UNCHANGED <<elements, dryRun, collection, warned>>
        /\ banned' = IF dryRun THEN banned ELSE toBan
    BY <1>8 DEF Finish, Return
  <2>2. Types' /\ BansWereWarned'
    BY <2>1 DEF BansWereWarned, ToBanAreWarned
  <2>3. WarnedAreBanned'
    BY <2>1 DEF WarnedAreBanned, ToBanAreWarned
  <2> QED
    BY <2>1, <2>2, <2>3 DEF ToBanAreWarned, DeletedAreBanned, ScoredAreNotBanned,
                            IdleIsEmpty
<1> QED
  BY <1>1, <1>2, <1>3, <1>4, <1>5, <1>6, <1>7, <1>8 DEF Collect

(* Every step keeps the invariant.                                           *)
LEMMA NextInv == IInv /\ [Next]_vars => IInv'
<1> SUFFICES ASSUME IInv, [Next]_vars PROVE IInv'
  OBVIOUS
<1>1. CASE Kernel
  BY <1>1, KernelInv
<1>2. CASE Collect
  BY <1>2, CollectInv
<1>3. CASE Close \/ UNCHANGED vars
  BY <1>3 DEF Close, vars, IInv, Types, BansWereWarned, WarnedAreBanned,
              ToBanAreWarned, DeletedAreBanned, ScoredAreNotBanned,
              IdleIsEmpty, BannedIn, collectionVars, historyVars
<1> QED
  BY <1>1, <1>2, <1>3 DEF Next

(* The bans in memory are the warnings of the last collection, if it ended   *)
(* well, and nobody's otherwise.                                             *)
THEOREM Invariance == Spec => []IInv
BY InitInv, NextInv, PTL DEF Spec

(* Whatever is deleted belongs to an address that the collection just before *)
(* has warned about, and a dry run deletes nothing (collector.go:86-89,      *)
(* 151-154, 432-464).                                                        *)
THEOREM DeletionsAreAnnounced == Spec => []DeletedWereWarned
<1>1. IInv => DeletedWereWarned
  BY DEF IInv, Types, BannedIn, BansWereWarned, DeletedAreBanned, IdleIsEmpty,
         DeletedWereWarned
<1> QED
  BY <1>1, Invariance, PTL

(* No two collections in a row warn about one address (collector.go:86-89,   *)
(* 143-206).                                                                 *)
THEOREM WarningsHavePauses == Spec => WarningsAlternate
<1> DEFINE Pause == \A ip \in Ips :
                        warned'[ip] # warned[ip] /\ warned[ip] > 0 /\ ~dryRun =>
                            warned'[ip] - warned[ip] > 1
<1>1. IInv /\ [Next]_vars => [Pause]_vars
  <2> SUFFICES ASSUME IInv, Next, NEW ip \in Ips, warned'[ip] # warned[ip],
                      warned[ip] > 0, ~dryRun
               PROVE  warned'[ip] - warned[ip] > 1
    OBVIOUS
  <2>1. ScoreAddresses
    BY DEF Next, Kernel, Reject, Expire, Collect, Start, ReadSet, StartDeleting,
           DeleteBatch, CollectFails, FlushFails, Fail, Return, Finish, Close,
           historyVars
  <2>2. /\ pc = "deleting" /\ ip \in Scanners(stats)
        /\ warned'[ip] = collection
    BY <2>1 DEF ScoreAddresses
  <2>3. ip \notin banned
    BY <2>2, ScannersHaveElements DEF IInv, Types, ScoredAreNotBanned
  <2> QED
    BY <2>2, <2>3 DEF IInv, Types, BannedIn, WarnedAreBanned
<1> QED
  BY <1>1, Invariance, PTL DEF Spec, WarningsAlternate

-----------------------------------------------------------------------------
(* What IInv leaves out of TypeOK.                                           *)
SetTypes == /\ todo \in Seq(ToSet(Sets))
            /\ isOpen \in BOOLEAN
            /\ exposed \subseteq Ips \X ToSet(Protocols)
            /\ collection \in 0..MaxCollections
            /\ warned \in [Ips -> 0..MaxCollections]

(* Any order of some of the sets is a sequence of sets.                      *)
LEMMA OrdersAreSequences ==
    ASSUME NEW sets \in SUBSET ToSet(Sets)
    PROVE  SetToSeqs(sets) \subseteq Seq(ToSet(Sets))
<1>1. ToSet(Sets) = {Sets[1], Sets[2], Sets[3], Sets[4]}
  BY DEF Sets, ToSet
<1>2. IsFiniteSet(sets)
  <2>1. IsFiniteSet({Sets[1]})
    BY FS_Singleton
  <2>2. IsFiniteSet({Sets[1]} \cup {Sets[2]})
    BY <2>1, FS_AddElement
  <2>3. IsFiniteSet({Sets[1]} \cup {Sets[2]} \cup {Sets[3]})
    BY <2>2, FS_AddElement
  <2>4. IsFiniteSet({Sets[1]} \cup {Sets[2]} \cup {Sets[3]} \cup {Sets[4]})
    BY <2>3, FS_AddElement
  <2>5. ToSet(Sets) = {Sets[1]} \cup {Sets[2]} \cup {Sets[3]} \cup {Sets[4]}
    BY <1>1
  <2> QED
    BY <2>4, <2>5, FS_Subset
<1>3. Cardinality(sets) \in Nat
  BY <1>2, FS_CardinalityType
<1>4. SetToSeqs(sets) \subseteq [1..Cardinality(sets) -> sets]
  BY DEF SetToSeqs
<1> HIDE DEF SetToSeqs
<1>5. [1..Cardinality(sets) -> sets] \subseteq Seq(ToSet(Sets))
  BY <1>3
<1> QED
  BY <1>4, <1>5

(* Every step keeps the types of the sets that are read and of the batches.  *)
LEMMA SetTypesInv == IInv /\ IInv' /\ SetTypes /\ [Next]_vars => SetTypes'
<1> SUFFICES ASSUME IInv, IInv', SetTypes, [Next]_vars PROVE SetTypes'
  OBVIOUS
<1> USE DEF SetTypes
<1>1. /\ elements' \subseteq Elements
      /\ Scans(elements) \subseteq Ips \X ToSet(Protocols)
  <2>1. elements \subseteq Elements /\ elements' \subseteq Elements
    BY DEF IInv, Types
  <2>2. Scans(elements) \subseteq Ips \X ToSet(Protocols)
    BY <2>1, ScansHaveProtocols
  <2> QED
    BY <2>1, <2>2
<1>2. Sets \in Seq(ToSet(Sets)) /\ <<>> \in Seq(ToSet(Sets))
  BY DEF Sets, ToSet
<1>3. CASE Kernel
  BY <1>1, <1>3 DEF Kernel, Reject, Expire, collectionVars, historyVars
<1>4. CASE Start
  BY <1>1, <1>2, <1>4, BoundsAssumption DEF Start
<1>5. CASE ReadSet
  BY <1>5 DEF ReadSet, historyVars
<1>6. CASE StartDeleting
  <2>1. {e.set : e \in toDelete} \subseteq ToSet(Sets)
    BY ElementsAssumption DEF IInv, Types
  <2> QED
    BY <1>6, <2>1, OrdersAreSequences DEF StartDeleting, historyVars
<1>7. CASE DeleteBatch
  <2>1. todo' \in Seq(ToSet(Sets))
    BY <1>7 DEF DeleteBatch
  <2> QED
    BY <1>7, <2>1 DEF DeleteBatch
<1>8. ASSUME Return PROVE SetTypes'
  BY <1>2, <1>8 DEF Return
<1>9. CASE CollectFails \/ FlushFails \/ Finish
  BY <1>8, <1>9 DEF CollectFails, FlushFails, Fail, Finish
<1>10. CASE ScoreAddresses
  BY <1>10 DEF ScoreAddresses
<1>11. CASE Close \/ UNCHANGED vars
  BY <1>11 DEF Close, vars, collectionVars, historyVars
<1> QED
  BY <1>3, <1>4, <1>5, <1>6, <1>7, <1>9, <1>10, <1>11 DEF Next, Collect

(* The initial state has these types.                                        *)
LEMMA InitSetTypes == Init => SetTypes
<1> SUFFICES ASSUME Init PROVE SetTypes
  OBVIOUS
<1>1. todo \in Seq(ToSet(Sets))
  BY DEF Init
<1>2. 0 \in 0..MaxCollections
  BY BoundsAssumption
<1>3. /\ isOpen = TRUE /\ exposed = {} /\ collection = 0
      /\ warned = [ip \in Ips |-> 0]
  BY DEF Init
<1> QED
  BY <1>1, <1>2, <1>3 DEF SetTypes

(* All state keeps its type, and what is deleted is not scored               *)
(* (collector.go:146-165).                                                   *)
THEOREM TypeCorrect == Spec => []TypeOK
<1>2. IInv /\ SetTypes => TypeOK
  <2> SUFFICES ASSUME IInv, SetTypes PROVE TypeOK
    OBVIOUS
  <2>1. toDelete \cap stats = {}
    BY DEF IInv, Types, DeletedAreBanned, ScoredAreNotBanned, IdleIsEmpty
  <2> QED
    BY <2>1 DEF IInv, Types, SetTypes, TypeOK
<1>3. IInv /\ [Next]_vars => IInv'
  BY NextInv
<1> QED
  BY InitInv, InitSetTypes, SetTypesInv, <1>2, <1>3, PTL DEF Spec
-----------------------------------------------------------------------------
(* What a collection still finds.                                            *)

(* Each set is read once.                                                    *)
SetsAreReadOnce ==
    pc = "reading" => \A i, j \in 1..Len(todo) : todo[i] = todo[j] => i = j

(* Nothing of a set is scored before it is read.                             *)
UnreadAreNotScored ==
    pc = "reading" => \A e \in stats : \A i \in 1..Len(todo) : e.set # todo[i]

(* The elements of a scan are in a set that has not been read.               *)
IsUnread(scan) ==
    /\ pc = "reading"
    /\ \E i \in 1..Len(todo), e \in Elements :
          e.set = todo[i] /\ scan = <<e.ip, e.set[1]>>

ScansGoOn == exposed \subseteq Scans(elements)

ExposedAreFound ==
    pc \in {"reading", "deleting"} =>
        \A scan \in exposed :
            scan[1] \in banned \/ IsUnread(scan) \/ scan \in Scans(stats)

FoundInv == /\ SetsAreReadOnce /\ UnreadAreNotScored /\ ScansGoOn
            /\ ExposedAreFound /\ ScannersAreFound

(* A port scores something or nothing.                                       *)
LEMMA ScoresAreNaturals ==
    \A isLocal, protocol : \A port \in Ports : scorePort(isLocal, protocol)[port] \in Nat
BY DEF scorePort, Score

(* More elements of the sets make more scans, not fewer.                     *)
LEMMA ScansGrow ==
    ASSUME NEW fs, fs \subseteq Elements, NEW es, es \subseteq fs
    PROVE  Scans(es) \subseteq Scans(fs)
<1> SUFFICES ASSUME NEW scan \in Scans(es) PROVE scan \in Scans(fs)
  OBVIOUS
<1>1. PICK e \in es : scan = <<e.ip, e.set[1]>>
  BY DEF Scans
<1>2. PICK ip, protocol : scan = <<ip, protocol>>
  BY <1>1
<1>3. PICK few, more : few = PortsOf(ip, protocol, es) /\ more = PortsOf(ip, protocol, fs)
  OBVIOUS
<1>4. few \subseteq more /\ more \subseteq Ports
  BY <1>3, ElementsAssumption DEF PortsOf
<1>5. IsFiniteSet(more)
  <2>1. IsFiniteSet(Ports)
    <3>1. PICK last \in Int : last = 65535
      OBVIOUS
    <3>2. Ports = 0..last
      BY <3>1 DEF Ports
    <3>3. IsFiniteSet(0..last)
      BY FS_Interval
    <3> QED
      BY <3>2, <3>3, Zenon
  <2> QED
    BY <1>4, <2>1, FS_Subset
<1>6. PICK isLocal : isLocal = (ip \in LocalNetworks)
  OBVIOUS
<1>7. PICK score : score = scorePort(isLocal, protocol)
  OBVIOUS
<1>8. \A port \in more : score[port] \in Nat
  BY <1>4, <1>7, ScoresAreNaturals
<1>9. SumFunctionOnSet(score, few) <= SumFunctionOnSet(score, more)
  BY <1>4, <1>5, <1>8, SumOfMore
<1>10. SumFunctionOnSet(score, few) \in Nat /\ SumFunctionOnSet(score, more) \in Nat
  <2>1. IsFiniteSet(few) /\ \A port \in few : score[port] \in Nat
    BY <1>4, <1>5, <1>8, FS_Subset
  <2> QED
    BY <1>5, <1>8, <2>1, SumIsNat
<1>11. PICK threshold \in Nat : threshold = PortScanThreshold(isLocal)
  BY DEF PortScanThreshold
<1>12. SumFunctionOnSet(score, few) > threshold
  <2>1. IsScan(ip, protocol, es)
    BY <1>2 DEF Scans
  <2> QED
    BY <2>1, <1>3, <1>6, <1>7, <1>11 DEF IsScan, ScorePortsUsage
<1>13. SumFunctionOnSet(score, more) > threshold
  BY <1>9, <1>10, <1>12
<1>14. IsScan(ip, protocol, fs)
  BY <1>3, <1>6, <1>7, <1>11, <1>13 DEF IsScan, ScorePortsUsage
<1> QED
  BY <1>1, <1>2, <1>14 DEF Scans

(* Whether an address scans in a protocol depends on its own elements.       *)
LEMMA ScanIsOfItsElements ==
    ASSUME NEW es, NEW fs, NEW scan \in Scans(es),
           {e \in es : scan = <<e.ip, e.set[1]>>} = {e \in fs : scan = <<e.ip, e.set[1]>>}
    PROVE  scan \in Scans(fs)
<1>1. PICK e \in es : scan = <<e.ip, e.set[1]>>
  BY DEF Scans
<1>2. PICK ip, protocol : scan = <<ip, protocol>>
  BY <1>1
<1>3. {f \in es : f.ip = ip /\ f.set[1] = protocol}
          = {f \in fs : f.ip = ip /\ f.set[1] = protocol}
  BY <1>2
<1>4. PortsOf(ip, protocol, es) = PortsOf(ip, protocol, fs)
  BY <1>3 DEF PortsOf
<1>5. IsScan(ip, protocol, fs)
  BY <1>2, <1>4 DEF Scans, IsScan
<1>6. e \in fs
  BY <1>1
<1> QED
  BY <1>1, <1>2, <1>5, <1>6 DEF Scans

(* All elements of a scan are in one set.                                    *)
LEMMA ScanIsInOneSet ==
    ASSUME NEW e \in Elements, NEW f \in Elements, e.ip = f.ip, e.set[1] = f.set[1]
    PROVE  e.set = f.set
<1>1. e.set[2] = f.set[2]
  BY ElementsAssumption
<1>2. \A set \in ToSet(Sets) : set = <<set[1], set[2]>>
  BY DEF ToSet, Sets, SetOf
<1> QED
  BY <1>1, <1>2, ElementsAssumption

(* A scanner is whoever scans in some protocol.                              *)
LEMMA ScanMakesScanner == \A es : \A scan \in Scans(es) : scan[1] \in Scanners(es)
BY DEF Scanners

(* The kernel leaves the collection and what it has read alone.              *)
LEMMA KernelFinds == IInv /\ FoundInv /\ Kernel => FoundInv'
<1> SUFFICES ASSUME IInv, FoundInv, Kernel PROVE FoundInv'
  OBVIOUS
<1>1. UNCHANGED <<pc, todo, stats, banned, toBan>>
  BY DEF Kernel, Reject, Expire, collectionVars
<1>2. exposed' \subseteq exposed
  BY DEF Kernel, Reject, Expire, historyVars
<1>3. ScansGoOn'
  <2>1. CASE \E e \in Elements : Reject(e)
    <3>1. elements' \subseteq Elements /\ elements \subseteq elements'
      BY <2>1 DEF Reject, IInv, Types
    <3>2. Scans(elements) \subseteq Scans(elements')
      BY <3>1, ScansGrow
    <3> QED
      BY <1>2, <3>2 DEF FoundInv, ScansGoOn
  <2>2. CASE \E e \in Elements : Expire(e)
    BY <2>2 DEF Expire, ScansGoOn
  <2> QED
    BY <2>1, <2>2 DEF Kernel
<1>4. SetsAreReadOnce' /\ UnreadAreNotScored'
  BY <1>1 DEF FoundInv, SetsAreReadOnce, UnreadAreNotScored
<1>5. ExposedAreFound'
  BY <1>1, <1>2 DEF FoundInv, ExposedAreFound, IsUnread
<1>6. ScannersAreFound'
  BY <1>1, <1>2 DEF FoundInv, ScannersAreFound
<1> QED
  BY <1>3, <1>4, <1>5, <1>6 DEF FoundInv

(* At the start of a collection nothing is read.                             *)
LEMMA StartFinds == IInv /\ FoundInv /\ Start => FoundInv'
<1> SUFFICES ASSUME IInv, FoundInv, Start PROVE FoundInv'
  OBVIOUS
<1>1. /\ pc' = "reading" /\ todo' = Sets /\ exposed' = Scans(elements)
      /\ elements' = elements /\ stats' = stats /\ stats = {}
  BY DEF Start, IInv, IdleIsEmpty
<1>2. SetsAreReadOnce' /\ UnreadAreNotScored' /\ ScansGoOn'
  BY <1>1 DEF SetsAreReadOnce, UnreadAreNotScored, ScansGoOn, Sets, SetOf
<1>3. ASSUME NEW scan \in exposed' PROVE IsUnread(scan)'
  <2>1. PICK e \in elements : scan = <<e.ip, e.set[1]>>
    BY <1>1, <1>3 DEF Scans
  <2>2. e \in Elements
    BY DEF IInv, Types
  <2>3. PICK i \in 1..Len(Sets) : e.set = Sets[i]
    BY <2>2, ElementsAssumption DEF ToSet, Sets
  <2> QED
    BY <1>1, <2>1, <2>2, <2>3 DEF IsUnread
<1>4. ExposedAreFound' /\ ScannersAreFound'
  BY <1>1, <1>3 DEF ExposedAreFound, ScannersAreFound
<1> QED
  BY <1>2, <1>4 DEF FoundInv

(* A set that is read is scored, but for the elements of the banned.         *)
LEMMA ReadSetFinds == IInv /\ SetTypes /\ FoundInv /\ ReadSet => FoundInv'
<1> SUFFICES ASSUME IInv, SetTypes, FoundInv, ReadSet PROVE FoundInv'
  OBVIOUS
<1>1. PICK head, tail : head = Head(todo) /\ tail = Tail(todo)
  OBVIOUS
<1>2. /\ pc = "reading" /\ todo # <<>> /\ todo' = tail
      /\ UNCHANGED <<elements, banned, pc, exposed>>
  BY <1>1 DEF ReadSet, historyVars
<1>3. /\ todo \in Seq(ToSet(Sets)) /\ Len(todo) \in Nat \ {0}
      /\ head = todo[1] /\ Len(tail) = Len(todo) - 1
      /\ \A i \in 1..Len(tail) : tail[i] = todo[i + 1] /\ i + 1 \in 1..Len(todo)
  BY <1>1, <1>2 DEF SetTypes
<1>4. PICK found : found = {e \in elements : e.set = head /\ e.ip \notin banned}
  OBVIOUS
<1>5. stats' = stats \cup found
  BY <1>1, <1>4 DEF ReadSet
<1>6. \A i, j \in 1..Len(todo) : todo[i] = todo[j] => i = j
  BY <1>2 DEF FoundInv, SetsAreReadOnce
<1>7. \A i \in 1..Len(tail) : tail[i] # head
  BY <1>3, <1>6
<1>8. SetsAreReadOnce'
  <2>1. ASSUME NEW i \in 1..Len(tail), NEW j \in 1..Len(tail), tail[i] = tail[j]
        PROVE  i = j
    <3>1. i + 1 = j + 1
      BY <1>3, <1>6, <2>1
    <3> QED
      BY <3>1
  <2> QED
    BY <1>2, <2>1 DEF SetsAreReadOnce
<1>9. UnreadAreNotScored'
  <2>1. ASSUME NEW e \in stats', NEW i \in 1..Len(tail) PROVE e.set # tail[i]
    <3>1. CASE e \in stats
      BY <1>2, <1>3, <3>1 DEF FoundInv, UnreadAreNotScored
    <3>2. CASE e \in found
      BY <1>4, <1>7, <3>2
    <3> QED
      BY <1>5, <3>1, <3>2
  <2> QED
    BY <1>2, <2>1 DEF UnreadAreNotScored
<1>10. ScansGoOn' /\ ScannersAreFound'
  BY <1>2 DEF FoundInv, ScansGoOn, ScannersAreFound
<1>11. ASSUME NEW scan \in exposed, scan[1] \notin banned, ~IsUnread(scan)'
       PROVE  scan \in Scans(stats')
  <2>1. scan \in Scans(elements)
    BY <1>11 DEF FoundInv, ScansGoOn
  <2>2. PICK e \in elements : scan = <<e.ip, e.set[1]>>
    BY <2>1 DEF Scans
  <2>3. /\ elements \subseteq Elements /\ stats \subseteq Elements
        /\ e \in Elements
    BY DEF IInv, Types
  <2>4. ASSUME NEW f \in Elements, scan = <<f.ip, f.set[1]>> PROVE f.set = e.set
    BY <2>2, <2>3, <2>4, ScanIsInOneSet
  <2>5. CASE e.set = head
    <3>1. ASSUME NEW f \in stats PROVE scan # <<f.ip, f.set[1]>>
      <4>1. f.set # head
        BY <1>2, <1>3 DEF FoundInv, UnreadAreNotScored
      <4> QED
        BY <2>3, <2>4, <2>5, <4>1
    <3>2. {f \in elements : scan = <<f.ip, f.set[1]>>}
              = {f \in stats' : scan = <<f.ip, f.set[1]>>}
      <4>1. ASSUME NEW f \in elements, scan = <<f.ip, f.set[1]>> PROVE f \in found
        BY <1>4, <1>11, <2>3, <2>4, <2>5, <4>1
      <4> QED
        BY <1>4, <1>5, <3>1, <4>1
    <3> QED
      BY <2>1, <3>2, ScanIsOfItsElements
  <2>6. CASE e.set # head
    <3>1. ~IsUnread(scan)
      <4>1. ASSUME NEW i \in 1..Len(todo), e.set = todo[i] PROVE FALSE
        <5>1. i # 1
          BY <1>3, <2>6, <4>1
        <5>2. i - 1 \in 1..Len(tail) /\ tail[i - 1] = todo[i]
          BY <1>3, <5>1
        <5> QED
          BY <1>2, <1>11, <2>2, <2>3, <4>1, <5>2 DEF IsUnread
      <4> QED
        BY <2>4, <4>1 DEF IsUnread
    <3>2. scan \in Scans(stats)
      BY <1>2, <1>11, <3>1 DEF FoundInv, ExposedAreFound
    <3>3. ASSUME NEW f \in found PROVE scan # <<f.ip, f.set[1]>>
      BY <1>4, <2>3, <2>4, <2>6
    <3>4. {f \in stats : scan = <<f.ip, f.set[1]>>}
              = {f \in stats' : scan = <<f.ip, f.set[1]>>}
      BY <1>5, <3>3
    <3> QED
      BY <3>2, <3>4, ScanIsOfItsElements
  <2> QED
    BY <2>5, <2>6
<1>12. ExposedAreFound'
  BY <1>2, <1>11 DEF ExposedAreFound
<1> QED
  BY <1>8, <1>9, <1>10, <1>12 DEF FoundInv

(* When all sets have been read, every scan has been.                        *)
LEMMA StartDeletingFinds == IInv /\ FoundInv /\ StartDeleting => FoundInv'
<1> SUFFICES ASSUME IInv, FoundInv, StartDeleting PROVE FoundInv'
  OBVIOUS
<1>1. /\ pc = "reading" /\ pc' = "deleting" /\ todo = <<>>
      /\ UNCHANGED <<elements, banned, stats, exposed>>
  BY DEF StartDeleting, historyVars
<1>2. \A scan : ~IsUnread(scan)
  BY <1>1 DEF IsUnread
<1>3. ExposedAreFound'
  BY <1>1, <1>2 DEF FoundInv, ExposedAreFound
<1> QED
  BY <1>1, <1>3 DEF FoundInv, SetsAreReadOnce, UnreadAreNotScored, ScansGoOn,
                    ScannersAreFound

(* A deletion is of elements that are not scored.                            *)
LEMMA DeleteBatchFinds == IInv /\ FoundInv /\ DeleteBatch => FoundInv'
<1> SUFFICES ASSUME IInv, FoundInv, DeleteBatch PROVE FoundInv'
  OBVIOUS
<1>1. /\ pc = "deleting" /\ pc' = pc /\ banned' = banned /\ stats' = stats
      /\ exposed' = exposed \cap Scans(elements')
  BY DEF DeleteBatch
<1>2. \A scan : ~IsUnread(scan)
  BY <1>1 DEF IsUnread
<1>3. ExposedAreFound'
  BY <1>1, <1>2 DEF FoundInv, ExposedAreFound
<1> QED
  BY <1>1, <1>3 DEF FoundInv, SetsAreReadOnce, UnreadAreNotScored, ScansGoOn,
                    ScannersAreFound

(* The scores are those of what was found.                                   *)
LEMMA ScoreAddressesFinds == IInv /\ FoundInv /\ ScoreAddresses => FoundInv'
<1> SUFFICES ASSUME IInv, FoundInv, ScoreAddresses PROVE FoundInv'
  OBVIOUS
<1>1. /\ pc = "deleting" /\ pc' = "scored" /\ toBan' = Scanners(stats)
      /\ UNCHANGED <<elements, banned, exposed>>
  BY DEF ScoreAddresses
<1>2. \A scan : ~IsUnread(scan)
  BY <1>1 DEF IsUnread
<1>3. ScannersAreFound'
  BY <1>1, <1>2, ScanMakesScanner DEF FoundInv, ExposedAreFound, ScannersAreFound
<1> QED
  BY <1>1, <1>3 DEF FoundInv, SetsAreReadOnce, UnreadAreNotScored, ScansGoOn,
                    ExposedAreFound

(* Every step keeps what a collection has found of the scans.                *)
LEMMA NextFinds == IInv /\ SetTypes /\ FoundInv /\ [Next]_vars => FoundInv'
<1> SUFFICES ASSUME IInv, SetTypes, FoundInv, [Next]_vars PROVE FoundInv'
  OBVIOUS
<1>1. ASSUME Return PROVE FoundInv'
  BY <1>1 DEF Return, FoundInv, SetsAreReadOnce, UnreadAreNotScored, ScansGoOn,
              ExposedAreFound, ScannersAreFound
<1>2. CASE CollectFails \/ FlushFails \/ Finish
  BY <1>1, <1>2 DEF CollectFails, FlushFails, Fail, Finish
<1>3. CASE Close \/ UNCHANGED vars
  BY <1>3 DEF Close, vars, collectionVars, historyVars, FoundInv, SetsAreReadOnce,
              UnreadAreNotScored, ScansGoOn, ExposedAreFound, ScannersAreFound,
              IsUnread
<1> QED
  BY <1>2, <1>3, KernelFinds, StartFinds, ReadSetFinds, StartDeletingFinds,
     DeleteBatchFinds, ScoreAddressesFinds DEF Next, Collect

(* An address that has been over the threshold of one protocol since the     *)
(* collection began is banned, whatever comes and goes while the sets are    *)
(* read (collector.go:116-206).                                              *)
THEOREM ScansAreFound == Spec => []ScannersAreFound
<1>1. Init => FoundInv
  BY DEF Init, FoundInv, SetsAreReadOnce, UnreadAreNotScored, ScansGoOn,
         ExposedAreFound, ScannersAreFound
<1>2. FoundInv => ScannersAreFound
  BY DEF FoundInv
<1> QED
  BY InitInv, NextInv, InitSetTypes, SetTypesInv, NextFinds, <1>1, <1>2, PTL DEF Spec
=============================================================================
