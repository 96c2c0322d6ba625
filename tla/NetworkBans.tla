----------------------------- MODULE NetworkBans -----------------------------
(* The network collector (internal/network/).  The firewall adds an element  *)
(* to one of four nftables sets for every address and port whose connections *)
(* it rejects; elements expire.  A collection reads the sets one by one,     *)
(* scores the ports of every address, and warns about port scans; fail2ban   *)
(* reads the warnings.  The elements of an address warned about are deleted  *)
(* by the next collection.  The collector's lock makes collections           *)
(* sequential, so one is modelled, step by step; the kernel changes the sets *)
(* between any two of its requests.                                          *)
EXTENDS Integers, Sequences, FiniteSetsExt, SequencesExt

CONSTANTS Elements,       \* what may be in the sets: [set, ip, port]
          LocalAddresses, \* addresses of this host
          LocalNetworks,  \* addresses of the networks it is in
          BatchSize,      \* elements deleted by one request
          NetlinkFails,   \* whether requests fail without a cause in the sets
          MaxCollections  \* bound: collections begun

Protocols == <<"tcp", "udp">>
SetOf(protocol, version) == <<protocol, version>>

\* The order in which the sets are read.
Sets == <<SetOf("tcp", 4), SetOf("udp", 4), SetOf("tcp", 6), SetOf("udp", 6)>>

Ips == {e.ip : e \in Elements}

Ports == 0..65535

ASSUME ElementsAssumption ==
    /\ \A e \in Elements : e.set \in ToSet(Sets) /\ e.port \in Ports
    /\ \A e, f \in Elements : e.ip = f.ip => e.set[2] = f.set[2]
ASSUME LocalAssumption == LocalAddresses \subseteq LocalNetworks
ASSUME BatchAssumption == BatchSize \in Nat \ {0}
ASSUME BoundsAssumption == NetlinkFails \in BOOLEAN /\ MaxCollections \in Nat

VARIABLES
    elements,    \* what is in the kernel's sets
    dryRun,
    isOpen,      \* c.connection is not nil
    banned,      \* c.banned
    \* a collection
    pc,          \* "idle", "reading", "deleting", "scored"
    todo,        \* the sets to read, then the sets to delete from
    toDelete,    \* elements of banned addresses
    stats,       \* the other elements
    toBan,
    \* history
    collection,  \* the number of this collection, or of the last one
    warned,      \* warned[ip]: the last collection that warned about it, or 0
    deleted,     \* the elements this collection has deleted
    exposed      \* the scans that have been going on ever since its start

collectionVars == <<pc, todo, toDelete, stats, toBan>>
historyVars == <<collection, warned, deleted, exposed>>
vars == <<elements, dryRun, isOpen, banned, collectionVars, historyVars>>

-----------------------------------------------------------------------------
(* Scores                                                                    *)

ScannedTCPPorts == {21, 23, 25, 110, 139, 445, 143, 389, 465, 500, 631, 993,
                    995, 1433, 2376, 3128, 3306, 3389, 4899, 5432, 5900, 5901,
                    6443, 6881, 8000, 8008, 8080, 8443, 8888, 10250}
LocalTCPPorts == {7, 53}
ScannedUDPPorts == {53, 137, 138, 5060}
LocalUDPPorts == {5353, 32412, 32414}

Score(port, isLocal, scanned, local) ==
    IF port \in local THEN IF isLocal THEN 0 ELSE 3
    ELSE IF port \in scanned THEN 3 ELSE 1

scorePort(isLocal, protocol) ==
    [port \in Ports |-> IF protocol = "tcp"
                        THEN Score(port, isLocal, ScannedTCPPorts, LocalTCPPorts)
                        ELSE Score(port, isLocal, ScannedUDPPorts, LocalUDPPorts)]

ScorePortsUsage(ports, isLocal, protocol) ==
    SumFunctionOnSet(scorePort(isLocal, protocol), ports)

PortScanThreshold(isLocal) == IF isLocal THEN 10 ELSE 5

\* The ports of ip in the sets of a protocol, as far as they are in es.
PortsOf(ip, protocol, es) ==
    {e.port : e \in {f \in es : f.ip = ip /\ f.set[1] = protocol}}

IsScan(ip, protocol, es) ==
    ScorePortsUsage(PortsOf(ip, protocol, es), ip \in LocalNetworks, protocol)
        > PortScanThreshold(ip \in LocalNetworks)

\* Who scans in which protocol.  Addresses of the host are passed over.
Scans(es) == {scan \in {<<e.ip, e.set[1]>> : e \in es} :
                scan[1] \notin LocalAddresses /\ IsScan(scan[1], scan[2], es)}

Scanners(es) == {scan[1] : scan \in Scans(es)}

-----------------------------------------------------------------------------
Init == /\ elements = {}
        /\ dryRun \in BOOLEAN
        /\ isOpen = TRUE /\ banned = {}
        /\ pc = "idle" /\ todo = <<>> /\ toDelete = {} /\ stats = {}
        /\ toBan = {}
        /\ collection = 0 /\ warned = [ip \in Ips |-> 0]
        /\ deleted = {} /\ exposed = {}

(* The kernel                                                                *)

Reject(e) == /\ e \notin elements
             /\ elements' = elements \cup {e}
             /\ UNCHANGED <<dryRun, isOpen, banned, collectionVars, historyVars>>

Expire(e) == /\ e \in elements
             /\ elements' = elements \ {e}
             /\ exposed' = exposed \cap Scans(elements')
             /\ UNCHANGED <<dryRun, isOpen, banned, collectionVars, collection,
                            warned, deleted>>

-----------------------------------------------------------------------------
(* A collection                                                              *)

Start == /\ pc = "idle" /\ isOpen /\ collection < MaxCollections
         /\ pc' = "reading" /\ todo' = Sets
         /\ collection' = collection + 1
         /\ exposed' = Scans(elements)
         /\ UNCHANGED <<elements, dryRun, isOpen, banned, toDelete, stats, toBan,
                        warned, deleted>>

\* Mutant: everything that was read is scored, before the bans are applied.
ReadSetScoresAll ==
    /\ pc = "reading" /\ todo # <<>>
    /\ LET found == {e \in elements : e.set = Head(todo)}
       IN  /\ toDelete' = toDelete \cup {e \in found : e.ip \in banned}
           /\ stats' = stats \cup found
    /\ todo' = Tail(todo)
    /\ UNCHANGED <<elements, dryRun, isOpen, banned, pc, toBan, historyVars>>

\* Mutant: the statistics of an address are started anew in every set.
ReadSetRestarts ==
    /\ pc = "reading" /\ todo # <<>>
    /\ LET found == {e \in elements : e.set = Head(todo) /\ e.ip \notin banned}
       IN  stats' = {e \in stats : \A f \in found : e.ip # f.ip} \cup found
    /\ todo' = Tail(todo)
    /\ UNCHANGED <<elements, dryRun, isOpen, banned, pc, toDelete, toBan,
                   historyVars>>

\* getSet, and what is done with the set's elements.
ReadSet ==
    /\ pc = "reading" /\ todo # <<>>
    /\ LET found == {e \in elements : e.set = Head(todo)}
           skipped == {e \in found : e.ip \in banned}
       IN  toDelete' = toDelete \cup skipped /\ stats' = stats \cup (found \ skipped)
    /\ todo' = Tail(todo)
    /\ UNCHANGED <<elements, dryRun, isOpen, banned, pc, toBan, historyVars>>

\* deleteBanned takes the sets in any order.
StartDeleting ==
    /\ pc = "reading" /\ todo = <<>>
    /\ pc' = "deleting"
    /\ todo' \in SetToSeqs({e.set : e \in toDelete})
    /\ UNCHANGED <<elements, dryRun, isOpen, banned, toDelete, stats, toBan,
                   historyVars>>

\* A batch is deleted as a whole, if all its elements are still there.
DeleteBatch ==
    /\ pc = "deleting" /\ todo # <<>>
    /\ LET rest == {e \in toDelete : e.set = Head(todo)}
           count == Min({BatchSize, Cardinality(rest)})
       IN  \E batch \in kSubset(count, rest) :
              /\ batch \subseteq elements
              /\ elements' = elements \ batch
              /\ toDelete' = toDelete \ batch
              /\ deleted' = deleted \cup batch
              /\ todo' = IF batch = rest THEN Tail(todo) ELSE todo
    /\ exposed' = exposed \cap Scans(elements')
    /\ UNCHANGED <<dryRun, isOpen, banned, pc, stats, toBan, collection, warned>>

\* Collect is left, and its variables with it.
Return == /\ pc' = "idle" /\ todo' = <<>>
          /\ toDelete' = {} /\ stats' = {} /\ toBan' = {}
          /\ deleted' = {} /\ exposed' = {}
          /\ UNCHANGED <<elements, dryRun, isOpen, collection, warned>>

\* Mutant: the bans survive a collection that failed.
ForgetNoBans == UNCHANGED banned

\* An error in front of the scores: there is nothing to ban.
ForgetBans == banned' = IF dryRun THEN banned ELSE {}

Fail == /\ ForgetBans
        /\ Return

\* A request fails, or the sets or interfaces are not what is expected.
CollectFails == NetlinkFails /\ pc \in {"reading", "deleting"} /\ Fail

\* Something in the batch has expired.
FlushFails ==
    /\ pc = "deleting" /\ todo # <<>>
    /\ LET rest == {e \in toDelete : e.set = Head(todo)}
           count == Min({BatchSize, Cardinality(rest)})
       IN  \E batch \in kSubset(count, rest) : ~(batch \subseteq elements)
    /\ Fail

\* What is not deleted is scored, and warned about.
ScoreAddresses ==
    /\ pc = "deleting" /\ todo = <<>>
    /\ pc' = "scored"
    /\ toBan' = Scanners(stats) /\ stats' = {}
    /\ warned' = [ip \in Ips |-> IF ip \in toBan' THEN collection
                                                  ELSE warned[ip]]
    /\ UNCHANGED <<elements, dryRun, isOpen, banned, todo, toDelete, collection,
                   deleted, exposed>>

\* collectForwardIPs, whether it fails or not.
Finish == /\ pc = "scored"
          /\ banned' = IF dryRun THEN banned ELSE toBan
          /\ Return

\* The lock is free.
Close == /\ pc = "idle" /\ isOpen
         /\ isOpen' = FALSE
         /\ UNCHANGED <<elements, dryRun, banned, collectionVars, historyVars>>

Kernel == \E e \in Elements : Reject(e) \/ Expire(e)

Collect == \/ Start \/ ReadSet \/ StartDeleting \/ DeleteBatch
           \/ CollectFails \/ FlushFails \/ ScoreAddresses \/ Finish

Next == Kernel \/ Collect \/ Close

Spec == Init /\ [][Next]_vars

\* What is deleted is not scored.
TypeOK == /\ elements \subseteq Elements /\ toDelete \subseteq Elements
          /\ toDelete \cap stats = {}
          /\ stats \subseteq Elements /\ deleted \subseteq Elements
          /\ dryRun \in BOOLEAN /\ isOpen \in BOOLEAN
          /\ pc \in {"idle", "reading", "deleting", "scored"}
          /\ todo \in Seq(ToSet(Sets))
          /\ banned \subseteq Ips /\ toBan \subseteq Ips
          /\ exposed \subseteq Ips \X ToSet(Protocols)
          /\ collection \in 0..MaxCollections
          /\ warned \in [Ips -> 0..MaxCollections]

-----------------------------------------------------------------------------
(* No evidence is destroyed: whatever is deleted from the sets belongs to an *)
(* address that the collection just before has warned about, also after      *)
(* failed requests and half-finished deletions, and a dry run deletes        *)
(* nothing (collector.go:86-89, 151-154, 171-173).                           *)
DeletedWereWarned == /\ \A e \in deleted : warned[e.ip] = collection - 1
                     /\ dryRun => deleted = {}

(* fail2ban is given a whole interval: no two collections in a row warn      *)
(* about one address, though it goes on scanning in both families and        *)
(* protocols (collector.go:86-89, 143-154).                                  *)
WarningsAlternate ==
    [][\A ip \in Ips : warned'[ip] # warned[ip] /\ warned[ip] > 0 /\ ~dryRun =>
            warned'[ip] - warned[ip] > 1]_vars

(* No scanner is overlooked: an address that has been over the threshold of  *)
(* one protocol since the collection began is banned by it or was by the     *)
(* last one, though the four sets are read at four moments and their         *)
(* elements come and go (collector.go:116-206).  An address that scans in    *)
(* the two protocols by turns may be over a threshold all the time and be    *)
(* missed: neither set is full at the moment it is read.                     *)
ScannersAreFound ==
    pc = "scored" => \A scan \in exposed : scan[1] \in toBan \cup banned

(* The comment at collector.go:87 on an address warned about: "remove the    *)
(* set elements on next iteration".  Once the next collection has begun, it  *)
(* ends with those elements removed from the sets, as far as it read them.   *)
RemovedOnNextIteration ==
    [][pc # "idle" /\ pc' = "idle" /\ ~dryRun =>
            \A e \in toDelete : e \notin elements]_vars
=============================================================================
