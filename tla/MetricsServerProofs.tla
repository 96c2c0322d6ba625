------------------------- MODULE MetricsServerProofs -------------------------
(* For any number of scrapes, containers and collectors left out: what main  *)
(* closes is not used any more, and at exit it is closed.                    *)
EXTENDS MetricsServer, SequenceTheorems, TLAPS

Steps == Collectors \cup Runtimes \cup {"collect", "listen"}

\* Types, without the caches: they are of no consequence here.
Types ==
    /\ devel \in BOOLEAN
    /\ starting \in Seq(Steps)
    /\ deferred \in Seq(Closers)
    /\ phase \in {"running", "closing", "exited"}
    /\ open \in SUBSET {"kernel", "network", "docker"}
    /\ inFlight \in SUBSET Scrapes
    /\ todo \in [Scrapes -> SUBSET Collectors]
    /\ registered \in SUBSET Collectors
    /\ lock \in [LockingCollectors -> Scrapes \cup {None}]
    /\ connected \in BOOLEAN

\* A lock is held by a collection that a scrape in flight waits for.
WorkIsAdmitted ==
    /\ \A r \in Scrapes : todo[r] # {} => r \in inFlight
    /\ \A c \in LockingCollectors :
          lock[c] # None => c \in todo[lock[c]]

ConnectionIsLocked == connected => lock["network"] # None /\ "network" \in open

\* All but the docker client is opened together with the call that closes it.
OpenIsDeferred ==
    /\ open \ {"docker"} \subseteq ToSet(deferred)
    /\ phase = "exited" => deferred = <<>>

\* The client is made by a walk: once the server listens, or in devel mode,
\* where main waits for the walk before it closes anything.
ClientIsDeferred ==
    "docker" \in open => "docker" \in ToSet(deferred) \/ (~devel /\ starting = <<>>)

CollectsComeLast ==
    \A i, j \in DOMAIN starting :
        i < j /\ starting[i] = "collect" => starting[j] = "collect"

DevelIsOrderly ==
    /\ inFlight # {} => IF devel THEN phase = "running" ELSE starting = <<>>
    /\ devel /\ phase = "running" =>
          "docker" \in ToSet(deferred) \cup ToSet(starting)
    /\ devel /\ inFlight # {} => \A i \in DOMAIN starting : starting[i] = "collect"
    /\ CollectsComeLast

IInv == /\ Types
        /\ WorkIsAdmitted
        /\ ConnectionIsLocked
        /\ OpenIsDeferred
        /\ ClientIsDeferred
        /\ DevelIsOrderly

-----------------------------------------------------------------------------
(* Sequences                                                                 *)

(* What is left of a sequence, and what the first element was.               *)
LEMMA TailFacts ==
    ASSUME NEW S, NEW s \in Seq(S), s # <<>>
    PROVE  /\ Head(s) \in S /\ Head(s) = s[1] /\ 1 \in DOMAIN s
           /\ Tail(s) \in Seq(S)
           /\ \A i \in DOMAIN Tail(s) : i + 1 \in DOMAIN s /\ Tail(s)[i] = s[i + 1]
           /\ ToSet(s) = {Head(s)} \cup ToSet(Tail(s))
<1>1. /\ Head(s) \in S /\ Head(s) = s[1] /\ 1 \in DOMAIN s
      /\ Tail(s) \in Seq(S) /\ Len(Tail(s)) = Len(s) - 1 /\ Len(s) \in Nat
      /\ DOMAIN s = 1..Len(s) /\ DOMAIN Tail(s) = 1..(Len(s) - 1)
      /\ \A i \in DOMAIN Tail(s) : i + 1 \in DOMAIN s /\ Tail(s)[i] = s[i + 1]
  OBVIOUS
<1>2. \A i \in DOMAIN s : i # 1 => i - 1 \in DOMAIN Tail(s) /\ Tail(s)[i - 1] = s[i]
  BY <1>1
<1>3. ToSet(s) = {Head(s)} \cup ToSet(Tail(s))
  <2> DEFINE t == Tail(s)
  <2>1. \A x \in ToSet(s) : x = Head(s) \/ \E i \in DOMAIN t : x = t[i]
    BY <1>1, <1>2 DEF ToSet
  <2>2. \A x \in ToSet(t) : \E i \in DOMAIN s : x = s[i]
    BY <1>1 DEF ToSet
  <2>3. Head(s) \in ToSet(s)
    BY <1>1 DEF ToSet
  <2> HIDE DEF t
  <2> QED
    BY <2>1, <2>2, <2>3 DEF ToSet, t
<1> QED
  BY <1>1, <1>3

(* What a sequence holds after an element is put before it.                  *)
LEMMA ConsFacts ==
    ASSUME NEW S, NEW s \in Seq(S), NEW e \in S
    PROVE  /\ <<e>> \o s \in Seq(S)
           /\ ToSet(<<e>> \o s) = {e} \cup ToSet(s)
<1> DEFINE t == <<e>> \o s
<1>1. /\ t \in Seq(S) /\ Len(t) = Len(s) + 1 /\ Len(s) \in Nat
      /\ DOMAIN t = 1..(Len(s) + 1) /\ DOMAIN s = 1..Len(s)
      /\ t[1] = e /\ \A i \in DOMAIN s : i + 1 \in DOMAIN t /\ t[i + 1] = s[i]
  OBVIOUS
<1>2. \A i \in DOMAIN t : i # 1 => i - 1 \in DOMAIN s /\ t[i] = s[i - 1]
  BY <1>1
<1> HIDE DEF t
<1>3. ToSet(t) = {e} \cup ToSet(s)
  BY <1>1, <1>2 DEF ToSet
<1> QED
  BY <1>1, <1>3 DEF t

(* Where a concatenation has the elements of its parts.                      *)
LEMMA ConcatFacts ==
    ASSUME NEW S, NEW s \in Seq(S), NEW t \in Seq(S)
    PROVE  /\ s \o t \in Seq(S) /\ Len(s \o t) = Len(s) + Len(t)
           /\ \A i \in 1..Len(s) : (s \o t)[i] = s[i]
           /\ \A i \in 1..Len(t) : (s \o t)[Len(s) + i] = t[i]
OBVIOUS

(* What is constructed, docker's resolver among it.                          *)
LEMMA ConstructionFacts ==
    ASSUME NEW leftOut
    PROVE  /\ Construction(leftOut) \in Seq(Collectors \cup Runtimes)
           /\ "docker" \in ToSet(Construction(leftOut))
<1> DEFINE S == Collectors \cup Runtimes
           A == <<"kernel">> \o Optional("meminfo", leftOut)
                   \o Optional("slab", leftOut) \o Optional("zswap", leftOut)
           D == <<"docker", "podman", "cgroups">>
           B == Optional("kernelprocs", leftOut)
           C == Optional("network", leftOut)
<1>1. ASSUME NEW step \in S PROVE Optional(step, leftOut) \in Seq(S)
  <2> HIDE DEF S
  <2>1. <<>> \in Seq(S) /\ <<step>> \in Seq(S)
    OBVIOUS
  <2> QED
    BY <2>1 DEF Optional
<1>2. A \in Seq(S)
  <2>1. <<"kernel">> \in Seq(S)
    BY DEF Collectors
  <2>2. {"meminfo", "slab", "zswap"} \subseteq S
    BY DEF Collectors
  <2> HIDE DEF S
  <2> QED
    BY <1>1, <2>1, <2>2
<1>3. D \in Seq(S) /\ Len(D) = 3 /\ D[1] = "docker"
  BY DEF Collectors, Runtimes
<1>4. B \in Seq(S) /\ C \in Seq(S)
  BY <1>1 DEF Collectors
<1>5. Construction(leftOut) = ((A \o D) \o B) \o C
  BY DEF Construction
<1> HIDE DEF S, A, B, C, D
<1>6. /\ A \o D \in Seq(S) /\ Len(A) + 1 \in 1..Len(A \o D)
      /\ (A \o D)[Len(A) + 1] = "docker"
  <2>1. Len(A) \in Nat
    BY <1>2
  <2>2. Len(A \o D) = Len(A) + 3 /\ 1 \in 1..Len(D)
    <3>1. Len(A \o D) = Len(A) + Len(D)
      BY <1>2, <1>3, ConcatFacts
    <3> QED
      BY <1>3, <3>1, <2>1
  <2> QED
    BY <1>2, <1>3, <2>1, <2>2, ConcatFacts
<1>7. /\ (A \o D) \o B \in Seq(S) /\ Len(A) + 1 \in 1..Len((A \o D) \o B)
      /\ ((A \o D) \o B)[Len(A) + 1] = "docker"
  <2>1. Len((A \o D) \o B) = Len(A \o D) + Len(B) /\ Len(B) \in Nat
    BY <1>4, <1>6, ConcatFacts
  <2> QED
    BY <1>4, <1>6, <2>1, ConcatFacts
<1>8. /\ ((A \o D) \o B) \o C \in Seq(S)
      /\ Len(A) + 1 \in 1..Len(((A \o D) \o B) \o C)
      /\ (((A \o D) \o B) \o C)[Len(A) + 1] = "docker"
  <2>1. /\ Len(((A \o D) \o B) \o C) = Len((A \o D) \o B) + Len(C)
        /\ Len(C) \in Nat
    BY <1>4, <1>7, ConcatFacts
  <2> QED
    BY <1>4, <1>7, <2>1, ConcatFacts
<1>9. Construction(leftOut) \in Seq(S)
  BY <1>5, <1>8
<1>10. "docker" \in ToSet(Construction(leftOut))
  <2> DEFINE s == Construction(leftOut)
  <2>1. s \in Seq(S) /\ Len(A) + 1 \in 1..Len(s) /\ s[Len(A) + 1] = "docker"
    BY <1>5, <1>8
  <2> HIDE DEF s
  <2>2. Len(A) + 1 \in DOMAIN s
    BY <2>1
  <2>3. "docker" \in ToSet(s)
    BY <2>1, <2>2 DEF ToSet
  <2> QED
    BY <2>3 DEF s
<1> QED
  BY <1>9, <1>10 DEF S

(* The steps of start-up: the collections of the devel mode are its end.     *)
LEMMA StartUpFacts ==
    ASSUME NEW isDevel \in BOOLEAN, NEW n \in BOOLEAN,
           NEW s, s = StartUp(isDevel, n)
    PROVE  /\ s \in Seq(Steps) /\ s # <<>> /\ "docker" \in ToSet(s)
           /\ \A i, j \in DOMAIN s : i < j /\ s[i] = "collect" => s[j] = "collect"
<1> DEFINE leftOut == IF n THEN LeftOut \cup {"network"} ELSE LeftOut
           A == Construction(leftOut)
           B == IF isDevel THEN <<"collect", "collect">> ELSE <<"listen">>
<1>1. A \in Seq(Collectors \cup Runtimes) /\ "docker" \in ToSet(A)
  BY ConstructionFacts
<1>2. A \in Seq(Steps) /\ \A i \in DOMAIN A : A[i] # "collect"
  <2>1. \A i \in DOMAIN A : A[i] \in Collectors \cup Runtimes
    BY <1>1
  <2>2. "collect" \notin Collectors \cup Runtimes
    BY DEF Collectors, Runtimes
  <2> HIDE DEF A
  <2> QED
    BY <1>1, <2>1, <2>2 DEF Steps
<1>3. B \in Seq(Steps) /\ Len(B) \in 1..2
  <2>1. "collect" \in Steps /\ "listen" \in Steps
    BY DEF Steps
  <2> HIDE DEF Steps
  <2>2. CASE isDevel
    BY <2>1, <2>2
  <2>3. CASE ~isDevel
    BY <2>1, <2>3
  <2> QED
    BY <2>2, <2>3
<1>4. \A i, j \in DOMAIN B : i < j => B[j] = "collect"
  OBVIOUS
<1>5. s = A \o B
  BY DEF StartUp
<1> HIDE DEF A, B
<1>6. /\ s \in Seq(Steps) /\ Len(s) = Len(A) + Len(B) /\ DOMAIN s = 1..Len(s)
      /\ DOMAIN A = 1..Len(A) /\ DOMAIN B = 1..Len(B) /\ Len(A) \in Nat
      /\ \A i \in DOMAIN A : i \in DOMAIN s /\ s[i] = A[i]
      /\ \A i \in DOMAIN s : i > Len(A) => s[i] = B[i - Len(A)]
  BY <1>2, <1>3, <1>5
<1>7. s # <<>> /\ "docker" \in ToSet(s)
  BY <1>1, <1>3, <1>6 DEF ToSet
<1>8. ASSUME NEW i \in DOMAIN s, NEW j \in DOMAIN s, i < j, s[i] = "collect"
      PROVE  s[j] = "collect"
  <2>1. i > Len(A)
    BY <1>2, <1>6, <1>8
  <2>2. i - Len(A) \in DOMAIN B /\ j - Len(A) \in DOMAIN B
    BY <1>3, <1>6, <1>8, <2>1
  <2> QED
    BY <1>4, <1>6, <1>8, <2>1, <2>2
<1> QED
  BY <1>6, <1>7, <1>8

-----------------------------------------------------------------------------
(* The invariant                                                             *)

(* The initial state satisfies the invariant.                                *)
LEMMA InitInv == Init => IInv
<1> SUFFICES ASSUME Init PROVE IInv
  OBVIOUS
<1>1. PICK n \in BOOLEAN : starting = StartUp(devel, n)
  BY DEF Init
<1>2. devel \in BOOLEAN
  BY DEF Init
<1>3. /\ starting \in Seq(Steps) /\ "docker" \in ToSet(starting)
      /\ CollectsComeLast
  BY <1>1, <1>2, StartUpFacts DEF CollectsComeLast
<1>4. deferred \in Seq(Closers) /\ ToSet(deferred) = {}
  BY DEF Init, ToSet
<1>5. Types
  BY <1>2, <1>3, <1>4 DEF Init, Types
<1> QED
  BY <1>2, <1>3, <1>4, <1>5
     DEF Init, IInv, WorkIsAdmitted, ConnectionIsLocked, OpenIsDeferred,
         ClientIsDeferred, DevelIsOrderly

(* While start-up constructs anything, nothing is collected.                 *)
LEMMA NothingIsCollectedYet ==
    ASSUME IInv, NEW step, DoesNext(step), step # "collect"
    PROVE  inFlight = {}
<1>1. /\ starting[1] = step /\ 1 \in DOMAIN starting /\ starting # <<>>
  BY TailFacts DEF IInv, Types, DoesNext
<1> QED
  BY <1>1 DEF IInv, DevelIsOrderly, Types

\* A step of start-up is taken off, and the rest keeps its order.
LEMMA TailInv ==
    ASSUME IInv, NEW step, DoesNext(step)
    PROVE  /\ step \in Steps
           /\ Tail(starting) \in Seq(Steps)
           /\ ToSet(starting) = {step} \cup ToSet(Tail(starting))
           /\ \A i, j \in DOMAIN Tail(starting) :
                i < j /\ Tail(starting)[i] = "collect"
                => Tail(starting)[j] = "collect"
           /\ step = "collect" =>
                /\ \A i \in DOMAIN Tail(starting) : Tail(starting)[i] = "collect"
                /\ "docker" \notin ToSet(starting)
<1> DEFINE t == Tail(starting)
<1>1. /\ starting \in Seq(Steps) /\ starting # <<>> /\ Head(starting) = step
      /\ CollectsComeLast
  BY DEF IInv, Types, DevelIsOrderly, DoesNext
<1>2. /\ step \in Steps /\ step = starting[1] /\ 1 \in DOMAIN starting
      /\ t \in Seq(Steps)
      /\ \A i \in DOMAIN t : i + 1 \in DOMAIN starting /\ t[i] = starting[i + 1]
      /\ ToSet(starting) = {step} \cup ToSet(t)
  BY <1>1, TailFacts
<1>3. \A i \in DOMAIN t : i \in Nat /\ i > 0
  BY <1>2
<1> HIDE DEF t
<1>4. \A i, j \in DOMAIN t : i < j /\ t[i] = "collect" => t[j] = "collect"
  BY <1>1, <1>2, <1>3 DEF CollectsComeLast
<1>5. ASSUME step = "collect" PROVE \A i \in DOMAIN t : t[i] = "collect"
  BY <1>1, <1>2, <1>3, <1>5 DEF CollectsComeLast
<1>6. ASSUME step = "collect" PROVE "docker" \notin ToSet(starting)
  BY <1>2, <1>5, <1>6 DEF ToSet
<1> QED
  BY <1>2, <1>4, <1>5, <1>6 DEF t

(* Start-up opens what it defers the closing of, or nothing.                 *)
LEMMA OpenInv ==
    ASSUME IInv, NEW step \in Collectors \cup Runtimes, Open(step)
    PROVE  /\ deferred' \in Seq(Closers)
           /\ ToSet(deferred) \subseteq ToSet(deferred')
           /\ step \in Closers => step \in ToSet(deferred')
           /\ open' \in SUBSET {"kernel", "network", "docker"}
           /\ open' \ {"docker"} \subseteq ToSet(deferred')
           /\ "docker" \in open' => "docker" \in open
           /\ open \subseteq open'
<1>1. CASE step \in Closers
  <2>1. deferred' = <<step>> \o deferred /\ deferred \in Seq(Closers)
    BY <1>1 DEF Open, IInv, Types
  <2>2. deferred' \in Seq(Closers) /\ ToSet(deferred') = {step} \cup ToSet(deferred)
    BY <1>1, <2>1, ConsFacts
  <2> QED
    BY <1>1, <2>2 DEF Open, IInv, Types, OpenIsDeferred, Openers, Closers
<1>2. CASE step \notin Closers
  BY <1>2 DEF Open, IInv, Types, OpenIsDeferred, Openers, Closers
<1> QED
  BY <1>1, <1>2

(* A step of the start keeps the invariant.                                  *)
LEMMA StartingInv == IInv /\ Starting => IInv'
<1> SUFFICES ASSUME IInv, Starting PROVE IInv'
  OBVIOUS
<1>1. "collect" \notin Collectors \cup Runtimes /\ "listen" # "collect"
  BY DEF Collectors, Runtimes
<1>2. ASSUME NEW step \in Collectors \cup Runtimes, Construct(step) PROVE IInv'
  <2>1. inFlight = {}
    BY <1>1, <1>2, NothingIsCollectedYet DEF Construct
  <2>2. /\ deferred' \in Seq(Closers)
        /\ ToSet(deferred) \subseteq ToSet(deferred')
        /\ step \in Closers => step \in ToSet(deferred')
        /\ open' \in SUBSET {"kernel", "network", "docker"}
        /\ open' \ {"docker"} \subseteq ToSet(deferred')
        /\ "docker" \in open' => "docker" \in open
        /\ open \subseteq open'
    BY <1>2, OpenInv DEF Construct
  <2>3. /\ starting' = Tail(starting) /\ starting # <<>> /\ phase = "running"
        /\ starting' \in Seq(Steps)
        /\ ToSet(starting) = {step} \cup ToSet(starting')
        /\ CollectsComeLast'
    BY <1>2, TailInv DEF Construct, DoesNext, CollectsComeLast
  <2>4. /\ registered' \in SUBSET Collectors
        /\ UNCHANGED <<devel, phase, inFlight, todo, lock, connected>>
    BY <1>2 DEF Construct, IInv, Types, requestVars
  <2>5. Types'
    BY <2>2, <2>3, <2>4 DEF IInv, Types
  <2>6. (WorkIsAdmitted /\ ConnectionIsLocked /\ OpenIsDeferred)'
    BY <2>2, <2>3, <2>4 DEF IInv, WorkIsAdmitted, ConnectionIsLocked, OpenIsDeferred
  <2>7. (ClientIsDeferred /\ DevelIsOrderly)'
    BY <2>1, <2>2, <2>3, <2>4 DEF IInv, ClientIsDeferred, DevelIsOrderly, Closers
  <2> QED
    BY <2>5, <2>6, <2>7 DEF IInv
<1>3. ASSUME NEW step \in Collectors \cup Runtimes, FailToConstruct(step)
      PROVE  IInv'
  <2>1. inFlight = {} /\ starting # <<>>
    BY <1>1, <1>3, NothingIsCollectedYet DEF FailToConstruct, DoesNext
  <2>2. /\ phase' = "closing"
        /\ UNCHANGED <<devel, starting, registered, deferred, open, inFlight,
                       todo, lock, connected>>
    BY <1>3 DEF FailToConstruct, Fail, requestVars
  <2> QED
    BY <2>1, <2>2 DEF IInv, Types, WorkIsAdmitted, ConnectionIsLocked,
         OpenIsDeferred, ClientIsDeferred, DevelIsOrderly, CollectsComeLast
<1>4. ASSUME NEW step \in Collectors \cup Runtimes, FailToRegister(step)
      PROVE  IInv'
  <2>1. inFlight = {} /\ starting # <<>>
    BY <1>1, <1>4, NothingIsCollectedYet DEF FailToRegister, DoesNext
  <2>2. /\ deferred' \in Seq(Closers)
        /\ ToSet(deferred) \subseteq ToSet(deferred')
        /\ open' \in SUBSET {"kernel", "network", "docker"}
        /\ open' \ {"docker"} \subseteq ToSet(deferred')
        /\ "docker" \in open' => "docker" \in open
        /\ open \subseteq open'
    BY <1>4, OpenInv DEF FailToRegister
  <2>3. /\ phase' = "closing"
        /\ UNCHANGED <<devel, starting, registered, inFlight, todo, lock, connected>>
    BY <1>4 DEF FailToRegister, Fail, requestVars
  <2> QED
    BY <2>1, <2>2, <2>3 DEF IInv, Types, WorkIsAdmitted, ConnectionIsLocked,
         OpenIsDeferred, ClientIsDeferred, DevelIsOrderly, CollectsComeLast
<1>5. CASE Listen
  <2>1. inFlight = {}
    BY <1>1, <1>5, NothingIsCollectedYet DEF Listen
  <2>2. /\ starting' = Tail(starting) /\ starting # <<>> /\ phase = "running"
        /\ starting' \in Seq(Steps)
        /\ ToSet(starting) = {"listen"} \cup ToSet(starting')
        /\ CollectsComeLast'
        /\ UNCHANGED <<devel, deferred, phase, registered, open, inFlight, todo,
                       lock, connected>>
    BY <1>5, TailInv DEF Listen, DoesNext, requestVars, CollectsComeLast
  <2> QED
    BY <2>1, <2>2 DEF IInv, Types, WorkIsAdmitted, ConnectionIsLocked,
         OpenIsDeferred, ClientIsDeferred, DevelIsOrderly
<1>6. CASE StopServing
  BY <1>6 DEF StopServing, Fail, requestVars, IInv, Types, WorkIsAdmitted,
       ConnectionIsLocked, OpenIsDeferred, ClientIsDeferred, DevelIsOrderly,
       CollectsComeLast
<1> QED
  BY <1>2, <1>3, <1>4, <1>5, <1>6 DEF Starting

(* Requests come and go.                                                     *)
LEMMA RequestInv ==
    ASSUME IInv, NEW r \in Scrapes,
           Admit(r) \/ Refuse \/ Respond(r) \/ CollectInDevel(r) \/ FinishDevel
    PROVE  IInv'
<1> USE DEF IInv, Types, WorkIsAdmitted, ConnectionIsLocked, OpenIsDeferred,
            ClientIsDeferred
<1>1. CASE Admit(r)
  <2>1. /\ ~devel /\ starting = <<>> /\ r \notin inFlight
        /\ inFlight' = inFlight \cup {r} /\ todo' = [todo EXCEPT ![r] = registered]
        /\ UNCHANGED <<devel, starting, deferred, phase, registered, open, lock,
                       connected>>
    BY <1>1 DEF Admit, IsServing, mainVars
  <2>2. WorkIsAdmitted'
    BY <2>1
  <2> QED
    BY <2>1, <2>2 DEF DevelIsOrderly, CollectsComeLast
<1>2. CASE Refuse
  BY <1>2 DEF Refuse, mainVars, DevelIsOrderly, CollectsComeLast
<1>3. CASE Respond(r)
  BY <1>3 DEF Respond, mainVars, DevelIsOrderly, CollectsComeLast
<1>4. CASE CollectInDevel(r)
  <2>1. /\ starting' = Tail(starting) /\ phase = "running"
        /\ inFlight = {} /\ inFlight' = {r}
        /\ todo' = [todo EXCEPT ![r] = registered]
        /\ UNCHANGED <<devel, deferred, phase, registered, open, lock, connected>>
    BY <1>4 DEF CollectInDevel, DoesNext
  <2>2. /\ starting' \in Seq(Steps) /\ CollectsComeLast'
        /\ \A i \in DOMAIN starting' : starting'[i] = "collect"
        /\ "docker" \notin ToSet(starting)
    BY <1>4, <2>1, TailInv DEF CollectInDevel, CollectsComeLast
  <2>3. WorkIsAdmitted'
    BY <2>1
  <2>4. devel
    BY <1>4 DEF CollectInDevel
  <2> QED
    BY <2>1, <2>2, <2>3, <2>4 DEF DevelIsOrderly
<1>5. CASE FinishDevel
  BY <1>5 DEF FinishDevel, requestVars, DevelIsOrderly, CollectsComeLast
<1> QED
  BY <1>1, <1>2, <1>3, <1>4, <1>5

(* Collections, which touch nothing of main.                                 *)
LEMMA WorkInv ==
    ASSUME IInv, NEW r \in Scrapes, NEW c \in Collectors,
           Acquire(r, c) \/ CollectFreely(r, c) \/ CheckConnection(r)
             \/ (c \in LockingCollectors /\ CollectLocked(r, c)) \/ FinishWalk(r)
    PROVE  IInv'
<1> USE DEF IInv, Types, WorkIsAdmitted, ConnectionIsLocked, LockingCollectors
<1>1. UNCHANGED <<devel, starting, deferred, phase, registered, open, inFlight>>
  BY DEF Acquire, CollectFreely, CheckConnection, CollectLocked, FinishWalk, Release, mainVars, requestVars
<1>2. OpenIsDeferred' /\ ClientIsDeferred' /\ DevelIsOrderly'
  BY <1>1 DEF OpenIsDeferred, ClientIsDeferred, DevelIsOrderly, CollectsComeLast
<1>3. CASE Acquire(r, c)
  <2>1. /\ c \in todo[r] /\ c \in LockingCollectors /\ lock[c] = None
        /\ lock' = [lock EXCEPT ![c] = r] /\ UNCHANGED <<todo, connected>>
    BY <1>3 DEF Acquire, HasTurn, requestVars
  <2> QED
    BY <1>1, <1>2, <2>1
<1>4. CASE CollectFreely(r, c)
  <2>1. /\ c \notin LockingCollectors /\ IsDone(r, c) /\ UNCHANGED <<lock, connected>>
    BY <1>4 DEF CollectFreely
  <2> QED
    BY <1>1, <1>2, <2>1 DEF IsDone
<1>5. ASSUME NEW d \in LockingCollectors, lock[d] = r, Release(r, d),
             UNCHANGED connected \/ connected' = FALSE,
             d = "network" => ~connected'
      PROVE  IInv'
  <2>1. /\ lock' = [lock EXCEPT ![d] = None] /\ todo' = [todo EXCEPT ![r] = @ \ {d}]
    BY <1>5 DEF Release, IsDone
  <2>2. Types'
    BY <1>1, <1>5, <2>1
  <2>3. WorkIsAdmitted'
    BY <1>1, <1>5, <2>1
  <2>4. ConnectionIsLocked'
    BY <1>1, <1>5, <2>1
  <2> QED
    BY <1>2, <2>2, <2>3, <2>4
<1>7. CASE CheckConnection(r)
  <2>1. CASE "network" \in open
    BY <1>1, <1>2, <1>7, <2>1, ServerAssumption
       DEF CheckConnection, requestVars, ServerAssumption
  <2>2. CASE "network" \notin open
    BY <1>5, <1>7, <2>2 DEF CheckConnection
  <2> QED
    BY <2>1, <2>2
<1>8. CASE c \in LockingCollectors /\ CollectLocked(r, c)
  BY <1>5, <1>8 DEF CollectLocked
<1>9. CASE FinishWalk(r)
  BY <1>5, <1>9 DEF FinishWalk, Walks
<1> QED
  BY <1>3, <1>4, <1>7, <1>8, <1>9

(* The resolvers: a client is made only by a walk.                           *)
LEMMA ResolveInv ==
    ASSUME IInv, NEW r \in Scrapes, NEW c \in Containers,
           ResolveCached(r, c) \/ Ask(r, c) \/ Answer(c) \/ FailToAnswer(c)
    PROVE  IInv'
<1>1. UNCHANGED <<devel, starting, deferred, phase, registered, inFlight, todo,
                  lock, connected>>
  BY DEF ResolveCached, Ask, Answer, FailToAnswer, mainVars, requestVars
<1>2. CASE UNCHANGED open
  BY <1>1, <1>2 DEF IInv, Types, WorkIsAdmitted, ConnectionIsLocked,
     OpenIsDeferred, ClientIsDeferred, DevelIsOrderly, CollectsComeLast
<1>3. CASE Ask(r, c)
  <2>1. r \in inFlight /\ lock["cgroups"] = r
    BY <1>3, ServerAssumption
       DEF Ask, Walks, IInv, Types, WorkIsAdmitted, LockingCollectors, ServerAssumption
  <2>2. open' = open \/ open' = open \cup {"docker"}
    BY <1>3 DEF Ask
  <2>3. /\ devel => phase = "running" /\ \A i \in DOMAIN starting : starting[i] = "collect"
        /\ ~devel => starting = <<>>
    BY <2>1 DEF IInv, DevelIsOrderly, Types
  <2>4. devel => "docker" \in ToSet(deferred)
    BY <2>3 DEF IInv, DevelIsOrderly, ToSet
  <2> QED
    BY <1>1, <2>2, <2>3, <2>4 DEF IInv, Types, WorkIsAdmitted, ConnectionIsLocked,
       OpenIsDeferred, ClientIsDeferred, DevelIsOrderly, CollectsComeLast
<1> QED
  BY <1>2, <1>3 DEF ResolveCached, Answer, FailToAnswer

(* The deferred calls: the connection is closed when nobody has its lock.    *)
LEMMA ClosingInv == IInv /\ Closing => IInv'
<1> SUFFICES ASSUME IInv, Closing PROVE IInv'
  OBVIOUS
<1>1. ASSUME NEW closer, Closes(closer), closer = "network" => lock["network"] = None
      PROVE  IInv'
  <2>1. /\ phase = "closing" /\ deferred # <<>> /\ Head(deferred) = closer
        /\ deferred' = Tail(deferred) /\ open' = open \ {closer}
        /\ UNCHANGED <<devel, starting, phase, registered, inFlight, todo, lock,
                       connected>>
    BY <1>1 DEF Closes, requestVars
  <2>2. /\ deferred' \in Seq(Closers)
        /\ ToSet(deferred) = {closer} \cup ToSet(deferred')
    BY <2>1, TailFacts DEF IInv, Types
  <2>3. devel => inFlight = {}
    BY <2>1 DEF IInv, DevelIsOrderly
  <2> QED
    BY <1>1, <2>1, <2>2, <2>3 DEF IInv, Types, WorkIsAdmitted, ConnectionIsLocked,
       OpenIsDeferred, ClientIsDeferred, DevelIsOrderly, CollectsComeLast
<1>2. CASE CloseKernel
  BY <1>1, <1>2 DEF CloseKernel
<1>3. CASE CloseDocker
  BY <1>1, <1>3 DEF CloseDocker
<1>4. CASE ClosePodman
  BY <1>1, <1>4 DEF ClosePodman
<1>5. CASE CloseNetwork
  BY <1>1, <1>5 DEF CloseNetwork
<1>6. CASE Exit
  BY <1>6 DEF Exit, requestVars, IInv, Types, WorkIsAdmitted, ConnectionIsLocked,
     OpenIsDeferred, ClientIsDeferred, DevelIsOrderly, CollectsComeLast
<1> QED
  BY <1>2, <1>3, <1>4, <1>5, <1>6 DEF Closing

(* Every step keeps the invariant.                                           *)
LEMMA StepInv == IInv /\ [Next]_vars => IInv'
<1> SUFFICES ASSUME IInv, [Next]_vars PROVE IInv'
  OBVIOUS
<1>1. CASE Starting
  BY <1>1, StartingInv
<1>2. ASSUME NEW r \in Scrapes, Admit(r) \/ Respond(r) \/ CollectInDevel(r)
      PROVE  IInv'
  BY <1>2, RequestInv
<1>3. ASSUME NEW r \in Scrapes, NEW c \in Collectors, Acquire(r, c) PROVE IInv'
  BY <1>3, WorkInv
<1>4. ASSUME NEW r \in Scrapes, Works(r) PROVE IInv'
  <2>1. LockingCollectors \subseteq Collectors /\ "cgroups" \in Collectors
    BY DEF Collectors, LockingCollectors
  <2>2. ASSUME NEW c \in LockingCollectors, CollectLocked(r, c) PROVE IInv'
    BY <2>1, <2>2, WorkInv
  <2>3. ASSUME NEW c \in Collectors, CollectFreely(r, c) PROVE IInv'
    BY <2>3, WorkInv
  <2>4. CASE CheckConnection(r) \/ FinishWalk(r)
    BY <2>1, <2>4, WorkInv
  <2> QED
    BY <1>4, <2>2, <2>3, <2>4, ResolveInv DEF Works
<1>5. CASE Refuse
  <2>1. UNCHANGED <<devel, starting, deferred, phase, registered, open, inFlight,
                    todo, lock, connected>>
    BY <1>5 DEF Refuse, mainVars
  <2> QED
    BY <2>1 DEF IInv, Types, WorkIsAdmitted, ConnectionIsLocked,
       OpenIsDeferred, ClientIsDeferred, DevelIsOrderly, CollectsComeLast
<1>6. CASE FinishDevel
  <2>1. /\ devel /\ phase' = "closing" /\ inFlight = {} /\ phase = "running"
        /\ UNCHANGED <<devel, starting, deferred, registered, open, inFlight,
                       todo, lock, connected>>
    BY <1>6 DEF FinishDevel, requestVars
  <2> QED
    BY <2>1 DEF IInv, Types, WorkIsAdmitted, ConnectionIsLocked,
       OpenIsDeferred, ClientIsDeferred, DevelIsOrderly, CollectsComeLast
<1>7. ASSUME NEW c \in Containers, Answer(c) \/ FailToAnswer(c) PROVE IInv'
  <2>1. UNCHANGED <<devel, starting, deferred, phase, registered, open, inFlight,
                    todo, lock, connected>>
    BY <1>7 DEF Answer, FailToAnswer, mainVars, requestVars
  <2> QED
    BY <2>1 DEF IInv, Types, WorkIsAdmitted, ConnectionIsLocked,
       OpenIsDeferred, ClientIsDeferred, DevelIsOrderly, CollectsComeLast
<1>8. CASE Closing
  BY <1>8, ClosingInv
<1>9. CASE UNCHANGED vars
  BY <1>9 DEF vars, mainVars, requestVars, IInv, Types, WorkIsAdmitted,
     ConnectionIsLocked, OpenIsDeferred, ClientIsDeferred, DevelIsOrderly,
     CollectsComeLast
<1> QED
  BY <1>1, <1>2, <1>3, <1>4, <1>5, <1>6, <1>7, <1>8, <1>9 DEF Next

-----------------------------------------------------------------------------
(* A collection of the network that has found its connection open keeps it:  *)
(* Close of the collector waits for its lock.                                *)
THEOREM UseBeforeClose == Spec => []NothingIsUsedAfterClose
<1>1. IInv => NothingIsUsedAfterClose
  BY DEF IInv, ConnectionIsLocked, NothingIsUsedAfterClose
<1> QED
  BY InitInv, StepInv, <1>1, PTL DEF Spec

(* Whatever fails during start-up, and whatever the scrapes do while main    *)
(* returns, what it has opened is closed at exit.                            *)
THEOREM NothingIsLeftOpen == Spec => []ExitLeavesNothingOpen
<1>1. IInv => ExitLeavesNothingOpen
  <2> SUFFICES ASSUME IInv, phase = "exited"
               PROVE  /\ open \subseteq {"docker"}
                      /\ "docker" \in open => ~devel /\ starting = <<>>
    BY DEF ExitLeavesNothingOpen
  <2>1. ToSet(deferred) = {}
    BY DEF IInv, OpenIsDeferred, ToSet
  <2> QED
    BY <2>1 DEF IInv, OpenIsDeferred, ClientIsDeferred
<1> QED
  BY InitInv, StepInv, <1>1, PTL DEF Spec

-----------------------------------------------------------------------------
(* What IInv leaves out of TypeOK.                                           *)
WalkTypes ==
    /\ refused \in BOOLEAN
    /\ toResolve \in SUBSET Containers
    /\ asking \in Containers \cup {None}
    /\ cache \in [Runtimes -> Seq(Containers)]
    /\ \A t \in Runtimes : Len(cache[t]) <= CacheSize

(* A cache never holds more than it should: what is added replaces itself or *)
(* the container that was used longest ago.                                  *)
LEMMA UseFits ==
    ASSUME WalkTypes, NEW c \in Containers, Use(c)
    PROVE  /\ cache' \in [Runtimes -> Seq(Containers)]
           /\ \A t \in Runtimes : Len(cache'[t]) <= CacheSize
<1> DEFINE t == RuntimeOf[c]
           used == cache[t]
           i == IndexOf(c, used)
           others == IF IsCached(c) THEN RemoveAt(used, i)
                     ELSE IF Len(used) < CacheSize THEN used
                     ELSE Tail(used)
<1>1. /\ t \in Runtimes /\ used \in Seq(Containers) /\ Len(used) <= CacheSize
      /\ CacheSize \in Nat /\ CacheSize > 0
  BY ServerAssumption DEF ServerAssumption, WalkTypes
<1>2. cache' = [cache EXCEPT ![t] = Append(others, c)]
  BY DEF Use
<1>3. others \in Seq(Containers) /\ Len(others) < CacheSize
  <2>1. CASE IsCached(c)
    <3>1. i \in 1..Len(used)
      <4>1. \E j \in DOMAIN used : used[j] = c
        BY <2>1 DEF IsCached, ToSet
      <4>2. DOMAIN used = 1..Len(used)
        BY <1>1
      <4> HIDE DEF used
      <4> QED
        BY <4>1, <4>2 DEF IndexOf
    <3> HIDE DEF i
    <3>2. \A j \in 1..Len(used) : used[j] \in Containers
      BY <1>1
    <3>3. /\ SubSeq(used, 1, i - 1) \in Seq(Containers)
          /\ Len(SubSeq(used, 1, i - 1)) = i - 1
      <4>1. \A j \in 1..(i - 1) : used[j] \in Containers
        BY <1>1, <3>1, <3>2
      <4>2. SubSeq(used, 1, i - 1) \in Seq(Containers)
        BY <3>1, <4>1, SubSeqProperties
      <4>3. Len(SubSeq(used, 1, i - 1)) =
              IF 1 <= i - 1 THEN (i - 1) - 1 + 1 ELSE 0
        BY <3>1, <4>1, SubSeqProperties
      <4> QED
        BY <3>1, <4>2, <4>3
    <3>4. /\ SubSeq(used, i + 1, Len(used)) \in Seq(Containers)
          /\ Len(SubSeq(used, i + 1, Len(used))) = Len(used) - i
      <4>1. \A j \in (i + 1)..Len(used) : used[j] \in Containers
        BY <1>1, <3>1, <3>2
      <4>2. SubSeq(used, i + 1, Len(used)) \in Seq(Containers)
        BY <1>1, <3>1, <4>1, SubSeqProperties
      <4>3. Len(SubSeq(used, i + 1, Len(used))) =
              IF i + 1 <= Len(used) THEN Len(used) - (i + 1) + 1 ELSE 0
        BY <1>1, <3>1, <4>1, SubSeqProperties
      <4> QED
        BY <1>1, <3>1, <4>2, <4>3
    <3>5. others = SubSeq(used, 1, i - 1) \o SubSeq(used, i + 1, Len(used))
      BY <2>1 DEF RemoveAt
    <3> HIDE DEF others, used
    <3>6. others \in Seq(Containers) /\ Len(others) = (i - 1) + (Len(used) - i)
      BY <3>3, <3>4, <3>5, ConcatFacts
    <3>7. Len(used) \in Nat
      BY <1>1
    <3> QED
      BY <1>1, <3>1, <3>6, <3>7
  <2>2. CASE ~IsCached(c) /\ Len(used) < CacheSize
    BY <1>1, <2>2
  <2>3. CASE ~IsCached(c) /\ ~(Len(used) < CacheSize)
    <3>1. others = Tail(used)
      BY <2>3
    <3>2. used # <<>> /\ Len(Tail(used)) = Len(used) - 1
          /\ Tail(used) \in Seq(Containers)
      BY <1>1, <2>3
    <3>3. Len(used) \in Nat
      BY <1>1
    <3> HIDE DEF others, used
    <3> QED
      BY <1>1, <3>1, <3>2, <3>3
  <2> QED
    BY <2>1, <2>2, <2>3
<1> HIDE DEF others
<1>4. /\ Append(others, c) \in Seq(Containers)
      /\ Len(Append(others, c)) <= CacheSize
  BY <1>1, <1>3
<1> QED
  BY <1>1, <1>2, <1>4 DEF WalkTypes

(* Every step keeps the types of the caches.                                 *)
LEMMA WalkTypesInv == WalkTypes /\ [Next]_vars => WalkTypes'
<1> SUFFICES ASSUME WalkTypes, [Next]_vars PROVE WalkTypes'
  OBVIOUS
<1>1. ASSUME UNCHANGED <<walkVars, refused>> PROVE WalkTypes'
  BY <1>1 DEF WalkTypes, walkVars
<1>2. CASE Starting
  BY <1>1, <1>2 DEF Starting, Construct, FailToConstruct, FailToRegister, Listen,
                    StopServing, requestVars
<1>3. ASSUME NEW r \in Scrapes, Admit(r) \/ Respond(r) \/ CollectInDevel(r)
      PROVE  WalkTypes'
  BY <1>3 DEF Admit, Respond, CollectInDevel, WalkTypes, walkVars
<1>4. ASSUME NEW r \in Scrapes, NEW c \in Collectors, Acquire(r, c)
      PROVE  WalkTypes'
  BY <1>4 DEF Acquire, WalkTypes, requestVars
<1>5. ASSUME NEW r \in Scrapes, NEW c \in Containers,
             ResolveCached(r, c) \/ Ask(r, c)
      PROVE  WalkTypes'
  BY <1>5, UseFits DEF ResolveCached, Ask, Resolved, WalkTypes, requestVars
<1>6. ASSUME NEW r \in Scrapes, Works(r) PROVE WalkTypes'
  BY <1>1, <1>5, <1>6 DEF Works, CollectFreely, CheckConnection, CollectLocked,
                          FinishWalk, Release, requestVars
<1>7. ASSUME NEW c \in Containers, Answer(c) \/ FailToAnswer(c)
      PROVE  WalkTypes'
  BY <1>7, UseFits DEF Answer, FailToAnswer, Resolved, WalkTypes, requestVars
<1>8. CASE Refuse
  BY <1>8 DEF Refuse, WalkTypes, walkVars
<1>9. CASE FinishDevel \/ Closing \/ UNCHANGED vars
  BY <1>1, <1>9 DEF FinishDevel, Closing, CloseKernel, CloseDocker, ClosePodman,
                    CloseNetwork, Closes, Exit, vars, requestVars
<1> QED
  BY <1>2, <1>3, <1>4, <1>6, <1>7, <1>8, <1>9 DEF Next

(* All state keeps its type, and a resolver's cache its size (cache.go:17).  *)
THEOREM TypeCorrect == Spec => []TypeOK
<1>1. Init => WalkTypes
  <2>1. <<>> \in Seq(Containers) /\ Len(<<>>) = 0
    OBVIOUS
  <2>2. ASSUME Init PROVE refused \in BOOLEAN /\ toResolve \in SUBSET Containers
    BY <2>2 DEF Init
  <2>3. ASSUME Init
        PROVE  /\ asking = None
               /\ cache \in [Runtimes -> Seq(Containers)]
               /\ \A t \in Runtimes : Len(cache[t]) = 0
    BY <2>1, <2>3 DEF Init
  <2>4. 0 <= CacheSize
    BY ServerAssumption DEF ServerAssumption
  <2> QED
    BY <2>2, <2>3, <2>4 DEF WalkTypes
<1>2. IInv /\ WalkTypes => TypeOK
  BY DEF IInv, Types, Steps, WalkTypes, TypeOK
<1> QED
  BY InitInv, StepInv, WalkTypesInv, <1>1, <1>2, PTL DEF Spec
=============================================================================
