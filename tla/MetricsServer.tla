---------------------------- MODULE MetricsServer ----------------------------
(* cmd/server-metrics/main.go with internal/server and internal/containers:  *)
(* the daemon is constructed step by step, serves scrapes and, when the      *)
(* server returns, closes what it has opened while the scrapes go on.  A     *)
(* scrape runs all collectors at once and waits for them.  The walk of the   *)
(* control groups asks docker and podman for the names of containers, and    *)
(* these need never answer.                                                  *)
(*                                                                           *)
(* What the collectors compute is left to the other modules: here they have  *)
(* a lock and use what main opens and closes.                                *)
EXTENDS Integers, Sequences, FiniteSets, SequencesExt

CONSTANTS
    Scrapes,       \* requests of /metrics
    MaxInFlight,   \* 2: promhttp refuses more than that at a time
    Containers,
    RuntimeOf,     \* RuntimeOf[c]: "docker" or "podman"
    CacheSize,     \* 10: containers whose names each resolver remembers
    LeftOut,       \* collectors that are left out of the instance
    None

Runtimes == {"docker", "podman"}

ASSUME ServerAssumption ==
    /\ MaxInFlight \in Nat \ {0} /\ CacheSize \in Nat \ {0}
    /\ RuntimeOf \in [Containers -> Runtimes]
    /\ LeftOut \subseteq {"meminfo", "slab", "zswap", "kernelprocs"}
    /\ None \notin Scrapes \cup Containers

VARIABLES
    devel,         \* the --devel flag
    starting,      \* what execute has left to do before it returns or serves
    deferred,      \* what it closes when it returns, in that order
    phase,         \* "running", "closing" or "exited"
    registered,    \* collectors that are registered
    open,          \* what is open: /dev/kmsg, the netlink connection, a client
    inFlight,      \* scrapes that are admitted and not responded to
    refused,       \* whether the last request was refused
    todo,          \* todo[r]: collectors that scrape r waits for
    lock,          \* lock[c]: the scrape that holds the lock of collector c
    connected,     \* the network's collection has seen that it is not closed
    toResolve,     \* containers that the walk has left to resolve
    asking,        \* the one whose runtime it waits for
    cache          \* cache[t]: what t's resolver remembers, the last used last

mainVars == <<devel, starting, deferred, phase, registered>>
requestVars == <<inFlight, refused, todo>>
walkVars == <<toResolve, asking, cache>>
vars == <<mainVars, open, requestVars, lock, connected, walkVars>>

Collectors == {"kernel", "meminfo", "slab", "zswap", "cgroups", "kernelprocs",
               "network"}

\* The order they are registered in.
Registration == <<"kernel", "meminfo", "slab", "zswap", "cgroups",
                  "kernelprocs", "network">>

\* Their Collect holds the collector's lock.
LockingCollectors == {"cgroups", "kernelprocs", "network"}

\* What main closes, and what is opened when it is constructed.
Closers == {"kernel", "docker", "podman", "network"}

Openers == {"kernel", "network"}

\* Their NewCollector returns an error.
MayFail == {"kernel", "kernelprocs", "network"}

Optional(step, leftOut) == IF step \in leftOut THEN <<>> ELSE <<step>>

Construction(leftOut) ==
    <<"kernel">> \o Optional("meminfo", leftOut) \o Optional("slab", leftOut)
        \o Optional("zswap", leftOut) \o <<"docker", "podman", "cgroups">>
        \o Optional("kernelprocs", leftOut) \o Optional("network", leftOut)

\* The flags: --devel collects twice instead of serving, and
\* --no-network-collector leaves the network out.
StartUp(isDevel, withoutNetwork) ==
    Construction(IF withoutNetwork THEN LeftOut \cup {"network"} ELSE LeftOut)
        \o IF isDevel THEN <<"collect", "collect">> ELSE <<"listen">>

Init == /\ devel \in BOOLEAN
        /\ starting \in {StartUp(devel, n) : n \in BOOLEAN}
        /\ deferred = <<>> /\ phase = "running"
        /\ registered = {} /\ open = {}
        /\ inFlight = {} /\ refused = FALSE
        /\ todo = [r \in Scrapes |-> {}]
        /\ lock = [c \in LockingCollectors |-> None]
        /\ connected = FALSE
        /\ toResolve = {} /\ asking = None
        /\ cache = [t \in Runtimes |-> <<>>]

-----------------------------------------------------------------------------
(* execute: start-up                                                         *)

DoesNext(step) == phase = "running" /\ starting # <<>> /\ Head(starting) = step

\* It is opened, and will be closed whatever happens next.
Open(step) ==
    /\ open' = open \cup ({step} \cap Openers)
    /\ deferred' = IF step \in Closers THEN <<step>> \o deferred ELSE deferred

Construct(step) ==
    /\ DoesNext(step)
    /\ starting' = Tail(starting)
    /\ Open(step)
    /\ registered' = registered \cup ({step} \cap Collectors)
    /\ UNCHANGED <<devel, phase, requestVars, lock, connected, walkVars>>

\* An error is returned: what is deferred is closed.
Fail == phase' = "closing" /\ UNCHANGED <<devel, starting, registered>>

FailToConstruct(step) ==
    /\ DoesNext(step) /\ step \in MayFail
    /\ Fail
    /\ UNCHANGED <<deferred, open, requestVars, lock, connected, walkVars>>

\* Mutant: Close is deferred after the collector has been registered.
FailToRegisterFirst(step) ==
    /\ DoesNext(step) /\ step \in Collectors
    /\ Fail
    /\ open' = open \cup ({step} \cap Openers)
    /\ UNCHANGED <<deferred, requestVars, lock, connected, walkVars>>

FailToRegister(step) ==
    /\ DoesNext(step) /\ step \in Collectors
    /\ Fail
    /\ Open(step)
    /\ UNCHANGED <<requestVars, lock, connected, walkVars>>

Listen ==
    /\ DoesNext("listen")
    /\ starting' = Tail(starting)
    /\ UNCHANGED <<devel, deferred, phase, registered, open, requestVars, lock,
                   connected, walkVars>>

\* ListenAndServe cannot listen, or returns later because it cannot accept.
StopServing ==
    /\ ~devel /\ phase = "running" /\ (starting = <<>> \/ DoesNext("listen"))
    /\ Fail
    /\ UNCHANGED <<deferred, open, requestVars, lock, connected, walkVars>>

-----------------------------------------------------------------------------
(* Scrapes                                                                   *)

\* Until the process exits, a connection that is already there may be used.
IsServing == ~devel /\ starting = <<>> /\ phase # "exited"

Admit(r) ==
    /\ IsServing /\ r \notin inFlight /\ Cardinality(inFlight) < MaxInFlight
    /\ inFlight' = inFlight \cup {r} /\ refused' = FALSE
    /\ todo' = [todo EXCEPT ![r] = registered]
    /\ UNCHANGED <<mainVars, open, lock, connected, walkVars>>

Refuse ==
    /\ IsServing /\ Cardinality(inFlight) >= MaxInFlight
    /\ refused' = TRUE
    /\ UNCHANGED <<mainVars, open, inFlight, todo, lock, connected, walkVars>>

\* The response is written, or its client is gone.
Respond(r) ==
    /\ phase # "exited" /\ r \in inFlight /\ todo[r] = {}
    /\ inFlight' = inFlight \ {r}
    /\ UNCHANGED <<mainVars, open, refused, todo, lock, connected, walkVars>>

\* collect of the devel mode: the collectors one after the other.
CollectInDevel(r) ==
    /\ devel /\ DoesNext("collect") /\ inFlight = {}
    /\ starting' = Tail(starting)
    /\ inFlight' = {r}
    /\ todo' = [todo EXCEPT ![r] = registered]
    /\ UNCHANGED <<devel, deferred, phase, registered, open, refused, lock,
                   connected, walkVars>>

FinishDevel ==
    /\ devel /\ phase = "running" /\ starting = <<>> /\ inFlight = {}
    /\ phase' = "closing"
    /\ UNCHANGED <<devel, starting, deferred, registered, open, requestVars,
                   lock, connected, walkVars>>

IsBefore(b, c) == \E i, j \in 1..Len(Registration) :
                     /\ i < j
                     /\ Registration[i] = b /\ Registration[j] = c

\* Mutant: the collectors of a scrape run one after the other.
HasTurnInOrder(r, c) == /\ phase # "exited" /\ c \in todo[r]
                        /\ \A b \in todo[r] : ~IsBefore(b, c)

HasTurn(r, c) == /\ phase # "exited" /\ c \in todo[r]
                 /\ devel => \A b \in todo[r] : ~IsBefore(b, c)

IsDone(r, c) == todo' = [todo EXCEPT ![r] = @ \ {c}]

\* A collector without a lock.
CollectFreely(r, c) ==
    /\ HasTurn(r, c) /\ c \notin LockingCollectors
    /\ IsDone(r, c)
    /\ UNCHANGED <<mainVars, open, inFlight, refused, lock, connected,
                   walkVars>>

\* The walk will meet some of the containers.
Acquire(r, c) ==
    /\ HasTurn(r, c) /\ c \in LockingCollectors /\ lock[c] = None
    /\ lock' = [lock EXCEPT ![c] = r]
    /\ IF c = "cgroups" THEN toResolve' \in SUBSET Containers
                        ELSE UNCHANGED toResolve
    /\ UNCHANGED <<mainVars, open, requestVars, connected, asking, cache>>

\* Collect returns: the lock is released.
Release(r, c) == /\ lock' = [lock EXCEPT ![c] = None]
                 /\ IsDone(r, c)
                 /\ UNCHANGED <<mainVars, open, inFlight, refused>>

CheckConnection(r) ==
    /\ phase # "exited" /\ lock["network"] = r /\ ~connected
    /\ IF "network" \in open
       THEN /\ connected' = TRUE
            /\ UNCHANGED <<mainVars, open, requestVars, lock>>
       ELSE Release(r, "network") /\ UNCHANGED connected
    /\ UNCHANGED walkVars

\* What the collectors of network and kernel processes do to the end.
CollectLocked(r, c) ==
    /\ phase # "exited" /\ c # "cgroups" /\ lock[c] = r
    /\ c = "network" => connected
    /\ connected' = (connected /\ c # "network")
    /\ Release(r, c)
    /\ UNCHANGED walkVars

-----------------------------------------------------------------------------
(* The walk of the control groups and its resolvers                          *)

Walks(r) == phase # "exited" /\ lock["cgroups"] = r

IndexOf(c, used) == CHOOSE i \in DOMAIN used : used[i] = c

IsCached(c) == c \in ToSet(cache[RuntimeOf[c]])

\* lru.Cache: c becomes the last used, and if the resolver has not remembered
\* it and its cache is full, the one that was used longest ago makes place.
Use(c) ==
    LET used == cache[RuntimeOf[c]]
        others == IF IsCached(c) THEN RemoveAt(used, IndexOf(c, used))
                  ELSE IF Len(used) < CacheSize THEN used
                  ELSE Tail(used)
    IN  cache' = [cache EXCEPT ![RuntimeOf[c]] = Append(others, c)]

Resolved(c) == toResolve' = toResolve \ {c}

ResolveCached(r, c) ==
    /\ Walks(r) /\ asking = None /\ c \in toResolve /\ IsCached(c)
    /\ Use(c)
    /\ Resolved(c)
    /\ UNCHANGED <<mainVars, open, requestVars, lock, connected, asking>>

\* getClient: the docker client is created when it is needed, by the first
\* request or by one that comes after Close.  Nothing limits the request.
Ask(r, c) ==
    /\ Walks(r) /\ asking = None /\ c \in toResolve /\ ~IsCached(c)
    /\ open' = open \cup ({RuntimeOf[c]} \cap {"docker"})
    /\ asking' = c
    /\ UNCHANGED <<mainVars, requestVars, lock, connected, toResolve, cache>>

Answer(c) ==
    /\ phase # "exited" /\ asking = c
    /\ Use(c)
    /\ Resolved(c)
    /\ asking' = None
    /\ UNCHANGED <<mainVars, open, requestVars, lock, connected>>

\* Mutant: the walk asks again.
FailToAnswerAgain(c) ==
    /\ phase # "exited" /\ asking = c
    /\ asking' = None
    /\ UNCHANGED <<mainVars, open, requestVars, lock, connected, toResolve, cache>>

\* The walk leaves the group out and goes on; nothing is remembered.
FailToAnswer(c) ==
    /\ phase # "exited" /\ asking = c
    /\ Resolved(c)
    /\ asking' = None
    /\ UNCHANGED <<mainVars, open, requestVars, lock, connected, cache>>

FinishWalk(r) ==
    /\ Walks(r) /\ toResolve = {}
    /\ Release(r, "cgroups")
    /\ UNCHANGED <<connected, walkVars>>

-----------------------------------------------------------------------------
(* execute: the deferred calls                                               *)

Closes(closer) ==
    /\ phase = "closing" /\ deferred # <<>> /\ Head(deferred) = closer
    /\ deferred' = Tail(deferred)
    /\ open' = open \ {closer}
    /\ UNCHANGED <<devel, starting, phase, registered, requestVars, lock,
                   connected, walkVars>>

CloseKernel == Closes("kernel")

\* Mutant: the lock of the resolver is held while it waits for an answer.
CloseDockerWaits == Closes("docker") /\ asking = None

CloseDocker == Closes("docker")

ClosePodman == Closes("podman")

\* Mutant: without the collector's lock.
CloseNetworkUnlocked == Closes("network")

CloseNetwork == Closes("network") /\ lock["network"] = None

Exit == /\ phase = "closing" /\ deferred = <<>>
        /\ phase' = "exited"
        /\ UNCHANGED <<devel, starting, deferred, registered, open, requestVars,
                       lock, connected, walkVars>>

-----------------------------------------------------------------------------
Starting == \/ \E step \in Collectors \cup Runtimes : \/ Construct(step)
                                                \/ FailToConstruct(step)
                                                \/ FailToRegister(step)
            \/ Listen
            \/ StopServing

Closing == \/ CloseKernel
           \/ CloseDocker
           \/ ClosePodman
           \/ CloseNetwork
           \/ Exit

\* What the goroutines of scrape r do on their own, once they have the locks.
Works(r) == \/ \E c \in Collectors : CollectFreely(r, c)
            \/ CheckConnection(r)
            \/ \E c \in LockingCollectors : CollectLocked(r, c)
            \/ \E c \in Containers : ResolveCached(r, c) \/ Ask(r, c)
            \/ FinishWalk(r)

Next == \/ Starting
        \/ \E r \in Scrapes : \/ Admit(r)
                              \/ Respond(r)
                              \/ CollectInDevel(r)
                              \/ \E c \in Collectors : Acquire(r, c)
                              \/ Works(r)
        \/ Refuse
        \/ FinishDevel
        \/ \E c \in Containers : Answer(c) \/ FailToAnswer(c)
        \/ Closing

\* Goroutines run, and a sync.Mutex starves nobody.  Requests need not come,
\* nothing needs to fail and the runtimes need not answer.
Fairness ==
    /\ \A r \in Scrapes : WF_vars(Respond(r)) /\ WF_vars(Works(r))
    /\ \A r \in Scrapes : SF_vars(\E c \in Collectors : Acquire(r, c))
    /\ SF_vars(Closing)

Spec == Init /\ [][Next]_vars /\ Fairness
-----------------------------------------------------------------------------
TypeOK ==
    /\ devel \in BOOLEAN
    /\ starting \in Seq(Collectors \cup Runtimes \cup {"collect", "listen"})
    /\ deferred \in Seq(Closers)
    /\ phase \in {"running", "closing", "exited"}
    /\ registered \in SUBSET Collectors
    /\ open \in SUBSET {"kernel", "network", "docker"}
    /\ inFlight \in SUBSET Scrapes /\ refused \in BOOLEAN
    /\ todo \in [Scrapes -> SUBSET Collectors]
    /\ lock \in [LockingCollectors -> Scrapes \cup {None}]
    /\ connected \in BOOLEAN
    /\ toResolve \in SUBSET Containers
    /\ asking \in Containers \cup {None}
    /\ cache \in [Runtimes -> Seq(Containers)]
    /\ \A t \in Runtimes : Len(cache[t]) <= CacheSize

(* Handlers go on while the deferred calls close what they use: a collection *)
(* of the network that has seen its connection has it until it returns       *)
(* (main.go:168 with network/collector.go:47-75).                            *)
NothingIsUsedAfterClose == connected => "network" \in open

(* However start-up fails, and whatever is in flight when the server stops,  *)
(* /dev/kmsg and netlink are closed at exit.  Only a docker client can be    *)
(* left: a walk that still runs makes a new one after Close                  *)
(* (main.go:101-201 with docker.go:44-72).                                    *)
ExitLeavesNothingOpen ==
    phase = "exited" =>
        /\ open \subseteq {"docker"}
        /\ "docker" \in open => ~devel /\ starting = <<>>

(* The limit on scrapes never becomes permanent: if the runtimes do not keep *)
(* the walk for ever, every admitted scrape ends (server.go:22-25, with the  *)
(* locks of the collectors; an answer may be an error).                      *)
ScrapesEnd ==
    []<>(asking = None) =>
        \A r \in Scrapes :
            r \in inFlight ~> (r \notin inFlight \/ phase = "exited")

(* A runtime that never answers holds up the walk and nothing beside it: the *)
(* other collectors of a scrape finish and give back their locks, whoever    *)
(* waits for the walk.  The scrape itself gets no answer, since Gather waits *)
(* for all collectors, and MaxInFlight such scrapes have all others refused, *)
(* until the runtime answers (ScrapesEnd; server.go:22-25, docker.go:28,     *)
(* cgroups/collector/collector.go:53).                                       *)
HangHoldsOnlyTheWalk ==
    \A r \in Scrapes :
        (~devel /\ r \in inFlight)
            ~> (todo[r] \subseteq {"cgroups"} \/ phase = "exited")

(* The deferred calls end even if scrapes hold on, for ever, to the lock of  *)
(* the walk: no Close needs it, nor waits for a runtime (main.go:105-168).   *)
ShutdownEnds == phase = "closing" ~> phase = "exited"
=============================================================================
