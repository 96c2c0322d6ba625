# Formal models of server-metrics

TLA+ models of the parts of server-metrics that keep state between scrapes or
run concurrently, checked by TLC on small instances, with theorems proved by
TLAPS for every value of the constants. Paths below are relative to `src/`.

    tlc -workers 2 -config CpuRoot.cfg MCCpuRoot      # a run
    tlapm CpuRootProofs.tla                           # the proofs of a module

`PROJECT.json` lists the components, the runs with their properties, the lines
of code behind every definition, a plausible bug for every property that the
run would catch, the hazards the properties are aimed at, and the theorems.

## 1. The system

A daemon (`cmd/server-metrics/main.go`) registers seven collectors with
Prometheus and serves `/metrics`. Every scrape calls `Collect` of each
collector concurrently; the server admits two scrapes at a time, so a
collector may also be called twice at once. Beside the scrapes one component
has goroutines of its own: the kernel log.

| Component | State kept between scrapes | Operations | What is hard |
|---|---|---|---|
| Race controller `internal/cgroups/races.go` | groups that raced in this collection; in how many collections in a row each has | `OnCollectionStarted`, `Check`, `OnCollectionFinished` | committed only by a collection that finishes; two limits; several checks of a group per collection |
| Hierarchy walk `internal/cgroups/collector/collector.go` | none of its own, one collection at a time under a lock | `Collect`, `observe`, `collect` | the hierarchy changes between any two reads; one group's failure must not cost its siblings |
| CPU collector `internal/cgroups/cpu` | per root group: last usage, net usage, collected | `Pre`, `Collect`, `Post` | counters of a group and its children are read at different moments |
| I/O collector `internal/cgroups/io` | the same per device, and the last children | `Pre`, `Collect`, `Post` | devices come and go; a calculation fails halfway, after the baseline is replaced |
| Memory collector `internal/cgroups/memory` | none | `Collect` | the same racy reads |
| Cgroup classifier `internal/cgroups/classifier` | none | `ClassifySlice` | what a total leaves out must be classified elsewhere; names collide; what resolvers answer |
| Kernel log `internal/kernel/collector.go` | the group being collected, its timer | reader, processor, `Close` | an unbuffered channel, a timer, two clocks, a shutdown that waits for both |
| Kernel error classifier `internal/kernel/classifier.go`, `matchers.go` | counters of errors | `classify` | known errors inside unknown ones; streams cut into groups |
| Kernel processes `internal/kernelprocs` | time of each kworker, their sum | `Collect` | the list is taken before the lock; PIDs are reused |
| Network bans `internal/network` | the banned addresses | `Collect`, `Close` | four sets read at four moments; batched deletion that fails halfway |
| Containers, users `internal/containers`, `internal/users` | caches, docker's client | `Resolve`, `Close` | a resolver that does not answer holds the walk's lock; `Close` beside a walk |
| Memory, zswap, slab `internal/meminfo`, `zswap`, `slab` | slab's cache of names | `Collect` | nothing beyond parsing |
| Server, daemon `internal/server`, `cmd` | requests in flight, what is open | start-up, requests, deferred `Close` | the limit, the locks and shutdown together; start-up that fails halfway |

**Interactions.** The walk calls the classifier, which calls the resolvers; for
every service it calls the three cgroup collectors in the order cpu, memory,
io; the walk and the three collectors hand each read of a missing file to the race
controller, which answers "skip silently" or "an error". The kernel log's
processor hands groups to the error classifier. The network collector and
fail2ban share nftables sets, through warnings in the log. Everything else
shares only the server's limit and the counter of errors.

**What makes each part correct.**

- Race controller: a group that races for too long, or too many at once, is
  reported; occasional ones are not; an aborted collection changes no count.
- Walk: services that exist are collected, none twice, and a failure is
  confined to the group it happened to. The collectors' states agree.
- CPU and I/O: the usage of a root group is a counter, counts nothing twice,
  counts nothing of its children beyond what a racy snapshot cannot tell, and
  misses no more than that either.
- Kernel log: each message is classified once, in order, at the latest when
  the collector is closed, and closing ends. Bursts are classified together.
- Error classifier: how the stream is cut must not hide an error.
- Kernel processes: the sum of kworkers is a counter of time really used, as far as
  each PID is listed once.
- Network bans: scanners are found and warned about, and evidence is
  deleted only after a warning.
- Classifier: what users and containers use is charged to one service each, and
  a user's services are never taken for another's.
- Server and daemon: a scrape ends unless a runtime holds it. Then it has no answer at
  all, and once the limit is reached further ones are refused; but nothing other than the
  walk waits for the runtime, and the server can still be shut down. What start-up has
  opened is closed, however far it got, and not while it is used.

## 2. The modules

| Module | Models | Uses |
|---|---|---|
| `RaceController` | `races.go` as operators and state, without a specification | |
| `RaceHistory` | the controller under every history of collections | `RaceController` |
| `CgroupsCollector` | the walk with its three collectors, step by step | `RaceController` |
| `CgroupClassifier` | `ClassifySlice` as a pure operator | |
| `RootUsage` | `usage.go`: differences of counters and the net usage, and memory's subtraction | |
| `CpuRoot`, `IoRoot` | the CPU and I/O state of one root group, with the kernel's counters | `RootUsage` |
| `KernelLog` | reader, processor, timer and `Close` | `MessageSink` (refined) |
| `MessageSink` | what the kernel log promises of its messages | |
| `KernelClassifier` | the scanning loop and its matchers over streams of messages | |
| `KernelProcs` | two collections of kernel processes at a time | |
| `NetworkBans` | collections of the nftables sets, and the sets | |
| `MetricsServer` | the daemon's start-up, scrapes and exit, with the collectors' locks and the resolvers | |
| `*Proofs` | theorems about the module they are named for; `CgroupsProofs` about `CgroupsCollector`, `CgroupClassifier` and `RaceHistory`, and about the walk with that history; `KernelLogProofs` also about `KernelClassifier` | `SumTheorems` |
| `SumTheorems` | what a sum over a finite set is, for the proofs about counters, scores and times | |
| `MC*` | instances for TLC; `MCCgroupsCollector` composes the walk with the classifier | |

A definition next to another with a similar name and a comment calling it a
mutant (`CheckForgetsTheCount`, `CollectorsReversed`...) is a bug the
other could have. No specification uses it. Substituting it makes the property it is
paired with in `PROJECT.json` fail, which shows that the property says
something about that code.

### How they correspond to the code

**RaceController, RaceHistory.** `current` and `active` are the two maps;
absent reads as 0. `Check(g)` and `IsReported(g)` are the two halves of
`Check`: what it stores and what it returns. In `RaceHistory` a collection
starts, checks any groups any number of times, and ends with
`OnCollectionFinished` or without (an error of `observe` returns early); its
actions have names of their own (`StartCollection`, `FinishCollection`, `AbortCollection`), so that
a module can extend it and the walk. `history` is a record of collections that only properties read.

**CgroupsCollector.** `stack` is the recursion of `observe`, and `at` says
whether the walk or a collector runs. A collector's reads are a `plan` fixed by
which it is and whether the group is a root group: list the children, read
the own file, read each child's file. Every read is one step that finds the
file or not, or fails: `OwnRaces`, `KidRaces` and
`ParentRaces` are the branches on `os.ErrNotExist`; `FailToRead` any other
error. A file is missing (`HasFile`) if its group does not exist, or if the group exists and its
memory or io controller is off (`disabled`), as while systemd configures the group
(`races.go:7-9`). The code cannot tell one from the other (`group.go:94-109`), and neither does
the model: both go to the race controller. A group that appears may have any of its `Switchable`
controllers off, and `SwitchController` turns one on or off. `Record` is the update of the state a collector keeps, reduced to "has a state" and
"collected"; `FailToCalculate` is `calculateUsage` returning an error. `Finish` is
`Post` of the collectors and `OnCollectionFinished`; `AbortWalk` is the return before them. Groups,
processes and controllers come and go by `Change` between any two steps.

**CgroupClassifier.** A path is a sequence of names, and a name is what the
regular expressions tell apart: its kind, the user, container or slice in it, and
the text it may give to a service. The chain of conditions in `ClassifySlice` is
regrouped by parent, one operator for each place in the hierarchy. `Users`,
`Docker` and `Podman` are what resolvers answer, an unknown key being an error. The
walk takes the answers as constants (`Service`, `Totals`, `Excluding`, `Unresolvable`), and
`MCCgroupsCollector` computes them with the classifier from the paths of a real
hierarchy: a container, and a user's slice down to the service manager, the user
and the container having the same name. Of the hierarchy the walk assumes that it is a
tree (`Above[g]` is `g` and what is above it, and the root is above everything), that
`Listing` gives any set of groups in some order, and, of the classifier's answers, that what a total
leaves out are children of it, as its list has the names of children.

**CpuRoot, IoRoot.** One root group with its children. Kernel actions
(`UseOwn`, `UseChild`, create, remove, `Unplug`) raise the counters of a
group and its ancestors; a removed child's usage stays in its ancestors, as in
cgroup v2. In `CpuRoot`, "/" may count less than its children do: `Charge` gives it
any part of what a child used from all to all but `MaxLost`, and `lost` is what it
has not been given. That is what `usage.go:35-43` found of "/": about a tenth of its usage "is lost somewhere". It never
counts more than its children and its own usage. `isRoot` tells "/" (its children are
listed in every collection) from a service's slice (a fixed list of excluded children,
missing ones skipped). `pc` is the position in `Collect`; `UpdateState` is
everything after the last read. Properties use ghost variables: in `CpuRoot`
`ownUsage`, what the group itself used, and `unseen`, the usage no snapshot can
attribute (what children used while a snapshot was being read, children created after
the listing, groups removed), beside `lost`; in `IoRoot` `done`, what was really done on
each device, and `disturbed`, whether something the code cannot attribute has
happened since the state was made.

**KernelLog.** `unread` is the kernel's ring buffer and `kmsg` the open file, `reader` and `processor` the
two goroutines, `timer` the deadline of the processor's timer. The channel is
unbuffered, so `Receive` is one step of both goroutines. `CloseFile` and
`WaitReturns` are the two halves of `Close`. The clock ticks at any moment,
and a message's time stamp may be ahead of it by at most `MaxSkew`. A full ring buffer makes
the reader see `EPIPE` (`ReadOverrun`), which it survives; any other failure
ends it (`ReadFails`). Parsing is reduced to whether a message is an error.

**KernelClassifier.** Messages are tokens: heads and followers of the pairs of
messages the matchers know, an NMI, a watchdog, an unknown. `MessageMatches`,
`NothingMatches` and `Return` are the three branches of an iteration.
Groups are non-empty, as `processGroup` makes them. `Start`
takes any of them, so streams and cuts are arbitrary up to a length of `MaxLength`.

**KernelProcs.** One step is one access to a file. The list of PIDs is read before
the lock is taken, as in the code, and line by line: `List` opens `cgroup.procs`, each
`ListPid` reads one line, and `ahead[c]` are the processes it has not come to. A process that lives
all the while is listed once; a PID that is used again while the file is read may have a second
line, and `group.PIDs` keeps both (`group.go:64-87`). `todo[c][p]` is how many lines of a PID
`observe` has not come to, and the growth is added once for each of them (`ReadKworker`), as it
compares each with the same stored time. Each process has a name and a time, may exit, and
its PID may be taken by a new one. `kworkers`/`kworkersUsage` are the fields of the
collector, `newKworkers`/`newUsage` the locals they are replaced by in `Finish`.
`worked` is the time all kworkers ever used, and `repeated` what was added for lines after a
PID's first.

**NetworkBans.** `elements` is the content of the four sets, changed by the
kernel between any two requests. A collection reads the sets in order, scores
addresses (`Score` has the ports of `scoring.go`), deletes the elements of `banned` in
batches of `BatchSize` (1000 in the code), and computes the next `banned`. A
flush of a batch one of whose elements has expired fails, and so may any request
(`NetlinkFails`).

**MetricsServer.** `starting` is what `execute` has left to do, one step for each
component it makes; `deferred` is its stack of deferred calls. A scrape `r` is admitted
or refused by the limit, then all its collectors run concurrently (`todo[r]`), as
in `Registry.Gather`; `--devel` runs them one after the other. Three collectors hold a lock
in `Collect`: the network's sees the connection first (`CheckConnection`), the
walk asks resolvers (`Ask`), which answer from the cache (`Use` is the LRU), or when the runtime
does (`Answer`, `FailToAnswer`), or never. `StopServing` is `ListenAndServe` returning; it
does not wait for handlers, so scrapes go on between the deferred calls until `Exit`.
What collectors compute is left to the other modules.

## 3. What the runs check

Bounds are chosen so that every branch of every action is taken, and every
property has been seen violated by a plausible bug under the same bounds.
`CHECK_DEADLOCK FALSE` is given where counters of the instance run out and the
model stops for that reason only (or `Close` has really ended everything);
`CpuRoot` and `IoRoot` check for deadlock.

| Run | Bounds, and why they are enough | Shows |
|---|---|---|
| `race_history` | 3 groups, `MaxRetries` 1, `MaxActiveRaces` 2, 4 collections: a race can persist, be forgiven, stop and start again around an aborted collection, and the groups can exceed the limit | `PersistentRaceIsReported`, `CountsMatchHistory`, `FewGroupsAreForgiven`, `ReportsAreFinal` (what has been reported would be reported again, at any later moment of the collection; what has been forgiven need not be forgiven again) |
| `cpu_root` | 2.6 million states. 2 kinds of counters, 2 children, 3 ticks of which "/" may lose one of each kind, 1 removal: usage before, between and after the reads of two children, one child replaced between two collections | `NetTracksOwnUsage` (exact up to `unseen` and, from below, `lost`, after any number of failed calculations), `NetIsBoundedByCounters`, `NetNeverGoesBack` |
| `io_root` | 1 kind (several kinds interact only in the CPU's way, checked above), 2 devices, 2 children, 3 ticks, 1 removal: one device fails while another was added | `NothingIsCountedTwice`, `ExactWhenUndisturbed`, `FailuresHaveACause`, `ReportNeverGoesBack` |
| `cgroups_collector` | 1.2 million states. 8 groups: "/", `system.slice` with a container, `user.slice` down to the children of a service manager, which is the same service as the container; two totals that exclude one and two children. The memory controller of `init.scope`, which is a child to be subtracted and a service itself, may be off; its io metrics, which come last, are then missing as well. 2 changes or failures, 3 collections: a group is lost, forgiven and forgotten, or lost again and reported | `NoDuplicateSamples`, `DueGroupsAreCollected`, `CalmCollectionIsComplete`, `EveryProcessIsCountedOnce`, `SilenceIsBounded`, `IoBaselineImpliesCpuBaseline`, `WalkOnlyAdvances` |
| `kernel_log` | groups of 3, time 2, skew 1, 4 messages, clock to 5: a group can be ended by size, age, a late message, the timer and `Close` | `EveryMessageOnce`, `GroupHasTimer`, `BurstsAreKeptTogether`, `ImplementsSink` |
| `kernel_log_liveness` | groups of 2, 3 messages: one message starts a second group | `EveryMessageIsProcessed`, `CloseTerminates` |
| `kernel_classifier` | streams of up to 4 of 10 messages, cut in every way: a pair, something between, and something unknown before or after | `CutsHideNothing` |
| `kernel_procs` | 2 PIDs, 2 overlapping collections, 3 in all, 3 ticks, 1 PID reused, also while it is being listed, so that it has two lines; names: a kworker, a process called like the sum, and one that two processes may share | `OnlyRepeatedIsCountedTwice`, `ExactWhenUndisturbed`, `NoDuplicateSamples`, `KworkersNeverGoBack` |
| `network_bans` | 1.7 million states. 7 elements of a remote and a local address over three sets, batches of 2, 4 collections (warn, delete, pause, warn again), any request may fail. The remote address scans with two of its TCP ports or with both UDP ports, so it can go on scanning while no scan goes on | `DeletedWereWarned`, `ScannersAreFound`, `WarningsAlternate` |
| `metrics_server` | 2 scrapes for a limit of 2, so that a further one is refused; two docker containers for a cache of one: hits, misses and evictions. Left out are collectors like those that are in: kernel processes (a lock, as the network has, but no connection), memory, slab and zswap (no lock, as the kernel log) | `NothingIsUsedAfterClose`, `ExitLeavesNothingOpen`, `ScrapesEnd`, `HangHoldsOnlyTheWalk`, `ShutdownEnds` |

Type invariants are checked by the runs of `CpuRoot` and `CgroupsCollector` (`TypeOK`) and of
`KernelClassifier` (`ClassifierTypeOK`); they are proved of every module (section 4). `WalkOnlyAdvances` is how
the walk's termination is stated: each of its steps lowers a tuple of naturals
(groups left, depth, stage, reads left) in lexicographic order, which needs no fairness and,
unlike a liveness property of this instance, does not rest on its bounded number of
changes. It is also proved, for every hierarchy. `kernel_log_liveness` has the states of
`kernel_log` with smaller constants. Two more runs refute something the code says of
itself:

- `cgroups_dropped`: `cpu/collector.go:45` says "root hasn't been collected.
  Assuming it deleted and dropping its state." One failing read of a service
  that exists has the same effect: its state is dropped, and its counter
  starts again.
- `network_bans_removed`: `network/collector.go:87` says "Give a time to
  fail2ban to react on the log message and remove the set elements on next
  iteration". One element that expires between the listing of a set and the flush
  fails the flush, the error makes the collection forget all bans, and the
  elements of every address warned about stay until they are warned about once more.

**Fairness.** Safety runs assume none. `KernelLog!FairSpec` assumes weak
fairness of `Tick`, of the steps of the two goroutines that the Go runtime
will schedule when they can run (`Read`, `ReadOverrun`, `ReadClosed`,
`Receive`, `TimerFires`, `ChannelClosed`), and of `WaitReturns`. Nothing forces
the kernel to log, a read to fail or anyone to close the collector.

`MetricsServer!Fairness` is weak for a scrape's own steps, and strong for its
acquiring locks and for the deferred calls, one of which needs a lock: a `sync.Mutex`
hands itself over to a goroutine that has waited for a millisecond, so it starves nobody. Nothing
forces requests to come, anything to fail, the server to stop or a runtime to
answer; `ScrapesEnd` assumes in its own statement that no runtime is silent for ever.
`HangHoldsOnlyTheWalk` does not: what it says of a silent runtime is that the collectors other than
the walk end and give back their locks. The scrape waits for the walk (`Respond` needs all
collectors), so it gets no answer, and two such scrapes fill the limit (`server.go:24`). The
timeouts of `server.go:29-30` end connections, not handlers, so no step stands for them.

**Symmetry** is used only in safety runs, over model values that no definition
distinguishes.

## 4. What is proved

All theorems but those about operators are invariants or step properties of a
module's `Spec`, by the usual argument: an inductive invariant implied by
`Init`, preserved by each action (one step of the proof per action), and
implying the property. Every safety property that a run shows to hold is proved, for
every value of the constants.

### The walk and what it relies on: `CgroupsProofs`

| Theorem | Says | Inductive invariant |
|---|---|---|
| `HistoryTypeCorrect`, `RacesAreReported`, `ForgivenessIsBounded`, `CountsAreExact`, `ReportsStand` | everything `race_history` checks | `HistoryInv`: `TypeOK`, `PersistentRaceIsReported`, `FewGroupsAreForgiven`, and: a count is at least the length of the run of collections the group has raced in, a count over the limit is reported at once, who has raced in this collection is counted, and who is reported is over a limit. The first links the map to the history, without which a persistent race could have a low count; the last gives `ReportsAreFinal`, as later checks only raise what a group was reported for, and an open collection does not lower it |
| `UserServicesStartWithTheirUser`, `UsersAreApart`, `ExcludedChildrenAreServices`, `ExcludedTotalsExclude`, `OnlyResolversFail` | for every path: a user's groups are services of that user, users share none; what a total leaves out is another service, or `app.slice`, and leaves something out if it is a total; only resolvers fail | none: the classifier is a function, and the proofs go through its cases |
| `WalkTypeCorrect` | `TypeOK` | `WalkInv`: with the types of what is in hand, how `at` and the innermost frame agree, that a group being read has been taken, and that listed groups are children of the group of their frame |
| `NothingIsSentTwice` | `NoDuplicateSamples` | `SamplesInv`: samples are of services that are taken, and of the group being read none is of a collector still to come |
| `BaselinesAgree` | `IoBaselineImpliesCpuBaseline` | `BaselineInv`: the same at every moment, for the marks of the present collection too, and once cpu is through with a root group it has a mark there |
| `WhatIsDueIsCollected` | `DueGroupsAreCollected` | `NeedInv`, a frame without a need for collection is of a group that had no processes at some moment; and `CoverageInv`, a group that is still reached is below a listed one, in hand, below the one whose children may be listed, or settled. At the end only the last is left |
| `SilenceEnds` | `SilenceIsBounded` | `SilenceIsCounted`, each silent collection in a row is one race the controller counts, plus `CpuIsAccountedFor`, the cpu usage of a taken group is sent, complained about, silenced by the controller, or still being read; with `CoverageInv`, as a group that is due and is not taken would be silent without a race |
| `ProcessesAreCountedOnce` | `EveryProcessIsCountedOnce` | at most once: `ApartInv`, nothing the walk has come to is below a group listed and not entered, or below one that is closed, and below a total only what it leaves out is come to; with `PathInv`, the frames are of different groups and a group whose children may be listed has none of them yet. At least once: `ProcessInv`, in a calm collection each process is below a group still to be entered, or charged to one that is to be collected, is collected or is complained about |
| `CalmIsComplete` | `CalmCollectionIsComplete` | `OpenInv`, a collected group is in hand only while it is read; `ReadInv`, what a collector reads is needed for the sample it will send, and a group is looked at again only if a file it needs is missing; so, with `ComplaintInv` and `SampleInv`, what is not sent is still to be, up to the first collector that lacks a file, and only groups that cannot be collected are complained about; `KnownInv`, the io states of the start stay |
| `WalkAdvances` | `WalkOnlyAdvances` | `WalkInv`, `PathInv` and `ApartInv`: the child that is entered is below no other listed group, so it is a group less to enter |
| `HistoryOnlyFollows`, `WalkImplementsRaceHistory` | `WalkHistorySpec` implies the `Spec` of the walk, and `HistorySpec` | `WalkInv`; `KidsFit`, the children in hand are those of the group that is read; `HistoryFollows`, a collection of the history is open while one of the walk is, and there are as many of both |
| `WalkRacesAreBounded` | `PersistentRaceIsReported`, `CountsMatchHistory`, `FewGroupsAreForgiven`, `ReportsAreFinal` of the walk | the refinement and the theorems about `RaceHistory` |
| `PersistentRacesAreLogged` | `PersistentRaceIsLogged`: a group whose file was missing in a collection that finishes and in the `MaxRetries` before it is named in the log, or the group above it is | `ReportsAreLogged`, a reported race is in the log by then unless it has ended the collection; with `HistoryInv`, as the count of such a group is over the limit |

**The walk as a user of the race controller.** `RaceHistory` lets any group race at any
moment of a collection. `WalkHistoryNext` is a step of the walk together with what it does to the history:
`Start` opens a collection, a step that finds a file missing is a race on the group whose
file it is, and `Finish` and the errors of `observe` close it. A reported race on
`cgroup.procs` is two steps of `RaceHistory` in one step of the walk, the race and the
abort; `ending` makes the second a step of its own. That the history has no say in what the
walk does is `HistoryOnlyFollows`, and that no step of the walk is left out
`EveryStepHasItsHistory`. The theorems assume that the history may be as long as there are
collections (`MaxCollections <= MaxHistory`, two bounds of the models).

`calm` collections, those in which nothing changes or fails, are no empty
hypothesis: the run of `CgroupsCollector` has them, and a mutant of the collectors
violates `CalmCollectionIsComplete` there. In a calm collection a file may be missing all the
same, as a controller may be off all the while. Its group then has samples of the collectors
before it (cpu, memory, io) only, and whether anybody is told is the race controller's to say: the
theorem counts as complete all that `CanRead` allows.

### The collectors and the daemon

| Theorem | Says | Inductive invariant |
|---|---|---|
| `CpuRootProofs!TypeCorrect` | `TypeOK` | the types, and that nothing is left to read outside a snapshot |
| `CpuRootProofs!NetIsBounded`, `NetIsCounter` | `NetIsBoundedByCounters`, `NetNeverGoesBack` | the numbers are numbers, and `NetIsBoundedByCounters`, which is inductive with them because a calculation that succeeds adds between the growth of the group over its children and that of its own counter, and one that fails keeps the last usage |
| `CpuRootProofs!UsageIsTracked` | `NetTracksOwnUsage` | `MarginInv`: what the counters say of the group's own usage, over what it really was, is followed in the kernel (`Held`), in the snapshot that is being read (`Seeing`) and in the last one (`Seen`); they differ by no more than what `unseen` has grown by, and neither does the reported usage (`Drift`), but for what "/" has not counted, which is `lost` |
| `IoRootProofs!TypeCorrect`, `NothingIsInvented`, `ReportIsCounter` | `TypeOK`, `NothingIsCountedTwice`, `ReportNeverGoesBack` | the numbers are naturals, and each snapshot is behind what has been done: since it was read, a counter has grown by no more than what has been done since. An inequality, as a device that is plugged again starts at zero; with it for the last and for the present snapshot, what a calculation adds was done between them |
| `IoRootProofs!ReportIsExactWhenUndisturbed` | `ExactWhenUndisturbed` | `OwnInv`: what the counters hold of the group's own requests, less what it has done, is one number (`Gap`) in the kernel and in both snapshots, as long as nothing is disturbed |
| `IoRootProofs!FailuresAreExplained` | `FailuresHaveACause` | `CauseInv`: without a removal the lists of children only get longer and the sums over them only grow, so the last snapshot is below the present one |
| `IoRootProofs!MemoryHasNoOrder` | the clipped subtraction of memory of two children is that of their sum, in either order | none: a fact about `RootUsage` |
| `KernelLogProofs!MessagesAreKept`, `Refinement` | `EveryMessageOnce`, and that `KernelLog` implements `MessageSink` | the sequences have their types, a goroutine that has ended leaves no message behind (without which `Stop` could not be refined), `EveryMessageOnce` |
| `KernelLogProofs!GroupsAreTimed`, `TypeCorrect` | `GroupHasTimer`, `TypeOK` | the two together, with the types of clock and timer |
| `KernelLogProofs!BurstsStayTogether` | `BurstsAreKeptTogether` | `BurstInv`: the same of the group being collected, and, while there is none, that the last group was full or is old enough by now |
| `KernelLogProofs!ClassifierTypeCorrect`, `NothingIsHidden` | `ClassifierTypeOK`, `CutsHideNothing` | `ScanInv`: what has been counted and found so far is right for the messages that have been scanned (`Tally`), up to the unknown errors that cuts may have added. Between iterations the scan is at the beginning of a group (`AtCut`) or past a known error with all that belongs to it (`PastError`), so the run of messages before the next match is a maximal one, or the rest of one that was cut. It needs that the matchers, tried in their order, take a message and its followers exactly if the message is a head |
| `NetworkBansProofs!DeletionsAreAnnounced`, `WarningsHavePauses`, `TypeCorrect` | `DeletedWereWarned`, `WarningsAlternate`, `TypeOK` | the banned were warned about by the last collection, whatever is deleted is of a banned address, addresses found now are not among those banned, an idle collector has no leftovers |
| `NetworkBansProofs!ScansAreFound` | `ScannersAreFound` | `FoundInv`: a scan that has gone on since the collection began is of a banned address, of a set that is still to be read, or already in what was read. A scan is of one protocol: its elements are in one set, read at one moment |
| `KernelProcsProofs!KworkersAreCounter`, `SamplesAreDistinct`, `TypeCorrect` | `KworkersNeverGoBack`, `NoDuplicateSamples`, `TypeOK` | the collection that holds the lock has a sum at least the stored one, others have none; while it reads, the names it has sent, and that of the sum, which is sent last, are all in its set |
| `KernelProcsProofs!OnlyRepeatedTimeIsCountedTwice` | `OnlyRepeatedIsCountedTwice` | `CountedInv`: the stored sum and what the next collection may add, the sum over all PIDs of what each has used since its record, are at most what was worked and what was `repeated`; and so for the sum of the collection that holds the lock |
| `KernelProcsProofs!UsageIsExactWhenUndisturbed` | `ExactWhenUndisturbed` | `ExactInv`: while nothing is disturbed records are kept as long as their process lives, the one list there is has all of them, each once as no PID is used again, and both sums are what the records differ by |
| `MetricsServerProofs!UseBeforeClose`, `NothingIsLeftOpen`, `TypeCorrect` | `NothingIsUsedAfterClose`, `ExitLeavesNothingOpen`, `TypeOK` | a lock is held only by a collection in flight, the connection is used only under its lock and is open then; what is open has its closing call deferred, but for the docker client, which only a handler of the server may have made later; in devel mode `main` waits for its collections before it closes anything |

**Sums.** `SumTheorems` proves what `SumFunctionOnSet` does: it is unfolded at any
element, split, compared and changed at one place. The induction theorems of the library take an operator
as a parameter, so induction here is by the least counterexample: of a set of
subsets of a finite set that is not empty, one is minimal (`LeastSet`). The
fold is a `CHOOSE` of a recursive function, so the proofs first show that
such a function exists, and that any two agree. The same goes for numbers (`LeastNumber`): the
first matcher that takes something, the end of the longest alternation of hotplug messages.

**Assumptions** on constants are those the modules name (`ASSUME`): limits and
bounds are naturals, the groups are finitely many and form a tree, what a total leaves out are
children of it, a group of messages has room for two, batches are not empty, an address
belongs to one family. TLC evaluates them in the runs. The bounds (`MaxTicks`,
`MaxCollections`...) are constants too, so the theorems hold for all their values.

**What attempts to prove have changed.** `ScannersAreFound` once spoke of
addresses over the threshold, and its proof did not go through for a good reason: an
address that scans with TCP and UDP by turns is over it all the time, but the
sets are read at different moments, and a collection may see neither scan. It now speaks of the scans of one
protocol, and the instance has an address that can scan by turns. `CalmCollectionIsComplete` once said that
a calm collection lacks nothing that exists, from a model in which a group that exists has all
its files. It does not: a group whose memory or io controller is off loses the samples from
there on, and the controller may forgive it silently. Now it says which samples are sent, by the
files that are there (`CanRead`). Its proof also needed that a total which is left out of
another leaves groups out itself; the weaker statement does not, and the assumption is gone.
`OnlyRepeatedIsCountedTwice` once had no `repeated`, as the list of PIDs was a set: read line by
line, it may have a PID twice.

**Only model-checked**: liveness (`EveryMessageIsProcessed`, `CloseTerminates`,
`ScrapesEnd`, `HangHoldsOnlyTheWalk`, `ShutdownEnds`), which is out of the prover's reach. The
two properties that runs refute (section 3) have no theorem, of course.

**Only proved**: what is said of `WalkHistorySpec`, whose history would multiply the states of
`cgroups_collector`, and the theorems about the classifier and about `RootUsage`.

## 5. What is not modelled

- **Stateless collectors** (memory, zswap, slab), parsing of kernel files and
  log records, formatting, device names: nothing is kept, and a read or a
  parse that fails is an outcome of the step that reads. Slab keeps the types
  of caches it has seen, in a map under a lock of its own that only grows.
- **Expiry of user names**: the users' cache forgets a name after a minute. The
  classifier is checked for any answer of the resolvers, one answer for a collection.
- **Network statistics**: how many packets and which addresses are exported
  (`collectForwardIPs` among them) changes no state.
- **A signal** that kills the process ends it with no deferred call. What it leaves
  open is the kernel's to close; nothing is persisted, so a restart is a start.
- **Wrap-around of counters**: the code's integers are 64 bits wide, CPU ticks,
  bytes and microseconds do not reach that.

`session.slice` and other slices of a service manager are classified by
`CgroupClassifier` but are not in the walk's instance: a total of the service manager
excludes `app.slice` and `init.scope` only.

## 6. The plan

Done, in this order: the race controller with its history; CPU root groups;
the walk; the kernel log with `MessageSink`; I/O root groups; the error
classifier; kernel processes; network bans; the cgroup classifier, composed
with the walk; the server and the daemon around all collectors; memory's
subtraction; that a walk ends; and the proofs of section 4.

Next, in order of importance:

1. The expiry of user names during a walk, which would make the classifier's answers change
   between two groups of one user.
2. Slab's cache of types, under caches that are merged and renamed between scrapes.
