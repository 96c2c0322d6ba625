------------------------------ MODULE KernelLog ------------------------------
(* internal/kernel/collector.go: one goroutine reads error messages from     *)
(* /dev/kmsg and hands them over an unbuffered channel to another, which     *)
(* collects them into groups, so that related lines are classified together, *)
(* and classifies a group when it is full, too old or followed by a message  *)
(* of a later time.  The channel operation is one step of both goroutines.   *)
(*                                                                           *)
(* The ring buffer of the kernel is external.  The time stamps it gives come *)
(* from another clock than the processor's timers and may be ahead of it.    *)
EXTENDS Integers, Sequences, FiniteSets

CONSTANTS MaxGroupSize,    \* 100 messages
          MaxGroupTime,    \* 10 ms
          MaxSkew,         \* how far a time stamp may be ahead of the clock
          MaxMessages,     \* bound: messages the kernel logs
          MaxTime          \* bound: the clock stops here

ASSUME KernelAssumption == /\ MaxGroupSize \in Nat /\ MaxGroupSize > 1
                           /\ MaxGroupTime \in Nat /\ MaxGroupTime > 0
                           /\ MaxSkew \in Nat
                           /\ MaxMessages \in Nat /\ MaxTime \in Nat

VARIABLES
    now,           \* the clock
    logged,        \* messages the kernel has logged
    unread,        \* those in its buffer that have not been read
    overrun,       \* unread messages have been overwritten (EPIPE is due)
    kmsg,          \* the file: "open" or "closed"
    reader,        \* logReader: "reading", "sending" or "done"
    entry,         \* the message it is sending
    processor,     \* logProcessor: "selecting" or "done"
    messageGroup,  \* the group being collected
    timer,         \* when its timer fires, or NoTimer
    shutdown,      \* Close: "none", "waiting" or "done"
    accepted,      \* history: the messages read for classification
    processed,     \* history: the messages classified
    cuts           \* history: positions in processed where a group ended

kernelVars == <<now, logged, unread, overrun>>
readerVars == <<kmsg, reader, entry>>
groupVars == <<messageGroup, timer, processed, cuts>>
vars == <<kernelVars, readerVars, processor, groupVars, shutdown, accepted>>

NoTimer == -1

NoEntry == [id |-> 0, isError |-> FALSE, time |-> 0, received |-> 0]

Entries == [id : Nat, isError : BOOLEAN, time : Nat, received : Nat]

Init == /\ now = 0 /\ logged = 0 /\ unread = <<>> /\ overrun = FALSE
        /\ kmsg = "open" /\ reader = "reading" /\ entry = NoEntry
        /\ processor = "selecting" /\ messageGroup = <<>> /\ timer = NoTimer
        /\ shutdown = "none"
        /\ accepted = <<>> /\ processed = <<>> /\ cuts = {}

-----------------------------------------------------------------------------
(* The kernel and the clock                                                  *)

Tick == /\ now < MaxTime
        /\ now' = now + 1
        /\ UNCHANGED <<logged, unread, overrun, readerVars, processor,
                       groupVars, shutdown, accepted>>

\* An error of the kernel, or a message that logReader skips: of another
\* facility, of a lower severity, not in the right format or too big.  The
\* kernel falls silent when a timer could run past the bound of the clock.
Log(isError, skew) ==
    /\ logged < MaxMessages /\ now + skew + MaxGroupTime <= MaxTime
    /\ logged' = logged + 1
    /\ unread' = Append(unread, [id |-> logged', isError |-> isError,
                                 time |-> now + skew, received |-> 0])
    /\ UNCHANGED <<now, overrun, readerVars, processor, groupVars, shutdown,
                   accepted>>

\* The buffer is full: the oldest message makes room before it is read.
Overwrite == /\ unread # <<>>
             /\ unread' = Tail(unread)
             /\ overrun' = TRUE
             /\ UNCHANGED <<now, logged, readerVars, processor, groupVars,
                            shutdown, accepted>>

-----------------------------------------------------------------------------
(* logReader                                                                 *)

Reads == kmsg = "open" /\ reader = "reading"

Read == /\ Reads /\ ~overrun /\ unread # <<>>
        /\ unread' = Tail(unread)
        /\ IF Head(unread).isError
           THEN /\ reader' = "sending"
                /\ entry' = Head(unread)
                /\ accepted' = Append(accepted, Head(unread).id)
           ELSE UNCHANGED <<reader, entry, accepted>>
        /\ UNCHANGED <<now, logged, overrun, kmsg, processor, groupVars, shutdown>>

ReadOverrun == /\ Reads /\ overrun
               /\ overrun' = FALSE
               /\ UNCHANGED <<now, logged, unread, readerVars, processor,
                              groupVars, shutdown, accepted>>

\* Another error ends the goroutine: the collector has crashed.
ReadFails == /\ Reads
             /\ reader' = "done"
             /\ UNCHANGED <<kernelVars, kmsg, entry, processor, groupVars,
                            shutdown, accepted>>

\* Mutant: the buffer is read to its end first.
ReadClosedWhenEmpty == /\ kmsg = "closed" /\ reader = "reading" /\ unread = <<>>
                       /\ reader' = "done"
                       /\ UNCHANGED <<kernelVars, kmsg, entry, processor,
                                      groupVars, shutdown, accepted>>

ReadClosed == /\ kmsg = "closed" /\ reader = "reading"
              /\ reader' = "done"
              /\ UNCHANGED <<kernelVars, kmsg, entry, processor, groupVars,
                             shutdown, accepted>>

-----------------------------------------------------------------------------
(* logProcessor                                                              *)

\* Mutant: the timer is not armed.
StartNoTimer(duration) == UNCHANGED timer

\* A deadline beyond the bound of the clock is brought back to it.
StartTimer(duration) ==
    timer' = IF now + duration > MaxTime THEN MaxTime ELSE now + duration

\* Mutant: the timer of a group that is gone is left running.
StopNoTimer == UNCHANGED timer

StopTimer == timer' = NoTimer

Ids(group) == [i \in 1..Len(group) |-> group[i].id]

\* Mutant: the last message of a group is left out.
ProcessMostOfGroup(group) ==
    /\ processed' = processed \o SubSeq(group, 1, Len(group) - 1)
    /\ cuts' = cuts

\* Mutant: an empty group is a group.
ProcessAnyGroup(group) ==
    /\ processed' = processed \o group
    /\ cuts' = cuts \cup {Len(processed) + Len(group)}

\* The messages are classified together; an empty group is no group.
ProcessGroup(group) ==
    /\ processed' = processed \o group
    /\ cuts' = IF group = <<>> THEN cuts
               ELSE cuts \cup {Len(processed) + Len(group)}

\* Mutant: a message at the limit is late.
IsLateAtLimit(message) ==
    messageGroup # <<>> /\ message.time - messageGroup[1].time >= MaxGroupTime

IsLate(message) ==
    messageGroup # <<>> /\ message.time - messageGroup[1].time > MaxGroupTime

\* <-c.newMessages and the rest of the select's case.
Receive ==
    /\ reader = "sending" /\ processor = "selecting"
    /\ reader' = "reading" /\ entry' = NoEntry
    /\ LET message == [entry EXCEPT !.received = now]
           group == Append(messageGroup, message)
       IN  \/ /\ IsLate(message)
              /\ ProcessGroup(messageGroup)
              /\ messageGroup' = <<message>>
              /\ StartTimer(MaxGroupTime)
           \/ /\ ~IsLate(message) /\ Len(group) >= MaxGroupSize
              /\ ProcessGroup(group)
              /\ messageGroup' = <<>>
              /\ StopTimer
           \/ /\ ~IsLate(message) /\ Len(group) < MaxGroupSize
              /\ messageGroup' = group
              /\ IF timer = NoTimer THEN StartTimer(MaxGroupTime)
                                    ELSE UNCHANGED timer
              /\ UNCHANGED <<processed, cuts>>
    /\ UNCHANGED <<kernelVars, kmsg, processor, shutdown, accepted>>

\* <-timerChan: the group may still be too young by its own time stamp.
TimerFires ==
    /\ processor = "selecting" /\ timer # NoTimer /\ timer <= now
    /\ \/ /\ messageGroup = <<>>
          /\ StopTimer
          /\ UNCHANGED <<messageGroup, processed, cuts>>
       \/ /\ messageGroup # <<>>
          /\ LET timeLeft == messageGroup[1].time + MaxGroupTime - now
             IN  IF timeLeft <= 0
                 THEN /\ ProcessGroup(messageGroup)
                      /\ messageGroup' = <<>>
                      /\ StopTimer
                 ELSE /\ StartTimer(timeLeft)
                      /\ UNCHANGED <<messageGroup, processed, cuts>>
    /\ UNCHANGED <<kernelVars, readerVars, processor, shutdown, accepted>>

\* Mutant: the goroutine just returns.
ChannelClosedReturns ==
    /\ reader = "done" /\ processor = "selecting"
    /\ processor' = "done"
    /\ StopTimer
    /\ UNCHANGED <<kernelVars, readerVars, messageGroup, processed, cuts,
                   shutdown, accepted>>

\* The channel is closed: the last group is classified on the way out.
ChannelClosed ==
    /\ reader = "done" /\ processor = "selecting"
    /\ processor' = "done"
    /\ ProcessGroup(messageGroup)
    /\ messageGroup' = <<>>
    /\ StopTimer
    /\ UNCHANGED <<kernelVars, readerVars, shutdown, accepted>>

-----------------------------------------------------------------------------
(* Close                                                                     *)

CloseFile == /\ shutdown = "none"
             /\ shutdown' = "waiting"
             /\ kmsg' = "closed"
             /\ UNCHANGED <<kernelVars, reader, entry, processor, groupVars,
                            accepted>>

WaitReturns == /\ shutdown = "waiting" /\ reader = "done" /\ processor = "done"
               /\ shutdown' = "done"
               /\ UNCHANGED <<kernelVars, readerVars, processor, groupVars,
                              accepted>>

Kernel == \/ Tick
          \/ \E isError \in BOOLEAN, skew \in 0..MaxSkew : Log(isError, skew)
          \/ Overwrite

Reader == Read \/ ReadOverrun \/ ReadFails \/ ReadClosed

Processor == Receive \/ TimerFires \/ ChannelClosed

Next == Kernel \/ Reader \/ Processor \/ CloseFile \/ WaitReturns

\* Time passes, a blocked read returns when there is something to return, and
\* the two goroutines and Close run when they can.  Nothing makes the kernel
\* log, a read fail or the program stop.
Fairness == /\ WF_vars(Tick)
            /\ WF_vars(Read) /\ WF_vars(ReadOverrun) /\ WF_vars(ReadClosed)
            /\ WF_vars(Receive) /\ WF_vars(TimerFires) /\ WF_vars(ChannelClosed)
            /\ WF_vars(WaitReturns)

Spec == Init /\ [][Next]_vars

FairSpec == Spec /\ Fairness
-----------------------------------------------------------------------------
TypeOK == /\ now \in 0..MaxTime /\ logged \in 0..MaxMessages
          /\ unread \in Seq(Entries) /\ overrun \in BOOLEAN
          /\ kmsg \in {"open", "closed"}
          /\ reader \in {"reading", "sending", "done"} /\ entry \in Entries
          /\ processor \in {"selecting", "done"}
          /\ messageGroup \in Seq(Entries)
          /\ timer \in {NoTimer} \cup 0..MaxTime
          /\ shutdown \in {"none", "waiting", "done"}
          /\ accepted \in Seq(Nat)
          /\ processed \in Seq(Entries)
          /\ cuts \in SUBSET (1..Len(processed))

Sending == IF reader = "sending" THEN <<entry>> ELSE <<>>

(* No message is lost, repeated or reordered between the file and the        *)
(* classifier: what has been classified, the group and the message being     *)
(* sent are together what has been read (collector.go:92-102, 129-187).      *)
EveryMessageOnce == Ids(processed \o messageGroup \o Sending) = accepted

(* A group is never left waiting for another message: while the processor    *)
(* selects, its timer runs exactly when there is a group                     *)
(* (collector.go:136-161).                                                   *)
GroupHasTimer ==
    processor = "selecting" => (messageGroup # <<>> <=> timer # NoTimer)

GroupStart(cut) == 1 + Cardinality({i \in 1..(cut - 1) :
                                      \E c \in cuts : c >= i /\ c < cut})

(* A burst is kept together: a group is full, or the next message is of a    *)
(* later time, or was received when the group was old enough to be           *)
(* classified (collector.go:136-161).  A multi-line error is therefore split *)
(* only by the limits on size and time.                                      *)
BurstsAreKeptTogether ==
    \A cut \in cuts : cut < Len(processed) =>
        LET first == processed[GroupStart(cut)]
            next == processed[cut + 1]
        IN  \/ cut - GroupStart(cut) + 1 = MaxGroupSize
            \/ next.time - first.time > MaxGroupTime
            \/ next.received - first.time >= MaxGroupTime

Sink == INSTANCE MessageSink WITH Messages <- 1..MaxMessages,
                                  handled <- Ids(processed),
                                  stopped <- (shutdown = "done")

(* The two goroutines implement MessageSink: batches of messages are         *)
(* classified in order, and Close returns only when every message that was   *)
(* read is classified, also after the reader crashed                         *)
(* (collector.go:123-134, 173-194).                                          *)
ImplementsSink == Sink!Spec

(* Every message that was read is classified in the end, though no other     *)
(* follows it and whatever its time stamp (collector.go:150-161).            *)
EveryMessageIsProcessed ==
    \A n \in 1..MaxMessages : Len(accepted) >= n ~> Len(processed) >= n

(* Close terminates from every state of the two goroutines: blocked in a     *)
(* read, in a send or in the select (collector.go:189-194).                  *)
CloseTerminates == shutdown = "waiting" ~> shutdown = "done"
=============================================================================
