----------------------------- MODULE MessageSink -----------------------------
(* What internal/kernel/collector.go promises about the messages it reads:   *)
(* they are classified in the order in which they were read, each exactly    *)
(* once, in batches, and the collector is not closed before the last of them *)
(* is.  Goroutines, groups, timers and the channel are not visible here.     *)
EXTENDS Integers, Sequences

CONSTANT Messages

VARIABLES accepted,     \* messages read so far
          handled,      \* messages classified so far
          stopped       \* Close has returned

sinkVars == <<accepted, handled, stopped>>

Init == accepted = <<>> /\ handled = <<>> /\ stopped = FALSE

Accept(message) == /\ ~stopped
                   /\ accepted' = Append(accepted, message)
                   /\ UNCHANGED <<handled, stopped>>

\* Any number of the oldest messages that wait.
Handle == /\ ~stopped
          /\ \E n \in (Len(handled) + 1)..Len(accepted) :
                handled' = SubSeq(accepted, 1, n)
          /\ UNCHANGED <<accepted, stopped>>

Stop == /\ ~stopped /\ handled = accepted
        /\ stopped' = TRUE
        /\ UNCHANGED <<accepted, handled>>

Next == (\E message \in Messages : Accept(message)) \/ Handle \/ Stop

Spec == Init /\ [][Next]_sinkVars
=============================================================================
