-------------------------- MODULE KernelClassifier --------------------------
(* The classifier of kernel errors (internal/kernel/classifier.go and        *)
(* matchers.go), as logProcessor drives it: a stream of messages arrives in  *)
(* groups, every group is scanned by the matchers from its first message to  *)
(* its last, and the types found are added to the counters of the errors     *)
(* metric.  One step is one iteration of the scanning loop.                  *)
EXTENDS Integers, Sequences, FiniteSets, FiniteSetsExt

CONSTANTS Messages,      \* the messages the kernel logs in this instance
          MaxLength      \* bound: the length of the stream

(* What a message is to the matchers.  "resume1" and "notAdded1" are about   *)
(* one amdgpu device, "resume2" and "notAdded2" about another.               *)
AllMessages == {"resume1", "notAdded1", "resume2", "notAdded2",
                "registerFailed", "slotFailed", "watchdog",
                "ubsan", "index", "nmi", "dazed", "other"}

ASSUME MessagesAssumption == Messages \subseteq AllMessages
ASSUME MaxLengthAssumption == MaxLength \in Nat

VARIABLES hypervisor,  \* cpuid.CPU.Has(HYPERVISOR), or enableAll
          messages,    \* what remains of the group
          index,       \* the messages before it that nothing has matched
          types,       \* classify's errors
          classifying, \* classify has not returned
          errors,      \* the counters of the errors metric, by type
          stream,      \* history: all the messages
          groups       \* history: the number of groups

classifierVars == <<hypervisor, messages, index, types, classifying, errors,
                    stream, groups>>

Unknown == "unknown"
UnexpectedNMI == "unexpected-nmi"
ErrorTypes == {Unknown, UnexpectedNMI}

-----------------------------------------------------------------------------
(* The matchers: how many messages each takes from the head of a sequence    *)

\* A message that is expected after the head of an error, and taken with it.
Follows == {<<"resume1", "notAdded1">>, <<"resume2", "notAdded2">>,
            <<"ubsan", "index">>, <<"nmi", "dazed">>}

\* Mutant: whatever follows is taken.
MatchAnyPair(heads, toMatch) ==
    IF toMatch[1] \notin heads THEN 0
    ELSE IF Len(toMatch) > 1 THEN 2 ELSE 1

MatchPair(heads, toMatch) ==
    IF toMatch[1] \notin heads THEN 0
    ELSE IF Len(toMatch) > 1 /\ <<toMatch[1], toMatch[2]>> \in Follows THEN 2
    ELSE 1

\* Any number of failed registrations with the failed slots that follow them,
\* the last perhaps without.
MatchHotplug(toMatch) ==
    LET expected(i) == IF i % 2 = 1 THEN "registerFailed" ELSE "slotFailed"
    IN  CHOOSE count \in 0..Len(toMatch) :
            /\ \A i \in 1..count : toMatch[i] = expected(i)
            /\ count < Len(toMatch) => toMatch[count + 1] # expected(count + 1)

Matchers == <<"AMDIOMMU", "MissingHardwareWatchdog", "UBSAN", "UnexpectedNMI">>
            \o IF hypervisor THEN <<"HotplugInitialization">> ELSE <<>>

Match(matcher, toMatch) ==
    CASE matcher = "AMDIOMMU" -> MatchPair({"resume1", "resume2"}, toMatch)
      [] matcher = "MissingHardwareWatchdog" -> MatchPair({"watchdog"}, toMatch)
      [] matcher = "UBSAN" -> MatchPair({"ubsan"}, toMatch)
      [] matcher = "UnexpectedNMI" -> MatchPair({"nmi"}, toMatch)
      [] matcher = "HotplugInitialization" -> MatchHotplug(toMatch)

MatchedTypes(matcher) ==
    IF matcher = "UnexpectedNMI" THEN <<UnexpectedNMI>> ELSE <<>>

-----------------------------------------------------------------------------
ClassifierInit ==
    /\ hypervisor \in BOOLEAN
    /\ messages = <<>> /\ index = 0 /\ types = <<>>
    /\ classifying = FALSE
    /\ errors = [type \in ErrorTypes |-> 0]
    /\ stream = <<>> /\ groups = 0

\* processGroup: the next group of messages, which is not empty.
Start ==
    /\ ~classifying
    /\ \E n \in 1..(MaxLength - Len(stream)) : \E group \in [1..n -> Messages] :
          /\ messages' = group
          /\ stream' = stream \o group
    /\ classifying' = TRUE /\ index' = 0 /\ types' = <<>>
    /\ groups' = groups + 1
    /\ UNCHANGED <<hypervisor, errors>>

ToMatch == SubSeq(messages, index + 1, Len(messages))

Matching == {i \in DOMAIN Matchers : Match(Matchers[i], ToMatch) # 0}

\* consumeUnknown: the messages that nothing has matched are one error.
ConsumeUnknown == IF index # 0 THEN <<Unknown>> ELSE <<>>

\* The first matcher that takes something ends the unknown error before it.
MessageMatches ==
    /\ classifying /\ index < Len(messages) /\ Matching # {}
    /\ LET matcher == Matchers[Min(Matching)]
       IN  /\ types' = types \o MatchedTypes(matcher) \o ConsumeUnknown
           /\ messages' = SubSeq(ToMatch, Match(matcher, ToMatch) + 1,
                                 Len(ToMatch))
    /\ index' = 0
    /\ UNCHANGED <<hypervisor, classifying, errors, stream, groups>>

\* Mutant: the loop skips a message.
NothingMatchesSkips ==
    /\ classifying /\ index < Len(messages) /\ Matching = {}
    /\ index' = index + 2
    /\ UNCHANGED <<hypervisor, messages, types, classifying, errors, stream,
                   groups>>

NothingMatches ==
    /\ classifying /\ index < Len(messages) /\ Matching = {}
    /\ index' = index + 1
    /\ UNCHANGED <<hypervisor, messages, types, classifying, errors, stream,
                   groups>>

\* classify returns, and processGroup counts what it has found.
Return ==
    /\ classifying /\ index = Len(messages)
    /\ LET found == types \o ConsumeUnknown
       IN  errors' = [type \in ErrorTypes |->
                         errors[type] + Cardinality({i \in DOMAIN found :
                                                        found[i] = type})]
    /\ classifying' = FALSE
    /\ messages' = <<>> /\ index' = 0 /\ types' = <<>>
    /\ UNCHANGED <<hypervisor, stream, groups>>

ClassifierNext == Start \/ MessageMatches \/ NothingMatches \/ Return

ClassifierSpec == ClassifierInit /\ [][ClassifierNext]_classifierVars

ClassifierTypeOK ==
    /\ hypervisor \in BOOLEAN /\ classifying \in BOOLEAN
    /\ messages \in Seq(Messages) /\ stream \in Seq(Messages)
    /\ index \in 0..Len(messages)
    /\ types \in Seq(ErrorTypes)
    /\ errors \in [ErrorTypes -> Nat]
    /\ groups \in Nat

-----------------------------------------------------------------------------
(* What the counters should say, without scanning                            *)

Heads == {pair[1] : pair \in Follows} \cup {"watchdog"}
            \cup IF hypervisor THEN {"registerFailed"} ELSE {}

\* The message at i is explained by itself or by the message before it.
IsExplained(i) ==
    \/ stream[i] \in Heads
    \/ /\ i > 1
       /\ \/ <<stream[i - 1], stream[i]>> \in Follows
          \/ /\ hypervisor
             /\ stream[i - 1] = "registerFailed" /\ stream[i] = "slotFailed"

\* Where a run of unexplained messages begins: one unknown error each.
UnknownRuns == {i \in DOMAIN stream :
                   ~IsExplained(i) /\ (i > 1 => IsExplained(i - 1))}

NMIs == {i \in DOMAIN stream : stream[i] = "nmi"}

(* A stream that arrives in one group is classified exactly: every NMI is    *)
(* counted once, every maximal run of messages that nothing explains is one  *)
(* unknown error, and no known error hides or swallows its neighbours.       *)
(* However the log processor cuts the stream into groups, by size, by time   *)
(* or at the end, no error is hidden: NMIs stay exact, and a cut adds one    *)
(* unknown error at most (classifier.go:46-81, collector.go:126-148).        *)
CutsHideNothing ==
    ~classifying /\ groups > 0 =>
        /\ errors[UnexpectedNMI] = Cardinality(NMIs)
        /\ errors[Unknown] \in Cardinality(UnknownRuns)..
                                   (Cardinality(UnknownRuns) + groups - 1)
=============================================================================
