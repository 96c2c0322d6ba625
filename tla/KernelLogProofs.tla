--------------------------- MODULE KernelLogProofs ---------------------------
(* Proofs about both halves of the kernel log collector, for groups of any   *)
(* size, any times and any number of messages: that its two goroutines lose, *)
(* repeat and reorder nothing, and so implement MessageSink, that the groups *)
(* they end are bursts, and, at the end of the module, that the classifier   *)
(* hides no error however a stream is cut into groups.                       *)
EXTENDS KernelLog, KernelClassifier, SumTheorems, FiniteSetTheorems,
        SequenceTheorems, TLAPS

\* The parts of TypeOK the proofs need; the clock plays no part.
SeqsOK == /\ unread \in Seq([id : 1..MaxMessages, isError : BOOLEAN,
                             time : Nat, received : Nat])
          /\ entry \in Entries
          /\ messageGroup \in Seq(Entries)
          /\ processed \in Seq(Entries)
          /\ accepted \in Seq(Nat)
          /\ now \in Nat /\ logged \in 0..MaxMessages

\* Nothing waits behind a goroutine that has ended.
NothingWaits == /\ processor = "done" => reader = "done" /\ messageGroup = <<>>
                /\ shutdown = "done" => processor = "done"

IInv == /\ SeqsOK
        /\ NothingWaits
        /\ EveryMessageOnce
-----------------------------------------------------------------------------
(* What a concatenation of sequences is.                                     *)
LEMMA NatConcat ==
    ASSUME NEW a \in Seq(Nat), NEW b \in Seq(Nat)
    PROVE  /\ a \o b \in Seq(Nat) /\ Len(a \o b) = Len(a) + Len(b)
           /\ \A i \in 1..(Len(a) + Len(b)) : (a \o b)[i] =
                 IF i <= Len(a) THEN a[i] ELSE b[i - Len(a)]
<1>1. \A i \in 1..Len(a) + Len(b) : (a \o b)[i] =
                 IF i <= Len(a) THEN a[i] ELSE b[i - Len(a)]
  BY ConcatProperties
<1> QED
  BY <1>1, ConcatProperties

(* Concatenation is associative.                                             *)
LEMMA NatConcatAssociative ==
    ASSUME NEW a \in Seq(Nat), NEW b \in Seq(Nat), NEW c \in Seq(Nat)
    PROVE  (a \o b) \o c = a \o (b \o c)
  BY ConcatAssociative

(* The identifiers of a sequence of messages, in order.                      *)
LEMMA IdsType == ASSUME NEW s \in Seq(Entries)
                 PROVE  /\ Ids(s) \in Seq(Nat) /\ Len(Ids(s)) = Len(s)
                        /\ \A i \in 1..Len(s) : Ids(s)[i] = s[i].id
<1>1. Len(s) \in Nat /\ \A i \in 1..Len(s) : s[i] \in Entries
  BY LenProperties, ElementOfSeq
<1>2. \A i \in 1..Len(s) : s[i].id \in Nat
  BY <1>1 DEF Entries
<1>3. Ids(s) \in Seq(Nat)
  BY <1>1, <1>2 DEF Ids
<1>4. Len(Ids(s)) = Len(s)
  BY <1>1, <1>3, LenProperties DEF Ids
<1> QED
  BY <1>3, <1>4 DEF Ids

(* The messages of two sequences one after the other.                        *)
LEMMA IdsConcat == ASSUME NEW s \in Seq(Entries), NEW t \in Seq(Entries)
                   PROVE  Ids(s \o t) = Ids(s) \o Ids(t)
<1>1. /\ s \o t \in Seq(Entries)
      /\ Len(s \o t) = Len(s) + Len(t)
      /\ \A i \in 1..(Len(s) + Len(t)) :
            (s \o t)[i] = IF i <= Len(s) THEN s[i] ELSE t[i - Len(s)]
      /\ Len(s) \in Nat /\ Len(t) \in Nat
  BY ConcatProperties, LenProperties
<1>2. /\ Ids(s) \in Seq(Nat) /\ Len(Ids(s)) = Len(s)
      /\ Ids(t) \in Seq(Nat) /\ Len(Ids(t)) = Len(t)
      /\ Ids(s \o t) \in Seq(Nat) /\ Len(Ids(s \o t)) = Len(s) + Len(t)
      /\ \A i \in 1..Len(s) : Ids(s)[i] = s[i].id
      /\ \A i \in 1..Len(t) : Ids(t)[i] = t[i].id
      /\ \A i \in 1..(Len(s) + Len(t)) : Ids(s \o t)[i] = (s \o t)[i].id
  BY <1>1, IdsType
<1>3. /\ Ids(s) \o Ids(t) \in Seq(Nat)
      /\ Len(Ids(s) \o Ids(t)) = Len(s) + Len(t)
      /\ \A i \in 1..(Len(s) + Len(t)) : (Ids(s) \o Ids(t))[i] =
            IF i <= Len(s) THEN Ids(s)[i] ELSE Ids(t)[i - Len(s)]
  <2>1. /\ Ids(s) \o Ids(t) \in Seq(Nat)
        /\ Len(Ids(s) \o Ids(t)) = Len(Ids(s)) + Len(Ids(t))
        /\ \A i \in 1..(Len(Ids(s)) + Len(Ids(t))) : (Ids(s) \o Ids(t))[i] =
              IF i <= Len(Ids(s)) THEN Ids(s)[i] ELSE Ids(t)[i - Len(Ids(s))]
    BY <1>2, NatConcat
  <2> QED
    BY <1>2, <2>1
<1>4. ASSUME NEW i \in 1..(Len(s) + Len(t))
      PROVE  Ids(s \o t)[i] = (Ids(s) \o Ids(t))[i]
  <2>1. CASE i <= Len(s)
    <3>1. i \in 1..Len(s)
      BY <1>1, <2>1
    <3> QED
      BY <1>1, <1>2, <1>3, <2>1, <3>1
  <2>2. CASE i > Len(s)
    <3>1. i - Len(s) \in 1..Len(t) /\ ~(i <= Len(s))
      BY <1>1, <2>2
    <3>2. Ids(t)[i - Len(s)] = t[i - Len(s)].id
      BY <1>2, <3>1
    <3>3. (Ids(s) \o Ids(t))[i] = Ids(t)[i - Len(s)]
      BY <1>3, <3>1
    <3>4. Ids(s \o t)[i] = t[i - Len(s)].id
      BY <1>1, <1>2, <3>1
    <3> QED
      BY <3>2, <3>3, <3>4
  <2>3. i <= Len(s) \/ i > Len(s)
    BY <1>1
  <2> QED
    BY <2>1, <2>2, <2>3
<1> QED
  <2> DEFINE left == Ids(s \o t)
             right == Ids(s) \o Ids(t)
  <2>1. left \in Seq(Nat) /\ right \in Seq(Nat) /\ Len(left) = Len(right)
    BY <1>2, <1>3
  <2>2. \A i \in 1..Len(left) : left[i] = right[i]
    BY <1>2, <1>4
  <2> HIDE DEF left, right
  <2>3. left = right
    BY <2>1, <2>2, SeqEqual
  <2> QED
    BY <2>3 DEF left, right

(* Those of three sequences.                                                 *)
LEMMA IdsParts ==
    ASSUME NEW s \in Seq(Entries), NEW t \in Seq(Entries), NEW u \in Seq(Entries)
    PROVE  Ids(s \o t \o u) = Ids(s) \o (Ids(t) \o Ids(u))
<1>1. s \o t \in Seq(Entries)
  BY ConcatProperties
<1>2. Ids(s) \in Seq(Nat) /\ Ids(t) \in Seq(Nat) /\ Ids(u) \in Seq(Nat)
  BY IdsType
<1>3. (Ids(s) \o Ids(t)) \o Ids(u) = Ids(s) \o (Ids(t) \o Ids(u))
  BY <1>2, NatConcatAssociative
<1>4. Ids(s \o t \o u) = Ids(s \o t) \o Ids(u)
  BY <1>1, IdsConcat
<1>5. Ids(s \o t) = Ids(s) \o Ids(t)
  BY IdsConcat
<1> QED
  BY <1>3, <1>4, <1>5

(* Those of one message.                                                     *)
LEMMA IdsSingle == ASSUME NEW m \in Entries
                   PROVE  <<m>> \in Seq(Entries) /\ Ids(<<m>>) = <<m.id>>
<1>1. <<m>> \in Seq(Entries) /\ Len(<<m>>) = 1 /\ <<m>>[1] = m
  OBVIOUS
<1>2. m.id \in Nat
  BY DEF Entries
<1>3. ASSUME NEW t \in Seq(Entries), Len(t) = 1
      PROVE  Ids(t) \in Seq(Nat) /\ Len(Ids(t)) = 1 /\ Ids(t)[1] = t[1].id
  BY <1>3, IdsType
<1>4. <<m.id>> \in Seq(Nat) /\ Len(<<m.id>>) = 1 /\ <<m.id>>[1] = m.id
  BY <1>2
<1>5. ASSUME NEW a \in Seq(Nat), NEW b \in Seq(Nat), Len(a) = 1, Len(b) = 1,
             a[1] = b[1]
      PROVE  a = b
  BY <1>5, SeqEqual
<1> QED
  BY <1>1, <1>3, <1>4, <1>5

(* Those of no message.                                                      *)
LEMMA IdsEmpty == <<>> \in Seq(Entries) /\ Ids(<<>>) = <<>>
  BY EmptySeq DEF Ids

(* The empty sequence is neutral.                                            *)
LEMMA NatEmpty == ASSUME NEW a \in Seq(Nat)
                  PROVE  a \o <<>> = a /\ <<>> \o a = a
  BY ConcatEmptySeq
-----------------------------------------------------------------------------
(* The initial state satisfies the invariant.                                *)
LEMMA InitIInv == Init => IInv
<1> SUFFICES ASSUME Init PROVE IInv
  OBVIOUS
<1>1. SeqsOK
  BY KernelAssumption, EmptySeq DEF Init, SeqsOK, NoEntry, Entries
<1>2. NothingWaits
  BY DEF Init, NothingWaits
<1>3. EveryMessageOnce
  <2>1. Ids(<<>> \o <<>> \o <<>>) = Ids(<<>>) \o (Ids(<<>>) \o Ids(<<>>))
    BY IdsEmpty, IdsParts
  <2>2. Ids(<<>> \o <<>> \o <<>>) = <<>>
    BY <2>1, IdsEmpty, NatEmpty, EmptySeq
  <2> QED
    BY <2>2 DEF Init, EveryMessageOnce, Sending
<1> QED
  BY <1>1, <1>2, <1>3 DEF IInv

(* Every step leaves nothing waiting behind a closed channel.                *)
LEMMA NothingWaitsNext == SeqsOK /\ NothingWaits /\ [Next]_vars => NothingWaits'
  BY DEF SeqsOK, NothingWaits, Next, Kernel, Reader, Processor, vars,
         kernelVars, readerVars, groupVars, Tick, Log, Overwrite, Reads, Read,
         ReadOverrun, ReadFails, ReadClosed, Receive, TimerFires, ChannelClosed,
         CloseFile, WaitReturns

Incoming == [id : 1..MaxMessages, isError : BOOLEAN, time : Nat, received : Nat]

(* Every step keeps the types.                                               *)
LEMMA SeqsNext == SeqsOK /\ [Next]_vars => SeqsOK'
<1> SUFFICES ASSUME SeqsOK, [Next]_vars PROVE SeqsOK'
  OBVIOUS
<1> USE KernelAssumption DEF SeqsOK
<1>1. CASE Tick
  BY <1>1 DEF Tick, kernelVars, readerVars, groupVars
<1>2. ASSUME NEW isError \in BOOLEAN, NEW skew \in 0..MaxSkew,
             Log(isError, skew)
      PROVE  SeqsOK'
  <2>1. [id |-> logged', isError |-> isError, time |-> now + skew, received |-> 0]
           \in Incoming
    BY <1>2 DEF Log, Incoming
  <2>2. unread' \in Seq(Incoming)
    BY <1>2, <2>1, AppendProperties DEF Log, Incoming
  <2> QED
    BY <1>2, <2>2 DEF Log, Incoming, readerVars, groupVars
<1>3. CASE Overwrite
  BY <1>3, HeadTailProperties DEF Overwrite, readerVars, groupVars
<1>4. CASE Read
  <2>1. /\ Head(unread) \in Incoming /\ unread' \in Seq(Incoming)
    BY <1>4, HeadTailProperties DEF Read, Incoming
  <2>2. Head(unread) \in Entries /\ Head(unread).id \in Nat
    BY <2>1 DEF Incoming, Entries
  <2>3. Append(accepted, Head(unread).id) \in Seq(Nat)
    BY <2>2, AppendProperties
  <2>4. entry' \in Entries /\ accepted' \in Seq(Nat)
    BY <1>4, <2>2, <2>3 DEF Read
  <2> QED
    BY <1>4, <2>1, <2>4 DEF Read, Incoming, groupVars
<1>5. CASE ReadOverrun
  BY <1>5 DEF ReadOverrun, readerVars, groupVars
<1>6. CASE ReadFails \/ ReadClosed
  BY <1>6 DEF ReadFails, ReadClosed, kernelVars, groupVars
<1>7. CASE Receive
  <2> DEFINE message == [entry EXCEPT !.received = now]
  <2>1. message \in Entries /\ NoEntry \in Entries
    BY DEF Entries, NoEntry
  <2>2. /\ Append(messageGroup, message) \in Seq(Entries)
        /\ <<message>> \in Seq(Entries) /\ <<>> \in Seq(Entries)
    BY <2>1, AppendProperties, IdsSingle, IdsEmpty
  <2>3. /\ processed \o messageGroup \in Seq(Entries)
        /\ processed \o Append(messageGroup, message) \in Seq(Entries)
    BY <2>2, ConcatProperties
  <2> QED
    BY <1>7, <2>1, <2>2, <2>3 DEF Receive, ProcessGroup, kernelVars
<1>8. CASE TimerFires \/ ChannelClosed
  <2>1. processed \o messageGroup \in Seq(Entries) /\ <<>> \in Seq(Entries)
    BY ConcatProperties, IdsEmpty
  <2> QED
    BY <1>8, <2>1 DEF TimerFires, ChannelClosed, ProcessGroup, kernelVars,
                      readerVars
<1>9. CASE CloseFile \/ WaitReturns
  BY <1>9 DEF CloseFile, WaitReturns, kernelVars, readerVars, groupVars
<1>10. CASE UNCHANGED vars
  BY <1>10 DEF vars, kernelVars, readerVars, groupVars
<1> QED
  BY <1>1, <1>2, <1>3, <1>4, <1>5, <1>6, <1>7, <1>8, <1>9, <1>10
     DEF Next, Kernel, Reader, Processor
-----------------------------------------------------------------------------
\* What the classifier has, the group and the message being sent.
P == Ids(processed)
G == Ids(messageGroup)
S == Ids(Sending)

(* The three places a message can be in, as sequences of identifiers.        *)
LEMMA PartsOK == ASSUME SeqsOK
                 PROVE  /\ Sending \in Seq(Entries)
                        /\ P \in Seq(Nat) /\ G \in Seq(Nat) /\ S \in Seq(Nat)
                        /\ Ids(processed \o messageGroup \o Sending) = P \o (G \o S)
<1>1. Sending \in Seq(Entries)
  <2>1. <<entry>> \in Seq(Entries) /\ <<>> \in Seq(Entries)
    BY IdsSingle, IdsEmpty DEF SeqsOK
  <2> QED
    BY <2>1 DEF Sending
<1> QED
  BY <1>1, IdsType, IdsParts DEF SeqsOK, P, G, S

(* After a step the three parts are p, g and s.                              *)
LEMMA PartsAfter ==
    ASSUME SeqsOK', NEW p, NEW g, NEW s,
           Ids(processed)' = p, Ids(messageGroup)' = g, Ids(Sending)' = s,
           p \o (g \o s) = accepted'
    PROVE  EveryMessageOnce'
<1>1. /\ processed' \in Seq(Entries) /\ messageGroup' \in Seq(Entries)
  BY DEF SeqsOK
<1>2. Sending' \in Seq(Entries)
  <2>1. <<entry'>> \in Seq(Entries) /\ <<>> \in Seq(Entries)
    BY IdsSingle, IdsEmpty DEF SeqsOK
  <2> QED
    BY <2>1 DEF Sending
<1>3. Ids(processed' \o messageGroup' \o Sending')
         = Ids(processed') \o (Ids(messageGroup') \o Ids(Sending'))
  BY <1>1, <1>2, IdsParts
<1> QED
  BY <1>3 DEF EveryMessageOnce

(* A group that ends is appended to what has been processed.                 *)
LEMMA ProcessGroupIds ==
    ASSUME SeqsOK, NEW group \in Seq(Entries), ProcessGroup(group)
    PROVE  Ids(processed)' = P \o Ids(group)
  BY IdsConcat DEF SeqsOK, ProcessGroup, P

(* The ways in which messages move between the parts keep their order.       *)
LEMMA Moves ==
    ASSUME NEW p \in Seq(Nat), NEW g \in Seq(Nat), NEW s \in Seq(Nat)
    PROVE  /\ (p \o g) \o (<<>> \o s) = p \o (g \o s)
           /\ (p \o g) \o (s \o <<>>) = p \o (g \o s)
           /\ (p \o (g \o s)) \o (<<>> \o <<>>) = p \o (g \o s)
           /\ p \o ((g \o s) \o <<>>) = p \o (g \o s)
<1>1. g \o s \in Seq(Nat) /\ p \o (g \o s) \in Seq(Nat)
  BY NatConcat
<1>2. /\ <<>> \o s = s /\ s \o <<>> = s /\ (g \o s) \o <<>> = g \o s
      /\ (p \o (g \o s)) \o <<>> = p \o (g \o s)
  BY <1>1, NatEmpty
<1>3. <<>> \o <<>> = <<>>
  BY NatEmpty, EmptySeq
<1>4. (p \o g) \o s = p \o (g \o s)
  BY NatConcatAssociative
<1> QED
  BY <1>2, <1>3, <1>4

(* Every step keeps each accepted message in one place, in order.            *)
LEMMA OnceNext ==
    ASSUME SeqsOK, SeqsOK', EveryMessageOnce, [Next]_vars
    PROVE  EveryMessageOnce'
<1>1. /\ Sending \in Seq(Entries)
      /\ P \in Seq(Nat) /\ G \in Seq(Nat) /\ S \in Seq(Nat)
      /\ P \o (G \o S) = accepted
  BY PartsOK DEF EveryMessageOnce
<1>2. /\ messageGroup \in Seq(Entries) /\ entry \in Entries
      /\ accepted \in Seq(Nat)
  BY DEF SeqsOK
<1> DEFINE Same == UNCHANGED <<processed, messageGroup, Sending, accepted>>
<1>3. ASSUME Same PROVE EveryMessageOnce'
  BY <1>3 DEF EveryMessageOnce
<1>4. CASE Read /\ Head(unread).isError
  <2>1. /\ reader = "reading" /\ reader' = "sending" /\ entry' = Head(unread)
        /\ accepted' = Append(accepted, Head(unread).id)
        /\ UNCHANGED <<processed, messageGroup>>
    BY <1>4 DEF Read, Reads, groupVars
  <2>2. entry' \in Entries /\ entry'.id \in Nat
    BY DEF SeqsOK, Entries
  <2>3. Sending = <<>> /\ Sending' = <<entry'>>
    BY <2>1 DEF Sending
  <2>4. S = <<>> /\ Ids(Sending)' = <<entry'.id>>
    BY <2>2, <2>3, IdsEmpty, IdsSingle DEF S
  <2>5. <<entry'.id>> \in Seq(Nat)
    BY <2>2
  <2>6. accepted' = accepted \o <<entry'.id>>
    BY <1>2, <2>1, <2>2, AppendIsConcat
  <2>7. P \o G = accepted
    BY <1>1, <2>4, NatEmpty
  <2>8. P \o (G \o <<entry'.id>>) = accepted'
    <3>1. (P \o G) \o <<entry'.id>> = P \o (G \o <<entry'.id>>)
      BY <1>1, <2>5, NatConcatAssociative
    <3> QED
      BY <2>6, <2>7, <3>1
  <2>9. Ids(processed)' = P /\ Ids(messageGroup)' = G
    BY <2>1 DEF P, G
  <2> QED
    BY <2>4, <2>8, <2>9, PartsAfter
<1>5. CASE Receive
  <2> DEFINE message == [entry EXCEPT !.received = now]
             group == Append(messageGroup, message)
  <2>1. /\ message \in Entries /\ message.id = entry.id
        /\ reader = "sending" /\ reader' = "reading" /\ accepted' = accepted
    BY <1>2, <1>5 DEF Receive, Entries, SeqsOK
  <2>2. Sending = <<entry>> /\ Sending' = <<>>
    BY <2>1 DEF Sending
  <2>3. /\ <<message>> \in Seq(Entries) /\ Ids(<<message>>) = <<entry.id>>
        /\ Ids(<<entry>>) = <<entry.id>>
    BY <1>2, <2>1, IdsSingle
  <2>4. S = <<entry.id>> /\ Ids(Sending)' = <<>>
    BY <2>2, <2>3, IdsEmpty DEF S
  <2>5. group = messageGroup \o <<message>> /\ group \in Seq(Entries)
    BY <1>2, <2>1, AppendIsConcat, AppendProperties
  <2>6. Ids(group) = G \o S
    BY <1>2, <2>3, <2>4, <2>5, IdsConcat DEF G
  <2> HIDE DEF message, group
  <2>7. CASE ProcessGroup(messageGroup) /\ messageGroup' = <<message>>
    <3>1. Ids(processed)' = P \o G /\ Ids(messageGroup)' = S
      BY <1>2, <2>3, <2>4, <2>7, ProcessGroupIds DEF G
    <3>2. (P \o G) \o (S \o <<>>) = accepted'
      BY <1>1, <2>1, Moves
    <3> QED
      BY <2>4, <3>1, <3>2, PartsAfter
  <2>8. CASE ProcessGroup(group) /\ messageGroup' = <<>>
    <3>1. Ids(processed)' = P \o (G \o S) /\ Ids(messageGroup)' = <<>>
      BY <2>5, <2>6, <2>8, ProcessGroupIds, IdsEmpty
    <3>2. (P \o (G \o S)) \o (<<>> \o <<>>) = accepted'
      BY <1>1, <2>1, Moves
    <3> QED
      BY <2>4, <3>1, <3>2, PartsAfter
  <2>9. CASE UNCHANGED processed /\ messageGroup' = group
    <3>1. Ids(processed)' = P /\ Ids(messageGroup)' = G \o S
      BY <2>6, <2>9 DEF P
    <3>2. P \o ((G \o S) \o <<>>) = accepted'
      BY <1>1, <2>1, Moves
    <3> QED
      BY <2>4, <3>1, <3>2, PartsAfter
  <2> QED
    BY <1>5, <2>7, <2>8, <2>9 DEF Receive, message, group
<1>6. ASSUME ProcessGroup(messageGroup), messageGroup' = <<>>,
             UNCHANGED <<Sending, accepted>>
      PROVE  EveryMessageOnce'
  <2>1. Ids(processed)' = P \o G /\ Ids(messageGroup)' = <<>> /\ Ids(Sending)' = S
    BY <1>2, <1>6, ProcessGroupIds, IdsEmpty DEF G, S
  <2>2. (P \o G) \o (<<>> \o S) = accepted'
    BY <1>1, <1>6, Moves
  <2> QED
    BY <2>1, <2>2, PartsAfter
<1>7. CASE TimerFires
  <2>1. UNCHANGED <<Sending, accepted>>
    BY <1>7 DEF TimerFires, Sending, readerVars
  <2>2. \/ UNCHANGED <<processed, messageGroup>>
        \/ ProcessGroup(messageGroup) /\ messageGroup' = <<>>
    BY <1>7 DEF TimerFires
  <2> QED
    BY <1>3, <1>6, <2>1, <2>2
<1>8. CASE ChannelClosed
  <2>1. UNCHANGED <<Sending, accepted>>
    BY <1>8 DEF ChannelClosed, Sending, readerVars
  <2> QED
    BY <1>6, <1>8, <2>1 DEF ChannelClosed
<1>9. CASE \/ Kernel \/ (Read /\ ~Head(unread).isError) \/ ReadOverrun
           \/ ReadFails \/ ReadClosed \/ CloseFile \/ WaitReturns
           \/ UNCHANGED vars
  <2>1. Same
    BY <1>9 DEF Kernel, Tick, Log, Overwrite, Read, Reads, ReadOverrun, ReadFails,
                ReadClosed, CloseFile, WaitReturns, Sending, vars, kernelVars,
                readerVars, groupVars
  <2> QED
    BY <1>3, <2>1
<1> QED
  BY <1>4, <1>5, <1>7, <1>8, <1>9 DEF Next, Reader, Processor
-----------------------------------------------------------------------------
(* The conjunction is an invariant: EveryMessageOnce needs the types of the  *)
(* sequences, and NothingWaits is there for the refinement.                  *)
THEOREM Invariance == Spec => []IInv
<1>1. Init => IInv
  BY InitIInv
<1>2. IInv /\ [Next]_vars => IInv'
  <2> SUFFICES ASSUME IInv, [Next]_vars PROVE IInv'
    OBVIOUS
  <2>1. SeqsOK /\ NothingWaits /\ EveryMessageOnce
    BY DEF IInv
  <2>2. SeqsOK'
    BY <2>1, SeqsNext
  <2>3. NothingWaits'
    BY <2>1, NothingWaitsNext
  <2>4. EveryMessageOnce'
    BY <2>1, <2>2, OnceNext
  <2> QED
    BY <2>2, <2>3, <2>4 DEF IInv
<1> QED
  BY <1>1, <1>2, PTL DEF Spec

(* No message is lost, repeated or reordered between the file and the        *)
(* classifier, whatever the sizes, times and number of messages              *)
(* (collector.go:92-102, 129-187).                                           *)
THEOREM MessagesAreKept == Spec => []EveryMessageOnce
<1>1. IInv => EveryMessageOnce
  BY DEF IInv
<1> QED
  BY <1>1, Invariance, PTL
-----------------------------------------------------------------------------
(* What a concatenation starts with.                                         *)
LEMMA PrefixOfConcat ==
    ASSUME NEW a \in Seq(Nat), NEW b \in Seq(Nat)
    PROVE  SubSeq(a \o b, 1, Len(a)) = a
<1> DEFINE c == a \o b
<1>1. /\ c \in Seq(Nat) /\ Len(a) \in Nat
      /\ \A i \in 1..Len(a) : c[i] = a[i] /\ a[i] \in Nat
  BY NatConcat, ElementOfSeq
<1> HIDE DEF c
<1>2. /\ SubSeq(c, 1, Len(a)) \in Seq(Nat)
      /\ Len(SubSeq(c, 1, Len(a))) = Len(a)
      /\ \A i \in 1..Len(a) : SubSeq(c, 1, Len(a))[i] = a[i]
  <2>1. \A i \in 1..Len(a) : c[i] \in Nat
    BY <1>1
  <2>2. /\ SubSeq(c, 1, Len(a)) \in Seq(Nat)
        /\ Len(SubSeq(c, 1, Len(a)))
              = IF 1 <= Len(a) THEN Len(a) - 1 + 1 ELSE 0
        /\ \A i \in 1..(Len(a) - 1 + 1) :
              SubSeq(c, 1, Len(a))[i] = c[1 + i - 1]
    BY <1>1, <2>1, SubSeqProperties
  <2> QED
    BY <1>1, <2>2
<1>3. SubSeq(c, 1, Len(a)) = a
  BY <1>2, SeqEqual
<1> QED
  BY <1>3 DEF c

(* Classifying the group, with the message if it completes it, is Handle, or *)
(* nothing when there is no group.                                           *)
LEMMA HandleParts ==
    ASSUME NEW p \in Seq(Nat), NEW g \in Seq(Nat), NEW s \in Seq(Nat),
           p \o (g \o s) = accepted
    PROVE  p \o g = p \/ \E n \in (Len(p) + 1)..Len(accepted) :
                            p \o g = SubSeq(accepted, 1, n)
<1>1. /\ p \o g \in Seq(Nat) /\ Len(p \o g) = Len(p) + Len(g)
      /\ (p \o g) \o s = accepted /\ Len(accepted) = Len(p \o g) + Len(s)
      /\ Len(p) \in Nat /\ Len(g) \in Nat /\ Len(s) \in Nat
  <2>1. p \o g \in Seq(Nat) /\ Len(p \o g) = Len(p) + Len(g)
    BY NatConcat
  <2>2. (p \o g) \o s = accepted
    BY NatConcatAssociative
  <2>3. Len((p \o g) \o s) = Len(p \o g) + Len(s)
    BY <2>1, NatConcat
  <2> QED
    BY <2>1, <2>2, <2>3, LenProperties
<1>2. p \o g = SubSeq(accepted, 1, Len(p \o g))
  BY <1>1, PrefixOfConcat
<1>3. CASE g = <<>>
  BY <1>3, NatEmpty
<1>4. CASE g # <<>>
  <2>1. Len(g) > 0
    BY <1>4, EmptySeq
  <2>2. Len(p \o g) \in (Len(p) + 1)..Len(accepted)
    BY <1>1, <2>1
  <2> QED
    BY <1>2, <2>2
<1> QED
  BY <1>3, <1>4

(* The initial state maps to that of MessageSink.                            *)
LEMMA InitSink == Init => Sink!Init
  BY IdsEmpty DEF Init, Sink!Init

(* Every step maps to a step of MessageSink or to a stutter.                 *)
LEMMA NextSink ==
    ASSUME IInv, IInv', [Next]_vars
    PROVE  [Sink!Next]_(Sink!sinkVars)
<1> USE DEF Sink!sinkVars
<1>1. SeqsOK /\ NothingWaits /\ EveryMessageOnce /\ SeqsOK'
  BY DEF IInv
<1>2. /\ P \in Seq(Nat) /\ G \in Seq(Nat) /\ S \in Seq(Nat)
      /\ P \o (G \o S) = accepted
  BY <1>1, PartsOK DEF EveryMessageOnce
<1>3. messageGroup \in Seq(Entries) /\ entry \in Entries
  BY <1>1 DEF SeqsOK
<1> DEFINE Same == UNCHANGED <<processed, accepted, shutdown>>
<1>4. ASSUME Same PROVE [Sink!Next]_(Sink!sinkVars)
  BY <1>4
<1>5. ASSUME NEW b \in Seq(Nat), NEW c \in Seq(Nat), G \o S = b \o c,
             processed' # processed,
             Ids(processed)' = P \o b, shutdown # "done",
             UNCHANGED <<accepted, shutdown>>
      PROVE  [Sink!Next]_(Sink!sinkVars)
  <2>1. P \o b = P \/ \E n \in (Len(P) + 1)..Len(accepted) :
                         P \o b = SubSeq(accepted, 1, n)
    BY <1>2, <1>5, HandleParts
  <2> QED
    BY <1>5, <2>1 DEF Sink!Next, Sink!Handle, P
<1>6. CASE Read /\ Head(unread).isError
  <2>1. /\ reader = "reading" /\ unread # <<>>
        /\ accepted' = Append(accepted, Head(unread).id)
        /\ UNCHANGED <<processed, shutdown>>
    BY <1>6 DEF Read, Reads, groupVars
  <2>2. shutdown # "done"
    BY <1>1, <2>1 DEF NothingWaits
  <2>3. Head(unread).id \in 1..MaxMessages
    <3>1. Head(unread) \in Incoming
      BY <1>1, <2>1, HeadTailProperties DEF SeqsOK, Incoming
    <3> QED
      BY <3>1 DEF Incoming
  <2> QED
    BY <2>1, <2>2, <2>3 DEF Sink!Next, Sink!Accept
<1>7. ASSUME NEW group \in Seq(Entries), NEW c \in Seq(Nat),
             G \o S = Ids(group) \o c,
             ProcessGroup(group), processor = "selecting",
             UNCHANGED <<accepted, shutdown>>
      PROVE  [Sink!Next]_(Sink!sinkVars)
  <2>1. Ids(processed)' = P \o Ids(group)
    BY <1>1, <1>7, ProcessGroupIds
  <2>2. shutdown # "done" /\ Ids(group) \in Seq(Nat)
    BY <1>1, <1>7, IdsType DEF NothingWaits
  <2> QED
    BY <1>4, <1>5, <1>7, <2>1, <2>2
<1>8. CASE Receive
  <2> DEFINE message == [entry EXCEPT !.received = now]
             group == Append(messageGroup, message)
  <2>1. /\ message \in Entries /\ message.id = entry.id
        /\ reader = "sending" /\ processor = "selecting"
        /\ UNCHANGED <<accepted, shutdown>>
    BY <1>1, <1>3, <1>8 DEF Receive, Entries, SeqsOK
  <2>2. S = <<entry.id>> /\ Ids(<<message>>) = <<entry.id>>
        /\ <<message>> \in Seq(Entries)
    BY <1>3, <2>1, IdsSingle DEF S, Sending
  <2>3. group = messageGroup \o <<message>> /\ group \in Seq(Entries)
    BY <1>3, <2>1, AppendIsConcat, AppendProperties
  <2>4. Ids(group) = G \o S /\ (G \o S) \o <<>> = G \o S
    <3>1. Ids(group) = G \o S
      BY <1>3, <2>2, <2>3, IdsConcat DEF G
    <3>2. Ids(group) \in Seq(Nat)
      BY <2>3, IdsType
    <3> QED
      BY <3>1, <3>2, NatEmpty
  <2> HIDE DEF message, group
  <2>5. CASE ProcessGroup(messageGroup)
    BY <1>2, <1>3, <1>7, <2>1, <2>5 DEF G
  <2>6. CASE ProcessGroup(group)
    BY <1>7, <2>1, <2>3, <2>4, <2>6, EmptySeq
  <2>7. CASE UNCHANGED processed
    BY <1>4, <2>1, <2>7
  <2> QED
    BY <1>8, <2>5, <2>6, <2>7 DEF Receive, message, group
<1>9. CASE TimerFires \/ ChannelClosed
  <2>1. /\ UNCHANGED <<accepted, shutdown>> /\ processor = "selecting"
        /\ ProcessGroup(messageGroup) \/ UNCHANGED processed
    BY <1>9 DEF TimerFires, ChannelClosed
  <2> QED
    BY <1>2, <1>3, <1>4, <1>7, <2>1 DEF G
<1>10. CASE WaitReturns
  <2>1. /\ shutdown # "done" /\ shutdown' = "done" /\ messageGroup = <<>>
        /\ Sending = <<>> /\ UNCHANGED <<processed, accepted>>
    BY <1>1, <1>10 DEF WaitReturns, NothingWaits, Sending, groupVars
  <2>2. G = <<>> /\ S = <<>>
    BY <2>1, IdsEmpty DEF G, S
  <2>3. P = accepted
    BY <1>2, <2>2, Moves, NatEmpty
  <2> QED
    BY <2>1, <2>3 DEF Sink!Next, Sink!Stop, P
<1>11. CASE CloseFile
  BY <1>11 DEF CloseFile, groupVars
<1>12. CASE \/ Kernel \/ (Read /\ ~Head(unread).isError) \/ ReadOverrun
            \/ ReadFails \/ ReadClosed \/ UNCHANGED vars
  <2>1. Same
    BY <1>12 DEF Kernel, Tick, Log, Overwrite, Read, Reads, ReadOverrun,
                 ReadFails, ReadClosed, vars, kernelVars, readerVars, groupVars
  <2> QED
    BY <1>4, <2>1
<1> QED
  BY <1>6, <1>8, <1>9, <1>10, <1>11, <1>12 DEF Next, Reader, Processor

(* The two goroutines implement MessageSink for every group size, time limit *)
(* and number of messages: batches are classified in order, and Close        *)
(* returns only when every message that was read is classified               *)
(* (collector.go:123-134, 173-194).                                          *)
THEOREM Refinement == Spec => ImplementsSink
<1>1. Init => Sink!Init
  BY InitSink
<1>2. IInv /\ IInv' /\ [Next]_vars => [Sink!Next]_(Sink!sinkVars)
  BY NextSink
<1> QED
  BY <1>1, <1>2, Invariance, PTL DEF Spec, Sink!Spec, ImplementsSink
-----------------------------------------------------------------------------
(* What IInv leaves out of TypeOK, and the timer of the group.               *)
ClockTypes ==
    /\ now \in 0..MaxTime
    /\ overrun \in BOOLEAN /\ kmsg \in {"open", "closed"}
    /\ reader \in {"reading", "sending", "done"}
    /\ processor \in {"selecting", "done"}
    /\ timer \in {NoTimer} \cup 0..MaxTime
    /\ shutdown \in {"none", "waiting", "done"}
    /\ cuts \in SUBSET (1..Len(processed))

(* A timer that is started is a time.                                        *)
LEMMA StartTimerType ==
    ASSUME now \in 0..MaxTime, NEW duration \in Nat, StartTimer(duration)
    PROVE  timer' \in 0..MaxTime /\ timer' # NoTimer
BY KernelAssumption DEF StartTimer, NoTimer

(* A group ends at a message that has been classified.                       *)
LEMMA CutsType ==
    ASSUME NEW group \in Seq(Entries), processed \in Seq(Entries),
           cuts \in SUBSET (1..Len(processed)), ProcessGroup(group)
    PROVE  cuts' \in SUBSET (1..Len(processed'))
<1>1. /\ Len(processed) \in Nat /\ Len(group) \in Nat
      /\ Len(processed \o group) = Len(processed) + Len(group)
      /\ group # <<>> => Len(group) > 0
  BY ConcatProperties, LenProperties, EmptySeq
<1>2. processed' = processed \o group
  BY DEF ProcessGroup
<1>3. cuts \subseteq 1..Len(processed')
  BY <1>1, <1>2
<1>4. group # <<>> => Len(processed) + Len(group) \in 1..Len(processed')
  BY <1>1, <1>2
<1> QED
  BY <1>3, <1>4 DEF ProcessGroup

(* The initial state has the types of the clock.                             *)
LEMMA InitClock == Init => ClockTypes /\ GroupHasTimer
<1> SUFFICES ASSUME Init PROVE ClockTypes /\ GroupHasTimer
  OBVIOUS
<1>1. 0 \in 0..MaxTime
  BY KernelAssumption
<1> QED
  BY <1>1 DEF Init, ClockTypes, GroupHasTimer

(* Every step keeps the types of the clock, and a timer for every group.     *)
LEMMA ClockNext ==
    ASSUME SeqsOK, ClockTypes, GroupHasTimer, [Next]_vars
    PROVE  ClockTypes' /\ GroupHasTimer'
<1> DEFINE Same == UNCHANGED <<processor, messageGroup, timer, processed, cuts>>
<1>1. /\ messageGroup \in Seq(Entries) /\ processed \in Seq(Entries)
      /\ entry \in Entries /\ now \in 0..MaxTime
      /\ cuts \in SUBSET (1..Len(processed))
      /\ MaxGroupTime \in Nat
  BY KernelAssumption DEF SeqsOK, ClockTypes
<1>2. ASSUME Same, now' \in 0..MaxTime, overrun' \in BOOLEAN,
             kmsg' \in {"open", "closed"},
             reader' \in {"reading", "sending", "done"},
             shutdown' \in {"none", "waiting", "done"}
      PROVE  ClockTypes' /\ GroupHasTimer'
  BY <1>2 DEF ClockTypes, GroupHasTimer
<1>3. CASE Kernel \/ Reader \/ CloseFile \/ WaitReturns \/ UNCHANGED vars
  <2>1. Same
    BY <1>3 DEF Kernel, Tick, Log, Overwrite, Reader, Read, ReadOverrun,
                ReadFails, ReadClosed, CloseFile, WaitReturns, vars, groupVars
  <2>2. now' \in 0..MaxTime
    <3>1. now' = now \/ (now < MaxTime /\ now' = now + 1)
      BY <1>3 DEF Kernel, Tick, Log, Overwrite, Reader, Read, ReadOverrun,
                  ReadFails, ReadClosed, CloseFile, WaitReturns, vars, kernelVars
    <3> QED
      BY <1>1, <3>1, KernelAssumption
  <2>3. /\ overrun' \in BOOLEAN /\ kmsg' \in {"open", "closed"}
        /\ reader' \in {"reading", "sending", "done"}
        /\ shutdown' \in {"none", "waiting", "done"}
    BY <1>3 DEF Kernel, Tick, Log, Overwrite, Reader, Read, ReadOverrun,
                ReadFails, ReadClosed, CloseFile, WaitReturns, vars,
                kernelVars, readerVars, ClockTypes
  <2> QED
    BY <1>2, <2>1, <2>2, <2>3
<1>4. ASSUME UNCHANGED <<now, overrun, kmsg, shutdown>>,
             reader' \in {"reading", "sending", "done"},
             processor' \in {"selecting", "done"},
             \/ UNCHANGED <<processed, cuts>>
             \/ \E group \in Seq(Entries) : ProcessGroup(group),
             timer' \in {NoTimer} \cup 0..MaxTime,
             processor' = "selecting" =>
                 (messageGroup' # <<>> <=> timer' # NoTimer)
      PROVE  ClockTypes' /\ GroupHasTimer'
  <2>1. cuts' \in SUBSET (1..Len(processed'))
    BY <1>1, <1>4, CutsType
  <2> QED
    BY <1>4, <2>1 DEF ClockTypes, GroupHasTimer
<1>5. CASE Receive
  <2> DEFINE message == [entry EXCEPT !.received = now]
             group == Append(messageGroup, message)
  <2>1. /\ UNCHANGED <<now, overrun, kmsg, shutdown, processor>>
        /\ reader' = "reading" /\ processor = "selecting"
    BY <1>5 DEF Receive, kernelVars
  <2>2. message \in Entries
    <3>1. now \in Nat
      BY DEF SeqsOK
    <3> QED
      BY <1>1, <3>1 DEF Entries
  <2>3. /\ group \in Seq(Entries) /\ group # <<>> /\ <<message>> # <<>>
    BY <1>1, <2>2, AppendProperties
  <2> HIDE DEF message, group
  <2>4. CASE /\ ProcessGroup(messageGroup)
             /\ messageGroup' = <<message>> /\ StartTimer(MaxGroupTime)
    BY <1>1, <1>4, <2>1, <2>3, <2>4, StartTimerType
  <2>5. CASE /\ ProcessGroup(group) /\ messageGroup' = <<>> /\ StopTimer
    BY <1>1, <1>4, <2>1, <2>3, <2>5 DEF StopTimer
  <2>6. CASE /\ messageGroup' = group /\ UNCHANGED <<processed, cuts>>
             /\ IF timer = NoTimer THEN StartTimer(MaxGroupTime)
                                   ELSE UNCHANGED timer
    <3>1. timer' \in {NoTimer} \cup 0..MaxTime /\ timer' # NoTimer
      BY <1>1, <2>6, StartTimerType DEF ClockTypes
    <3> QED
      BY <1>4, <2>1, <2>3, <2>6, <3>1
  <2> QED
    BY <1>5, <2>4, <2>5, <2>6 DEF Receive, message, group
<1>6. CASE TimerFires
  <2>1. /\ UNCHANGED <<now, overrun, kmsg, shutdown, processor, reader>>
        /\ processor = "selecting"
    BY <1>6 DEF TimerFires, kernelVars, readerVars
  <2>2. reader \in {"reading", "sending", "done"}
    BY DEF ClockTypes
  <2>3. CASE messageGroup' = <<>> /\ StopTimer
    <3>1. \/ UNCHANGED <<processed, cuts>>
          \/ ProcessGroup(messageGroup)
      BY <1>6 DEF TimerFires
    <3> QED
      BY <1>1, <1>4, <2>1, <2>2, <2>3, <3>1 DEF StopTimer
  <2>4. CASE ~(messageGroup' = <<>> /\ StopTimer)
    <3> DEFINE timeLeft == messageGroup[1].time + MaxGroupTime - now
    <3>1. /\ messageGroup # <<>> /\ ~(timeLeft <= 0) /\ StartTimer(timeLeft)
          /\ UNCHANGED <<messageGroup, processed, cuts>>
      BY <1>6, <2>4 DEF TimerFires, StopTimer
    <3>2. messageGroup[1] \in Entries
      BY <1>1, <3>1, EmptySeq, ElementOfSeq, LenProperties
    <3>3. timeLeft \in Nat
      BY <1>1, <3>1, <3>2 DEF Entries
    <3> HIDE DEF timeLeft
    <3>4. timer' \in 0..MaxTime /\ timer' # NoTimer
      BY <1>1, <3>1, <3>3, StartTimerType
    <3> QED
      BY <1>4, <2>1, <2>2, <3>1, <3>4
  <2> QED
    BY <2>3, <2>4
<1>7. CASE ChannelClosed
  <2>1. /\ UNCHANGED <<now, overrun, kmsg, shutdown, reader>>
        /\ processor' = "done" /\ ProcessGroup(messageGroup) /\ timer' = NoTimer
    BY <1>7 DEF ChannelClosed, kernelVars, readerVars, StopTimer
  <2> QED
    BY <1>1, <1>4, <2>1 DEF ClockTypes
<1> QED
  BY <1>3, <1>5, <1>6, <1>7 DEF Next, Processor

(* The types of the clock always hold, and a group has a timer.              *)
THEOREM ClockInvariance == Spec => [](ClockTypes /\ GroupHasTimer)
<1>1. /\ SeqsOK /\ (ClockTypes /\ GroupHasTimer) /\ [Next]_vars
           => (ClockTypes /\ GroupHasTimer)'
  BY ClockNext
<1>2. IInv => SeqsOK
  BY DEF IInv
<1> QED
  BY InitClock, <1>1, <1>2, Invariance, PTL DEF Spec

(* A group never waits for another message without a timer, whatever the     *)
(* limits and the clocks (collector.go:136-161).                             *)
THEOREM GroupsAreTimed == Spec => []GroupHasTimer
BY ClockInvariance, PTL

(* All state keeps its type (collector.go:24-33, 123-127).                   *)
THEOREM TypeCorrect == Spec => []TypeOK
<1>1. IInv /\ ClockTypes /\ GroupHasTimer => TypeOK
  <2> SUFFICES ASSUME SeqsOK, ClockTypes PROVE TypeOK
    BY DEF IInv
  <2>1. unread \in Seq(Entries)
    <3>1. Incoming \subseteq Entries
      BY DEF Incoming, Entries
    <3>2. unread \in Seq(Incoming)
      BY DEF SeqsOK, Incoming
    <3> HIDE DEF Incoming
    <3> QED
      BY <3>1, <3>2
  <2> QED
    BY <2>1 DEF SeqsOK, ClockTypes, TypeOK
<1> QED
  BY <1>1, Invariance, ClockInvariance, PTL
-----------------------------------------------------------------------------
(* How groups end.                                                           *)

(* The first message of the group that ends at a cut, and whether the group  *)
(* was full.                                                                 *)
First(cut) == processed[GroupStart(cut)]
IsFull(cut) == cut - GroupStart(cut) + 1 = MaxGroupSize

(* The message next may follow the group that ends at a cut.                 *)
MayFollow(cut, next) == \/ IsFull(cut)
                        \/ next.time - First(cut).time > MaxGroupTime
                        \/ next.received - First(cut).time >= MaxGroupTime

(* The group being collected may follow the last one, and so may whatever    *)
(* is received when there is none.                                           *)
GroupMayFollow ==
    \A end \in cuts : end = Len(processed) =>
        IF messageGroup # <<>>
        THEN MayFollow(end, messageGroup[1])
        ELSE processor = "selecting" =>
                IsFull(end) \/ now - First(end).time >= MaxGroupTime

BurstInv == /\ Len(messageGroup) < MaxGroupSize
            /\ processed # <<>> => Len(processed) \in cuts
            /\ GroupMayFollow
            /\ BurstsAreKeptTogether

(* Where the group that ends at a cut starts.                                *)
LEMMA GroupStartType ==
    ASSUME NEW cut \in Nat \ {0}
    PROVE  GroupStart(cut) \in 1..cut
<1>1. PICK before : before = {i \in 1..(cut - 1) : \E c \in cuts : c >= i /\ c < cut}
  OBVIOUS
<1>2. before \subseteq 1..(cut - 1)
  BY <1>1
<1>3. PICK last \in Nat : last = cut - 1
  OBVIOUS
<1>4. IsFiniteSet(1..last) /\ Cardinality(1..last) = last
  <2>1. IsFiniteSet(1..last)
    BY FS_Interval
  <2>2. Cardinality(1..last) = IF 1 > last THEN 0 ELSE last - 1 + 1
    BY FS_Interval
  <2> QED
    BY <2>1, <2>2
<1>5. Cardinality(before) \in Nat /\ Cardinality(before) <= last
  <2>1. before \subseteq 1..last
    BY <1>2, <1>3
  <2>2. IsFiniteSet(before) /\ Cardinality(before) <= Cardinality(1..last)
    BY <1>4, <2>1, FS_Subset
  <2>3. Cardinality(before) \in Nat
    BY <2>2, FS_CardinalityType
  <2> QED
    BY <1>4, <2>2, <2>3
<1>6. GroupStart(cut) = 1 + Cardinality(before)
  BY <1>1 DEF GroupStart
<1> QED
  BY <1>3, <1>5, <1>6

(* A group that has ended stays as it is when another ends.                  *)
LEMMA EndedGroupsStay ==
    ASSUME SeqsOK, ClockTypes, NEW group \in Seq(Entries), group # <<>>,
           ProcessGroup(group), NEW cut \in cuts
    PROVE  /\ GroupStart(cut)' = GroupStart(cut)
           /\ First(cut)' = First(cut)
           /\ IsFull(cut)' = IsFull(cut)
<1>1. /\ processed \in Seq(Entries) /\ cut \in 1..Len(processed)
      /\ Len(processed) \in Nat /\ Len(group) \in Nat \ {0}
  BY LenProperties, EmptySeq DEF SeqsOK, ClockTypes
<1>2. PICK end \in Nat : end = Len(processed) + Len(group)
  BY <1>1
<1>3. cuts' = cuts \cup {end} /\ end > cut /\ processed' = processed \o group
  BY <1>1, <1>2 DEF ProcessGroup
<1>4. {i \in 1..(cut - 1) : \E c \in cuts : c >= i /\ c < cut}
          = {i \in 1..(cut - 1) : \E c \in cuts' : c >= i /\ c < cut}
  BY <1>1, <1>2, <1>3
<1>5. GroupStart(cut)' = GroupStart(cut)
  BY <1>4 DEF GroupStart
<1>6. GroupStart(cut) \in 1..Len(processed)
  BY <1>1, GroupStartType
<1>7. processed'[GroupStart(cut)] = processed[GroupStart(cut)]
  BY <1>1, <1>3, <1>6, ConcatProperties
<1> QED
  BY <1>5, <1>7 DEF First, IsFull

(* A group starts where the last one has ended.                              *)
LEMMA GroupStartsAtCut ==
    ASSUME SeqsOK, ClockTypes, NEW group \in Seq(Entries), group # <<>>,
           ProcessGroup(group), processed # <<>> => Len(processed) \in cuts,
           NEW end, end = Len(processed) + Len(group)
    PROVE  /\ GroupStart(end)' = Len(processed) + 1
           /\ First(end)' = group[1]
<1>1. /\ processed \in Seq(Entries) /\ cuts \in SUBSET (1..Len(processed))
      /\ Len(processed) \in Nat /\ Len(group) \in Nat \ {0}
  BY LenProperties, EmptySeq DEF SeqsOK, ClockTypes
<1>2. PICK n \in Nat : n = Len(processed)
  BY <1>1
<1>3. cuts' = cuts \cup {end} /\ processed' = processed \o group
  BY DEF ProcessGroup
<1>4. n # 0 => n \in cuts
  BY <1>1, <1>2, EmptySeq
<1>5. PICK before : before = {i \in 1..(end - 1) : \E c \in cuts' : c >= i /\ c < end}
  OBVIOUS
<1>6. before = 1..n
  <2>1. ASSUME NEW i \in before PROVE i \in 1..n
    <3>1. PICK c \in cuts' : c >= i /\ c < end /\ i \in 1..(end - 1)
      BY <1>5
    <3>2. c \in 1..n
      BY <1>1, <1>2, <1>3, <3>1
    <3> QED
      BY <3>1, <3>2
  <2>2. ASSUME NEW i \in 1..n PROVE i \in before
    <3>1. n \in cuts' /\ n >= i /\ n < end /\ i \in 1..(end - 1)
      BY <1>1, <1>2, <1>3, <1>4
    <3> QED
      BY <1>5, <3>1
  <2> QED
    BY <2>1, <2>2
<1>7. Cardinality(before) = n
  <2>1. Cardinality(1..n) = IF 1 > n THEN 0 ELSE n - 1 + 1
    BY FS_Interval
  <2> QED
    BY <1>6, <2>1
<1>8. GroupStart(end)' = n + 1
  BY <1>5, <1>7 DEF GroupStart
<1>9. processed'[n + 1] = group[1]
  <2>1. n + 1 \in 1..(Len(processed) + Len(group)) /\ ~(n + 1 <= Len(processed))
        /\ n + 1 - Len(processed) = 1
    BY <1>1, <1>2
  <2> QED
    BY <1>1, <1>3, <2>1, ConcatProperties
<1> QED
  BY <1>2, <1>8, <1>9 DEF First

(* When a group ends that may follow the last one, bursts have been kept     *)
(* together.                                                                 *)
LEMMA GroupEnds ==
    ASSUME SeqsOK, ClockTypes, BurstInv, NEW group \in Seq(Entries),
           group # <<>>, ProcessGroup(group),
           \A end \in cuts : end = Len(processed) => MayFollow(end, group[1])
    PROVE  /\ \E end \in cuts' :
                 /\ end = Len(processed') /\ First(end)' = group[1]
                 /\ Len(group) = MaxGroupSize => IsFull(end)'
           /\ BurstsAreKeptTogether'
<1>1. /\ processed \in Seq(Entries) /\ cuts \in SUBSET (1..Len(processed))
      /\ Len(processed) \in Nat /\ Len(group) \in Nat \ {0}
      /\ processed # <<>> => Len(processed) \in cuts
  BY LenProperties, EmptySeq DEF SeqsOK, ClockTypes, BurstInv
<1>2. PICK end : end = Len(processed) + Len(group)
  OBVIOUS
<1>3. /\ cuts' = cuts \cup {end} /\ processed' = processed \o group
      /\ Len(processed') = end /\ end \in Nat \ {0}
  BY <1>1, <1>2, ConcatProperties, EmptySeq DEF ProcessGroup
<1>4. GroupStart(end)' = Len(processed) + 1 /\ First(end)' = group[1]
  BY <1>1, <1>2, GroupStartsAtCut
<1>5. Len(group) = MaxGroupSize => IsFull(end)'
  BY <1>1, <1>2, <1>4 DEF IsFull
<1>6. ASSUME NEW cut \in cuts', cut < end PROVE MayFollow(cut, processed[cut + 1])'
  <2>1. cut \in cuts /\ cut \in 1..Len(processed)
    BY <1>1, <1>3, <1>6
  <2>2. /\ First(cut)' = First(cut) /\ IsFull(cut)' = IsFull(cut)
    BY <2>1, EndedGroupsStay
  <2>3. MayFollow(cut, processed'[cut + 1])
    <3>1. CASE cut < Len(processed)
      <4>1. processed'[cut + 1] = processed[cut + 1]
        BY <1>1, <1>3, <2>1, <3>1, ConcatProperties
      <4>2. MayFollow(cut, processed[cut + 1])
        BY <2>1, <3>1 DEF BurstInv, BurstsAreKeptTogether, MayFollow, IsFull, First
      <4> QED
        BY <4>1, <4>2
    <3>2. CASE cut = Len(processed)
      <4>1. processed'[cut + 1] = group[1]
        <5>1. /\ cut + 1 \in 1..(Len(processed) + Len(group))
              /\ ~(cut + 1 <= Len(processed)) /\ cut + 1 - Len(processed) = 1
          BY <1>1, <3>2
        <5> QED
          BY <1>1, <1>3, <5>1, ConcatProperties
      <4> QED
        BY <2>1, <3>2, <4>1
    <3> QED
      BY <1>1, <2>1, <3>1, <3>2
  <2> QED
    BY <2>2, <2>3 DEF MayFollow
<1>7. BurstsAreKeptTogether'
  BY <1>3, <1>6 DEF BurstsAreKeptTogether, MayFollow, IsFull, First
<1> QED
  BY <1>3, <1>4, <1>5, <1>7

(* What may follow the last group does so as long as no other ends.          *)
LEMMA LastGroupStays ==
    ASSUME UNCHANGED <<processed, cuts>>
    PROVE  /\ \A cut, next : MayFollow(cut, next)' = MayFollow(cut, next)
           /\ \A cut : IsFull(cut)' = IsFull(cut) /\ First(cut)' = First(cut)
           /\ BurstsAreKeptTogether' = BurstsAreKeptTogether
BY DEF MayFollow, IsFull, First, GroupStart, BurstsAreKeptTogether

(* A message that is received joins its burst, or ends the group and starts  *)
(* the next.                                                                 *)
LEMMA ReceiveBursts ==
    ASSUME SeqsOK, SeqsOK', ClockTypes, BurstInv, Receive
    PROVE  BurstInv'
<1>1. PICK message : message = [entry EXCEPT !.received = now]
  OBVIOUS
<1>2. PICK group : group = Append(messageGroup, message)
  OBVIOUS
<1>3. /\ message \in Entries /\ message.received = now /\ message.time \in Nat
      /\ now \in Nat /\ MaxGroupTime \in Nat /\ MaxGroupSize \in Nat
      /\ messageGroup \in Seq(Entries) /\ Len(messageGroup) \in Nat
      /\ processor = "selecting" /\ now' = now /\ processor' = processor
  BY <1>1, KernelAssumption, LenProperties DEF SeqsOK, Entries, Receive, kernelVars
<1>4. /\ group \in Seq(Entries) /\ group # <<>>
      /\ Len(group) = Len(messageGroup) + 1
      /\ group[1] = IF messageGroup = <<>> THEN message ELSE messageGroup[1]
  BY <1>2, <1>3, AppendProperties, EmptySeq
<1>5. \A end \in cuts : end = Len(processed) => MayFollow(end, group[1])
  BY <1>3, <1>4 DEF BurstInv, GroupMayFollow, MayFollow
<1>6. CASE /\ IsLate(message) /\ ProcessGroup(messageGroup)
           /\ messageGroup' = <<message>>
  <2>1. /\ messageGroup # <<>>
        /\ message.time - messageGroup[1].time > MaxGroupTime
    BY <1>6 DEF IsLate
  <2>2. \A end \in cuts : end = Len(processed) => MayFollow(end, messageGroup[1])
    BY <2>1 DEF BurstInv, GroupMayFollow
  <2>3. BurstsAreKeptTogether'
    BY <1>3, <1>6, <2>1, <2>2, GroupEnds
  <2>4. PICK end \in cuts' : end = Len(processed') /\ First(end)' = messageGroup[1]
    BY <1>3, <1>6, <2>1, <2>2, GroupEnds
  <2>5. MayFollow(end, messageGroup[1])'
    BY <1>6, <2>1, <2>4 DEF MayFollow
  <2>6. Len(messageGroup') < MaxGroupSize
    BY <1>6, KernelAssumption
  <2>7. GroupMayFollow'
    BY <1>6, <2>4, <2>5 DEF GroupMayFollow
  <2> QED
    BY <2>3, <2>4, <2>6, <2>7 DEF BurstInv
<1>7. CASE /\ Len(group) >= MaxGroupSize /\ ProcessGroup(group)
           /\ messageGroup' = <<>>
  <2>1. Len(group) = MaxGroupSize
    BY <1>3, <1>4, <1>7 DEF BurstInv
  <2>2. BurstsAreKeptTogether'
    BY <1>4, <1>5, <1>7, GroupEnds
  <2>3. PICK end \in cuts' : end = Len(processed') /\ IsFull(end)'
    BY <1>4, <1>5, <1>7, <2>1, GroupEnds
  <2>4. Len(messageGroup') < MaxGroupSize
    BY <1>7, EmptySeq, KernelAssumption
  <2>5. GroupMayFollow'
    BY <1>7, <2>3 DEF GroupMayFollow
  <2> QED
    BY <2>2, <2>3, <2>4, <2>5 DEF BurstInv
<1>8. CASE /\ Len(group) < MaxGroupSize /\ messageGroup' = group
           /\ UNCHANGED <<processed, cuts>>
  <2>1. \A end \in cuts : end = Len(processed) => MayFollow(end, messageGroup[1])'
    <3>1. messageGroup'[1] = group[1]
      BY <1>8
    <3>2. \A end : MayFollow(end, group[1])' = MayFollow(end, group[1])
      BY <1>8, LastGroupStays
    <3> QED
      BY <1>5, <3>1, <3>2 DEF MayFollow
  <2>2. GroupMayFollow'
    BY <1>4, <1>8, <2>1 DEF GroupMayFollow
  <2>3. BurstsAreKeptTogether'
    BY <1>8, LastGroupStays DEF BurstInv
  <2> QED
    BY <1>8, <2>2, <2>3 DEF BurstInv
<1> QED
  BY <1>1, <1>2, <1>6, <1>7, <1>8 DEF Receive

(* A group whose time is up ends, and so does the last one.                  *)
LEMMA EndBursts ==
    ASSUME SeqsOK, ClockTypes, BurstInv, TimerFires \/ ChannelClosed
    PROVE  BurstInv'
<1>1. /\ now \in Nat /\ MaxGroupTime \in Nat /\ now' = now
      /\ messageGroup \in Seq(Entries) /\ MaxGroupSize > 0
  BY KernelAssumption DEF SeqsOK, TimerFires, ChannelClosed, kernelVars
<1>2. CASE UNCHANGED <<messageGroup, processed, cuts>>
  <2>1. GroupMayFollow'
    <3>1. processor' = "selecting" => processor = "selecting"
      BY DEF TimerFires, ChannelClosed
    <3> QED
      BY <1>1, <1>2, <3>1, LastGroupStays DEF BurstInv, GroupMayFollow
  <2> QED
    BY <1>2, <2>1, LastGroupStays DEF BurstInv
<1>3. CASE /\ messageGroup # <<>> /\ ProcessGroup(messageGroup)
           /\ messageGroup' = <<>>
           /\ \/ messageGroup[1].time + MaxGroupTime - now <= 0
              \/ processor' = "done"
  <2>1. \A end \in cuts : end = Len(processed) => MayFollow(end, messageGroup[1])
    BY <1>3 DEF BurstInv, GroupMayFollow
  <2>2. BurstsAreKeptTogether'
    BY <1>1, <1>3, <2>1, GroupEnds
  <2>3. PICK end \in cuts' : end = Len(processed') /\ First(end)' = messageGroup[1]
    BY <1>1, <1>3, <2>1, GroupEnds
  <2>4. messageGroup[1] \in Entries
    BY <1>1, <1>3, EmptySeq, ElementOfSeq, LenProperties
  <2>5. messageGroup[1].time \in Nat
    BY <2>4 DEF Entries
  <2>6. (now - First(end).time >= MaxGroupTime)' \/ processor' = "done"
    BY <1>1, <1>3, <2>3, <2>5
  <2>7. GroupMayFollow'
    BY <1>3, <2>3, <2>6 DEF GroupMayFollow
  <2>8. Len(messageGroup') < MaxGroupSize
    BY <1>1, <1>3, EmptySeq
  <2> QED
    BY <2>2, <2>3, <2>7, <2>8 DEF BurstInv
<1>4. CASE messageGroup = <<>> /\ ProcessGroup(messageGroup) /\ messageGroup' = <<>>
  <2>1. processed' = processed /\ cuts' = cuts
    <3>1. processed \o <<>> = processed
      BY ConcatEmptySeq DEF SeqsOK
    <3> QED
      BY <1>4, <3>1 DEF ProcessGroup
  <2> QED
    BY <1>2, <1>4, <2>1
<1>5. CASE TimerFires
  BY <1>2, <1>3, <1>4, <1>5 DEF TimerFires
<1>6. CASE ChannelClosed
  BY <1>3, <1>4, <1>6 DEF ChannelClosed
<1> QED
  BY <1>5, <1>6

(* As time passes the last group only gets older.                            *)
LEMMA OtherBursts ==
    ASSUME SeqsOK, ClockTypes, BurstInv,
           Kernel \/ Reader \/ CloseFile \/ WaitReturns \/ UNCHANGED vars
    PROVE  BurstInv'
<1>1. UNCHANGED <<processor, messageGroup, processed, cuts>>
  BY DEF Kernel, Tick, Log, Overwrite, Reader, Read, ReadOverrun, ReadFails,
         ReadClosed, CloseFile, WaitReturns, vars, groupVars
<1>2. now \in Nat /\ (now' = now \/ now' = now + 1)
  BY DEF SeqsOK, Kernel, Tick, Log, Overwrite, Reader, Read, ReadOverrun,
         ReadFails, ReadClosed, CloseFile, WaitReturns, vars, kernelVars
<1>3. ASSUME NEW end \in cuts PROVE First(end).time \in Nat
  <2>1. /\ processed \in Seq(Entries) /\ end \in 1..Len(processed)
        /\ Len(processed) \in Nat
    BY LenProperties DEF SeqsOK, ClockTypes
  <2>2. GroupStart(end) \in 1..Len(processed)
    BY <2>1, GroupStartType
  <2>3. First(end) \in Entries
    BY <2>1, <2>2, ElementOfSeq DEF First
  <2> QED
    BY <2>3 DEF Entries
<1>4. GroupMayFollow'
  <2>1. /\ \A cut, next : MayFollow(cut, next)' = MayFollow(cut, next)
        /\ \A cut : IsFull(cut)' = IsFull(cut) /\ First(cut)' = First(cut)
    BY <1>1, LastGroupStays
  <2>2. MaxGroupTime \in Nat
    BY KernelAssumption
  <2>3. ASSUME NEW end \in cuts, end = Len(processed)
        PROVE  IF messageGroup # <<>>
               THEN MayFollow(end, messageGroup[1])
               ELSE processor = "selecting" =>
                       IsFull(end) \/ now' - First(end).time >= MaxGroupTime
    BY <1>2, <1>3, <2>2, <2>3 DEF BurstInv, GroupMayFollow
  <2> QED
    BY <1>1, <2>1, <2>3 DEF GroupMayFollow, MayFollow
<1> QED
  BY <1>1, <1>4, LastGroupStays DEF BurstInv

(* A burst is kept together, whatever the limits and the clocks: a group     *)
(* that is followed by another was full, or old enough when the next message *)
(* was logged or received (collector.go:136-161).                            *)
THEOREM BurstsStayTogether == Spec => []BurstsAreKeptTogether
<1>1. Init => BurstInv
  BY KernelAssumption, EmptySeq DEF Init, BurstInv, GroupMayFollow,
                                    BurstsAreKeptTogether
<1>2. SeqsOK /\ SeqsOK' /\ ClockTypes /\ BurstInv /\ [Next]_vars => BurstInv'
  <2> SUFFICES ASSUME SeqsOK, SeqsOK', ClockTypes, BurstInv, [Next]_vars
               PROVE  BurstInv'
    OBVIOUS
  <2>1. CASE Receive
    BY <2>1, ReceiveBursts
  <2>2. CASE TimerFires \/ ChannelClosed
    BY <2>2, EndBursts
  <2>3. CASE Kernel \/ Reader \/ CloseFile \/ WaitReturns \/ UNCHANGED vars
    BY <2>3, OtherBursts
  <2> QED
    BY <2>1, <2>2, <2>3 DEF Next, Processor
<1>3. BurstInv => BurstsAreKeptTogether
  BY DEF BurstInv
<1>4. IInv => SeqsOK
  BY DEF IInv
<1> QED
  BY <1>1, <1>2, <1>3, <1>4, Invariance, ClockInvariance, PTL DEF Spec

-----------------------------------------------------------------------------
(* The classifier                                                            *)

\* How many errors of a type are in a list.
CountOf(list, type) == Cardinality({i \in DOMAIN list : list[i] = type})

\* The positions of a set of positions that have been passed.
UpTo(positions, n) == {i \in positions : i <= n}

\* A message that is taken with the one before it.
Expected(a, b) == \/ <<a, b>> \in Follows
                  \/ hypervisor /\ a = "registerFailed" /\ b = "slotFailed"

\* How many messages of the stream have been matched or counted as unknown.
Scanned == Len(stream) - Len(messages)

\* The errors of a type that have been found so far.
Told(type) == errors[type] + CountOf(types, type)

-----------------------------------------------------------------------------
(* A list of no errors counts none.                                          *)
LEMMA CountEmpty == ASSUME NEW type PROVE CountOf(<<>>, type) = 0
<1>1. DOMAIN (<<>>) = {}
  OBVIOUS
<1>2. {i \in DOMAIN (<<>>) : (<<>>)[i] = type} = {}
  BY <1>1
<1> QED
  BY <1>2, FS_EmptySet DEF CountOf

(* One more error counts in its own type alone.                              *)
LEMMA CountOneMore ==
    ASSUME NEW list \in Seq(ErrorTypes), NEW error \in ErrorTypes, NEW type
    PROVE  /\ list \o <<error>> \in Seq(ErrorTypes)
           /\ CountOf(list, type) \in Nat
           /\ CountOf(list \o <<error>>, type) =
                 CountOf(list, type) + IF error = type THEN 1 ELSE 0
<1>1. PICK n \in Nat : n = Len(list) /\ DOMAIN list = 1..n
  BY LenProperties
<1>2. <<error>> \in Seq(ErrorTypes) /\ Len(<<error>>) = 1 /\ <<error>>[1] = error
  OBVIOUS
<1>3. PICK more : more = list \o <<error>>
  OBVIOUS
<1>4. /\ more \in Seq(ErrorTypes) /\ Len(more) = n + 1
      /\ \A i \in 1..(n + 1) : more[i] = IF i <= n THEN list[i] ELSE <<error>>[i - n]
  BY <1>1, <1>2, <1>3, ConcatProperties
<1>5. DOMAIN more = 1..(n + 1) /\ more[n + 1] = error
      /\ \A i \in 1..n : more[i] = list[i]
  BY <1>1, <1>2, <1>4, LenProperties
<1>6. PICK counted : counted = {i \in DOMAIN list : list[i] = type}
  OBVIOUS
<1>7. PICK counts : counts = {i \in DOMAIN more : more[i] = type}
  OBVIOUS
<1>8. counts = IF error = type THEN counted \cup {n + 1} ELSE counted
  BY <1>1, <1>5, <1>6, <1>7
<1>9. IsFiniteSet(counted) /\ n + 1 \notin counted
  <2>1. counted \subseteq 1..n
    BY <1>1, <1>6
  <2>2. IsFiniteSet(1..n)
    BY FS_Interval
  <2>3. IsFiniteSet(counted)
    BY <2>1, <2>2, FS_Subset
  <2> QED
    BY <2>1, <2>3
<1>10. Cardinality(counted) \in Nat
  BY <1>9, FS_CardinalityType
<1>11. Cardinality(counts) = Cardinality(counted) + IF error = type THEN 1 ELSE 0
  <2>1. Cardinality(counted \cup {n + 1}) = Cardinality(counted) + 1
    BY <1>9, FS_AddElement
  <2> QED
    BY <1>8, <1>10, <2>1
<1> QED
  BY <1>3, <1>4, <1>6, <1>7, <1>10, <1>11 DEF CountOf

(* Passing positions that are not in a set.                                  *)
LEMMA NonePassed ==
    ASSUME NEW positions, positions \subseteq Nat \ {0}, NEW n \in Nat, NEW m \in Nat, n <= m,
           \A i \in (n + 1)..m : i \notin positions
    PROVE  UpTo(positions, m) = UpTo(positions, n)
<1>1. \A i \in positions : i <= m => i <= n
  OBVIOUS
<1>2. \A i \in positions : i <= n => i <= m
  OBVIOUS
<1> QED
  BY <1>1, <1>2 DEF UpTo

(* The positions of a set that have been passed can be counted.              *)
LEMMA PassedType ==
    ASSUME NEW positions, positions \subseteq Nat \ {0}, NEW n \in Nat
    PROVE  IsFiniteSet(UpTo(positions, n)) /\ Cardinality(UpTo(positions, n)) \in Nat
<1>1. PICK passed : passed = UpTo(positions, n)
  OBVIOUS
<1>2. \A i : i \in passed <=> i \in positions /\ i <= n
  BY <1>1 DEF UpTo
<1>3. \A i \in passed : i \in Nat /\ i # 0 /\ i <= n
  BY <1>2
<1>4. passed \subseteq 1..n
  BY <1>3
<1>5. IsFiniteSet(1..n)
  BY FS_Interval
<1>6. IsFiniteSet(passed)
  BY <1>4, <1>5, FS_Subset
<1> QED
  BY <1>1, <1>6, FS_CardinalityType

\* Of the positions after n up to m, only k is in a set.
OnlyOne(positions, n, m, k) ==
    /\ k \in (n + 1)..m /\ k \in positions
    /\ \A i \in (n + 1)..m : i \in positions => i = k

(* Passing positions of which one is in a set counts it.                     *)
LEMMA OnePassed ==
    ASSUME NEW positions, positions \subseteq Nat \ {0}, NEW n \in Nat, NEW m \in Nat, n <= m,
           NEW k, OnlyOne(positions, n, m, k)
    PROVE  Cardinality(UpTo(positions, m)) = Cardinality(UpTo(positions, n)) + 1
<1>0. k \in (n + 1)..m /\ k \in positions /\ \A i \in (n + 1)..m : i \in positions => i = k
  BY DEF OnlyOne
<1>1. PICK passed : passed = UpTo(positions, n)
  OBVIOUS
<1>2. UpTo(positions, m) = passed \cup {k} /\ k \notin passed
  <2>1. \A i \in positions : i <= m => i <= n \/ i = k
    BY <1>0
  <2>2. \A i \in positions : i <= n => i <= m /\ i # k
    BY <1>0
  <2>3. k <= m
    BY <1>0
  <2> QED
    BY <1>0, <1>1, <2>1, <2>2, <2>3 DEF UpTo
<1>3. IsFiniteSet(passed)
  BY <1>1, PassedType
<1> QED
  BY <1>1, <1>2, <1>3, FS_AddElement

-----------------------------------------------------------------------------
(* The matchers, by their places in the list.                                *)
LEMMA MatchersInOrder ==
    ASSUME hypervisor \in BOOLEAN
    PROVE  /\ DOMAIN Matchers = 1..(IF hypervisor THEN 5 ELSE 4)
           /\ Matchers[1] = "AMDIOMMU" /\ Matchers[2] = "MissingHardwareWatchdog"
           /\ Matchers[3] = "UBSAN" /\ Matchers[4] = "UnexpectedNMI"
           /\ hypervisor => Matchers[5] = "HotplugInitialization"
<1>1. CASE hypervisor
  BY <1>1 DEF Matchers
<1>2. CASE ~hypervisor
  BY <1>2 DEF Matchers
<1> QED
  BY <1>1, <1>2

(* A pair takes its head, and the message after it when it belongs to it.    *)
LEMMA PairMatch ==
    ASSUME NEW heads, NEW t \in Seq(Messages), t # <<>>
    PROVE  /\ MatchPair(heads, t) = 0 <=> t[1] \notin heads
           /\ MatchPair(heads, t) \in 0..Len(t)
           /\ MatchPair(heads, t) = 1 /\ Len(t) > 1 => <<t[1], t[2]>> \notin Follows
           /\ MatchPair(heads, t) > 1
                 => MatchPair(heads, t) = 2 /\ <<t[1], t[2]>> \in Follows
<1>1. PICK n \in Nat \ {0} : n = Len(t)
  BY EmptySeq
<1> QED
  BY <1>1 DEF MatchPair

(* The failures of the hotplug driver that a sequence begins with: a         *)
(* registration, its slot, and so on, until a message that is not the next.  *)
LEMMA HotplugMatch ==
    ASSUME NEW t \in Seq(Messages), t # <<>>
    PROVE  /\ MatchHotplug(t) \in 0..Len(t)
           /\ MatchHotplug(t) = 0 <=> t[1] # "registerFailed"
           /\ \A i \in 1..MatchHotplug(t) :
                 \/ t[i] = "registerFailed"
                 \/ i > 1 /\ t[i - 1] = "registerFailed" /\ t[i] = "slotFailed"
           /\ LET count == MatchHotplug(t)
              IN  count > 0 /\ count < Len(t) /\ t[count] = "registerFailed"
                     => t[count + 1] # "slotFailed"
<1>1. PICK n \in Nat \ {0} : n = Len(t)
  BY EmptySeq
<1> DEFINE expected(i) == IF i % 2 = 1 THEN "registerFailed" ELSE "slotFailed"
           Fits(count) == /\ count \in 0..n
                          /\ \A i \in 1..count : t[i] = expected(i)
                          /\ count < n => t[count + 1] # expected(count + 1)
           ends == {k \in Nat : k = n \/ t[k + 1] # expected(k + 1)}
<1>2. ends \subseteq Nat /\ ends # {}
  BY <1>1
<1>3. PICK k \in ends : \A j \in ends : k <= j
  BY <1>2, LeastNumber
<1>4. k \in Nat /\ k <= n /\ (k < n => t[k + 1] # expected(k + 1))
  BY <1>1, <1>3
<1>5. \A i \in 1..k : t[i] = expected(i)
  <2> TAKE i \in 1..k
  <2>1. i - 1 \in Nat /\ ~(k <= i - 1)
    BY <1>4
  <2>2. i - 1 \notin ends
    BY <1>3, <2>1
  <2> QED
    BY <2>1, <2>2
<1>6. Fits(k)
  BY <1>1, <1>4, <1>5
<1>7. MatchHotplug(t) = CHOOSE count \in 0..n : Fits(count)
  BY <1>1 DEF MatchHotplug
<1>8. PICK count : count = MatchHotplug(t)
  OBVIOUS
<1>9. Fits(count)
  BY <1>1, <1>4, <1>6, <1>7, <1>8
<1>10. \A i \in Nat : (i % 2 = 1 <=> (i + 1) % 2 # 1) /\ 1 % 2 = 1
  OBVIOUS
<1>11. count = 0 <=> t[1] # "registerFailed"
  BY <1>1, <1>9, <1>10
<1>12. ASSUME NEW i \in 1..count
       PROVE  \/ t[i] = "registerFailed"
              \/ i > 1 /\ t[i - 1] = "registerFailed" /\ t[i] = "slotFailed"
  <2>1. i \in Nat /\ i - 1 \in Nat /\ (i > 1 => i - 1 \in 1..count)
    BY <1>1, <1>9, <1>12
  <2>2. t[i] = expected(i) /\ (i > 1 => t[i - 1] = expected(i - 1))
    BY <1>9, <1>12, <2>1
  <2>3. i % 2 # 1 => (i - 1) % 2 = 1 /\ i > 1
    BY <1>10, <2>1
  <2> QED
    BY <2>2, <2>3
<1>13. count > 0 /\ count < n /\ t[count] = "registerFailed" => t[count + 1] # "slotFailed"
  <2> SUFFICES ASSUME count > 0, count < n, t[count] = "registerFailed"
               PROVE  t[count + 1] # "slotFailed"
    OBVIOUS
  <2>1. count \in Nat /\ count \in 1..count
    BY <1>1, <1>9
  <2>2. expected(count) = "registerFailed"
    BY <1>9, <2>1
  <2>3. (count + 1) % 2 # 1
    BY <1>10, <2>1, <2>2
  <2> QED
    BY <1>9, <2>3
<1> QED
  BY <1>1, <1>8, <1>9, <1>11, <1>12, <1>13

(* The heads of the known errors, and what they are told apart by.           *)
LEMMA HeadsList ==
    ASSUME hypervisor \in BOOLEAN
    PROVE  Heads = {"resume1", "resume2", "ubsan", "nmi", "watchdog"}
                      \cup IF hypervisor THEN {"registerFailed"} ELSE {}
<1>1. {pair[1] : pair \in Follows} = {"resume1", "resume2", "ubsan", "nmi"}
  BY DEF Follows
<1> QED
  BY <1>1 DEF Heads

(* A message that is expected after a head is not a head.                    *)
LEMMA FollowersAreNotHeads ==
    ASSUME hypervisor \in BOOLEAN, NEW a, NEW b, Expected(a, b)
    PROVE  a \in Heads /\ b \notin Heads /\ b # "nmi"
<1>1. PICK h : h = Heads
  OBVIOUS
<1>2. h = {"resume1", "resume2", "ubsan", "nmi", "watchdog"}
             \cup IF hypervisor THEN {"registerFailed"} ELSE {}
  BY <1>1, HeadsList
<1>3. CASE hypervisor /\ a = "registerFailed" /\ b = "slotFailed"
  BY <1>1, <1>2, <1>3
<1>4. CASE <<a, b>> \in Follows
  <2>1. \/ a = "resume1" /\ b = "notAdded1"
        \/ a = "resume2" /\ b = "notAdded2"
        \/ a = "ubsan" /\ b = "index"
        \/ a = "nmi" /\ b = "dazed"
    BY <1>4 DEF Follows
  <2> QED
    BY <1>1, <1>2, <2>1
<1> QED
  BY <1>3, <1>4 DEF Expected

\* What a matcher that takes count messages from the head of t has taken: an
\* error from its head to the last message that belongs to it.
Takes(t, count) ==
    /\ count \in 1..Len(t)
    /\ t[1] \in Heads
    /\ \A k \in 1..count : t[k] \in Heads \/ (k > 1 /\ Expected(t[k - 1], t[k]))
    /\ \A k \in 2..count : t[k] # "nmi"
    /\ count < Len(t) => ~Expected(t[count], t[count + 1])

(* A pair takes an error whole.                                              *)
LEMMA PairTakes ==
    ASSUME hypervisor \in BOOLEAN, NEW heads, heads \subseteq Heads,
           "registerFailed" \notin heads,
           NEW t \in Seq(Messages), t # <<>>, MatchPair(heads, t) # 0
    PROVE  Takes(t, MatchPair(heads, t)) /\ t[1] \in heads
<1>1. PICK n \in Nat \ {0} : n = Len(t)
  BY EmptySeq
<1>2. PICK count \in 0..n : count = MatchPair(heads, t)
  BY <1>1, PairMatch
<1>3. /\ t[1] \in heads /\ count # 0
      /\ count = 1 /\ n > 1 => <<t[1], t[2]>> \notin Follows
      /\ count > 1 => count = 2 /\ <<t[1], t[2]>> \in Follows
  BY <1>1, <1>2, PairMatch
<1>4. t[1] \in Heads /\ t[1] # "registerFailed"
  BY <1>3
<1>5. CASE count = 1
  <2>1. n > 1 => ~Expected(t[1], t[2])
    BY <1>3, <1>4, <1>5 DEF Expected
  <2> QED
    BY <1>1, <1>2, <1>3, <1>4, <1>5, <2>1 DEF Takes
<1>6. CASE count # 1
  <2>1. count = 2 /\ Expected(t[1], t[2])
    BY <1>2, <1>3, <1>6 DEF Expected
  <2>2. t[2] \notin Heads /\ t[2] # "nmi"
    BY <2>1, FollowersAreNotHeads
  <2>3. ~Expected(t[2], t[3])
    BY <2>2, FollowersAreNotHeads
  <2>4. \A k \in 1..2 : k = 1 \/ k = 2
    OBVIOUS
  <2>5. \A k \in 1..2 : t[k] \in Heads \/ (k > 1 /\ Expected(t[k - 1], t[k]))
    BY <1>4, <2>1, <2>4
  <2> QED
    BY <1>1, <1>2, <1>3, <1>4, <2>1, <2>2, <2>3, <2>5 DEF Takes
<1> QED
  BY <1>5, <1>6

(* The hotplug failures are taken as one error.                              *)
LEMMA HotplugTakes ==
    ASSUME hypervisor = TRUE, NEW t \in Seq(Messages), t # <<>>, MatchHotplug(t) # 0
    PROVE  Takes(t, MatchHotplug(t)) /\ t[1] = "registerFailed"
<1>1. PICK n \in Nat \ {0} : n = Len(t)
  BY EmptySeq
<1>2. PICK count \in 0..n : count = MatchHotplug(t)
  BY <1>1, HotplugMatch
<1>3. count # 0 /\ t[1] = "registerFailed"
  BY <1>2, HotplugMatch
<1>4. \A i \in 1..count :
          \/ t[i] = "registerFailed"
          \/ i > 1 /\ t[i - 1] = "registerFailed" /\ t[i] = "slotFailed"
  BY <1>2, HotplugMatch
<1>5. count < n /\ t[count] = "registerFailed" => t[count + 1] # "slotFailed"
  BY <1>1, <1>2, <1>3, HotplugMatch
<1>6. "registerFailed" \in Heads
  BY HeadsList
<1>7. \A k \in 1..count : t[k] \in Heads \/ (k > 1 /\ Expected(t[k - 1], t[k]))
  BY <1>4, <1>6 DEF Expected
<1>8. \A k \in 2..count : t[k] # "nmi"
  BY <1>4
<1>9. count \in 1..count
  BY <1>2, <1>3
<1>10. count < n => ~Expected(t[count], t[count + 1])
  <2>1. t[count] = "registerFailed" \/ t[count] = "slotFailed"
    BY <1>4, <1>9
  <2>2. <<t[count], t[count + 1]>> \notin Follows
    BY <2>1 DEF Follows
  <2>3. CASE t[count] = "registerFailed"
    BY <1>5, <2>2, <2>3 DEF Expected
  <2>4. CASE t[count] = "slotFailed"
    BY <2>2, <2>4 DEF Expected
  <2> QED
    BY <2>1, <2>3, <2>4
<1> QED
  BY <1>1, <1>2, <1>3, <1>6, <1>7, <1>8, <1>10 DEF Takes

(* A matcher that takes something takes an error whole, and only the one of  *)
(* NMIs reports it.                                                          *)
LEMMA MatcherTakes ==
    ASSUME hypervisor \in BOOLEAN, NEW t \in Seq(Messages), t # <<>>,
           NEW i \in DOMAIN Matchers, Match(Matchers[i], t) # 0
    PROVE  /\ Takes(t, Match(Matchers[i], t))
           /\ MatchedTypes(Matchers[i]) = IF t[1] = "nmi" THEN <<UnexpectedNMI>> ELSE <<>>
<1>1. PICK h : h = Heads
  OBVIOUS
<1>2. h = {"resume1", "resume2", "ubsan", "nmi", "watchdog"}
             \cup IF hypervisor THEN {"registerFailed"} ELSE {}
  BY <1>1, HeadsList
<1>3. PICK matcher : matcher = Matchers[i]
  OBVIOUS
<1>4. \/ matcher \in {"AMDIOMMU", "MissingHardwareWatchdog", "UBSAN", "UnexpectedNMI"}
      \/ hypervisor /\ matcher = "HotplugInitialization"
  BY <1>3, MatchersInOrder
<1>5. CASE matcher = "AMDIOMMU"
  <2>1. Match(matcher, t) = MatchPair({"resume1", "resume2"}, t)
    BY <1>5 DEF Match
  <2>2. Takes(t, Match(matcher, t)) /\ t[1] \in {"resume1", "resume2"}
    BY <1>1, <1>2, <1>3, <2>1, PairTakes
  <2> QED
    BY <1>3, <1>5, <2>2 DEF MatchedTypes
<1>6. CASE matcher = "MissingHardwareWatchdog"
  <2>1. Match(matcher, t) = MatchPair({"watchdog"}, t)
    BY <1>6 DEF Match
  <2>2. Takes(t, Match(matcher, t)) /\ t[1] \in {"watchdog"}
    BY <1>1, <1>2, <1>3, <2>1, PairTakes
  <2> QED
    BY <1>3, <1>6, <2>2 DEF MatchedTypes
<1>7. CASE matcher = "UBSAN"
  <2>1. Match(matcher, t) = MatchPair({"ubsan"}, t)
    BY <1>7 DEF Match
  <2>2. Takes(t, Match(matcher, t)) /\ t[1] \in {"ubsan"}
    BY <1>1, <1>2, <1>3, <2>1, PairTakes
  <2> QED
    BY <1>3, <1>7, <2>2 DEF MatchedTypes
<1>8. CASE matcher = "UnexpectedNMI"
  <2>1. Match(matcher, t) = MatchPair({"nmi"}, t)
    BY <1>8 DEF Match
  <2>2. Takes(t, Match(matcher, t)) /\ t[1] \in {"nmi"}
    BY <1>1, <1>2, <1>3, <2>1, PairTakes
  <2> QED
    BY <1>3, <1>8, <2>2 DEF MatchedTypes
<1>9. CASE hypervisor /\ matcher = "HotplugInitialization"
  <2>1. Match(matcher, t) = MatchHotplug(t)
    BY <1>9 DEF Match
  <2>2. Takes(t, Match(matcher, t)) /\ t[1] = "registerFailed"
    BY <1>3, <1>9, <2>1, HotplugTakes
  <2> QED
    BY <1>3, <1>9, <2>2 DEF MatchedTypes
<1> QED
  BY <1>4, <1>5, <1>6, <1>7, <1>8, <1>9

(* A known error is never passed over: its head is enough to match it.       *)
LEMMA HeadsMatch ==
    ASSUME hypervisor \in BOOLEAN, NEW t \in Seq(Messages), t # <<>>, t[1] \in Heads
    PROVE  \E i \in DOMAIN Matchers : Match(Matchers[i], t) # 0
<1>1. t[1] \in {"resume1", "resume2", "ubsan", "nmi", "watchdog"}
                  \cup IF hypervisor THEN {"registerFailed"} ELSE {}
  BY HeadsList
<1>2. CASE t[1] \in {"resume1", "resume2"}
  <2>1. MatchPair({"resume1", "resume2"}, t) # 0
    BY <1>2, PairMatch
  <2> QED
    BY <2>1, MatchersInOrder DEF Match
<1>3. CASE t[1] = "watchdog"
  <2>1. MatchPair({"watchdog"}, t) # 0
    BY <1>3, PairMatch
  <2> QED
    BY <2>1, MatchersInOrder DEF Match
<1>4. CASE t[1] = "ubsan"
  <2>1. MatchPair({"ubsan"}, t) # 0
    BY <1>4, PairMatch
  <2> QED
    BY <2>1, MatchersInOrder DEF Match
<1>5. CASE t[1] = "nmi"
  <2>1. MatchPair({"nmi"}, t) # 0
    BY <1>5, PairMatch
  <2> QED
    BY <2>1, MatchersInOrder DEF Match
<1>6. CASE hypervisor /\ t[1] = "registerFailed"
  <2>1. MatchHotplug(t) # 0
    BY <1>6, HotplugMatch
  <2> QED
    BY <1>6, <2>1, MatchersInOrder DEF Match
<1> QED
  BY <1>1, <1>2, <1>3, <1>4, <1>5, <1>6

(* The first matcher of those that take something is one of them.            *)
LEMMA FirstMatches ==
    ASSUME hypervisor \in BOOLEAN, Matching # {}
    PROVE  /\ Min(Matching) \in DOMAIN Matchers
           /\ Match(Matchers[Min(Matching)], ToMatch) # 0
<1>1. PICK n \in Nat : DOMAIN Matchers = 1..n
  BY MatchersInOrder
<1>2. Matching \subseteq Nat
  BY <1>1 DEF Matching
<1>3. \E k \in Matching : \A j \in Matching : k <= j
  BY <1>2, LeastNumber
<1>4. Min(Matching) \in Matching
  BY <1>3 DEF Min
<1> QED
  BY <1>4 DEF Matching

-----------------------------------------------------------------------------
\* What has been counted and found so far is right for the messages that have
\* been scanned, but for the unknown errors that cuts add.
Tally(n, extra) ==
    /\ Told(UnexpectedNMI) = Cardinality(UpTo(NMIs, n))
    /\ Told(Unknown) >= Cardinality(UpTo(UnknownRuns, n))
    /\ Told(Unknown) <= Cardinality(UpTo(UnknownRuns, n)) + extra

\* The scan is at the beginning of a group, and the cut before the group has
\* added nothing yet, ...
AtCut == /\ types = <<>> /\ messages # <<>>
         /\ Tally(Scanned, IF Scanned = 0 THEN 0 ELSE groups - 2)

\* ... or past a known error, with all the messages that belong to it.
PastError == /\ Scanned > 0 /\ IsExplained(Scanned)
             /\ messages # <<>> => ~Expected(stream[Scanned], messages[1])
             /\ Tally(Scanned, groups - 1)

ScanInv ==
    /\ Len(messages) <= Len(stream)
    /\ \A k \in 1..Len(messages) : messages[k] = stream[Scanned + k]
    /\ \A k \in 1..index : messages[k] \notin Heads
    /\ groups = 0 <=> stream = <<>>
    /\ ~classifying => /\ messages = <<>> /\ types = <<>> /\ index = 0
                       /\ Tally(Scanned, IF groups = 0 THEN 0 ELSE groups - 1)
    /\ classifying => AtCut \/ PastError

(* What a match and the unknown error before it add to a list of errors.     *)
LEMMA FoundCounted ==
    ASSUME NEW list \in Seq(ErrorTypes), NEW known \in {<<>>, <<UnexpectedNMI>>},
           NEW rest \in {<<>>, <<Unknown>>}
    PROVE  /\ list \o known \o rest \in Seq(ErrorTypes)
           /\ CountOf(list \o known \o rest, UnexpectedNMI) =
                 CountOf(list, UnexpectedNMI) + IF known = <<>> THEN 0 ELSE 1
           /\ CountOf(list \o known \o rest, Unknown) =
                 CountOf(list, Unknown) + IF rest = <<>> THEN 0 ELSE 1
<1>1. /\ Unknown \in ErrorTypes /\ UnexpectedNMI \in ErrorTypes
      /\ Unknown # UnexpectedNMI
  BY DEF Unknown, UnexpectedNMI, ErrorTypes
<1>2. \A type : CountOf(list, type) \in Nat
  BY <1>1, CountOneMore
<1>3. PICK more : more = list \o known
  OBVIOUS
<1>4. /\ more \in Seq(ErrorTypes)
      /\ \A type \in ErrorTypes : CountOf(more, type) \in Nat
      /\ CountOf(more, UnexpectedNMI) =
            CountOf(list, UnexpectedNMI) + IF known = <<>> THEN 0 ELSE 1
      /\ CountOf(more, Unknown) = CountOf(list, Unknown)
  <2>1. CASE known = <<>>
    <3>1. more = list
      BY <1>3, <2>1, ConcatEmptySeq
    <3> QED
      BY <1>2, <2>1, <3>1
  <2>2. CASE known = <<UnexpectedNMI>>
    <3>1. known # <<>>
      BY <2>2
    <3>2. /\ more \in Seq(ErrorTypes)
          /\ CountOf(more, UnexpectedNMI) = CountOf(list, UnexpectedNMI) + 1
          /\ CountOf(more, Unknown) = CountOf(list, Unknown) + 0
      BY <1>1, <1>3, <2>2, CountOneMore
    <3>3. \A type \in ErrorTypes : CountOf(more, type) \in Nat
      BY <1>1, <3>2, CountOneMore
    <3> QED
      BY <1>2, <3>1, <3>2, <3>3
  <2> QED
    BY <2>1, <2>2
<1>5. CASE rest = <<>>
  <2>1. more \o rest = more
    BY <1>4, <1>5, ConcatEmptySeq
  <2> QED
    BY <1>1, <1>2, <1>3, <1>4, <1>5, <2>1
<1>6. CASE rest = <<Unknown>>
  <2>1. rest # <<>>
    BY <1>6
  <2>2. /\ more \o rest \in Seq(ErrorTypes)
        /\ CountOf(more \o rest, Unknown) = CountOf(more, Unknown) + 1
        /\ CountOf(more \o rest, UnexpectedNMI) = CountOf(more, UnexpectedNMI) + 0
    BY <1>1, <1>4, <1>6, CountOneMore
  <2> QED
    BY <1>1, <1>2, <1>3, <1>4, <2>1, <2>2
<1> QED
  BY <1>5, <1>6

(* The positions of the stream, and that of what is scanned next.            *)
LEMMA Positions ==
    ASSUME ClassifierTypeOK, ScanInv
    PROVE  /\ Scanned \in Nat /\ index \in Nat /\ groups \in Nat
           /\ Len(stream) \in Nat /\ Len(messages) \in Nat
           /\ Scanned + Len(messages) = Len(stream)
           /\ index <= Len(messages)
           /\ DOMAIN stream = 1..Len(stream)
           /\ NMIs \subseteq Nat \ {0} /\ UnknownRuns \subseteq Nat \ {0}
           /\ \A type \in ErrorTypes : errors[type] \in Nat /\ Told(type) \in Nat
<1>1. /\ stream \in Seq(Messages) /\ messages \in Seq(Messages)
      /\ types \in Seq(ErrorTypes)
  BY DEF ClassifierTypeOK
<1>2. PICK n \in Nat : n = Len(stream) /\ DOMAIN stream = 1..n
  BY <1>1, LenProperties
<1>3. PICK k \in Nat : k = Len(messages)
  BY <1>1, LenProperties
<1>4. k <= n /\ index \in 0..k /\ groups \in Nat
  BY <1>2, <1>3 DEF ScanInv, ClassifierTypeOK
<1>5. NMIs \subseteq 1..n /\ UnknownRuns \subseteq 1..n
  BY <1>2 DEF NMIs, UnknownRuns
<1>6. NMIs \subseteq Nat \ {0} /\ UnknownRuns \subseteq Nat \ {0}
  BY <1>2, <1>5
<1>7. ASSUME NEW type \in ErrorTypes
      PROVE  errors[type] \in Nat /\ Told(type) \in Nat
  <2>1. CountOf(types, type) \in Nat
    BY <1>1, <1>7, CountOneMore
  <2>2. errors[type] \in Nat
    BY <1>7 DEF ClassifierTypeOK
  <2> QED
    BY <2>1, <2>2 DEF Told
<1> QED
  BY <1>2, <1>3, <1>4, <1>6, <1>7 DEF Scanned

(* The messages that nothing has matched are one unknown error, which begins *)
(* where a run of unexplained messages does, or at a cut.                    *)
LEMMA UnknownConsumed ==
    ASSUME ClassifierTypeOK, ScanInv, classifying
    PROVE  LET q == Scanned + index
               more == IF index # 0 THEN 1 ELSE 0
           IN  /\ Told(UnexpectedNMI) = Cardinality(UpTo(NMIs, q))
               /\ Told(Unknown) + more >= Cardinality(UpTo(UnknownRuns, q))
               /\ Told(Unknown) + more
                     <= Cardinality(UpTo(UnknownRuns, q)) + groups - 1
<1>1. PICK p \in Nat, n \in Nat, k \in Nat :
           /\ p = Scanned /\ n = Len(stream) /\ k = index
           /\ p + Len(messages) = n /\ k <= Len(messages)
           /\ Len(messages) \in Nat
  BY Positions
<1>2. PICK q \in Nat : q = p + k
  BY <1>1
<1>3. /\ NMIs \subseteq Nat \ {0} /\ UnknownRuns \subseteq Nat \ {0}
      /\ Told(Unknown) \in Nat /\ groups \in Nat /\ p <= q /\ q <= n
      /\ DOMAIN stream = 1..n
  BY <1>1, <1>2, Positions DEF ErrorTypes
<1>4. PICK before, after : /\ before = Cardinality(UpTo(UnknownRuns, p))
                           /\ after = Cardinality(UpTo(UnknownRuns, q))
  OBVIOUS
<1>5. \A i \in (p + 1)..q : stream[i] \notin Heads
  <2> TAKE i \in (p + 1)..q
  <2>1. PICK j \in 1..k : i = p + j
    <3>1. i - p \in 1..k /\ i = p + (i - p)
      BY <1>1, <1>2
    <3> QED
      BY <3>1
  <2>2. j \in 1..Len(messages) /\ j \in 1..index
    BY <1>1, <2>1
  <2>3. messages[j] \notin Heads /\ messages[j] = stream[p + j]
    BY <1>1, <2>2 DEF ScanInv
  <2> QED
    BY <2>1, <2>3
<1>6. Told(UnexpectedNMI) = Cardinality(UpTo(NMIs, q))
  <2>1. "nmi" \in Heads
    BY HeadsList DEF ClassifierTypeOK
  <2>2. \A i \in (p + 1)..q : i \notin NMIs
    BY <1>5, <2>1 DEF NMIs
  <2>3. Cardinality(UpTo(NMIs, q)) = Cardinality(UpTo(NMIs, p))
    BY <1>1, <1>2, <1>3, <2>2, NonePassed
  <2> QED
    BY <1>1, <2>3 DEF ScanInv, AtCut, PastError, Tally
<1>7. \A i \in (p + 2)..q : ~IsExplained(i)
  <2> TAKE i \in (p + 2)..q
  <2>1. i \in (p + 1)..q /\ i - 1 \in (p + 1)..q
    BY <1>1, <1>2
  <2>2. stream[i] \notin Heads /\ stream[i - 1] \notin Heads
    BY <1>5, <2>1
  <2>3. ~Expected(stream[i - 1], stream[i])
    BY <2>2, FollowersAreNotHeads DEF ClassifierTypeOK
  <2> QED
    BY <2>2, <2>3 DEF IsExplained, Expected
<1>8. \A i \in (p + 1)..q : i \in UnknownRuns => i = p + 1 \/ (i = p + 2 /\ IsExplained(p + 1))
  <2> SUFFICES ASSUME NEW i \in (p + 1)..q, i \in UnknownRuns, i # p + 1
               PROVE  i = p + 2 /\ IsExplained(p + 1)
    OBVIOUS
  <2>1. i > 1 /\ i - 1 \in (p + 1)..q /\ (i # p + 2 => i - 1 \in (p + 2)..q)
    BY <1>1, <1>2
  <2>2. IsExplained(i - 1)
    BY <2>1 DEF UnknownRuns
  <2>3. i = p + 2
    BY <1>7, <2>1, <2>2
  <2>4. i - 1 = p + 1
    BY <1>1, <2>3
  <2> QED
    BY <2>2, <2>3, <2>4
<1>9. p + 1 \in UnknownRuns => ~IsExplained(p + 1)
  BY DEF UnknownRuns
<1>10. before \in Nat /\ (after = before \/ after = before + 1)
  <2>1. before \in Nat
    BY <1>1, <1>3, <1>4, PassedType
  <2>2. CASE \A i \in (p + 1)..q : i \notin UnknownRuns
    BY <1>1, <1>2, <1>3, <1>4, <2>1, <2>2, NonePassed
  <2>3. CASE \E i \in (p + 1)..q : i \in UnknownRuns
    <3>1. PICK i \in (p + 1)..q : i \in UnknownRuns
      BY <2>3
    <3>2. \A j \in (p + 1)..q : j \in UnknownRuns => j = i
      BY <1>8, <1>9, <3>1
    <3>3. OnlyOne(UnknownRuns, p, q, i)
      BY <3>1, <3>2 DEF OnlyOne
    <3>4. after = before + 1
      BY <1>1, <1>2, <1>3, <1>4, <3>3, OnePassed
    <3> QED
      BY <2>1, <3>4
  <2> QED
    BY <2>2, <2>3
<1>11. ASSUME k # 0, p + 1 \in UnknownRuns
       PROVE  after = before + 1
  <2>1. p + 1 \in (p + 1)..q
    BY <1>1, <1>2, <1>11
  <2>2. \A j \in (p + 1)..q : j \in UnknownRuns => j = p + 1
    BY <1>8, <1>9, <1>11
  <2>3. OnlyOne(UnknownRuns, p, q, p + 1)
    BY <1>11, <2>1, <2>2 DEF OnlyOne
  <2> QED
    BY <1>1, <1>2, <1>3, <1>4, <2>3, OnePassed
<1>12. k = 0 => after = before
  BY <1>1, <1>2, <1>4
<1>13. stream # <<>> => groups > 0
  BY <1>3 DEF ScanInv
<1>14. CASE AtCut
  <2>1. stream # <<>>
    <3>1. messages \in Seq(Messages) /\ messages # <<>>
      BY <1>14 DEF AtCut, ClassifierTypeOK
    <3>2. Len(messages) > 0
      BY <3>1, EmptySeq
    <3>3. n > 0
      BY <1>1, <3>2
    <3> QED
      BY <1>1, <3>3, EmptySeq
  <2>2. /\ before <= Told(Unknown)
        /\ Told(Unknown) <= before + IF p = 0 THEN 0 ELSE groups - 2
    BY <1>1, <1>4, <1>14 DEF AtCut, Tally
  <2>3. k # 0 /\ p = 0 => 1 \in UnknownRuns
    <3> SUFFICES ASSUME k # 0, p = 0 PROVE 1 \in UnknownRuns
      OBVIOUS
    <3>1. 1 \in (p + 1)..q /\ 1 \in 1..n
      BY <1>1, <1>2, <1>3
    <3>2. ~IsExplained(1)
      BY <1>5, <3>1 DEF IsExplained
    <3> QED
      BY <1>3, <3>1, <3>2 DEF UnknownRuns
  <2>4. k # 0 /\ p = 0 => after = before + 1
    BY <1>11, <2>3
  <2>5. LET more == IF k # 0 THEN 1 ELSE 0
        IN  /\ Told(Unknown) + more >= after
            /\ Told(Unknown) + more <= after + groups - 1
    BY <1>3, <1>10, <1>12, <1>13, <2>1, <2>2, <2>4
  <2> QED
    BY <1>1, <1>2, <1>4, <1>6, <2>5
<1>15. CASE PastError
  <2>1. /\ before <= Told(Unknown)
        /\ Told(Unknown) <= before + groups - 1
    BY <1>1, <1>4, <1>15 DEF PastError, Tally
  <2>2. k # 0 => p + 1 \in UnknownRuns
    <3> SUFFICES ASSUME k # 0 PROVE p + 1 \in UnknownRuns
      OBVIOUS
    <3>1. p + 1 \in (p + 1)..q /\ p + 1 \in 1..n /\ (p + 1) - 1 = p
      BY <1>1, <1>2, <1>3
    <3>2. messages # <<>> /\ 1 \in 1..Len(messages)
      <4>1. Len(messages) > 0
        BY <1>1
      <4> QED
        BY <1>1, <4>1, EmptySeq
    <3>3. messages[1] = stream[p + 1]
      BY <1>1, <3>2 DEF ScanInv
    <3>4. IsExplained(p) /\ ~Expected(stream[p], stream[p + 1])
      BY <1>1, <1>15, <3>2, <3>3 DEF PastError
    <3>5. ~IsExplained(p + 1)
      BY <1>5, <3>1, <3>4 DEF IsExplained, Expected
    <3> QED
      BY <1>3, <3>1, <3>4, <3>5 DEF UnknownRuns
  <2>3. LET more == IF k # 0 THEN 1 ELSE 0
        IN  /\ Told(Unknown) + more >= after
            /\ Told(Unknown) + more <= after + groups - 1
    BY <1>3, <1>10, <1>11, <1>12, <2>1, <2>2
  <2> QED
    BY <1>1, <1>2, <1>4, <1>6, <2>3
<1> QED
  BY <1>14, <1>15 DEF ScanInv

(* A match leaves only what it explains behind it.                           *)
LEMMA MatchScanned ==
    ASSUME ClassifierTypeOK, ScanInv, classifying, index < Len(messages),
           NEW count, Takes(ToMatch, count)
    PROVE  LET q == Scanned + index
           IN  /\ ToMatch \in Seq(Messages) /\ Len(ToMatch) = Len(messages) - index
               /\ \A k \in 1..Len(ToMatch) : ToMatch[k] = stream[q + k]
               /\ count \in 1..Len(ToMatch)
               /\ IsExplained(q + count)
               /\ Cardinality(UpTo(UnknownRuns, q + count)) =
                     Cardinality(UpTo(UnknownRuns, q))
               /\ Cardinality(UpTo(NMIs, q + count)) =
                     Cardinality(UpTo(NMIs, q)) + IF ToMatch[1] = "nmi" THEN 1 ELSE 0
<1>1. PICK p \in Nat, n \in Nat, k \in Nat, g \in Nat :
           /\ p = Scanned /\ n = Len(stream) /\ k = index /\ g = Len(messages)
           /\ p + g = n /\ k < g
  BY Positions
<1>2. PICK q \in Nat : q = p + k
  BY <1>1
<1>3. /\ NMIs \subseteq Nat \ {0} /\ UnknownRuns \subseteq Nat \ {0}
      /\ DOMAIN stream = 1..n
  BY <1>1, Positions
<1>4. PICK t : t = ToMatch
  OBVIOUS
<1>5. /\ t \in Seq(Messages) /\ Len(t) = g - k
      /\ \A i \in 1..(g - k) : t[i] = stream[q + i]
  <2>1. messages \in Seq(Messages)
    BY DEF ClassifierTypeOK
  <2>2. \A i \in (k + 1)..g : messages[i] \in Messages
    BY <1>1, <2>1, ElementOfSeq
  <2>3. /\ t \in Seq(Messages)
        /\ Len(t) = IF k + 1 <= g THEN g - (k + 1) + 1 ELSE 0
        /\ \A i \in 1..(g - (k + 1) + 1) : t[i] = messages[(k + 1) + i - 1]
    BY <1>1, <1>4, <2>2, SubSeqProperties DEF ToMatch
  <2>4. g - (k + 1) + 1 = g - k /\ k + 1 <= g
    BY <1>1
  <2>5. ASSUME NEW i \in 1..(g - k)
        PROVE  t[i] = stream[q + i]
    <3>1. (k + 1) + i - 1 = k + i /\ k + i \in 1..g /\ p + (k + i) = q + i
      BY <1>1, <1>2
    <3>2. t[i] = messages[k + i]
      BY <2>3, <2>4, <3>1
    <3>3. messages[k + i] = stream[p + (k + i)]
      BY <1>1, <3>1 DEF ScanInv
    <3> QED
      BY <3>1, <3>2, <3>3
  <2> QED
    BY <2>3, <2>4, <2>5
<1>6. count \in 1..(g - k)
  BY <1>4, <1>5 DEF Takes
<1>7. \A i \in (q + 1)..(q + count) : IsExplained(i)
  <2> TAKE i \in (q + 1)..(q + count)
  <2>1. PICK j \in 1..count : j = i - q
    BY <1>2, <1>6
  <2>2. /\ i = q + j /\ j \in 1..(g - k)
        /\ j > 1 => j - 1 \in 1..(g - k) /\ q + (j - 1) = i - 1 /\ i > 1
    BY <1>1, <1>2, <1>6, <2>1
  <2>3. t[j] = stream[i] /\ (j > 1 => t[j - 1] = stream[i - 1])
    BY <1>5, <2>2
  <2>4. t[j] \in Heads \/ (j > 1 /\ Expected(t[j - 1], t[j]))
    BY <1>4, <2>1 DEF Takes
  <2> QED
    BY <2>2, <2>3, <2>4 DEF IsExplained, Expected
<1>8. IsExplained(q + count)
  BY <1>2, <1>6, <1>7
<1>9. Cardinality(UpTo(UnknownRuns, q + count)) = Cardinality(UpTo(UnknownRuns, q))
  <2>1. \A i \in (q + 1)..(q + count) : i \notin UnknownRuns
    BY <1>7 DEF UnknownRuns
  <2>2. q + count \in Nat /\ q <= q + count
    BY <1>1, <1>2, <1>6
  <2> QED
    BY <1>2, <1>3, <2>1, <2>2, NonePassed
<1>10. Cardinality(UpTo(NMIs, q + count)) =
          Cardinality(UpTo(NMIs, q)) + IF t[1] = "nmi" THEN 1 ELSE 0
  <2>1. q + count \in Nat /\ q <= q + count /\ q + count <= n /\ q + 1 \in (q + 1)..(q + count)
        /\ q + 1 \in 1..n
    BY <1>1, <1>2, <1>6
  <2>2. t[1] = stream[q + 1]
    BY <1>1, <1>5
  <2>3. \A i \in (q + 1)..(q + count) : i \in NMIs => i = q + 1
    <3> SUFFICES ASSUME NEW i \in (q + 1)..(q + count), i # q + 1
                 PROVE  stream[i] # "nmi"
      BY DEF NMIs
    <3>1. PICK j : j = i - q
      OBVIOUS
    <3>2. j \in 2..count /\ j \in 1..(g - k) /\ q + j = i
      BY <1>2, <1>6, <3>1
    <3>3. t[j] # "nmi"
      BY <1>4, <3>2 DEF Takes
    <3>4. t[j] = stream[q + j]
      BY <1>5, <3>2
    <3> QED
      BY <3>2, <3>3, <3>4
  <2>4. q + 1 \in NMIs <=> t[1] = "nmi"
    BY <1>3, <2>1, <2>2 DEF NMIs
  <2>5. Cardinality(UpTo(NMIs, q)) \in Nat
    BY <1>2, <1>3, PassedType
  <2>6. CASE t[1] = "nmi"
    <3>1. OnlyOne(NMIs, q, q + count, q + 1)
      BY <2>1, <2>3, <2>4, <2>6 DEF OnlyOne
    <3>2. Cardinality(UpTo(NMIs, q + count)) = Cardinality(UpTo(NMIs, q)) + 1
      BY <1>2, <1>3, <2>1, <3>1, OnePassed
    <3> QED
      BY <2>6, <3>2
  <2>7. CASE t[1] # "nmi"
    <3>1. \A i \in (q + 1)..(q + count) : i \notin NMIs
      BY <2>3, <2>4, <2>7
    <3>2. Cardinality(UpTo(NMIs, q + count)) = Cardinality(UpTo(NMIs, q))
      BY <1>2, <1>3, <2>1, <3>1, NonePassed
    <3> QED
      BY <2>5, <2>7, <3>2
  <2> QED
    BY <2>6, <2>7
<1> QED
  BY <1>1, <1>2, <1>4, <1>5, <1>6, <1>8, <1>9, <1>10

-----------------------------------------------------------------------------
(* The classifier begins with nothing scanned and nothing counted.           *)
LEMMA InitScan == ClassifierInit => ClassifierTypeOK /\ ScanInv
<1> SUFFICES ASSUME ClassifierInit PROVE ClassifierTypeOK /\ ScanInv
  OBVIOUS
<1>1. Len(<<>>) = 0 /\ \A set : <<>> \in Seq(set)
  BY EmptySeq
<1>2. /\ messages = <<>> /\ stream = <<>> /\ types = <<>> /\ index = 0 /\ groups = 0
      /\ errors = [type \in ErrorTypes |-> 0]
      /\ ~classifying /\ classifying \in BOOLEAN /\ hypervisor \in BOOLEAN
  BY DEF ClassifierInit
<1>3. ClassifierTypeOK
  <2>1. errors \in [ErrorTypes -> Nat]
    BY <1>2
  <2>2. index \in 0..Len(messages)
    BY <1>1, <1>2
  <2> QED
    BY <1>1, <1>2, <2>1, <2>2 DEF ClassifierTypeOK
<1>4. Scanned = 0
  BY <1>1, <1>2 DEF Scanned
<1>5. Told(Unknown) = 0 /\ Told(UnexpectedNMI) = 0
  <2>1. errors[Unknown] = 0 /\ errors[UnexpectedNMI] = 0
    BY <1>2 DEF ErrorTypes
  <2> QED
    BY <1>2, <2>1, CountEmpty DEF Told
<1>6. UpTo(NMIs, 0) = {} /\ UpTo(UnknownRuns, 0) = {}
  <2>1. DOMAIN stream = {}
    BY <1>2
  <2> QED
    BY <2>1 DEF UpTo, NMIs, UnknownRuns
<1>7. Tally(Scanned, 0)
  BY <1>4, <1>5, <1>6, FS_EmptySet DEF Tally
<1>8. /\ Len(messages) = 0 /\ Len(stream) = 0
      /\ 1..0 = {}
  BY <1>1, <1>2
<1> QED
  BY <1>2, <1>3, <1>7, <1>8 DEF ScanInv

(* What the stream holds does not change while a group is scanned.           *)
LEMMA StreamStays ==
    ASSUME UNCHANGED <<hypervisor, stream>>
    PROVE  /\ NMIs' = NMIs /\ UnknownRuns' = UnknownRuns /\ Heads' = Heads
           /\ \A i : IsExplained(i)' <=> IsExplained(i)
           /\ \A a, b : Expected(a, b)' <=> Expected(a, b)
<1>1. hypervisor' = hypervisor /\ stream' = stream
  OBVIOUS
<1>2. Heads' = Heads
  BY <1>1 DEF Heads
<1>3. \A i : IsExplained(i)' <=> IsExplained(i)
  BY <1>1, <1>2 DEF IsExplained
<1>4. UnknownRuns' = UnknownRuns
  BY <1>1, <1>3 DEF UnknownRuns
<1>5. \A a, b : Expected(a, b)' <=> Expected(a, b)
  BY <1>1 DEF Expected
<1> QED
  BY <1>1, <1>2, <1>3, <1>4, <1>5 DEF NMIs

(* A new group begins at a cut, which has added nothing yet.                 *)
LEMMA StartScans == ClassifierTypeOK /\ ScanInv /\ Start => ClassifierTypeOK' /\ ScanInv'
<1> SUFFICES ASSUME ClassifierTypeOK, ScanInv, Start
             PROVE  ClassifierTypeOK' /\ ScanInv'
  OBVIOUS
<1>0. PICK n \in 1..(MaxLength - Len(stream)) : \E group \in [1..n -> Messages] :
           messages' = group /\ stream' = stream \o group
  BY DEF Start
<1>1. messages' \in [1..n -> Messages] /\ stream' = stream \o messages'
  BY <1>0
<1>2. /\ ~classifying /\ classifying' = TRUE /\ index' = 0 /\ types' = <<>>
      /\ groups' = groups + 1 /\ hypervisor' = hypervisor /\ errors' = errors
  BY DEF Start
<1>3. /\ messages = <<>> /\ types = <<>>
      /\ Tally(Scanned, IF groups = 0 THEN 0 ELSE groups - 1)
      /\ groups = 0 <=> stream = <<>>
  BY <1>2 DEF ScanInv
<1>4. PICK p \in Nat : p = Len(stream) /\ DOMAIN stream = 1..p
  BY Positions
<1>5. Scanned = p
  <2>1. Len(messages) = 0
    BY <1>3, EmptySeq
  <2> QED
    BY <1>4, <2>1 DEF Scanned
<1>6. n \in Nat \ {0}
  BY <1>0, <1>4, MaxLengthAssumption
<1>7. /\ messages' \in Seq(Messages) /\ Len(messages') = n
  BY <1>1, <1>6
<1>8. /\ stream' \in Seq(Messages) /\ Len(stream') = p + n
      /\ \A i \in 1..(p + n) : stream'[i] = IF i <= p THEN stream[i] ELSE messages'[i - p]
  BY <1>1, <1>4, <1>7, ConcatProperties DEF ClassifierTypeOK
<1>9. DOMAIN stream' = 1..(p + n)
  BY <1>8, LenProperties
<1>10. Scanned' = p
  BY <1>4, <1>6, <1>7, <1>8 DEF Scanned
<1>11. ClassifierTypeOK'
  BY <1>2, <1>7, <1>8 DEF ClassifierTypeOK
<1>12. /\ UpTo(NMIs, p)' = UpTo(NMIs, p)
       /\ UpTo(UnknownRuns, p)' = UpTo(UnknownRuns, p)
  <2>1. \A i \in 1..p : stream'[i] = stream[i]
    BY <1>6, <1>8
  <2>2. Heads' = Heads
    BY <1>2 DEF Heads
  <2>3. \A i \in 1..p : IsExplained(i)' <=> IsExplained(i)
    <3> TAKE i \in 1..p
    <3>1. stream'[i] = stream[i] /\ (i > 1 => stream'[i - 1] = stream[i - 1])
      BY <2>1
    <3> QED
      BY <1>2, <2>2, <3>1 DEF IsExplained
  <2>4. \A i : i \in NMIs' /\ i <= p <=> i \in NMIs /\ i <= p
    BY <1>4, <1>6, <1>9, <2>1 DEF NMIs
  <2>5. \A i : i \in UnknownRuns' /\ i <= p <=> i \in UnknownRuns /\ i <= p
    <3>1. ASSUME NEW i, i <= p
          PROVE  i \in UnknownRuns' <=> i \in UnknownRuns
      <4>1. CASE i \notin 1..p
        BY <1>4, <1>6, <1>9, <3>1, <4>1 DEF UnknownRuns
      <4>2. CASE i \in 1..p
        <5>1. /\ i \in 1..(p + n)
              /\ i > 1 => i - 1 \in 1..p
          BY <1>6, <4>2
        <5>2. /\ IsExplained(i)' <=> IsExplained(i)
              /\ i > 1 => (IsExplained(i - 1)' <=> IsExplained(i - 1))
          BY <2>3, <4>2, <5>1
        <5> QED
          BY <1>4, <1>9, <4>2, <5>1, <5>2 DEF UnknownRuns
      <4> QED
        BY <4>1, <4>2
    <3> QED
      BY <3>1
  <2> QED
    BY <2>4, <2>5 DEF UpTo
<1>13. \A type \in ErrorTypes : Told(type)' = Told(type)
  BY <1>2, <1>3 DEF Told
<1>14. /\ Told(Unknown) \in Nat
       /\ Cardinality(UpTo(UnknownRuns, p)) \in Nat /\ groups \in Nat
       /\ UnexpectedNMI \in ErrorTypes /\ Unknown \in ErrorTypes
  BY <1>4, Positions, PassedType DEF ErrorTypes
<1>15. /\ Told(UnexpectedNMI) = Cardinality(UpTo(NMIs, p))
       /\ Told(Unknown) >= Cardinality(UpTo(UnknownRuns, p))
       /\ Told(Unknown) <= Cardinality(UpTo(UnknownRuns, p))
                              + IF groups = 0 THEN 0 ELSE groups - 1
  BY <1>3, <1>5 DEF Tally
<1>16. groups = 0 => p = 0
  BY <1>3, <1>4, EmptySeq
<1>17. p = 0 => groups = 0
  <2>1. stream \in Seq(Messages)
    BY DEF ClassifierTypeOK
  <2> QED
    BY <1>3, <1>4, <2>1, EmptySeq
<1>18. AtCut'
  <2>1. messages' # <<>>
    BY <1>6, <1>7, EmptySeq
  <2>2. /\ Told(UnexpectedNMI)' = Told(UnexpectedNMI)
        /\ Told(Unknown)' = Told(Unknown)
        /\ UpTo(NMIs, Scanned)' = UpTo(NMIs, p)
        /\ UpTo(UnknownRuns, Scanned)' = UpTo(UnknownRuns, p)
    BY <1>10, <1>12, <1>13, <1>14 DEF UpTo
  <2>3. /\ Told(Unknown) <= Cardinality(UpTo(UnknownRuns, p))
                              + IF p = 0 THEN 0 ELSE (groups + 1) - 2
    BY <1>14, <1>15, <1>16, <1>17
  <2>4. Tally(Scanned, IF Scanned = 0 THEN 0 ELSE groups - 2)'
    BY <1>2, <1>10, <1>15, <2>2, <2>3 DEF Tally
  <2> QED
    BY <1>2, <2>1, <2>4 DEF AtCut
<1>19. \A k \in 1..Len(messages') : messages'[k] = stream'[Scanned' + k]
  <2> TAKE k \in 1..Len(messages')
  <2>1. p + k \in 1..(p + n) /\ ~(p + k <= p) /\ (p + k) - p = k
    BY <1>6, <1>7
  <2> QED
    BY <1>8, <1>10, <2>1
<1>20. groups' # 0 /\ stream' # <<>> /\ Len(messages') <= Len(stream')
  <2>1. p + n # 0 /\ n <= p + n
    BY <1>6
  <2> QED
    BY <1>2, <1>7, <1>8, <1>14, <2>1, EmptySeq
<1>21. \A k \in 1..index' : messages'[k] \notin Heads'
  BY <1>2
<1> QED
  BY <1>2, <1>11, <1>18, <1>19, <1>20, <1>21 DEF ScanInv

(* A matched error is past, with the unknown error that it ends.             *)
LEMMA MessageMatchesScans ==
    ClassifierTypeOK /\ ScanInv /\ MessageMatches => ClassifierTypeOK' /\ ScanInv'
<1> SUFFICES ASSUME ClassifierTypeOK, ScanInv, MessageMatches
             PROVE  ClassifierTypeOK' /\ ScanInv'
  OBVIOUS
<1>1. /\ classifying /\ index < Len(messages) /\ Matching # {}
      /\ index' = 0 /\ hypervisor' = hypervisor /\ classifying' = classifying
      /\ errors' = errors /\ stream' = stream /\ groups' = groups
  BY DEF MessageMatches
<1>2. /\ hypervisor \in BOOLEAN /\ types \in Seq(ErrorTypes)
      /\ stream \in Seq(Messages) /\ classifying \in BOOLEAN
      /\ errors \in [ErrorTypes -> Nat] /\ groups \in Nat
  BY DEF ClassifierTypeOK
<1>3. PICK i \in DOMAIN Matchers :
           /\ Match(Matchers[i], ToMatch) # 0
           /\ types' = types \o MatchedTypes(Matchers[i]) \o ConsumeUnknown
           /\ messages' = SubSeq(ToMatch, Match(Matchers[i], ToMatch) + 1, Len(ToMatch))
  BY <1>1, <1>2, FirstMatches DEF MessageMatches
<1>4. PICK p \in Nat, n \in Nat, k \in Nat, g \in Nat :
           /\ p = Scanned /\ n = Len(stream) /\ k = index /\ g = Len(messages)
           /\ p + g = n /\ k < g
  BY <1>1, Positions
<1>5. PICK q \in Nat : q = p + k
  BY <1>4
<1>6. ToMatch \in Seq(Messages) /\ ToMatch # <<>>
  <2>1. messages \in Seq(Messages)
    BY DEF ClassifierTypeOK
  <2>2. \A j \in (k + 1)..g : messages[j] \in Messages
    BY <1>4, <2>1, ElementOfSeq
  <2>3. /\ ToMatch \in Seq(Messages)
        /\ Len(ToMatch) = IF k + 1 <= g THEN g - (k + 1) + 1 ELSE 0
    BY <1>4, <2>2, SubSeqProperties DEF ToMatch
  <2>4. Len(ToMatch) # 0
    BY <1>4, <2>3
  <2> QED
    BY <2>3, <2>4, EmptySeq
<1>7. PICK t, count : t = ToMatch /\ count = Match(Matchers[i], ToMatch)
  OBVIOUS
<1>8. /\ Takes(t, count)
      /\ MatchedTypes(Matchers[i]) = IF t[1] = "nmi" THEN <<UnexpectedNMI>> ELSE <<>>
  BY <1>2, <1>3, <1>6, <1>7, MatcherTakes
<1>9. /\ t \in Seq(Messages) /\ Len(t) = g - k /\ count \in 1..(g - k)
      /\ \A j \in 1..(g - k) : t[j] = stream[q + j]
      /\ IsExplained(q + count)
      /\ Cardinality(UpTo(UnknownRuns, q + count)) = Cardinality(UpTo(UnknownRuns, q))
      /\ Cardinality(UpTo(NMIs, q + count)) =
            Cardinality(UpTo(NMIs, q)) + IF t[1] = "nmi" THEN 1 ELSE 0
  BY <1>1, <1>4, <1>5, <1>7, <1>8, MatchScanned
<1>10. /\ messages' \in Seq(Messages) /\ Len(messages') = (g - k) - count
       /\ \A j \in 1..((g - k) - count) : messages'[j] = t[count + j]
  <2>0. count + 1 \in Nat /\ g - k \in Nat /\ count <= g - k
    BY <1>4, <1>9
  <2>1. PICK lo \in Nat, hi \in Nat : lo = count + 1 /\ hi = g - k /\ count <= hi
    BY <2>0
  <2>2. \A j \in lo..hi : t[j] \in Messages
    BY <1>9, <2>1, ElementOfSeq
  <2>3. messages' = SubSeq(t, lo, hi)
    BY <1>3, <1>7, <1>9, <2>1
  <2>4. /\ messages' \in Seq(Messages)
        /\ Len(messages') = IF lo <= hi THEN hi - lo + 1 ELSE 0
        /\ \A j \in 1..(hi - lo + 1) : messages'[j] = t[lo + j - 1]
    BY <2>1, <2>2, <2>3, SubSeqProperties
  <2>5. Len(messages') = (g - k) - count
    BY <1>4, <1>9, <2>1, <2>4
  <2>6. ASSUME NEW j \in 1..((g - k) - count)
        PROVE  messages'[j] = t[count + j]
    <3>1. j \in 1..(hi - lo + 1) /\ lo + j - 1 = count + j
      BY <1>4, <1>9, <2>1
    <3> QED
      BY <2>4, <3>1
  <2> QED
    BY <2>4, <2>5, <2>6
<1>11. Scanned' = q + count /\ q + count \in Nat /\ q + count > 0
  BY <1>1, <1>4, <1>5, <1>9, <1>10 DEF Scanned
<1>12. PICK known, rest : known = MatchedTypes(Matchers[i]) /\ rest = ConsumeUnknown
  OBVIOUS
<1>13. /\ known \in {<<>>, <<UnexpectedNMI>>} /\ rest \in {<<>>, <<Unknown>>}
       /\ known = <<>> <=> t[1] # "nmi"
       /\ rest = <<>> <=> k = 0
  BY <1>4, <1>8, <1>12 DEF ConsumeUnknown
<1>14. /\ types' \in Seq(ErrorTypes)
       /\ CountOf(types', UnexpectedNMI) =
             CountOf(types, UnexpectedNMI) + IF t[1] = "nmi" THEN 1 ELSE 0
       /\ CountOf(types', Unknown) = CountOf(types, Unknown) + IF k # 0 THEN 1 ELSE 0
  BY <1>2, <1>3, <1>12, <1>13, FoundCounted
<1>15. /\ Told(UnexpectedNMI) = Cardinality(UpTo(NMIs, q))
       /\ Told(Unknown) + (IF k # 0 THEN 1 ELSE 0) >= Cardinality(UpTo(UnknownRuns, q))
       /\ Told(Unknown) + (IF k # 0 THEN 1 ELSE 0)
             <= Cardinality(UpTo(UnknownRuns, q)) + groups - 1
  BY <1>1, <1>4, <1>5, UnknownConsumed
<1>16. /\ Told(UnexpectedNMI)' = Told(UnexpectedNMI) + IF t[1] = "nmi" THEN 1 ELSE 0
       /\ Told(Unknown)' = Told(Unknown) + IF k # 0 THEN 1 ELSE 0
  <2>1. /\ Unknown \in ErrorTypes /\ UnexpectedNMI \in ErrorTypes
    BY DEF ErrorTypes
  <2>2. /\ errors[Unknown] \in Nat /\ errors[UnexpectedNMI] \in Nat
        /\ CountOf(types, Unknown) \in Nat /\ CountOf(types, UnexpectedNMI) \in Nat
    BY <1>2, <2>1, CountOneMore
  <2> QED
    BY <1>1, <1>14, <2>2 DEF Told
<1>17. /\ NMIs' = NMIs /\ UnknownRuns' = UnknownRuns
       /\ \A j : IsExplained(j)' <=> IsExplained(j)
       /\ \A a, b : Expected(a, b)' <=> Expected(a, b)
  BY <1>1, StreamStays
<1>18. Tally(Scanned, groups - 1)'
  <2>1. /\ UpTo(NMIs, Scanned)' = UpTo(NMIs, q + count)
        /\ UpTo(UnknownRuns, Scanned)' = UpTo(UnknownRuns, q + count)
    BY <1>11, <1>17 DEF UpTo
  <2> QED
    BY <1>1, <1>9, <1>15, <1>16, <2>1 DEF Tally
<1>19. IsExplained(Scanned)'
  <2>1. IsExplained(q + count)'
    BY <1>9, <1>17
  <2> QED
    BY <1>11, <2>1 DEF IsExplained
<1>20. messages' # <<>> => ~Expected(stream[Scanned], messages[1])'
  <2> SUFFICES ASSUME messages' # <<>>
               PROVE  ~Expected(stream[Scanned], messages[1])'
    OBVIOUS
  <2>1. Len(messages') # 0
    BY <1>10, EmptySeq
  <2>2. count < g - k /\ 1 \in 1..((g - k) - count) /\ count \in 1..(g - k)
    BY <1>4, <1>9, <1>10, <2>1
  <2>3. messages'[1] = t[count + 1] /\ t[count] = stream[q + count]
    BY <1>9, <1>10, <2>2
  <2>4. ~Expected(t[count], t[count + 1])
    BY <1>8, <1>9, <2>2 DEF Takes
  <2>5. ~Expected(stream[q + count], messages'[1])
    BY <2>3, <2>4
  <2> QED
    BY <1>1, <1>11, <2>5 DEF Expected
<1>21. PastError'
  BY <1>11, <1>18, <1>19, <1>20 DEF PastError
<1>22. \A j \in 1..Len(messages') : messages'[j] = stream'[Scanned' + j]
  <2> TAKE j \in 1..Len(messages')
  <2>1. /\ j \in 1..((g - k) - count) /\ count + j \in 1..(g - k)
        /\ q + (count + j) = (q + count) + j
    BY <1>4, <1>5, <1>9, <1>10
  <2> QED
    BY <1>1, <1>9, <1>10, <1>11, <2>1
<1>23. ClassifierTypeOK'
  <2>1. index' \in 0..Len(messages')
    BY <1>1, <1>4, <1>9, <1>10
  <2> QED
    BY <1>1, <1>2, <1>10, <1>14, <2>1 DEF ClassifierTypeOK
<1>24. Len(messages') <= Len(stream')
  BY <1>1, <1>4, <1>9, <1>10
<1>25. (groups = 0 <=> stream = <<>>)'
  BY <1>1 DEF ScanInv
<1>26. \A j \in 1..index' : messages'[j] \notin Heads'
  BY <1>1
<1> QED
  BY <1>1, <1>21, <1>22, <1>23, <1>24, <1>25, <1>26 DEF ScanInv

(* A message that nothing matches is not the head of an error.               *)
LEMMA NothingMatchesScans ==
    ClassifierTypeOK /\ ScanInv /\ NothingMatches => ClassifierTypeOK' /\ ScanInv'
<1> SUFFICES ASSUME ClassifierTypeOK, ScanInv, NothingMatches
             PROVE  ClassifierTypeOK' /\ ScanInv'
  OBVIOUS
<1>1. /\ classifying /\ index < Len(messages) /\ Matching = {} /\ index' = index + 1
      /\ hypervisor' = hypervisor /\ classifying' = classifying /\ types' = types
      /\ errors' = errors /\ stream' = stream /\ groups' = groups /\ messages' = messages
  BY DEF NothingMatches
<1>2. PICK k \in Nat, g \in Nat : k = index /\ g = Len(messages) /\ k < g
  BY <1>1, Positions
<1>3. /\ ToMatch \in Seq(Messages) /\ ToMatch # <<>> /\ ToMatch[1] = messages[k + 1]
  <2>1. messages \in Seq(Messages)
    BY DEF ClassifierTypeOK
  <2>2. \A j \in (k + 1)..g : messages[j] \in Messages
    BY <1>2, <2>1, ElementOfSeq
  <2>3. /\ ToMatch \in Seq(Messages)
        /\ Len(ToMatch) = IF k + 1 <= g THEN g - (k + 1) + 1 ELSE 0
        /\ \A j \in 1..(g - (k + 1) + 1) : ToMatch[j] = messages[(k + 1) + j - 1]
    BY <1>2, <2>2, SubSeqProperties DEF ToMatch
  <2>4. Len(ToMatch) # 0 /\ 1 \in 1..(g - (k + 1) + 1) /\ (k + 1) + 1 - 1 = k + 1
    BY <1>2, <2>3
  <2> QED
    BY <2>3, <2>4, EmptySeq
<1>4. messages[k + 1] \notin Heads
  <2>1. ~\E i \in DOMAIN Matchers : Match(Matchers[i], ToMatch) # 0
    BY <1>1 DEF Matching
  <2> QED
    BY <1>3, <2>1, HeadsMatch DEF ClassifierTypeOK
<1>5. \A j \in 1..(k + 1) : messages[j] \notin Heads
  <2> TAKE j \in 1..(k + 1)
  <2>1. j \in 1..k \/ j = k + 1
    BY <1>2
  <2> QED
    BY <1>2, <1>4, <2>1 DEF ScanInv
<1>6. /\ NMIs' = NMIs /\ UnknownRuns' = UnknownRuns /\ Heads' = Heads
      /\ \A i : IsExplained(i)' <=> IsExplained(i)
  BY <1>1, StreamStays
<1>7. Scanned' = Scanned
  BY <1>1 DEF Scanned
<1>8. ClassifierTypeOK'
  <2>1. index' \in 0..Len(messages')
    BY <1>1, <1>2
  <2> QED
    BY <1>1, <2>1 DEF ClassifierTypeOK
<1>9. /\ Told(Unknown)' = Told(Unknown) /\ Told(UnexpectedNMI)' = Told(UnexpectedNMI)
      /\ UpTo(NMIs, Scanned)' = UpTo(NMIs, Scanned)
      /\ UpTo(UnknownRuns, Scanned)' = UpTo(UnknownRuns, Scanned)
  BY <1>1, <1>6, <1>7 DEF Told, UpTo
<1>10. AtCut => AtCut'
  BY <1>1, <1>7, <1>9 DEF AtCut, Tally
<1>11. PastError => PastError'
  <2> SUFFICES ASSUME PastError PROVE PastError'
    OBVIOUS
  <2>1. IsExplained(Scanned)'
    BY <1>1, <1>6, <1>7 DEF PastError, IsExplained
  <2>2. messages' # <<>> => ~Expected(stream[Scanned], messages[1])'
    BY <1>1, <1>7 DEF PastError, Expected
  <2>3. Tally(Scanned, groups - 1)'
    BY <1>1, <1>9 DEF PastError, Tally
  <2> QED
    BY <1>7, <2>1, <2>2, <2>3 DEF PastError
<1>12. \A j \in 1..index' : messages'[j] \notin Heads'
  BY <1>1, <1>2, <1>5, <1>6
<1>13. \A j \in 1..Len(messages') : messages'[j] = stream'[Scanned' + j]
  BY <1>1, <1>7 DEF ScanInv
<1>14. (AtCut \/ PastError)'
  BY <1>1, <1>10, <1>11 DEF ScanInv
<1>15. /\ Len(messages') <= Len(stream')
       /\ groups' = 0 <=> stream' = <<>>
  BY <1>1 DEF ScanInv
<1> QED
  BY <1>1, <1>8, <1>12, <1>13, <1>14, <1>15 DEF ScanInv

(* What is left when the group ends is one more unknown error.               *)
LEMMA ReturnScans == ClassifierTypeOK /\ ScanInv /\ Return => ClassifierTypeOK' /\ ScanInv'
<1> SUFFICES ASSUME ClassifierTypeOK, ScanInv, Return
             PROVE  ClassifierTypeOK' /\ ScanInv'
  OBVIOUS
<1>1. /\ classifying /\ index = Len(messages) /\ classifying' = FALSE
      /\ messages' = <<>> /\ index' = 0 /\ types' = <<>>
      /\ hypervisor' = hypervisor /\ stream' = stream /\ groups' = groups
      /\ errors' = [type \in ErrorTypes |->
                       errors[type] + CountOf(types \o ConsumeUnknown, type)]
  BY DEF Return, CountOf
<1>2. /\ types \in Seq(ErrorTypes) /\ stream \in Seq(Messages)
      /\ errors \in [ErrorTypes -> Nat] /\ groups \in Nat /\ hypervisor \in BOOLEAN
  BY DEF ClassifierTypeOK
<1>3. PICK p \in Nat, n \in Nat, k \in Nat :
           p = Scanned /\ n = Len(stream) /\ k = index /\ p + k = n
  BY <1>1, Positions
<1>4. PICK found : found = types \o ConsumeUnknown
  OBVIOUS
<1>5. /\ found \in Seq(ErrorTypes)
      /\ CountOf(found, UnexpectedNMI) = CountOf(types, UnexpectedNMI)
      /\ CountOf(found, Unknown) = CountOf(types, Unknown) + IF k # 0 THEN 1 ELSE 0
  <2>1. PICK known, rest : known = <<>> /\ rest = ConsumeUnknown
    OBVIOUS
  <2>2. /\ known \in {<<>>, <<UnexpectedNMI>>} /\ rest \in {<<>>, <<Unknown>>}
        /\ rest = <<>> <=> k = 0
    BY <1>3, <2>1 DEF ConsumeUnknown
  <2>3. types \o known = types
    BY <1>2, <2>1, ConcatEmptySeq
  <2>4. found = types \o known \o rest
    BY <1>4, <2>1, <2>3
  <2>5. CountOf(types, UnexpectedNMI) \in Nat
    BY <1>2, CountOneMore DEF ErrorTypes
  <2>6. /\ found \in Seq(ErrorTypes)
        /\ CountOf(found, UnexpectedNMI) =
              CountOf(types, UnexpectedNMI) + IF known = <<>> THEN 0 ELSE 1
        /\ CountOf(found, Unknown) = CountOf(types, Unknown) + IF rest = <<>> THEN 0 ELSE 1
    BY <1>2, <2>2, <2>4, FoundCounted
  <2>7. CountOf(found, UnexpectedNMI) = CountOf(types, UnexpectedNMI)
    BY <2>1, <2>5, <2>6
  <2>8. CountOf(found, Unknown) = CountOf(types, Unknown) + IF k # 0 THEN 1 ELSE 0
    BY <2>2, <2>6
  <2> QED
    BY <2>6, <2>7, <2>8
<1>6. /\ Unknown \in ErrorTypes /\ UnexpectedNMI \in ErrorTypes
  BY DEF ErrorTypes
<1>7. \A type \in ErrorTypes : CountOf(found, type) \in Nat /\ errors[type] \in Nat
  BY <1>2, <1>5, CountOneMore
<1>8. errors' \in [ErrorTypes -> Nat]
  BY <1>1, <1>4, <1>7
<1>9. /\ errors'[Unknown] = Told(Unknown) + IF k # 0 THEN 1 ELSE 0
      /\ errors'[UnexpectedNMI] = Told(UnexpectedNMI)
  <2>1. CountOf(types, Unknown) \in Nat /\ CountOf(types, UnexpectedNMI) \in Nat
    BY <1>2, <1>6, CountOneMore
  <2>2. /\ errors'[Unknown] = errors[Unknown] + CountOf(found, Unknown)
        /\ errors'[UnexpectedNMI] = errors[UnexpectedNMI] + CountOf(found, UnexpectedNMI)
    BY <1>1, <1>4, <1>6
  <2>3. errors[Unknown] \in Nat /\ errors[UnexpectedNMI] \in Nat
    BY <1>6, <1>7
  <2>4. errors'[UnexpectedNMI] = Told(UnexpectedNMI)
    BY <1>5, <2>2 DEF Told
  <2>5. errors'[Unknown] = Told(Unknown) + IF k # 0 THEN 1 ELSE 0
    BY <1>3, <1>5, <2>1, <2>2, <2>3 DEF Told
  <2> QED
    BY <2>4, <2>5
<1>10. /\ Told(UnexpectedNMI) = Cardinality(UpTo(NMIs, n))
       /\ Told(Unknown) + (IF k # 0 THEN 1 ELSE 0) >= Cardinality(UpTo(UnknownRuns, n))
       /\ Told(Unknown) + (IF k # 0 THEN 1 ELSE 0)
             <= Cardinality(UpTo(UnknownRuns, n)) + groups - 1
  BY <1>1, <1>3, UnknownConsumed
<1>11. Len(messages') = 0 /\ messages' \in Seq(Messages) /\ types' \in Seq(ErrorTypes)
  BY <1>1, EmptySeq
<1>12. Scanned' = n
  BY <1>1, <1>3, <1>11 DEF Scanned
<1>13. Told(Unknown)' = errors'[Unknown] /\ Told(UnexpectedNMI)' = errors'[UnexpectedNMI]
  <2>1. errors'[Unknown] \in Nat /\ errors'[UnexpectedNMI] \in Nat
    BY <1>6, <1>8
  <2>2. CountOf(types', Unknown) = 0 /\ CountOf(types', UnexpectedNMI) = 0
    BY <1>1, CountEmpty
  <2> QED
    BY <2>1, <2>2 DEF Told
<1>14. NMIs' = NMIs /\ UnknownRuns' = UnknownRuns
  BY <1>1, StreamStays
<1>15. groups # 0
  <2>1. stream # <<>>
    <3>1. stream = <<>> => n = 0 /\ p = 0 /\ k = 0
      BY <1>3, EmptySeq
    <3>2. messages \in Seq(Messages)
      BY DEF ClassifierTypeOK
    <3>3. Len(messages) = 0 => messages = <<>>
      BY <3>2, EmptySeq
    <3> QED
      BY <1>1, <1>3, <3>1, <3>3 DEF ScanInv, AtCut, PastError
  <2> QED
    BY <2>1 DEF ScanInv
<1>16. Tally(Scanned, IF groups = 0 THEN 0 ELSE groups - 1)'
  <2>1. /\ UpTo(NMIs, Scanned)' = UpTo(NMIs, n)
        /\ UpTo(UnknownRuns, Scanned)' = UpTo(UnknownRuns, n)
    BY <1>12, <1>14 DEF UpTo
  <2> QED
    BY <1>1, <1>9, <1>10, <1>13, <1>15, <2>1 DEF Tally
<1>17. ClassifierTypeOK'
  <2>1. index' \in 0..Len(messages')
    BY <1>1, <1>11
  <2> QED
    BY <1>1, <1>2, <1>8, <1>11, <2>1 DEF ClassifierTypeOK
<1>18. Len(messages') <= Len(stream') /\ 1..Len(messages') = {} /\ 1..index' = {}
  BY <1>1, <1>3, <1>11
<1>19. groups' = 0 <=> stream' = <<>>
  BY <1>1 DEF ScanInv
<1> QED
  BY <1>1, <1>16, <1>17, <1>18, <1>19 DEF ScanInv

(* Every step of the classifier keeps the tally.                             *)
LEMMA ScanNext ==
    ClassifierTypeOK /\ ScanInv /\ [ClassifierNext]_classifierVars
        => ClassifierTypeOK' /\ ScanInv'
<1> SUFFICES ASSUME ClassifierTypeOK, ScanInv, [ClassifierNext]_classifierVars
             PROVE  ClassifierTypeOK' /\ ScanInv'
  OBVIOUS
<1>1. CASE UNCHANGED classifierVars
  <2>1. /\ hypervisor' = hypervisor /\ messages' = messages /\ index' = index
        /\ types' = types /\ classifying' = classifying /\ errors' = errors
        /\ stream' = stream /\ groups' = groups
    BY <1>1 DEF classifierVars
  <2>2. ClassifierTypeOK'
    BY <2>1 DEF ClassifierTypeOK
  <2>3. ScanInv'
    BY <2>1 DEF ScanInv, AtCut, PastError, Tally, Told, Scanned, CountOf, UpTo, Heads,
                NMIs, UnknownRuns, IsExplained, Expected
  <2> QED
    BY <2>2, <2>3
<1> QED
  BY <1>1, StartScans, MessageMatchesScans, NothingMatchesScans, ReturnScans
  DEF ClassifierNext

(* The tally is an invariant of the classifier.                              *)
THEOREM ScanInvariance == ClassifierSpec => [](ClassifierTypeOK /\ ScanInv)
<1>1. ClassifierTypeOK /\ ScanInv /\ [ClassifierNext]_classifierVars
        => (ClassifierTypeOK /\ ScanInv)'
  BY ScanNext
<1> QED
  BY <1>1, InitScan, PTL DEF ClassifierSpec

(* The classifier, what it has found and what it has counted keep their      *)
(* types.                                                                    *)
THEOREM ClassifierTypeCorrect == ClassifierSpec => []ClassifierTypeOK
  BY ScanInvariance, PTL

(* However the stream is cut into groups, no error is hidden: every NMI is   *)
(* counted, every run of unexplained messages is counted, and no more is     *)
(* counted than one unknown error for a cut (classifier.go:46-81,            *)
(* matchers.go:23-145).                                                      *)
THEOREM NothingIsHidden == ClassifierSpec => []CutsHideNothing
<1>1. ClassifierTypeOK /\ ScanInv => CutsHideNothing
  <2> SUFFICES ASSUME ClassifierTypeOK, ScanInv, ~classifying, groups > 0
               PROVE  /\ errors[UnexpectedNMI] = Cardinality(NMIs)
                      /\ errors[Unknown] \in Cardinality(UnknownRuns)..
                                       (Cardinality(UnknownRuns) + groups - 1)
    BY DEF CutsHideNothing
  <2>1. messages = <<>> /\ types = <<>> /\ Tally(Scanned, IF groups = 0 THEN 0 ELSE groups - 1)
    BY DEF ScanInv
  <2>2. PICK n \in Nat : n = Len(stream) /\ DOMAIN stream = 1..n
    BY Positions
  <2>3. Scanned = n
    BY <2>1, <2>2, EmptySeq DEF Scanned
  <2>4. UpTo(NMIs, n) = NMIs /\ UpTo(UnknownRuns, n) = UnknownRuns
    BY <2>2 DEF UpTo, NMIs, UnknownRuns
  <2>5. /\ UnexpectedNMI \in ErrorTypes /\ Unknown \in ErrorTypes
    BY DEF ErrorTypes
  <2>6. errors[Unknown] \in Nat /\ errors[UnexpectedNMI] \in Nat
    BY <2>5 DEF ClassifierTypeOK
  <2>7. Told(Unknown) = errors[Unknown] /\ Told(UnexpectedNMI) = errors[UnexpectedNMI]
    BY <2>1, <2>6, CountEmpty DEF Told
  <2>8. /\ Cardinality(UnknownRuns) \in Nat /\ groups \in Nat
    BY <2>2, <2>4, Positions, PassedType
  <2> QED
    BY <2>1, <2>3, <2>4, <2>6, <2>7, <2>8 DEF Tally
<1> QED
  BY <1>1, ScanInvariance, PTL
=============================================================================
