-------------------------- MODULE ReliableLaneProofs --------------------------
(***************************************************************************)
(* Proofs about ReliableLane, for any consumers, capacities and sizes, and *)
(* any number of packets.                                                  *)
(***************************************************************************)
EXTENDS ReliableLane, SequenceTheorems, TLAPS

USE LaneAssumption

-----------------------------------------------------------------------------
(* The inductive invariant.                                                *)

\* ChargedFor, with what follows from it by induction on the queue: taking packets off
\* the front never makes the rest larger.
Exactly(bytes, queue) ==
  \E rest \in [0..Len(queue) -> 0..bytes] :
    /\ rest[0] = bytes /\ rest[Len(queue)] = 0
    /\ \A i \in 1..Len(queue) : rest[i - 1] = rest[i] + queue[i].size
    /\ \A i, j \in 0..Len(queue) : i <= j => rest[j] <= rest[i]

\* Both limits of a queue.
Within(bytes, queue) ==
  Exactly(bytes, queue) /\ bytes <= ByteCapacity /\ Len(queue) <= PacketCapacity

\* A task holds a packet exactly in the places of its code where it does.
TasksHold ==
  /\ Len(writing) = IF sender = "write" THEN 1 ELSE 0
  /\ Len(held) = IF receiver \in {"check", "full"} THEN 1 ELSE 0

LaneInv ==
  TypeOK /\ Within(sendBytes, sendQ) /\ Within(recvBytes, recvQ) /\ TasksHold /\ NothingLost

-----------------------------------------------------------------------------
(* Queues of packets.                                                      *)

\* A measured packet.
Sized == [id : Nat, size : Nat]

LEMMA PacketsAreSized == lane \in {"data", "input"} => Packets \subseteq Sized
BY DEF Packets, Charges, Sized

\* The front of a queue moves to the end of what lies before it.
LEMMA FrontMoves ==
  ASSUME NEW S, NEW a \in Seq(S), NEW b \in Seq(S), b # <<>>
  PROVE  a \o b = (a \o <<Head(b)>>) \o Tail(b)
<1>1. Head(b) \in S /\ Tail(b) \in Seq(S) /\ <<Head(b)>> \in Seq(S)
  BY HeadTailProperties
<1>2. b = <<Head(b)>> \o Tail(b)
  <2>1. Len(b) \in Nat \ {0}
    BY EmptySeq
  <2>2. 1 \in 1..Len(b) /\ Len(b) \in 1..Len(b)
    BY <2>1
  <2>3. SubSeq(b, 1, Len(b)) = <<b[1]>> \o SubSeq(b, 2, Len(b))
    BY <2>2, SubSeqRecursiveFirst
  <2>4. SubSeq(b, 1, Len(b)) = b /\ Tail(b) = SubSeq(b, 2, Len(b)) /\ Head(b) = b[1]
    BY SubSeqFull, TailIsSubSeq
  <2> QED
    BY <2>3, <2>4
<1> QED
  BY <1>1, <1>2, ConcatAssociative

\* NativeDataQueue::push charges for the packet it adds.
LEMMA PushCharges ==
  ASSUME NEW bytes \in Nat, NEW queue \in Seq(Sized), NEW p \in Sized,
         Exactly(bytes, queue)
  PROVE  Exactly(bytes + p.size, Append(queue, p))
<1> DEFINE n == Len(queue)
           longer == Append(queue, p)
<1>1. PICK rest \in [0..n -> 0..bytes] :
        /\ rest[0] = bytes /\ rest[n] = 0
        /\ \A i \in 1..n : rest[i - 1] = rest[i] + queue[i].size
        /\ \A i, j \in 0..n : i <= j => rest[j] <= rest[i]
  BY DEF Exactly
<1>2. /\ n \in Nat /\ Len(longer) = n + 1 /\ p.size \in Nat
      /\ longer[n + 1] = p /\ \A i \in 1..n : longer[i] = queue[i]
  BY AppendProperties, LenProperties DEF Sized
<1> DEFINE more == [i \in 0..n + 1 |-> IF i = n + 1 THEN 0 ELSE rest[i] + p.size]
<1>3. more \in [0..n + 1 -> 0..(bytes + p.size)]
  BY <1>1, <1>2
<1>4. more[0] = bytes + p.size /\ more[n + 1] = 0
  BY <1>1, <1>2
<1>5. ASSUME NEW i \in 1..n + 1 PROVE more[i - 1] = more[i] + longer[i].size
  <2>1. CASE i = n + 1
    BY <1>1, <1>2, <2>1
  <2>2. CASE i # n + 1
    <3>1. i \in 1..n /\ i - 1 \in 0..n /\ i \in 0..n
      BY <1>2, <2>2
    <3>2. queue[i] \in Sized
      BY <3>1, ElementOfSeq
    <3>3. queue[i].size \in Nat /\ rest[i] \in Nat /\ rest[i - 1] = rest[i] + queue[i].size
      <4>1. queue[i].size \in Nat
        BY ONLY <3>2 DEF Sized
      <4>2. rest[i] \in Nat
        BY ONLY <1>1, <3>1
      <4>3. rest[i - 1] = rest[i] + queue[i].size
        BY ONLY <1>1, <3>1
      <4> QED
        BY ONLY <4>1, <4>2, <4>3
    <3>4. more[i - 1] = rest[i - 1] + p.size /\ more[i] = rest[i] + p.size
      BY <1>2, <3>1
    <3>5. longer[i].size = queue[i].size
      BY <1>2, <3>1
    <3> HIDE DEF more, longer
    <3> QED
      BY <1>2, <3>3, <3>4, <3>5
  <2> QED
    BY <2>1, <2>2
<1>6. ASSUME NEW i \in 0..n + 1, NEW j \in 0..n + 1, i <= j PROVE more[j] <= more[i]
  <2>1. CASE j = n + 1
    <3>1. more[j] = 0
      BY ONLY <2>1, <1>4
    <3>2. more[i] \in Nat
      BY ONLY <1>2, <1>3, i \in 0..n + 1, bytes \in Nat
    <3> HIDE DEF more
    <3> QED
      BY ONLY <3>1, <3>2
  <2>2. CASE j # n + 1
    <3>1. i \in 0..n /\ j \in 0..n /\ i <= j
      BY ONLY <1>2, <1>6, <2>2, i \in 0..n + 1, j \in 0..n + 1
    <3>2. rest[j] <= rest[i] /\ rest[i] \in Nat /\ rest[j] \in Nat
      <4>1. rest[i] \in 0..bytes /\ rest[j] \in 0..bytes
        BY ONLY <1>1, <3>1, Zenon
      <4>2. rest[i] \in Nat /\ rest[j] \in Nat
        BY ONLY <4>1, bytes \in Nat
      <4>3. rest[j] <= rest[i]
        BY ONLY <1>1, <3>1, Zenon
      <4> QED
        BY ONLY <4>2, <4>3
    <3>3. more[i] = rest[i] + p.size /\ more[j] = rest[j] + p.size
      BY ONLY <1>2, <3>1, <2>2
    <3> HIDE DEF more
    <3> QED
      BY ONLY <1>2, <3>2, <3>3
  <2> QED
    BY <2>1, <2>2
<1>7. Len(longer) = n + 1
  BY ONLY <1>2
<1> HIDE DEF more, longer, n
<1>8. Exactly(bytes + p.size, longer)
  BY ONLY <1>3, <1>4, <1>5, <1>6, <1>7, Zenon DEF Exactly
<1> QED
  BY ONLY <1>8 DEF longer

\* NativeDataQueue::pop_front takes the charge of the packet back.
LEMMA PopRefunds ==
  ASSUME NEW bytes \in Nat, NEW queue \in Seq(Sized), queue # <<>>,
         Exactly(bytes, queue)
  PROVE  /\ Exactly(bytes - Head(queue).size, Tail(queue))
         /\ bytes - Head(queue).size \in 0..bytes
<1> DEFINE n == Len(queue)
           b == bytes - Head(queue).size
<1>1. PICK rest \in [0..n -> 0..bytes] :
        /\ rest[0] = bytes /\ rest[n] = 0
        /\ \A i \in 1..n : rest[i - 1] = rest[i] + queue[i].size
        /\ \A i, j \in 0..n : i <= j => rest[j] <= rest[i]
  BY DEF Exactly
<1>2. /\ n \in Nat \ {0} /\ Len(Tail(queue)) = n - 1
      /\ \A i \in 1..n - 1 : Tail(queue)[i] = queue[i + 1]
  BY HeadTailProperties, EmptySeq
<1>3. Head(queue) = queue[1] /\ queue[1] \in Sized
  BY <1>2, ElementOfSeq, HeadTailProperties
<1>4. rest[1] = b /\ b \in 0..bytes
  <2>1. 1 \in 1..n /\ 1 \in 0..n
    BY <1>2
  <2>2. rest[1 - 1] = rest[1] + queue[1].size /\ rest[1] \in 0..bytes
    BY <1>1, <2>1
  <2>3. queue[1].size \in Nat
    BY <1>3 DEF Sized
  <2> QED
    BY <1>1, <1>3, <2>2, <2>3
<1> DEFINE less == [i \in 0..n - 1 |-> rest[i + 1]]
<1>5. less \in [0..n - 1 -> 0..b]
  BY <1>1, <1>2, <1>4
<1>6. less[0] = b /\ less[n - 1] = 0
  BY <1>1, <1>2, <1>4
<1>7. ASSUME NEW i \in 1..n - 1 PROVE less[i - 1] = less[i] + Tail(queue)[i].size
  BY <1>1, <1>2
<1>8. ASSUME NEW i \in 0..n - 1, NEW j \in 0..n - 1, i <= j PROVE less[j] <= less[i]
  BY <1>1, <1>2, <1>8
<1> QED
  BY <1>2, <1>4, <1>5, <1>6, <1>7, <1>8 DEF Exactly

LEMMA EmptyQueue == Within(0, <<>>)
<1>1. Len(<<>>) = 0
  BY EmptySeq
<1>2. [i \in 0..0 |-> 0] \in [0..0 -> 0..0]
  OBVIOUS
<1>3. Exactly(0, <<>>)
  <2> SUFFICES \E rest \in [0..0 -> 0..0] : \A i, j \in 0..0 : i <= j => rest[j] <= rest[i]
    BY <1>1 DEF Exactly
  <2> WITNESS [i \in 0..0 |-> 0] \in [0..0 -> 0..0]
  <2> QED
    OBVIOUS
<1> QED
  BY <1>1, <1>3 DEF Within

\* A packet that can_push admits keeps the queue within both limits.
LEMMA PushFits ==
  ASSUME NEW bytes \in Nat, NEW queue \in Seq(Sized), NEW p \in Sized,
         Within(bytes, queue), CanPush(queue, bytes, p.size)
  PROVE  Within(bytes + p.size, Append(queue, p))
<1>1. Len(Append(queue, p)) = Len(queue) + 1 /\ Len(queue) \in Nat
  BY AppendProperties, LenProperties
<1> QED
  BY <1>1, PushCharges DEF Within, CanPush, Sized

LEMMA PopFits ==
  ASSUME NEW bytes \in Nat, NEW queue \in Seq(Sized), queue # <<>>, Within(bytes, queue)
  PROVE  /\ Within(bytes - Head(queue).size, Tail(queue))
         /\ bytes - Head(queue).size \in Nat
<1>1. Len(Tail(queue)) = Len(queue) - 1 /\ Len(queue) \in Nat
  BY HeadTailProperties, LenProperties
<1> QED
  BY <1>1, PopRefunds DEF Within
-----------------------------------------------------------------------------
(* The steps.                                                              *)

\* What TypeOK says of the sequences, over the larger set of packets.
LEMMA QueuesTyped ==
  ASSUME TypeOK
  PROVE  /\ \A s \in {accepted, sendQ, wire, recvQ, delivered, writing, held} :
              s \in Seq(Packets) /\ s \in Seq(Sized)
         /\ Packets \subseteq Sized
<1>1. Packets \subseteq Sized
  BY PacketsAreSized DEF TypeOK
<1>2. ASSUME NEW s \in Seq(Packets) PROVE s \in Seq(Sized)
  BY <1>1, SeqMonotonic
<1> QED
  BY <1>1, <1>2 DEF TypeOK

\* Types and places of code, for steps that leave the packets alone.
LEMMA OtherStep ==
  ASSUME LaneInv, UNCHANGED <<accepted, sendQ, wire, recvQ, delivered, writing, held>>,
         UNCHANGED <<sendBytes, recvBytes, lane>>,
         TypeOK', TasksHold'
  PROVE  LaneInv'
BY DEF LaneInv, NothingLost

\* The packets of the lane, one after the other: what SendStep and the like rewrite.
LEMMA SendStep ==
  ASSUME LaneInv, NEW size \in Charges, Send(size)
  PROVE  LaneInv'
<1> DEFINE p == [id |-> Len(accepted) + 1, size |-> size]
           before == delivered \o recvQ \o held \o wire \o writing
<1> USE QueuesTyped DEF LaneInv
<1>1. p \in Packets
  BY LenProperties DEF Packets
<1>2. /\ accepted' = Append(accepted, p) /\ sendQ' = Append(sendQ, p)
      /\ sendBytes' = sendBytes + size /\ sendPermit' = TRUE
      /\ UNCHANGED <<tasks, recv, spacePermit, consumers, control>>
  BY DEF Send
<1>3. accepted' \in Seq(Packets) /\ sendQ' \in Seq(Packets)
  BY <1>1, <1>2, AppendProperties
<1>4. Within(sendBytes', sendQ')
  <2>1. sendBytes \in Nat /\ p \in Sized /\ sendQ \in Seq(Sized) /\ p.size = size
    BY <1>1 DEF TypeOK
  <2>2. CanPush(sendQ, sendBytes, p.size)
    BY DEF Send
  <2> HIDE DEF p
  <2>3. Within(sendBytes + p.size, Append(sendQ, p))
    BY <2>1, <2>2, PushFits
  <2> QED
    BY <1>2, <2>1, <2>3
<1>5. TypeOK'
  <2>1. sendBytes' \in Nat /\ Packets' = Packets
    BY <1>2 DEF TypeOK, Charges, control, Packets
  <2> QED
    BY <1>2, <1>3, <2>1 DEF TypeOK, tasks, recv, consumers, control
<1>6. NothingLost'
  <2>1. before \in Seq(Packets) /\ sendQ \in Seq(Packets)
    BY ConcatProperties
  <2>2. accepted' = accepted \o <<p>> /\ sendQ' = sendQ \o <<p>> /\ <<p>> \in Seq(Packets)
    BY <1>1, <1>2, AppendIsConcat
  <2>3. before' = before
    BY <1>2 DEF tasks, recv, consumers
  <2>4. before \o sendQ = accepted
    BY DEF NothingLost
  <2> HIDE DEF before, p
  <2>5. before \o (sendQ \o <<p>>) = (before \o sendQ) \o <<p>>
    BY ONLY <2>1, <2>2, ConcatAssociative
  <2>6. before' \o sendQ' = accepted'
    BY <2>2, <2>3, <2>4, <2>5
  <2> QED
    BY <2>6 DEF NothingLost, before
<1>7. Within(recvBytes', recvQ') /\ TasksHold'
  BY <1>2 DEF TasksHold, tasks, recv
<1> QED
  BY <1>4, <1>5, <1>6, <1>7

\* The sending task takes the oldest packet of the queue.
LEMMA SenderPopStep ==
  ASSUME LaneInv, SenderPop
  PROVE  LaneInv'
<1> DEFINE before == delivered \o recvQ \o held \o wire
<1> USE QueuesTyped DEF LaneInv
<1>1. /\ sendQ # <<>> /\ sender = "pop" /\ sender' = "write"
      /\ writing' = <<Head(sendQ)>> /\ sendQ' = Tail(sendQ)
      /\ sendBytes' = sendBytes - Head(sendQ).size
      /\ UNCHANGED <<accepted, sendPermit, wire, receiver, held, recv, spacePermit, consumers,
                     control>>
  BY DEF SenderPop
<1>2. sendQ' \in Seq(Packets) /\ writing' \in Seq(Packets) /\ Len(writing') = 1
  BY <1>1, HeadTailProperties
<1>3. Within(sendBytes', sendQ') /\ sendBytes' \in Nat
  BY <1>1, PopFits DEF TypeOK
<1>4. TypeOK'
  <2>1. Packets' = Packets
    BY <1>1 DEF Charges, control, Packets
  <2> QED
    BY <1>1, <1>2, <1>3, <2>1 DEF TypeOK, recv, consumers, control
<1>5. NothingLost'
  <2>1. before \in Seq(Packets) /\ sendQ \in Seq(Packets)
    BY ConcatProperties
  <2>2. writing = <<>>
    BY <1>1, EmptySeq DEF TasksHold
  <2>3. before' = before /\ accepted' = accepted
    BY <1>1 DEF recv, consumers
  <2>4. (before \o <<>>) \o sendQ = accepted
    BY <2>2 DEF NothingLost
  <2> HIDE DEF before
  <2>5. before \o <<>> = before
    BY ONLY <2>1, ConcatEmptySeq
  <2>6. before \o sendQ = (before \o <<Head(sendQ)>>) \o Tail(sendQ)
    BY ONLY <1>1, <2>1, FrontMoves
  <2>7. (before' \o writing') \o sendQ' = accepted'
    BY <1>1, <2>3, <2>4, <2>5, <2>6
  <2> QED
    BY <2>7 DEF NothingLost, before
<1>6. Within(recvBytes', recvQ') /\ TasksHold'
  BY <1>1, <1>2 DEF TasksHold, recv
<1> QED
  BY <1>3, <1>4, <1>5, <1>6

\* The packet is in the stream once it is written.
LEMMA SenderWriteStep ==
  ASSUME LaneInv, SenderWrite
  PROVE  LaneInv'
<1> DEFINE before == delivered \o recvQ \o held
<1> USE QueuesTyped DEF LaneInv
<1>1. /\ sender = "write" /\ sender' = "pop"
      /\ wire' = wire \o writing /\ writing' = <<>>
      /\ UNCHANGED <<accepted, send, receiver, held, recv, spacePermit, consumers, control>>
  BY DEF SenderWrite
<1>2. wire' \in Seq(Packets) /\ writing' \in Seq(Packets) /\ Len(writing') = 0
  BY <1>1, ConcatProperties, EmptySeq
<1>3. TypeOK'
  <2>1. Packets' = Packets
    BY <1>1 DEF Charges, control, Packets
  <2> QED
    BY <1>1, <1>2, <2>1 DEF TypeOK, send, recv, consumers, control
<1>4. NothingLost'
  <2>1. before \in Seq(Packets) /\ wire \in Seq(Packets) /\ writing \in Seq(Packets)
    BY ConcatProperties
  <2>2. before' = before /\ accepted' = accepted /\ sendQ' = sendQ
    BY <1>1 DEF send, recv, consumers
  <2>3. ((before \o wire) \o writing) \o sendQ = accepted
    BY DEF NothingLost
  <2> HIDE DEF before
  <2>4. (before \o wire) \o writing = before \o (wire \o writing)
    BY ONLY <2>1, ConcatAssociative
  <2>5. before \o (wire \o writing) \in Seq(Packets)
    BY ONLY <2>1, ConcatProperties
  <2>6. (before \o (wire \o writing)) \o <<>> = before \o (wire \o writing)
    BY ONLY <2>5, ConcatEmptySeq
  <2>7. ((before' \o wire') \o writing') \o sendQ' = accepted'
    BY <1>1, <2>2, <2>3, <2>4, <2>6
  <2> QED
    BY <2>7 DEF NothingLost, before
<1>5. Within(sendBytes', sendQ') /\ Within(recvBytes', recvQ')
  BY <1>1 DEF send, recv
<1>6. TasksHold'
  BY <1>1, <1>2 DEF TasksHold
<1> QED
  BY <1>3, <1>4, <1>5, <1>6

\* The receiving task takes the next packet of the stream.
LEMMA ReceiverReadStep ==
  ASSUME LaneInv, ReceiverRead
  PROVE  LaneInv'
<1> DEFINE before == delivered \o recvQ
<1> USE QueuesTyped DEF LaneInv
<1>1. /\ wire # <<>> /\ receiver = "read" /\ receiver' = "check"
      /\ held' = <<Head(wire)>> /\ wire' = Tail(wire)
      /\ UNCHANGED <<accepted, send, sender, writing, recv, spacePermit, consumers, control>>
  BY DEF ReceiverRead
<1>2. wire' \in Seq(Packets) /\ held' \in Seq(Packets) /\ Len(held') = 1
  BY <1>1, HeadTailProperties
<1>3. TypeOK'
  <2>1. Packets' = Packets
    BY <1>1 DEF Charges, control, Packets
  <2> QED
    BY <1>1, <1>2, <2>1 DEF TypeOK, send, recv, consumers, control
<1>4. NothingLost'
  <2>1. before \in Seq(Packets) /\ wire \in Seq(Packets)
    BY ConcatProperties
  <2>2. held = <<>>
    BY <1>1, EmptySeq DEF TasksHold
  <2>3. before' = before /\ UNCHANGED <<accepted, writing, sendQ>>
    BY <1>1 DEF send, recv, consumers
  <2>4. (((before \o <<>>) \o wire) \o writing) \o sendQ = accepted
    BY <2>2 DEF NothingLost
  <2> HIDE DEF before
  <2>5. before \o <<>> = before
    BY ONLY <2>1, ConcatEmptySeq
  <2>6. before \o wire = (before \o <<Head(wire)>>) \o Tail(wire)
    BY ONLY <1>1, <2>1, FrontMoves
  <2>7. (((before' \o held') \o wire') \o writing') \o sendQ' = accepted'
    BY <1>1, <2>3, <2>4, <2>5, <2>6
  <2> QED
    BY <2>7 DEF NothingLost, before
<1>5. Within(sendBytes', sendQ') /\ Within(recvBytes', recvQ')
  BY <1>1 DEF send, recv
<1>6. TasksHold'
  BY <1>1, <1>2 DEF TasksHold
<1> QED
  BY <1>3, <1>4, <1>5, <1>6

\* push_*_receive moves the held packet into the queue, or leaves everything.
LEMMA ReceiverPushStep ==
  ASSUME LaneInv, ReceiverPush
  PROVE  LaneInv'
<1> USE QueuesTyped DEF LaneInv
<1>1. /\ receiver = "check"
      /\ UNCHANGED <<accepted, send, sender, writing, wire, spacePermit, consumers, control>>
  BY DEF ReceiverPush
<1>2. Packets' = Packets
  BY <1>1 DEF Charges, control, Packets
<1>3. CASE ~CanPush(recvQ, recvBytes, held[1].size)
  <2>1. receiver' = "full" /\ UNCHANGED <<recv, held>>
    BY <1>3 DEF ReceiverPush
  <2>2. TypeOK' /\ TasksHold'
    BY <1>1, <1>2, <2>1 DEF TypeOK, TasksHold, send, recv, consumers, control
  <2> QED
    BY <1>1, <2>1, <2>2, OtherStep DEF send, recv, consumers, control
<1>4. CASE CanPush(recvQ, recvBytes, held[1].size)
  <2> DEFINE p == held[1]
  <2>1. /\ recvQ' = recvQ \o held /\ recvBytes' = recvBytes + p.size
        /\ held' = <<>> /\ receiver' = "announce"
    BY <1>4 DEF ReceiverPush
  <2>2. Len(held) = 1
    BY <1>1 DEF TasksHold
  <2>3. p \in Packets /\ p \in Sized /\ held = <<p>>
    <3>1. p \in Packets
      <4>1. held \in Seq(Packets) /\ 1 \in 1..Len(held)
        BY <2>2
      <4> QED
        BY ONLY <4>1, ElementOfSeq
    <3>2. <<p>> \in Seq(Packets) /\ Len(<<p>>) = 1 /\ <<p>>[1] = p
      BY <3>1
    <3>3. held \in Seq(Packets)
      OBVIOUS
    <3>4. held = <<p>>
      BY <2>2, <3>2, <3>3, SeqEqual
    <3> QED
      BY <3>1, <3>4
  <2>4. recvQ' = Append(recvQ, p)
    BY <2>1, <2>3, AppendIsConcat
  <2>5. Within(recvBytes', recvQ') /\ recvBytes' \in Nat
    <3>1. recvBytes \in Nat /\ recvQ \in Seq(Sized) /\ p.size \in Nat
      BY <2>3 DEF TypeOK, Sized
    <3>2. CanPush(recvQ, recvBytes, p.size) /\ Within(recvBytes, recvQ)
      BY <1>4 DEF ReceiverPush
    <3>3. Within(recvBytes + p.size, Append(recvQ, p))
      BY ONLY <2>3, <3>1, <3>2, PushFits
    <3>4. recvBytes + p.size \in Nat
      BY ONLY <3>1
    <3> QED
      BY ONLY <2>1, <2>4, <3>3, <3>4
  <2>6. recvQ' \in Seq(Packets) /\ held' \in Seq(Packets) /\ Len(held') = 0
    BY <2>1, ConcatProperties, EmptySeq
  <2>7. TypeOK'
    BY <1>1, <1>2, <2>1, <2>5, <2>6 DEF TypeOK, send, consumers, control
  <2>8. NothingLost'
    <3>1. (((delivered \o recvQ) \o held) \o wire) \o writing \o sendQ = accepted
      BY DEF NothingLost
    <3>2. delivered \in Seq(Packets) /\ recvQ \in Seq(Packets) /\ held \in Seq(Packets)
      OBVIOUS
    <3>3. (delivered \o recvQ) \o held = delivered \o (recvQ \o held)
      BY ONLY <3>2, ConcatAssociative
    <3>4. delivered \o (recvQ \o held) \in Seq(Packets)
      BY ONLY <3>2, ConcatProperties
    <3>5. (delivered \o (recvQ \o held)) \o <<>> = delivered \o (recvQ \o held)
      BY ONLY <3>4, ConcatEmptySeq
    <3>6. UNCHANGED <<accepted, delivered, wire, writing, sendQ>>
      BY <1>1 DEF send, consumers
    <3> QED
      BY <2>1, <3>1, <3>3, <3>5, <3>6 DEF NothingLost
  <2>9. Within(sendBytes', sendQ')
    BY <1>1 DEF send
  <2>10. TasksHold'
    BY <1>1, <2>1, <2>6 DEF TasksHold
  <2> QED
    BY <2>5, <2>7, <2>8, <2>9, <2>10
<1> QED
  BY <1>3, <1>4

\* A consumer takes the oldest packet of the queue.
LEMMA TakeStep ==
  ASSUME LaneInv, NEW c \in Consumers, Take(c)
  PROVE  LaneInv'
<1> USE QueuesTyped DEF LaneInv
<1>1. /\ recvQ # <<>> /\ lock = Nobody /\ cpc[c] \in {"idle", "woken"}
      /\ delivered' = Append(delivered, Head(recvQ))
      /\ recvQ' = Tail(recvQ) /\ recvBytes' = recvBytes - Head(recvQ).size
      /\ cpc' = [cpc EXCEPT ![c] = "notify"]
      /\ UNCHANGED <<accepted, send, tasks, spacePermit, lock, control>>
  BY DEF Take
<1>2. Head(recvQ) \in Packets /\ recvQ' \in Seq(Packets)
  BY <1>1, HeadTailProperties
<1>3. delivered' = delivered \o <<Head(recvQ)>> /\ delivered' \in Seq(Packets)
  BY <1>1, <1>2, AppendIsConcat, AppendProperties
<1>4. Within(recvBytes', recvQ') /\ recvBytes' \in Nat
  BY <1>1, PopFits DEF TypeOK
<1>5. TypeOK'
  <2>1. Packets' = Packets
    BY <1>1 DEF Charges, control, Packets
  <2> QED
    <3>1. /\ accepted' \in Seq(Packets) /\ sendQ' \in Seq(Packets) /\ wire' \in Seq(Packets)
          /\ writing' \in Seq(Packets) /\ held' \in Seq(Packets)
      BY <1>1 DEF send, tasks
    <3>2. cpc' \in [Consumers -> {"idle", "notify", "checked", "asleep", "woken"}]
      BY <1>1 DEF TypeOK
    <3>3. lock' = lock /\ \A d \in Consumers : cpc'[d] = "checked" <=> lock' = d
      BY <1>1 DEF TypeOK
    <3>4. /\ sendBytes' \in Nat /\ sendPermit' \in BOOLEAN /\ spacePermit' \in BOOLEAN
          /\ sender' \in {"pop", "write", "sleep"}
          /\ receiver' \in {"read", "check", "announce", "full"}
          /\ lock' \in Consumers \cup {Nobody}
      BY <1>1 DEF TypeOK, send, tasks
    <3>5. /\ lane' \in {"data", "input"} /\ phase' \in [Sides -> {"setup", "promoting", "open"}]
          /\ stop' \in BOOLEAN /\ stopping' \in BOOLEAN /\ running' \in BOOLEAN
      BY <1>1 DEF TypeOK, control
    <3> QED
      BY ONLY <1>2, <1>3, <1>4, <2>1, <3>1, <3>2, <3>3, <3>4, <3>5 DEF TypeOK
<1>6. NothingLost'
  <2>1. delivered \o recvQ = (delivered \o <<Head(recvQ)>>) \o Tail(recvQ)
    BY <1>1, FrontMoves
  <2>2. UNCHANGED <<accepted, held, wire, writing, sendQ>>
    BY <1>1 DEF send, tasks
  <2> QED
    BY <1>1, <1>3, <2>1, <2>2 DEF NothingLost
<1>7. Within(sendBytes', sendQ') /\ TasksHold'
  BY <1>1 DEF TasksHold, send, tasks
<1> QED
  BY <1>4, <1>5, <1>6, <1>7

\* The part of the type invariant that is about control: who waits for what.
ControlTyped ==
  /\ sendPermit \in BOOLEAN /\ spacePermit \in BOOLEAN
  /\ sender \in {"pop", "write", "sleep"} /\ receiver \in {"read", "check", "announce", "full"}
  /\ lock \in Consumers \cup {Nobody}
  /\ cpc \in [Consumers -> {"idle", "notify", "checked", "asleep", "woken"}]
  /\ \A c \in Consumers : cpc[c] = "checked" <=> lock = c
  /\ phase \in [Sides -> {"setup", "promoting", "open"}]
  /\ stop \in BOOLEAN /\ stopping \in BOOLEAN /\ running \in BOOLEAN

\* Every other step leaves the packets where they are.
LEMMA QuietStep ==
  ASSUME LaneInv,
         \/ SenderSleep \/ SenderWake \/ ReceiverAnnounce \/ ReceiverSpace \/ ReceiverStalls
         \/ \E c \in Consumers : TakeNotify(c) \/ WaitCheck(c) \/ WaitSleep(c)
                                 \/ TakeTooSmall(c) \/ WaitTimeout(c)
         \/ \E side \in Sides : Promote(side)
         \/ StopStore \/ StopNotify \/ Cancel \/ Fail \/ UNCHANGED vars
  PROVE  LaneInv'
<1> USE DEF send, recv, tasks, consumers, control
<1>1. UNCHANGED <<accepted, sendQ, wire, recvQ, delivered, writing, held, sendBytes, recvBytes,
                  lane>>
  BY DEF SenderSleep, SenderWake, ReceiverAnnounce, ReceiverSpace, ReceiverStalls, TakeNotify,
         WaitCheck, WaitSleep, TakeTooSmall, WaitTimeout, Promote, StopStore, StopNotify, Cancel,
         Fail, vars
<1>2. Packets' = Packets
  BY <1>1 DEF Charges, Packets
<1>3. TasksHold'
  BY DEF LaneInv, TasksHold, SenderSleep, SenderWake, ReceiverAnnounce, ReceiverSpace,
         ReceiverStalls, TakeNotify, WaitCheck, WaitSleep, TakeTooSmall, WaitTimeout, Promote,
         StopStore, StopNotify, Cancel, Fail, vars
<1>4. TypeOK'
  <2>12. TypeOK
    BY DEF LaneInv
  <2>13. ControlTyped
    BY ONLY <2>12 DEF TypeOK, ControlTyped
  <2> HIDE DEF LaneInv
  <2> USE <2>13 DEF ControlTyped
  <2>1. ASSUME SenderSleep \/ SenderWake PROVE ControlTyped'
    BY <2>1, <1>1 DEF SenderSleep, SenderWake
  <2>2. ASSUME ReceiverSpace \/ ReceiverStalls PROVE ControlTyped'
    BY <2>2, <1>1 DEF ReceiverSpace, ReceiverStalls
  <2>3. ASSUME StopStore \/ Cancel \/ Fail PROVE ControlTyped'
    BY <2>3, <1>1 DEF StopStore, Cancel, Fail
  <2>4. ASSUME UNCHANGED vars PROVE ControlTyped'
    BY <2>4, <1>1 DEF vars
  <2>5. ASSUME ReceiverAnnounce PROVE ControlTyped'
    BY <2>5, <1>1 DEF ReceiverAnnounce
  <2>6. ASSUME StopNotify PROVE ControlTyped'
    BY <2>6, <1>1 DEF StopNotify
  <2>7. ASSUME NEW side \in Sides, Promote(side) PROVE ControlTyped'
    BY <2>7, <1>1 DEF Promote
  <2>8. ASSUME NEW c \in Consumers, TakeNotify(c) PROVE ControlTyped'
    BY <2>8, <1>1 DEF TakeNotify
  <2>9. ASSUME NEW c \in Consumers, TakeTooSmall(c) \/ WaitTimeout(c) PROVE ControlTyped'
    BY <2>9, <1>1 DEF TakeTooSmall, WaitTimeout
  <2>10. ASSUME NEW c \in Consumers, WaitCheck(c) PROVE ControlTyped'
    <3>1. lock = Nobody /\ cpc[c] # "checked" /\ \A d \in Consumers : cpc[d] # "checked"
      BY <2>10, <1>1 DEF WaitCheck
    <3>2. CASE stop
      BY <2>10, <1>1, <3>1, <3>2 DEF WaitCheck
    <3>3. CASE ~stop
      BY <2>10, <1>1, <3>1, <3>3 DEF WaitCheck
    <3> QED
      BY <3>2, <3>3
  <2>11. ASSUME NEW c \in Consumers, WaitSleep(c) PROVE ControlTyped'
    <3>1. lock = c /\ lock' = Nobody /\ cpc' = [cpc EXCEPT ![c] = "asleep"]
      BY <2>11, <1>1 DEF WaitSleep
    <3>2. \A d \in Consumers : cpc'[d] = "checked" <=> lock' = d
      BY <3>1
    <3> QED
      BY <2>11, <1>1, <3>1, <3>2 DEF WaitSleep
  <2>14. ControlTyped'
    <3> HIDE DEF ControlTyped
    <3> QED
      BY <2>1, <2>2, <2>3, <2>4, <2>5, <2>6, <2>7, <2>8, <2>9, <2>10, <2>11
  <2>15. ASSUME NEW s \in {accepted, sendQ, wire, recvQ, delivered, writing, held}'
         PROVE  s \in Seq(Packets)'
    BY ONLY <1>1, <1>2, <2>12, <2>15 DEF TypeOK
  <2>16. sendBytes' \in Nat /\ recvBytes' \in Nat /\ lane' \in {"data", "input"}
    BY ONLY <1>1, <2>12 DEF TypeOK
  <2> HIDE <2>13
  <2> QED
    BY ONLY <2>14, <2>15, <2>16 DEF TypeOK, ControlTyped
<1> QED
  BY <1>1, <1>3, <1>4, OtherStep

LEMMA LaneStep == LaneInv /\ [Next]_vars => LaneInv'
BY SendStep, SenderPopStep, SenderWriteStep, ReceiverReadStep, ReceiverPushStep, TakeStep,
   QuietStep
DEF Next, SenderStep, ReceiverStep, ConsumerStep

-----------------------------------------------------------------------------
(* Theorems.                                                               *)

\* The invariant holds in every reachable state.
THEOREM LaneInvariance == Spec => []LaneInv
<1>1. Init => LaneInv
  <2> SUFFICES ASSUME Init PROVE LaneInv
    OBVIOUS
  <2>1. TypeOK /\ TasksHold
    BY EmptySeq DEF Init, TypeOK, TasksHold, Sides
  <2>2. Within(sendBytes, sendQ) /\ Within(recvBytes, recvQ)
    BY EmptyQueue DEF Init
  <2>3. NothingLost
    <3>1. <<>> \o <<>> = <<>>
      BY EmptySeq, ConcatEmptySeq
    <3> QED
      BY <3>1 DEF Init, NothingLost
  <2> QED
    BY <2>1, <2>2, <2>3 DEF LaneInv
<1> QED
  BY <1>1, LaneStep, PTL DEF Spec

\* Whatever *_send took is delivered or on its way, once and in order, whichever queue is
\* full and whoever receives, and after a stop too.
THEOREM Reliable == Spec => []NothingLost
BY LaneInvariance, PTL DEF LaneInv

\* The byte count of both queues is the sum of what they hold and neither limit is passed,
\* so the subtraction in can_push never wraps.
THEOREM LimitsKept == Spec => []WithinLimits
<1>1. LaneInv => WithinLimits
  <2>1. \A bytes, queue : Exactly(bytes, queue) => ChargedFor(bytes, queue)
    BY DEF Exactly, ChargedFor
  <2> QED
    BY <2>1 DEF LaneInv, Within, TasksHold, WithinLimits
<1> QED
  BY <1>1, LaneInvariance, PTL
=============================================================================
