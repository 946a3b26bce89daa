--------------------------- MODULE CameraLaneProofs ---------------------------
(***************************************************************************)
(* Proofs about the camera lane (native_camera.rs): its queues hold one    *)
(* activation and one format in order, what the Host application takes can *)
(* be decoded, and no Client that goes through camera_send makes the Host  *)
(* end the lane over a changed format.                                     *)
(*                                                                         *)
(* Most of the argument is about a single State record, which every entry  *)
(* point passes through gap, prune, push or activate: the lemmas about     *)
(* those mention no variable.                                              *)
(***************************************************************************)
EXTENDS CameraLane, SequenceTheorems, WellFoundedInduction, TLAPS

Packets == [frame : Frames, old : BOOLEAN]

\* Frame b restarts the stream, or is the very next one after frame a.
Restarts(f) == f.discontinuity /\ ~Dependent(f)
Joins(a, b) == b.sequence = a.sequence + 1 \/ Restarts(b)

\* A queue of activation g, format c and last sequence number l: it keeps to its capacity,
\* its frames are of that activation and format and ascend to l, and each is the very next
\* one or marked and independent.
Queue(q, g, c, l, capacity) ==
  /\ Len(q) <= capacity
  /\ \A i \in 1..Len(q) :
       q[i].frame.generation = g /\ q[i].frame.codec = c /\ q[i].frame.sequence <= l
  /\ \A i, j \in 1..Len(q) : i < j => q[i].frame.sequence < q[j].frame.sequence
  /\ \A i \in 2..Len(q) : Joins(q[i - 1].frame, q[i].frame)
  /\ q # <<>> => q[Len(q)].frame.sequence = l

\* The flags tell whether it may go on where the last frame ended.
Flags(s) ==
  /\ s.packets # <<>> => ~s.waitingForKey /\ ~s.discontinuity
  /\ s.waitingForKey => s.discontinuity
  /\ s.generation # 0 /\ s.waitingForKey => s.requestKey
  /\ s.generation = 0 \/ s.generation = s.lastGeneration

SideInv(s, capacity) ==
  s \in State /\ Queue(s.packets, s.generation, s.codec, s.last, capacity) /\ Flags(s)

\* The next frame the Host queues will be marked and independent.
Restarting(s) == s.discontinuity /\ (s.waitingForKey \/ s.codec = "MJPEG")

\* Frame f may be handed out now, sh being the one handed out before it, if any.
MayShow(sh, f) == IF sh = <<>> THEN Restarts(f) ELSE Follows(sh[1], f)

\* The Host's queue continues what its application was shown.
HeadInv(s, sh) ==
  /\ sh # <<>> =>
       /\ sh[1] \in Frames /\ sh[1].generation = s.generation /\ sh[1].codec = s.codec
       /\ sh[1].sequence <= s.last
  /\ s.packets # <<>> => MayShow(sh, s.packets[1].frame)
  /\ s.packets = <<>> /\ s.generation # 0 =>
       Restarting(s) \/ (sh # <<>> /\ sh[1].sequence = s.last)

\* One activation has one format, on the Client, under way and on the Host.
WireInv(client, host, under) ==
  /\ \A f \in under :
       /\ f.generation <= client.lastGeneration
       /\ f.generation = client.generation => f.codec = client.codec
  /\ \A f, h \in under : f.generation = h.generation => f.codec = h.codec
  /\ host.generation # 0 /\ host.codec # None =>
       /\ host.generation <= client.lastGeneration
       /\ client.generation = host.generation => client.codec = host.codec
       /\ \A f \in under : f.generation = host.generation => f.codec = host.codec

CameraLaneInv ==
  /\ lane \in [Sides -> State] /\ wire \subseteq Frames /\ hole \in BOOLEAN
  /\ shown \in Seq(Frames) /\ Len(shown) <= 1 /\ cause \in {None, "transport"}
  /\ \A side \in Sides : SideInv(lane[side], Capacity[side])
  /\ HeadInv(lane["host"], shown)
  /\ WireInv(lane["client"], lane["host"], wire)

(***************************************************************************)
(* Frames, records and queues.                                             *)
(***************************************************************************)

\* A set of naturals that is not empty has a least element.
LEMMA Smallest ==
  ASSUME NEW T, T \subseteq Nat, T # {}
  PROVE  \E x \in T : \A y \in T : x <= y
<1> DEFINE R == OpToRel(<, Nat)
<1>1. IsWellFoundedOn(R, Nat)
  BY NatLessThanWellFounded, Zenon
<1>2. \A y \in Nat, x \in Nat : y < x => <<y, x>> \in R
  BY DEF OpToRel
<1> HIDE DEF R
<1>3. PICK x \in T : \A y \in T : ~ (<<y, x>> \in R)
  BY <1>1, WFMin
<1>4. ASSUME NEW y \in T PROVE x <= y
  <2>1. x \in Nat /\ y \in Nat
    OBVIOUS
  <2>2. ~(y < x)
    BY <1>2, <1>3, <2>1
  <2> QED
    BY <2>1, <2>2
<1> QED
  BY <1>4

LEMMA FrameFields ==
  ASSUME NEW f \in Frames
  PROVE  /\ f.generation \in Nat /\ f.generation # 0 /\ f.generation \in 1..MaxGeneration
         /\ f.sequence \in Nat /\ f.sequence # 0 /\ f.sequence \in 1..MaxSequence
         /\ f.codec \in Codecs /\ f.codec # None
         /\ f.key \in BOOLEAN /\ f.discontinuity \in BOOLEAN /\ (f.codec = "MJPEG" => f.key)
         /\ Dependent(f) <=> ~f.key
<1>1. /\ f.generation \in 1..MaxGeneration /\ f.sequence \in 1..MaxSequence /\ f.codec \in Codecs
      /\ f.key \in BOOLEAN /\ f.discontinuity \in BOOLEAN /\ (f.codec = "MJPEG" => f.key)
  BY DEF Frames
<1>2. MaxGeneration \in Nat /\ MaxSequence \in Nat
  BY CameraAssumption
<1>3. f.generation \in Nat /\ f.generation # 0 /\ f.sequence \in Nat /\ f.sequence # 0
  BY <1>1, <1>2
<1>4. f.codec # None /\ (Dependent(f) <=> ~f.key)
  BY <1>1 DEF Codecs, None, Dependent
<1> QED
  BY <1>1, <1>3, <1>4

\* Marking a frame changes nothing else.
LEMMA Marked ==
  ASSUME NEW f \in Frames, NEW b \in BOOLEAN
  PROVE  LET h == [f EXCEPT !.discontinuity = b]
         IN  /\ h \in Frames /\ h.discontinuity = b /\ h.generation = f.generation
             /\ h.sequence = f.sequence /\ h.codec = f.codec /\ (Dependent(h) <=> Dependent(f))
<1> DEFINE h == [f EXCEPT !.discontinuity = b]
<1>1. /\ h \in Frames /\ h.discontinuity = b /\ h.generation = f.generation
      /\ h.sequence = f.sequence /\ h.codec = f.codec /\ h.key = f.key
  BY DEF Frames
<1> HIDE DEF h
<1>2. Dependent(h) <=> Dependent(f)
  BY <1>1 DEF Dependent
<1>3. /\ h \in Frames /\ h.discontinuity = b /\ h.generation = f.generation
      /\ h.sequence = f.sequence /\ h.codec = f.codec /\ (Dependent(h) <=> Dependent(f))
  BY <1>1, <1>2
<1> QED
  BY <1>3 DEF h

LEMMA StateFields ==
  ASSUME NEW s \in State
  PROVE  /\ s.status \in 0..3 /\ s.generation \in 0..MaxGeneration
         /\ s.lastGeneration \in 0..MaxGeneration /\ s.last \in 0..MaxSequence
         /\ s.generation \in Nat /\ s.lastGeneration \in Nat /\ s.last \in Nat
         /\ s.codec \in Codecs \cup {None} /\ s.waitingForKey \in BOOLEAN /\ s.requestKey \in BOOLEAN
         /\ s.discontinuity \in BOOLEAN /\ s.packets \in Seq(Packets) /\ Len(s.packets) \in Nat
<1>1. /\ s.status \in 0..3 /\ s.generation \in 0..MaxGeneration
      /\ s.lastGeneration \in 0..MaxGeneration /\ s.last \in 0..MaxSequence
      /\ s.codec \in Codecs \cup {None} /\ s.waitingForKey \in BOOLEAN /\ s.requestKey \in BOOLEAN
      /\ s.discontinuity \in BOOLEAN /\ s.packets \in Seq(Packets)
  BY DEF State, Packets
<1>2. MaxGeneration \in Nat /\ MaxSequence \in Nat
  BY CameraAssumption
<1>3. s.generation \in Nat /\ s.lastGeneration \in Nat /\ s.last \in Nat
  BY <1>1, <1>2
<1>4. Len(s.packets) \in Nat
  BY <1>1, LenProperties
<1> QED
  BY <1>1, <1>3, <1>4

LEMMA PacketFields ==
  ASSUME NEW q \in Seq(Packets), NEW i \in 1..Len(q)
  PROVE  q[i] \in Packets /\ q[i].frame \in Frames /\ q[i].old \in BOOLEAN
<1>1. q[i] \in Packets
  BY ElementOfSeq
<1> QED
  BY <1>1 DEF Packets

\* p is q without its first d packets; the first that is left may have been marked.
Suffix(p, q, d) ==
  /\ Len(p) = Len(q) - d
  /\ \A k \in 1..Len(p) :
       /\ p[k].frame.generation = q[k + d].frame.generation
       /\ p[k].frame.sequence = q[k + d].frame.sequence
       /\ p[k].frame.codec = q[k + d].frame.codec
  /\ \A k \in 2..Len(p) : p[k].frame = q[k + d].frame

\* The end of a queue is a queue.
LEMMA SuffixIsQueue ==
  ASSUME NEW q \in Seq(Packets), NEW p \in Seq(Packets), NEW d \in 0..Len(q), Suffix(p, q, d),
         NEW g, NEW c, NEW l, NEW capacity \in Nat, Queue(q, g, c, l, capacity)
  PROVE  Queue(p, g, c, l, capacity)
<1>1. /\ Len(q) \in Nat /\ Len(p) \in Nat /\ d \in Nat /\ Len(p) = Len(q) - d /\ Len(p) + d = Len(q)
  BY LenProperties DEF Suffix
<1>2. \A k \in 1..Len(p) : k + d \in 1..Len(q)
  BY <1>1
<1>3. Len(p) <= capacity
  BY <1>1 DEF Queue
<1>4. \A i \in 1..Len(p) :
        p[i].frame.generation = g /\ p[i].frame.codec = c /\ p[i].frame.sequence <= l
  BY <1>2 DEF Queue, Suffix
<1>5. ASSUME NEW i \in 1..Len(p), NEW j \in 1..Len(p), i < j
      PROVE  p[i].frame.sequence < p[j].frame.sequence
  <2>1. i + d < j + d
    BY <1>1, <1>5
  <2> QED
    BY <1>2, <2>1 DEF Queue, Suffix
<1>6. ASSUME NEW i \in 2..Len(p) PROVE Joins(p[i - 1].frame, p[i].frame)
  <2>1. /\ i - 1 \in 1..Len(p) /\ i \in 1..Len(p) /\ i + d \in 2..Len(q)
        /\ (i - 1) + d = (i + d) - 1
    BY <1>1
  <2>2. Joins(q[(i + d) - 1].frame, q[i + d].frame)
    BY <2>1 DEF Queue
  <2>3. /\ p[i].frame = q[i + d].frame
        /\ p[i - 1].frame.sequence = q[(i + d) - 1].frame.sequence
    BY <2>1 DEF Suffix
  <2> QED
    BY <2>2, <2>3 DEF Joins
<1>7. ASSUME p # <<>> PROVE p[Len(p)].frame.sequence = l
  <2>1. Len(p) \in 1..Len(p) /\ q # <<>> /\ Len(p) + d = Len(q)
    <3>1. Len(p) # 0
      BY <1>7, EmptySeq
    <3>2. Len(q) # 0
      BY <1>1, <3>1
    <3>3. q # <<>>
      BY <3>2, EmptySeq
    <3> QED
      BY <1>1, <3>1, <3>3
  <2>2. q[Len(q)].frame.sequence = l
    BY <2>1 DEF Queue
  <2>3. p[Len(p)].frame.sequence = q[Len(p) + d].frame.sequence
    BY <2>1 DEF Suffix
  <2> QED
    BY <2>1, <2>2, <2>3
<1> QED
  BY <1>3, <1>4, <1>5, <1>6, <1>7 DEF Queue

\* An empty queue is one.
LEMMA EmptyIsQueue ==
  ASSUME NEW g, NEW c, NEW l, NEW capacity \in Nat
  PROVE  Queue(<<>>, g, c, l, capacity) /\ <<>> \in Seq(Packets)
<1>1. <<>> \in Seq(Packets) /\ Len(<<>>) = 0
  BY EmptySeq
<1> QED
  BY <1>1 DEF Queue

(***************************************************************************)
(* State::gap and State::prune.                                            *)
(***************************************************************************)

\* r is s but for its queue and its flags.
SameStream(r, s) ==
  /\ r.status = s.status /\ r.generation = s.generation /\ r.lastGeneration = s.lastGeneration
  /\ r.last = s.last /\ r.codec = s.codec

LEMMA GapFields ==
  ASSUME NEW s \in State
  PROVE  LET r == Gap(s)
         IN  /\ r \in State /\ SameStream(r, s) /\ r.packets = <<>> /\ r.discontinuity
             /\ r.waitingForKey = (s.waitingForKey \/ s.codec # "MJPEG")
             /\ r.requestKey = (s.requestKey \/ s.codec # "MJPEG")
<1> DEFINE w == s.waitingForKey \/ s.codec # "MJPEG"
           k == s.requestKey \/ s.codec # "MJPEG"
           r == [s EXCEPT !.packets = <<>>, !.discontinuity = TRUE, !.waitingForKey = w, !.requestKey = k]
<1>1. w \in BOOLEAN /\ k \in BOOLEAN /\ <<>> \in Seq(Packets)
  BY StateFields, EmptySeq
<1>2. Gap(s) = r
  BY DEF Gap
<1> HIDE DEF w, k
<1>3. r \in State
  BY <1>1 DEF State, Packets
<1>4. /\ r.status = s.status /\ r.generation = s.generation /\ r.lastGeneration = s.lastGeneration
      /\ r.last = s.last /\ r.codec = s.codec
      /\ r.packets = <<>> /\ r.discontinuity /\ r.waitingForKey = w /\ r.requestKey = k
  BY DEF State
<1> HIDE DEF r
<1>5. r \in State /\ SameStream(r, s) /\ r.packets = <<>> /\ r.discontinuity
  BY <1>3, <1>4 DEF SameStream
<1> QED
  BY <1>2, <1>4, <1>5 DEF w, k

\* gap empties the queue, and the next frame in it will restart the stream.
LEMMA GapKeeps ==
  ASSUME NEW s, NEW capacity \in Nat, SideInv(s, capacity)
  PROVE  /\ SideInv(Gap(s), capacity) /\ SameStream(Gap(s), s)
         /\ Gap(s).packets = <<>> /\ Restarting(Gap(s))
         /\ \A sh : HeadInv(s, sh) => HeadInv(Gap(s), sh)
<1> DEFINE r == Gap(s)
<1>1. /\ r \in State /\ SameStream(r, s) /\ r.packets = <<>> /\ r.discontinuity
      /\ r.waitingForKey = (s.waitingForKey \/ s.codec # "MJPEG")
      /\ r.requestKey = (s.requestKey \/ s.codec # "MJPEG")
  BY GapFields DEF SideInv
<1> HIDE DEF r
<1>2. Flags(s)
  BY DEF SideInv
<1>3. Flags(r)
  BY <1>1, <1>2 DEF Flags, SameStream
<1>4. Queue(r.packets, r.generation, r.codec, r.last, capacity)
  BY <1>1, EmptyIsQueue
<1>5. SideInv(r, capacity)
  BY <1>1, <1>3, <1>4 DEF SideInv
<1>6. Restarting(r)
  BY <1>1 DEF Restarting, SameStream
<1>7. ASSUME NEW sh, HeadInv(s, sh) PROVE HeadInv(r, sh)
  BY <1>1, <1>6, <1>7 DEF HeadInv, SameStream
<1> QED
  BY <1>1, <1>5, <1>6, <1>7 DEF r

\* The end of a queue, its first frame marked and independent.
LEMMA KeepKeeps ==
  ASSUME NEW s, NEW capacity \in Nat, SideInv(s, capacity), NEW i \in 1..Len(s.packets),
         ~Dependent(s.packets[i].frame)
  PROVE  /\ SideInv(KeepFrom(s, i), capacity) /\ SameStream(KeepFrom(s, i), s)
         /\ KeepFrom(s, i).packets # <<>>
         /\ \A sh : HeadInv(s, sh) => HeadInv(KeepFrom(s, i), sh)
<1> DEFINE q == s.packets
           n == Len(q)
           u == SubSeq(q, i, n)
           v == [u[1] EXCEPT !.frame.discontinuity = TRUE]
           h == [q[i].frame EXCEPT !.discontinuity = TRUE]
           p == [u EXCEPT ![1] = v]
           r == [s EXCEPT !.packets = p]
<1>1. /\ s \in State /\ q \in Seq(Packets) /\ n \in Nat /\ i \in Nat /\ i <= n
      /\ Queue(q, s.generation, s.codec, s.last, capacity) /\ Flags(s)
      /\ s.last \in Nat
  BY StateFields DEF SideInv
<1>2. KeepFrom(s, i) = r
  BY DEF KeepFrom
<1>3. /\ u \in Seq(Packets) /\ Len(u) = n - i + 1 /\ \A k \in 1..n - i + 1 : u[k] = q[i + k - 1]
  <2>1. \A k \in i..n : q[k] \in Packets
    BY <1>1, ElementOfSeq
  <2> HIDE DEF q, n
  <2> QED
    BY <1>1, <2>1, SubSeqProperties
<1>4. 1 \in 1..Len(u) /\ u[1] = q[i] /\ q[i] \in Packets /\ q[i].frame \in Frames
  <2>1. 1 \in 1..n - i + 1 /\ i + 1 - 1 = i
    BY <1>1
  <2>2. q[i] \in Packets /\ q[i].frame \in Frames
    BY <1>1, PacketFields
  <2> HIDE DEF q, n, u
  <2> QED
    BY <1>3, <2>1, <2>2
<1>5. /\ h \in Frames /\ h.discontinuity /\ h.generation = q[i].frame.generation
      /\ h.sequence = q[i].frame.sequence /\ h.codec = q[i].frame.codec /\ ~Dependent(h)
  BY <1>4, Marked
<1>6. v \in Packets /\ v.frame = h
  <2> HIDE DEF h
  <2>1. v = [q[i] EXCEPT !.frame = h]
    BY <1>4 DEF h
  <2> HIDE DEF v, q
  <2> QED
    BY <1>4, <1>5, <2>1 DEF Packets
<1> HIDE DEF h, v, u
<1>7. p \in Seq(Packets) /\ Len(p) = n - i + 1 /\ p[1] = v
      /\ \A k \in 1..n - i + 1 : k # 1 => p[k] = q[i + k - 1]
  <2>1. p \in Seq(Packets) /\ Len(p) = Len(u) /\ \A k \in 1..Len(u) : p[k] = IF k = 1 THEN v ELSE u[k]
    BY <1>3, <1>4, <1>6, ExceptSeq
  <2> HIDE DEF p, q, n
  <2> QED
    BY <1>3, <1>4, <2>1
<1>8. r \in State /\ r.packets = p /\ SameStream(r, s) /\ r.waitingForKey = s.waitingForKey
      /\ r.discontinuity = s.discontinuity /\ r.requestKey = s.requestKey
  <2> HIDE DEF p
  <2> QED
    BY <1>1, <1>7 DEF State, Packets, SameStream
<1> HIDE DEF p, r
<1>9. Suffix(p, q, i - 1) /\ i - 1 \in 0..n
  <2>1. i - 1 \in 0..n /\ n - i + 1 = n - (i - 1) /\ \A k \in 1..n - i + 1 : i + k - 1 = k + (i - 1)
    BY <1>1
  <2>2. 1 + (i - 1) = i
    BY <1>1
  <2>3. \A k \in 2..Len(p) : k # 1 /\ k \in 1..n - i + 1
    BY <1>1, <1>7
  <2> HIDE DEF q, n
  <2>4. \A k \in 2..Len(p) : p[k].frame = q[k + (i - 1)].frame
    BY <1>7, <2>1, <2>3
  <2>5. ASSUME NEW k \in 1..Len(p)
        PROVE  /\ p[k].frame.generation = q[k + (i - 1)].frame.generation
               /\ p[k].frame.sequence = q[k + (i - 1)].frame.sequence
               /\ p[k].frame.codec = q[k + (i - 1)].frame.codec
    <3>1. CASE k = 1
      BY <1>5, <1>6, <1>7, <2>2, <3>1
    <3>2. CASE k # 1
      BY <1>7, <2>1, <3>2
    <3> QED
      BY <3>1, <3>2
  <2> QED
    BY <1>7, <2>1, <2>4, <2>5 DEF Suffix, n
<1>10. Queue(p, s.generation, s.codec, s.last, capacity)
  BY <1>1, <1>7, <1>9, SuffixIsQueue
<1>11. p # <<>> /\ q # <<>>
  <2>1. Len(p) # 0 /\ Len(q) # 0
    BY <1>1, <1>7
  <2> QED
    BY <2>1, EmptySeq
<1>12. SideInv(r, capacity)
  <2>1. Flags(r)
    BY <1>1, <1>8, <1>11 DEF Flags, SameStream
  <2> QED
    BY <1>8, <1>10, <2>1 DEF SideInv, SameStream
<1>13. ASSUME NEW sh, HeadInv(s, sh) PROVE HeadInv(r, sh)
  <2>1. Restarts(p[1].frame)
    BY <1>5, <1>6, <1>7 DEF Restarts
  <2>2. /\ p[1].frame.generation = s.generation /\ p[1].frame.codec = s.codec
        /\ q[1].frame.sequence <= p[1].frame.sequence
    <3>1. 1 \in 1..n
      BY <1>1
    <3>2. q[1].frame.sequence <= q[i].frame.sequence
      <4>1. q[1].frame.sequence \in Nat /\ q[i].frame.sequence \in Nat
        BY <1>1, <3>1, PacketFields, FrameFields
      <4>2. CASE i = 1
        BY <4>1, <4>2
      <4>3. CASE i # 1
        <5>1. 1 < i
          BY <1>1, <4>3
        <5> QED
          <6>1. \A a, b \in 1..Len(q) : a < b => q[a].frame.sequence < q[b].frame.sequence
            BY <1>1 DEF Queue
          <6>2. q[1].frame.sequence < q[i].frame.sequence
            BY ONLY <6>1, <5>1, <3>1, i \in 1..n
          <6> QED
            BY ONLY <6>2, <4>1
      <4> QED
        BY <4>2, <4>3
    <3> QED
      BY <1>1, <1>5, <1>6, <1>7, <3>1, <3>2 DEF Queue
  <2>3. CASE sh = <<>>
    BY <1>8, <1>11, <1>13, <2>1, <2>3 DEF HeadInv, MayShow, SameStream
  <2>4. CASE sh # <<>>
    <3>1. Follows(sh[1], q[1].frame) /\ sh[1] \in Frames
      BY <1>11, <1>13, <2>4 DEF HeadInv, MayShow
    <3>2. sh[1].sequence < p[1].frame.sequence
      <4>1. /\ sh[1].sequence \in Nat /\ q[1].frame.sequence \in Nat /\ p[1].frame.sequence \in Nat
        <5>1. 1 \in 1..n /\ 1 \in 1..Len(p)
          <6>1. Len(p) = n - i + 1 /\ n \in Nat /\ i \in Nat /\ i <= n /\ i >= 1
            BY <1>1, <1>7
          <6> HIDE DEF n, p
          <6> QED
            BY ONLY <6>1
        <5> QED
          BY <1>1, <1>7, <3>1, <5>1, PacketFields, FrameFields
      <4>2. sh[1].sequence < q[1].frame.sequence
        BY <3>1, <4>1 DEF Follows
      <4> QED
        BY ONLY <2>2, <4>1, <4>2
    <3>3. Follows(sh[1], p[1].frame)
      BY <1>13, <2>1, <2>2, <2>4, <3>2 DEF Follows, HeadInv, Restarts
    <3> QED
      BY <1>8, <1>11, <1>13, <2>4, <3>3 DEF HeadInv, MayShow, SameStream
  <2> QED
    BY <2>3, <2>4
<1> QED
  BY <1>2, <1>8, <1>11, <1>12, <1>13

\* prune does one or the other, or nothing.
LEMMA PruneKeeps ==
  ASSUME NEW s, NEW capacity \in Nat, SideInv(s, capacity)
  PROVE  /\ SideInv(Prune(s), capacity) /\ SameStream(Prune(s), s)
         /\ \A sh : HeadInv(s, sh) => HeadInv(Prune(s), sh)
<1> DEFINE starts == {i \in 1..Len(s.packets) : ~s.packets[i].old /\ ~Dependent(s.packets[i].frame)}
           i == CHOOSE i \in starts : \A j \in starts : i <= j
<1>1. CASE s.packets = <<>> \/ ~s.packets[1].old
  <2>1. Prune(s) = s
    BY <1>1 DEF Prune
  <2> QED
    BY <2>1 DEF SameStream
<1>2. CASE ~(s.packets = <<>> \/ ~s.packets[1].old) /\ starts = {}
  <2>1. Prune(s) = Gap(s)
    BY <1>2 DEF Prune
  <2> QED
    BY <2>1, GapKeeps
<1>3. CASE ~(s.packets = <<>> \/ ~s.packets[1].old) /\ starts # {}
  <2>1. Prune(s) = KeepFrom(s, i)
    BY <1>3 DEF Prune
  <2>2. starts \subseteq Nat
    OBVIOUS
  <2> HIDE DEF starts
  <2>3. \E x \in starts : \A y \in starts : x <= y
    BY <1>3, <2>2, Smallest
  <2>4. i \in starts
    BY <2>3
  <2> HIDE DEF i
  <2>5. i \in 1..Len(s.packets) /\ ~Dependent(s.packets[i].frame)
    BY <2>4 DEF starts
  <2> QED
    BY <2>1, <2>5, KeepKeeps
<1> QED
  BY <1>1, <1>2, <1>3

(***************************************************************************)
(* Camera::push.                                                           *)
(***************************************************************************)

\* A later frame of the same activation and format may be queued behind the last.
LEMMA AppendIsQueue ==
  ASSUME NEW q \in Seq(Packets), NEW p \in Packets, NEW g, NEW c, NEW l \in Nat,
         NEW capacity \in Nat, Queue(q, g, c, l, capacity), Len(q) < capacity,
         p.frame.generation = g, p.frame.codec = c, l < p.frame.sequence,
         q # <<>> => Joins(q[Len(q)].frame, p.frame)
  PROVE  Append(q, p) \in Seq(Packets) /\ Queue(Append(q, p), g, c, p.frame.sequence, capacity)
<1> DEFINE a == Append(q, p)
           n == Len(q)
<1>1. /\ a \in Seq(Packets) /\ Len(a) = n + 1 /\ a[n + 1] = p /\ n \in Nat
      /\ \A i \in 1..n : a[i] = q[i]
  BY AppendProperties, LenProperties
<1>2. p.frame.sequence \in Nat
  <2>1. p.frame \in Frames
    BY DEF Packets
  <2> QED
    BY <2>1, FrameFields
<1>3. \A i \in 1..n : q[i].frame.sequence \in Nat /\ q[i].frame.sequence <= l
                        /\ q[i].frame.generation = g /\ q[i].frame.codec = c
  BY PacketFields, FrameFields DEF Queue
<1> HIDE DEF a
<1>4. Len(a) <= capacity
  BY <1>1
<1>5. ASSUME NEW i \in 1..Len(a)
      PROVE  a[i].frame.generation = g /\ a[i].frame.codec = c /\ a[i].frame.sequence <= p.frame.sequence
  <2>1. CASE i \in 1..n
    <3>1. a[i] = q[i]
      BY <1>1, <2>1
    <3>2. q[i].frame.sequence <= p.frame.sequence
      BY <1>2, <1>3, <2>1
    <3> QED
      BY <1>3, <2>1, <3>1, <3>2
  <2>2. CASE i = n + 1
    BY <1>1, <1>2, <2>2
  <2> QED
    BY <1>1, <2>1, <2>2
<1>6. ASSUME NEW i \in 1..Len(a), NEW j \in 1..Len(a), i < j
      PROVE  a[i].frame.sequence < a[j].frame.sequence
  <2>1. i \in 1..n /\ a[i] = q[i]
    BY <1>1, <1>6
  <2>2. CASE j \in 1..n
    BY <1>1, <1>6, <2>1, <2>2 DEF Queue
  <2>3. CASE j = n + 1
    <3>1. q[i].frame.sequence < p.frame.sequence
      BY <1>2, <1>3, <2>1
    <3> QED
      BY <1>1, <2>1, <2>3, <3>1
  <2> QED
    BY <1>1, <2>2, <2>3
<1>7. ASSUME NEW i \in 2..Len(a) PROVE Joins(a[i - 1].frame, a[i].frame)
  <2>1. i - 1 \in 1..n /\ a[i - 1] = q[i - 1]
    BY <1>1
  <2>2. CASE i \in 2..n
    <3>1. a[i] = q[i]
      BY <1>1, <2>2
    <3> QED
      BY <2>1, <2>2, <3>1 DEF Queue
  <2>3. CASE i = n + 1
    <3>1. i - 1 = n /\ n # 0
      BY <1>1, <2>3
    <3>2. q # <<>>
      BY <3>1, EmptySeq
    <3> QED
      BY <1>1, <2>1, <2>3, <3>1, <3>2
  <2> QED
    BY <1>1, <2>2, <2>3
<1>8. a[Len(a)].frame.sequence = p.frame.sequence
  BY <1>1
<1> HIDE DEF n
<1>9. Queue(a, g, c, p.frame.sequence, capacity)
  BY <1>4, <1>5, <1>6, <1>7, <1>8 DEF Queue
<1> QED
  BY <1>1, <1>9 DEF a

\* A frame is only taken from the activation and the format in force, after the last.
LEMMA Accepted ==
  ASSUME NEW s, NEW f, Verdict(s, f) = "accept"
  PROVE  /\ s.status = 2 /\ s.generation # 0 /\ f.generation = s.generation
         /\ ~(f.sequence <= s.last) /\ s.codec \in {None, f.codec}
  BY DEF Verdict

\* r follows s once frame f has been seen.
Saw(r, s, f) ==
  /\ r.status = s.status /\ r.generation = s.generation /\ r.lastGeneration = s.lastGeneration
  /\ r.last = f.sequence /\ r.codec = f.codec

\* What push makes of the state before it decides about the frame.
LEMMA SeenFields ==
  ASSUME NEW s \in State, NEW f \in Frames
  PROVE  LET r == [s EXCEPT !.codec = f.codec, !.last = f.sequence]
         IN  /\ r \in State /\ Saw(r, s, f) /\ r.packets = s.packets
             /\ r.discontinuity = s.discontinuity /\ r.waitingForKey = s.waitingForKey
             /\ r.requestKey = s.requestKey
<1> DEFINE r == [s EXCEPT !.codec = f.codec, !.last = f.sequence]
<1>1. f.codec \in Codecs \cup {None} /\ f.sequence \in 0..MaxSequence
  <2>1. f.codec \in Codecs /\ f.sequence \in 1..MaxSequence /\ MaxSequence \in Nat
    BY FrameFields, CameraAssumption
  <2> QED
    BY <2>1
<1>2. r \in State
  BY <1>1 DEF State
<1>3. /\ r.status = s.status /\ r.generation = s.generation /\ r.lastGeneration = s.lastGeneration
      /\ r.last = f.sequence /\ r.codec = f.codec /\ r.packets = s.packets
      /\ r.discontinuity = s.discontinuity /\ r.waitingForKey = s.waitingForKey
      /\ r.requestKey = s.requestKey
  BY DEF State
<1> HIDE DEF r
<1>4. Saw(r, s, f)
  BY <1>3 DEF Saw
<1> QED
  BY <1>2, <1>3, <1>4 DEF r

\* push keeps the queue one, and what it queues may follow what was shown.
LEMMA PushKeeps ==
  ASSUME NEW s, NEW capacity \in Nat \ {0}, SideInv(s, capacity), NEW f \in Frames,
         Verdict(s, f) = "accept"
  PROVE  /\ SideInv(Push(s, f, capacity), capacity) /\ Saw(Push(s, f, capacity), s, f)
         /\ \A sh : HeadInv(s, sh) => HeadInv(Push(s, f, capacity), sh)
<1> DEFINE seen == [s EXCEPT !.codec = f.codec, !.last = f.sequence]
           gap  == \/ s.last # 0 /\ f.sequence # s.last + 1
                   \/ f.discontinuity
                   \/ Len(s.packets) = capacity
           t    == IF gap THEN Gap(seen) ELSE seen
           b    == gap \/ t.discontinuity
           h    == [f EXCEPT !.discontinuity = b]
           p    == [frame |-> h, old |-> FALSE]
           w    == t.waitingForKey /\ ~f.key
           k    == t.requestKey /\ ~f.key
           q    == Append(t.packets, p)
           drop == [t EXCEPT !.requestKey = TRUE]
           took == [t EXCEPT !.waitingForKey = w, !.requestKey = k, !.discontinuity = FALSE,
                             !.packets = q]
<1>1. Push(s, f, capacity) = IF t.waitingForKey /\ Dependent(f) THEN drop ELSE took
  BY DEF Push
<1>2. /\ s \in State /\ Queue(s.packets, s.generation, s.codec, s.last, capacity) /\ Flags(s)
      /\ s.packets \in Seq(Packets) /\ s.last \in Nat /\ Len(s.packets) \in Nat
      /\ s.discontinuity \in BOOLEAN /\ s.waitingForKey \in BOOLEAN /\ s.requestKey \in BOOLEAN
      /\ capacity \in Nat /\ capacity # 0
  BY StateFields DEF SideInv
<1>3. /\ s.generation # 0 /\ f.generation = s.generation /\ s.last < f.sequence
      /\ s.codec \in {None, f.codec}
  BY <1>2, Accepted, FrameFields
<1>4. /\ f.key \in BOOLEAN /\ (f.codec = "MJPEG" => f.key) /\ (Dependent(f) <=> ~f.key)
      /\ f.sequence \in Nat /\ f.discontinuity \in BOOLEAN /\ f.codec # None
  BY FrameFields
<1>5. /\ seen \in State /\ Saw(seen, s, f) /\ seen.packets = s.packets
      /\ seen.discontinuity = s.discontinuity /\ seen.waitingForKey = s.waitingForKey
      /\ seen.requestKey = s.requestKey
  BY <1>2, SeenFields
<1>6. /\ gap \in BOOLEAN
      /\ ~gap => (s.last # 0 => f.sequence = s.last + 1) /\ Len(s.packets) < capacity
  <2>1. Len(s.packets) <= capacity
    BY <1>2 DEF Queue
  <2> QED
    BY <1>2, <2>1
<1> HIDE DEF seen, gap
<1>7. /\ t \in State /\ Saw(t, s, f) /\ Flags(t)
      /\ gap => t.packets = <<>> /\ Restarting(t)
      /\ ~gap => /\ t.packets = s.packets /\ t.discontinuity = s.discontinuity
                 /\ t.waitingForKey = s.waitingForKey
  <2>1. CASE gap
    <3> DEFINE r == Gap(seen)
    <3>1. t = r
      BY <2>1
    <3>2. /\ r \in State /\ SameStream(r, seen) /\ r.packets = <<>> /\ r.discontinuity
          /\ r.waitingForKey = (seen.waitingForKey \/ seen.codec # "MJPEG")
          /\ r.requestKey = (seen.requestKey \/ seen.codec # "MJPEG")
      BY <1>5, GapFields
    <3> HIDE DEF r, t
    <3>3. Saw(r, s, f) /\ Restarting(r)
      BY <1>5, <3>2 DEF Saw, SameStream, Restarting
    <3>4. Flags(r)
      BY <1>2, <1>5, <3>2, <3>3 DEF Flags, Saw
    <3> QED
      BY <2>1, <3>1, <3>2, <3>3, <3>4
  <2>2. CASE ~gap
    <3>1. t = seen
      BY <2>2
    <3>2. Flags(seen)
      BY <1>2, <1>5 DEF Flags, Saw
    <3> HIDE DEF t
    <3> QED
      BY <1>5, <2>2, <3>1, <3>2
  <2> QED
    BY <2>1, <2>2
<1> HIDE DEF t
<1>8. t.packets \in Seq(Packets) /\ t.discontinuity \in BOOLEAN /\ t.waitingForKey \in BOOLEAN
      /\ t.requestKey \in BOOLEAN
  BY <1>7, StateFields
<1>9. b \in BOOLEAN /\ w \in BOOLEAN /\ k \in BOOLEAN
  BY <1>4, <1>6, <1>8
<1>10. /\ h \in Frames /\ h.discontinuity = b /\ h.generation = f.generation
       /\ h.sequence = f.sequence /\ h.codec = f.codec /\ (Dependent(h) <=> Dependent(f))
  <2> HIDE DEF b
  <2> QED
    BY <1>9, Marked
<1> HIDE DEF h
<1>11. p \in Packets /\ p.frame = h
  BY <1>10 DEF Packets
<1> HIDE DEF p
\* The application is shown nothing here, and what it was shown stays behind.
<1>12. ASSUME NEW sh, HeadInv(s, sh), sh # <<>>
       PROVE  /\ sh[1] \in Frames /\ sh[1].generation = f.generation /\ sh[1].codec = f.codec
              /\ sh[1].sequence < f.sequence /\ sh[1].sequence \in Nat /\ sh[1].sequence # 0
  <2>1. /\ sh[1] \in Frames /\ sh[1].generation = s.generation /\ sh[1].codec = s.codec
        /\ sh[1].sequence <= s.last
    BY <1>12 DEF HeadInv
  <2>2. sh[1].codec # None /\ sh[1].sequence \in Nat /\ sh[1].sequence # 0
    BY <2>1, FrameFields
  <2> QED
    BY <1>2, <1>3, <1>4, <2>1, <2>2
\* A dependent frame that finds no reference.
<1>13. CASE t.waitingForKey /\ Dependent(f)
  <2>1. Push(s, f, capacity) = drop
    BY <1>1, <1>13
  <2>2. /\ drop \in State /\ drop.status = t.status /\ drop.generation = t.generation
        /\ drop.lastGeneration = t.lastGeneration /\ drop.last = t.last /\ drop.codec = t.codec
        /\ drop.packets = t.packets /\ drop.discontinuity = t.discontinuity
        /\ drop.waitingForKey = t.waitingForKey /\ drop.requestKey = TRUE
    BY <1>7 DEF State
  <2> HIDE DEF drop
  <2>3. drop.packets = <<>> /\ Saw(drop, s, f) /\ Flags(drop) /\ Restarting(drop)
    BY <1>7, <1>13, <2>2 DEF Flags, Saw, Restarting
  <2>4. SideInv(drop, capacity)
    BY <1>2, <2>2, <2>3, EmptyIsQueue DEF SideInv
  <2>5. ASSUME NEW sh, HeadInv(s, sh) PROVE HeadInv(drop, sh)
    <3>1. drop.generation = f.generation /\ drop.codec = f.codec /\ drop.last = f.sequence
      BY <1>3, <2>3 DEF Saw
    <3>2. sh # <<>> =>
            /\ sh[1] \in Frames /\ sh[1].generation = drop.generation /\ sh[1].codec = drop.codec
            /\ sh[1].sequence <= drop.last
      BY <1>4, <1>12, <2>5, <3>1
    <3> QED
      BY <2>3, <3>2 DEF HeadInv
  <2> QED
    BY <2>1, <2>3, <2>4, <2>5
\* A frame that is queued.
<1>14. CASE ~(t.waitingForKey /\ Dependent(f))
  <2>1. Push(s, f, capacity) = took
    BY <1>1, <1>14
  <2>2. ~w
    BY <1>4, <1>14
  <2>3. s.packets # <<>> => s.codec = f.codec /\ s.packets[Len(s.packets)].frame.sequence = s.last
                              /\ s.last # 0 /\ s.packets[1].frame.codec = f.codec
    <3>1. SUFFICES ASSUME s.packets # <<>>
                   PROVE  /\ s.codec = f.codec /\ s.packets[Len(s.packets)].frame.sequence = s.last
                          /\ s.last # 0 /\ s.packets[1].frame.codec = f.codec
      OBVIOUS
    <3>2. Len(s.packets) \in 1..Len(s.packets) /\ 1 \in 1..Len(s.packets)
      <4>1. Len(s.packets) # 0
        BY <1>2, <3>1, EmptySeq
      <4> QED
        BY <1>2, <4>1
    <3>3. /\ s.packets[1].frame.codec = s.codec
          /\ s.packets[Len(s.packets)].frame.sequence = s.last
      BY <1>2, <3>1, <3>2 DEF Queue
    <3>4. s.packets[1].frame.codec # None /\ s.packets[Len(s.packets)].frame.sequence # 0
      BY <1>2, <3>2, PacketFields, FrameFields
    <3> QED
      BY <1>3, <3>3, <3>4
  <2>4. /\ q \in Seq(Packets) /\ Queue(q, f.generation, f.codec, f.sequence, capacity)
        /\ q # <<>> /\ q[1] = IF t.packets = <<>> THEN p ELSE t.packets[1]
    <3>1. CASE t.packets = <<>>
      <4>1. t.packets \in Seq(Packets) /\ Queue(t.packets, f.generation, f.codec, s.last, capacity)
            /\ Len(t.packets) < capacity
        <5>1. Len(<<>>) = 0 /\ 0 < capacity
          BY <1>2
        <5> QED
          BY <1>2, <3>1, <5>1, EmptyIsQueue
      <4>2. q \in Seq(Packets) /\ Queue(q, f.generation, f.codec, f.sequence, capacity)
        BY <1>2, <1>3, <1>10, <1>11, <3>1, <4>1, AppendIsQueue
      <4>3. Len(q) = 1 /\ Len(q) # 0 /\ q[1] = p
        BY <1>11, <3>1
      <4> HIDE DEF q
      <4>4. q # <<>>
        BY <4>2, <4>3, EmptySeq
      <4> QED
        BY <3>1, <4>2, <4>3, <4>4
    <3>2. CASE t.packets # <<>>
      <4>1. ~gap /\ t.packets = s.packets
        BY <1>6, <1>7, <3>2
      <4>2. Queue(s.packets, f.generation, f.codec, s.last, capacity) /\ Len(s.packets) < capacity
        BY <1>2, <1>3, <1>6, <2>3, <3>2, <4>1
      <4>3. Joins(s.packets[Len(s.packets)].frame, p.frame)
        BY <1>6, <1>10, <1>11, <2>3, <3>2, <4>1 DEF Joins
      <4>4. q \in Seq(Packets) /\ Queue(q, f.generation, f.codec, f.sequence, capacity)
        BY <1>2, <1>3, <1>10, <1>11, <4>1, <4>2, <4>3, AppendIsQueue
      <4>5. Len(s.packets) # 0
        BY <1>2, <3>2, <4>1, EmptySeq
      <4>6. Len(q) # 0 /\ q[1] = s.packets[1]
        <5>1. 1 \in 1..Len(s.packets) /\ Len(q) = Len(s.packets) + 1
          BY <1>2, <1>11, <4>1, <4>5, AppendProperties
        <5> QED
          BY <1>2, <1>11, <4>1, <5>1, AppendProperties
      <4> HIDE DEF q
      <4>7. q # <<>>
        BY <4>4, <4>6, EmptySeq
      <4> QED
        BY <3>2, <4>1, <4>4, <4>6, <4>7
    <3> QED
      BY <3>1, <3>2
  <2> HIDE DEF q, w, k
  <2>5. /\ took \in State /\ took.status = t.status /\ took.generation = t.generation
        /\ took.lastGeneration = t.lastGeneration /\ took.last = t.last /\ took.codec = t.codec
        /\ took.packets = q /\ took.discontinuity = FALSE
        /\ took.waitingForKey = w /\ took.requestKey = k
    BY <1>7, <1>9, <2>4 DEF State, Packets
  <2> HIDE DEF took
  <2>6. Saw(took, s, f) /\ Flags(took)
    BY <1>7, <2>2, <2>5 DEF Flags, Saw
  <2>7. took.generation = f.generation /\ took.codec = f.codec /\ took.last = f.sequence
    BY <1>3, <2>6 DEF Saw
  <2>8. SideInv(took, capacity)
    BY <2>4, <2>5, <2>6, <2>7 DEF SideInv
  <2>9. ASSUME NEW sh, HeadInv(s, sh) PROVE HeadInv(took, sh)
    <3>1. sh # <<>> =>
            /\ sh[1] \in Frames /\ sh[1].generation = took.generation /\ sh[1].codec = took.codec
            /\ sh[1].sequence <= took.last
      BY <1>4, <1>12, <2>7, <2>9
    <3>2. ASSUME Restarts(h) PROVE MayShow(sh, h)
      BY <1>10, <1>12, <2>9, <3>2 DEF MayShow, Follows, Restarts
    <3>3. MayShow(sh, q[1].frame)
      <4>1. CASE t.packets # <<>>
        <5>1. ~gap /\ t.packets = s.packets
          BY <1>6, <1>7, <4>1
        <5> QED
          BY <2>4, <2>9, <4>1, <5>1 DEF HeadInv
      <4>2. CASE t.packets = <<>> /\ gap
        <5>1. Restarts(h)
          <6>1. h.discontinuity
            BY <1>10, <4>2
          <6>2. ~Dependent(f)
            BY <1>4, <1>7, <1>14, <4>2 DEF Restarting, Saw
          <6> QED
            BY <1>10, <6>1, <6>2 DEF Restarts
        <5> QED
          BY <1>11, <2>4, <3>2, <4>2, <5>1
      <4>3. CASE t.packets = <<>> /\ ~gap /\ Restarting(s)
        <5>1. Restarts(h)
          <6>1. h.discontinuity
            BY <1>7, <1>10, <4>3 DEF Restarting
          <6>2. ~Dependent(f)
            BY <1>3, <1>4, <1>7, <1>14, <4>3 DEF Restarting, None
          <6> QED
            BY <1>10, <6>1, <6>2 DEF Restarts
        <5> QED
          BY <1>11, <2>4, <3>2, <4>3, <5>1
      <4>4. CASE t.packets = <<>> /\ ~gap /\ ~Restarting(s)
        <5>1. sh # <<>> /\ sh[1].sequence = s.last
          BY <1>3, <1>7, <2>9, <4>4 DEF HeadInv
        <5>2. f.sequence = sh[1].sequence + 1
          BY <1>6, <1>12, <2>9, <4>4, <5>1
        <5>3. Follows(sh[1], h)
          BY <1>10, <1>12, <2>9, <5>1, <5>2 DEF Follows
        <5> QED
          BY <1>11, <2>4, <4>4, <5>1, <5>3 DEF MayShow
      <4> QED
        BY <1>6, <4>1, <4>2, <4>3, <4>4
    <3> QED
      BY <2>4, <2>5, <3>1, <3>3 DEF HeadInv
  <2> QED
    BY <2>1, <2>6, <2>8, <2>9
<1> QED
  BY <1>13, <1>14

(***************************************************************************)
(* The other operations on a State.                                        *)
(***************************************************************************)

\* enable, source and sink: only the status changes.
LEMMA StatusKeeps ==
  ASSUME NEW s, NEW capacity \in Nat, SideInv(s, capacity), NEW n \in 0..3
  PROVE  LET r == [s EXCEPT !.status = n]
         IN  /\ SideInv(r, capacity) /\ (\A sh : HeadInv(s, sh) => HeadInv(r, sh))
             /\ r.generation = s.generation /\ r.lastGeneration = s.lastGeneration
             /\ r.codec = s.codec
<1> DEFINE r == [s EXCEPT !.status = n]
<1>1. s \in State /\ Queue(s.packets, s.generation, s.codec, s.last, capacity) /\ Flags(s)
  BY DEF SideInv
<1>2. /\ r \in State /\ r.generation = s.generation /\ r.lastGeneration = s.lastGeneration
      /\ r.last = s.last /\ r.codec = s.codec /\ r.packets = s.packets
      /\ r.discontinuity = s.discontinuity /\ r.waitingForKey = s.waitingForKey
      /\ r.requestKey = s.requestKey
  BY <1>1 DEF State
<1> HIDE DEF r
<1>3. Flags(r)
  BY <1>1, <1>2 DEF Flags
<1>4. SideInv(r, capacity)
  BY <1>1, <1>2, <1>3 DEF SideInv
<1>5. ASSUME NEW sh, HeadInv(s, sh) PROVE HeadInv(r, sh)
  BY <1>2, <1>5 DEF HeadInv, Restarting
<1> QED
  BY <1>2, <1>4, <1>5 DEF r

\* activate: the first frame of an activation will restart the stream.
LEMMA ActivatedKeeps ==
  ASSUME NEW s, NEW capacity \in Nat, SideInv(s, capacity), NEW g \in 0..MaxGeneration
  PROVE  LET r == Activated(s, g)
         IN  /\ SideInv(r, capacity) /\ HeadInv(r, <<>>) /\ r.generation = g /\ r.codec = None
             /\ r.lastGeneration = IF g # 0 THEN g ELSE s.lastGeneration
<1> DEFINE l == IF g # 0 THEN g ELSE s.lastGeneration
           k == g # 0
           r == [s EXCEPT !.generation = g, !.lastGeneration = l, !.last = 0, !.codec = None,
                          !.packets = <<>>, !.waitingForKey = TRUE, !.requestKey = k,
                          !.discontinuity = TRUE]
<1>1. s \in State /\ Flags(s)
  BY DEF SideInv
<1>2. /\ l \in 0..MaxGeneration /\ k \in BOOLEAN /\ <<>> \in Seq(Packets) /\ 0 \in 0..MaxSequence
      /\ None \in Codecs \cup {None}
  <2>1. s.lastGeneration \in 0..MaxGeneration /\ MaxSequence \in Nat
    BY <1>1, StateFields, CameraAssumption
  <2> QED
    BY <2>1, EmptySeq
<1>3. Activated(s, g) = r
  BY DEF Activated
<1> HIDE DEF l, k
<1>4. /\ r \in State /\ r.generation = g /\ r.lastGeneration = l /\ r.last = 0 /\ r.codec = None
      /\ r.packets = <<>> /\ r.waitingForKey = TRUE /\ r.requestKey = k /\ r.discontinuity = TRUE
  BY <1>1, <1>2 DEF State, Packets
<1> HIDE DEF r
<1>5. Flags(r)
  BY <1>4 DEF Flags, l, k
<1>6. SideInv(r, capacity)
  BY <1>4, <1>5, EmptyIsQueue DEF SideInv
<1>7. HeadInv(r, <<>>)
  BY <1>4 DEF HeadInv, Restarting
<1> QED
  BY <1>3, <1>4, <1>6, <1>7 DEF l

\* An error leaves no activation and no frame.
LEMMA FailedKeeps ==
  ASSUME NEW s, NEW capacity \in Nat, SideInv(s, capacity)
  PROVE  LET r == Failed(s)
         IN  /\ SideInv(r, capacity) /\ HeadInv(r, <<>>) /\ r.generation = 0
             /\ r.codec = s.codec /\ r.lastGeneration = s.lastGeneration
<1> DEFINE r == [s EXCEPT !.status = 3, !.generation = 0, !.packets = <<>>, !.requestKey = FALSE]
<1>1. s \in State /\ Flags(s)
  BY DEF SideInv
<1>2. 3 \in 0..3 /\ 0 \in 0..MaxGeneration /\ <<>> \in Seq(Packets)
  BY CameraAssumption, EmptySeq
<1>3. Failed(s) = r
  BY DEF Failed
<1>4. /\ r \in State /\ r.generation = 0 /\ r.lastGeneration = s.lastGeneration
      /\ r.codec = s.codec /\ r.packets = <<>> /\ r.waitingForKey = s.waitingForKey
      /\ r.discontinuity = s.discontinuity
  BY <1>1, <1>2 DEF State, Packets
<1> HIDE DEF r
<1>5. Flags(r)
  BY <1>1, <1>4 DEF Flags
<1>6. SideInv(r, capacity)
  BY <1>4, <1>5, EmptyIsQueue DEF SideInv
<1>7. HeadInv(r, <<>>)
  BY <1>4 DEF HeadInv
<1> QED
  BY <1>3, <1>4, <1>6, <1>7

\* The first frame of a queue is taken: the next one may follow it.
LEMMA TakeKeeps ==
  ASSUME NEW s, NEW capacity \in Nat, SideInv(s, capacity), s.packets # <<>>
  PROVE  LET r == [s EXCEPT !.packets = Tail(@)]
             f == s.packets[1].frame
         IN  /\ SideInv(r, capacity) /\ r.generation = s.generation /\ r.codec = s.codec
             /\ r.lastGeneration = s.lastGeneration
             /\ f \in Frames /\ f.generation = s.generation /\ f.codec = s.codec
             /\ HeadInv(r, <<f>>)
<1> DEFINE q == s.packets
           p == Tail(q)
           f == q[1].frame
           r == [s EXCEPT !.packets = p]
<1>1. /\ s \in State /\ Queue(q, s.generation, s.codec, s.last, capacity) /\ Flags(s)
      /\ q \in Seq(Packets) /\ Len(q) \in Nat /\ Len(q) # 0
  BY StateFields, EmptySeq DEF SideInv
<1>2. /\ p \in Seq(Packets) /\ Len(p) = Len(q) - 1 /\ \A i \in 1..Len(p) : p[i] = q[i + 1]
  BY <1>1, HeadTailProperties
<1>3. 1 \in 1..Len(q) /\ Len(q) \in 1..Len(q) /\ 1 \in 0..Len(q)
  BY <1>1
<1>4. /\ f \in Frames /\ f.generation = s.generation /\ f.codec = s.codec /\ f.sequence <= s.last
  BY <1>1, <1>3, PacketFields DEF Queue
<1> HIDE DEF p
<1>5. /\ r \in State /\ r.generation = s.generation /\ r.lastGeneration = s.lastGeneration
      /\ r.last = s.last /\ r.codec = s.codec /\ r.packets = p
      /\ r.discontinuity = s.discontinuity /\ r.waitingForKey = s.waitingForKey
      /\ r.requestKey = s.requestKey
  BY <1>1, <1>2 DEF State, Packets
<1> HIDE DEF r
<1>6. Flags(r)
  BY <1>1, <1>5 DEF Flags
<1>7. Queue(p, s.generation, s.codec, s.last, capacity)
  <2>1. Suffix(p, q, 1)
    <3>1. \A k \in 2..Len(p) : k \in 1..Len(p)
      BY <1>1, <1>2
    <3> QED
      BY <1>2, <3>1 DEF Suffix
  <2> QED
    BY <1>1, <1>2, <1>3, <2>1, SuffixIsQueue
<1>8. SideInv(r, capacity)
  BY <1>5, <1>6, <1>7 DEF SideInv
<1>9. HeadInv(r, <<f>>)
  <2>1. p # <<>> => Follows(f, p[1].frame)
    <3>1. SUFFICES ASSUME p # <<>> PROVE Follows(f, p[1].frame)
      OBVIOUS
    <3>2. Len(p) # 0
      BY <1>2, <3>1, EmptySeq
    <3>3. 1 \in 1..Len(p) /\ 2 \in 2..Len(q) /\ 2 \in 1..Len(q) /\ 2 - 1 = 1 /\ 1 + 1 = 2
      <4>1. Len(p) \in Nat
        BY <1>2, LenProperties
      <4>2. \A m, n \in Nat : m = n - 1 /\ m # 0 => 1 \in 1..m /\ 2 \in 2..n /\ 2 \in 1..n
        OBVIOUS
      <4>3. 2 - 1 = 1 /\ 1 + 1 = 2
        OBVIOUS
      <4> HIDE DEF q
      <4> QED
        BY <1>1, <1>2, <3>2, <4>1, <4>2, <4>3
    <3>4. p[1] = q[2]
      BY <1>2, <3>3
    <3>5. Joins(q[2 - 1].frame, q[2].frame)
      BY <1>1, <3>3 DEF Queue
    <3>6. /\ q[2].frame.generation = s.generation /\ q[2].frame.codec = s.codec
          /\ q[1].frame.sequence < q[2].frame.sequence
      BY <1>1, <1>3, <3>3 DEF Queue
    <3> QED
      BY <1>4, <3>3, <3>4, <3>5, <3>6 DEF Follows, Joins, Restarts
  <2>2. p = <<>> => f.sequence = s.last
    <3>1. SUFFICES ASSUME p = <<>> PROVE f.sequence = s.last
      OBVIOUS
    <3>2. Len(q) = 1
      BY <1>1, <1>2, <3>1
    <3> QED
      BY <1>1, <3>2 DEF Queue
  <2> HIDE DEF f
  <2>3. <<f>> # <<>> /\ <<f>>[1] = f
    OBVIOUS
  <2> QED
    BY <1>4, <1>5, <2>1, <2>2, <2>3 DEF HeadInv, MayShow
<1> QED
  BY <1>4, <1>5, <1>8, <1>9 DEF r, p

\* A frame that becomes too old stays where it is.
LEMMA ExpireKeeps ==
  ASSUME NEW s, NEW capacity \in Nat, SideInv(s, capacity), NEW i \in 1..Len(s.packets)
  PROVE  LET r == [s EXCEPT !.packets[i].old = TRUE]
         IN  /\ SideInv(r, capacity) /\ (\A sh : HeadInv(s, sh) => HeadInv(r, sh))
             /\ r.generation = s.generation /\ r.lastGeneration = s.lastGeneration
             /\ r.codec = s.codec
<1> DEFINE q == s.packets
           v == [q[i] EXCEPT !.old = TRUE]
           p == [q EXCEPT ![i] = v]
           r == [s EXCEPT !.packets = p]
<1>1. /\ s \in State /\ Queue(q, s.generation, s.codec, s.last, capacity) /\ Flags(s)
      /\ q \in Seq(Packets) /\ Len(q) \in Nat
  BY StateFields DEF SideInv
<1>2. [s EXCEPT !.packets[i].old = TRUE] = r
  OBVIOUS
<1>3. v \in Packets /\ v.frame = q[i].frame
  <2>1. q[i] \in Packets
    BY <1>1, PacketFields
  <2> HIDE DEF q
  <2> QED
    BY <2>1 DEF Packets
<1> HIDE DEF v
<1>4. p \in Seq(Packets) /\ Len(p) = Len(q) /\ \A j \in 1..Len(q) : p[j].frame = q[j].frame
  <2>1. p \in Seq(Packets) /\ Len(p) = Len(q) /\ \A j \in 1..Len(q) : p[j] = IF j = i THEN v ELSE q[j]
    BY <1>1, <1>3, ExceptSeq
  <2> HIDE DEF p, q
  <2> QED
    BY <1>3, <2>1
<1> HIDE DEF p
<1>5. /\ r \in State /\ r.generation = s.generation /\ r.lastGeneration = s.lastGeneration
      /\ r.last = s.last /\ r.codec = s.codec /\ r.packets = p
      /\ r.discontinuity = s.discontinuity /\ r.waitingForKey = s.waitingForKey
      /\ r.requestKey = s.requestKey
  BY <1>1, <1>4 DEF State, Packets
<1> HIDE DEF r
<1>6. p # <<>> /\ q # <<>> /\ p[1].frame = q[1].frame
  <2>1. Len(q) # 0 /\ 1 \in 1..Len(q)
    BY <1>1
  <2> QED
    BY <1>1, <1>4, <2>1, EmptySeq
<1>7. Queue(p, s.generation, s.codec, s.last, capacity)
  <2>1. 0 \in 0..Len(q) /\ Len(q) = Len(q) - 0 /\ \A k \in 1..Len(q) : k + 0 = k
    BY <1>1
  <2>2. \A k \in 2..Len(p) : k \in 1..Len(q)
    BY <1>1, <1>4
  <2>3. Suffix(p, q, 0)
    BY <1>4, <2>1, <2>2 DEF Suffix
  <2> QED
    BY <1>1, <1>4, <2>1, <2>3, SuffixIsQueue
<1>8. SideInv(r, capacity)
  BY <1>1, <1>5, <1>6, <1>7 DEF SideInv, Flags
<1>9. ASSUME NEW sh, HeadInv(s, sh) PROVE HeadInv(r, sh)
  BY <1>5, <1>6, <1>9 DEF HeadInv, MayShow
<1> QED
  BY <1>2, <1>5, <1>8, <1>9

(***************************************************************************)
(* One activation, one format: WireInv.                                    *)
(***************************************************************************)

\* r knows as much of activations and formats as s.
Alike(r, s) ==
  r.generation = s.generation /\ r.lastGeneration = s.lastGeneration /\ r.codec = s.codec

LEMMA WireAlike ==
  ASSUME NEW c, NEW h, NEW u, WireInv(c, h, u), NEW c2, Alike(c2, c), NEW h2, Alike(h2, h),
         NEW v \in SUBSET u
  PROVE  WireInv(c2, h2, v)
  BY DEF WireInv, Alike

\* The Client's activations only grow.
LEMMA WireClientActivates ==
  ASSUME NEW c \in State, NEW h \in State, NEW u \in SUBSET Frames, WireInv(c, h, u),
         NEW g \in 0..MaxGeneration, g = 0 \/ g > c.lastGeneration,
         NEW c2, c2.generation = g, c2.lastGeneration = IF g # 0 THEN g ELSE c.lastGeneration
  PROVE  WireInv(c2, h, u)
<1>1. /\ c.lastGeneration \in Nat /\ h.generation \in Nat /\ g \in Nat
      /\ \A f \in u : f.generation \in Nat /\ f.generation # 0
  BY StateFields, FrameFields, CameraAssumption
<1>2. \A n \in Nat : n <= c.lastGeneration => n <= c2.lastGeneration /\ (n # 0 => n # g)
  BY <1>1
<1>3. \A f \in u : f.generation <= c2.lastGeneration /\ f.generation # c2.generation
  BY <1>1, <1>2 DEF WireInv
<1>4. h.generation # 0 /\ h.codec # None =>
        h.generation <= c2.lastGeneration /\ h.generation # c2.generation
  BY <1>1, <1>2 DEF WireInv
<1> QED
  BY <1>3, <1>4 DEF WireInv

LEMMA WireClientFails ==
  ASSUME NEW c, NEW h, NEW u \in SUBSET Frames, WireInv(c, h, u),
         NEW c2, c2.generation = 0, c2.lastGeneration = c.lastGeneration
  PROVE  WireInv(c2, h, u)
<1>1. \A f \in u : f.generation # 0
  BY FrameFields
<1> QED
  BY <1>1 DEF WireInv

\* The Client's first frame settles the format of the activation.
LEMMA WireClientSees ==
  ASSUME NEW c, NEW h, NEW u \in SUBSET Frames, WireInv(c, h, u), NEW f \in Frames,
         c.codec \in {None, f.codec}, NEW c2, Saw(c2, c, f)
  PROVE  WireInv(c2, h, u)
<1>1. \A x \in u : x.codec # None
  BY FrameFields
<1> QED
  BY <1>1 DEF WireInv, Saw

LEMMA WireTakes ==
  ASSUME NEW c, NEW h, NEW u \in SUBSET Frames, WireInv(c, h, u), Flags(c), NEW f \in Frames,
         f.generation = c.generation, f.codec = c.codec
  PROVE  WireInv(c, h, u \cup {f})
<1>1. f.generation # 0 /\ f.generation \in Nat
  BY FrameFields
<1>2. f.generation <= c.lastGeneration
  BY <1>1 DEF Flags
<1> QED
  BY <1>2 DEF WireInv

\* The Host takes the format over from a frame that is under way.
LEMMA WireHostSees ==
  ASSUME NEW c, NEW h, NEW u \in SUBSET Frames, WireInv(c, h, u), NEW f \in u,
         f.generation = h.generation, NEW h2, Saw(h2, h, f), NEW v \in SUBSET u
  PROVE  WireInv(c, h2, v)
  BY DEF WireInv, Saw

LEMMA WireHostForgets ==
  ASSUME NEW c, NEW h, NEW u, WireInv(c, h, u), NEW h2, h2.generation = 0 \/ h2.codec = None,
         NEW v \in SUBSET u
  PROVE  WireInv(c, h2, v)
  BY DEF WireInv

\* A frame that is under way is never of another format than the Host's activation.
LEMMA NoOtherFormat ==
  ASSUME NEW c, NEW h, NEW u, WireInv(c, h, u), NEW f \in u
  PROVE  Verdict(h, f) # "argument"
  BY DEF WireInv, Verdict

(***************************************************************************)
(* The invariant.                                                          *)
(***************************************************************************)

LEMMA Capacities ==
  /\ Capacity["client"] = SendFrames /\ Capacity["host"] = ReceiveFrames
  /\ SendFrames \in Nat \ {0} /\ ReceiveFrames \in Nat \ {0}
  /\ \A side \in Sides : Capacity[side] \in Nat \ {0} /\ Capacity[side] \in Nat
  BY CameraAssumption DEF Capacity, Sides

LEMMA InitHolds ==
  ASSUME CameraInit PROVE CameraLaneInv
<1> DEFINE s == Initial
<1>1. /\ s \in State /\ s.generation = 0 /\ s.packets = <<>> /\ ~s.waitingForKey /\ s.codec = None
  <2>1. 0 \in 0..3 /\ 0 \in 0..MaxGeneration /\ 0 \in 0..MaxSequence /\ None \in Codecs \cup {None}
        /\ <<>> \in Seq(Packets)
    BY CameraAssumption, EmptySeq
  <2> QED
    BY <2>1 DEF Initial, State, Packets
<1> HIDE DEF s
<1>2. Flags(s) /\ HeadInv(s, <<>>)
  BY <1>1 DEF Flags, HeadInv
<1>3. \A side \in Sides : SideInv(s, Capacity[side])
  BY <1>1, <1>2, Capacities, EmptyIsQueue DEF SideInv
<1>4. WireInv(s, s, {})
  BY <1>1 DEF WireInv
<1>5. /\ lane \in [Sides -> State] /\ lane["client"] = s /\ lane["host"] = s
      /\ \A side \in Sides : lane[side] = s
  BY <1>1 DEF CameraInit, s, Sides
<1>6. shown = <<>> /\ <<>> \in Seq(Frames) /\ Len(<<>>) <= 1
  BY EmptySeq DEF CameraInit
<1>7. wire = {} /\ hole = FALSE /\ cause = None
  BY DEF CameraInit
<1> QED
  BY <1>2, <1>3, <1>4, <1>5, <1>6, <1>7 DEF CameraLaneInv

\* A step that gives one side another State.
LEMMA OneSide ==
  ASSUME CameraLaneInv, NEW side \in Sides, NEW r, SideInv(r, Capacity[side]),
         lane' = [lane EXCEPT ![side] = r]
  PROVE  /\ lane' \in [Sides -> State] /\ lane'[side] = r
         /\ \A x \in Sides : SideInv(lane'[x], Capacity[x])
         /\ \A x \in Sides : x # side => lane'[x] = lane[x]
<1>1. r \in State
  BY DEF SideInv
<1> QED
  BY <1>1 DEF CameraLaneInv

LEMMA Parts ==
  ASSUME CameraLaneInv
  PROVE  /\ lane["client"] \in State /\ lane["host"] \in State
         /\ SideInv(lane["client"], SendFrames) /\ SideInv(lane["host"], ReceiveFrames)
         /\ SideInv(lane["client"], Capacity["client"]) /\ SideInv(lane["host"], Capacity["host"])
         /\ "client" \in Sides /\ "host" \in Sides /\ "client" # "host"
         /\ HeadInv(lane["host"], shown) /\ WireInv(lane["client"], lane["host"], wire)
         /\ wire \in SUBSET Frames
  BY Capacities DEF CameraLaneInv, Sides

\* The Client's side alone changes.
LEMMA ClientStep ==
  ASSUME CameraLaneInv, NEW r, SideInv(r, SendFrames), lane' = [lane EXCEPT !["client"] = r],
         wire' \in SUBSET Frames, WireInv(r, lane["host"], wire'), UNCHANGED <<hole, shown, cause>>
  PROVE  CameraLaneInv'
<1>1. /\ lane' \in [Sides -> State] /\ lane'["client"] = r /\ lane'["host"] = lane["host"]
      /\ \A x \in Sides : SideInv(lane'[x], Capacity[x])
  BY OneSide, Parts, Capacities
<1>2. HeadInv(lane'["host"], shown')
  BY <1>1, Parts
<1>3. WireInv(lane'["client"], lane'["host"], wire')
  BY <1>1
<1>4. /\ wire' \subseteq Frames /\ hole' \in BOOLEAN /\ shown' \in Seq(Frames) /\ Len(shown') <= 1
      /\ cause' \in {None, "transport"}
  BY DEF CameraLaneInv
<1> QED
  BY <1>1, <1>2, <1>3, <1>4 DEF CameraLaneInv

\* The Host's side alone changes.
LEMMA HostStep ==
  ASSUME CameraLaneInv, NEW r, SideInv(r, ReceiveFrames), lane' = [lane EXCEPT !["host"] = r],
         HeadInv(r, shown'), wire' \in SUBSET wire, WireInv(lane["client"], r, wire'),
         hole' \in BOOLEAN, shown' \in Seq(Frames), Len(shown') <= 1,
         cause' \in {None, "transport"}
  PROVE  CameraLaneInv'
<1>1. /\ lane' \in [Sides -> State] /\ lane'["host"] = r /\ lane'["client"] = lane["client"]
      /\ \A x \in Sides : SideInv(lane'[x], Capacity[x])
  BY OneSide, Parts, Capacities
<1>2. HeadInv(lane'["host"], shown')
  BY <1>1
<1>3. WireInv(lane'["client"], lane'["host"], wire')
  BY <1>1
<1>4. wire' \subseteq Frames
  BY DEF CameraLaneInv
<1> QED
  BY <1>1, <1>2, <1>3, <1>4 DEF CameraLaneInv

\* What the application or the network takes from a queue once prune has passed over it.
LEMMA PruneThenTake ==
  ASSUME NEW s, NEW capacity \in Nat, SideInv(s, capacity), Prune(s).packets # <<>>
  PROVE  LET r == [Prune(s) EXCEPT !.packets = Tail(@)]
             f == Prune(s).packets[1].frame
         IN  /\ SideInv(r, capacity) /\ Alike(r, s)
             /\ f \in Frames /\ f.generation = s.generation /\ f.codec = s.codec
             /\ HeadInv(r, <<f>>)
             /\ \A sh : HeadInv(s, sh) => MayShow(sh, f)
<1> DEFINE u == Prune(s)
           r == [u EXCEPT !.packets = Tail(@)]
           f == u.packets[1].frame
<1>1. SideInv(u, capacity) /\ SameStream(u, s) /\ \A sh : HeadInv(s, sh) => HeadInv(u, sh)
  BY PruneKeeps
<1>2. u.packets # <<>>
  OBVIOUS
<1> HIDE DEF u
<1>3. /\ SideInv(r, capacity) /\ r.generation = u.generation /\ r.codec = u.codec
      /\ r.lastGeneration = u.lastGeneration
      /\ f \in Frames /\ f.generation = u.generation /\ f.codec = u.codec
      /\ HeadInv(r, <<f>>)
  BY <1>1, <1>2, TakeKeeps
<1> HIDE DEF r
<1>4. ASSUME NEW sh, HeadInv(s, sh) PROVE MayShow(sh, f)
  BY <1>1, <1>2, <1>4 DEF HeadInv
<1>5. /\ SideInv(r, capacity) /\ Alike(r, s) /\ f \in Frames /\ f.generation = s.generation
      /\ f.codec = s.codec /\ HeadInv(r, <<f>>)
  BY <1>1, <1>3 DEF SameStream, Alike
<1> HIDE DEF f
<1>6. /\ SideInv(r, capacity) /\ Alike(r, s) /\ f \in Frames /\ f.generation = s.generation
      /\ f.codec = s.codec /\ HeadInv(r, <<f>>) /\ \A sh : HeadInv(s, sh) => MayShow(sh, f)
  BY <1>4, <1>5
<1> QED
  BY <1>6 DEF r, f, u

\* Each entry point and each step of the lane tasks keeps the invariant.
LEMMA StepHolds ==
  ASSUME CameraLaneInv, [CameraNext]_cameraVars PROVE CameraLaneInv'
<1> DEFINE c == lane["client"]
           h == lane["host"]
<1>1. /\ c \in State /\ h \in State /\ SideInv(c, SendFrames) /\ SideInv(h, ReceiveFrames)
      /\ HeadInv(h, shown) /\ WireInv(c, h, wire) /\ wire \in SUBSET Frames
      /\ SendFrames \in Nat \ {0} /\ ReceiveFrames \in Nat \ {0}
      /\ SendFrames \in Nat /\ ReceiveFrames \in Nat /\ Alike(c, c) /\ Alike(h, h)
  BY Parts, Capacities DEF Alike
<1>2. /\ lane \in [Sides -> State] /\ hole \in BOOLEAN /\ shown \in Seq(Frames) /\ Len(shown) <= 1
      /\ cause \in {None, "transport"}
  BY DEF CameraLaneInv
<1>3. <<>> \in Seq(Frames) /\ Len(<<>>) <= 1
  BY EmptySeq
<1>4. \A side \in Sides : side = "client" \/ side = "host"
  BY DEF Sides
<1> HIDE DEF c, h
\* A side's State changes and what the other side knows stays.
<1>5. ASSUME NEW side \in Sides, NEW r, SideInv(r, Capacity[side]), Alike(r, lane[side]),
             \A sh : HeadInv(lane[side], sh) => HeadInv(r, sh),
             lane' = [lane EXCEPT ![side] = r], UNCHANGED <<wire, hole, shown, cause>>
      PROVE  CameraLaneInv'
  <2>1. CASE side = "client"
    <3>1. SideInv(r, SendFrames) /\ Alike(r, c)
      BY <1>5, <2>1, Capacities DEF c
    <3>2. WireInv(r, h, wire')
      BY <1>1, <1>5, <3>1, WireAlike
    <3> QED
      BY <1>1, <1>5, <2>1, <3>1, <3>2, ClientStep DEF h
  <2>2. CASE side = "host"
    <3>1. SideInv(r, ReceiveFrames) /\ Alike(r, h) /\ HeadInv(r, shown')
      BY <1>1, <1>5, <2>2, Capacities DEF h
    <3>2. WireInv(c, r, wire')
      BY <1>1, <1>5, <3>1, WireAlike
    <3> QED
      BY <1>1, <1>2, <1>5, <2>2, <3>1, <3>2, HostStep DEF c
  <2> QED
    BY <1>4, <2>1, <2>2
<1>6. \A side \in Sides : /\ SideInv(lane[side], Capacity[side]) /\ lane[side] \in State
                          /\ Capacity[side] \in Nat
  BY <1>2, Capacities DEF CameraLaneInv
<1>7. ASSUME NEW side \in Sides, Enable(side) \/ Open(side) PROVE CameraLaneInv'
  <2>1. PICK n \in 0..3 : lane' = [lane EXCEPT ![side].status = n]
    <3>1. 1 \in 0..3 /\ 2 \in 0..3
      OBVIOUS
    <3> QED
      BY <1>7, <3>1 DEF Enable, Open
  <2> DEFINE r == [lane[side] EXCEPT !.status = n]
  <2>2. lane' = [lane EXCEPT ![side] = r] /\ UNCHANGED <<wire, hole, shown, cause>>
    BY <1>7, <2>1 DEF Enable, Open
  <2>3. /\ SideInv(r, Capacity[side]) /\ (\A sh : HeadInv(lane[side], sh) => HeadInv(r, sh))
        /\ Alike(r, lane[side])
    BY <1>6, StatusKeeps DEF Alike
  <2> QED
    BY <1>5, <2>2, <2>3
<1>8. ASSUME NEW side \in Sides, Expire(side) PROVE CameraLaneInv'
  <2>1. PICK i \in 1..Len(lane[side].packets) : lane' = [lane EXCEPT ![side].packets[i].old = TRUE]
    BY <1>8 DEF Expire
  <2> DEFINE r == [lane[side] EXCEPT !.packets[i].old = TRUE]
  <2>2. lane' = [lane EXCEPT ![side] = r] /\ UNCHANGED <<wire, hole, shown, cause>>
    BY <1>8, <2>1 DEF Expire
  <2>3. /\ SideInv(r, Capacity[side]) /\ (\A sh : HeadInv(lane[side], sh) => HeadInv(r, sh))
        /\ Alike(r, lane[side])
    BY <1>6, ExpireKeeps DEF Alike
  <2> QED
    BY <1>5, <2>2, <2>3
<1>9. ASSUME NEW g \in 0..MaxGeneration, Activate("client", g) PROVE CameraLaneInv'
  <2> DEFINE r == Activated(c, g)
  <2>1. /\ SideInv(r, SendFrames) /\ r.generation = g
        /\ r.lastGeneration = IF g # 0 THEN g ELSE c.lastGeneration
    BY <1>1, ActivatedKeeps
  <2>2. /\ lane' = [lane EXCEPT !["client"] = r] /\ (g = 0 \/ g > c.lastGeneration)
        /\ UNCHANGED <<wire, hole, shown, cause>>
    BY <1>9 DEF Activate, c
  <2> HIDE DEF r
  <2>3. WireInv(r, h, wire')
    BY <1>1, <2>1, <2>2, WireClientActivates
  <2> QED
    BY <1>1, <2>1, <2>2, <2>3, ClientStep DEF h
<1>10. ASSUME NEW g \in 0..MaxGeneration, Activate("host", g) PROVE CameraLaneInv'
  <2> DEFINE r == Activated(h, g)
  <2>1. SideInv(r, ReceiveFrames) /\ HeadInv(r, <<>>) /\ r.codec = None
    BY <1>1, ActivatedKeeps
  <2>2. lane' = [lane EXCEPT !["host"] = r] /\ shown' = <<>> /\ UNCHANGED <<wire, hole, cause>>
    BY <1>10 DEF Activate, h
  <2> HIDE DEF r
  <2>3. WireInv(c, r, wire')
    BY <1>1, <2>1, <2>2, WireHostForgets
  <2> QED
    BY <1>1, <1>2, <1>3, <2>1, <2>2, <2>3, HostStep DEF c
<1>11. ASSUME CameraFails("client") PROVE CameraLaneInv'
  <2> DEFINE r == Failed(c)
  <2>1. SideInv(r, SendFrames) /\ r.generation = 0 /\ r.lastGeneration = c.lastGeneration
    BY <1>1, FailedKeeps
  <2>2. lane' = [lane EXCEPT !["client"] = r] /\ UNCHANGED <<wire, hole, shown, cause>>
    BY <1>11 DEF CameraFails, c
  <2> HIDE DEF r
  <2>3. WireInv(r, h, wire')
    BY <1>1, <2>1, <2>2, WireClientFails
  <2> QED
    BY <1>1, <2>1, <2>2, <2>3, ClientStep DEF h
<1>12. ASSUME CameraFails("host") PROVE CameraLaneInv'
  <2> DEFINE r == Failed(h)
  <2>1. SideInv(r, ReceiveFrames) /\ HeadInv(r, <<>>) /\ r.generation = 0
    BY <1>1, FailedKeeps
  <2>2. /\ lane' = [lane EXCEPT !["host"] = r] /\ shown' = <<>> /\ UNCHANGED <<wire, hole>>
        /\ cause' = "transport"
    BY <1>12 DEF CameraFails, h
  <2> HIDE DEF r
  <2>3. WireInv(c, r, wire')
    BY <1>1, <2>1, <2>2, WireHostForgets
  <2> QED
    BY <1>1, <1>2, <1>3, <2>1, <2>2, <2>3, HostStep DEF c
<1>13. ASSUME NEW f \in Frames, Send(f) PROVE CameraLaneInv'
  <2>1. CASE Verdict(c, f) = "accept"
    <3> DEFINE r == Push(c, f, SendFrames)
    <3>1. SideInv(r, SendFrames) /\ Saw(r, c, f)
      BY <1>1, <2>1, PushKeeps
    <3>2. lane' = [lane EXCEPT !["client"] = r] /\ UNCHANGED <<wire, hole, shown, cause>>
      BY <1>13, <2>1 DEF Send, Offer, c
    <3>3. c.codec \in {None, f.codec}
      BY <2>1, Accepted
    <3> HIDE DEF r
    <3>4. WireInv(r, h, wire')
      BY <1>1, <3>1, <3>2, <3>3, WireClientSees
    <3> QED
      BY <1>1, <3>1, <3>2, <3>4, ClientStep DEF h
  <2>2. CASE Verdict(c, f) # "accept"
    <3>1. lane' = [lane EXCEPT !["client"] = c] /\ UNCHANGED <<wire, hole, shown, cause>>
      BY <1>13, <2>2 DEF Send, Offer, c
    <3> QED
      BY <1>1, <3>1, ClientStep DEF h
  <2> QED
    BY <2>1, <2>2
<1>14. ASSUME Source PROVE CameraLaneInv'
  <2> DEFINE u == Prune(c)
  <2>1. SideInv(u, SendFrames) /\ Alike(u, c)
    BY <1>1, PruneKeeps DEF Alike, SameStream
  <2>2. CASE u.packets = <<>>
    <3>1. lane' = [lane EXCEPT !["client"] = u] /\ UNCHANGED <<wire, hole, shown, cause>>
      BY <1>14, <2>2 DEF Source, c
    <3> HIDE DEF u
    <3>2. WireInv(u, h, wire')
      BY <1>1, <2>1, <3>1, WireAlike
    <3> QED
      BY <1>1, <2>1, <3>1, <3>2, ClientStep DEF h
  <2>3. CASE u.packets # <<>>
    <3> DEFINE r == [u EXCEPT !.packets = Tail(@)]
               f == u.packets[1].frame
    <3>1. /\ SideInv(r, SendFrames) /\ Alike(r, c)
          /\ f \in Frames /\ f.generation = c.generation /\ f.codec = c.codec
      BY <1>1, <2>3, PruneThenTake
    <3>2. /\ lane' = [lane EXCEPT !["client"] = r] /\ wire' = wire \cup {f}
          /\ UNCHANGED <<hole, shown, cause>>
      BY <1>14, <2>3 DEF Source, c
    <3> HIDE DEF r, f, u
    <3>3. WireInv(c, h, wire \cup {f}) /\ wire \cup {f} \in SUBSET Frames
      <4>1. Flags(c)
        BY <1>1 DEF SideInv
      <4>2. WireInv(c, h, wire \cup {f})
        BY <1>1, <3>1, <4>1, WireTakes
      <4> QED
        BY <1>1, <3>1, <4>2
    <3>4. WireInv(r, h, wire')
      BY <1>1, <3>1, <3>2, <3>3, WireAlike
    <3> QED
      BY <3>1, <3>2, <3>3, <3>4, ClientStep DEF h
  <2> QED
    BY <2>2, <2>3
<1>15. ASSUME NEW f \in wire, Lose(f) PROVE CameraLaneInv'
  <2>1. UNCHANGED <<lane, shown, cause>> /\ hole' = TRUE /\ wire' \in SUBSET wire
    BY <1>15 DEF Lose
  <2>2. lane' = [lane EXCEPT !["host"] = h]
    BY <1>2, <2>1 DEF h
  <2>3. WireInv(c, h, wire')
    BY <1>1, <2>1, WireAlike
  <2> QED
    BY <1>1, <1>2, <2>1, <2>2, <2>3, HostStep DEF c
<1>16. ASSUME NEW f \in wire, Sink(f) PROVE CameraLaneInv'
  <2>1. Verdict(h, f) # "argument" /\ f \in Frames
    BY <1>1, NoOtherFormat
  <2>2. /\ lane' = [lane EXCEPT !["host"] = Offer(h, f, ReceiveFrames)]
        /\ wire' \in SUBSET wire /\ UNCHANGED <<hole, shown, cause>>
    BY <1>16, <2>1 DEF Sink, h
  <2>3. CASE Verdict(h, f) = "accept"
    <3> DEFINE r == Push(h, f, ReceiveFrames)
    <3>1. SideInv(r, ReceiveFrames) /\ Saw(r, h, f) /\ HeadInv(r, shown)
      BY <1>1, <2>1, <2>3, PushKeeps
    <3>2. lane' = [lane EXCEPT !["host"] = r]
      BY <2>2, <2>3 DEF Offer
    <3> HIDE DEF r
    <3>3. WireInv(c, r, wire')
      <4>1. f.generation = h.generation
        BY <2>3, Accepted
      <4> QED
        BY <1>1, <2>2, <3>1, <4>1, WireHostSees
    <3> QED
      BY <1>2, <2>2, <3>1, <3>2, <3>3, HostStep DEF c
  <2>4. CASE Verdict(h, f) # "accept"
    <3>1. lane' = [lane EXCEPT !["host"] = h]
      BY <2>2, <2>4 DEF Offer
    <3>2. WireInv(c, h, wire')
      BY <1>1, <2>2, WireAlike
    <3> QED
      BY <1>1, <1>2, <2>2, <3>1, <3>2, HostStep DEF c
  <2> QED
    BY <2>3, <2>4
<1>17. ASSUME SinkHole PROVE CameraLaneInv'
  <2> DEFINE r == Gap(h)
  <2>1. SideInv(r, ReceiveFrames) /\ Alike(r, h) /\ HeadInv(r, shown)
    BY <1>1, GapKeeps DEF Alike, SameStream
  <2>2. /\ lane' = [lane EXCEPT !["host"] = r] /\ hole' = FALSE /\ wire' \in SUBSET wire
        /\ UNCHANGED <<shown, cause>>
    BY <1>17 DEF SinkHole, h
  <2> HIDE DEF r
  <2>3. WireInv(c, r, wire')
    BY <1>1, <2>1, <2>2, WireAlike
  <2> QED
    BY <1>2, <2>1, <2>2, <2>3, HostStep DEF c
<1>18. ASSUME lane' = [lane EXCEPT !["host"] = Prune(h)], UNCHANGED <<wire, hole, shown, cause>>
       PROVE  CameraLaneInv'
  <2> DEFINE u == Prune(h)
  <2>1. SideInv(u, ReceiveFrames) /\ Alike(u, h) /\ HeadInv(u, shown)
    BY <1>1, PruneKeeps DEF Alike, SameStream
  <2> HIDE DEF u
  <2>2. WireInv(c, u, wire') /\ wire' \in SUBSET wire
    BY <1>1, <1>18, <2>1, WireAlike
  <2>3. lane' = [lane EXCEPT !["host"] = u]
    BY <1>18 DEF u
  <2> QED
    BY <1>2, <1>18, <2>1, <2>2, <2>3, HostStep DEF c
<1>19. ASSUME Receive PROVE CameraLaneInv'
  <2> DEFINE u == Prune(h)
  <2>1. CASE u.packets = <<>>
    BY <1>18, <1>19, <2>1 DEF Receive, h
  <2>2. CASE u.packets # <<>>
    <3> DEFINE r == [u EXCEPT !.packets = Tail(@)]
               f == u.packets[1].frame
    <3>1. SideInv(r, ReceiveFrames) /\ Alike(r, h) /\ f \in Frames /\ HeadInv(r, <<f>>)
      BY <1>1, <2>2, PruneThenTake
    <3>2. /\ lane' = [lane EXCEPT !["host"] = r] /\ shown' = <<f>> /\ wire' \in SUBSET wire
          /\ UNCHANGED <<wire, hole, cause>>
      BY <1>19, <2>2 DEF Receive, h
    <3> HIDE DEF r, f, u
    <3>3. shown' \in Seq(Frames) /\ Len(shown') <= 1
      BY <3>1, <3>2
    <3>4. WireInv(c, r, wire')
      BY <1>1, <3>1, <3>2, WireAlike
    <3> QED
      BY <1>2, <3>1, <3>2, <3>3, <3>4, HostStep DEF c
  <2> QED
    BY <2>1, <2>2
<1>20. ASSUME ReceiveTooSmall PROVE CameraLaneInv'
  BY <1>18, <1>20 DEF ReceiveTooSmall, h
<1>21. ASSUME UNCHANGED cameraVars PROVE CameraLaneInv'
  BY <1>21 DEF cameraVars, CameraLaneInv
<1>22. ASSUME NEW side \in Sides, CameraFails(side) PROVE CameraLaneInv'
  BY <1>4, <1>11, <1>12, <1>22
<1>23. ASSUME NEW side \in Sides, NEW g \in 0..MaxGeneration, Activate(side, g) PROVE CameraLaneInv'
  BY <1>4, <1>9, <1>10, <1>23
<1> QED
  BY <1>7, <1>8, <1>13, <1>14, <1>15, <1>16, <1>17, <1>19, <1>20, <1>21, <1>22, <1>23 DEF CameraNext

(***************************************************************************)
(* The theorems.                                                           *)
(***************************************************************************)

\* The whole invariant: both queues, what the Host's queue may show next, and one format
\* per activation on both sides and under way.
THEOREM CameraLaneInvariance == CameraSpec => []CameraLaneInv
<1>1. CameraInit => CameraLaneInv
  BY InitHolds
<1>2. CameraLaneInv /\ [CameraNext]_cameraVars => CameraLaneInv'
  BY StepHolds
<1> QED
  BY <1>1, <1>2, PTL DEF CameraSpec

\* For all capacities, activations and sequence numbers, a queue keeps to its capacity and
\* holds only frames of the activation and the format in force, each of which may follow the
\* one before it: push, gap, prune, activate and a failure leave no other behind.
THEOREM CameraQueues == CameraSpec => []QueueInv
<1>1. ASSUME CameraLaneInv PROVE QueueInv
  <2>1. CameraTypeOK
    BY <1>1 DEF CameraLaneInv, CameraTypeOK
  <2>2. ASSUME NEW side \in Sides
        PROVE  /\ Len(lane[side].packets) <= Capacity[side]
               /\ \A i \in 1..Len(lane[side].packets) :
                    /\ lane[side].packets[i].frame.generation = lane[side].generation
                    /\ lane[side].packets[i].frame.codec = lane[side].codec
                    /\ lane[side].packets[i].frame.sequence <= lane[side].last
                    /\ i > 1 => Follows(lane[side].packets[i - 1].frame, lane[side].packets[i].frame)
    <3> DEFINE s == lane[side]
               q == s.packets
    <3>1. Queue(q, s.generation, s.codec, s.last, Capacity[side]) /\ s \in State
      BY <1>1 DEF CameraLaneInv, SideInv
    <3>2. Len(q) \in Nat
      BY <3>1, StateFields
    <3> HIDE DEF s
    <3>3. ASSUME NEW i \in 1..Len(q), i > 1 PROVE Follows(q[i - 1].frame, q[i].frame)
      <4>1. i - 1 \in 1..Len(q) /\ i \in 2..Len(q) /\ i - 1 < i
        BY <3>2, <3>3
      <4> QED
        BY <3>1, <4>1 DEF Queue, Follows, Joins, Restarts
    <3>4. /\ Len(q) <= Capacity[side]
          /\ \A i \in 1..Len(q) : /\ q[i].frame.generation = s.generation
                                  /\ q[i].frame.codec = s.codec /\ q[i].frame.sequence <= s.last
      BY <3>1 DEF Queue
    <3> QED
      BY <3>3, <3>4 DEF s
  <2> QED
    BY <2>1, <2>2 DEF QueueInv
<1> QED
  BY <1>1, CameraLaneInvariance, PTL

\* The Host never ends the lane with `camera format changed without reactivation' over what
\* a Client sent through camera_send, whatever the transport loses, delays or reorders; and
\* a lane that waits for an independent frame is asking for one.
THEOREM CameraRecovers == CameraSpec => []LaneRecovers
<1>1. ASSUME CameraLaneInv PROVE LaneRecovers
  <2>1. cause # "format"
    BY <1>1 DEF CameraLaneInv, None
  <2>2. \A side \in Sides : Flags(lane[side])
    BY <1>1 DEF CameraLaneInv, SideInv
  <2> QED
    BY <2>1, <2>2 DEF LaneRecovers, Flags
<1> QED
  BY <1>1, CameraLaneInvariance, PTL

\* What camera_receive hands to the Host application can be decoded: the first frame of an
\* activation is independent and marked, every other is the very next one or marked and
\* independent, and it belongs to the activation in force.
THEOREM CameraDecodable == CameraSpec => DecodableInOrder
<1> DEFINE D == shown' # shown /\ shown' # <<>> =>
                  LET f == shown'[1]
                  IN  /\ f.generation = lane["host"].generation
                      /\ IF shown = <<>> THEN f.discontinuity /\ ~Dependent(f)
                         ELSE Follows(shown[1], f)
<1>1. ASSUME CameraLaneInv, [CameraNext]_cameraVars PROVE [D]_cameraVars
  <2> DEFINE h == lane["host"]
             u == Prune(h)
             x == u.packets[1].frame
  <2>1. SUFFICES ASSUME shown' # shown, shown' # <<>>
                 PROVE  /\ shown'[1].generation = h.generation
                        /\ IF shown = <<>> THEN shown'[1].discontinuity /\ ~Dependent(shown'[1])
                           ELSE Follows(shown[1], shown'[1])
    OBVIOUS
  <2>2. Receive
    <3>1. ~Source /\ ~SinkHole /\ ~ReceiveTooSmall /\ ~UNCHANGED cameraVars
          /\ (\A f \in Frames : ~Send(f))
      BY <2>1 DEF Source, SinkHole, ReceiveTooSmall, cameraVars, Send
    <3>2. \A side \in Sides : ~Enable(side) /\ ~Open(side) /\ ~CameraFails(side) /\ ~Expire(side)
            /\ \A g \in 0..MaxGeneration : ~Activate(side, g)
      BY <2>1 DEF Enable, Open, CameraFails, Expire, Activate
    <3>3. \A f \in wire : ~Lose(f) /\ ~Sink(f)
      BY <2>1 DEF Lose, Sink
    <3> QED
      BY <1>1, <3>1, <3>2, <3>3 DEF CameraNext
  <2>3. u.packets # <<>> /\ shown' = <<x>>
    BY <2>1, <2>2 DEF Receive
  <2>4. SideInv(h, ReceiveFrames) /\ HeadInv(h, shown) /\ ReceiveFrames \in Nat
    BY <1>1, Parts, Capacities
  <2> HIDE DEF h
  <2>5. x.generation = h.generation /\ MayShow(shown, x)
    BY <2>3, <2>4, PruneThenTake
  <2> HIDE DEF x
  <2>6. shown'[1] = x
    BY <2>3
  <2> QED
    BY <2>5, <2>6 DEF MayShow, Restarts
<1>2. CameraLaneInv /\ [CameraNext]_cameraVars => [D]_cameraVars
  BY <1>1
<1> HIDE DEF D
<1>3. CameraSpec => [][D]_cameraVars
  BY <1>2, CameraLaneInvariance, PTL DEF CameraSpec
<1> QED
  BY <1>3 DEF DecodableInOrder, D

===============================================================================
