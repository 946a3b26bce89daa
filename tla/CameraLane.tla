------------------------------ MODULE CameraLane ------------------------------
(***************************************************************************)
(* The camera lane of a native session, from the Client application that   *)
(* captures to the Host application that shows                             *)
(* (protocol/plank-transport/src/native_camera.rs): two bounded queues, a  *)
(* lossy transport between them, activations that succeed one another on   *)
(* each side at its own time, and frames too old to show.                  *)
(*                                                                         *)
(* A frame is its activation, its sequence number, its codec and its two   *)
(* flags.  Capture times grow with the sequence numbers of the frames a    *)
(* sender accepts, so the receiver's test of them adds nothing to its test *)
(* of the sequence; a sender that refuses a frame for its capture time is  *)
(* an application that skips a sequence number.  The endpoint stays Ready: *)
(* in any other state every entry point returns without effect.            *)
(***************************************************************************)
EXTENDS Naturals, Sequences, FiniteSets

CONSTANTS
  SendFrames, ReceiveFrames,   \* SEND_FRAMES, RECEIVE_FRAMES
  WireCapacity,     \* frames the transport has under way
  MaxGeneration,    \* bound: activations
  MaxSequence       \* bound: frames of one activation

ASSUME CameraAssumption ==
  /\ SendFrames \in Nat \ {0} /\ ReceiveFrames \in Nat \ {0} /\ WireCapacity \in Nat \ {0}
  /\ MaxGeneration \in Nat /\ MaxSequence \in Nat

VARIABLES
  lane,       \* lane[side]: Camera.state of the Client and of the Host
  wire,       \* frames under way
  hole,       \* the transport has a loss to report
  shown,      \* the frame the Host application took last in this activation, if any
  cause       \* why the Host lane failed

cameraVars == <<lane, wire, hole, shown, cause>>

Codecs == {"H264", "MJPEG"}
None == "none"
Sides == {"client", "host"}

\* MJPEG frames are independent of one another: decoding refuses one without the flag.
Frames ==
  {f \in [generation : 1..MaxGeneration, sequence : 1..MaxSequence, codec : Codecs,
          key : BOOLEAN, discontinuity : BOOLEAN] : f.codec = "MJPEG" => f.key}

\* status: 0 not negotiated, 1 opening, 2 open, 3 failed.  last 0 is no frame yet.
\* A queued frame also knows whether it is older than MAX_AGE.
State ==
  [status : 0..3, generation : 0..MaxGeneration, lastGeneration : 0..MaxGeneration,
   last : 0..MaxSequence, codec : Codecs \cup {None}, waitingForKey : BOOLEAN,
   requestKey : BOOLEAN, discontinuity : BOOLEAN,
   packets : Seq([frame : Frames, old : BOOLEAN])]

Initial ==
  [status |-> 0, generation |-> 0, lastGeneration |-> 0, last |-> 0, codec |-> None,
   waitingForKey |-> FALSE, requestKey |-> FALSE, discontinuity |-> FALSE, packets |-> <<>>]

CameraInit ==
  /\ lane = [side \in Sides |-> Initial]
  /\ wire = {} /\ hole = FALSE /\ shown = <<>> /\ cause = None

-----------------------------------------------------------------------------
(* State                                                                   *)

Dependent(f) == f.codec = "H264" /\ ~f.key

\* State::gap.
Gap(s) ==
  [s EXCEPT !.packets = <<>>, !.discontinuity = TRUE,
            !.waitingForKey = @ \/ s.codec # "MJPEG",
            !.requestKey = @ \/ s.codec # "MJPEG"]

\* What is left of the queue from position i on, its first frame marked.
KeepFrom(s, i) ==
  [s EXCEPT !.packets = [SubSeq(@, i, Len(@)) EXCEPT ![1].frame.discontinuity = TRUE]]

\* Mutation: only the frames that are too old go, not those that depend on them.
PruneOnlyOld(s) ==
  LET fresh == {i \in 1..Len(s.packets) : ~s.packets[i].old}
  IN  IF s.packets = <<>> \/ ~s.packets[1].old THEN s
      ELSE IF fresh = {} THEN Gap(s)
      ELSE KeepFrom(s, CHOOSE i \in fresh : \A j \in fresh : i <= j)

\* State::prune.  Once the oldest frame has expired, the queue restarts at its first
\* frame that is neither too old nor dependent.
Prune(s) ==
  LET starts == {i \in 1..Len(s.packets) : ~s.packets[i].old /\ ~Dependent(s.packets[i].frame)}
  IN  IF s.packets = <<>> \/ ~s.packets[1].old THEN s
      ELSE IF starts = {} THEN Gap(s)
      ELSE KeepFrom(s, CHOOSE i \in starts : \A j \in starts : i <= j)

\* Mutation: an activation takes the queue over from the one before it.
ActivatedKeepingQueue(s, g) ==
  [s EXCEPT !.generation = g, !.lastGeneration = IF g # 0 THEN g ELSE @,
            !.last = 0, !.codec = None,
            !.waitingForKey = TRUE, !.requestKey = g # 0, !.discontinuity = TRUE]

\* Camera::activate: everything starts again.
Activated(s, g) ==
  [s EXCEPT !.generation = g, !.lastGeneration = IF g # 0 THEN g ELSE @,
            !.last = 0, !.codec = None, !.packets = <<>>,
            !.waitingForKey = TRUE, !.requestKey = g # 0, !.discontinuity = TRUE]

\* Mutation: the format is compared before the activation.
VerdictFormatFirst(s, f) ==
  IF s.codec \notin {None, f.codec} THEN "argument"
  ELSE IF s.status # 2 \/ s.generation = 0 \/ f.generation # s.generation \/ f.sequence <= s.last
       THEN "state"
  ELSE "accept"

\* Camera::push, the tests that refuse a frame without a trace.
Verdict(s, f) ==
  IF s.status # 2 \/ s.generation = 0 \/ f.generation # s.generation \/ f.sequence <= s.last
  THEN "state"
  ELSE IF s.codec \notin {None, f.codec} THEN "argument"
  ELSE "accept"

\* Camera::push of a frame that is accepted: a frame that follows a missing one, that
\* says so or that finds the queue full empties the queue and starts again.
Push(s, f, capacity) ==
  LET seen == [s EXCEPT !.codec = f.codec, !.last = f.sequence]
      gap  == \/ s.last # 0 /\ f.sequence # s.last + 1
              \/ f.discontinuity
              \/ Len(s.packets) = capacity
      t    == IF gap THEN Gap(seen) ELSE seen
  IN  IF t.waitingForKey /\ Dependent(f)
      THEN [t EXCEPT !.requestKey = TRUE]
      ELSE [t EXCEPT !.waitingForKey = @ /\ ~f.key, !.requestKey = @ /\ ~f.key,
                     !.discontinuity = FALSE,
                     !.packets = Append(@, [frame |-> [f EXCEPT !.discontinuity =
                                                         gap \/ t.discontinuity],
                                            old |-> FALSE])]

Offer(s, f, capacity) == IF Verdict(s, f) = "accept" THEN Push(s, f, capacity) ELSE s

-----------------------------------------------------------------------------
(* Entry points and lane tasks                                             *)

\* camera_enable_version: once.
Enable(side) ==
  /\ lane[side].status = 0
  /\ lane' = [lane EXCEPT ![side].status = 1]
  /\ UNCHANGED <<wire, hole, shown, cause>>

\* source and sink: the lane has been allocated on this side.
Open(side) ==
  /\ lane[side].status = 1
  /\ lane' = [lane EXCEPT ![side].status = 2]
  /\ UNCHANGED <<wire, hole, shown, cause>>

\* camera_activate: 0 deactivates, other generations only grow.
Activate(side, g) ==
  /\ lane[side].status \in {1, 2}
  /\ g = 0 \/ g > lane[side].lastGeneration
  /\ lane' = [lane EXCEPT ![side] = Activated(@, g)]
  /\ shown' = IF side = "host" THEN <<>> ELSE shown
  /\ UNCHANGED <<wire, hole, cause>>

\* camera_send.
Send(f) ==
  /\ lane' = [lane EXCEPT !["client"] = Offer(@, f, SendFrames)]
  /\ UNCHANGED <<wire, hole, shown, cause>>

\* The loop of source: the next frame that is not too old goes out.
Source ==
  LET s == Prune(lane["client"])
  IN  /\ lane["client"].status = 2 /\ lane["client"].packets # <<>>
      /\ Cardinality(wire) < WireCapacity
      /\ IF s.packets = <<>> THEN lane' = [lane EXCEPT !["client"] = s] /\ UNCHANGED wire
         ELSE /\ wire' = wire \cup {s.packets[1].frame}
              /\ lane' = [lane EXCEPT !["client"] = [s EXCEPT !.packets = Tail(@)]]
      /\ UNCHANGED <<hole, shown, cause>>

\* The transport loses a frame; it may report the hole, now or after later frames.
Lose(f) ==
  /\ wire' = wire \ {f}
  /\ hole' = TRUE
  /\ UNCHANGED <<lane, shown, cause>>

\* The state a lane is left in by an error.
Failed(s) ==
  [s EXCEPT !.status = 3, !.generation = 0, !.packets = <<>>, !.requestKey = FALSE]

\* The loop of sink, a frame: they arrive in any order.
Sink(f) ==
  /\ lane["host"].status = 2
  /\ wire' = wire \ {f}
  /\ IF Verdict(lane["host"], f) = "argument"
     THEN /\ lane' = [lane EXCEPT !["host"] = Failed(@)]
          /\ cause' = "format" /\ shown' = <<>>
     ELSE /\ lane' = [lane EXCEPT !["host"] = Offer(@, f, ReceiveFrames)]
          /\ UNCHANGED <<cause, shown>>
  /\ UNCHANGED hole

\* The loop of sink, a hole.
SinkHole ==
  /\ hole /\ lane["host"].status = 2
  /\ lane' = [lane EXCEPT !["host"] = Gap(@)]
  /\ hole' = FALSE
  /\ UNCHANGED <<wire, shown, cause>>

\* camera_receive with a large enough buffer.
Receive ==
  LET s == Prune(lane["host"])
  IN  /\ IF s.packets = <<>> THEN lane' = [lane EXCEPT !["host"] = s] /\ UNCHANGED shown
         ELSE /\ shown' = <<s.packets[1].frame>>
              /\ lane' = [lane EXCEPT !["host"] = [s EXCEPT !.packets = Tail(@)]]
      /\ UNCHANGED <<wire, hole, cause>>

\* camera_receive with a buffer that is too small.
ReceiveTooSmall ==
  /\ lane' = [lane EXCEPT !["host"] = Prune(@)]
  /\ UNCHANGED <<wire, hole, shown, cause>>

\* run: any other error of source or sink, the allocation included.
CameraFails(side) ==
  /\ lane[side].status \in {1, 2}
  /\ lane' = [lane EXCEPT ![side] = Failed(@)]
  /\ IF side = "host" THEN cause' = "transport" /\ shown' = <<>> ELSE UNCHANGED <<cause, shown>>
  /\ UNCHANGED <<wire, hole>>

\* The oldest frame that is not yet too old becomes so.
Expire(side) ==
  /\ \E i \in 1..Len(lane[side].packets) :
       /\ ~lane[side].packets[i].old
       /\ \A j \in 1..(i - 1) : lane[side].packets[j].old
       /\ lane' = [lane EXCEPT ![side].packets[i].old = TRUE]
  /\ UNCHANGED <<wire, hole, shown, cause>>

CameraNext ==
  \/ \E side \in Sides :
       Enable(side) \/ Open(side) \/ CameraFails(side) \/ Expire(side)
         \/ \E g \in 0..MaxGeneration : Activate(side, g)
  \/ \E f \in Frames : Send(f)
  \/ \E f \in wire : Lose(f) \/ Sink(f)
  \/ Source \/ SinkHole \/ Receive \/ ReceiveTooSmall

CameraSpec == CameraInit /\ [][CameraNext]_cameraVars

-----------------------------------------------------------------------------
(* Properties.                                                             *)

CameraTypeOK ==
  /\ lane \in [Sides -> State]
  /\ wire \subseteq Frames
  /\ hole \in BOOLEAN
  /\ shown \in Seq(Frames) /\ Len(shown) <= 1
  /\ cause \in {None, "format", "transport"}

\* Frame b may be handed on right after frame a: it is the very next one, or it says
\* that something is missing and needs nothing that came before it.
Follows(a, b) ==
  /\ a.generation = b.generation /\ a.codec = b.codec /\ a.sequence < b.sequence
  /\ b.sequence = a.sequence + 1 \/ (b.discontinuity /\ ~Dependent(b))

Capacity == [side \in Sides |-> IF side = "client" THEN SendFrames ELSE ReceiveFrames]

\* A queue holds at most its capacity, and only frames of the activation in force, all
\* of one format, each of which may follow the one before it: no push, prune, gap,
\* deactivation or failure leaves a frame behind that belongs to something else.
QueueInv ==
  /\ CameraTypeOK
  /\ \A side \in Sides :
       LET s == lane[side]
       IN  /\ Len(s.packets) <= Capacity[side]
           /\ \A i \in 1..Len(s.packets) :
                LET f == s.packets[i].frame
                IN  /\ f.generation = s.generation /\ f.codec = s.codec
                    /\ f.sequence <= s.last
                    /\ i > 1 => Follows(s.packets[i - 1].frame, f)

\* What the Host application is given can be decoded: the first frame of an activation
\* is independent and marked, a dependent frame only ever follows its reference, and
\* no frame of an activation that has ended is handed out.
DecodableInOrder ==
  [][shown' # shown /\ shown' # <<>> =>
       LET f == shown'[1]
       IN  /\ f.generation = lane["host"].generation
           /\ IF shown = <<>> THEN f.discontinuity /\ ~Dependent(f)
              ELSE Follows(shown[1], f)]_cameraVars

\* `camera format changed without reactivation' ends the lane for good; a Client that
\* goes through camera_send never causes it, whatever is still under way from earlier
\* activations.  And a lane that throws dependent frames away is asking for an
\* independent one, so it cannot stay dark unnoticed.
LaneRecovers ==
  /\ cause # "format"
  /\ \A side \in Sides :
       LET s == lane[side]
       IN  s.status = 2 /\ s.generation # 0 /\ s.waitingForKey => s.requestKey
=============================================================================
