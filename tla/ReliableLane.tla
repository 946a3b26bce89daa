----------------------------- MODULE ReliableLane -----------------------------
(***************************************************************************)
(* One direction of a reliable lane of the native transport, end to end    *)
(* (protocol/plank-transport/src/native_ffi.rs): the reliable-data lane    *)
(* (data_send, send_data, receive_data, push_data_receive, data_receive)   *)
(* and, with no byte limit and a bounded stall, the input lane             *)
(* (input_send, send_input, receive_input, push_input_receive,             *)
(* input_receive).                                                         *)
(*                                                                         *)
(* The application on one side enqueues, the two lane tasks and QUIC carry *)
(* the packets, any number of threads on the other side receive.  A packet *)
(* is its number and its size.                                             *)
(***************************************************************************)
EXTENDS Integers, Sequences

CONSTANTS
  Consumers,        \* threads that call *_receive
  Sizes,            \* packet sizes the entry point accepts
  PacketCapacity,   \* DATA_QUEUE_PACKET_CAPACITY, INPUT_*_CAPACITY
  ByteCapacity,     \* DATA_QUEUE_BYTE_CAPACITY
  WireCapacity,     \* packets QUIC flow control lets be in flight
  Nobody,
  MaxPackets        \* bound: packets the application sends

ASSUME LaneAssumption ==
  /\ Nobody \notin Consumers
  /\ PacketCapacity \in Nat \ {0} /\ WireCapacity \in Nat \ {0} /\ MaxPackets \in Nat
  /\ ByteCapacity \in Nat /\ \A s \in Sizes : s \in 0..ByteCapacity

VARIABLES
  lane,         \* "data", or "input", to which INPUT_RECEIVE_STALL_TIMEOUT applies
  accepted,     \* packets *_send has taken (history)
  sendQ, sendBytes,     \* queues.*_send
  sendPermit,   \* a permit in *_send_notify
  sender,       \* the sending task: "pop", "write", "sleep"
  writing,      \* the packet the sending task writes
  wire,         \* packets in the QUIC stream
  receiver,     \* the receiving task: "read", "check", "announce", "full"
  held,         \* the packet the receiving task holds
  recvQ, recvBytes,     \* queues.*_receive of the other side
  spacePermit,  \* a permit in *_receive_space
  lock,         \* the consumer inside wait_pop that holds the queues mutex
  cpc,          \* where each consumer is
  delivered,    \* packets consumers have taken (history)
  phase,        \* of each side: "setup", "promoting" (its task is not polled), "open"
  stop,         \* the receiving endpoint was stopped or failed
  stopping,     \* stop is set and notify_all is still to come
  running       \* the lane tasks have not been cancelled

send == <<sendQ, sendBytes, sendPermit>>
recv == <<recvQ, recvBytes>>
tasks == <<sender, writing, wire, receiver, held>>
consumers == <<lock, cpc, delivered>>
control == <<lane, phase, stop, stopping, running>>
vars == <<accepted, send, tasks, recv, spacePermit, consumers, control>>

\* Input packets are counted, not measured.
Charges == IF lane = "input" THEN {0} ELSE Sizes
Packets == [id : Nat, size : Charges]
Sides == {"send", "receive"}

Init ==
  /\ accepted = <<>> /\ sendQ = <<>> /\ sendBytes = 0 /\ sendPermit = FALSE
  /\ sender = "pop" /\ writing = <<>> /\ wire = <<>>
  /\ receiver = "read" /\ held = <<>>
  /\ recvQ = <<>> /\ recvBytes = 0 /\ spacePermit = FALSE
  /\ lock = Nobody /\ cpc = [c \in Consumers |-> "idle"] /\ delivered = <<>>
  \* Input lanes only exist once the media endpoints are open.
  /\ \/ lane = "input" /\ phase = [side \in Sides |-> "open"]
     \/ lane = "data" /\ phase = [side \in Sides |-> "setup"]
  /\ stop = FALSE /\ stopping = FALSE /\ running = TRUE

-----------------------------------------------------------------------------
(* NativeDataQueue                                                         *)

\* Mutation: the byte limit is tested without the packet itself.
CanPushBeforeCounting(queue, bytes, size) ==
  Len(queue) < PacketCapacity /\ bytes < ByteCapacity

CanPush(queue, bytes, size) == Len(queue) < PacketCapacity /\ size <= ByteCapacity - bytes

-----------------------------------------------------------------------------
(* Sending side                                                            *)

\* *_send.  The state is read before the queue is locked, so a packet may still
\* be taken while the endpoint stops.  A full queue is TIMEOUT and changes nothing.
Send(size) ==
  /\ Len(accepted) < MaxPackets
  /\ CanPush(sendQ, sendBytes, size)
  /\ LET p == [id |-> Len(accepted) + 1, size |-> size]
     IN  accepted' = Append(accepted, p) /\ sendQ' = Append(sendQ, p)
  /\ sendBytes' = sendBytes + size
  /\ sendPermit' = TRUE
  /\ UNCHANGED <<tasks, recv, spacePermit, consumers, control>>

\* The lane task of a side is polled: not cancelled and no promotion under way.
Polled(side) == running /\ phase[side] # "promoting"

SenderPop ==
  /\ Polled("send") /\ sender = "pop" /\ sendQ # <<>>
  /\ writing' = <<Head(sendQ)>> /\ sendQ' = Tail(sendQ)
  /\ sendBytes' = sendBytes - Head(sendQ).size
  /\ sender' = "write"
  /\ UNCHANGED <<accepted, sendPermit, wire, receiver, held, recv, spacePermit, consumers,
                 control>>

SenderSleep ==
  /\ Polled("send") /\ sender = "pop" /\ sendQ = <<>>
  /\ sender' = "sleep"
  /\ UNCHANGED <<accepted, send, writing, wire, receiver, held, recv, spacePermit, consumers,
                 control>>

SenderWake ==
  /\ Polled("send") /\ sender = "sleep" /\ sendPermit
  /\ sendPermit' = FALSE
  /\ sender' = "pop"
  /\ UNCHANGED <<accepted, sendQ, sendBytes, writing, wire, receiver, held, recv, spacePermit,
                 consumers, control>>

SenderWrite ==
  /\ Polled("send") /\ sender = "write" /\ Len(wire) < WireCapacity
  /\ wire' = wire \o writing /\ writing' = <<>>
  /\ sender' = "pop"
  /\ UNCHANGED <<accepted, send, receiver, held, recv, spacePermit, consumers, control>>

-----------------------------------------------------------------------------
(* Receiving task: one packet is held outside the queue while it is full.  *)

ReceiverRead ==
  /\ Polled("receive") /\ receiver = "read" /\ wire # <<>>
  /\ held' = <<Head(wire)>> /\ wire' = Tail(wire)
  /\ receiver' = "check"
  /\ UNCHANGED <<accepted, send, sender, writing, recv, spacePermit, consumers, control>>

\* Mutation: a full queue makes room by dropping its oldest packet.
ReceiverPushEvicts ==
  /\ Polled("receive") /\ receiver = "check" /\ lock = Nobody
  /\ IF CanPush(recvQ, recvBytes, held[1].size)
     THEN recvQ' = recvQ \o held /\ recvBytes' = recvBytes + held[1].size
     ELSE recvQ' = Tail(recvQ) \o held /\ recvBytes' = recvBytes - recvQ[1].size + held[1].size
  /\ held' = <<>> /\ receiver' = "announce"
  /\ UNCHANGED <<accepted, send, sender, writing, wire, spacePermit, consumers, control>>

\* push_*_receive: push under the queues mutex, or wait for space.
ReceiverPush ==
  /\ Polled("receive") /\ receiver = "check" /\ lock = Nobody
  /\ IF CanPush(recvQ, recvBytes, held[1].size)
     THEN /\ recvQ' = recvQ \o held /\ recvBytes' = recvBytes + held[1].size
          /\ held' = <<>> /\ receiver' = "announce"
     ELSE receiver' = "full" /\ UNCHANGED <<recv, held>>
  /\ UNCHANGED <<accepted, send, sender, writing, wire, spacePermit, consumers, control>>

\* *_receive_changed.notify_one: one sleeping consumer, if there is one.
ReceiverAnnounce ==
  /\ Polled("receive") /\ receiver = "announce"
  /\ receiver' = "read"
  /\ IF \E c \in Consumers : cpc[c] = "asleep"
     THEN \E c \in Consumers : cpc[c] = "asleep" /\ cpc' = [cpc EXCEPT ![c] = "woken"]
     ELSE UNCHANGED cpc
  /\ UNCHANGED <<accepted, send, sender, writing, wire, held, recv, spacePermit, lock,
                 delivered, control>>

ReceiverSpace ==
  /\ Polled("receive") /\ receiver = "full" /\ spacePermit
  /\ spacePermit' = FALSE
  /\ receiver' = "check"
  /\ UNCHANGED <<accepted, send, sender, writing, wire, held, recv, consumers, control>>

\* `native input consumer stalled for two seconds': the lanes end with an error.
ReceiverStalls ==
  /\ lane = "input" /\ Polled("receive") /\ receiver = "full"
  /\ running' = FALSE
  /\ UNCHANGED <<accepted, send, tasks, recv, spacePermit, consumers, phase, stop, stopping, lane>>

-----------------------------------------------------------------------------
(* *_receive and wait_pop                                                  *)

\* Lock and look at the front: take it if the caller's buffer is large enough.
Take(c) ==
  /\ cpc[c] \in {"idle", "woken"} /\ lock = Nobody /\ recvQ # <<>>
  /\ delivered' = Append(delivered, Head(recvQ))
  /\ recvQ' = Tail(recvQ) /\ recvBytes' = recvBytes - Head(recvQ).size
  /\ cpc' = [cpc EXCEPT ![c] = "notify"]
  /\ UNCHANGED <<accepted, send, tasks, spacePermit, lock, control>>

\* BUFFER_TOO_SMALL: the packet and its charge stay.
TakeTooSmall(c) ==
  /\ cpc[c] = "woken" /\ lock = Nobody /\ recvQ # <<>>
  /\ cpc' = [cpc EXCEPT ![c] = "idle"]
  /\ UNCHANGED <<accepted, send, tasks, recv, spacePermit, lock, delivered, control>>

\* Mutation: space is announced only when the packet limit had been reached.
TakeNotifyAtPacketLimit(c) ==
  /\ cpc[c] = "notify"
  /\ spacePermit' = (spacePermit \/ Len(recvQ) + 1 = PacketCapacity)
  /\ cpc' = [cpc EXCEPT ![c] = "idle"]
  /\ UNCHANGED <<accepted, send, tasks, recv, lock, delivered, control>>

\* *_receive_space.notify_one, after the queue is unlocked.
TakeNotify(c) ==
  /\ cpc[c] = "notify"
  /\ spacePermit' = TRUE
  /\ cpc' = [cpc EXCEPT ![c] = "idle"]
  /\ UNCHANGED <<accepted, send, tasks, recv, lock, delivered, control>>

\* Nothing queued: with the queue locked, look whether the endpoint has ended.
WaitCheck(c) ==
  /\ cpc[c] \in {"idle", "woken"} /\ lock = Nobody /\ recvQ = <<>>
  /\ IF stop THEN cpc' = [cpc EXCEPT ![c] = "idle"] /\ UNCHANGED lock
     ELSE cpc' = [cpc EXCEPT ![c] = "checked"] /\ lock' = c
  /\ UNCHANGED <<accepted, send, tasks, recv, spacePermit, delivered, control>>

\* Condvar::wait_timeout unlocks and sleeps in one step.
WaitSleep(c) ==
  /\ cpc[c] = "checked"
  /\ cpc' = [cpc EXCEPT ![c] = "asleep"] /\ lock' = Nobody
  /\ UNCHANGED <<accepted, send, tasks, recv, spacePermit, delivered, control>>

WaitTimeout(c) ==
  /\ cpc[c] = "asleep"
  /\ cpc' = [cpc EXCEPT ![c] = "idle"]
  /\ UNCHANGED <<accepted, send, tasks, recv, spacePermit, lock, delivered, control>>

-----------------------------------------------------------------------------
(* The endpoint around the lane (NativeEndpoint has the detail).           *)

\* hold_setup_*: while media endpoints are opened the data tasks are not polled.
Promote(side) ==
  /\ \/ phase[side] = "setup" /\ phase' = [phase EXCEPT ![side] = "promoting"]
     \/ phase[side] = "promoting" /\ phase' = [phase EXCEPT ![side] = "open"]
  /\ UNCHANGED <<accepted, send, tasks, recv, spacePermit, consumers, stop, stopping, running, lane>>

StopStore ==
  /\ ~stop
  /\ stop' = TRUE /\ stopping' = TRUE
  /\ UNCHANGED <<accepted, send, tasks, recv, spacePermit, consumers, phase, running, lane>>

\* notify_all does not take the queues mutex.
StopNotify ==
  /\ stopping
  /\ stopping' = FALSE
  /\ cpc' = [c \in Consumers |-> IF cpc[c] = "asleep" THEN "woken" ELSE cpc[c]]
  /\ UNCHANGED <<accepted, send, tasks, recv, spacePermit, lock, delivered, phase, stop, running,
                 lane>>

\* finish_worker fails the endpoint of lanes that ended by themselves.
Fail ==
  /\ ~running /\ ~stop
  /\ stop' = TRUE /\ stopping' = TRUE
  /\ UNCHANGED <<accepted, send, tasks, recv, spacePermit, consumers, phase, running, lane>>

\* until_shutdown drops the lane futures, what they hold included.
Cancel ==
  /\ stop /\ running
  /\ running' = FALSE
  /\ UNCHANGED <<accepted, send, tasks, recv, spacePermit, consumers, phase, stop, stopping, lane>>

-----------------------------------------------------------------------------

SenderStep == SenderPop \/ SenderSleep \/ SenderWake \/ SenderWrite
ReceiverStep == ReceiverRead \/ ReceiverPush \/ ReceiverAnnounce \/ ReceiverSpace
ConsumerStep(c) == Take(c) \/ TakeNotify(c) \/ WaitCheck(c) \/ WaitSleep(c)

Next ==
  \/ \E size \in Charges : Send(size)
  \/ SenderStep \/ ReceiverStep \/ ReceiverStalls
  \/ \E c \in Consumers : ConsumerStep(c) \/ TakeTooSmall(c) \/ WaitTimeout(c)
  \/ \E side \in Sides : Promote(side)
  \/ StopStore \/ StopNotify \/ Cancel \/ Fail

Spec == Init /\ [][Next]_vars

\* Tasks are polled, a promotion is bounded by its timeout and a stop goes on; the
\* consumers keep calling *_receive; the mutex a consumer takes and leaves again and
\* again is granted to the receiving task in the end.  No timeout has to expire.
FairSpec ==
  /\ Spec
  /\ WF_vars(SenderStep) /\ WF_vars(ReceiverStep) /\ SF_vars(ReceiverPush)
  /\ \A side \in Sides : WF_vars(phase[side] = "promoting" /\ Promote(side))
  /\ WF_vars(StopNotify) /\ WF_vars(Cancel) /\ WF_vars(Fail)
  /\ \A c \in Consumers : WF_vars(ConsumerStep(c))

-----------------------------------------------------------------------------
(* Properties.                                                             *)

TypeOK ==
  /\ \A s \in {accepted, sendQ, wire, recvQ, delivered, writing, held} : s \in Seq(Packets)
  /\ sendBytes \in Nat /\ recvBytes \in Nat
  /\ sendPermit \in BOOLEAN /\ spacePermit \in BOOLEAN
  /\ sender \in {"pop", "write", "sleep"} /\ receiver \in {"read", "check", "announce", "full"}
  /\ lock \in Consumers \cup {Nobody}
  /\ cpc \in [Consumers -> {"idle", "notify", "checked", "asleep", "woken"}]
  /\ \A c \in Consumers : cpc[c] = "checked" <=> lock = c
  /\ lane \in {"data", "input"} /\ phase \in [Sides -> {"setup", "promoting", "open"}]
  /\ stop \in BOOLEAN /\ stopping \in BOOLEAN /\ running \in BOOLEAN

\* Reliable records are never lost, repeated or reordered, across full queues,
\* concurrent readers, short buffers, promotion and cancellation: what was taken is
\* always somewhere on the way, in order.
NothingLost ==
  delivered \o recvQ \o held \o wire \o writing \o sendQ = accepted

\* bytes is the sum of the sizes in the queue: rest[i] is what is left without the first
\* i packets.
ChargedFor(bytes, queue) ==
  \E rest \in [0..Len(queue) -> 0..bytes] :
    /\ rest[0] = bytes /\ rest[Len(queue)] = 0
    /\ \A i \in 1..Len(queue) : rest[i - 1] = rest[i] + queue[i].size

\* The types, and: each queue keeps to both limits and its byte count is exact, so the subtraction
\* in can_push never wraps; at most one more record is held by each task.
WithinLimits ==
  /\ TypeOK
  /\ ChargedFor(sendBytes, sendQ) /\ sendBytes <= ByteCapacity /\ Len(sendQ) <= PacketCapacity
  /\ ChargedFor(recvBytes, recvQ) /\ recvBytes <= ByteCapacity /\ Len(recvQ) <= PacketCapacity
  /\ Len(writing) <= 1 /\ Len(held) <= 1

\* Backpressure ends: as long as consumers receive, everything accepted arrives,
\* through any number of full queues, unless the endpoint stops: again and again the
\* consumers have caught up with the application.  The receiving task of the data lane
\* waits for room however long that takes (push_data_receive); that the header says it
\* fails the endpoint instead is the next property.
EverythingArrives == []<>(delivered = accepted \/ stop)

\* `incoming overflow fails the endpoint without evicting records' (plank_transport.h, of
\* the reliable data queues): a record the receive queue has no room for ends the endpoint.
IncomingOverflowFails == lane = "data" /\ receiver = "full" ~> stop

\* `The transport condition variable wakes it immediately on input or stop, with a
\* one-second timeout only to recheck ownership' (docs/architecture/macos-input.md).
StopWakesReceivers ==
  stop /\ ~stopping => \A c \in Consumers : cpc[c] # "asleep"
=============================================================================
