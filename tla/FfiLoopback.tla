---- MODULE FfiLoopback ----
(***************************************************************************)
(* src/probes/network/plank-transport/native-ffi-loopback.c: one program   *)
(* drives a server and a client endpoint through the C ABI and asserts     *)
(* what each call returns.  The endpoints are the lanes and counters of    *)
(* native_ffi.rs as this program sees them: the lane tasks run on their    *)
(* own threads between any two of its calls.                               *)
(***************************************************************************)
EXTENDS Integers, Sequences, FiniteSets

Sides == {"server", "client"}
Lanes == {"video", "audio", "input", "up", "down"}

\* The sending side of a lane.
From(l) == IF l \in {"input", "up"} THEN "client" ELSE "server"
To(l) == IF From(l) = "server" THEN "client" ELSE "server"

VARIABLES
    lb,       \* the program: profile or not, step, exit code, what failed, fault seen
    ep,       \* side -> state of its endpoint
    approval, \* the decisions taken: "approved", and the sides authorized
    lane      \* lane -> its queues, its tasks and its two counters

loopbackVars == <<lb, ep, approval, lane>>

-----------------------------------------------------------------------------
(* What main does, in order *)

Do(op, arg) == [op |-> op, arg |-> arg]

Opening == <<Do("create", "server"), Do("create", "client"),
             Do("start", "server"), Do("start", "client")>>

\* With an expected certificate: validation, setup and its refusals.
ProfileSetup ==
    <<Do("await", "validating"), Do("refused", "up"), Do("certificate", ""),
      Do("approve", ""), Do("await", "setup"), Do("send", "up"), Do("receive", "up"),
      Do("refused", "input"), Do("authorize", "server"), Do("authorize", "client")>>

RoundTrips ==
    <<Do("await", "ready"),
      Do("send", "video"), Do("receive", "video"), Do("send", "audio"), Do("receive", "audio"),
      Do("send", "input"), Do("receive", "input"), Do("send", "up"), Do("receive", "up"),
      Do("send", "down"), Do("receive", "down")>>

Closing ==
    <<Do("settle", {"video", "audio"}), Do("fec", ""), Do("counters", ""),
      Do("send", "down"), Do("arrived", 2), Do("stop", "server"), Do("receive", "down"),
      Do("closure", ""), Do("limit", ""), Do("stop", "client"),
      Do("destroy", "client"), Do("destroy", "server"), Do("exit", "")>>

Script(profile) ==
    Opening \o (IF profile THEN ProfileSetup ELSE <<>>) \o RoundTrips \o Closing

\* goto failure: both endpoints are destroyed.
FailureSteps == <<Do("destroy", "client"), Do("destroy", "server"), Do("exit", "")>>

Steps == IF lb.why = "" THEN Script(lb.profile) ELSE FailureSteps
Op == Steps[lb.step]

LoopbackInit ==
    /\ \E p \in BOOLEAN :
         lb = [profile |-> p, step |-> 1, code |-> -1, why |-> "", fault |-> FALSE]
    /\ ep = [s \in Sides |-> "none"]
    /\ approval = {}
    /\ lane = [l \in Lanes |-> [queue |-> <<>>, sending |-> FALSE, sent |-> 0,
                                wire |-> <<>>, recv |-> <<>>, pushing |-> FALSE,
                                received |-> 0, taken |-> 0]]

Advance == lb' = [lb EXCEPT !.step = @ + 1]
GoToFailure(why) == lb' = [lb EXCEPT !.step = 1, !.code = 1, !.why = why]
Expect(ok, why) == IF ok THEN Advance ELSE GoToFailure(why)

-----------------------------------------------------------------------------
(* The calls *)

\* The states in which *_send accepts a packet.
Accepts(l) ==
    \/ ep[From(l)] = "ready"
    \/ ep[From(l)] = "setup" /\ l \in {"up", "down"}

Create == /\ Op.op = "create"
          /\ ep' = [ep EXCEPT ![Op.arg] = "created"]
          /\ Advance /\ UNCHANGED <<approval, lane>>

Start == /\ Op.op = "start"
         /\ ep' = [ep EXCEPT ![Op.arg] = "connecting"]
         /\ Advance /\ UNCHANGED <<approval, lane>>

\* Either call may report an error instead.
OpenFails == /\ Op.op \in {"create", "start"} /\ ~lb.fault
             /\ lb' = [lb EXCEPT !.step = 1, !.code = 1, !.why = "open", !.fault = TRUE]
             /\ UNCHANGED <<ep, approval, lane>>

\* The polling loops and wait_ready; giving up is TimeOut.
Awaited(state) ==
    IF state = "validating" THEN ep["client"] = state
    ELSE \A s \in Sides : ep[s] = state
Await == /\ Op.op = "await" /\ Awaited(Op.arg)
         /\ Advance /\ UNCHANGED <<ep, approval, lane>>

\* A send that must be refused with INVALID_STATE.
Refused == /\ Op.op = "refused"
           /\ Expect(~Accepts(Op.arg), "accepted too early")
           /\ UNCHANGED <<ep, approval, lane>>

\* Size query, copy and comparison with the expected certificate file.
CompareCertificate ==
    /\ Op.op = "certificate"
    /\ Expect(ep["client"] = "validating", "certificate")
    /\ UNCHANGED <<ep, approval, lane>>

Approve == /\ Op.op = "approve"
           /\ Expect(ep["client"] = "validating", "approve")
           /\ approval' = approval \cup {"approved"} /\ UNCHANGED <<ep, lane>>

Authorize == /\ Op.op = "authorize"
             /\ Expect(ep[Op.arg] = "setup", "authorize")
             /\ approval' = approval \cup {Op.arg} /\ UNCHANGED <<ep, lane>>

\* Packets of a lane are numbered; the contents compared are those numbers.
Fresh(l) == lane[l].taken + Len(lane[l].recv) + Len(lane[l].wire) + Len(lane[l].queue) + 1

SendPacket ==
    /\ Op.op = "send"
    /\ Expect(Accepts(Op.arg), "send")
    /\ lane' = IF ~Accepts(Op.arg) THEN lane
               ELSE [lane EXCEPT ![Op.arg].queue = Append(@, Fresh(Op.arg))]
    /\ UNCHANGED <<ep, approval>>

\* What is queued comes before the error of an endpoint that has ended.
ReceivePacket ==
    /\ Op.op = "receive"
    /\ LET q == lane[Op.arg].recv
       IN  \/ /\ q # <<>>
              /\ Expect(Head(q) = lane[Op.arg].taken + 1, "mismatch")
              /\ lane' = [lane EXCEPT ![Op.arg].recv = Tail(@), ![Op.arg].taken = @ + 1]
           \/ /\ q = <<>> /\ ep[To(Op.arg)] = "failed"
              /\ GoToFailure("lost") /\ lane' = lane
    /\ UNCHANGED <<ep, approval>>

\* The loop that waits for counters the sender advances after the fact.
Settle == /\ Op.op = "settle" /\ \A l \in Op.arg : lane[l].sent >= 1
          /\ Advance /\ UNCHANGED <<ep, approval, lane>>

\* Statistics of the protocol are sampled later than the frame arrives.
AwaitFec == /\ Op.op = "fec" /\ lane["video"].received >= 1
            /\ Advance /\ UNCHANGED <<ep, approval, lane>>

\* The exact assertions on both sides' counters.
Counters == /\ Op.op = "counters"
            /\ Expect(\A l \in Lanes :
                        LET n == IF l = "up" /\ lb.profile THEN 2 ELSE 1
                        IN  lane[l].sent = n /\ lane[l].received = n, "counters")
            /\ UNCHANGED <<ep, approval, lane>>

\* The client has counted the last control packet.
AwaitArrival == /\ Op.op = "arrived" /\ lane["down"].received = Op.arg
                /\ Advance /\ UNCHANGED <<ep, approval, lane>>

Stop == /\ Op.op = "stop"
        /\ ep' = [ep EXCEPT ![Op.arg] = IF @ = "failed" THEN @ ELSE "stopped"]
        /\ Advance /\ UNCHANGED <<approval, lane>>

\* The receive that must end in ERROR_RUNTIME once the peer is gone.
Closure == /\ Op.op = "closure"
           /\ \/ lane["down"].recv # <<>> /\ GoToFailure("closure")
              \/ lane["down"].recv = <<>> /\ ep["client"] = "failed" /\ Advance
           /\ UNCHANGED <<ep, approval, lane>>

Destroy == /\ Op.op = "destroy"
           /\ ep' = [ep EXCEPT ![Op.arg] = "none"]
           /\ Advance /\ UNCHANGED <<approval, lane>>

\* Any bounded wait may run out, the closure limit included.
TimeOut ==
    /\ Op.op \in {"await", "receive", "fec", "arrived", "closure", "limit", "settle"}
    /\ lb' = IF Op.op \in {"settle", "fec"}
             THEN [lb EXCEPT !.step = @ + 1, !.fault = TRUE]
             ELSE [lb EXCEPT !.step = 1, !.code = 1, !.why = "timeout", !.fault = TRUE]
    /\ UNCHANGED <<ep, approval, lane>>

WithinLimit == /\ Op.op = "limit" /\ Advance /\ UNCHANGED <<ep, approval, lane>>

Exit == /\ Op.op = "exit" /\ lb.code = -1
        /\ lb' = [lb EXCEPT !.code = 0] /\ UNCHANGED <<ep, approval, lane>>

-----------------------------------------------------------------------------
(* The endpoints' own threads *)

Live(s) == ep[s] \in {"setup", "ready"}

\* Connection, validation, setup and promotion.
Connect ==
    /\ \A s \in Sides : ep[s] = "connecting"
    /\ ep' = IF lb.profile THEN [ep EXCEPT !["client"] = "validating"]
             ELSE [s \in Sides |-> "ready"]
    /\ UNCHANGED <<lb, approval, lane>>
ReachSetup(s) ==
    /\ "approved" \in approval
    /\ ep[s] = IF s = "client" THEN "validating" ELSE "connecting"
    /\ ep' = [ep EXCEPT ![s] = "setup"] /\ UNCHANGED <<lb, approval, lane>>
Promote(s) ==
    /\ Sides \subseteq approval /\ ep[s] = "setup"
    /\ ep' = [ep EXCEPT ![s] = "ready"] /\ UNCHANGED <<lb, approval, lane>>

\* A send task: the packet is on its way before it is counted.
SendTask(l) ==
    /\ Live(From(l)) /\ lane[l].queue # <<>> /\ ~lane[l].sending
    /\ lane' = [lane EXCEPT ![l].wire = Append(@, Head(lane[l].queue)),
                            ![l].queue = Tail(@), ![l].sending = TRUE]
    /\ UNCHANGED <<lb, ep, approval>>
CountSent(l) ==
    /\ Live(From(l)) /\ lane[l].sending
    /\ lane' = [lane EXCEPT ![l].sent = @ + 1, ![l].sending = FALSE]
    /\ UNCHANGED <<lb, ep, approval>>

\* A receive task: the packet can be taken before it is counted.
ReceiveTask(l) ==
    /\ Live(To(l)) /\ lane[l].wire # <<>> /\ ~lane[l].pushing
    /\ lane' = [lane EXCEPT ![l].recv = Append(@, Head(lane[l].wire)),
                            ![l].wire = Tail(@), ![l].pushing = TRUE]
    /\ UNCHANGED <<lb, ep, approval>>
CountReceived(l) ==
    /\ Live(To(l)) /\ lane[l].pushing
    /\ lane' = [lane EXCEPT ![l].received = @ + 1, ![l].pushing = FALSE]
    /\ UNCHANGED <<lb, ep, approval>>

\* Mutation: the end of the connection clears the receive queues.
PeerGoneClears(s) ==
    /\ Live(s) /\ \E o \in Sides \ {s} : ep[o] \in {"stopped", "none"}
    /\ ep' = [ep EXCEPT ![s] = "failed"]
    /\ lane' = [l \in Lanes |-> IF To(l) = s THEN [lane[l] EXCEPT !.recv = <<>>] ELSE lane[l]]
    /\ UNCHANGED <<lb, approval>>

\* The peer stopped: the connection ends and what it still carried is gone.
PeerGone(s) ==
    /\ Live(s) /\ \E o \in Sides \ {s} : ep[o] \in {"stopped", "none"}
    /\ ep' = [ep EXCEPT ![s] = "failed"] /\ UNCHANGED <<lb, approval, lane>>

ConnectionFails(s) ==
    /\ ep[s] \notin {"none", "created", "stopped", "failed"} /\ ~lb.fault
    /\ ep' = [ep EXCEPT ![s] = "failed"]
    /\ lb' = [lb EXCEPT !.fault = TRUE] /\ UNCHANGED <<approval, lane>>

-----------------------------------------------------------------------------
Program ==
    \/ Create \/ Start \/ OpenFails \/ Await \/ Refused \/ CompareCertificate
    \/ Approve \/ Authorize
    \/ SendPacket \/ ReceivePacket \/ Settle \/ AwaitFec \/ Counters \/ AwaitArrival
    \/ Stop \/ Closure \/ WithinLimit \/ Destroy \/ TimeOut \/ Exit
LoopbackNext ==
    \/ Program \/ Connect
    \/ \E s \in Sides : ReachSetup(s) \/ Promote(s) \/ PeerGone(s) \/ ConnectionFails(s)
    \/ \E l \in Lanes : SendTask(l) \/ CountSent(l) \/ ReceiveTask(l) \/ CountReceived(l)

-----------------------------------------------------------------------------
(* Properties *)

\* The program's assertions hold whenever nothing timed out and no connection
\* failed: nothing is accepted before approval and authorization, every round
\* trip returns what was sent, and the control packet queued before the peer
\* stopped comes out before ERROR_RUNTIME (line 530), never after or not at all.
\* The assertions on the counters (line 457) are left out: a lane counts a packet after
\* it can be taken, so that they may fail of a transfer without a fault.
LoopbackPasses ==
    /\ ~lb.fault => lb.why \in {"", "counters"}
    /\ Op.op = "exit" => ep = [s \in Sides |-> "none"]
====
