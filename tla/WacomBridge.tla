---- MODULE WacomBridge ----
(***************************************************************************)
(* src/probes/wacom/plank-wacom-raw-bridge.cpp: a client that reads a      *)
(* tablet's hidraw interfaces and a host that recreates them with UHID,    *)
(* joined by one TCP connection.  Both are single-threaded poll loops with *)
(* blocking sends.  The tablet, the kernel's UHID side and the connection  *)
(* are external: reports appear, requests are issued one at a time per     *)
(* interface and given up after a while, the connection breaks.            *)
(*                                                                         *)
(* A frame is [type, itf, tx, data]; data stands for a report or a result. *)
(***************************************************************************)
EXTENDS Integers, Sequences, FiniteSets, SequencesExt

CONSTANTS
    BridgeTablets,   \* the client's --hidraw arguments: sequences of tablet names
    MaxInterfaces,   \* 16 in the code
    SocketFrames,    \* bound: frames a direction of the connection can hold
    MaxEvents        \* bound: reports of the tablet and requests of the kernel together

ASSUME BridgeAssumption ==
    /\ BridgeTablets \subseteq Seq(STRING) \ {<<>>}
    /\ {MaxInterfaces, SocketFrames, MaxEvents} \subseteq Nat

VARIABLES
    tablets,   \* the devices named on the command line
    bc,        \* the client: place, exit code, interfaces opened, grab held, work of this poll
    bh,        \* the host: place, exit code, descriptors received, devices, work of this poll
    wire,      \* <<client to host, host to client>>
    ends,      \* which ends of the connection are open
    pen,       \* interface -> reports waiting in hidraw
    made,      \* interface -> reports produced so far
    read,      \* interface -> reports the client has read
    injected,  \* interface -> reports the host has written to UHID
    kernel,    \* interface -> events waiting in UHID
    asked,     \* interface -> requests and outputs issued so far
    awaited,   \* interface -> the request the kernel waits for, 0 if none
    answers    \* the replies UHID was given: <<interface, id, result>>

bridgeVars == <<tablets, bc, bh, wire, ends, pen, made, read, injected,
                kernel, asked, awaited, answers>>
deviceVars == <<pen, made, read, injected, kernel, asked, awaited, answers>>

Interfaces == 1..Len(tablets)
Created == 1..bh.devices

BridgeInit ==
    /\ tablets \in BridgeTablets
    /\ bc = [pc |-> "open", code |-> -1, opened |-> 0, grabbed |-> FALSE, sent |-> 0,
             ready |-> {}]
    /\ bh = [pc |-> "start", code |-> -1, count |-> 0, got |-> <<>>, devices |-> 0,
             running |-> TRUE, ready |-> {}]
    /\ wire = <<<<>>, <<>>>> /\ ends = {}
    /\ pen = [i \in Interfaces |-> <<>>] /\ made = [i \in Interfaces |-> 0]
    /\ read = [i \in Interfaces |-> <<>>] /\ injected = [i \in Interfaces |-> <<>>]
    /\ kernel = [i \in Interfaces |-> <<>>] /\ asked = [i \in Interfaces |-> 0]
    /\ awaited = [i \in Interfaces |-> 0] /\ answers = {}

Frame(type, itf, tx, data) == [type |-> type, itf |-> itf, tx |-> tx, data |-> data]

\* send_frame: blocks while the direction is full; to a peer that has closed the
\* first write goes nowhere and the next one fails.
SendFrame(dir, f) ==
    IF Cardinality(ends) < 2 THEN UNCHANGED wire
    ELSE /\ Len(wire[dir]) < SocketFrames
         /\ wire' = [wire EXCEPT ![dir] = Append(@, f)]

-----------------------------------------------------------------------------
(* Client *)

ClientAt(place) == bc' = [bc EXCEPT !.pc = place]
\* On to the readable interfaces, or straight to the next poll.
ToReports(left) == bc' = [bc EXCEPT !.ready = left, !.pc = IF left = {} THEN "poll" ELSE "reports"]
\* The end of the process, whichever way, gives the grabbed devices back.
ClientLeaves(code) ==
    /\ bc' = [bc EXCEPT !.pc = "exit", !.code = code, !.grabbed = FALSE]
    /\ ends' = ends \ {"client"}

\* The interface is on the bus, of the model and at the port of the first, and has its
\* serial number if that has one.
SameTablet(i) == tablets[i] = tablets[1]

\* Mutation: the interfaces need not belong to the tablet of the first.
OpenHidrawAny(ok) ==
    /\ bc.pc = "open" /\ bc.opened < Len(tablets)
    /\ bc' = IF ok THEN [bc EXCEPT !.opened = @ + 1] ELSE [bc EXCEPT !.pc = "exit", !.code = 3]
    /\ UNCHANGED <<tablets, bh, wire, ends, deviceVars>>

\* Open an interface, check that it is the first one's tablet, read its descriptor.
OpenHidraw(ok) ==
    /\ bc.pc = "open" /\ bc.opened < Len(tablets)
    /\ bc' = IF ok /\ SameTablet(bc.opened + 1)
             THEN [bc EXCEPT !.opened = @ + 1]
             ELSE [bc EXCEPT !.pc = "exit", !.code = 3]
    /\ UNCHANGED <<tablets, bh, wire, ends, deviceVars>>

\* EVIOCGRAB of every --grab device.
GrabTablet(ok) ==
    /\ bc.pc = "open" /\ bc.opened = Len(tablets)
    /\ bc' = IF ok THEN [bc EXCEPT !.pc = "connect", !.grabbed = TRUE]
             ELSE [bc EXCEPT !.pc = "exit", !.code = 3]
    /\ UNCHANGED <<tablets, bh, wire, ends, deviceVars>>

ConnectTcp(ok) ==
    /\ bc.pc = "connect"
    /\ IF ok THEN /\ bh.pc = "listen" /\ ends' = {"client", "host"}
                  /\ ClientAt("attach")
                  /\ bh' = [bh EXCEPT !.pc = "device"]
             ELSE ClientLeaves(4) /\ UNCHANGED bh
    /\ UNCHANGED <<tablets, wire, deviceVars>>

\* The device message, then a descriptor per interface.
Attach ==
    /\ bc.pc = "attach"
    /\ \/ /\ SendFrame(1, IF bc.sent = 0 THEN Frame("device", 0, 0, Len(tablets))
                          ELSE Frame("descriptor", bc.sent, 0, tablets[bc.sent]))
          /\ bc' = [bc EXCEPT !.sent = @ + 1,
                              !.pc = IF bc.sent = Len(tablets) THEN "poll" ELSE @]
          /\ UNCHANGED ends
       \/ "host" \notin ends /\ ClientLeaves(5) /\ UNCHANGED wire
    /\ UNCHANGED <<tablets, bh, deviceVars>>

\* poll: what is ready now is handled before the next poll.  A peer that closed
\* shows as the end of the frames it sent or, with data it never read, at once.
ClientPoll ==
    /\ bc.pc = "poll"
    /\ LET reports == {i \in Interfaces : pen[i] # <<>>}
           closed == "host" \notin ends
       IN  \/ closed /\ ClientAt("detach")
           \/ /\ wire[2] # <<>> \/ (~closed /\ reports # {})
              /\ bc' = [bc EXCEPT !.ready = reports,
                                  !.pc = IF wire[2] # <<>> THEN "frame" ELSE "reports"]
    /\ UNCHANGED <<tablets, bh, wire, ends, deviceVars>>

\* What the tablet's ioctl for a feature, output or input report gives.
DeviceResult(f) == <<tablets[f.itf], f.itf, f.data>>

\* get_report and set_report are answered with the device's result, output is not;
\* an answer that cannot be sent ends the loop.
ClientFrame ==
    /\ bc.pc = "frame"
    /\ LET f == Head(wire[2])
           reply == Frame("reply", f.itf, f.tx, DeviceResult(f))
       IN  \/ /\ f.type = "output" \/ "host" \notin ends
              /\ wire' = [wire EXCEPT ![2] = Tail(@)]
              /\ ToReports(bc.ready)
           \/ /\ f.type # "output" /\ "host" \notin ends
              /\ wire' = [wire EXCEPT ![2] = Tail(@)]
              /\ ClientAt("detach")
           \/ /\ f.type # "output" /\ "host" \in ends /\ Len(wire[1]) < SocketFrames
              /\ wire' = <<Append(wire[1], reply), Tail(wire[2])>>
              /\ ToReports(bc.ready)
    /\ UNCHANGED <<tablets, bh, ends, deviceVars>>

\* The interfaces found readable, in order: one report each.  A report that cannot
\* be sent is lost and the rest are left to the next poll, which sees why.
ForwardReport ==
    /\ bc.pc = "reports"
    /\ LET i == Min(bc.ready)
       IN  /\ SendFrame(1, Frame("input", i, 0, Head(pen[i])))
           /\ pen' = [pen EXCEPT ![i] = Tail(@)]
           /\ read' = [read EXCEPT ![i] = Append(@, Head(pen[i]))]
           /\ \/ ToReports(bc.ready \ {i})
              \/ "host" \notin ends /\ ToReports({})
    /\ UNCHANGED <<tablets, bh, ends, made, injected, kernel, asked, awaited, answers>>

\* The loop was left, or poll failed: detach, ungrab, close.
Detach ==
    /\ bc.pc = "detach"
    /\ SendFrame(1, Frame("detach", 0, 0, 0))
    /\ ClientLeaves(0)
    /\ UNCHANGED <<tablets, bh, deviceVars>>

-----------------------------------------------------------------------------
(* Host *)

\* listen_tcp: the host waits for its client.
ListenTcp(ok) ==
    /\ bh.pc = "start"
    /\ bh' = IF ok THEN [bh EXCEPT !.pc = "listen"] ELSE [bh EXCEPT !.pc = "exit", !.code = 4]
    /\ UNCHANGED <<tablets, bc, wire, ends, deviceVars>>

\* A frame, or the end of the connection.
HostReads == wire[1] # <<>> \/ "client" \notin ends

\* The process ends: its descriptors close and UHID drops its devices.
HostLeaves(code) ==
    /\ bh' = [bh EXCEPT !.pc = "exit", !.code = code, !.devices = 0]
    /\ ends' = ends \ {"host"}

\* Device metadata with a usable interface count.
ReceiveDevice ==
    /\ bh.pc = "device" /\ HostReads
    /\ IF wire[1] # <<>> /\ Head(wire[1]).data \in 1..MaxInterfaces
         THEN /\ bh' = [bh EXCEPT !.pc = "descriptors", !.count = Head(wire[1]).data]
              /\ wire' = [wire EXCEPT ![1] = Tail(@)] /\ UNCHANGED ends
         ELSE HostLeaves(5) /\ UNCHANGED wire
    /\ UNCHANGED <<tablets, bc, deviceVars>>

\* As many descriptor frames as there are interfaces, in whatever order.
ReceiveDescriptor ==
    /\ bh.pc = "descriptors" /\ HostReads
    /\ IF wire[1] # <<>> /\ Head(wire[1]).type = "descriptor" /\ Head(wire[1]).itf <= bh.count
         THEN /\ bh' = [bh EXCEPT !.got = Append(@, <<Head(wire[1]).itf, Head(wire[1]).data>>),
                                  !.pc = IF Len(bh.got) + 1 = bh.count THEN "create" ELSE @]
              /\ wire' = [wire EXCEPT ![1] = Tail(@)] /\ UNCHANGED ends
         ELSE HostLeaves(5) /\ UNCHANGED wire
    /\ UNCHANGED <<tablets, bc, deviceVars>>

\* One UHID device per interface that has a descriptor; a failure leaves with
\* those already made.
CreateDevice(ok) ==
    /\ bh.pc = "create"
    /\ IF \A d \in ToSet(bh.got) : d[1] # bh.devices + 1 THEN HostLeaves(5)
       ELSE IF ~ok THEN HostLeaves(6)
       ELSE /\ bh' = [bh EXCEPT !.devices = @ + 1,
                                !.pc = IF bh.devices + 1 = bh.count THEN "poll" ELSE @]
            /\ UNCHANGED ends
    /\ UNCHANGED <<tablets, bc, wire, deviceVars>>

\* The host's poll, as ClientPoll.
HostPoll ==
    /\ bh.pc = "poll"
    /\ LET events == {i \in Created : kernel[i] # <<>>}
           closed == "client" \notin ends
       IN  \/ closed /\ bh' = [bh EXCEPT !.pc = "destroy"]
           \/ /\ wire[1] # <<>> \/ (~closed /\ events # {})
              /\ bh' = [bh EXCEPT !.ready = events,
                                  !.pc = IF wire[1] # <<>> THEN "frame" ELSE "events"]
    /\ UNCHANGED <<tablets, bc, wire, ends, deviceVars>>

\* On to the readable devices, or to the loop's condition.
ToEvents(left, on) ==
    bh' = [bh EXCEPT !.ready = left, !.running = on,
                     !.pc = IF left # {} THEN "events" ELSE IF on THEN "poll" ELSE "destroy"]

\* write_uhid_event of an input frame.
Injected(f) == IF f.type = "input" THEN [injected EXCEPT ![f.itf] = Append(@, f.data)] ELSE injected

\* input and replies go to the UHID device of their interface; detach lets
\* this turn of the loop be the last.
HostFrame ==
    /\ bh.pc = "frame"
    /\ LET f == Head(wire[1])
       IN  /\ ToEvents(bh.ready, f.type # "detach")
           /\ injected' = Injected(f)
           /\ answers' = IF f.type = "reply"
                         THEN answers \cup {<<f.itf, f.tx, f.data>>} ELSE answers
           /\ awaited' = IF f.type = "reply" /\ awaited[f.itf] = f.tx
                         THEN [awaited EXCEPT ![f.itf] = 0] ELSE awaited
    /\ wire' = [wire EXCEPT ![1] = Tail(@)]
    /\ UNCHANGED <<tablets, bc, ends, pen, made, read, kernel, asked>>

\* One event of each device found readable; a failed send is ignored.
RelayEvent ==
    /\ bh.pc = "events"
    /\ LET i == Min(bh.ready)
           e == Head(kernel[i])
       IN  /\ SendFrame(2, Frame(e[1], i, IF e[1] = "output" THEN 0 ELSE e[2], e[2]))
           /\ kernel' = [kernel EXCEPT ![i] = Tail(@)]
           /\ ToEvents(bh.ready \ {i}, bh.running)
    /\ UNCHANGED <<tablets, bc, ends, pen, made, read, injected, asked, awaited, answers>>

DestroyDevices ==
    /\ bh.pc = "destroy"
    /\ HostLeaves(0)
    /\ UNCHANGED <<tablets, bc, wire, deviceVars>>

-----------------------------------------------------------------------------
(* Environment *)

EventsLeft == FoldFunction(+, 0, made) + FoldFunction(+, 0, asked) < MaxEvents

PenReports(i) ==
    /\ bc.pc # "exit" /\ EventsLeft
    /\ made' = [made EXCEPT ![i] = @ + 1]
    /\ pen' = [pen EXCEPT ![i] = Append(@, made'[i])]
    /\ UNCHANGED <<tablets, bc, bh, wire, ends, read, injected, kernel, asked, awaited, answers>>

KernelAsks(i, type) ==
    /\ i \in Created /\ EventsLeft
    /\ type # "output" => awaited[i] = 0
    /\ asked' = [asked EXCEPT ![i] = @ + 1]
    /\ kernel' = [kernel EXCEPT ![i] = Append(@, <<type, asked'[i]>>)]
    /\ awaited' = IF type = "output" THEN awaited ELSE [awaited EXCEPT ![i] = asked'[i]]
    /\ UNCHANGED <<tablets, bc, bh, wire, ends, pen, made, read, injected, answers>>

\* poll itself fails on either side.
PollFails ==
    /\ \/ bc.pc = "poll" /\ ClientAt("detach") /\ UNCHANGED bh
       \/ bh.pc = "poll" /\ bh' = [bh EXCEPT !.pc = "destroy"] /\ UNCHANGED bc
    /\ UNCHANGED <<tablets, wire, ends, deviceVars>>

\* Either process is killed; the kernel takes its descriptors.
Killed ==
    /\ \/ bc.pc # "exit" /\ ClientLeaves(137) /\ UNCHANGED bh
       \/ bh.pc \notin {"start", "exit", "listen"} /\ HostLeaves(137) /\ UNCHANGED bc
    /\ UNCHANGED <<tablets, wire, deviceVars>>

\* accept4 fails.
AcceptFails ==
    /\ bh.pc = "listen"
    /\ bh' = [bh EXCEPT !.pc = "exit", !.code = 4]
    /\ UNCHANGED <<tablets, bc, wire, ends, deviceVars>>

-----------------------------------------------------------------------------
ClientSteps ==
    \/ \E ok \in BOOLEAN : OpenHidraw(ok) \/ GrabTablet(ok) \/ ConnectTcp(ok)
    \/ Attach \/ ClientPoll \/ ClientFrame \/ ForwardReport \/ Detach
HostSteps ==
    \/ ReceiveDevice \/ ReceiveDescriptor \/ HostPoll \/ HostFrame \/ RelayEvent
    \/ DestroyDevices
    \/ \E ok \in BOOLEAN : ListenTcp(ok) \/ CreateDevice(ok)
BridgeNext ==
    \/ ClientSteps \/ HostSteps \/ PollFails \/ Killed \/ AcceptFails
    \/ \E i \in Interfaces : \/ PenReports(i)
                             \/ \E type \in {"get_report", "set_report", "output"} : KernelAsks(i, type)

\* Both processes run.
BridgeFairness ==
    WF_bridgeVars(ClientSteps) /\ WF_bridgeVars(HostSteps)
BridgeSpec == BridgeInit /\ [][BridgeNext]_bridgeVars /\ BridgeFairness

-----------------------------------------------------------------------------
(* Properties *)

\* What reaches a virtual interface is what the same physical interface reported,
\* in order and without gaps, up to where the connection has got; nothing is
\* injected for a device of another tablet, and devices exist only with all their
\* descriptors, each its own.  A reply UHID is given answers a request made on that very
\* interface, with the result of that interface of the tablet.
BridgeRelays ==
    /\ \A i \in Interfaces : IsPrefix(injected[i], read[i])
    /\ \A i \in Interfaces : read[i] = [n \in 1..Len(read[i]) |-> n]
    /\ Created # {} => ToSet(bh.got) = {<<i, tablets[1]>> : i \in Interfaces}
    /\ \A a \in answers :
      /\ a[2] \in 1..asked[a[1]]
      /\ a[3] = <<tablets[1], a[1], a[2]>>

\* A request the kernel waits for is answered, or the bridge comes to an end:
\* neither poll loop starves the other direction nor blocks for good in a send,
\* as long as a direction of the connection holds what the kernel can ask.
RequestsAnswered ==
    \A i \in 1..MaxInterfaces :
      (i \in Created /\ awaited[i] # 0) ~> (i \notin Created \/ awaited[i] = 0)

\* Once they are connected, when one process has gone, killed or not, the other
\* notices, destroys its devices or gives the grabbed tablet back, and ends.
BridgeEnds ==
    ((bc.pc = "exit" \/ bh.pc = "exit") /\ bh.pc \notin {"start", "listen"})
      ~> (bc.pc = "exit" /\ bh.pc = "exit" /\ ~bc.grabbed /\ bh.devices = 0)
====
