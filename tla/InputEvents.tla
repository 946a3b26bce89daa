---- MODULE InputEvents ----
(***************************************************************************)
(* Input of a Client on the desktop of a macOS Host: input/input-events.m, *)
(* which turns packets into Quartz events, and input/native-input.m, which *)
(* delivers them under the stream's lease.  One packet may make several    *)
(* events; the lease is looked at before each of them.  Positions, click   *)
(* counts, pressure and time are left out.                                 *)
(***************************************************************************)
EXTENDS Integers, Sequences, SequencesExt

CONSTANTS
    InputKeys,       \* keys: "a" and "b", the two shift keys, Caps Lock
    MouseButtons,    \* indices of mouse buttons, of 0..4
    PenBits,         \* side buttons of the pen, of {1, 2, 4}
    DeviceSets,      \* what Clients have, of "mouse", "keyboard" and "pen"
    MaxPackets       \* bound: packets and repetitions

VARIABLES
    held,            \* PLANKMacInputState and PLANKMacPenState: [keys, buttons, flags,
                     \* repeatKey, pen]
    numbers,         \* nextMouseEventNumber, mouseEventNumber, penEventNumber
    mapperStopped,   \* _stopped of the mapper
    inputStopped,    \* _stopped of native-input
    deliveries,      \* the events of the packet, or of stop, that are still to be delivered
    authority,       \* "ready", "lease" once the endpoint is not READY any more, "none" once
                     \* the stream's lease or the session is not valid
    devices,         \* what this Client has
    desktop,         \* what the desktop takes to be pressed: [pressed, near]
    unbuilt,         \* an event could not be constructed
    packets          \* packets consumed

inputVars == <<held, numbers, mapperStopped, inputStopped, deliveries, authority, devices, desktop,
               unbuilt, packets>>

Modifier(key) == IF key \in {"leftShift", "rightShift"} THEN {"shift"} ELSE {}
Latches(key) == key = "capsLock"
NoKey == "none"
PenAway == [near |-> FALSE, down |-> FALSE, tool |-> 0, buttons |-> {}]

\* An event: its place in a press, the key or button it is of, and what is held after it.
Event(phase, source, after) == [phase |-> phase, source |-> source, after |-> after]
Mouse(i) == <<"mouse", i>>
Pen(i) == <<"pen", i>>
Sources == {Mouse(i) : i \in MouseButtons} \cup {Pen(i) : i \in 0..3}
NoSource == <<"none", 0>>

\* buttonType, penButtonKind: the button as Quartz knows it.
Class(source) ==
    CASE source[1] \in {"key", "none"} -> source
      [] source[2] = 0 -> <<"left", 0>>
      [] source \in {Mouse(2), Pen(1)} -> <<"right", 0>>
      [] OTHER -> <<"other", 0>>

-----------------------------------------------------------------------------
(* Packets *)

\* ABSOLUTE_MOUSE: motion, or a drag of the first button that is down.
Motion ==
    LET down == {i \in held.buttons : \A j \in held.buttons : i <= j}
    IN  IF down = {} THEN <<Event("move", NoSource, held)>>
        ELSE <<Event("drag", Mouse(CHOOSE i \in down : TRUE), held)>>

\* MOUSE_BUTTON.
Button(i, down) ==
    IF (i \in held.buttons) = down THEN <<>>
    ELSE <<Event(IF down THEN "down" ELSE "up", Mouse(i),
                 [held EXCEPT !.buttons = IF down THEN @ \cup {i} ELSE @ \ {i}])>>

Scroll == <<Event("move", NoSource, held)>>

\* The flags of a keyboard event: the Client's, but Caps Lock is a latch of the Host and a
\* modifier stays on as long as one of its keys is down.
KeyFlags(key, down, wire) ==
    LET others == \E k \in held.keys \ {key} : Modifier(k) = Modifier(key)
        latched == wire \cup (held.flags \cap {"caps"})
        shifted == IF Modifier(key) = {} THEN latched
                   ELSE IF down \/ others THEN latched \cup Modifier(key) ELSE latched \ Modifier(key)
    IN  IF ~Latches(key) \/ ~down THEN shifted
        ELSE IF "caps" \in shifted THEN shifted \ {"caps"} ELSE shifted \cup {"caps"}

\* KEYBOARD.  `repeats': the system's timing lets the key repeat.
Key(key, down, wire, repeats) ==
    LET repeat == down /\ key \in held.keys
        plain == Modifier(key) = {} /\ ~Latches(key)
        repeatKey == CASE ~down /\ key = held.repeatKey -> NoKey
                       [] down /\ ~repeat /\ plain -> IF repeats THEN key ELSE NoKey
                       [] OTHER -> held.repeatKey
    IN  IF (~down /\ key \notin held.keys) \/ (repeat /\ ~plain) THEN <<>>
        ELSE <<Event(IF repeat THEN "repeat" ELSE IF down THEN "down" ELSE "up", <<"key", key>>,
                     [held EXCEPT !.keys = IF down THEN @ \cup {key} ELSE @ \ {key},
                                  !.flags = KeyFlags(key, down, wire), !.repeatKey = repeatKey])>>

PenEvent(phase, source, pen) == Event(phase, source, [held EXCEPT !.pen = pen])
\* penEventIndex.
PenIndex(bit) == CASE bit = 1 -> 1 [] bit = 2 -> 2 [] OTHER -> 3

\* The side buttons that change, one event each.
PenToggles(pen, buttons) ==
    LET changed == SelectSeq(<<1, 2, 4>>, LAMBDA bit : (bit \in pen.buttons) # (bit \in buttons))
        after(n) == {bit \in PenBits : IF bit \in ToSet(SubSeq(changed, 1, n)) THEN bit \in buttons
                                       ELSE bit \in pen.buttons}
    IN  [n \in DOMAIN changed |->
           PenEvent(IF changed[n] \in buttons THEN "down" ELSE "up", Pen(PenIndex(changed[n])),
                    [pen EXCEPT !.buttons = after(n)])]

\* The pen leaves, or the other tool comes.
PenLeaves(pen) ==
    PenToggles(pen, {})
    \o (IF ~pen.down THEN <<>>
        ELSE <<PenEvent("up", Pen(0), [pen EXCEPT !.down = FALSE, !.buttons = {}])>>)
    \o (IF ~pen.near THEN <<>>
        ELSE <<PenEvent("proximity", NoSource,
                        [pen EXCEPT !.near = FALSE, !.down = FALSE, !.buttons = {}])>>)

\* The event of the tip: a press, a release, a drag or hovering.
PenTip(pen, down) ==
    LET first == IF 1 \in pen.buttons THEN 1 ELSE IF 2 \in pen.buttons THEN 2 ELSE 4
        at == [pen EXCEPT !.down = down]
    IN  CASE down /\ ~pen.down -> PenEvent("down", Pen(0), at)
          [] ~down /\ pen.down -> PenEvent("up", Pen(0), at)
          [] down /\ pen.down -> PenEvent("drag", Pen(0), at)
          [] pen.buttons # {} -> PenEvent("drag", Pen(PenIndex(first)), at)
          [] OTHER -> PenEvent("move", NoSource, at)

\* consumePen, of action, tool and side buttons: 0 hover, 1 down, 2 up, 3 contact move,
\* 4, 6 and 7 leave, 5 buttons only.
PenPacket(action, tool, buttons) ==
    LET leaving == action \in {4, 6, 7}
        changes == leaving \/ (held.pen.near /\ held.pen.tool # tool)
        left == IF changes THEN PenLeaves(held.pen) ELSE <<>>
        near == held.pen.near /\ ~changes
        entered == [near |-> TRUE, down |-> FALSE, tool |-> tool, buttons |-> {}]
        pen == IF near THEN held.pen ELSE entered
        down == IF action = 5 THEN pen.down ELSE action \in {1, 3}
    IN  IF leaving \/ (action = 5 /\ ~near) THEN left
        ELSE left \o (IF near THEN <<>> ELSE <<PenEvent("proximity", NoSource, entered)>>)
                  \o (IF action = 5 THEN <<>> ELSE <<PenTip(pen, down)>>)
                  \o PenToggles([pen EXCEPT !.down = down], buttons)

Packets(device) ==
    CASE device = "mouse" ->
           {Motion, Scroll} \cup {Button(i, down) : i \in MouseButtons, down \in BOOLEAN}
      [] device = "keyboard" ->
           {Key(k, down, wire, repeats) :
              k \in InputKeys, down, repeats \in BOOLEAN, wire \in {{}, {"shift"}}}
      [] device = "pen" ->
           {PenPacket(action, tool, buttons) :
              action \in 0..7, tool \in {1, 2}, buttons \in SUBSET PenBits}

-----------------------------------------------------------------------------
(* Delivery *)

InputInit ==
    /\ \E caps \in SUBSET {"caps"} :
         held = [keys |-> {}, buttons |-> {}, flags |-> caps, repeatKey |-> NoKey, pen |-> PenAway]
    /\ numbers = [next |-> 0, of |-> [s \in Sources |-> 0]]
    /\ mapperStopped = FALSE /\ inputStopped = FALSE /\ deliveries = <<>>
    /\ authority = "ready" /\ devices \in DeviceSets
    /\ desktop = [pressed |-> {}, near |-> FALSE]
    /\ unbuilt = FALSE /\ packets = 0

\* consumeType and repeatAtTime without the lease, the session or the endpoint.
Refuse ==
    /\ ~inputStopped /\ deliveries = <<>> /\ authority # "ready"
    /\ inputStopped' = TRUE
    /\ UNCHANGED <<held, numbers, mapperStopped, deliveries, authority, devices, desktop,
                   unbuilt, packets>>

\* Both can take a packet.
Accepting ==
    ~inputStopped /\ ~mapperStopped /\ deliveries = <<>> /\ authority = "ready" /\ packets < MaxPackets

ConsumePacket(events) ==
    /\ Accepting /\ packets' = packets + 1 /\ deliveries' = events
    /\ UNCHANGED <<held, numbers, mapperStopped, inputStopped, authority, devices, desktop, unbuilt>>

\* repeatAtTime, once the time has come.
Repeat ==
    /\ held.repeatKey # NoKey
    /\ ConsumePacket(<<Event("repeat", <<"key", held.repeatKey>>, held)>>)

\* The number an event gets: a press has a new one, a drag and a release have that of
\* the press of their button.
Number(e) ==
    IF e.source \notin Sources THEN 0
    ELSE IF e.phase = "down" THEN numbers.next + 1 ELSE numbers.of[e.source]

\* postEvent, and what the desktop makes of it.
Press(e) == <<Class(e.source), Number(e)>>
Post(e) ==
    desktop' = [pressed |-> CASE e.phase = "down" -> desktop.pressed \cup {Press(e)}
                              [] e.phase = "up" -> desktop.pressed \ {Press(e)}
                              [] OTHER -> desktop.pressed,
                near |-> IF e.phase = "proximity" THEN e.after.pen.near ELSE desktop.near]

\* What is taken to be held after an event that was accepted.
Commit(e) ==
    /\ held' = e.after
    /\ numbers' = IF e.phase = "down" /\ e.source \in Sources
                  THEN [next |-> Number(e), of |-> [numbers.of EXCEPT ![e.source] = Number(e)]]
                  ELSE numbers

\* Mutation: what the packet meant is kept although it was not delivered.
DeniedKeepsState(e) == Commit(e)

\* An event that was not accepted leaves nothing behind.
Denied(e) == UNCHANGED <<held, numbers>>

\* deliverAuthorized of the next event of a packet.
Deliver ==
    /\ deliveries # <<>> /\ ~inputStopped
    /\ LET e == Head(deliveries)
       IN  IF authority = "ready"
           THEN Post(e) /\ Commit(e) /\ deliveries' = Tail(deliveries) /\ UNCHANGED inputStopped
           ELSE Denied(e) /\ deliveries' = <<>> /\ inputStopped' = TRUE /\ UNCHANGED desktop
    /\ UNCHANGED <<mapperStopped, authority, devices, unbuilt, packets>>

\* The event cannot be made: the mapper stops.
Unbuildable ==
    /\ deliveries # <<>> /\ ~inputStopped
    /\ mapperStopped' = TRUE /\ inputStopped' = TRUE /\ deliveries' = <<>> /\ unbuilt' = TRUE
    /\ UNCHANGED <<held, numbers, authority, devices, desktop, packets>>

-----------------------------------------------------------------------------
(* Stop *)

\* The releases of the keys, in the order of their codes; each modifier goes with the last
\* of its keys.
KeyReleases ==
    LET order == SelectSeq(<<"capsLock", "a", "b", "leftShift", "rightShift">>,
                           LAMBDA k : k \in held.keys)
        remaining(n) == held.keys \ ToSet(SubSeq(order, 1, n))
        ended(n) == UNION {Modifier(k) : k \in ToSet(SubSeq(order, 1, n))}
                    \ UNION {Modifier(k) : k \in remaining(n)}
    IN  [n \in DOMAIN order |->
           Event("up", <<"key", order[n]>>,
                 [held EXCEPT !.keys = remaining(n), !.flags = @ \ ended(n)])]
ButtonReleases ==
    LET order == SetToSortSeq(held.buttons, <)
    IN  [n \in DOMAIN order |-> Event("up", Mouse(order[n]), [held EXCEPT !.flags = @ \cap {"caps"}])]

\* stopAndCopyReleaseEvents: everything that is held, the pen first.
Releases == PenLeaves(held.pen) \o KeyReleases \o ButtonReleases

StopInput ==
    /\ deliveries = <<>> /\ inputStopped' = TRUE /\ mapperStopped' = TRUE
    /\ held' = [held EXCEPT !.keys = {}, !.buttons = {}, !.flags = @ \cap {"caps"},
                            !.repeatKey = NoKey, !.pen = [@ EXCEPT !.near = FALSE, !.down = FALSE,
                                                                   !.buttons = {}]]
    /\ \/ deliveries' = Releases /\ UNCHANGED unbuilt
       \/ Releases # <<>> /\ unbuilt' = TRUE
          /\ \E n \in DOMAIN Releases : deliveries' = RemoveAt(Releases, n)
    /\ UNCHANGED <<numbers, authority, devices, desktop, packets>>

\* A release is posted under the lease, but without the endpoint.
Release ==
    /\ deliveries # <<>> /\ inputStopped
    /\ IF authority # "none" THEN Post(Head(deliveries)) /\ deliveries' = Tail(deliveries)
       ELSE deliveries' = <<>> /\ UNCHANGED desktop
    /\ UNCHANGED <<held, numbers, mapperStopped, inputStopped, authority, devices, unbuilt, packets>>

\* The transport ends; the lease ends or the session is no longer valid.
LoseAuthority(left) ==
    /\ authority = "ready" \/ (authority = "lease" /\ left = "none")
    /\ authority' = left
    /\ UNCHANGED <<held, numbers, mapperStopped, inputStopped, deliveries, devices, desktop,
                   unbuilt, packets>>

InputNext ==
    \/ Accepting /\ \E d \in devices : \E p \in Packets(d) : ConsumePacket(p)
    \/ Refuse \/ Repeat \/ Deliver \/ Unbuildable \/ StopInput \/ Release
    \/ \E left \in {"lease", "none"} : LoseAuthority(left)

-----------------------------------------------------------------------------
(* Properties *)

\* What the mapper takes to be pressed.
HeldPresses ==
    {<<<<"key", k>>, 0>> : k \in held.keys}
    \cup {<<Class(Mouse(i)), numbers.of[Mouse(i)]>> : i \in held.buttons}
    \cup {<<Class(Pen(0)), numbers.of[Pen(0)]>> : i \in IF held.pen.down THEN {0} ELSE {}}
    \cup {<<Class(Pen(PenIndex(b))), numbers.of[Pen(PenIndex(b))]>> : b \in held.pen.buttons}

\* Of consumeType, repeatAtTime and stop: the mapper holds exactly what the desktop takes
\* to be pressed, wherever the lease or the endpoint was lost in the course of a packet, so
\* that after stop nothing stays pressed as long as the lease lasts; a drag, a release and
\* a repetition are of a press the desktop has, with its number, and no press has the
\* number of another; and a modifier is off once the last of its keys is up.
InputReleased ==
    /\ [](/\ ~mapperStopped => desktop = [pressed |-> HeldPresses, near |-> held.pen.near]
          /\ mapperStopped /\ held.pen.near = FALSE /\ HeldPresses = {} /\ deliveries = <<>>
               /\ ~unbuilt /\ authority # "none" => desktop = [pressed |-> {}, near |-> FALSE])
    /\ [][(authority # "none" /\ Release) \/ (authority = "ready" /\ Deliver) =>
            LET e == Head(deliveries)
                key == e.source[1] = "key"
            IN  /\ e.phase \in {"drag", "up", "repeat"} => Press(e) \in desktop.pressed
                /\ e.phase = "down" =>
                     \A p \in desktop.pressed : p # Press(e) /\ (key \/ p[2] # Number(e))
                /\ key /\ e.phase = "up" => \A m \in Modifier(e.source[2]) \cap e.after.flags :
                     \E p \in desktop'.pressed : p[1][1] = "key" /\ m \in Modifier(p[1][2])]_inputVars
====
