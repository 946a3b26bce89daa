---- MODULE WireFormats ----
(***************************************************************************)
(* The records two PLANK versions exchange, of                             *)
(* src/protocol/plank-transport/include: setup ("PLS1"), control ("PLD1")  *)
(* and event ("PLE1") packets, the two camera headers ("PCAM" 1 and 2) and *)
(* the mouse and pen input of plank_transport_input.h, whose decoder is in *)
(* the Host's input-events.m; their type is the transport's; and the text  *)
(* of the clipboard, which is all payload.  A number is the tuple of its   *)
(* bytes, most significant first.  The tables of what an encoder writes    *)
(* and of what a decoder reads are translated one by one, so that they can *)
(* disagree.                                                               *)
(***************************************************************************)
EXTENDS Integers, Sequences, SequencesExt, FiniteSetsExt

CONSTANTS
    Messages,            \* [kind, values, payload, command]: what senders may be asked to
                         \* write; the camera command a control packet carries, or <<>>
    WireBytes,           \* what a byte of another version's record may hold
    TextBytes,           \* the same of a text
    MaxTextBytes,        \* PLANK_CLIPBOARD_TEXT_LIMIT
    MaxSetupPayload,     \* PLANK_TRANSPORT_SETUP_MAX_PAYLOAD_SIZE
    MaxFrameBytes        \* PLANK_CAMERA_MAX_FRAME_BYTES

VARIABLES
    message,    \* the member of Messages at hand
    packet,     \* the bytes on the wire: <<>> until they are written, or refused
    decoded,    \* what the receiver read: [state, values, payload]
    altered     \* whether the record is that of another version

wireVars == <<message, packet, decoded, altered>>

\* The records that say themselves what they are.
Kinds == {"setup", "control", "event", "camera", "encodedCamera"}
InputKinds == {"mouse", "pen"}

\* write_u16 and write_u32 of a small number.
Octets(n, width) ==
    [i \in 1..width |-> IF width - i > 3 THEN 0 ELSE (n \div 256 ^ (width - i)) % 256]
IsZero(b) == \A i \in DOMAIN b : b[i] = 0
IsOnes(b) == \A i \in DOMAIN b : b[i] = 255
\* Comparison of two numbers of the same width.
AtMost(b, c) == b = c \/ \E i \in DOMAIN b : b[i] < c[i] /\ \A j \in 1..(i - 1) : b[j] = c[j]
OneOf(b, numbers) == \E n \in numbers : b = Octets(n, Len(b))

HeaderBytes(kind) ==
    CASE kind = "text" -> 0 [] kind = "setup" -> 20 [] kind \in {"control", "event", "mouse"} -> 8
      [] kind = "pen" -> 32 [] OTHER -> 64
SetupMagic == <<80, 76, 83, 49>>
ControlMagic == <<80, 76, 68, 49>>
EventMagic == <<80, 76, 69, 49>>
CameraMagic == <<80, 67, 65, 77>>
Magic(kind) ==
    CASE kind = "setup" -> SetupMagic [] kind = "control" -> ControlMagic
      [] kind = "event" -> EventMagic [] OTHER -> CameraMagic

\* PlankTransportControlType and the words of the camera's controls.
SetCamera == 10
CameraApplied == 11
CameraKeyframe == 12
CameraEnabled == 1
CameraUnavailable == 3
H264 == <<72, 50, 54, 52>>
MJPEG == <<77, 74, 80, 71>>
LastMicrosecond == <<0, 32, 196, 155, 165, 227, 83, 247>>    \* INT64_MAX / 1000

-----------------------------------------------------------------------------
(* Encoders *)

\* Where the encoders put the fields of a header: <<name, offset, width>>.
SetupWrites ==
    {<<"type", 6, 2>>, <<"flags", 8, 2>>, <<"status", 10, 2>>, <<"request_id", 12, 4>>}
CameraWrites ==
    {<<"flags", 5, 1>>, <<"generation", 8, 8>>, <<"sequence", 16, 8>>, <<"capture_time_us", 24, 8>>,
     <<"codec", 32, 4>>, <<"width", 36, 2>>, <<"height", 38, 2>>, <<"colorspace", 40, 4>>,
     <<"transfer", 44, 4>>, <<"ycbcr", 48, 4>>, <<"quantization", 52, 4>>, <<"driver_sequence", 56, 4>>}
EncodedCameraWrites ==
    {<<"flags", 5, 1>>, <<"generation", 8, 8>>, <<"sequence", 16, 8>>, <<"capture_time_us", 24, 8>>,
     <<"codec", 32, 4>>, <<"width", 36, 2>>, <<"height", 38, 2>>, <<"platform", 40, 4>>,
     <<"encoder", 44, 4>>, <<"source_pixel_format", 48, 4>>, <<"primaries", 52, 1>>,
     <<"transfer", 53, 1>>, <<"matrix", 54, 1>>, <<"range", 55, 1>>, <<"nominal_fps", 56, 2>>}
ControlWrites == {<<"type", 4, 2>>}
EventWrites == {<<"type", 4, 2>>}
MouseWrites == {<<"x", 0, 2>>, <<"y", 2, 2>>, <<"maximum_x", 4, 2>>, <<"maximum_y", 6, 2>>}
PenWrites ==
    {<<"action", 0, 1>>, <<"tool", 1, 1>>, <<"buttons", 2, 1>>, <<"tilt", 3, 1>>,
     <<"rotation", 4, 2>>, <<"x", 8, 4>>, <<"y", 12, 4>>, <<"pressure", 16, 4>>,
     <<"major", 20, 4>>, <<"minor", 24, 4>>}
Writes(kind) ==
    CASE kind = "setup" -> SetupWrites [] kind = "control" -> ControlWrites
      [] kind = "event" -> EventWrites [] kind = "camera" -> CameraWrites
      [] kind = "mouse" -> MouseWrites [] kind = "pen" -> PenWrites [] kind = "text" -> {}
      [] OTHER -> EncodedCameraWrites

\* The bytes that are the same in every record of the kind, but for the size.
Preamble(kind, size) ==
    CASE kind = "setup" -> {<<Magic(kind), 0>>, <<Octets(1, 2), 4>>, <<Octets(size, 4), 16>>}
      [] kind \in {"control", "event"} -> {<<Magic(kind), 0>>, <<Octets(size, 2), 6>>}
      [] kind \in InputKinds \cup {"text"} -> {}
      [] kind = "camera" -> {<<Magic(kind), 0>>, <<<<1>>, 4>>, <<<<64>>, 7>>}
      [] OTHER -> {<<Magic(kind), 0>>, <<<<2>>, 4>>, <<<<64>>, 7>>}

CameraTimed(v) ==
    /\ ~IsZero(v["generation"]) /\ ~IsOnes(v["sequence"])
    /\ ~IsZero(v["capture_time_us"]) /\ AtMost(v["capture_time_us"], LastMicrosecond)

\* plank_camera_header_valid.
CameraValid(v, size) ==
    /\ size \in 1..MaxFrameBytes /\ CameraTimed(v)
    /\ v["codec"] \in {H264, MJPEG}
    /\ \/ OneOf(v["width"], {1280}) /\ OneOf(v["height"], {720})
       \/ OneOf(v["width"], {1920}) /\ OneOf(v["height"], {1080})
    /\ OneOf(v["flags"], 0..3) /\ (v["codec"] = MJPEG => OneOf(v["flags"], {1, 3}))
    /\ AtMost(v["colorspace"], Octets(12, 4)) /\ AtMost(v["transfer"], Octets(7, 4))
    /\ AtMost(v["ycbcr"], Octets(8, 4)) /\ AtMost(v["quantization"], Octets(2, 4))

\* plank_encoded_camera_header_valid.
EncodedCameraValid(v, size) ==
    /\ size \in 1..MaxFrameBytes /\ CameraTimed(v)
    /\ v["codec"] = H264 /\ OneOf(v["width"], {1280}) /\ OneOf(v["height"], {720})
    /\ OneOf(v["flags"], 0..3) /\ OneOf(v["nominal_fps"], {30})
    /\ \A f \in {"platform", "encoder", "source_pixel_format", "primaries", "transfer", "matrix",
                 "range"} : OneOf(v[f], {1})

\* What each encoder agrees to write.
SetupWritable(v, payload) ==
    /\ ~IsZero(v["type"]) /\ ~IsZero(v["request_id"])
    /\ OneOf(v["flags"], 0..3) /\ Len(payload) <= MaxSetupPayload
ControlWritable(payload) == Len(payload) \in {0, 4, 8, 12}
EventWritable(payload) == Len(payload) <= 65535
\* UTF-8 as it is defined: the encoding of a scalar, and texts of encoded scalars.
SixBits(n) == n % 64
Utf8(scalar) ==
    LET more(n) == 128 + SixBits(n)
    IN  IF scalar < 128 THEN <<scalar>>
        ELSE IF scalar < 2048 THEN <<192 + scalar \div 64, more(scalar)>>
        ELSE IF scalar < 65536
        THEN <<224 + scalar \div 4096, more(scalar \div 64), more(scalar)>>
        ELSE <<240 + scalar \div 262144, more(scalar \div 4096), more(scalar \div 64), more(scalar)>>
ScalarIn(b) ==
    LET lead == b[1] % (2 ^ (7 - Len(b)))
    IN  CASE Len(b) = 1 -> b[1]
          [] Len(b) = 2 -> lead * 64 + SixBits(b[2])
          [] Len(b) = 3 -> lead * 4096 + SixBits(b[2]) * 64 + SixBits(b[3])
          [] OTHER -> lead * 262144 + SixBits(b[2]) * 4096 + SixBits(b[3]) * 64 + SixBits(b[4])
IsScalar(n) == n \in 1..1114111 /\ n \notin 55296..57343
IsText(b) ==
    LET Rest[i \in 1..(Len(b) + 1)] ==
            \/ i = Len(b) + 1
            \/ \E k \in 1..4 :
                 /\ i + k - 1 <= Len(b)
                 /\ LET piece == SubSeq(b, i, i + k - 1)
                    IN  IsScalar(ScalarIn(piece)) /\ Utf8(ScalarIn(piece)) = piece
                 /\ Rest[i + k]
    IN  Len(b) \in 1..MaxTextBytes /\ Rest[1]
Writable(kind, v, payload) ==
    CASE kind = "setup" -> SetupWritable(v, payload)
      [] kind = "control" -> ControlWritable(payload)
      [] kind = "event" -> EventWritable(payload)
      [] kind \in InputKinds -> payload = <<>>
      [] kind = "text" -> IsText(payload)
      [] kind = "camera" -> CameraValid(v, Len(payload))
      [] OTHER -> EncodedCameraValid(v, Len(payload))

\* The *_encode functions; the camera's payload is appended by the caller.
Encode(kind, v, payload) ==
    LET pieces == Preamble(kind, Len(payload)) \cup {<<v[w[1]], w[2]>> : w \in Writes(kind)}
        byte(at) == LET hits == {p \in pieces : at \in (p[2] + 1)..(p[2] + Len(p[1]))}
                    IN  IF hits = {} THEN 0 ELSE LET p == CHOOSE p \in hits : TRUE IN p[1][at - p[2]]
    IN  [at \in 1..HeaderBytes(kind) |-> byte(at)] \o payload

-----------------------------------------------------------------------------
(* Decoders *)

\* Where the decoders read them.
SetupReads ==
    {<<"type", 6, 2>>, <<"flags", 8, 2>>, <<"status", 10, 2>>, <<"request_id", 12, 4>>}
ControlReads == {<<"type", 4, 2>>}
EventReads == {<<"type", 4, 2>>}
CameraReads ==
    {<<"flags", 5, 1>>, <<"generation", 8, 8>>, <<"sequence", 16, 8>>, <<"capture_time_us", 24, 8>>,
     <<"codec", 32, 4>>, <<"width", 36, 2>>, <<"height", 38, 2>>, <<"colorspace", 40, 4>>,
     <<"transfer", 44, 4>>, <<"ycbcr", 48, 4>>, <<"quantization", 52, 4>>, <<"driver_sequence", 56, 4>>}
EncodedCameraReads ==
    {<<"flags", 5, 1>>, <<"generation", 8, 8>>, <<"sequence", 16, 8>>, <<"capture_time_us", 24, 8>>,
     <<"codec", 32, 4>>, <<"width", 36, 2>>, <<"height", 38, 2>>, <<"platform", 40, 4>>,
     <<"encoder", 44, 4>>, <<"source_pixel_format", 48, 4>>, <<"primaries", 52, 1>>,
     <<"transfer", 53, 1>>, <<"matrix", 54, 1>>, <<"range", 55, 1>>, <<"nominal_fps", 56, 2>>}
MouseReads == {<<"x", 0, 2>>, <<"y", 2, 2>>, <<"maximum_x", 4, 2>>, <<"maximum_y", 6, 2>>}
PenReads ==
    {<<"action", 0, 1>>, <<"tool", 1, 1>>, <<"buttons", 2, 1>>, <<"tilt", 3, 1>>,
     <<"rotation", 4, 2>>, <<"x", 8, 4>>, <<"y", 12, 4>>, <<"pressure", 16, 4>>,
     <<"major", 20, 4>>, <<"minor", 24, 4>>}
Reads(kind) ==
    CASE kind = "setup" -> SetupReads [] kind = "control" -> ControlReads
      [] kind = "event" -> EventReads [] kind = "camera" -> CameraReads
      [] kind = "mouse" -> MouseReads [] kind = "pen" -> PenReads [] kind = "text" -> {}
      [] OTHER -> EncodedCameraReads

Field(r, at, width) == SubSeq(r, at + 1, at + width)
ReadValues(kind, r) ==
    LET names == {f[1] : f \in Reads(kind)}
    IN  [n \in names |-> LET f == CHOOSE f \in Reads(kind) : f[1] = n IN Field(r, f[2], f[3])]

\* Mutation: the reserved end of a camera header is not looked at.
ReservedZeroUnchecked(kind, r) == r[7] = 0

\* The reserved bytes of the camera headers.
ReservedZero(kind, r) ==
    /\ r[7] = 0 /\ IsZero(Field(r, 60, 4))
    /\ kind = "encodedCamera" => IsZero(Field(r, 58, 2))

\* What each decoder asks of a record, once its size and its magic are right.
SetupReadable(r, v, size) ==
    /\ Field(r, 4, 2) = Octets(1, 2) /\ ~IsZero(v["type"]) /\ ~IsZero(v["request_id"])
    /\ OneOf(v["flags"], 0..3) /\ size <= MaxSetupPayload /\ Field(r, 16, 4) = Octets(size, 4)
SizeAgrees(r, size) == Field(r, 6, 2) = Octets(size, 2)
CameraReadable(r, v, size) ==
    r[5] = 1 /\ r[8] = 64 /\ ReservedZero("camera", r) /\ CameraValid(v, size)
EncodedCameraReadable(r, v, size) ==
    r[5] = 2 /\ r[8] = 64 /\ ReservedZero("encodedCamera", r) /\ EncodedCameraValid(v, size)
MouseReadable(v) ==
    /\ ~IsZero(v["maximum_x"]) /\ AtMost(v["x"], v["maximum_x"])
    /\ ~IsZero(v["maximum_y"]) /\ AtMost(v["y"], v["maximum_y"])
\* A float between 0 and 1, by its bits: up to those of 1, or those of -0.
UnitFloat(b) == AtMost(b, <<63, 128, 0, 0>>) \/ b = <<128, 0, 0, 0>>
\* A pen that leaves is not asked for anything else, one whose buttons change not for a place.
PenReadable(r, v) ==
    /\ OneOf(v["action"], 0..7) /\ IsZero(Field(r, 6, 2)) /\ IsZero(Field(r, 28, 4))
    /\ OneOf(v["action"], {4, 6, 7}) \/ (OneOf(v["tool"], 1..2) /\ OneOf(v["buttons"], 0..7))
    /\ \/ OneOf(v["action"], 4..7)
       \/ /\ \A f \in {"x", "y", "pressure", "major", "minor"} : UnitFloat(v[f])
          /\ OneOf(v["tilt"], 0..90) \/ IsOnes(v["tilt"])
          /\ AtMost(v["rotation"], Octets(359, 2)) \/ IsOnes(v["rotation"])
\* plank_clipboard_valid_text, from the byte at i on.
ValidText(r) ==
    LET extra(c) ==
            IF c \in 194..223 THEN 1 ELSE IF c \in 224..239 THEN 2 ELSE IF c \in 240..244 THEN 3 ELSE 0
        From[i \in 1..(Len(r) + 1)] ==
            \/ i = Len(r) + 1
            \/ r[i] \in 1..127 /\ From[i + 1]
            \/ /\ extra(r[i]) \in 1..(Len(r) - i)
               /\ ~(r[i] = 224 /\ r[i + 1] < 160) /\ ~(r[i] = 237 /\ r[i + 1] > 159)
               /\ ~(r[i] = 240 /\ r[i + 1] < 144) /\ ~(r[i] = 244 /\ r[i + 1] > 143)
               /\ \A n \in 1..extra(r[i]) : r[i + n] \in 128..191
               /\ From[i + extra(r[i]) + 1]
    IN  Len(r) \in 1..MaxTextBytes /\ From[1]
Readable(kind, r) ==
    LET v == ReadValues(kind, r)
        size == Len(r) - HeaderBytes(kind)
    IN  /\ kind \in InputKinds => size = 0
        /\ kind \in Kinds => size >= 0 /\ Field(r, 0, 4) = Magic(kind)
        /\ CASE kind = "setup" -> SetupReadable(r, v, size)
             [] kind \in {"control", "event"} -> SizeAgrees(r, size)
             [] kind = "mouse" -> MouseReadable(v)
             [] kind = "pen" -> PenReadable(r, v)
             [] kind = "text" -> ValidText(r)
             [] kind = "camera" -> CameraReadable(r, v, size)
             [] OTHER -> EncodedCameraReadable(r, v, size)

NothingRead == [state |-> "none", values |-> <<>>, payload |-> <<>>]

\* The *_decode functions.
DecodeRecord(kind, r) ==
    IF ~Readable(kind, r) THEN [NothingRead EXCEPT !.state = "refused"]
    ELSE [state |-> "read", values |-> ReadValues(kind, r),
          payload |-> SubSeq(r, HeaderBytes(kind) + 1, Len(r))]

\* plank_camera_control_decode of a control packet: <<generation, word>>, or <<>>.
CameraCommand(d) ==
    LET is(n) == d.values["type"] = Octets(n, 2)
        word == IF Len(d.payload) = 12 THEN Field(d.payload, 8, 4) ELSE Octets(0, 4)
        generation == Field(d.payload, 0, 8)
    IN  IF /\ is(SetCamera) \/ is(CameraApplied) \/ is(CameraKeyframe)
           /\ Len(d.payload) = (IF is(CameraKeyframe) THEN 8 ELSE 12)
           /\ ~IsZero(generation) /\ ~IsOnes(generation)
           /\ is(SetCamera) => AtMost(word, Octets(CameraEnabled, 4))
           /\ is(CameraApplied) => AtMost(word, Octets(CameraUnavailable, 4))
        THEN <<generation, word>> ELSE <<>>

-----------------------------------------------------------------------------
WireInit == message \in Messages /\ packet = <<>> /\ decoded = NothingRead /\ altered = FALSE

WriteRecord ==
    /\ packet = <<>> /\ Writable(message.kind, message.values, message.payload)
    /\ packet' = Encode(message.kind, message.values, message.payload)
    /\ UNCHANGED <<message, decoded, altered>>

OtherBytes(kind) == IF kind = "text" THEN TextBytes ELSE WireBytes

\* A newer version writes something else in one place, or more or less of it.
AlterRecord ==
    /\ packet # <<>> /\ ~altered /\ decoded = NothingRead /\ altered' = TRUE
    /\ \/ \E i \in DOMAIN packet, b \in OtherBytes(message.kind) : packet' = [packet EXCEPT ![i] = b]
       \/ packet' = Front(packet)
       \/ packet' = Append(packet, 0)
    /\ UNCHANGED <<message, decoded>>

ReadRecord ==
    /\ packet # <<>> /\ decoded = NothingRead
    /\ decoded' = DecodeRecord(message.kind, packet)
    /\ UNCHANGED <<message, packet, altered>>

WireNext == WriteRecord \/ AlterRecord \/ ReadRecord

-----------------------------------------------------------------------------
(* Properties *)

\* Of the records the encoders of the include directory write, of values their readers
\* know: a record is read back as it was meant, field by field and with its payload.  A
\* record that is accepted has no part a decoder passes over: written again it is the
\* same, byte for byte, so that what a later version puts into a reserved place is refused
\* and not misread.  A record with a magic is accepted by one decoder only, whatever lane
\* it comes on.  And the texts the clipboard takes are exactly those of well-formed UTF-8.
RecordsReadBack ==
    /\ decoded.state # "none" /\ ~altered =>
         /\ decoded = [state |-> "read", values |-> message.values, payload |-> message.payload]
         /\ message.command # <<>> => CameraCommand(decoded) = message.command
    /\ decoded.state = "read" =>
         /\ message.kind # "control" \/ Len(decoded.payload) \in {0, 4, 8, 12}
              => Writable(message.kind, decoded.values, decoded.payload)
         /\ Encode(message.kind, decoded.values, decoded.payload) = packet
         /\ message.kind \in Kinds => \A k \in Kinds \ {message.kind} : ~Readable(k, packet)
    /\ decoded.state = "refused" /\ message.kind = "text" => ~IsText(packet)
====
