---- MODULE AudioTables ----
(***************************************************************************)
(* The property tables of the two audio drivers, output-driver.c and       *)
(* microphone-driver.c of src/apps/host/macos/audio-device, as the HAL     *)
(* calls them: HasProperty and GetPropertyDataSize first, then             *)
(* GetPropertyData into a buffer of its choice, or SetPropertyData.  A     *)
(* value is its size in bytes and, for object lists, the objects; strings, *)
(* classes and the formats' fields are left out.  What a getter reads of   *)
(* its caller (the number of a conversion, the qualifier with the UID that *)
(* TranslateUIDToDevice looks for) is usable or not.                       *)
(***************************************************************************)
EXTENDS Integers, Sequences, SequencesExt

CONSTANTS
    OutputSelectors,   \* the selectors output-driver.c names, and one it does not
    MicSelectors,      \* the same of microphone-driver.c
    Capacities         \* sizes of the HAL's buffers

VARIABLES
    call,    \* [driver, object, scope, main, selector, capacity]
    reply    \* [status, actual, written, value]; a setter's "written" are the bytes it read,
             \* and its "actual" the size it insists on

audioTablesVars == <<call, reply>>

\* -1: kAudioHardwareUnknownPropertyError or BadObject.
Unknown == -1
Scopes == {"global", "input", "output", "other"}
OutputObjects == {"plugin", "device", "stream", "volume", "mute"}
MicObjects == {"plugin", "device", "stream"}
Controls == {"volume", "mute"}

Word == 4       \* UInt32, Float32, AudioObjectID
Pointer == 8    \* CFStringRef
Double == 8     \* Float64
ValueRange == 16
Format == 40    \* AudioStreamBasicDescription
RangedFormat == 56

-----------------------------------------------------------------------------
\* propertySize of output-driver.c.
OutputPropertySize(object, scope, selector) ==
    LET global == scope = "global"
        device == object = "device" /\ global
        side == object = "device" /\ scope \in {"input", "output"}
        stream == object = "stream" /\ global
        control == object \in Controls /\ global
    IN  CASE object \notin OutputObjects \/ scope = "other" -> Unknown
          [] global /\ selector \in {"BaseClass", "Class", "Owner"} -> Word
          [] global /\ selector \in {"Name", "Manufacturer"} -> Pointer
          [] global /\ selector = "OwnedObjects" ->
               IF object = "device" THEN 3 * Word ELSE IF object = "plugin" THEN Word ELSE 0
          [] object = "plugin" /\ global /\ selector \in {"DeviceList", "TranslateUID"} -> Word
          [] object = "plugin" /\ global /\ selector = "ResourceBundle" -> Pointer
          [] device /\ selector \in {"DeviceUID", "ModelUID"} -> Pointer
          [] device /\ selector \in {"TransportType", "ClockDomain", "IsAlive", "IsRunning", "IsHidden",
                                     "ZeroTimeStampPeriod", "RelatedDevices", "Streams"} -> Word
          [] device /\ selector = "NominalSampleRate" -> Double
          [] device /\ selector = "AvailableNominalSampleRates" -> ValueRange
          [] device /\ selector = "ControlList" -> 2 * Word
          [] side /\ selector \in {"CanBeDefault", "CanBeSystemDefault", "Latency", "SafetyOffset"} -> Word
          [] side /\ selector = "PreferredChannels" /\ scope = "output" -> 2 * Word
          [] side /\ selector \in {"Streams", "OwnedObjects"} -> IF scope = "output" THEN Word ELSE 0
          [] side /\ scope = "output" /\ selector \in {"VolumeScalar", "Mute"} -> Word
          [] control /\ selector \in {"ControlScope", "ControlElement"} -> Word
          [] control /\ object = "mute" /\ selector = "BooleanValue" -> Word
          [] control /\ object = "volume"
               /\ selector \in {"ScalarValue", "DecibelValue", "ScalarToDecibels", "DecibelsToScalar"} -> Word
          [] control /\ object = "volume" /\ selector = "DecibelRange" -> ValueRange
          [] stream /\ selector \in {"IsActive", "Direction", "TerminalType", "StartingChannel", "Latency"} -> Word
          [] stream /\ selector \in {"VirtualFormat", "PhysicalFormat"} -> Format
          [] stream /\ selector \in {"AvailableVirtualFormats", "AvailablePhysicalFormats"} -> RangedFormat
          [] OTHER -> Unknown

\* The selectors whose case leaves a UInt32 or a Float32 to copy.
WordSelectors ==
    {"BaseClass", "Class", "TransportType", "ClockDomain", "IsHidden", "Latency", "SafetyOffset",
     "IsAlive", "IsActive", "StartingChannel", "Direction", "IsRunning", "CanBeDefault",
     "CanBeSystemDefault", "ZeroTimeStampPeriod", "TerminalType"}
ControlSelectors ==
    {"ControlScope", "ControlElement", "BooleanValue", "Mute", "ScalarValue", "VolumeScalar",
     "DecibelValue", "ScalarToDecibels", "DecibelsToScalar"}

\* settable: fixed formats have setters that accept only what they already are.
OutputSettable(object, scope, selector) ==
    /\ OutputPropertySize(object, scope, selector) # Unknown
    /\ \/ object = "device" /\ selector \in {"NominalSampleRate", "VolumeScalar", "Mute"}
       \/ object = "volume" /\ selector \in {"ScalarValue", "DecibelValue"}
       \/ object = "mute" /\ selector = "BooleanValue"
       \/ object = "stream" /\ selector \in {"VirtualFormat", "PhysicalFormat", "IsActive"}

\* get of output-driver.c past its checks: the bytes the selector's case copies,
\* and the objects among them.
OutputCopies(object, scope, selector, needed) ==
    LET copy(bytes, objects) == [written |-> bytes, value |-> objects]
    IN  CASE selector \in {"Name", "Manufacturer", "ResourceBundle", "DeviceUID", "ModelUID"} ->
               copy(Pointer, <<>>)
          [] selector = "ControlList" -> copy(2 * Word, <<"volume", "mute">>)
          [] selector = "OwnedObjects" ->
               IF object = "device"
               THEN copy(needed, SubSeq(<<"stream", "volume", "mute">>, 1, needed \div Word))
               ELSE copy(Word, <<"device">>)
          [] selector = "Owner" ->
               copy(Word, IF object = "device" THEN <<"plugin">>
                          ELSE IF object # "plugin" THEN <<"device">> ELSE <<>>)
          [] selector \in {"DeviceList", "TranslateUID", "RelatedDevices"} -> copy(Word, <<"device">>)
          [] selector = "Streams" -> copy(Word, <<"stream">>)
          [] selector = "NominalSampleRate" -> copy(Double, <<>>)
          [] selector \in {"DecibelRange", "AvailableNominalSampleRates"} -> copy(ValueRange, <<>>)
          [] selector = "PreferredChannels" -> copy(2 * Word, <<>>)
          [] selector \in {"VirtualFormat", "PhysicalFormat"} -> copy(Format, <<>>)
          [] selector \in {"AvailableVirtualFormats", "AvailablePhysicalFormats"} -> copy(RangedFormat, <<>>)
          [] selector \in WordSelectors \cup ControlSelectors -> copy(Word, <<>>)
          [] OTHER -> copy(0, <<>>)

-----------------------------------------------------------------------------
\* propertySize of microphone-driver.c.
MicPropertySize(object, scope, selector) ==
    LET global == scope = "global"
        device == object = "device" /\ global
        side == object = "device" /\ scope \in {"input", "output"}
        stream == object = "stream" /\ global
    IN  CASE object \notin MicObjects \/ scope = "other" -> Unknown
          [] global /\ selector \in {"BaseClass", "Class", "Owner"} -> Word
          [] global /\ selector \in {"Name", "Manufacturer"} -> Pointer
          [] global /\ selector = "OwnedObjects" -> IF object = "stream" THEN 0 ELSE Word
          [] object = "plugin" /\ global /\ selector \in {"DeviceList", "TranslateUID"} -> Word
          [] object = "plugin" /\ global /\ selector = "ResourceBundle" -> Pointer
          [] device /\ selector \in {"DeviceUID", "ModelUID"} -> Pointer
          [] device /\ selector \in {"TransportType", "ClockDomain", "IsAlive", "IsRunning", "IsHidden",
                                     "ZeroTimeStampPeriod", "RelatedDevices", "Streams"} -> Word
          [] device /\ selector = "NominalSampleRate" -> Double
          [] device /\ selector = "AvailableNominalSampleRates" -> ValueRange
          [] device /\ selector = "ControlList" -> 0
          [] side /\ selector \in {"CanBeDefault", "CanBeSystemDefault", "Latency", "SafetyOffset"} -> Word
          [] side /\ selector = "PreferredChannels" /\ scope = "input" -> 2 * Word
          [] side /\ selector \in {"Streams", "OwnedObjects"} -> IF scope = "input" THEN Word ELSE 0
          [] stream /\ selector \in {"IsActive", "Direction", "TerminalType", "StartingChannel", "Latency"} -> Word
          [] stream /\ selector \in {"VirtualFormat", "PhysicalFormat"} -> Format
          [] stream /\ selector \in {"AvailableVirtualFormats", "AvailablePhysicalFormats"} -> RangedFormat
          [] OTHER -> Unknown

MicSettable(object, scope, selector) ==
    /\ MicPropertySize(object, scope, selector) # Unknown
    /\ \/ object = "device" /\ selector = "NominalSampleRate"
       \/ object = "stream" /\ selector \in {"VirtualFormat", "PhysicalFormat", "IsActive"}

\* get of microphone-driver.c past its checks.
MicCopies(object, scope, selector, needed) ==
    LET copy(bytes, objects) == [written |-> bytes, value |-> objects]
    IN  CASE selector \in {"Name", "Manufacturer", "ResourceBundle", "DeviceUID", "ModelUID"} ->
               copy(Pointer, <<>>)
          [] selector = "OwnedObjects" ->
               copy(Word, IF object = "device" THEN <<"stream">> ELSE <<"device">>)
          [] selector = "Owner" ->
               copy(Word, IF object = "device" THEN <<"plugin">>
                          ELSE IF object = "stream" THEN <<"device">> ELSE <<>>)
          [] selector \in {"DeviceList", "TranslateUID", "RelatedDevices"} -> copy(Word, <<"device">>)
          [] selector = "Streams" -> copy(Word, <<"stream">>)
          [] selector = "NominalSampleRate" -> copy(Double, <<>>)
          [] selector = "AvailableNominalSampleRates" -> copy(ValueRange, <<>>)
          [] selector = "PreferredChannels" -> copy(2 * Word, <<>>)
          [] selector \in {"VirtualFormat", "PhysicalFormat"} -> copy(Format, <<>>)
          [] selector \in {"AvailableVirtualFormats", "AvailablePhysicalFormats"} -> copy(RangedFormat, <<>>)
          [] selector \in WordSelectors -> copy(Word, <<>>)
          [] OTHER -> copy(0, <<>>)

-----------------------------------------------------------------------------
\* The driver's table behind a call; any element but the main one is unknown.
SizeFor(c) ==
    IF ~c.main THEN Unknown
    ELSE IF c.driver = "output" THEN OutputPropertySize(c.object, c.scope, c.selector)
    ELSE MicPropertySize(c.object, c.scope, c.selector)
CopiesFor(c, needed) ==
    IF c.driver = "output" THEN OutputCopies(c.object, c.scope, c.selector, needed)
    ELSE MicCopies(c.object, c.scope, c.selector, needed)
SettableFor(c) ==
    c.main /\ IF c.driver = "output" THEN OutputSettable(c.object, c.scope, c.selector)
              ELSE MicSettable(c.object, c.scope, c.selector)

NoReply == [status |-> "none", actual |-> 0, written |-> 0, value |-> <<>>]

\* The cases that return an error when they cannot use what the caller passed in: a
\* conversion of output-driver.c of a number that is not finite, and TranslateUIDToDevice
\* of both drivers without a qualifier of a string's size.
ReadsCaller(c) ==
    \/ c.selector = "TranslateUID"
    \/ c.driver = "output" /\ c.selector \in {"ScalarToDecibels", "DecibelsToScalar"}
\* `*actual' is set before the selector's case and stays set when that returns an error.
Refusal(c, needed) ==
    [NoReply EXCEPT !.status = IF c.selector = "TranslateUID" THEN "size" ELSE "illegal",
                    !.actual = needed]

\* Mutation: a property without data is copied like any other.
GetDataEmptyToo(c, usable) ==
    LET needed == SizeFor(c)
    IN  IF needed = Unknown THEN [NoReply EXCEPT !.status = "unknown"]
        ELSE IF c.capacity < needed THEN [NoReply EXCEPT !.status = "size"]
        ELSE IF ReadsCaller(c) /\ ~usable THEN Refusal(c, needed)
        ELSE [status |-> "ok", actual |-> needed,
              written |-> CopiesFor(c, needed).written, value |-> CopiesFor(c, needed).value]

\* get: the checks both drivers share, and the errors of a case.
GetData(c, usable) ==
    LET needed == SizeFor(c)
    IN  IF needed = Unknown THEN [NoReply EXCEPT !.status = "unknown"]
        ELSE IF c.capacity < needed THEN [NoReply EXCEPT !.status = "size"]
        ELSE IF needed = 0 THEN [NoReply EXCEPT !.status = "ok"]
        ELSE IF ReadsCaller(c) /\ ~usable THEN Refusal(c, needed)
        ELSE [status |-> "ok", actual |-> needed,
              written |-> CopiesFor(c, needed).written, value |-> CopiesFor(c, needed).value]

\* set: how many of the caller's bytes the selector's branch reads.
SetReads(selector) ==
    IF selector = "NominalSampleRate" THEN Double
    ELSE IF selector \in {"IsActive", "VolumeScalar", "ScalarValue", "DecibelValue", "Mute", "BooleanValue"}
    THEN Word
    ELSE Format
\* set of output-driver.c: the fixed rate and format and an active stream are accepted
\* as they are, volume and mute with any value of their range.
OutputAccepts(selector, value) ==
    \/ value = "current"
    \/ value = "other"
       /\ selector \in {"VolumeScalar", "ScalarValue", "DecibelValue", "Mute", "BooleanValue"}
\* set of microphone-driver.c, which has no controls.
MicAccepts(selector, value) == value = "current"

SetData(c, value) ==
    LET needed == SizeFor(c)
        accepts == IF c.driver = "output" THEN OutputAccepts(c.selector, value)
                   ELSE MicAccepts(c.selector, value)
    IN  IF needed = Unknown THEN [NoReply EXCEPT !.status = "unknown"]
        ELSE IF ~SettableFor(c) THEN [NoReply EXCEPT !.status = "unsupported"]
        ELSE IF c.capacity # needed THEN [NoReply EXCEPT !.status = "size"]
        ELSE [status |-> IF accepts THEN "ok" ELSE "illegal", actual |-> needed,
              written |-> SetReads(c.selector), value |-> <<>>]

AudioTablesInit ==
    /\ reply = NoReply
    /\ call \in [driver : {"output"}, object : OutputObjects \cup {"foreign"}, scope : Scopes,
                 main : BOOLEAN, selector : OutputSelectors, capacity : Capacities]
             \cup [driver : {"microphone"}, object : MicObjects \cup {"foreign"}, scope : Scopes,
                 main : BOOLEAN, selector : MicSelectors, capacity : Capacities]

GetPropertyData ==
    /\ reply = NoReply /\ UNCHANGED call
    /\ \E usable \in BOOLEAN : reply' = GetData(call, usable)

\* With the value the property has, another of its range, or one outside it.
SetPropertyData ==
    /\ reply = NoReply /\ UNCHANGED call
    /\ \E value \in {"current", "other", "invalid"} : reply' = SetData(call, value)

AudioTablesNext == GetPropertyData \/ SetPropertyData
AudioTablesSpec == AudioTablesInit /\ [][AudioTablesNext]_audioTablesVars

-----------------------------------------------------------------------------
(* Properties *)

\* What an object owns, asked for with a buffer that fits.
OwnedBy(c, object) ==
    LET r == GetData([c EXCEPT !.object = object, !.scope = "global", !.main = TRUE,
                               !.selector = "OwnedObjects", !.capacity = 64], TRUE)
    IN  ToSet(r.value)
OwnerOf(c, object) ==
    LET r == GetData([c EXCEPT !.object = object, !.scope = "global", !.main = TRUE,
                               !.selector = "Owner", !.capacity = 64], TRUE)
    IN  ToSet(r.value)

\* The tables of each driver (one gives the size, one copies the value, one says what
\* can be set, one sets it) agree: an answer that succeeds fills exactly the bytes it
\* announces and one that fails fills none, never more than the buffer holds; a setter
\* reads exactly the bytes it was given, accepted or not; only properties that exist can
\* be set; and owned objects name their owner.  After an error the announced size may be
\* there without the bytes (`*actual' is set before a conversion refuses its input).
TablesAgree ==
    /\ reply.status = "ok" => reply.written = reply.actual
    /\ reply.written \in {0, reply.actual} /\ reply.written <= call.capacity
    /\ reply.status = "unknown" => ~SettableFor(call)
    /\ Len(reply.value) > 0 => Len(reply.value) * Word = reply.actual
    /\ LET objects == IF call.driver = "output" THEN OutputObjects ELSE MicObjects
       IN  reply.status = "ok" /\ call.selector = "OwnedObjects"
           => \A o \in objects : OwnedBy(call, o) = {x \in objects : o \in OwnerOf(call, x)}
====
