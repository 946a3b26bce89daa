---- MODULE MCHost ----
(* The parts of the macOS Host: its runtime, the registry of its graphical processes, *)
(* its audio and camera devices, and what it exchanges with a Client, the desktop and *)
(* its installer; `probe' is the part that runs.                                      *)
EXTENDS AudioDriver, AudioTables, AudioControls, MicQueue, MicrophoneLink, SharedBuffers,
        HostRuntime, AgentRegistry, WireFormats, MediaFeatures, ClipboardSync,
        HostConfiguration, InputEvents

VARIABLE probe

MCBothSelectors ==
    WordSelectors \cup
    {"Owner", "Name", "Manufacturer", "OwnedObjects", "DeviceList", "TranslateUID", "ResourceBundle",
     "DeviceUID", "ModelUID", "RelatedDevices", "Streams", "NominalSampleRate",
     "AvailableNominalSampleRates", "ControlList", "PreferredChannels", "VirtualFormat",
     "PhysicalFormat", "AvailableVirtualFormats", "AvailablePhysicalFormats", "other"}
MCOutputSelectors == MCBothSelectors \cup ControlSelectors \cup {"DecibelRange"}

\* The call, the message and the offer while another part runs: MCNoCall, MCNoMessage,
\* MCNoOffer.
MCNoCall ==
    [driver |-> "output", object |-> "plugin", scope |-> "global", main |-> TRUE,
     selector |-> "other", capacity |-> 0]

-----------------------------------------------------------------------------
(* Records: one field at a time at an edge of its range *)

VaryOne(base, options) == {base} \cup UNION {{[base EXCEPT ![f] = v] : v \in options[f]} : f \in DOMAIN options}
Ones(n) == [i \in 1..n |-> 255]
Edges(n) == {Octets(0, n), Octets(1, n), Ones(n)}

SetupBase == [type |-> Octets(9, 2), flags |-> Octets(0, 2), status |-> Octets(0, 2), request_id |-> Octets(1, 4)]
SetupValues ==
    VaryOne(SetupBase, [type |-> Edges(2), flags |-> {Octets(n, 2) : n \in {1, 2, 3, 4, 256}},
                        status |-> Edges(2), request_id |-> Edges(4)])
CameraBase ==
    [flags |-> <<1>>, generation |-> Octets(1, 8), sequence |-> Octets(0, 8),
     capture_time_us |-> Octets(1, 8), codec |-> H264, width |-> Octets(1280, 2),
     height |-> Octets(720, 2), colorspace |-> Octets(0, 4), transfer |-> Octets(0, 4),
     ycbcr |-> Octets(0, 4), quantization |-> Octets(0, 4), driver_sequence |-> Octets(0, 4)]
Times == Edges(8) \cup {LastMicrosecond, [LastMicrosecond EXCEPT ![8] = 248]}
CameraValues ==
    VaryOne(CameraBase, [flags |-> {<<0>>, <<2>>, <<3>>, <<4>>}, generation |-> Edges(8),
        sequence |-> Edges(8), capture_time_us |-> Times, codec |-> {MJPEG, Octets(0, 4)},
        width |-> {Octets(1920, 2)}, colorspace |-> {Octets(12, 4), Octets(13, 4)},
        transfer |-> {Octets(7, 4)}, ycbcr |-> {Octets(8, 4)}, quantization |-> {Octets(2, 4), Octets(3, 4)},
        driver_sequence |-> Edges(4)])
    \cup {[CameraBase EXCEPT !.width = Octets(1920, 2), !.height = Octets(1080, 2), !.codec = MJPEG]}
EncodedBase ==
    [flags |-> <<1>>, generation |-> Octets(1, 8), sequence |-> Octets(0, 8),
     capture_time_us |-> Octets(1, 8), codec |-> H264, width |-> Octets(1280, 2),
     height |-> Octets(720, 2), platform |-> Octets(1, 4), encoder |-> Octets(1, 4),
     source_pixel_format |-> Octets(1, 4), primaries |-> <<1>>, transfer |-> <<1>>, matrix |-> <<1>>,
     range |-> <<1>>, nominal_fps |-> Octets(30, 2)]
EncodedValues ==
    VaryOne(EncodedBase, [flags |-> {<<0>>, <<2>>, <<3>>}, generation |-> Edges(8), sequence |-> Edges(8),
        capture_time_us |-> Times, codec |-> {MJPEG}, nominal_fps |-> {Octets(60, 2)}])

MouseValues == [x : Edges(2), y : {Octets(1, 2)}, maximum_x : {Ones(2)}, maximum_y : {Octets(1, 2), Ones(2)}]
PenBase ==
    [action |-> <<0>>, tool |-> <<1>>, buttons |-> <<0>>, tilt |-> <<255>>, rotation |-> Ones(2),
     x |-> Octets(0, 4), y |-> <<63, 128, 0, 0>>, pressure |-> <<61, 0, 0, 1>>,
     major |-> <<128, 0, 0, 0>>, minor |-> Octets(1, 4)]
PenValues ==
    VaryOne(PenBase, [action |-> {<<n>> : n \in 1..7}, tool |-> {<<2>>}, buttons |-> {<<7>>},
                      tilt |-> {<<0>>, <<90>>}, rotation |-> {Octets(0, 2), Octets(359, 2)}])

Payloads == {<<>>, <<0>>, <<80, 67, 65>>}
Message(kind, values, payload) == [kind |-> kind, values |-> values, payload |-> payload, command |-> <<>>]
Commands ==
    {<<10, g, w>> : g \in {Octets(1, 8), <<0, 0, 0, 1, 255, 0, 0, 0>>}, w \in {0, 1}}
    \cup {<<11, Octets(2, 8), w>> : w \in 0..3} \cup {<<12, <<255, 255, 255, 255, 0, 0, 0, 0>>, 0>>}
MCNoMessage == Message("event", [type |-> Octets(0, 2)], <<>>)
\* "Aé" and the texts at the edges of UTF-8's ranges.
Texts ==
    {<<65, 195, 169>>, <<65, 127>>, <<194, 128>>, <<223, 191>>, <<224, 160, 128>>, <<237, 159, 191>>,
     <<238, 128, 128>>, <<239, 191, 191>>, <<240, 144, 128, 128>>, <<244, 143, 191, 191>>}
MCMessages ==
    {Message("setup", v, p) : v \in SetupValues, p \in Payloads}
    \cup {Message("camera", v, p) : v \in CameraValues, p \in Payloads \ {<<0>>}}
    \cup {Message("encodedCamera", v, p) : v \in EncodedValues, p \in Payloads \ {<<0>>}}
    \cup {Message("mouse", v, <<>>) : v \in MouseValues} \cup {Message("pen", v, <<>>) : v \in PenValues}
    \cup {Message("text", <<>>, p) : p \in Texts}
    \cup {Message("event", [type |-> t], p) : t \in Edges(2), p \in Payloads}
    \cup {Message("control", [type |-> t], Ones(4 * n)) : t \in Edges(2), n \in 0..4}
    \cup {[kind |-> "control", values |-> [type |-> Octets(c[1], 2)],
           payload |-> IF c[1] = 12 THEN c[2] ELSE c[2] \o Octets(c[3], 4),
           command |-> <<c[2], Octets(c[3], 4)>>] : c \in Commands}

-----------------------------------------------------------------------------
(* Negotiations *)

\* What Clients offer: known choices, older and newer ones, malformed ones.
Timed == SelectedProfile("microphone", "", [schema_version |-> 3])
Choice(name) == MediaProfile(name, "hevc-10-420-videotoolbox") @@ [future |-> TRUE]
Newer(name) == [schema_version |-> 999]
ModeLists ==
    {<<"hevc-10-444-videotoolbox", "hevc-10-420-videotoolbox">>, <<"hevc-10-444-nvenc">>,
     <<"h264-10-444-software", "hevc-10-420-videotoolbox">>, <<>>}
MicrophoneLists ==
    {<<>>, <<MediaProfile("microphone", "")>>, <<Timed, MediaProfile("microphone", "")>>,
     <<[Timed EXCEPT !.capture_clock = "wall-clock"], MediaProfile("microphone", "")>>,
     <<Newer("microphone")>>, <<MediaProfile("microphone", ""), Timed>>,
     <<MediaProfile("microphone", ""), [schema_version |-> 0]>>}
Lists(name) == {<<Choice(name)>>, <<Newer(name), Choice(name)>>, <<[schema_version |-> 0]>>}
OptionalLists(name) == {<<Choice(name)>>, <<Newer(name)>>}
RequiredLists ==
    {<<"desktop", "audio", "input">>, <<"input", "audio", "desktop", "microphone">>,
     <<"desktop", "audio", "input", "camera", "clipboard">>, <<"desktop", "audio", "input", "future">>,
     <<"desktop", "audio", "input", "audio">>, <<"desktop", "input">>}
MCNoOffer ==
    [schema_version |-> 1, transport |-> Wire, required_features |-> <<"desktop", "audio", "input">>,
     features |-> [audio |-> <<>>]]
MCOffers ==
    [schema_version : {1}, transport : {Wire}, required_features : RequiredLists,
     features : {[desktop |-> [i \in DOMAIN ms |-> MediaProfile("desktop", ms[i])], audio |-> a,
                  input |-> <<Choice("input")>>, clipboard |-> c, microphone |-> m, camera |-> v] :
                 ms \in ModeLists, a \in Lists("audio"), c \in OptionalLists("clipboard"),
                 m \in MicrophoneLists, v \in OptionalLists("camera")}]
    \cup {[schema_version |-> s, transport |-> t, required_features |-> <<"desktop", "audio", "input">>,
           features |-> [audio |-> <<>>]] : s \in 0..2, t \in {Wire, "plank-native/1"}}

MCOtherLaunches(launch) ==
    {[launch EXCEPT !.schema_version = 6], [launch EXCEPT !.transport = "plank-native/1"],
     [k \in DOMAIN launch \ {"capture_id"} |-> launch[k]],
     [launch EXCEPT !.features["desktop"] = MediaProfile("desktop", "hevc-10-420-videotoolbox")]}
    \cup {[launch EXCEPT !.features[n] = v] : n \in Names,
          v \in {NSNull, Timed, MediaProfile("microphone", ""), [Timed EXCEPT !.capture_clock = "wall-clock"]}}

-----------------------------------------------------------------------------
MCInit ==
    /\ probe \in {"driver", "tables", "controls", "micBuffer", "micQueue", "micLink", "tap", "camera",
                 "runtime", "registry", "wire", "media", "clipboard", "configuration",
                 "input"}
    /\ probe # "driver" => driver = "output"
    /\ probe # "tables" => call = MCNoCall
    /\ probe # "wire" => message = MCNoMessage
    /\ probe # "media" => offer = MCNoOffer
    /\ probe # "runtime" => mirrors = TRUE
    /\ probe # "configuration" => disk = Empty
    /\ probe # "input" => devices = {}
    /\ AudioDriverInit /\ AudioControlsInit /\ MicBufferInit /\ MicQueueInit /\ MicLinkInit
    /\ TapInit /\ CameraLinkInit /\ RuntimeInit /\ RegistryInit /\ ClipboardInit
    /\ ConfigurationInit /\ InputInit /\ MediaInit /\ WireInit /\ AudioTablesInit
    /\ "keyboard" \notin devices => held.flags = {}

deviceVars == <<audioDriverVars, audioTablesVars, audioControlsVars, micBufferVars, micQueueVars,
                micLinkVars, tapVars, cameraLinkVars>>
hostVars == <<runtimeVars, registryVars>>
agreementVars == <<wireVars, mediaVars, clipboardVars, configurationVars, inputVars>>
MCVars == <<deviceVars, hostVars, agreementVars, probe>>

DeviceNext ==
    \/ /\ probe = "driver" /\ AudioDriverNext
       /\ UNCHANGED <<audioTablesVars, audioControlsVars, micBufferVars, micQueueVars,
                      micLinkVars, tapVars, cameraLinkVars>>
    \/ /\ probe = "tables" /\ AudioTablesNext
       /\ UNCHANGED <<audioDriverVars, audioControlsVars, micBufferVars, micQueueVars,
                      micLinkVars, tapVars, cameraLinkVars>>
    \/ /\ probe = "controls" /\ AudioControlsNext
       /\ UNCHANGED <<audioDriverVars, audioTablesVars, micBufferVars, micQueueVars, micLinkVars,
                      tapVars, cameraLinkVars>>
    \/ /\ probe = "micBuffer" /\ MicBufferNext
       /\ UNCHANGED <<audioDriverVars, audioTablesVars, audioControlsVars, micQueueVars,
                      micLinkVars, tapVars, cameraLinkVars>>
    \/ /\ probe = "micQueue" /\ MicQueueNext
       /\ UNCHANGED <<audioDriverVars, audioTablesVars, audioControlsVars, micBufferVars,
                      micLinkVars, tapVars, cameraLinkVars>>
    \/ /\ probe = "micLink" /\ MicLinkNext
       /\ UNCHANGED <<audioDriverVars, audioTablesVars, audioControlsVars, micBufferVars,
                      micQueueVars, tapVars, cameraLinkVars>>
    \/ /\ probe = "tap" /\ TapNext
       /\ UNCHANGED <<audioDriverVars, audioTablesVars, audioControlsVars, micBufferVars,
                      micQueueVars, micLinkVars, cameraLinkVars>>
    \/ /\ probe = "camera" /\ CameraLinkNext
       /\ UNCHANGED <<audioDriverVars, audioTablesVars, audioControlsVars, micBufferVars,
                      micQueueVars, micLinkVars, tapVars>>

HostNext ==
    \/ probe = "runtime" /\ RuntimeNext /\ UNCHANGED registryVars
    \/ probe = "registry" /\ RegistryNext /\ UNCHANGED runtimeVars

AgreementNext ==
    \/ /\ probe = "wire" /\ WireNext
       /\ UNCHANGED <<mediaVars, clipboardVars, configurationVars, inputVars>>
    \/ /\ probe = "media" /\ MediaNext
       /\ UNCHANGED <<wireVars, clipboardVars, configurationVars, inputVars>>
    \/ /\ probe = "clipboard" /\ ClipboardNext
       /\ UNCHANGED <<wireVars, mediaVars, configurationVars, inputVars>>
    \/ /\ probe = "configuration" /\ ConfigurationNext
       /\ UNCHANGED <<wireVars, mediaVars, clipboardVars, inputVars>>
    \/ /\ probe = "input" /\ InputNext
       /\ UNCHANGED <<wireVars, mediaVars, clipboardVars, configurationVars>>

MCNext ==
    /\ UNCHANGED probe
    /\ \/ DeviceNext /\ UNCHANGED <<hostVars, agreementVars>>
       \/ HostNext /\ UNCHANGED <<deviceVars, agreementVars>>
       \/ AgreementNext /\ UNCHANGED <<deviceVars, hostVars>>

MCSpec == MCInit /\ [][MCNext]_MCVars
====
