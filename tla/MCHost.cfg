SPECIFICATION MCSpec
CONSTANT ClientIds = {1, 2, 3}
CONSTANT TableSlots = 2
CONSTANT MaxPeriods = 3
CONSTANT MaxClockSeed = 3
CONSTANT OutputSelectors <- MCOutputSelectors
CONSTANT MicSelectors <- MCBothSelectors
CONSTANT Capacities = {0, 4, 8, 40, 56}
CONSTANT Setters = {1, 2}
CONSTANT Levels = {0, 70, 100, 106}
CONSTANT MaxSets = 2
CONSTANT MaxReloads = 1
CONSTANT MicFrames = 2
CONSTANT MaxFrame = 3
CONSTANT MaxResets = 1
CONSTANT PacketFrames = 2
CONSTANT QueueFrames = 8
CONSTANT TargetFrames = 4
CONSTANT MaxPcmAge = 2
CONSTANT MaxPcmTime = 3
CONSTANT MaxSample = 10
CONSTANT Leases = {1, 2}
CONSTANT MaxSeed = 2
CONSTANT MaxFlushes = 2
CONSTANT MaxNow = 2
CONSTANT BrokerTicks = 2
CONSTANT InputTicks = 1
CONSTANT TapSlots = 2
CONSTANT IndexRange = 4
CONSTANT MaxBlocks = 7
CONSTANT CameraSlots = 2
CONSTANT MaxAge = 1
CONSTANT MaxSerial = 5
CONSTANT MaxTime = 3
CONSTANT Clients = {t1, t2}
CONSTANT Nobody = Nobody
CONSTANT MaxGeneration = 2
CONSTANT MaxTimeouts = 1
CONSTANT Processes = {p1, p2}
CONSTANT Links = {l1, l2}
CONSTANT NoLink = NoLink
CONSTANT MaxLinks = 2
CONSTANT MaxScopeChanges = 2
CONSTANT Messages <- MCMessages
CONSTANT WireBytes = {0, 1, 2, 255}
CONSTANT TextBytes = {0, 1, 127, 128, 143, 144, 159, 160, 191, 192, 193, 194, 223, 224, 237, 239, 240, 244, 245, 255}
CONSTANT MaxTextBytes = 4
CONSTANT MaxSetupPayload = 3
CONSTANT MaxFrameBytes = 3
CONSTANT Offers <- MCOffers
CONSTANT OtherLaunches <- MCOtherLaunches
CONSTANT MaxRemote = 2
CONSTANT MaxUnits = 2
CONSTANT MaxCopies = 1
CONSTANT NewUuids = {"u1", "u2"}
CONSTANT MaxInterruptions = 4
CONSTANT MaxEdits = 2
CONSTANT InputKeys = {"a", "b", "leftShift", "rightShift", "capsLock"}
CONSTANT MouseButtons = {1}
CONSTANT PenBits = {2, 4}
CONSTANT DeviceSets = {{}, {"keyboard"}, {"pen", "mouse"}}
CONSTANT MaxPackets = 3
INVARIANT OneClockPerSeed
INVARIANT TablesAgree
INVARIANT TapGainFollows
INVARIANT RenderedFresh
INVARIANT OnlyAdmittedSpeech
INVARIANT OneGraphicalOwner
INVARIANT RecordsReadBack
INVARIANT LaunchAsNegotiated
PROPERTY SharedBuffersSound
PROPERTY DisplayKept
PROPERTY TransferHonoured
PROPERTY ClipboardFaithful
PROPERTY InstallRecovers
PROPERTY InputReleased
CHECK_DEADLOCK FALSE
