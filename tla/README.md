# PLANK: TLA+ models and proofs

PLANK streams a desktop over QUIC. This directory models the parts of the
repository that are concurrent, that cross a trust boundary, or that must survive
loss, reordering and interruption: the native transport (`protocol/plank-transport`,
Rust with a C interface), the macOS Host (`apps/host/macos`, Objective-C and C), the
records both ends exchange, the installer's settings, and the qualification programs
under `probes` that have threads or peers of their own. Every definition is
translated from the source; `PROJECT.json` gives the lines. All paths below are
relative to `src/`; `H/` stands for `apps/host/macos/`.

## Inventory

| component | state | operations | hard behaviour | what makes it correct |
|---|---|---|---|---|
| Native endpoint (`native_ffi.rs`, `native.rs`, `config.rs`) | status, stop flag, worker handle, certificate, approval, authorization | create, start, wait_ready, approve, authorize, stop, destroy; worker: connect, validate, set up, promote, run, drain, finish | application threads against a worker thread; wakeups without permits; cancellation in every phase; panics | stop leaves nothing running; finished is final; Ready only after the decisions; stop ends |
| Reliable lanes (`native_ffi.rs`: data, input) | two bounded queues, permits, one record held per task | send, receive, lane tasks | backpressure, several receivers, promotion, stop | nothing lost or reordered; limits exact; everything arrives |
| Camera lane (`native_camera.rs`) | per side: activation, queue, key state | enable, activate, send, receive, lane tasks | loss, reordering, expiry, activations out of step | only decodable frames of the activation in force; a dark lane asks |
| Wire records (`plank-transport/include`) | none | encode, decode | another version's reserved bytes, sizes and values | what is written is read back; what is accepted is understood whole |
| Media negotiation (`H/control/media-features.h`, `plank_encoding_profiles.h`) | the offer | negotiate, normalize, reply | newer, older and malformed offers; three functions that must agree | a launch of what was offered succeeds and the reply says what runs |
| Authentication session (`H/auth/authentication-session.m`, `account-policy.h`) | challenges, tokens, lease, takeover, epoch | start, respond, authorize, claim, activate, end, reserve, revoke | the lock is left during verification; revocation, hand-off and expiry in between | one lease; no replay; revocation final; only admitted accounts; a takeover keeps its token |
| Host runtime (`H/session/host-runtime.m`) | display reservation and generation, stream, takeover | prepare, launch, take over, release, recover, stop | delayed release, five-second takeover limit, concurrent requests, failing display calls | a screen is kept while it is used; the session goes to who took it over; nobody is locked out |
| Agent registry (`H/session/agent-registry.m`, controller in `host-main.m`) | links, the graphical owner, the certificate being issued | register, refresh, retire, issue, revoke, exit notice | lost links, exits noticed late, work on a second queue | one graphical owner, until its process has exited; every link ends |
| Input (`H/input/input-events.m`, `native-input.m`) | keys, buttons, pen, repetition, event numbers | consume a packet, repeat, stop | the lease may end between the events of one packet | what is held is what the desktop has; nothing stays pressed |
| Clipboard (`H/media/clipboard-sync.m`) | assembly, pending text, revision, owned change | receive, tick, main-queue task, stop | two queues, other programs, stop in between | whole texts, no echo, the newer copy wins, nothing left behind |
| Audio drivers (`H/audio-device/output-driver.c`, `microphone-driver.c`) | clients, clock, gain, mute | add, remove, start, stop, timestamp, get, set | IO threads without the lock; three tables per property | one clock per seed; tables agree |
| Tap and volume (`H/media/audio-tap.m`, `audio-tap-buffer.h`, `audio-output-volume.h`) | ring, overruns, gain | push, drain, refresh, apply | realtime producer; reading on one queue, applying on another | no gap unnoticed; the last gain set is the last one applied |
| Virtual microphone (`H/audio-device/microphone-*.h/.m`) | history, shared region, lease, producer queue | write, reset, read; connect, renew, drop, tick; submit, render | realtime reads during resets, drops, restarts and mutes | silence, or the right sample of the session in force, fresh |
| Virtual camera (`H/camera-device/camera-link.h`) | slots with marks | write, read | slots reused during a copy | whole, recent records; a gap is noticed |
| Installer configuration (`scripts/package/macos-configure.m`, `H/session/configuration-files.h`) | identity, `host.conf`, the old record, TLS identity | check, prepare, finish | kill or power failure at any step | it can be run again; the identity survives |
| Encoder pipeline (`probes/video/plank-probe-video-pipeline.cpp`) | two slots, pending queue, driver objects | capture, convert, submit, drain | two threads, failing calls, simulated loss | frames in order; everything released; it ends |
| Decoder pipeline (`probes/video/plank-probe-client-pipeline.cpp`) | one-sample slot, frames in flight | stamp, hand over, present, join | three threads and a compositor | as above |
| Tablet bridge (`probes/wacom/plank-wacom-raw-bridge.cpp`) | interfaces, UHID devices, the connection | open, describe, relay, answer | two blocking poll loops; killed peers | reports and answers reach their own interface; both ends end |
| Loopback test (`probes/network/plank-transport/native-ffi-loopback.c`) | one step of a program | the calls of the C interface | lane tasks between any two calls | its assertions hold |

How they interact. The HTTPS server asks the authentication session for a token; the
Host runtime prepares the display, and the preview session claims the token as the
stream lease, opens a native endpoint for what was negotiated, activates the lease and
ends it again. The agent registry decides which process owns the desktop; through the
graphical authority every authentication call sees its scope. Endpoints of Host and
Client carry the lanes; on the Host, input packets become Quartz events under the
lease, clipboard texts go to the pasteboard, microphone and camera samples go through
shared memory to the system's drivers, and the tap brings the output device's sound
back with its volume.

## Modules

`NativeEndpoint` has one action per access to state that two threads share. A
caller is at a point of `start`, `stop_endpoint`, `wait_ready`, `approve` or
`authorize`; the worker is at a point of `worker`, `run_*`, `hold_*` or
`finish_worker`; `watch` is the `shutdown_requested` future that `until_shutdown`
polls before the operation (biased select). `Notify::notify_waiters` wakes only
registered futures, `notify_one` leaves a permit. Connection establishment,
promotion and draining succeed or fail; a panic is possible wherever the operation
is polled. `EndpointContract` is what `plank_transport.h` promises of the observable
state; `RefinesContract` maps `phase` to `state` and `cause` to `error`.

`ReliableLane` is one direction of the data lane or of the input lane (no byte limit,
a bounded stall, open from the start): application, sending task, QUIC stream, receiving task, any number of
`*_receive` threads inside `wait_pop`. `phase` is per side, because the tasks are
not polled while that side opens its media endpoints. `stop` stands for a stop or
a failure of the receiving endpoint.

`CameraLane` has the queue state of both sides as records and the methods of
`State` and `Camera` as operators on them. The transport is a set of frames that
arrive in any order or are lost, with or without a reported hole. Age is one bit per
queued frame, set oldest first. MJPEG frames always carry the key flag.

`AuthSession` has one action per method, three for `respondForPeer`, which leaves
the lock to verify. `epoch` records the revocation generation at which a record's
challenge was issued; it is history, not state of the program. Graphical scopes are
told apart by their generation and never come back once replaced.

`HostRuntime` composes `host-runtime.m` with what it drives of the preview session
and of the authentication session: each `@synchronized` block, each block on the
stream's queue and each display call is a step. A client stands for its peer, its
token and its session. `Lapse` is the pruning the authentication session does on
every call. `mirrors` says whether `host-main.m` has set `releaseDisplay`, which it does
when the Host's displays are mirrored; the theorems are about both.

`AgentRegistry` has one action per block of the registry's queue, with the
controller's exit watch; only the issuing of a certificate runs elsewhere. A process
stands for uid, pid and audit session.

`InputEvents` turns packets into sequences of events; the lease is looked at before
each. `desktop` is what the events it got make pressed.

`ClipboardSync` has the session's queue, the main queue's one task in its steps, and
another program that copies at any moment. A text is a sequence of units that know
whose text they are part of.

`AudioDriver` (clients and clock of both drivers), `AudioTables` (their property
tables: size, get, settable, set), `AudioControls` (volume and mute from the setter
through the HAL to the tap) and `TapBuffer` are the output side; `MicQueue`,
`MicrophoneLink` and `MicBuffer` the microphone, from the network to the realtime
reader. `MicrophoneLink` keeps one cell of each history and relies on what
`MicBuffer` shows of a read; the realtime gate is two words, and each of the reader's
four loads of them is a step. The two stores of `micDropLink` that close it are one:
the deadline goes first, so a load between them is like one before both (the lease) or
after both (the deadline). `AudioTables` also has the errors a getter returns after it
has set `*actual`. In `AudioControls` each of the values a refresh reads is asked for and
then read, and a device may go in between. `CameraLink` is a seqlock per slot. In `TapBuffer`,
`CameraLink` and `MicBuffer` (side by side in `SharedBuffers`) every store and load of shared memory is a step; memory
is sequentially consistent (the code uses sequentially consistent atomics or
acquire and release on the index that publishes).

`WireFormats` holds two tables per record, where the encoder writes and where the
decoder reads, and their conditions, each from its own function. A number is the
tuple of its bytes. Texts are checked against a definition of UTF-8 by scalars.
`MediaFeatures` has JSON objects as records of the keys that are looked at.

`HostConfiguration` has a volume as files with contents, and everything a loss of
power may leave: a state since the last directory fsync, with files that were never
fsynced incomplete. It assumes that a volume's metadata operations reach the disk in
order and that fsync is durable.

`VideoPipeline`, `ClientPipeline`, `WacomBridge` and `FfiLoopback` are programs: a
program counter per thread, driver objects as a set of pairs, every call may fail.
Objects that only a local variable holds when a call fails are among them (the self
test's source, a shader, an image, a texture), Wayland globals may be missing and
their optional managers too; the feedback proxies and what GStreamer owns are left out.
`QualificationPipelines` has the properties of the first two together.

`MCHost`, `MCProbes`, `MCTransport` and `MCAdmission` check parts that share no state
with one another: `probe`
names the part that runs, the others stay at their initial state, so that the state
spaces add up instead of multiplying. `*Proofs` extend their component with theorems;
the other `MC*` instantiate one module.

## Runs

| run | instance | shows |
|---|---|---|
| `transport` | endpoint: 3 threads (one holds the mutex, one waits for it, one decides or waits), all 6 configurations; camera lane: queues of 2, 2 frames under way, 2 activations of 3 frames, both codecs | `Inv`, `StopReturnsQuiescent`, `NoRevival`, `RefinesContract`; `QueueInv`, `LaneRecovers`, `DecodableInOrder` |
| `admission` | endpoint: 2 threads; login: one relay address, two users and root, both limits 1 | `StopCompletes`, `WaitersWake`, `DecisionsTakeEffect`; `WithinLimits` (of `AuthSession`), `VerificationEnds` |
| `endpoint_fingerprint` | 2 threads, violation | a setup Client with a pinned certificate waits for an approval it cannot get |
| `auth` | 2 peers, a user and root, LoginWindow then desktop, 2 challenges, 3 tokens, one revocation; peers, challenges and tokens symmetric | `AuthInv`, `ReservationHolds` |
| `lane` | both lanes, 2 receivers, 4 records (of 2 bytes on the data lane), limits 2 records and 3 bytes | `WithinLimits`, `NothingLost`, `EverythingArrives` |
| `lane_stop` | violation | a stop misses a receiver that is about to sleep |
| `lane_overflow` | the data lane, 1 receiver, 2 records, room for 1; violation | a record without room waits, the endpoint does not fail |
| `probes` | the options of `MCProbes`; a tablet of 2 interfaces, 3 reports and requests together, 2 frames per direction | `ProbesRelease`, `FramesKeepOrder`, `InvalidateAfterLoss`, `ConversionExact`, `LoopbackPasses`, `BridgeRelays`, `ProbesProgress` |
| `clipboard_teardown` | one text of one unit, one copy; violation | teardown removes a copy of another program |
| `tap_volume` | one setter, one restart of the driver; violation | a muted device that vanishes before its mute is read is heard |
| `host` | see below | one property per part: `OneClockPerSeed`, `TablesAgree`, `TapGainFollows`, `RenderedFresh`, `OnlyAdmittedSpeech`, `SharedBuffersSound`, `DisplayKept`, `TransferHonoured`, `OneGraphicalOwner`, `RecordsReadBack`, `LaunchAsNegotiated`, `ClipboardFaithful`, `InstallRecovers`, `InputReleased` |
| `host_live` | 2 clients, 1 screen generation; 2 processes, 2 links | `HostProgress` |

Bounds. Threads beyond three only repeat roles at the endpoint's mutex; the proofs do
not depend on the number. In `auth` three tokens are one held, one reserved and one
new; lifetimes are 1 or 2 ticks so that each kind expires before another. In the
lane the records do not fit into one queue, so both tasks block; the data lane
fills its byte limit first, the input lane its record limit. Of the camera lane three
frames overflow a queue of two and leave a gap on the way, and the second
activation of one side meets frames of the first of the other. The Host queue is 3
in the code and 2 here.

In `host`: three audio clients for two table places, so that one is refused and ids
are reused, and three clock seeds; every selector the two drivers name and one they
do not, on every object and scope, with buffers that are empty, too small, exact and
larger; two setters, four levels with both ends and one out of range, one driver
reload; two microphone leases, two clock seeds, `MaxFlushes` mutes or late ticks per lease; PCM positions past the
queue's length; ring indices that wrap after four; camera serials past twice the
slots; two clients and two screen generations, one takeover timeout; two processes
with a link each and two changes of scope; every field of every record at the edges of
its range, and every byte of a record changed; texts at every edge of UTF-8; two
remote texts of two units against one local copy; four interruptions of the
installer and two edits of the administrator; three packets of keys (with both shift
keys and Caps Lock), mouse or pen. `CHECK_DEADLOCK FALSE` there and in `probes`: the
programs end, and a part that has used up its bounds stops.

Fairness. `NativeEndpoint`: threads are scheduled; establishment and promotion end
by `handshake_timeout`, draining by `CONNECTION_CLOSE_DRAIN`; the peer never has to
do anything. `AuthSession`: the verifier answers or its helper is given up.
`ReliableLane`: tasks are polled, promotion is bounded, receivers keep calling, and
the receiving task gets the queues mutex in the end although receivers take it
again and again (strong fairness: the mutex is held for a few instructions at a
time). `HostRuntime`: requests and the stream's queue run on; a release gets its turn
between requests that reserve the display again and again (strong fairness: it waits
for the group of the operation under way and tries again; assumed is that requests do
not win that race for ever); stop runs. `AgentRegistry`: the
issuing queue answers, timers fire, a watched exit is reported. Probes: each thread is
scheduled; the compositor, the decoder, the tablet and the network owe nothing. No
property relies on a caller's own timeout expiring.

Five runs are disagreements between the code and its documents; `PROJECT.json`
quotes them under `findings`. `endpoint_fingerprint` leaves a setup Client with
`certificate_sha256` in PEER_VALIDATION until stop or peer close. `lane_stop` delays
a receiver by at most its timeout (one second in the Host). `lane_overflow` is
backpressure where `plank_transport.h` announces a failure; a comment in the code gives
the reason, and `EverythingArrives` shows what the code does instead.
`clipboard_teardown` is a window of a
few instructions in which another program's copy is taken for the session's.
`tap_volume` lasts until the refresh that the loss of the device brings about
(`TapGainFollows`).

What the other properties leave open, and the code has: a release is not delivered once
the lease has ended (`native-input.m:73`: never into another owner's desktop);
the kernels store in the right place only on surfaces whose pitch is their row length
(`ConversionExact` has that condition, and whether `cuMemAllocPitch` pads is the driver's
business); the self test's source, a shader, an image or a texture stay behind in four
failing calls until their context or the process goes, and the sample in the hand-over
slot of a failed presenter is not released (the three properties of release name each);
a microphone lease that is replaced, by one already opened, between a reader's last two
loads is heard for one more block; the bridge's sends may block each
other once a direction holds less than the kernel can ask; the loopback's counters move
after a packet can be taken; without an exit watch the graphical slot stays taken.

## Proofs

`NativeEndpointProofs`, for every set of threads (assumption: the marker `Nobody`
is not a thread): `Invariance`, `Quiescence`, `NeverRevived`, `Refinement`. None of the properties is inductive by itself. That stop leaves no
worker needs the slot to hold the handle exactly while a worker is unjoined
(`SlotInv`), which needs start and stop to exclude each other (`MutexInv`) and the
state to be non-final for as long as the worker runs (`EndInv`). That Ready means
approved and authorized needs the worker's place to agree with the advertised
state (`PathInv`) and a decision half-way through to be justified when it is
written (`DecisionInv`), since the state may change between check and swap. `Inv`
is their conjunction; the step lemma has one case per action, and refinement uses
the invariant before and after the step.

`AuthSessionProofs`, for all peers, accounts, scopes, lifetimes and limits
(assumptions: those are natural numbers; scopes are owned by non-root accounts or
by LoginWindow): `Invariance` (of `AuthInv`), `Reservation` and `Limits`. `RevocationIsFinal` is
inductive with the epoch a verification started at; `Identified` is what makes the
exchange of a token for a lease remove exactly that token. Lemmas state what pruning
keeps and what a grant, a decision and an activation change. `Limits` counts records:
`LimitsInv` adds that the tables are finite, and a grant is within the limit because it
is counted after the tokens it supersedes are gone.

`ReliableLaneProofs`, for any consumers, capacities, sizes and number of packets
(assumption: capacities are positive and a packet fits): `LaneInvariance`, `Reliable`, `LimitsKept`.
The concatenation in `NothingLost` survives a step because a task holds a packet exactly
at the places of its code where it does (`TasksHold`). That a byte counter is the sum of
its queue is stated by the remainders after each packet (`ChargedFor`), so that no
recursion is needed; `Exactly` adds that these do not grow, which bounds a pop.

`CameraLaneProofs`, for any capacities, generations and sequence numbers:
`CameraLaneInvariance`, `CameraQueues`, `CameraRecovers`, `CameraDecodable`. Lemmas say
what `Gap`, `Prune`, `Push` and an activation do to one state record (`SideInv`). That
what is shown can be decoded also needs the head of the Host's queue to continue what was
shown last, and an emptied queue to be restarting or to have shown its last frame
(`HeadInv`); that the format never changes needs every frame under way to have the format
its activation has on both sides (`WireInv`), as activations come out of step.

`HostProofs`, for any processes, links and clients. `GraphicalOwner`: the property looks
at moments in which authority is held; the invariant (`SlotGuards`) is about the others:
the slot stays with the last owner's link, closed or retired, until that owner has
exited, so that nobody who was granted the desktop is alive when the slot is free.
`RuntimeInvariance`, `ScreenKept`, `Transfer`: display operations exclude each other
(`OneOperation`), the screen belongs to the stream that uses it (`ScreenHeld`), a delayed
release still names its own preparation or finds a newer generation (`ReleasesCurrent`),
and a takeover stays with its client until the reservation ends (`TransferBound`).
All of it holds with mirrored displays and without (`Flagged`).
Assumption: a client is not a call of `releaseDisplayGeneration` (`op` may hold either).

`DeviceProofs`, the shared buffers, for any sizes: `CameraRecords`, `MicRead`, `TapDelivers` and, together,
`BuffersSound`. Each invariant says what a mark, a generation or an index tells the reader
at each of its loads while the writer is at each of its stores. `CameraInv`: an even mark
stands over a slot only while both words are of that record, and never comes back.
`MicInv`: two frames of one slot are a history apart, so a stamp that is read twice was
not overwritten in between, and a reset moves the generation before it clears. `TapInv`:
the writer stays inside the ring ahead of the drain, and slots of indices less than a
ring apart differ, also across the wrap (assumption: the range of the indices is a
multiple of the slots, as 2^32 is of a power of two).

`DeviceProofs`, the audio devices, for any leases, setters, levels, clients and sizes. `AdmittedSpeech`
(`MicLinkInv`): the lease, the clock seed and the mute travel from the broker through the
shared region and the private history to the reader; at every place the invariant says
how old what is copied can be, and at each of the reader's loads of the gate what is still
true of the one before. `GainFollows` (`ControlsInv`): a gain that differs from the
device's is on its way, by a setter that has yet to notify, a notice, a refresh between
its reads (one that met a vanished device has a notice behind it), or the last block of
the owner queue. `ClockPerSeed` (`DriverInv`): anchor
and seed change only while no IO thread is on, which needs the running count to be the
table's (`TableCounted`), a thread to be on only for a running client (`ThreadsRun`) and
every stamp kept to agree with the anchor of its seed (`StampsAnchored`). `BlocksFresh`
(`MicQueueInv`): arrivals ascend, so what `Expired` leaves is fresh to its last frame,
and sent positions ascend across silence; that neighbours in step make a block unbroken
is by its first frame out of step.

`ProbeProofs`, the encoder pipeline, for every command line: `ResourcesNestAlways`,
`FramesInOrderAlways`, `InvalidateAfterLossAlways`, `ConversionExactAlways`. The property
speaks of what is in the files; the invariant (`PipeInv`) says which frames the two slots
hold at each pair of places of the two threads (`WorkerSlots`, `MainSlots`): the other slot
the last frame handed over, this one the last but one, as long as the worker has not given
them back. It follows that a slot is filled only after its drain, that the number drained
is the number captured less those behind, and that the lost frame, always earlier than the
call, has been drained when the encoder is told. Clean-up needs every existing object to
have what it was made from (`HeldNested`), the set-up made so far to be there until the
unwinding (`HeldSetup`), and the surface of a queued slot to stay mapped (`HeldSlots`);
`ReleaseNests` says that the order of `~Resources` never takes an object first that
another one needs; what the self test leaves (`TestSource`) is not its to take.
`ThresholdsRound` is the arithmetic of the kernel for all 256 bytes, `ConversionPlaces` its
addressing for every width, height and pitch: the right place in the first row, and in the
others exactly if rows are not padded.

`ProbeProofs`, the tablet bridge, for any list of tablets and any bounds (assumption: the
command line names at least one, which `main` demands): `BridgeRelaysAlways`. That each
device has its own descriptor, although the host takes descriptors in any order, needs the
connection to carry exactly what is left of the preamble before anything else (`Link`),
and the interfaces to be of one tablet (`OneModel`). That what is injected continues what
was injected before needs the reports produced, waiting, read and injected to be numbered
consecutively (`Reports`) and the frames on the connection to hold, of those read and not
injected, the first ones in order (`CarriesSome`), and all of them as long as both ends are
open (`CarriesEvery`): once an end has closed, reports are read and lost. A reply answers
its request because a request, its relayed frame and its reply name one event of one
interface all the way (`Requests`); the places of both loops (`ClientPhase`, `HostPhase`)
say that what poll found is still there when it is handled.

`ClientProofs`, the Client's pipeline, for every command line, stream and decoder depth:
`PresentedInOrderAlways`, `ClientReleasesAlways`, and with the encoder pipeline
`FramesKeepOrderAlways` and `ProbesReleaseAlways`. A sample passes from the decoder to the
streaming thread, the hand-over slot, the presenter, the compositor and the screen; at each
place the invariant (`ClientInv`) has the least number the next sample can have (`InMark`,
`StreamMark`, `ReadyMark`, `FreshMark`, `FlightMark`), and what is beyond the place is below
its mark. That a run that passes has shown frames 1 to n without a gap is a count: as many
are shown as numbers are below, because nothing is left behind unless something failed
(`LeftBehind`, `Counted`, `QueuedEnough`). A sample is unreferenced by whoever has it
because the ones alive are exactly those in somebody's hands (`ClientAlive`), and the
graphics nest like the encoder's objects (`GraphicsHeld`), whichever of them turned out
not to be there: what has been made by a step of the set-up is what that step's checks let
pass (`MadeNest`), and `shutdown_graphics` takes each before what it was made from
(`ShutdownNests`).

Each inductive invariant was model-checked before it was proved. Assumptions are the
named `ASSUME`s of the modules, which the runs evaluate; the bounds of the runs
(`MaxNow`, `MaxSample` and the like) are constants like any other, so a theorem holds for
every value of them.

Only model-checked: every liveness property (out of the prover's reach),
`LoopbackPasses`, `TablesAgree`, `RecordsReadBack` and
`LaunchAsNegotiated` (functions of one input, which TLC enumerates at the edges of every
field), `ClipboardFaithful`, `InstallRecovers` and `InputReleased`. Induction theorems
with an operator as parameter are not usable; where an argument needs induction over a
queue it is given by a least element instead (`Smallest`, `LeastNatural`).

## Not modelled

The microphone lane (like the camera's, without key frames), eviction from the video
and audio queues, rate control (floating-point arithmetic), the refresh clock of the
graphical authority, the account helper and its channel, the agent's end of the
registry protocol, request parsing of the HTTPS server, desktop start, display
geometry, capture and encoders, XPC brokers, click counts and preferences of the input
mapper: platform calls on data, or a second instance of what is modelled. The other
probes are straight-line programs. The QUIC implementation is vendored; the Linux Host
and the Clients are submodules and not part of the repository.

## Plan

1. `ClipboardSync`: `ClipboardFaithful` for any texts; the invariant ties the owned
   change to the pasteboard's counter.
2. `InputEvents`: `InputReleased`, from a lemma on what a sequence of events leaves
   pressed.
3. `HostConfiguration`: `InstallRecovers`, from what every prefix of the directory
   operations leaves.
4. `FfiLoopback`: `LoopbackPasses` for any counts of packets.
