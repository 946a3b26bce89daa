---- MODULE VideoPipeline ----
(***************************************************************************)
(* The capture / convert / encode qualification pipeline of                *)
(* src/probes/video/plank-probe-video-pipeline.cpp: a main thread that     *)
(* captures a frame into one of two encoder slots and submits it, and      *)
(* (queue depth 1) an output worker that drains submitted slots in order.  *)
(* They share the slots, a queue of pending slots and two condition        *)
(* variables.  Every driver call may fail; a failure is an exception that  *)
(* joins the worker and runs the destructor of Resources.                  *)
(*                                                                         *)
(* A resource is a pair <<kind, slot>>; kinds with one instance use slot 0.*)
(***************************************************************************)
EXTENDS Integers, Sequences, FiniteSets, SequencesExt

CONSTANT PipelineOptions    \* the command lines explored, as records

Slots == 0..1

VARIABLES
    opt,          \* the parsed command line
    pc,           \* where the main thread is
    code,         \* the exit status once it is decided
    setup,        \* how many set-up steps have succeeded
    held,         \* the resources that exist
    frame,        \* the main loop's frame index (the frame id is frame + 1)
    surface,      \* slot -> the frame last converted into its surface
    stamp,        \* slot -> the time stamp of the picture last submitted
    inUse,        \* slot_in_use
    pending,      \* pending_slots
    inputDone,    \* input_done
    workerError,  \* worker_error
    worker,       \* where the output worker is
    drain,        \* the slot being drained and the next step of drain_slot
    written,      \* the contents of the bitstream file
    reference,    \* the contents of the reference bitstream file
    dropped,      \* bitstream_frames_dropped
    invalidated,  \* reference_invalidation_called
    idrSent       \* forced_idr_submitted

progVars == <<opt, pc, code, setup>>
slotVars == <<surface, stamp, inUse, pending>>
endVars == <<inputDone, workerError>>
outVars == <<written, reference, dropped, invalidated, idrSent>>
pipelineVars ==
    <<progVars, held, frame, slotVars, endVars, worker, drain, outVars>>

-----------------------------------------------------------------------------
(* Command line *)

\* The options of an empty command line; -1 is an intra-refresh default and no
\* reference file is "none".
DefaultOptions ==
    [frames |-> 600, fps |-> 60, depth |-> 1, loss |-> 0, delay |-> 2, idr |-> 0,
     refs |-> 0, invalidate |-> TRUE, period |-> -1, count |-> -1, robust |-> FALSE,
     mbps |-> 100, vbv |-> 2000, reference |-> "none",
     codec |-> "hevc-10bit-444", split |-> "auto", tuning |-> "low-latency"]

\* The ranges the argument loop enforces on the rate control, and on counts.
CountLimit == 36000
RateRanges(o) == o.mbps \in 1..4000 /\ o.vbv \in 1..1000000
OptionRanges(o) ==
    /\ RateRanges(o)
    /\ o.depth \in 0..1
    /\ o.count \in -1..CountLimit /\ o.period \in {-1} \cup 1..CountLimit
    /\ {o.frames, o.fps, o.delay} \subseteq 1..CountLimit
    /\ {o.loss, o.idr, o.refs} \subseteq 0..CountLimit

\* The names it knows; any other is a usage error.
OptionNames(o) ==
    /\ o.codec \in {"hevc-10bit-444", "h264-8bit-444"}
    /\ o.split \in {"auto", "forced", "disabled"}
    /\ o.tuning \in {"low-latency", "ultra-low-latency"}

\* Mutation: one feedback frame is accepted in the threaded mode too.
OptionsAgreeOneFrame(o) ==
    /\ o.fps <= 240 /\ o.loss <= o.frames /\ o.idr <= o.frames /\ o.refs <= 8
    /\ o.loss # 0 /\ o.invalidate => o.loss + o.delay <= o.frames
    /\ o.reference # "same"

\* The checks across options after the loop.
OptionsAgree(o) ==
    LET period == IF o.period < 0 THEN o.fps ELSE o.period
        count == IF o.count < 0 THEN period \div 2 ELSE o.count
        recovers == o.loss # 0 /\ o.invalidate
    IN  /\ o.fps <= 240
        /\ count > 0 => count < period
        /\ o.loss <= o.frames /\ o.idr <= o.frames
        /\ recovers => o.loss + o.delay <= o.frames
        /\ o.refs <= 8
        /\ recovers /\ o.depth = 1 => o.delay >= 2
        /\ o.reference # "same"

-----------------------------------------------------------------------------
(* Colour conversion *)

\* Mutation: the first threshold is off by one.
KernelExpandEarly(v) == 4 * v + Cardinality({t \in {42, 128, 213} : v >= t})

\* The 10-bit kernel's expansion: four times the byte, plus one per threshold.
KernelExpand(v) == 4 * v + Cardinality({t \in {43, 128, 213} : v >= t})

\* expand_to_msb_aligned_10_bit, the reference: rounded scaling, MSB aligned.
ExpandToMsbAligned10(v) == 64 * ((v * 1023 + 127) \div 255)

\* The two kernels: what one thread stores for its pixel, by plane (Y:G, U:B, V:R).
Kernel8(pixel) == <<pixel.g, pixel.b, pixel.r>>
Kernel10(pixel) == [plane \in 1..3 |-> 64 * KernelExpand(Kernel8(pixel)[plane])]

\* The byte a thread stores its pixel's sample of a plane at, and where the
\* encoder reads the sample of column x and row y of that plane.
KernelOffset(index, plane, height, pitch, bytes) ==
    index * bytes + (plane - 1) * pitch * height
EncoderOffset(x, y, plane, height, pitch, bytes) ==
    ((plane - 1) * height + y) * pitch + x * bytes

Pixel(b, g, r) == [b |-> b, g |-> g, r |-> r]
TestPixels ==
    <<Pixel(0, 0, 0), Pixel(255, 255, 255), Pixel(255, 0, 0), Pixel(0, 128, 255)>>

\* self_test_conversion: four pixels in one row, through both kernels.
SelfTestPasses ==
    /\ [i \in 1..4 |-> Kernel8(TestPixels[i])]
         = <<<<0, 0, 0>>, <<255, 255, 255>>, <<0, 255, 0>>, <<128, 0, 255>>>>
    /\ \A i \in 1..4, plane \in 1..3 :
         Kernel10(TestPixels[i])[plane]
           = ExpandToMsbAligned10(Kernel8(TestPixels[i])[plane])

-----------------------------------------------------------------------------
(* Resources *)

CudaSetup == <<<<"driver", 0>>, <<"context", 0>>, <<"stream", 0>>, <<"module", 0>>>>

CaptureSetup == <<<<"library", 0>>, <<"handle", 0>>, <<"session", 0>>>>

\* The encoder session, then a surface, a registration and a bitstream per slot.
EncoderSetup ==
    <<<<"loader", 0>>, <<"encoder", 0>>,
      <<"surface", 0>>, <<"registered", 0>>, <<"bitstream", 0>>,
      <<"surface", 1>>, <<"registered", 1>>, <<"bitstream", 1>>>>

\* self_test_conversion runs between the first two and makes nothing that stays, but where
\* the second of its allocations fails (its guard begins only after that one) the first,
\* the test's source, is freed by nobody: destroying the context makes the driver forget it.
SelfTest == <<"selftest", 0>>
TestSource == <<"source", 0>>

SetupSteps ==
    CudaSetup \o <<SelfTest>> \o CaptureSetup \o EncoderSetup \o <<<<"file", 0>>>>

\* ~Resources, after the files that were opened later have been closed.
ReleaseOrder ==
    <<<<"file", 0>>,
      <<"locked", 0>>, <<"mapped", 0>>, <<"bitstream", 0>>, <<"registered", 0>>,
      <<"locked", 1>>, <<"mapped", 1>>, <<"bitstream", 1>>, <<"registered", 1>>,
      <<"encoder", 0>>, <<"loader", 0>>, <<"session", 0>>, <<"handle", 0>>, <<"library", 0>>,
      <<"surface", 0>>, <<"surface", 1>>,
      <<"stream", 0>>, <<"module", 0>>, <<"context", 0>>, <<"driver", 0>>>>

\* What a driver object needs for as long as it exists.
Needs(r) ==
    CASE r[1] = "context" -> {<<"driver", 0>>}
      [] r[1] \in {"stream", "module", "surface"} -> {<<"context", 0>>}
      [] r[1] = "handle" -> {<<"library", 0>>}
      [] r[1] = "session" -> {<<"handle", 0>>, <<"context", 0>>}
      [] r[1] = "encoder" -> {<<"loader", 0>>, <<"context", 0>>}
      [] r[1] = "bitstream" -> {<<"encoder", 0>>}
      [] r[1] = "registered" -> {<<"encoder", 0>>, <<"surface", r[2]>>}
      [] r[1] = "mapped" -> {<<"registered", r[2]>>}
      [] r[1] = "locked" -> {<<"bitstream", r[2]>>, <<"mapped", r[2]>>}
      [] OTHER -> {}

-----------------------------------------------------------------------------
PipelineInit ==
    /\ opt \in PipelineOptions
    /\ pc = "options" /\ code = -1 /\ setup = 0 /\ held = {} /\ frame = 0
    /\ surface = [s \in Slots |-> 0] /\ stamp = [s \in Slots |-> 0]
    /\ inUse = [s \in Slots |-> FALSE] /\ pending = <<>>
    /\ inputDone = FALSE /\ workerError = FALSE
    /\ worker = "none" /\ drain = <<>>
    /\ written = <<>> /\ reference = <<>> /\ dropped = 0 /\ invalidated = FALSE /\ idrSent = FALSE

frameId == frame + 1
slot == frame % 2

\* A condition-variable notification: only a thread already asleep hears it.
Notify(thread) == IF thread = "sleep" THEN "check" ELSE thread

\* An exception on the main thread, caught by the handler around the loop.
Throw ==
    /\ code' = 3
    /\ pc' = "catch"

ParseOptions ==
    /\ pc = "options"
    /\ IF OptionRanges(opt) /\ OptionNames(opt) /\ OptionsAgree(opt)
         THEN pc' = "setup" /\ code' = code
         ELSE pc' = "exit" /\ code' = 2
    /\ UNCHANGED <<opt, setup, held, frame, slotVars, endVars, worker, drain, outVars>>

\* What a failing set-up step may leave that no field of Resources holds.
FailureLeaves(step) == IF step = SelfTest THEN {{}, {TestSource}} ELSE {{}}

\* One set-up call; a failure before the loop unwinds at once.
Acquire(ok) ==
    /\ pc = "setup" /\ setup < Len(SetupSteps)
    /\ SetupSteps[setup + 1] = SelfTest /\ ok => SelfTestPasses
    /\ IF ok
         THEN /\ setup' = setup + 1
              /\ held' = held \cup ({SetupSteps[setup + 1]} \ {SelfTest})
              /\ UNCHANGED <<pc, code>>
         ELSE /\ pc' = "unwind" /\ code' = 3 /\ setup' = setup
              /\ \E left \in FailureLeaves(SetupSteps[setup + 1]) : held' = held \cup left
    /\ UNCHANGED <<opt, frame, slotVars, endVars, worker, drain, outVars>>

StartLoop ==
    /\ pc = "setup" /\ setup = Len(SetupSteps)
    /\ pc' = "check"
    /\ worker' = IF opt.depth = 1 THEN "check" ELSE "none"
    /\ UNCHANGED <<opt, code, setup, held, frame, slotVars, endVars, drain, outVars>>

-----------------------------------------------------------------------------
(* Main thread: one frame *)

\* Mutation: the main thread does not wait for the slot of two frames ago.
WaitForSlotNever ==
    /\ pc = "check" /\ frame < opt.frames
    /\ IF opt.depth = 1 /\ workerError THEN Throw ELSE pc' = "grab" /\ code' = code
    /\ UNCHANGED <<opt, setup, held, frame, slotVars, endVars, worker, drain, outVars>>

\* slot_released.wait with its predicate, or the end of the loop.
WaitForSlot ==
    /\ pc = "check" /\ frame < opt.frames
    /\ IF opt.depth = 1 /\ workerError THEN Throw
       ELSE /\ pc' = IF opt.depth = 1 /\ inUse[slot] THEN "sleep" ELSE "grab"
            /\ code' = code
    /\ UNCHANGED <<opt, setup, held, frame, slotVars, endVars, worker, drain, outVars>>

\* The feedback frame of the simulated loss.
InvalidationDue ==
    opt.loss # 0 /\ opt.invalidate /\ frameId = opt.loss + opt.delay

Invalidate(ok) ==
    /\ pc = "grab" /\ InvalidationDue /\ ~invalidated
    /\ IF ok THEN invalidated' = TRUE /\ UNCHANGED <<pc, code>>
             ELSE Throw /\ invalidated' = invalidated
    /\ UNCHANGED <<opt, setup, held, frame, slotVars, endVars, worker, drain,
                   written, reference, dropped, idrSent>>

\* The capture; it fails too when the geometry changed.
Grab(ok) ==
    /\ pc = "grab" /\ (InvalidationDue => invalidated)
    /\ IF ok THEN pc' = "convert" /\ code' = code ELSE Throw
    /\ UNCHANGED <<opt, setup, held, frame, slotVars, endVars, worker, drain, outVars>>

\* launch_conversion writes the slot's surface.
Convert(ok) ==
    /\ pc = "convert"
    /\ IF ok THEN /\ surface' = [surface EXCEPT ![slot] = frameId]
                  /\ pc' = "map" /\ code' = code
             ELSE Throw /\ surface' = surface
    /\ UNCHANGED <<opt, setup, held, frame, stamp, inUse, pending, endVars, worker,
                   drain, outVars>>

Map(ok) ==
    /\ pc = "map"
    /\ IF ok THEN held' = held \cup {<<"mapped", slot>>} /\ pc' = "submit" /\ code' = code
             ELSE Throw /\ held' = held
    /\ UNCHANGED <<opt, setup, frame, slotVars, endVars, worker, drain, outVars>>

\* The forced IDR is noted before the encoder has accepted the picture.
Submit(ok) ==
    /\ pc = "submit"
    /\ idrSent' = (idrSent \/ frameId = opt.idr)
    /\ IF ok THEN /\ stamp' = [stamp EXCEPT ![slot] = frameId]
                  /\ pc' = "handoff" /\ code' = code
             ELSE Throw /\ stamp' = stamp
    /\ UNCHANGED <<opt, setup, held, frame, surface, inUse, pending, endVars, worker,
                   drain, written, reference, dropped, invalidated>>

\* Depth 0 drains in line; depth 1 queues the slot and notifies the worker.
HandOff ==
    /\ pc = "handoff"
    /\ IF opt.depth = 0
         THEN /\ drain' = <<slot, "lock">> /\ pc' = "drain"
              /\ UNCHANGED <<inUse, pending, worker, frame>>
         ELSE /\ inUse' = [inUse EXCEPT ![slot] = TRUE]
              /\ pending' = Append(pending, slot)
              /\ worker' = Notify(worker)
              /\ frame' = frame + 1 /\ pc' = "check" /\ drain' = drain
    /\ UNCHANGED <<opt, code, setup, held, surface, stamp, endVars, outVars>>

FinishInput ==
    /\ pc = "check" /\ frame = opt.frames
    /\ IF opt.depth = 1
         THEN inputDone' = TRUE /\ worker' = Notify(worker) /\ pc' = "join"
         ELSE pc' = "eos" /\ UNCHANGED <<inputDone, worker>>
    /\ UNCHANGED <<opt, code, setup, held, frame, slotVars, workerError, drain, outVars>>

\* join() returns; a worker error is rethrown past the handler's own join.
Join ==
    /\ pc = "join" /\ worker = "gone"
    /\ worker' = "joined"
    /\ IF workerError THEN Throw ELSE pc' = "eos" /\ code' = code
    /\ UNCHANGED <<opt, setup, held, frame, slotVars, endVars, drain, outVars>>

\* Mutation: the exception leaves the worker running.
CatchWithoutJoin ==
    /\ pc = "catch"
    /\ inputDone' = TRUE /\ worker' = Notify(worker) /\ pc' = "unwind"
    /\ UNCHANGED <<opt, code, setup, held, frame, slotVars, workerError, drain, outVars>>

\* The catch block: stop and join a worker that is still joinable, rethrow.
Catch ==
    /\ pc = "catch"
    /\ IF opt.depth = 1 /\ worker # "joined"
         THEN inputDone' = TRUE /\ worker' = Notify(worker) /\ pc' = "catchjoin"
         ELSE pc' = "unwind" /\ UNCHANGED <<inputDone, worker>>
    /\ UNCHANGED <<opt, code, setup, held, frame, slotVars, workerError, drain, outVars>>

CatchJoin ==
    /\ pc = "catchjoin" /\ worker = "gone"
    /\ worker' = "joined" /\ pc' = "unwind"
    /\ UNCHANGED <<opt, code, setup, held, frame, slotVars, endVars, drain, outVars>>

\* EOS, then the gates: the measured ones may go either way.
Gates(ok, realtime, robust) ==
    /\ pc = "eos"
    /\ robust => realtime
    /\ LET requested == /\ opt.loss = 0 \/ dropped = 1
                        /\ opt.loss # 0 /\ opt.invalidate => invalidated
                        /\ opt.idr = 0 \/ idrSent
           passed == (IF opt.robust THEN robust ELSE realtime) /\ requested
       IN  code' = IF ~ok THEN 3 ELSE IF passed THEN 0 ELSE 1
    /\ pc' = "unwind"
    /\ UNCHANGED <<opt, setup, held, frame, slotVars, endVars, worker, drain, outVars>>

\* The destructors, one object at a time.
Unwind ==
    /\ pc = "unwind"
    /\ LET left == {i \in DOMAIN ReleaseOrder : ReleaseOrder[i] \in held}
       IN  IF left = {} THEN pc' = "exit" /\ held' = held
                        ELSE held' = held \ {ReleaseOrder[Min(left)]} /\ pc' = pc
    /\ UNCHANGED <<opt, code, setup, frame, slotVars, endVars, worker, drain, outVars>>

-----------------------------------------------------------------------------
(* Draining a slot, by the worker or (depth 0) by the main thread *)

\* Mutation: the dying worker does not notify slot_released.
DrainFailsSilently ==
    /\ drain' = <<>>
    /\ IF opt.depth = 1
         THEN /\ workerError' = TRUE /\ inputDone' = TRUE
              /\ worker' = "gone" /\ UNCHANGED <<pc, code>>
         ELSE Throw /\ UNCHANGED <<workerError, inputDone, worker>>

\* What a failing drain_slot does: the worker's catch, or an exception.
DrainFails ==
    /\ drain' = <<>>
    /\ IF opt.depth = 1
         THEN /\ workerError' = TRUE /\ inputDone' = TRUE
              /\ worker' = "gone" /\ pc' = Notify(pc) /\ code' = code
         ELSE Throw /\ UNCHANGED <<workerError, inputDone, worker>>

\* nvEncLockBitstream waits for the picture: the surface is read until then.
DrainLock(ok) ==
    /\ drain # <<>> /\ drain[2] = "lock"
    /\ IF ok THEN /\ held' = held \cup {<<"locked", drain[1]>>}
                  /\ drain' = <<drain[1], "write">>
                  /\ UNCHANGED <<pc, code, endVars, worker>>
             ELSE DrainFails /\ held' = held
    /\ UNCHANGED <<opt, setup, frame, slotVars, outVars>>

\* The reference file, then the bitstream file, which skips the lost frame.
DrainWrite(ok) ==
    /\ drain # <<>> /\ drain[2] = "write"
    /\ LET lost == opt.loss # 0 /\ stamp[drain[1]] = opt.loss
           content == surface[drain[1]]
       IN  IF ok THEN /\ dropped' = IF lost THEN dropped + 1 ELSE dropped
                      /\ written' = IF lost THEN written ELSE Append(written, content)
                      /\ reference' = IF opt.reference = "none" THEN reference
                                      ELSE Append(reference, content)
                      /\ drain' = <<drain[1], "unlock">>
                      /\ UNCHANGED <<pc, code, endVars, worker>>
                 ELSE DrainFails /\ UNCHANGED <<written, reference, dropped>>
    /\ UNCHANGED <<opt, setup, held, frame, slotVars, invalidated, idrSent>>

\* Unlock, then unmap; a drained slot goes back to its owner.
DrainRelease(ok) ==
    /\ drain # <<>> /\ drain[2] \in {"unlock", "unmap"}
    /\ IF ~ok THEN DrainFails /\ UNCHANGED <<held, frame>>
       ELSE IF drain[2] = "unlock"
         THEN /\ held' = held \ {<<"locked", drain[1]>>}
              /\ drain' = <<drain[1], "unmap">>
              /\ UNCHANGED <<pc, code, endVars, worker, frame>>
         ELSE /\ held' = held \ {<<"mapped", drain[1]>>}
              /\ code' = code /\ UNCHANGED endVars
              /\ IF opt.depth = 1
                   THEN /\ worker' = "release" /\ drain' = <<drain[1], "done">>
                        /\ UNCHANGED <<pc, frame>>
                   ELSE /\ pc' = "check" /\ frame' = frame + 1 /\ worker' = worker
                        /\ drain' = <<>>
    /\ UNCHANGED <<opt, setup, slotVars, outVars>>

\* output_ready.wait with its predicate, and taking the front of the queue.
WorkerTake ==
    /\ worker = "check"
    /\ IF pending # <<>>
         THEN /\ drain' = <<Head(pending), "lock">> /\ pending' = Tail(pending)
              /\ worker' = "drain"
         ELSE /\ worker' = IF inputDone THEN "gone" ELSE "sleep"
              /\ UNCHANGED <<drain, pending>>
    /\ UNCHANGED <<progVars, held, frame, surface, stamp, inUse, endVars, outVars>>

WorkerRelease ==
    /\ worker = "release"
    /\ inUse' = [inUse EXCEPT ![drain[1]] = FALSE]
    /\ drain' = <<>> /\ worker' = "notify"
    /\ UNCHANGED <<progVars, held, frame, surface, stamp, pending, endVars, outVars>>

WorkerNotify ==
    /\ worker = "notify"
    /\ worker' = "check" /\ pc' = Notify(pc)
    /\ UNCHANGED <<opt, code, setup, held, frame, slotVars, endVars, drain, outVars>>

-----------------------------------------------------------------------------
MainStep ==
    \/ ParseOptions \/ StartLoop \/ WaitForSlot \/ HandOff
    \/ FinishInput \/ Join \/ Catch \/ CatchJoin \/ Unwind
    \/ \E ok \in BOOLEAN :
         Acquire(ok) \/ Invalidate(ok) \/ Grab(ok) \/ Convert(ok) \/ Map(ok) \/ Submit(ok)
    \/ \E ok, realtime, robust \in BOOLEAN : Gates(ok, realtime, robust)
DrainStep == \E ok \in BOOLEAN : DrainLock(ok) \/ DrainWrite(ok) \/ DrainRelease(ok)
WorkerStep == WorkerTake \/ WorkerRelease \/ WorkerNotify
PipelineNext == MainStep \/ DrainStep \/ WorkerStep

\* Both threads are scheduled: the process runs until it exits.
PipelineFairness ==
    /\ WF_pipelineVars(MainStep) /\ WF_pipelineVars(DrainStep)
    /\ WF_pipelineVars(WorkerStep)
PipelineSpec == PipelineInit /\ [][PipelineNext]_pipelineVars /\ PipelineFairness

-----------------------------------------------------------------------------
(* Properties *)

\* Driver objects nest: whatever exists has everything it was made from, through
\* every failing set-up step, a worker that died holding a lock, and ~Resources
\* (line 252); the worker is joined before the objects it uses go; and the process
\* ends holding nothing but, where it ends in the self test's failing allocation
\* (lines 384 and 424), the source that one leaves.
ResourcesNest ==
    /\ \A r \in held : Needs(r) \subseteq held
    /\ pc = "exit" => held \subseteq {TestSource}
    /\ TestSource \in held => code = 3 /\ setup = Len(CudaSetup)
    /\ pc \in {"unwind", "exit"} => worker \in {"none", "joined"}

\* The frames up to the n-th without the one that is lost.
Kept(n) == IF opt.loss \in 1..n THEN [i \in 1..n - 1 |-> IF i < opt.loss THEN i ELSE i + 1]
           ELSE [i \in 1..n |-> i]

\* The bitstream holds the captured frames in order, each once and with its own
\* picture (no slot is overwritten before its drain is done), without the frame
\* whose loss is simulated; the reference file holds that one too; a run that
\* exits 0 has written them all.
FramesInOrder ==
    LET done == Len(written) + dropped
    IN  /\ written = Kept(done)
        /\ reference = IF opt.reference = "none" THEN <<>> ELSE [i \in 1..done |-> i]
        /\ code = 0 => done = opt.frames

\* The encoder is told of the lost frame only after that frame's output has been
\* taken and thrown away: with two slots, waiting for the slot of frame loss + 2
\* orders the two (why line 940 asks for two feedback frames).
InvalidateAfterLoss == invalidated => dropped = 1

\* Two things the self test's one row of four pixels cannot tell.  The kernel's
\* thresholds are the reference's rounding on every byte.  And its stores, which
\* leave the pitch out within a plane, land where the encoder reads in the first
\* row, and in the others exactly where the pitch is the row length: what the
\* surfaces of cuMemAllocPitch (line 653) have is up to the driver.
ConversionExact ==
    setup > Len(CudaSetup) =>
      /\ \A v \in 0..255 : 64 * KernelExpand(v) = ExpandToMsbAligned10(v)
      /\ \A x \in 0..2, y \in 0..1, plane \in 1..3, bytes \in 1..2 :
           \A pitch \in 3 * bytes..3 * bytes + 2 :
             KernelOffset(3 * y + x, plane, 2, pitch, bytes) = EncoderOffset(x, y, plane, 2, pitch, bytes)
               <=> y = 0 \/ pitch = 3 * bytes

\* No wake-up is lost between the two threads (lines 1106, 1143): the probe ends,
\* whatever call fails and whoever fails first.
PipelineEnds == pc = "exit"
====
