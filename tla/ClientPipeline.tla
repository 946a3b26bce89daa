---- MODULE ClientPipeline ----
(***************************************************************************)
(* The decode / present qualification pipeline of                          *)
(* src/probes/video/plank-probe-client-pipeline.cpp.  The streaming thread *)
(* of the decoder stamps what goes in and hands over what comes out; in    *)
(* the threaded modes a worker presents the samples through a one-sample   *)
(* slot, in the asynchronous ones with several frames in flight to the     *)
(* compositor.  The main thread waits for the end and joins everybody.     *)
(*                                                                         *)
(* A frame is its number; the decoder is external and emits one sample per *)
(* buffer, in order, at most DecoderDepth late.                            *)
(***************************************************************************)
EXTENDS Integers, Sequences, SequencesExt

CONSTANTS
    ClientOptions,   \* the command lines explored, with the stream's length
    DecoderDepth     \* bound: how many frames the decoder keeps back

ASSUME ClientAssumption ==
    /\ DecoderDepth \in Nat
    /\ \A o \in ClientOptions : {o.frames, o.lead, o.limit, o.stream} \subseteq Nat

VARIABLES
    cl,          \* the main thread: options, place, exit code, set-up step, message seen
    graphics,    \* the graphics objects that exist
    stream,      \* the streaming thread: buffers fed, frames inside, place, sample held
    stamps,      \* submit_queue
    ready,       \* ready_sample and ready_submit: <<>> or <<sample>>
    stopping,    \* producer_done, worker_stop and failed
    presenter,   \* presentation_worker's place, and process_sample's
    flight,      \* the frames whose feedback the compositor owes (async)
    shown,       \* the presentations recorded, as samples with their stamps
    alive,       \* the samples that have not been unreferenced
    bus          \* the message on the bus: "none", "eos" or "error"

clientVars == <<cl, graphics, stream, stamps, ready, stopping, presenter, flight,
                shown, alive, bus>>

-----------------------------------------------------------------------------
(* Command line and graphics *)

Async(o) == o.mode \in {"async", "async-nofifo"}
Threaded(o) == o.mode # "serial"

\* The longest submit lead, in microseconds: one refresh.
LeadLimit == 16666

ClientOptionsValid(o) ==
    /\ o.frames > 0
    /\ o.lead \in 0..LeadLimit
    /\ o.mode \in {"serial", "threaded", "async", "async-nofifo"}
    /\ o.limit # 0 => Async(o) /\ o.limit <= 4

\* async_inflight_limit: one unless the option was given.
Limit == IF cl.opt.limit = 0 THEN 1 ELSE cl.opt.limit

\* The objects in the order initialize_graphics makes them (the registry may announce its
\* globals in any order).
GraphicsSetup ==
    <<"display", "timing_manager", "fifo_manager", "compositor", "wm_base", "presentation",
      "surface", "timer", "fifo", "xdg_surface", "toplevel",
      "egl_display", "window", "egl_surface", "context", "program", "vertex_array">>

\* What may turn out not to exist without a failure there and then: a global the registry
\* does not announce, a protocol object whose manager is not there, an EGL object.
Globals == {"timing_manager", "fifo_manager", "compositor", "wm_base", "presentation"}
EglObjects == {"window", "egl_surface", "context"}
Dependent == {"timer", "fifo", "egl_surface"}

\* What the checks before an object ask for.
Checked(g) ==
    CASE g = "surface" -> {"compositor", "wm_base", "presentation"}
      [] g = "program" -> EglObjects
      [] OTHER -> {}

\* Before these a check or a call may fail.
Failing == {"display", "surface", "egl_display", "window", "program", "vertex_array"}

\* What no handle of State leads to, so that shutdown_graphics does not delete it (the
\* context and the display take it with them): one shader if the other does not compile,
\* the image and the texture of a frame whose drawing failed.
Leftovers == {"shader", "image", "texture"}
SetupLeaves(g) == IF g = "program" THEN {{}, {"shader"}} ELSE {{}}
ImportLeaves == {{}, {"image"}, {"image", "texture"}}

\* shutdown_graphics.
GraphicsRelease ==
    <<"vertex_array", "program", "context", "egl_surface", "egl_display", "window",
      "toplevel", "xdg_surface", "timer", "fifo", "surface", "presentation",
      "timing_manager", "fifo_manager", "wm_base", "compositor", "display">>

GraphicsNeeds(g) ==
    CASE g \in {"program", "vertex_array"} -> {"context"}
      [] g = "context" -> {"egl_display"}
      [] g = "egl_surface" -> {"egl_display", "window"}
      [] g = "window" -> {"surface"}
      [] g = "toplevel" -> {"xdg_surface"}
      [] g = "xdg_surface" -> {"surface", "wm_base"}
      [] g = "timer" -> {"surface", "timing_manager"}
      [] g = "fifo" -> {"surface", "fifo_manager"}
      [] g = "surface" -> {"compositor"}
      [] g \in Leftovers \cup {"display"} -> {}
      [] OTHER -> {"display"}

-----------------------------------------------------------------------------
ClientInit ==
    /\ \E o \in ClientOptions :
         cl = [opt |-> o, pc |-> "options", code |-> -1, step |-> 0, eos |-> FALSE]
    /\ graphics = {}
    /\ stream = [fed |-> 0, inside |-> <<>>, pc |-> "off", sample |-> <<>>, queued |-> 0]
    /\ stamps = <<>> /\ ready = <<>>
    /\ stopping = [done |-> FALSE, stop |-> FALSE, failed |-> FALSE]
    /\ presenter = [pc |-> "none", stage |-> "none", sample |-> <<>>]
    /\ flight = <<>> /\ shown = <<>> /\ alive = {} /\ bus = "none"

mainOnly == <<stream, stamps, ready, stopping, presenter, flight, shown, alive, bus>>

\* A notification wakes the thread it finds asleep, to test its predicate again.
Woken(pc) == IF pc = "sleep" THEN "check" ELSE pc

ClientParse ==
    /\ cl.pc = "options"
    /\ cl' = IF ClientOptionsValid(cl.opt) THEN [cl EXCEPT !.pc = "graphics"]
             ELSE [cl EXCEPT !.pc = "exit", !.code = 2]
    /\ UNCHANGED <<graphics, mainOnly>>

\* One object of initialize_graphics is made, or is not there, or a failure shuts down
\* what there is.
Outcomes == {"made", "absent", "failed"}
InitializeGraphics(outcome) ==
    /\ cl.pc = "graphics" /\ cl.step < Len(GraphicsSetup)
    /\ LET object == GraphicsSetup[cl.step + 1]
           possible == object \in Dependent => GraphicsNeeds(object) \subseteq graphics
       IN  \/ /\ outcome = "made" /\ possible /\ Checked(object) \subseteq graphics
              /\ graphics' = graphics \cup {object}
              /\ cl' = [cl EXCEPT !.step = @ + 1]
           \/ /\ outcome = "absent" /\ (object \in Globals \cup EglObjects \/ ~possible)
              /\ graphics' = graphics
              /\ cl' = [cl EXCEPT !.step = @ + 1]
           \/ /\ outcome = "failed" /\ object \in Failing
              /\ \E left \in SetupLeaves(object) : graphics' = graphics \cup left
              /\ cl' = [cl EXCEPT !.pc = "shutdown", !.code = 3]
    /\ UNCHANGED mainOnly

\* establish_presentation_phase: frames until the compositor has told its refresh; one
\* that is not presented is a failure.
EstablishPhase(ok) ==
    /\ cl.pc = "graphics" /\ cl.step = Len(GraphicsSetup)
    /\ cl' = IF ok THEN [cl EXCEPT !.step = @ + 1] ELSE [cl EXCEPT !.pc = "shutdown", !.code = 3]
    /\ UNCHANGED <<graphics, mainOnly>>

\* gst_parse_launch, the elements, the worker, and PLAYING.
StartPlaying(ok) ==
    /\ cl.pc = "graphics" /\ cl.step = Len(GraphicsSetup) + 1
    /\ IF ok THEN /\ cl' = [cl EXCEPT !.pc = "wait"]
                  /\ stream' = [stream EXCEPT !.pc = "idle"]
                  /\ presenter' = [presenter EXCEPT
                                     !.pc = IF Threaded(cl.opt) THEN "check" ELSE "none"]
             ELSE /\ cl' = [cl EXCEPT !.pc = "shutdown", !.code = 4]
                  /\ UNCHANGED <<stream, presenter>>
    /\ UNCHANGED <<graphics, stamps, ready, stopping, flight, shown, alive, bus>>

\* The bus answers: tell the worker and everybody asleep.
PopMessage ==
    /\ cl.pc = "wait" /\ bus # "none"
    /\ cl' = [cl EXCEPT !.pc = "join", !.eos = bus = "eos"]
    /\ IF Threaded(cl.opt)
         THEN /\ stopping' = [stopping EXCEPT !.done = TRUE, !.stop = @ \/ bus = "error"]
              /\ presenter' = [presenter EXCEPT !.pc = Woken(@)]
              /\ stream' = [stream EXCEPT !.pc = Woken(@)]
         ELSE UNCHANGED <<stopping, presenter, stream>>
    /\ UNCHANGED <<graphics, stamps, ready, flight, shown, alive, bus>>

\* worker.join(), then GST_STATE_NULL, which waits for the streaming thread.
JoinAndStop(paced) ==
    /\ cl.pc = "join"
    /\ presenter.pc \in {"none", "gone"} /\ stream.pc \in {"idle", "ended"}
    /\ LET passed == /\ cl.eos /\ ~stopping.failed /\ paced
                     /\ Len(shown) = cl.opt.frames
       IN  cl' = [cl EXCEPT !.pc = "shutdown", !.code = IF passed THEN 0 ELSE 1]
    /\ stream' = [stream EXCEPT !.pc = "off", !.inside = <<>>]
    /\ UNCHANGED <<graphics, stamps, ready, stopping, presenter, flight, shown, alive, bus>>

ShutdownGraphics ==
    /\ cl.pc = "shutdown"
    /\ LET left == {i \in DOMAIN GraphicsRelease : GraphicsRelease[i] \in graphics}
       IN  IF left = {} THEN cl' = [cl EXCEPT !.pc = "exit"] /\ graphics' = graphics
                        ELSE graphics' = graphics \ {GraphicsRelease[Min(left)]} /\ cl' = cl
    /\ UNCHANGED mainOnly

-----------------------------------------------------------------------------
(* The streaming thread *)

\* on_decoder_input: a buffer is stamped; a failed sleep drops it before that.
OnDecoderInput(ok) ==
    /\ stream.pc = "idle" /\ stream.fed < cl.opt.stream
    /\ Len(stream.inside) < DecoderDepth + 1
    /\ ok \/ cl.opt.lead # 0
    /\ LET frame == stream.fed + 1
       IN  IF ok THEN /\ stream' = [stream EXCEPT !.fed = frame, !.inside = Append(@, frame)]
                      /\ stamps' = Append(stamps, frame)
                      /\ stopping' = stopping
                 ELSE /\ stream' = [stream EXCEPT !.fed = frame]
                      /\ stopping' = [stopping EXCEPT !.failed = TRUE]
                      /\ stamps' = stamps
    /\ UNCHANGED <<cl, graphics, ready, presenter, flight, shown, alive, bus>>

\* on_new_sample, up to the wait for the slot: the oldest stamp goes with it.
OnNewSample ==
    /\ stream.pc = "idle" /\ stream.inside # <<>>
    /\ LET frame == Head(stream.inside)
       IN  IF stamps = <<>>
             THEN /\ stopping' = [stopping EXCEPT !.failed = TRUE]
                  /\ stream' = [stream EXCEPT !.inside = Tail(@), !.pc = "ended"]
                  /\ bus' = "error" /\ UNCHANGED <<stamps, presenter, alive>>
             ELSE LET sample == [frame |-> frame, stamp |-> Head(stamps)]
                  IN  /\ stamps' = Tail(stamps)
                      /\ alive' = alive \cup {frame}
                      /\ stream' = [stream EXCEPT
                            !.inside = Tail(@), !.sample = <<sample>>,
                            !.queued = IF Threaded(cl.opt) THEN @ ELSE @ + 1,
                            !.pc = IF Threaded(cl.opt) THEN "check" ELSE "present"]
                      /\ presenter' = IF Threaded(cl.opt) THEN presenter
                                      ELSE [presenter EXCEPT !.stage = "admit",
                                                             !.sample = <<sample>>]
                      /\ UNCHANGED <<stopping, bus>>
    /\ UNCHANGED <<cl, graphics, ready, flight, shown>>

\* What on_new_sample's return does: the source posts the end or an error.
Returned(pc, n) == IF pc = "error" THEN "error" ELSE IF n >= cl.opt.frames THEN "eos" ELSE bus

\* ready_consumed.wait with its predicate, then the hand-over.
PutReady ==
    /\ stream.pc = "check"
    /\ \/ /\ stopping.stop
          /\ alive' = alive \ {stream.sample[1].frame}
          /\ stream' = [stream EXCEPT !.pc = "ended", !.sample = <<>>]
          /\ bus' = "error" /\ UNCHANGED <<ready, presenter>>
       \/ /\ ~stopping.stop /\ ready # <<>>
          /\ stream' = [stream EXCEPT !.pc = "sleep"]
          /\ UNCHANGED <<ready, presenter, alive, bus>>
       \/ /\ ~stopping.stop /\ ready = <<>>
          /\ ready' = stream.sample
          /\ presenter' = [presenter EXCEPT !.pc = Woken(@)]
          /\ LET n == stream.queued + 1
             IN  /\ stream' = [stream EXCEPT !.queued = n, !.sample = <<>>,
                                 !.pc = IF n >= cl.opt.frames THEN "ended" ELSE "idle"]
                 /\ bus' = Returned("ok", n)
          /\ alive' = alive
    /\ UNCHANGED <<cl, graphics, stamps, stopping, flight, shown>>

\* The stream is over, or the decoder fails.
StreamEnds(how) ==
    /\ stream.pc = "idle" /\ cl.pc = "wait" /\ how \in {"eos", "error"}
    /\ how = "eos" => stream.fed = cl.opt.stream /\ stream.inside = <<>>
    /\ bus' = how /\ stream' = [stream EXCEPT !.pc = "ended"]
    /\ UNCHANGED <<cl, graphics, stamps, ready, stopping, presenter, flight, shown, alive>>

-----------------------------------------------------------------------------
(* presentation_worker *)

WorkerEnds(p) == [p EXCEPT !.pc = IF Async(cl.opt) THEN "drain" ELSE "gone"]

\* ready_available.wait with its predicate, and what is done under the lock.
TakeReady ==
    /\ presenter.pc = "check"
    /\ \/ /\ stopping.stop
          /\ alive' = alive \ {s.frame : s \in ToSet(ready)}
          /\ ready' = <<>>
          /\ presenter' = WorkerEnds(presenter)
          /\ stream' = [stream EXCEPT !.pc = Woken(@)]
       \/ /\ ~stopping.stop /\ ready = <<>>
          /\ presenter' = IF stopping.done THEN WorkerEnds(presenter)
                          ELSE [presenter EXCEPT !.pc = "sleep"]
          /\ UNCHANGED <<ready, stream, alive>>
       \/ /\ ~stopping.stop /\ ready # <<>>
          /\ presenter' = [pc |-> "taken", stage |-> "none", sample |-> ready]
          /\ ready' = <<>>
          /\ UNCHANGED <<stream, alive>>
    /\ UNCHANGED <<cl, graphics, stamps, stopping, flight, shown, bus>>

\* ready_consumed.notify_one, after the lock is released.
AnnounceTaken ==
    /\ presenter.pc = "taken"
    /\ presenter' = [presenter EXCEPT !.pc = "present", !.stage = "admit"]
    /\ stream' = [stream EXCEPT !.pc = Woken(@)]
    /\ UNCHANGED <<cl, graphics, stamps, ready, stopping, flight, shown, alive, bus>>

-----------------------------------------------------------------------------
(* process_sample, on the worker or (serial) on the streaming thread *)

\* The sample is unreferenced and its owner goes on, or stops everything.
Processed(valid) ==
    /\ alive' = alive \ {presenter.sample[1].frame}
    /\ stopping' = [stopping EXCEPT !.failed = @ \/ ~valid,
                                    !.stop = @ \/ (~valid /\ Threaded(cl.opt))]
    /\ LET idle == [presenter EXCEPT !.stage = "none", !.sample = <<>>]
       IN  IF Threaded(cl.opt)
             THEN /\ presenter' = IF valid THEN [idle EXCEPT !.pc = "check"]
                                  ELSE WorkerEnds(idle)
                  /\ stream' = [stream EXCEPT !.pc = IF valid THEN @ ELSE Woken(@)]
                  /\ bus' = bus
             ELSE LET n == Len(shown')
                      ends == ~valid \/ n >= cl.opt.frames
                  IN  /\ presenter' = idle
                      /\ bus' = IF valid THEN Returned("ok", n) ELSE "error"
                      /\ stream' = [stream EXCEPT !.sample = <<>>,
                                      !.pc = IF ends THEN "ended" ELSE "idle"]

\* Wait for room in flight, then drop a frame whose target time has passed.
Admit(stale) ==
    /\ presenter.stage = "admit"
    /\ Async(cl.opt) => Len(flight) < Limit
    /\ stale => Async(cl.opt) /\ cl.opt.lead # 0
    /\ IF stale THEN Processed(TRUE) /\ shown' = shown
       ELSE /\ presenter' = [presenter EXCEPT !.stage = "check"]
            /\ UNCHANGED <<stream, stopping, shown, alive, bus>>
    /\ UNCHANGED <<cl, graphics, stamps, ready, flight>>

\* The sample is one Y410 buffer in DMA memory, or else it is not presented.
CheckSample(ok) ==
    /\ presenter.stage = "check"
    /\ IF ok THEN /\ presenter' = [presenter EXCEPT !.stage = "import"]
                  /\ UNCHANGED <<stream, stopping, alive, bus>>
             ELSE Processed(FALSE)
    /\ UNCHANGED <<cl, graphics, stamps, ready, flight, shown>>

\* The import, the drawing and the swap; any of them may fail, and then the image and the
\* texture made so far stay.  (The compositor's feedback objects are not modelled, only the
\* answer they carry: their proxies live as long as the connection.)
ImportAndPresent(ok) ==
    /\ presenter.stage = "import"
    /\ IF ok THEN /\ presenter' = [presenter EXCEPT
                        !.stage = IF Async(cl.opt) THEN "roundtrip" ELSE "feedback"]
                  /\ flight' = Append(flight, presenter.sample[1])
                  /\ UNCHANGED <<graphics, stream, stopping, alive, bus>>
             ELSE /\ Processed(FALSE) /\ flight' = flight
                  /\ \E left \in ImportLeaves : graphics' = graphics \cup left
    /\ UNCHANGED <<cl, stamps, ready, shown>>

\* What the compositor answers: the frame was presented, with a time before that of the
\* submission or the decoding, or it was discarded.
Feedbacks == {"presented", "early", "discarded"}

\* record_presentation: the times make sense.
Recorded(feedback) == feedback = "presented"

\* on_presented or on_discarded while the synchronous modes wait for it.
OnFeedback(feedback) ==
    /\ presenter.stage = "feedback"
    /\ shown' = IF Recorded(feedback) THEN Append(shown, Head(flight)) ELSE shown
    /\ flight' = <<>>
    /\ Processed(Recorded(feedback))
    /\ UNCHANGED <<cl, graphics, stamps, ready>>

\* Events are handled only where the worker dispatches them.
Dispatching ==
    \/ presenter.stage = "roundtrip"
    \/ presenter.stage = "admit" /\ Len(flight) >= Limit
    \/ presenter.pc = "drain"

\* on_async_presented, which counts the frame whatever its time, or on_async_discarded.
OnAsyncFeedback(feedback) ==
    /\ Async(cl.opt) /\ Dispatching /\ flight # <<>>
    /\ shown' = IF feedback = "discarded" THEN shown ELSE Append(shown, Head(flight))
    /\ stopping' = [stopping EXCEPT !.failed = @ \/ ~Recorded(feedback)]
    /\ flight' = Tail(flight)
    /\ UNCHANGED <<cl, graphics, stream, stamps, ready, presenter, alive, bus>>

\* wl_display_roundtrip returns, with or without the feedback.
Roundtrip(ok) ==
    /\ presenter.stage = "roundtrip"
    /\ Processed(ok /\ ~stopping.failed)
    /\ UNCHANGED <<cl, graphics, stamps, ready, flight, shown>>

\* The connection fails while the worker waits for room or for the last frames.
DispatchFails ==
    /\ Async(cl.opt) /\ Dispatching /\ presenter.stage # "roundtrip" /\ flight # <<>>
    /\ IF presenter.pc = "drain"
         THEN /\ presenter' = [presenter EXCEPT !.pc = "gone"]
              /\ stopping' = [stopping EXCEPT !.failed = TRUE]
              /\ UNCHANGED <<stream, alive, bus>>
         ELSE Processed(FALSE)
    /\ UNCHANGED <<cl, graphics, stamps, ready, flight, shown>>

\* drain_async_feedback returns once nothing is in flight.
DrainAsyncFeedback ==
    /\ presenter.pc = "drain" /\ flight = <<>>
    /\ presenter' = [presenter EXCEPT !.pc = "gone"]
    /\ UNCHANGED <<cl, graphics, stream, stamps, ready, stopping, flight, shown, alive, bus>>

-----------------------------------------------------------------------------
ClientMain ==
    \/ ClientParse \/ PopMessage \/ ShutdownGraphics
    \/ \E outcome \in Outcomes : InitializeGraphics(outcome)
    \/ \E ok \in BOOLEAN : EstablishPhase(ok) \/ StartPlaying(ok) \/ JoinAndStop(ok)
Streaming ==
    \/ OnNewSample \/ PutReady
    \/ \E ok \in BOOLEAN : OnDecoderInput(ok)
    \/ \E how \in {"eos", "error"} : StreamEnds(how)
Presenting ==
    \/ TakeReady \/ AnnounceTaken \/ DispatchFails \/ DrainAsyncFeedback
    \/ \E ok \in BOOLEAN : Admit(ok) \/ CheckSample(ok) \/ ImportAndPresent(ok) \/ Roundtrip(ok)
    \/ \E feedback \in Feedbacks : OnFeedback(feedback) \/ OnAsyncFeedback(feedback)
ClientNext == ClientMain \/ Streaming \/ Presenting

\* The threads run, the decoder delivers and the compositor answers every commit.
ClientFairness ==
    /\ WF_clientVars(ClientMain) /\ WF_clientVars(Streaming)
    /\ WF_clientVars(Presenting)
ClientSpec == ClientInit /\ [][ClientNext]_clientVars /\ ClientFairness

-----------------------------------------------------------------------------
(* Properties *)

\* Frames are presented in order, none twice and each with the stamp it went in
\* with, never more than the limit in flight; a run that passes has presented
\* every frame asked for, with nothing in flight.
PresentedInOrder ==
    /\ \A i \in 1..Len(shown) : shown[i].stamp = shown[i].frame
    /\ \A i \in 1..Len(shown) - 1 : shown[i].frame < shown[i + 1].frame
    /\ cl.pc \notin {"options", "exit"} => Len(flight) <= Limit
    /\ cl.code = 0 => shown = [i \in 1..cl.opt.frames |-> [frame |-> i, stamp |-> i]]

\* Every sample is unreferenced by whoever ends up with it, whichever of the
\* three threads stops first (lines 779, 880, 897); the one exception is the
\* sample that waits in the slot when the worker fails, which nobody takes.  The
\* Wayland and EGL objects nest through a failing initialize_graphics and through
\* shutdown_graphics, which leaves none; what it cannot know of (Leftovers) is there
\* only after a shader or the drawing of a frame failed (lines 538, 624, 642 and 678),
\* never in a run that passes.
ClientReleases ==
    /\ cl.pc \in {"shutdown", "exit"} =>
         /\ alive = {s.frame : s \in ToSet(ready)}
         /\ alive # {} => stopping.failed /\ cl.code # 0
         /\ cl.code = 0 => flight = <<>>
    /\ \A g \in graphics : GraphicsNeeds(g) \subseteq graphics
    /\ cl.pc = "exit" => graphics \subseteq Leftovers
    /\ graphics \cap Leftovers # {} => cl.code # 0 /\ (cl.code = 3 \/ stopping.failed)

\* The probe ends: no thread sleeps on a condition nobody will signal again, and
\* the streaming thread leaves its callback before GST_STATE_NULL waits for it.
ClientEnds == cl.pc = "exit"
====
